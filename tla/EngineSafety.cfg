SPECIFICATION Spec
CONSTANTS
    f1 = f1
    stripe = stripe
    Worker = {w1, w2}
    Stopper = {s1}
    Flow <- OneFlow
    Stripe = {stripe}
    bucket_for <- OneStripe
    NoFlow = NoFlow
    NoKind = NoKind
    Traffic <- AllBranches
    DomainMode = "Allowlist"
    FlowTracking = TRUE
    RstDrop = TRUE
    MaxPieces = 2
    MaxPackets = 2
    MaxRecvErrors = 0
    TTL = 0
    Budget = 2
    MaxLag = 0
CHECK_DEADLOCK FALSE
INVARIANTS Inv HandleOutlivesWorkers CountersBalance ClaimOncePerWorker
PROPERTY ImplementsPacketService
