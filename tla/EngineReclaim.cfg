SPECIFICATION Spec
CONSTANTS
    f1 = f1
    stripe = stripe
    Worker = {w1, w2}
    Stopper = {}
    Flow <- OneFlow
    Stripe = {stripe}
    bucket_for <- OneStripe
    NoFlow = NoFlow
    NoKind = NoKind
    Traffic <- Handshakes
    DomainMode = "Off"
    FlowTracking = TRUE
    RstDrop = FALSE
    MaxPieces = 1
    MaxPackets = 2
    MaxRecvErrors = 0
    TTL = 1
    Budget = 2
    MaxLag = 0
CHECK_DEADLOCK FALSE
INVARIANT ClaimOncePerFlow
