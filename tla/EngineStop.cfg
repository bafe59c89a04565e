SPECIFICATION FairSpec
CONSTANTS
    f1 = f1
    stripe = stripe
    Worker = {w1, w2}
    Stopper = {s1, s2}
    Flow <- OneFlow
    Stripe = {stripe}
    bucket_for <- OneStripe
    NoFlow = NoFlow
    NoKind = NoKind
    Traffic <- PlainData
    DomainMode = "Off"
    FlowTracking = FALSE
    RstDrop = FALSE
    MaxPieces = 1
    MaxPackets = 2
    MaxRecvErrors = 1
    TTL = 0
    Budget = 2
    MaxLag = 0
CHECK_DEADLOCK FALSE
PROPERTIES StopTerminates ReceivedIsDecided
