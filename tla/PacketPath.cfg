SPECIFICATION PathSpec
CONSTANTS
    Char <- Chars
    Lower <- LowerOf
    Lines <- FileLines
    Hosts <- Asked
    MaxRules = 2
    TrafficOf <- Traffic
    RstDrop = TRUE
    Radix = 4
    AccMod = 256
    MaxLen = 6
    Pseudo <- Pseudos
    k1 = k1
    k2 = k2
    stripe = stripe
    Key = {k1, k2}
    Stripe = {stripe}
    bucket_for <- OneStripe
    Caller = {c1, c2}
    NoKey = NoKey
    TTL = 1
    Budget = 1
    MaxLag = 1
\* A packet that was decided and a segment that was received are the end.
CHECK_DEADLOCK FALSE
INVARIANTS PacketIsUnderstood ListMatchesByLabels HelloIsRead NameInsideHello HostIsFound StrategiesMeetTheRules SentIsValid DecoyIsRejected FlowTypeOK
PROPERTIES DamageIsNoticed MarkedUntilExpired StaleHitsOutOfReach ReachableIsSwept
