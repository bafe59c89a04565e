SPECIFICATION FairSpec
CONSTANTS
    k1 = k1
    k2 = k2
    up = up
    isp = isp
    Key <- TwoKeys
    NoKey = NoKey
    Resolver = {up, isp}
    upstream_ = up
    kNatTtl = 1
    Budget = 1
    MayStop = TRUE
    MaxAsks = 3
    MaxDups = 1
    MaxLosses = 1
CHECK_DEADLOCK FALSE
INVARIANTS TypeOK TranslatedWasAsked
PROPERTIES ImplementsRedirectService EventuallyAnswered
