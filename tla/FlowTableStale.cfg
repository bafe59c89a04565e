SPECIFICATION TableSpec
CONSTANTS
    k1 = k1
    k2 = k2
    stripe = stripe
    Key = {k1, k2}
    Stripe = {stripe}
    bucket_for <- OneStripe
    Caller = {c1, c2}
    NoKey = NoKey
    TTL = 1
    Budget = 1
    MaxLag = 1
PROPERTY NoStaleHit
