SPECIFICATION Spec
CONSTANTS
    kMaxMtu = 100
    NextLens = {3, 6}
    MaxLosses = 0
    Segments <- LongHellos
    Params <- AllParams
    Pipelines <- SplitOnly
INVARIANT ServerGetsOriginal
CHECK_DEADLOCK FALSE
