SPECIFICATION Spec
CONSTANTS
    kMaxMtu = 100
    NextLens = {3, 6}
    MaxLosses = 1
    Segments <- AllSegments
    Params <- AllParams
    Pipelines <- AllPipelines
INVARIANTS TypeOK StreamInOrder NothingMissing HostnameIsHidden EmittedParsesBack
PROPERTY StreamCompletes
\* A stream that was acknowledged is the end.
CHECK_DEADLOCK FALSE
