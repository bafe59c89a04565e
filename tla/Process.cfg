SPECIFICATION ProcessSpec
CONSTANTS
    BadNumber = BadNumber
    Default = Default
    Number <- Numbers
    Options <- Some
    MaxArgs = 2
    MaxLines = 2
    MaxHops = 12
    Distance <- Distances
    Configured <- AutoOrSet
    candidates <- TwoCandidates
    Attempts = 2
    Latency = {1, 3}
    Known <- KnownNames
    Configurations <- SomeStrategies
    main_thread = main_thread
    h1 = h1
    h2 = h2
    Main = main_thread
    Handler <- TwoHandlers
    WantDns = TRUE
INVARIANTS LastGoodHolds PortsOfOneList EngineIsPrepared DecoysDieEnRoute BestIsBest TypeOK OneTeardown ExitIsClean
PROPERTIES StartupEnds CtrlCEnds
\* The process ends.
CHECK_DEADLOCK FALSE
