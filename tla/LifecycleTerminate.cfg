SPECIFICATION LifeSpec
CONSTANTS
    main_thread = main_thread
    h1 = h1
    h2 = h2
    Main = main_thread
    Handler <- OneHandler
    WantDns = TRUE
INVARIANT StopJoins
\* The process ends.
CHECK_DEADLOCK FALSE
