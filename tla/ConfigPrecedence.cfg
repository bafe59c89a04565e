SPECIFICATION ParseSpec
CONSTANTS
    BadNumber = BadNumber
    Default = Default
    Number <- Numbers
    Options <- Levels
    MaxArgs = 1
    MaxLines = 1
INVARIANT Precedence
\* parse_args returns.
CHECK_DEADLOCK FALSE
