\* One call with and without input, a timeout of three polls, a grace of ten (5 s).
SPECIFICATION FairSpec
CONSTANTS
    Timeout = 3
    Grace = 10
    Patience = 4
INVARIANTS
    TypeOK
    NoToolLeftRunning
    CancelStopsTool
    CutOutputIsFlagged
    TimeoutHolds
PROPERTY
    CallReturns
CHECK_DEADLOCK FALSE
