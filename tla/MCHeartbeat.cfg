SPECIFICATION Spec
CONSTANTS
    Interval = 5
    ReadTimeout = 15
    Period = 5
    Timeout = 15
    Setup = 4
    Others = 2
    Prepare = 1
    Wait = 2
    Forth = 4
    Back = 4
INVARIANTS
    LiveKept
    SilenceEnds
CHECK_DEADLOCK FALSE
