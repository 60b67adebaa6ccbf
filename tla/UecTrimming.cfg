SPECIFICATION Spec
CONSTANTS
    N = 5
    Windows = {2, 5, 8}
    MaxSize = 2
    RatioHigh = 2
    RatioLow = 1
INVARIANTS
    TypeOK
    OneCopy
    RepliesMeetTheirPacket
    FinishExact
PROPERTIES
    WithinWindow
    ServiceKept
    Completes
CHECK_DEADLOCK FALSE
