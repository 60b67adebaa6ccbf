SPECIFICATION Spec
CONSTANTS
    High = 2
    Low = 1
    Service = 2
    DataDelay = 1
    PauseDelay = 2
    DrainGap = 2
    MaxBacklog = 4
INVARIANTS
    TypeOK
    FramesKept
    NeverDequeuesNull
PROPERTY HostResumes
