\* The ToR drains this host's packets through many ports at once.
SPECIFICATION Spec
CONSTANTS
    High = 2
    Low = 1
    Service = 2
    DataDelay = 1
    PauseDelay = 2
    DrainGap = 0
    MaxBacklog = 4
INVARIANT NeverDequeuesNull
