SPECIFICATION Spec
CONSTANTS
    Pods = 2
    TorsPerPod = 2
    HostsPerTor = 2
    AggsPerPod = 2
    Uplinks = 2
    Pin <- Pins
    MaxGroups = 4
INVARIANTS
    TypeOK
    RoutesAgree
    FloodExact
    BarrierMatchesSenders
CHECK_DEADLOCK FALSE
