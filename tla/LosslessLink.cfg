\* Wires longer than a packet: several packets and frames in flight.
SPECIFICATION Spec
CONSTANTS
    High = 3
    Low = 2
    Service = 2
    DataDelay = 3
    PauseDelay = 6
    MaxBacklog = 3
INVARIANTS
    TypeOK
    SenderConsistent
    FlowControl
    BoundedOccupancy
PROPERTY NoLostResume
