SPECIFICATION Spec
CONSTANTS
    High = 2
    Low = 1
    WireCap = 1
    Group <- TrioGroup
    Switch <- TwoTors
    Parent <- TwoTorParent
    Op <- SevenOps
    Kind <- KindOfSeven
    Root <- RootOfSeven
    Size <- SizeOfSeven
    Needs <- NeedsOfSeven
    Programs <- FivePrograms
INVARIANTS
    TypeOK
    CleanAtRest
    ContributionsWhole
    ChargesHeld
    ExactlyOnce
PROPERTIES
    ImplementsCollective
    AllComplete
CHECK_DEADLOCK FALSE
