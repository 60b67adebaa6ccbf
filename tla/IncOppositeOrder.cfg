SPECIFICATION OneFlowSpec
CONSTANTS
    High = 2
    Low = 1
    WireCap = 1
    Group <- PairGroup
    Switch <- OneTor
    Parent <- PairParent
    Op <- TwoOps
    Kind <- BothAllreduce
    Root <- RootTwo
    Size <- BothThree
    Needs <- Concurrent
    Programs <- BothListed
PROPERTIES
    AllComplete
CHECK_DEADLOCK FALSE
