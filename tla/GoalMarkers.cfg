SPECIFICATION Spec
CONSTANTS
    Group <- TrioGroup
    Op <- TwoOps
    Kind <- KindOf
    Root <- RootOf
    Size <- SizeOf
    Needs <- Apart
    Node <- Nodes
    Rank <- RankOf
    Task <- TaskOf
    Calc = "calc"
    Send = "send"
    Recv = "recv"
    Peer <- PeerOf
    Tag <- TagOf
    Requires <- RequiresOf
    IRequires <- IRequiresOf
PROPERTIES
    MarkersRun
CHECK_DEADLOCK FALSE
