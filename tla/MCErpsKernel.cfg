SPECIFICATION Spec
CONSTANTS
    NodeId <- MCNodeId
    Interface = {"em0", "em1", "em2"}
    Caller = {ctl1, ctl2}
    Requests <- MCRequests
    ZeroNodeId = 1
    Traffic <- MCTraffic
    Spare = {"em2"}
    MaxRings = 2
    MaxCallbacks = 1
SYMMETRY Symmetry
\* the module may be gone, and a panic ends everything
CHECK_DEADLOCK FALSE
INVARIANTS
    TypeOK
    PublishedRingIsWhole
    LinkCallbackIsSafe
    RingKeepsItsLinks
    CleanUnload
