SPECIFICATION Spec
CONSTANTS
    NodeId <- MCNodeId
    Interface = {"em0", "em1"}
    Caller = {ctl1}
    Requests <- MCRequests
    ZeroNodeId = 1
    Traffic <- MCTraffic
    Spare = {}
    MaxRings = 1
    MaxCallbacks = 1
\* the module may be gone, and a panic ends everything
CHECK_DEADLOCK FALSE
INVARIANT
    DataAvoidsBlockedPort
