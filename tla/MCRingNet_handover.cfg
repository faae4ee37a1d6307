SPECIFICATION Spec
CONSTANTS
    NodeId <- MCNodeId
    Peer <- MCPeer
    Owner = 3
    OwnerPort = "port0"
    Menus = {{"fs", "clear"}, {"fail"}, {"ms"}}
    MaxCommands <- MCHandoverCommands
    Unhurried = TRUE
\* the commands run out, and a node that stopped sending is silent
CHECK_DEADLOCK FALSE
INVARIANTS
    LoopFree
    FramesAreBacked
    IdleRingIsOpen
