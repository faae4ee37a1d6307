SPECIFICATION Spec
CONSTANTS
    NodeId <- MCNodeId2
    Peer <- MCPeer2
    Owner = 1
    OwnerPort = "port0"
    Menus = {{"fail", "recover", "ms", "fs", "clear"}, {"fs", "clear"}}
    MaxCommands <- MCHastyCommands
    Unhurried = FALSE
\* the commands run out, and a node that stopped sending is silent
CHECK_DEADLOCK FALSE
INVARIANTS
    TypeOK
    LoopFree
    AnnouncerHoldsBlock
    FramesAreBacked
    OwnerIdleHoldsRpl
PROPERTY
    EveryNodeIsRingd
