SPECIFICATION Spec
CONSTANTS
    NodeId <- MCNodeId
    Peer <- MCPeer
    Owner = 2
    OwnerPort = "port0"
    Menus = {{}}
    MaxCommands <- MCNoCommands
    Unhurried = TRUE
\* the commands run out, and a node that stopped sending is silent
CHECK_DEADLOCK FALSE
PROPERTY ForwardsToOpenPorts
