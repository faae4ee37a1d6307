SPECIFICATION FairSpec
CONSTANTS
    NodeId <- MCNodeId2
    Peer <- MCPeer2
    Owner = 1
    OwnerPort = "port0"
    Menus = {{"fail", "recover"}}
    MaxCommands <- MCReopensCommands
    Unhurried = TRUE
\* the commands run out, and a node that stopped sending is silent
CHECK_DEADLOCK FALSE
PROPERTIES
    Reopens
    Settles
