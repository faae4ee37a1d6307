SPECIFICATION FairSpec
CONSTANT NodeId <- MCNodeId
\* the process may end (die)
CHECK_DEADLOCK FALSE
PROPERTY WtbReverts
