SPECIFICATION Spec
CONSTANT NodeId <- MCNodeId
\* the process may end (die)
CHECK_DEADLOCK FALSE
INVARIANT NoImpossibleDuplicate
