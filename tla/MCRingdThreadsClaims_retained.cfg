SPECIFICATION Spec
CONSTANTS
    NodeId <- MCNodeId
    StartConfig <- MCStart
    Calls <- MCCalls
    Stack <- MCStack
\* the calls are counted, and the process may die
CHECK_DEADLOCK FALSE
INVARIANT
    RetainedForcedSwitchIsInForce
