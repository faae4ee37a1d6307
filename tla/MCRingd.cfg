SPECIFICATION FairSpec
CONSTANT NodeId <- MCNodeId
\* the process may end (die)
CHECK_DEADLOCK FALSE
INVARIANTS
    TypeOK
    NeverIsolated
    ForcedSwitchInForce
    RemoteForcedSwitch
    SignalFailInForce
    TimersOfPendingOwner
    AnnouncementInState
    NonOwnerIdle
    OnlyClearKills
PROPERTIES
    ForcedSwitchHolds
    SignalFailHolds
    WtrReverts
