--------------------------- MODULE RingdThreadsClaims ---------------------------
(***************************************************************************)
(* A comment of ring.c about the retained request that the two threads do  *)
(* not keep.                                                               *)
(***************************************************************************)
EXTENDS RingdThreads

\* ring.c:932, where CLEAR is admitted: "we are in MS or FS state, caused by local
\* request (ring->local_request)".  One thread at a time keeps it (Ringd's
\* ForcedSwitchInForce); two do not: ring_fsm reads the state on entry and stores
\* its new state last, so that a row of one thread may end by overwriting the
\* FORCED_SWITCH that a command has entered in the meantime.
RetainedForcedSwitchIsInForce ==
    AtRest /\ alive /\ ring.local_request = "FS" => ring.state = "FORCED_SWITCH"

=============================================================================
