------------------------------ MODULE RingSteps ------------------------------
(***************************************************************************)
(* ring_fsm statement by statement: the rows of RingFSM as lists of steps, *)
(* for the modules in which two calls on one ring may interleave.          *)
(*                                                                         *)
(* A step is one assignment or one condition, the assignments of a helper  *)
(* included.  A step is a tuple: its name, then its arguments.  What an    *)
(* assignment does to the ring is Assign; what a condition puts in front   *)
(* of the list is Inserted.  There is no state in this module.             *)
(***************************************************************************)
EXTENDS RingFSM, Sequences

-----------------------------------------------------------------------------
(***************************************************************************)
(* The statements of the rows of ring_fsm, in the order of the code.       *)
(***************************************************************************)
Block(p)     == << <<"block", p>> >>
Unblock(p)   == << <<"unblock", p>> >>
UnblockBoth  == Unblock("port0") \o Unblock("port1")
NonfailedBoth == << <<"nonfailed?", "port0">>, <<"nonfailed?", "port1">> >>
Start(timer) == << <<"start", timer>> >>
Stop(timer)  == << <<"stop", timer>> >>
TxStart(request, flags) == << <<"differs?", request, flags>>, <<"sending">> >>
TxStop       == << <<"silent">> >>

\* er_raps_encode clears the buffer, then writes it field by field.
EncodeSteps == << <<"wipe">>, <<"load_request">>, <<"store_request">>,
                  <<"load_flags">>, <<"store_flags">>, <<"store_node_id">> >>

\* Broken: the frame is encoded before the flags are known.
BurstSteps_EncodeFirst(request, flags) ==
    << <<"request", request>> >> \o EncodeSteps \o
    << <<"flags", flags>>, <<"burst">> >>

\* What start_tx does with a message that differs from the previous one.
BurstSteps(request, flags) ==
    << <<"request", request>>, <<"flags", flags>> >> \o EncodeSteps \o
    << <<"burst">> >>

Isolating(p, request, flags) == << <<"blocked?", p, request, flags>> >>

\* Broken: a port that has to be blocked is blocked last.
IsolateSteps_BlockLast(r, p, request, flags) ==
    IF p \in r.blocked
    THEN TxStart(request, flags \cup {"DNF"}) \o Unblock(OtherPort(p))
    ELSE TxStart(request, flags) \o Unblock(OtherPort(p)) \o Block(p)

IsolateSteps(r, p, request, flags) ==
    IF p \in r.blocked
    THEN TxStart(request, flags \cup {"DNF"}) \o Unblock(OtherPort(p))
    ELSE Block(p) \o TxStart(request, flags) \o Unblock(OtherPort(p))

OwnerStop(r)         == IF r.is_rpl_owner THEN Stop("wtr") \o Stop("wtb") ELSE <<>>
OwnerStart(r, timer) == IF r.is_rpl_owner /\ r.is_revertive THEN Start(timer)
                                                            ELSE <<>>
Yielding   == NonfailedBoth \o TxStop
Announcing(r, timer) == Start("guard") \o TxStart("NR", {}) \o OwnerStart(r, timer)

-----------------------------------------------------------------------------
(***************************************************************************)
(* The rows: the new state, "same" for the one read on entry, and the      *)
(* statements.                                                             *)
(***************************************************************************)
Row(new, steps) == [new |-> new, steps |-> steps]
NoRow           == Row("same", <<>>)

\* Rows 02 to 15.
IdleSteps(r, req, port, node) ==
    CASE req = "FS"         -> Row("FORCED_SWITCH", Isolating(port, "FS", {}))
      [] req = "SF"         -> Row("PROTECTION", Isolating(port, "SF", {}))
      [] req = "MS"         -> Row("MANUAL_SWITCH", Isolating(port, "MS", {}))
      [] req = "RAPS_FS"    -> Row("FORCED_SWITCH", UnblockBoth \o TxStop)
      [] req = "RAPS_SF"    -> Row("PROTECTION", Yielding)
      [] req = "RAPS_MS"    -> Row("MANUAL_SWITCH", Yielding)
      [] req = "RAPS_NR_RB" -> Row("same", Unblock(OtherPort(r.rpl_port)) \o
                                           IF r.is_rpl_owner THEN <<>> ELSE TxStop)
      [] req = "RAPS_NR" /\ IdleLosesTo(r, node) -> Row("same", Yielding)
      [] OTHER              -> NoRow

\* Rows 16 to 29.
ProtectionSteps(r, req, port) ==
    CASE req = "FS"         -> Row("FORCED_SWITCH", Isolating(port, "FS", {}))
      [] req = "SF"         -> Row("same", Isolating(port, "SF", {}))
      [] req = "RAPS_FS"    -> Row("FORCED_SWITCH", UnblockBoth \o TxStop)
      [] req = "CLEAR_SF"   -> Row("PENDING", Announcing(r, "wtr"))
      [] req = "RAPS_NR_RB" -> Row("PENDING", <<>>)
      [] req = "RAPS_NR"    -> Row("PENDING", OwnerStart(r, "wtr"))
      [] OTHER              -> NoRow

\* Rows 30 to 43.  A condition on the blocked ports guards rows 30 and 36; in
\* row 36 it chooses the new state too.
ManualSwitchSteps(r, req, port) ==
    CASE req = "CLEAR"      -> Row("PENDING", << <<"any_blocked?", "PENDING">> >>)
      [] req = "FS"         -> Row("FORCED_SWITCH", Isolating(port, "FS", {}))
      [] req = "SF"         -> Row("PROTECTION", Isolating(port, "SF", {}))
      [] req = "RAPS_FS"    -> Row("FORCED_SWITCH", UnblockBoth \o TxStop)
      [] req = "RAPS_SF"    -> Row("same", Yielding)
      [] req = "RAPS_MS"    -> Row("MANUAL_SWITCH", << <<"any_blocked?", "PENDING">> >>)
      [] req = "RAPS_NR_RB" -> Row("PENDING", <<>>)
      [] req = "RAPS_NR"    -> Row("PENDING", OwnerStart(r, "wtb"))
      [] OTHER              -> NoRow

\* Rows 44 to 57.
ForcedSwitchSteps(r, req, port) ==
    CASE req = "CLEAR"      -> Row("PENDING", << <<"any_blocked?", "PENDING">> >>)
      [] req = "FS"         -> Row("same", Block(port) \o TxStart("FS", {}))
      [] req = "RAPS_NR_RB" -> Row("PENDING", <<>>)
      [] req = "RAPS_NR"    -> Row("PENDING", OwnerStart(r, "wtb"))
      [] OTHER              -> NoRow

\* Rows 58, 66 and 68.
Reverting(r, stops) ==
    Row("IDLE", IF r.is_rpl_owner THEN stops \o Isolating(r.rpl_port, "NR", {"RB"})
                                  ELSE <<>>)

\* Broken: the neighbour blocks the port that is not its end of the RPL.
ObeyingRplBlocked_OtherPort(r) ==
    Row("IDLE", CASE r.is_rpl_owner     -> OwnerStop(r)
                  [] r.is_rpl_neighbour -> Block(OtherPort(r.rpl_port)) \o
                                           Unblock(r.rpl_port) \o TxStop
                  [] OTHER              -> UnblockBoth \o TxStop)

\* Row 70.
ObeyingRplBlocked(r) ==
    Row("IDLE", CASE r.is_rpl_owner     -> OwnerStop(r)
                  [] r.is_rpl_neighbour -> Block(r.rpl_port) \o
                                           Unblock(OtherPort(r.rpl_port)) \o TxStop
                  [] OTHER              -> UnblockBoth \o TxStop)

\* Rows 58 to 71.  A manual switch stops the timers first, the others last.
PendingSteps(r, req, port, node) ==
    CASE req = "CLEAR"       -> Reverting(r, OwnerStop(r))
      [] req = "WTR_EXPIRES" -> Reverting(r, Stop("wtb"))
      [] req = "WTB_EXPIRES" -> Reverting(r, Stop("wtr"))
      [] req = "FS"          -> Row("FORCED_SWITCH",
                                    Isolating(port, "FS", {}) \o OwnerStop(r))
      [] req = "SF"          -> Row("PROTECTION",
                                    Isolating(port, "SF", {}) \o OwnerStop(r))
      [] req = "MS"          -> Row("MANUAL_SWITCH",
                                    OwnerStop(r) \o Isolating(port, "MS", {}))
      [] req = "RAPS_FS"     -> Row("FORCED_SWITCH",
                                    UnblockBoth \o TxStop \o OwnerStop(r))
      [] req = "RAPS_SF"     -> Row("PROTECTION", Yielding \o OwnerStop(r))
      [] req = "RAPS_MS"     -> Row("MANUAL_SWITCH", Yielding \o OwnerStop(r))
      [] req = "RAPS_NR_RB"  -> ObeyingRplBlocked(r)
      [] req = "RAPS_NR" /\ LosesTo(r, node) -> Row("same", Yielding)
      [] OTHER               -> NoRow

\* switch (r->state).  Row 01 is over before calls can interleave.
RowSteps(r, req, port, node) ==
    CASE r.state = "IDLE"          -> IdleSteps(r, req, port, node)
      [] r.state = "PROTECTION"    -> ProtectionSteps(r, req, port)
      [] r.state = "MANUAL_SWITCH" -> ManualSwitchSteps(r, req, port)
      [] r.state = "FORCED_SWITCH" -> ForcedSwitchSteps(r, req, port)
      [] r.state = "PENDING"       -> PendingSteps(r, req, port, node)

-----------------------------------------------------------------------------
(***************************************************************************)
(* What the steps of a row do.                                             *)
(***************************************************************************)
Assignment == {"block", "unblock", "fail", "recover", "start", "stop", "request",
               "flags", "burst", "sending", "silent"}

\* What the assignments do to the ring.
Assign(r, step) ==
    CASE step[1] = "block"   -> BlockPort(r, step[2])
      [] step[1] = "unblock" -> UnblockPort(r, step[2])
      [] step[1] = "fail"    -> [r EXCEPT !.failed = @ \cup {step[2]}]
      [] step[1] = "recover" -> [r EXCEPT !.failed = @ \ {step[2]}]
      [] step[1] = "start"   -> StartTimer(r, step[2])
      [] step[1] = "stop"    -> StopTimers(r, {step[2]})
      [] step[1] = "request" -> [r EXCEPT !.raps.request = step[2]]
      [] step[1] = "flags"   -> [r EXCEPT !.raps.flags = step[2]]
      [] step[1] = "burst"   -> [r EXCEPT !.bursts_remain = RAPS_BURSTS]
      [] step[1] = "sending" -> [r EXCEPT !.is_sending_raps = TRUE]
      [] step[1] = "silent"  -> StopTx(r)

Condition == {"blocked?", "nonfailed?", "differs?", "any_blocked?"}

\* The statements that a condition chooses: of unblock_nonfailed_ports, start_tx,
\* the rows that block a port, and rows 30, 36 and 44.
Inserted(r, step) ==
    CASE step[1] = "blocked?"     -> IsolateSteps(r, step[2], step[3], step[4])
      [] step[1] = "nonfailed?"   -> IF step[2] \in r.failed THEN <<>>
                                                            ELSE Unblock(step[2])
      [] step[1] = "differs?"     -> IF r.raps = [request |-> step[2], flags |-> step[3]]
                                     THEN <<>> ELSE BurstSteps(step[2], step[3])
      [] step[1] = "any_blocked?" -> IF r.blocked = {} THEN <<>> ELSE Announcing(r, "wtb")

\* The condition chooses the new state as well.
Decides(r, step) == step[1] = "any_blocked?" /\ r.blocked # {}

\* The steps of er_raps_encode.
FrameStore == {"wipe", "store_request", "store_flags", "store_node_id"}
FrameLoad  == {"load_request", "load_flags"}

=============================================================================
