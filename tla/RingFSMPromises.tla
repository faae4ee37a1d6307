--------------------------- MODULE RingFSMPromises ---------------------------
(***************************************************************************)
(* What the other nodes of a ring may count on, for every call of the      *)
(* control process.                                                        *)
(*                                                                         *)
(* First, what no call changes: who the node is, its role in the ring, and *)
(* that the flags it announces are flags of a frame.  And what only one    *)
(* message changes: that the owner in IDLE blocks its end of the RPL and   *)
(* nothing else.  An owner alone cannot promise it, because another node's *)
(* NR,RB takes it to IDLE as well (row 70); a ring with one owner can.     *)
(*                                                                         *)
(* Then, who gives way to what.  A node that announces something either    *)
(* goes on announcing, and stands for as much as before or has started its *)
(* guard timer, or it has been overruled by a message that stands for      *)
(* more.  And as long as it announces it has a port blocked, unless a      *)
(* recovery comes late.  RingNetProofs makes of it that a ring is never    *)
(* without a block.                                                        *)
(***************************************************************************)
EXTENDS RingFSMProofs

\* The identity, the roles and the announced flags of r, or flags of a frame.
Carries(s, r) ==
    /\ s.node_id          = r.node_id
    /\ s.is_rpl_owner     = r.is_rpl_owner
    /\ s.is_rpl_neighbour = r.is_rpl_neighbour
    /\ s.rpl_port         = r.rpl_port
    /\ s.raps.flags \subseteq r.raps.flags \cup {"DNF", "RB"}

\* The owner in IDLE blocks the RPL and nothing else.
HoldsRpl(r) == r.is_rpl_owner /\ r.state = "IDLE" => r.blocked = {r.rpl_port}

\* The owner never hears NR,RB.
Alone(r, req) == r.is_rpl_owner => r.rpl_port \in Port /\ req # "RAPS_NR_RB"

-----------------------------------------------------------------------------
\* block_port and unblock_port of the other port, and the message between them.
LEMMA IsolateCarries ==
    ASSUME NEW r \in Ring, NEW port \in Port, NEW request \in RapsRequest,
           NEW flags \in SUBSET {"DNF", "RB"},
           NEW s, s = Isolate(r, port, request, flags)
    PROVE  s \in Ring /\ s.blocked = {port} /\ Carries(s, r)
<1>1. flags \in SUBSET Flag
  BY DEF Flag
<1>2. s \in Ring /\ s.blocked = {port}
  BY <1>1, IsolateEffect
<1>3. Carries(s, r)
  BY DEF Isolate, StartTx, BlockPort, UnblockPort, Carries, Ring
<1> QED BY <1>2, <1>3

\* Row 01 replaces the flags byte 0xff of a fresh ring.
LEMMA InitCarries ==
    ASSUME NEW r \in Ring, r.state = "INIT",
           NEW s, s = InitRows(r)
    PROVE  Carries(s, r) /\ s.raps.flags = {} /\ s.state = "PENDING"
  BY DEF InitRows, StopTimers, BlockPort, UnblockPort, StartTx, OwnerStarts, StartTimer,
         Enter, Ring, Carries

\* Rows 02 to 15: an owner that stays in IDLE keeps its block.
LEMMA IdleCarries ==
    ASSUME NEW r \in Ring, r.state = "IDLE", NEW req, NEW port, NEW node,
           Alone(r, req), HoldsRpl(r),
           NEW s, s = IdleRows(r, req, port, node)
    PROVE  Carries(s, r) /\ HoldsRpl(s)
  BY DEF IdleRows, Isolate, BlockPort, UnblockPort, UnblockPorts, UnblockNonfailed,
         StartTx, StopTx, YieldTo, YieldToForced, IdleLosesTo, Enter,
         Ring, Carries, HoldsRpl, Alone

\* Rows 16 to 29 never lead to IDLE.
LEMMA ProtectionCarries ==
    ASSUME NEW r \in Ring, r.state = "PROTECTION", NEW req, NEW port,
           NEW s, s = ProtectionRows(r, req, port)
    PROVE  Carries(s, r) /\ s.state # "IDLE"
  BY DEF ProtectionRows, Isolate, BlockPort, UnblockPort, UnblockPorts, StartTx, StopTx,
         YieldToForced, AnnounceNR, OwnerStarts, StartTimer,
         Enter, Ring, Carries

\* Rows 30 to 43 never lead to IDLE.
LEMMA ManualSwitchCarries ==
    ASSUME NEW r \in Ring, r.state = "MANUAL_SWITCH", NEW req, NEW port,
           NEW s, s = ManualSwitchRows(r, req, port)
    PROVE  Carries(s, r) /\ s.state # "IDLE"
  BY DEF ManualSwitchRows, Isolate, BlockPort, UnblockPort, UnblockPorts,
         UnblockNonfailed, StartTx, StopTx, YieldTo, YieldToForced, AnnounceNR,
         OwnerStarts, StartTimer, Enter, Ring, Carries

\* Rows 44 to 57 never lead to IDLE.
LEMMA ForcedSwitchCarries ==
    ASSUME NEW r \in Ring, r.state = "FORCED_SWITCH", NEW req, NEW port,
           NEW s, s = ForcedSwitchRows(r, req, port)
    PROVE  Carries(s, r) /\ s.state # "IDLE"
  BY DEF ForcedSwitchRows, BlockPort, StartTx, AnnounceNR, OwnerStarts, StartTimer,
         Enter, Ring, Carries

\* Rows 58 to 71: the owner enters IDLE by reverting.
LEMMA PendingCarries ==
    ASSUME NEW r \in Ring, NEW req, NEW port, NEW node, r.state = "PENDING",
           Arguments(req, port, node),
           Alone(r, req), NEW s, s = PendingRows(r, req, port, node)
    PROVE  Carries(s, r) /\ HoldsRpl(s)
<1>1. CASE req \in {"CLEAR", "WTR_EXPIRES", "WTB_EXPIRES"}
  <2>1. PICK ts \in SUBSET Timer : s = Revert(r, ts)
    BY <1>1 DEF PendingRows, Timer
  <2>2. CASE r.is_rpl_owner
    <3> DEFINE t == StopTimers(r, ts)
               u == Isolate(t, r.rpl_port, "NR", {"RB"})
    <3>1. t \in Ring /\ Carries(t, r)
      BY DEF StopTimers, Ring, Carries
    <3>2. u \in Ring /\ u.blocked = {r.rpl_port} /\ Carries(u, t)
      BY <2>2, <3>1, IsolateCarries DEF RapsRequest, Alone
    <3>3. s = Enter(u, "IDLE")
      BY <2>1, <2>2 DEF Revert
    <3> HIDE DEF t, u
    <3> QED BY <3>1, <3>2, <3>3 DEF Enter, Ring, Carries, HoldsRpl
  <2>3. CASE ~r.is_rpl_owner
    BY <2>1, <2>3 DEF Revert, Enter, Ring, Carries, HoldsRpl
  <2> QED BY <2>2, <2>3
<1>2. CASE req \in {"FS", "SF", "MS"}
  <2> DEFINE u == Isolate(r, port, req, {})
  <2>1. u \in Ring /\ Carries(u, r)
    BY <1>2, IsolateCarries DEF RapsRequest, Arguments, PortRequest
  <2>2. PICK state \in RingState \ {"IDLE"} : s = Enter(OwnerStopsTimers(u), state)
    BY <1>2 DEF PendingRows, RingState
  <2> HIDE DEF u
  <2> QED BY <2>1, <2>2 DEF Enter, OwnerStopsTimers, StopTimers, Ring, Carries, HoldsRpl
<1>3. CASE req \in {"RAPS_FS", "RAPS_SF", "RAPS_MS"}
  BY <1>3 DEF PendingRows, Enter, OwnerStopsTimers, StopTimers, YieldTo,
              YieldToForced, UnblockNonfailed, UnblockPorts, StopTx, Ring, Carries,
              HoldsRpl
<1>4. CASE req = "RAPS_NR_RB"
  BY <1>4 DEF PendingRows, Enter, OwnerStopsTimers, StopTimers, UnblockPorts,
              StopTx, BlockPort, UnblockPort, Ring, Carries, HoldsRpl, ObeyRplBlocked,
              Alone
<1>5. CASE req \notin {"FS", "SF", "MS", "CLEAR", "WTR_EXPIRES", "WTB_EXPIRES",
                        "RAPS_FS", "RAPS_SF", "RAPS_MS", "RAPS_NR_RB"}
  BY <1>5 DEF PendingRows, Enter, YieldTo, UnblockNonfailed, StopTx, Ring, Carries,
              HoldsRpl
<1> QED BY <1>1, <1>2, <1>3, <1>4, <1>5

-----------------------------------------------------------------------------
\* The rows of every state but INIT.
LEMMA FsmCarries ==
    ASSUME NEW r \in Ring, r.state # "INIT", NEW req, NEW port, NEW node,
           Arguments(req, port, node), Alone(r, req), HoldsRpl(r),
           NEW s, s = FsmRows(r, req, port, node)
    PROVE  Carries(s, r) /\ HoldsRpl(s)
<1>1. CASE r.state = "IDLE"
  BY <1>1, IdleCarries DEF FsmRows
<1>2. CASE r.state = "PROTECTION"
  BY <1>2, ProtectionCarries DEF FsmRows, HoldsRpl
<1>3. CASE r.state = "MANUAL_SWITCH"
  BY <1>3, ManualSwitchCarries DEF FsmRows, HoldsRpl
<1>4. CASE r.state = "FORCED_SWITCH"
  BY <1>4, ForcedSwitchCarries DEF FsmRows, HoldsRpl
<1>5. CASE r.state = "PENDING"
  BY <1>5, PendingCarries DEF FsmRows
<1> QED BY <1>1, <1>2, <1>3, <1>4, <1>5 DEF Ring, RingState

\* ring_process_request, whatever becomes of the request.
LEMMA RequestCarries ==
    ASSUME NEW r, Sound(r), HoldsRpl(r),
           NEW req \in Request \ {"INVALID"}, NEW port, NEW node,
           Arguments(req, port, node), r.is_rpl_owner => req # "RAPS_NR_RB",
           NEW s, s = ProcessRequest(r, req, port, node)
    PROVE  Carries(s, r) /\ HoldsRpl(s)
<1>1. /\ r \in Ring
      /\ r.state # "INIT"
      /\ r.is_rpl_owner => r.rpl_port \in Port
  BY DEF Sound, Parts, StateOfRetained, Configured, Ring
<1>2. CASE ~Accepted(r, req)
  BY <1>1, <1>2 DEF ProcessRequest, Carries
<1>3. CASE Accepted(r, req) /\ PrevOf(req, port, node) = r.prev
  <2>1. s = [r EXCEPT !.local_request = Retained(req)]
    BY <1>1, <1>3 DEF ProcessRequest, RingFsm, Ring
  <2> QED BY <1>1, <2>1 DEF Ring, Carries, HoldsRpl
<1>4. CASE Accepted(r, req) /\ PrevOf(req, port, node) # r.prev
  <2> DEFINE t == Taken(r, req, port, node)
  <2>1. t \in Ring
    BY <1>1, TakenEffect DEF TakenFrom
  <2>2. /\ Carries(t, r)
        /\ t.state = r.state
        /\ t.blocked = r.blocked
        /\ t.raps = r.raps
    BY <1>1 DEF Taken, Ring, Carries
  <2>3. s = FsmRows(t, req, port, node)
    BY <1>1, <1>4, NewRequestTaken
  <2> HIDE DEF t
  <2>4. Alone(t, req) /\ HoldsRpl(t)
    BY <1>1, <2>2 DEF Alone, HoldsRpl, Carries
  <2>5. Carries(s, t) /\ HoldsRpl(s)
    BY <1>1, <2>1, <2>2, <2>3, <2>4, FsmCarries
  <2> QED BY <2>2, <2>5 DEF Carries
<1> QED BY <1>2, <1>3, <1>4

\* Stopping timers changes neither.
LEMMA StopTimersCarries ==
    ASSUME NEW r \in Ring, HoldsRpl(r), NEW timers,
           NEW s, s = StopTimers(r, timers)
    PROVE  Carries(s, r) /\ HoldsRpl(s)
  BY DEF StopTimers, Ring, Carries, HoldsRpl

\* process_raps_frame.
LEMMA RapsCarries ==
    ASSUME NEW r, Sound(r), HoldsRpl(r),
           NEW frame \in Frame, NEW port \in Port, NEW expired,
           r.is_rpl_owner => "RB" \notin frame.flags,
           NEW s, s = ProcessRaps(r, frame, port, expired)
    PROVE  Carries(s, r) /\ HoldsRpl(s)
<1> DEFINE req == RequestOf(frame)
           t   == StopTimers(r, {"guard"})
<1>1. CASE Guarded(r, expired)
  BY <1>1 DEF ProcessRaps, Carries
<1>2. CASE ~Guarded(r, expired)
  <2>1. r \in Ring /\ Sound(t)
    BY StopTimersKeepsSound DEF Sound, Timer
  <2>2. Carries(t, r) /\ HoldsRpl(t)
    BY <2>1, StopTimersCarries
  <2>3. req \in Request \ {"INVALID"} /\ Arguments(req, port, frame.node_id)
    BY RequestOfFrame, RaisedRequest
  <2>4. r.is_rpl_owner => req # "RAPS_NR_RB"
    BY DEF RequestOf, Frame, RapsRequest
  <2>5. s = ProcessRequest(t, req, port, frame.node_id)
    BY <1>2 DEF ProcessRaps
  <2> HIDE DEF req, t
  <2>6. Carries(s, t) /\ HoldsRpl(s)
    BY <2>1, <2>2, <2>3, <2>4, <2>5, RequestCarries DEF Carries
  <2> QED BY <2>2, <2>6 DEF Carries
<1> QED BY <1>1, <1>2

\* ring_timer on an expired wait-to-restore timer.
LEMMA WtrCarries ==
    ASSUME NEW r, Sound(r), HoldsRpl(r), "wtr" \in r.timers,
           NEW s, s = StopTimers(ProcessRequest(r, "WTR_EXPIRES", NoPort, NoNode),
                                 {"wtr"})
    PROVE  Carries(s, r) /\ HoldsRpl(s)
<1> DEFINE u == ProcessRequest(r, "WTR_EXPIRES", NoPort, NoNode)
<1>1. u \in Ring
  BY WtrStep
<1>2. /\ "WTR_EXPIRES" \in Request \ {"INVALID"}
      /\ Arguments("WTR_EXPIRES", NoPort, NoNode)
  BY DEF Request, Severity, Arguments, PortRequest, RemoteRequest
<1>3. Carries(u, r) /\ HoldsRpl(u)
  BY <1>2, RequestCarries
<1> HIDE DEF u
<1>4. Carries(s, u) /\ HoldsRpl(s)
  BY <1>1, <1>3, StopTimersCarries DEF u
<1> QED BY <1>3, <1>4 DEF Carries

\* ring_create gives the node its identity and roles; it leaves in PENDING.
LEMMA CreateRingRoles ==
    ASSUME NEW c \in Config, NEW s, s = CreateRing(c)
    PROVE  /\ s.node_id          = c.node_id
           /\ s.is_rpl_owner     = c.is_rpl_owner
           /\ s.is_rpl_neighbour = c.is_rpl_neighbour
           /\ s.rpl_port         = c.rpl_port
           /\ s.raps.flags       = {}
           /\ s.state            = "PENDING"
<1> DEFINE r == NewRing(c)
           new == PrevOf("INVALID", NoPort, NoNode)
<1>1. 0 \in 0 .. RAPS_BURSTS
  BY DEF RAPS_BURSTS
<1>2. new \in Prev
  BY DEF PrevOf, Prev, Request, Severity, PortRequest, RemoteRequest
<1> HIDE DEF new
<1>3. /\ r \in Ring
      /\ r.node_id          = c.node_id
      /\ r.is_rpl_owner     = c.is_rpl_owner
      /\ r.is_rpl_neighbour = c.is_rpl_neighbour
      /\ r.rpl_port         = c.rpl_port
      /\ r.state            = "INIT"
      /\ r.prev             = new
  BY <1>1, <1>2
  DEF NewRing, Config, Ring, RingState, LocalRequest, RapsRequest, new
<1> HIDE DEF r
<1>4. [r EXCEPT !.prev = new] = r
  BY <1>3 DEF Ring
<1>5. s = InitRows(r)
  BY <1>3, <1>4 DEF CreateRing, RingFsm, FsmRows, new, r
<1> QED BY <1>3, <1>5, InitCarries DEF Carries

-----------------------------------------------------------------------------
(***************************************************************************)
(* Who gives way to what.                                                  *)
(***************************************************************************)

\* What a node stands for while it announces.
Standing(state) == CASE state = "FORCED_SWITCH" -> 5
                     [] state = "PROTECTION"    -> 4
                     [] state = "MANUAL_SWITCH" -> 3
                     [] state = "IDLE"          -> 2
                     [] state = "PENDING"       -> 1

\* An announcement has a blocked port behind it, and is the one of the state: a
\* manual switch that is announced is also retained.  (For a forced switch and a
\* signal failure Sound says so already.)
Backed(r) ==
    r.is_sending_raps =>
        /\ r.blocked # {}
        /\ r.state = "MANUAL_SWITCH" => r.raps.request = "MS" /\ r.local_request = "MS"
        /\ r.state = "IDLE"    => r.raps.request = "NR" /\ "RB" \in r.raps.flags
        /\ r.state = "PENDING" => r.raps.request = "NR"

\* A recovery that finds the node where its signal failure left it.
Timely(r, req) == req = "CLEAR_SF" => /\ r.state = "PROTECTION" => r.blocked # {}
                                      /\ r.state = "MANUAL_SWITCH" => r.local_request # "MS"

\* The node goes on announcing, and stands for at least as much.
StandsBy(s, r) == s.is_sending_raps /\ Standing(s.state) >= Standing(r.state)

\* The node announces the end of its switch and is deaf for the guard time.
Restarts(s, r) == /\ s.is_sending_raps
                  /\ "guard" \in s.timers
                  /\ s.state = "PENDING" /\ r.state # "PENDING"

\* The messages that silence a node that announces.
Overruled(r, req, node) ==
    \/ req = "RAPS_FS" /\ r.state # "FORCED_SWITCH"
    \/ req = "RAPS_SF" /\ r.state \notin {"FORCED_SWITCH", "PROTECTION"}
    \/ req = "RAPS_MS" /\ r.state \in {"IDLE", "PENDING"}
    \/ req = "RAPS_NR_RB" /\ r.state = "PENDING"
    \/ req = "RAPS_NR" /\ r.state = "PENDING" /\ r.node_id < node

\* What becomes of a node that announces.
Contest(s, r, req, node) ==
    /\ Backed(s)
    /\ r.is_sending_raps =>
           \/ StandsBy(s, r)
           \/ Restarts(s, r)
           \/ ~s.is_sending_raps /\ Overruled(r, req, node)

\* The ring that the rows are given, with the identity that LosesTo looks at.
RowsTake(t, r, req, port) == TakenFrom(t, r, req, port) /\ t.node_id = r.node_id

-----------------------------------------------------------------------------
\* Rows that set up a local switch, in any state.
LEMMA IsolateContest ==
    ASSUME NEW r, NEW req \in Switch, NEW port \in Port, NEW node,
           NEW t, RowsTake(t, r, req, port),
           NEW u, u = Isolate(t, port, req, {}),
           NEW state, state = CASE req = "FS" -> "FORCED_SWITCH"
                                [] req = "SF" -> "PROTECTION"
                                [] req = "MS" -> "MANUAL_SWITCH",
           NEW s, \/ s = Enter(u, state)
                  \/ s = u /\ r.state = state
                  \/ s = Enter(OwnerStopsTimers(u), state),
           Standing(state) >= Standing(r.state)
    PROVE  Contest(s, r, req, node)
<1>1. req \in RapsRequest /\ {} \in SUBSET Flag
  BY DEF Switch, RapsRequest
<1>2. /\ u \in Ring
      /\ Kept(u, t)
      /\ u.state = r.state
      /\ u.blocked = {port}
      /\ Announces(u, req)
  BY <1>1, IsolateEffect DEF RowsTake, TakenFrom
<1>3. u.local_request = req
  BY <1>2 DEF RowsTake, TakenFrom, Kept, Retained, Switch
<1>4. /\ s.state = state
      /\ s.blocked = {port}
      /\ Announces(s, req)
      /\ s.local_request = req
  BY <1>2, <1>3 DEF Enter, OwnerStopsTimers, StopTimers, Ring, Announces
<1>5. state = "MANUAL_SWITCH" => req = "MS"
  BY DEF Switch
<1>6. state \notin {"IDLE", "PENDING"}
  BY DEF Switch
<1> QED BY <1>4, <1>5, <1>6 DEF Contest, Backed, StandsBy, Announces

\* Rows that give way to a remote switch.
LEMMA YieldContest ==
    ASSUME NEW r, NEW req, NEW node, Overruled(r, req, node),
           NEW s, ~s.is_sending_raps
    PROVE  Contest(s, r, req, node)
  BY DEF Contest, Backed

\* Rows that end a switch of the node itself.
LEMMA AnnounceContest ==
    ASSUME NEW r, r.state # "PENDING", r.blocked # {}, NEW req, NEW port, NEW node,
           NEW t, RowsTake(t, r, req, port),
           NEW timer \in RestoreTimer,
           NEW s, s = Enter(AnnounceNR(t, timer), "PENDING")
    PROVE  Contest(s, r, req, node)
<1> DEFINE u == AnnounceNR(t, timer)
<1>1. /\ u \in Ring
      /\ u.blocked = r.blocked
      /\ Announces(u, "NR")
      /\ "guard" \in u.timers
  BY AnnounceNREffect DEF RowsTake, TakenFrom
<1>2. s = Enter(u, "PENDING")
  OBVIOUS
<1> HIDE DEF u
<1> QED BY <1>1, <1>2 DEF Enter, Ring, Contest, Backed, Restarts, Announces

\* A node that is silent and stays so.
LEMMA SilentContest ==
    ASSUME NEW r, ~r.is_sending_raps, NEW req, NEW node,
           NEW s, ~s.is_sending_raps
    PROVE  Contest(s, r, req, node)
  BY DEF Contest, Backed

-----------------------------------------------------------------------------
\* Rows 02 to 15.
LEMMA IdleContest ==
    ASSUME NEW r, Sound(r), Backed(r), r.state = "IDLE",
           NEW req \in Raised, Accepted(r, req),
           NEW port, NEW node, Arguments(req, port, node),
           Alone(r, req),
           NEW t, RowsTake(t, r, req, port),
           NEW s, s = IdleRows(t, req, port, node)
    PROVE  Contest(s, r, req, node)
<1>1. /\ t \in Ring /\ TakenFrom(t, r, req, port)
      /\ r.is_sending_raps => r.is_rpl_owner
  BY DEF Sound, Parts, IdlePart, RowsTake, TakenFrom
<1>2. CASE req \in Switch
  <2>1. port \in Port
    BY <1>2 DEF Arguments, Switch, PortRequest
  <2>2. PICK state : /\ s = Enter(Isolate(t, port, req, {}), state)
                     /\ state = CASE req = "FS" -> "FORCED_SWITCH"
                                  [] req = "SF" -> "PROTECTION"
                                  [] req = "MS" -> "MANUAL_SWITCH"
    BY <1>2 DEF IdleRows, Switch
  <2>3. Standing(state) >= Standing(r.state)
    BY <1>2, <2>2 DEF Standing, Switch
  <2> QED BY <1>2, <2>1, <2>2, <2>3, IsolateContest
<1>3. CASE req \in {"RAPS_FS", "RAPS_SF", "RAPS_MS"}
  <2>1. ~s.is_sending_raps
    BY <1>1, <1>3, YieldToEffect, YieldToForcedEffect DEF IdleRows, RingState
  <2>2. Overruled(r, req, node)
    BY <1>3 DEF Overruled
  <2> QED BY <2>1, <2>2, YieldContest
<1>4. CASE \/ req = "RAPS_NR_RB"
           \/ req = "RAPS_NR" /\ IdleLosesTo(t, node)
  <2>1. ~r.is_rpl_owner /\ ~t.is_rpl_owner
    BY <1>1, <1>4 DEF IdleLosesTo, Alone, TakenFrom
  <2>2. ~s.is_sending_raps
    BY <1>1, <1>4, <2>1 DEF IdleRows, YieldTo, StopTx, UnblockPort, UnblockNonfailed,
                            Enter, Ring
  <2> QED BY <1>1, <2>1, <2>2, SilentContest
<1>5. CASE /\ req \in {"CLEAR", "CLEAR_SF", "RAPS_NR"}
           /\ ~(req = "RAPS_NR" /\ IdleLosesTo(t, node))
  <2>1. s = t
    BY <1>5 DEF IdleRows
  <2> QED BY <1>1, <2>1 DEF TakenFrom, Contest, Backed, StandsBy, Standing
<1> QED BY <1>2, <1>3, <1>4, <1>5 DEF Raised, RemoteRequest, PortRequest, Switch

\* Rows 16 to 29.
LEMMA ProtectionContest ==
    ASSUME NEW r, Sound(r), Backed(r), r.state = "PROTECTION",
           NEW req \in Raised, Accepted(r, req), Timely(r, req),
           NEW port, NEW node, Arguments(req, port, node),
           NEW t, RowsTake(t, r, req, port),
           NEW s, s = ProtectionRows(t, req, port)
    PROVE  Contest(s, r, req, node)
<1>1. /\ t \in Ring /\ TakenFrom(t, r, req, port)
      /\ r.is_sending_raps => r.local_request = "SF"
  BY DEF Sound, Parts, FailPart, RowsTake, TakenFrom
<1>2. r.is_sending_raps => req \notin {"RAPS_NR", "RAPS_NR_RB"}
  BY <1>1, RaisedRequest, AcceptedOver
<1>3. CASE req = "FS"
  <2>1. port \in Port /\ req \in Switch
    BY <1>3 DEF Arguments, Switch, PortRequest
  <2>2. s = Enter(Isolate(t, port, req, {}), "FORCED_SWITCH")
    BY <1>3 DEF ProtectionRows
  <2>3. Standing("FORCED_SWITCH") >= Standing(r.state)
    BY DEF Standing
  <2> QED BY <1>3, <2>1, <2>2, <2>3, IsolateContest
<1>4. CASE req = "SF"
  <2>1. port \in Port /\ req \in Switch
    BY <1>4 DEF Arguments, Switch, PortRequest
  <2>2. s = Isolate(t, port, req, {})
    BY <1>4 DEF ProtectionRows
  <2>3. Standing("PROTECTION") >= Standing(r.state)
    BY DEF Standing
  <2> QED BY <1>4, <2>1, <2>2, <2>3, IsolateContest
<1>5. CASE req = "RAPS_FS"
  <2>1. ~s.is_sending_raps
    BY <1>1, <1>5, YieldToForcedEffect DEF ProtectionRows
  <2>2. Overruled(r, req, node)
    BY <1>5 DEF Overruled
  <2> QED BY <2>1, <2>2, YieldContest
<1>6. CASE req = "CLEAR_SF"
  <2>1. s = Enter(AnnounceNR(t, "wtr"), "PENDING")
    BY <1>6 DEF ProtectionRows
  <2>2. r.blocked # {} /\ "wtr" \in RestoreTimer
    BY <1>6 DEF Timely, RestoreTimer
  <2> QED BY <2>1, <2>2, AnnounceContest
<1>7. CASE req \in {"RAPS_NR", "RAPS_NR_RB"}
  <2>1. ~s.is_sending_raps
    BY <1>1, <1>2, <1>7 DEF ProtectionRows, Enter, OwnerStarts, StartTimer, TakenFrom, Ring
  <2> QED BY <1>2, <1>7, <2>1, SilentContest
<1>8. CASE req \in {"CLEAR", "MS", "RAPS_SF", "RAPS_MS"}
  <2>1. s = t
    BY <1>8 DEF ProtectionRows
  <2> QED BY <1>1, <2>1 DEF TakenFrom, Contest, Backed, StandsBy, Standing
<1> QED BY <1>3, <1>4, <1>5, <1>6, <1>7, <1>8 DEF Raised, RemoteRequest, PortRequest

\* Rows 30 to 43: a manual switch that is announced is retained, and over a
\* retained one neither NR nor another manual switch of the node gets through.
LEMMA ManualSwitchContest ==
    ASSUME NEW r, Sound(r), Backed(r), r.state = "MANUAL_SWITCH",
           NEW req \in Raised, Accepted(r, req), Timely(r, req),
           NEW port, NEW node, Arguments(req, port, node),
           NEW t, RowsTake(t, r, req, port),
           NEW s, s = ManualSwitchRows(t, req, port)
    PROVE  Contest(s, r, req, node)
<1>1. /\ t \in Ring /\ TakenFrom(t, r, req, port)
      /\ t.blocked = r.blocked /\ t.is_sending_raps = r.is_sending_raps
      /\ r.is_sending_raps => r.blocked # {} /\ r.local_request = "MS"
  BY DEF Backed, RowsTake, TakenFrom
<1>2. r.is_sending_raps => req \notin {"RAPS_NR", "RAPS_NR_RB", "MS", "CLEAR_SF"}
  BY <1>1, RaisedRequest, AcceptedOver DEF Timely
<1>3. CASE req \in {"FS", "SF"}
  <2>1. port \in Port /\ req \in Switch
    BY <1>3 DEF Arguments, Switch, PortRequest
  <2>2. PICK state : /\ s = Enter(Isolate(t, port, req, {}), state)
                     /\ state = CASE req = "FS" -> "FORCED_SWITCH"
                                  [] req = "SF" -> "PROTECTION"
                                  [] req = "MS" -> "MANUAL_SWITCH"
    BY <1>3 DEF ManualSwitchRows
  <2>3. Standing(state) >= Standing(r.state)
    BY <1>3, <2>2 DEF Standing
  <2> QED BY <1>3, <2>1, <2>2, <2>3, IsolateContest
<1>4. CASE req \in {"RAPS_FS", "RAPS_SF"}
  <2>1. ~s.is_sending_raps
    BY <1>1, <1>4, YieldToEffect, YieldToForcedEffect DEF ManualSwitchRows, RingState
  <2>2. Overruled(r, req, node)
    BY <1>4 DEF Overruled
  <2> QED BY <2>1, <2>2, YieldContest
<1>5. CASE req \in {"CLEAR", "RAPS_MS"} /\ r.blocked # {}
  <2>1. s = Enter(AnnounceNR(t, "wtb"), "PENDING") /\ "wtb" \in RestoreTimer
    BY <1>1, <1>5 DEF ManualSwitchRows, RestoreTimer
  <2> QED BY <1>5, <2>1, AnnounceContest
<1>6. CASE \/ req \in {"RAPS_NR", "RAPS_NR_RB", "MS", "CLEAR_SF"}
           \/ req \in {"CLEAR", "RAPS_MS"} /\ r.blocked = {}
  <2>1. ~r.is_sending_raps
    BY <1>1, <1>2, <1>6
  <2>2. ~s.is_sending_raps
    BY <1>1, <1>6, <2>1 DEF ManualSwitchRows, Enter, OwnerStarts, StartTimer, Ring
  <2> QED BY <2>1, <2>2, SilentContest
<1> QED BY <1>3, <1>4, <1>5, <1>6 DEF Raised, RemoteRequest, PortRequest

\* Rows 44 to 57: only CLEAR ends a forced switch that is announced.
LEMMA ForcedSwitchContest ==
    ASSUME NEW r, Sound(r), Backed(r), r.state = "FORCED_SWITCH",
           NEW req \in Raised, Accepted(r, req),
           NEW port, NEW node, Arguments(req, port, node),
           NEW t, RowsTake(t, r, req, port),
           NEW s, s = ForcedSwitchRows(t, req, port)
    PROVE  Contest(s, r, req, node)
<1>1. /\ t \in Ring /\ TakenFrom(t, r, req, port)
      /\ t.blocked = r.blocked /\ t.is_sending_raps = r.is_sending_raps
      /\ r.is_sending_raps => r.blocked # {} /\ r.local_request = "FS"
  BY DEF Sound, Parts, ForcedPart, Backed, RowsTake, TakenFrom
<1>2. r.is_sending_raps => req = "CLEAR"
  BY <1>1, RaisedRequest, AcceptedOver
<1>3. CASE req = "CLEAR" /\ r.blocked # {}
  <2>1. s = Enter(AnnounceNR(t, "wtb"), "PENDING") /\ "wtb" \in RestoreTimer
    BY <1>1, <1>3 DEF ForcedSwitchRows, RestoreTimer
  <2> QED BY <1>3, <2>1, AnnounceContest
<1>4. CASE req = "FS"
  <2> DEFINE u == BlockPort(t, port)
  <2>1. u \in Ring /\ u.blocked # {} /\ u.state = r.state
    BY <1>1, <1>4 DEF BlockPort, Ring, Arguments, PortRequest, TakenFrom
  <2>2. s = StartTx(u, "FS", {}) /\ "FS" \in RapsRequest /\ {} \in SUBSET Flag
    BY <1>4 DEF ForcedSwitchRows, RapsRequest
  <2> HIDE DEF u
  <2>3. s.blocked # {} /\ s.state = r.state
    BY <2>1, <2>2, StartTxEffect
  <2> QED BY <1>2, <1>4, <2>3 DEF Contest, Backed
<1>5. CASE req # "FS" /\ ~(req = "CLEAR" /\ r.blocked # {})
  <2>1. ~r.is_sending_raps
    BY <1>1, <1>2, <1>5
  <2>2. ~s.is_sending_raps
    BY <1>1, <1>5, <2>1 DEF ForcedSwitchRows, Enter, OwnerStarts, StartTimer, Ring
  <2> QED BY <2>1, <2>2, SilentContest
<1> QED BY <1>3, <1>4, <1>5

\* Rows 58 to 71: a node that announces NR gives way to anything but the NR of a
\* node with a lower node_id.
LEMMA PendingContest ==
    ASSUME NEW r, Sound(r), Backed(r), r.state = "PENDING",
           NEW req \in Raised, Accepted(r, req),
           NEW port, NEW node, Arguments(req, port, node), Alone(r, req),
           NEW t, RowsTake(t, r, req, port),
           NEW s, s = PendingRows(t, req, port, node)
    PROVE  Contest(s, r, req, node)
<1>1. /\ t \in Ring /\ TakenFrom(t, r, req, port)
      /\ t.is_rpl_owner = r.is_rpl_owner /\ t.rpl_port = r.rpl_port
      /\ t.node_id = r.node_id
      /\ r.local_request = "INVALID"
  BY PendingFacts DEF RowsTake, TakenFrom
<1>2. CASE req = "CLEAR"
  <2>1. t.is_rpl_owner /\ t.rpl_port \in Port
    BY <1>1, <1>2, RaisedRequest, AcceptedOver DEF Alone
  <2>2. s = Revert(t, {"wtr", "wtb"}) /\ {"wtr", "wtb"} \in SUBSET Timer
    BY <1>2 DEF PendingRows, Timer
  <2>3. /\ s.state = "IDLE"
        /\ s.blocked = {t.rpl_port}
        /\ Announces(s, "NR")
        /\ "RB" \in s.raps.flags
    BY <1>1, <2>1, <2>2, RevertEffect
  <2> QED BY <2>3 DEF Contest, Backed, StandsBy, Standing, Announces
<1>3. CASE req \in Switch
  <2>1. port \in Port
    BY <1>3 DEF Arguments, Switch, PortRequest
  <2>2. PICK state : /\ s = Enter(OwnerStopsTimers(Isolate(t, port, req, {})), state)
                     /\ state = CASE req = "FS" -> "FORCED_SWITCH"
                                  [] req = "SF" -> "PROTECTION"
                                  [] req = "MS" -> "MANUAL_SWITCH"
    BY <1>3 DEF PendingRows, Switch
  <2>3. Standing(state) >= Standing(r.state)
    BY <1>3, <2>2 DEF Standing, Switch
  <2> QED BY <1>3, <2>1, <2>2, <2>3, IsolateContest
<1>4. CASE req \in {"RAPS_FS", "RAPS_SF", "RAPS_MS"}
  <2>1. PICK u \in Ring : s = OwnerStopsTimers(u) /\ ~u.is_sending_raps
    BY <1>1, <1>4, YieldToEffect, YieldToForcedEffect DEF PendingRows, RingState
  <2>2. ~s.is_sending_raps
    BY <2>1 DEF OwnerStopsTimers, StopTimers, Ring
  <2>3. Overruled(r, req, node)
    BY <1>4 DEF Overruled
  <2> QED BY <2>2, <2>3, YieldContest
<1>5. CASE req = "RAPS_NR_RB"
  <2>1. ~t.is_rpl_owner
    BY <1>1, <1>5 DEF Alone
  <2>2. ~s.is_sending_raps
    BY <1>1, <1>5, <2>1 DEF PendingRows, ObeyRplBlocked, StopTx, BlockPort, UnblockPort,
                            UnblockPorts, Enter, Ring
  <2>3. Overruled(r, req, node)
    BY <1>5 DEF Overruled
  <2> QED BY <2>2, <2>3, YieldContest
<1>6. CASE req = "RAPS_NR" /\ LosesTo(t, node)
  <2>1. ~s.is_sending_raps
    BY <1>1, <1>6, YieldToEffect DEF PendingRows, RingState
  <2>2. Overruled(r, req, node)
    BY <1>1, <1>6 DEF Overruled, LosesTo
  <2> QED BY <2>1, <2>2, YieldContest
<1>7. CASE \/ req = "CLEAR_SF"
           \/ req = "RAPS_NR" /\ ~LosesTo(t, node)
  <2>1. s = t
    BY <1>7 DEF PendingRows
  <2> QED BY <1>1, <2>1 DEF TakenFrom, Contest, Backed, StandsBy, Standing
<1> QED BY <1>2, <1>3, <1>4, <1>5, <1>6, <1>7
        DEF Raised, RemoteRequest, PortRequest, Switch

-----------------------------------------------------------------------------
\* Isolating a port, any port, touches no timer.
LEMMA IsolateKeepsTimers ==
    ASSUME NEW r \in Ring, NEW port, NEW request, NEW flags,
           NEW s, s = Isolate(r, port, request, flags)
    PROVE  /\ DOMAIN s = DOMAIN r
           /\ s.timers = r.timers /\ s.is_rpl_owner = r.is_rpl_owner
<1> DEFINE f == flags \cup (IF port \in r.blocked THEN {"DNF"} ELSE {})
           t == StartTx(r, request, f)
<1>1. s = UnblockPort(BlockPort(t, port), OtherPort(port))
  BY DEF Isolate
<1> HIDE DEF f
<1>2. /\ DOMAIN t = DOMAIN r /\ t = [k \in DOMAIN t |-> t[k]]
      /\ t.timers = r.timers /\ t.is_rpl_owner = r.is_rpl_owner
  BY DEF StartTx, Ring
<1> HIDE DEF t
<1> QED BY <1>1, <1>2 DEF BlockPort, UnblockPort, Ring

\* No row but row 01 stops the guard timer.
LEMMA RowsKeepGuard ==
    ASSUME NEW r \in Ring, r.state # "INIT", NEW req, NEW port, NEW node,
           "guard" \in r.timers,
           NEW s, s = FsmRows(r, req, port, node)
    PROVE  "guard" \in s.timers
<1>1. CASE r.state = "IDLE"
  BY <1>1 DEF FsmRows, IdleRows, Isolate, BlockPort, UnblockPort, UnblockPorts,
              UnblockNonfailed, StartTx, StopTx, YieldTo, YieldToForced, Enter, Ring
<1>2. CASE r.state = "PROTECTION"
  BY <1>2 DEF FsmRows, ProtectionRows, Isolate, BlockPort, UnblockPort, UnblockPorts,
              StartTx, StopTx, YieldToForced, AnnounceNR, OwnerStarts, StartTimer,
              Enter, Ring
<1>3. CASE r.state = "MANUAL_SWITCH"
  BY <1>3 DEF FsmRows, ManualSwitchRows, Isolate, BlockPort, UnblockPort, UnblockPorts,
              UnblockNonfailed, StartTx, StopTx, YieldTo, YieldToForced, AnnounceNR,
              OwnerStarts, StartTimer, Enter, Ring
<1>4. CASE r.state = "FORCED_SWITCH"
  BY <1>4 DEF FsmRows, ForcedSwitchRows, BlockPort, StartTx, AnnounceNR, OwnerStarts,
              StartTimer, Enter, Ring
<1>5. CASE r.state = "PENDING"
  <2>1. s = PendingRows(r, req, port, node)
    BY <1>5 DEF FsmRows
  <2>2. CASE req \in {"CLEAR", "WTR_EXPIRES", "WTB_EXPIRES"}
    <3>1. PICK timers \in {{"wtr", "wtb"}, {"wtb"}, {"wtr"}} : s = Revert(r, timers)
      BY <2>1, <2>2 DEF PendingRows
    <3> DEFINE q == StopTimers(r, timers)
               i == Isolate(q, r.rpl_port, "NR", {"RB"})
    <3>2. q \in Ring /\ "guard" \in q.timers
      BY DEF StopTimers, Ring
    <3>3. DOMAIN i = DOMAIN q /\ "guard" \in i.timers
      BY <3>2, IsolateKeepsTimers
    <3>4. s = Enter(IF r.is_rpl_owner THEN i ELSE r, "IDLE")
      BY <3>1 DEF Revert
    <3> HIDE DEF i, q
    <3> QED BY <3>2, <3>3, <3>4 DEF Enter, Ring
  <2>3. CASE req \in {"FS", "SF", "MS"}
    <3> DEFINE i == Isolate(r, port, req, {})
    <3>1. PICK state : s = Enter(OwnerStopsTimers(i), state)
      BY <2>1, <2>3 DEF PendingRows
    <3>2. DOMAIN i = DOMAIN r /\ "guard" \in i.timers
      BY IsolateKeepsTimers
    <3> HIDE DEF i
    <3> QED BY <3>1, <3>2 DEF OwnerStopsTimers, StopTimers, Enter, Ring
  <2>4. CASE req \notin {"CLEAR", "WTR_EXPIRES", "WTB_EXPIRES", "FS", "SF", "MS"}
    BY <2>1, <2>4 DEF PendingRows, YieldTo, YieldToForced, ObeyRplBlocked, BlockPort,
                      UnblockPort, UnblockPorts, UnblockNonfailed, StopTx,
                      OwnerStopsTimers, StopTimers, Enter, Ring
  <2> QED BY <2>2, <2>3, <2>4
<1> QED BY <1>1, <1>2, <1>3, <1>4, <1>5 DEF Ring, RingState

\* The rows of every state but INIT.
LEMMA FsmContest ==
    ASSUME NEW r, Sound(r), Backed(r),
           NEW req \in Raised, Accepted(r, req), Timely(r, req), Alone(r, req),
           NEW port, NEW node, Arguments(req, port, node),
           NEW t, RowsTake(t, r, req, port),
           NEW s, s = FsmRows(t, req, port, node)
    PROVE  Contest(s, r, req, node)
<1>1. t.state = r.state /\ r.state \in RingState \ {"INIT"}
  BY DEF RowsTake, TakenFrom, Sound, Parts, StateOfRetained, Ring
<1>2. CASE r.state = "IDLE"
  BY <1>1, <1>2, IdleContest DEF FsmRows
<1>3. CASE r.state = "PROTECTION"
  BY <1>1, <1>3, ProtectionContest DEF FsmRows
<1>4. CASE r.state = "MANUAL_SWITCH"
  BY <1>1, <1>4, ManualSwitchContest DEF FsmRows
<1>5. CASE r.state = "FORCED_SWITCH"
  BY <1>1, <1>5, ForcedSwitchContest DEF FsmRows
<1>6. CASE r.state = "PENDING"
  BY <1>1, <1>6, PendingContest DEF FsmRows
<1> QED BY <1>1, <1>2, <1>3, <1>4, <1>5, <1>6 DEF RingState

\* A request that changes the ring has reached the rows, as news.
LEMMA RequestReachesRows ==
    ASSUME NEW r, Sound(r), NEW req \in Raised,
           NEW port, NEW node, Arguments(req, port, node),
           NEW s, s = ProcessRequest(r, req, port, node), s # r
    PROVE  /\ Accepted(r, req)
           /\ \E t : RowsTake(t, r, req, port) /\ s = FsmRows(t, req, port, node)
<1> DEFINE t == Taken(r, req, port, node)
<1>1. r \in Ring /\ req \in Request /\ req # "INVALID"
  BY RaisedRequest DEF Sound
<1>2. Accepted(r, req)
  BY DEF ProcessRequest
<1>3. PrevOf(req, port, node) # r.prev
  BY <1>1, RepeatedRequestIgnored
<1>4. s = FsmRows(t, req, port, node)
  BY <1>1, <1>2, <1>3, NewRequestTaken
<1>5. TakenFrom(t, r, req, port)
  BY <1>1, TakenEffect
<1>6. t.node_id = r.node_id
  BY <1>1 DEF Taken, Ring
<1> HIDE DEF t
<1> QED BY <1>2, <1>4, <1>5, <1>6 DEF RowsTake

\* ring_process_request, whatever becomes of the request.
LEMMA RequestContest ==
    ASSUME NEW r, Sound(r), Backed(r),
           NEW req \in Raised, Timely(r, req), Alone(r, req),
           NEW port, NEW node, Arguments(req, port, node),
           NEW s, s = ProcessRequest(r, req, port, node)
    PROVE  Contest(s, r, req, node)
<1>1. r.state \in RingState \ {"INIT"}
  BY DEF Sound, Parts, StateOfRetained, Ring
<1>2. CASE s = r
  BY <1>1, <1>2 DEF Contest, StandsBy, Standing, RingState
<1>3. CASE s # r
  BY <1>3, RequestReachesRows, FsmContest
<1> QED BY <1>2, <1>3

\* ring_process_request does not stop the guard timer.
LEMMA RequestKeepsGuard ==
    ASSUME NEW r, Sound(r), NEW req \in Raised,
           NEW port, NEW node, Arguments(req, port, node), "guard" \in r.timers,
           NEW s, s = ProcessRequest(r, req, port, node)
    PROVE  "guard" \in s.timers
<1>1. r.state # "INIT"
  BY DEF Sound, Parts, StateOfRetained
<1>2. CASE s = r
  BY <1>2
<1>3. CASE s # r
  <2>1. PICK t : RowsTake(t, r, req, port) /\ s = FsmRows(t, req, port, node)
    BY <1>3, RequestReachesRows
  <2>2. t \in Ring /\ t.state # "INIT" /\ "guard" \in t.timers
    BY <1>1, <2>1 DEF RowsTake, TakenFrom
  <2> QED BY <2>1, <2>2, RowsKeepGuard
<1> QED BY <1>2, <1>3

\* process_raps_frame, when the guard timer lets the frame through.
LEMMA RapsContest ==
    ASSUME NEW r, Sound(r), Backed(r),
           NEW frame \in Frame, NEW port \in Port, NEW expired,
           r.is_rpl_owner => "RB" \notin frame.flags,
           ~Guarded(r, expired),
           NEW s, s = ProcessRaps(r, frame, port, expired)
    PROVE  Contest(s, r, RequestOf(frame), frame.node_id)
<1> DEFINE req == RequestOf(frame)
           t   == StopTimers(r, {"guard"})
<1>1. r \in Ring /\ Sound(t)
  BY StopTimersKeepsSound DEF Sound, Timer
<1>2. /\ t.state = r.state
      /\ t.blocked = r.blocked
      /\ t.raps = r.raps
      /\ t.is_sending_raps = r.is_sending_raps
      /\ t.local_request = r.local_request
      /\ t.is_rpl_owner = r.is_rpl_owner
      /\ t.rpl_port = r.rpl_port
      /\ t.node_id = r.node_id
  BY <1>1 DEF StopTimers, Ring
<1>3. req \in Raised /\ Arguments(req, port, frame.node_id) /\ req \in RemoteRequest
  BY RequestOfFrame
<1>4. r.is_rpl_owner => r.rpl_port \in Port /\ req # "RAPS_NR_RB"
  BY DEF RequestOf, Frame, RapsRequest, Sound, Parts, Configured, Ring
<1>5. s = ProcessRequest(t, req, port, frame.node_id)
  BY DEF ProcessRaps
<1> HIDE DEF req, t
<1>6. Backed(t) /\ Timely(t, req) /\ Alone(t, req)
  BY <1>2, <1>3, <1>4 DEF Backed, Timely, Alone, RemoteRequest
<1>7. Contest(s, t, req, frame.node_id)
  BY <1>1, <1>3, <1>5, <1>6, RequestContest
<1>8. Contest(s, r, req, frame.node_id)
  BY <1>2, <1>7 DEF Contest, StandsBy, Restarts, Overruled
<1> QED BY <1>8 DEF req

\* ring_timer on an expired wait-to-restore timer: the owner announces NR,RB.
LEMMA WtrContest ==
    ASSUME NEW r, Sound(r), "wtr" \in r.timers,
           NEW s, s = StopTimers(ProcessRequest(r, "WTR_EXPIRES", NoPort, NoNode),
                                 {"wtr"})
    PROVE  /\ Backed(s) /\ StandsBy(s, r)
           /\ "guard" \in r.timers => "guard" \in s.timers
<1> DEFINE t == Taken(r, "WTR_EXPIRES", NoPort, NoNode)
           u == ProcessRequest(r, "WTR_EXPIRES", NoPort, NoNode)
<1>1. /\ r \in Ring
      /\ r.is_rpl_owner /\ r.rpl_port \in Port
      /\ r.state = "PENDING"
      /\ r.local_request = "INVALID"
      /\ r.prev.req # "WTR_EXPIRES"
  BY DEF Sound, Parts, TimerPart, Waits, RestoreTimer, Configured, StateOfRetained, Ring
<1>2. "WTR_EXPIRES" \in Request /\ Arguments("WTR_EXPIRES", NoPort, NoNode)
  BY DEF Request, Severity, Arguments, PortRequest, RemoteRequest
<1>3. Accepted(r, "WTR_EXPIRES")
  BY <1>1 DEF Accepted, Filtered, Overrides, StandingRequest, Severity
<1>4. u = FsmRows(t, "WTR_EXPIRES", NoPort, NoNode)
  <2>1. PrevOf("WTR_EXPIRES", NoPort, NoNode) # r.prev
    BY <1>1 DEF PrevOf
  <2> QED BY <1>1, <1>2, <1>3, <2>1, NewRequestTaken
<1>5. /\ t \in Ring /\ t.state = "PENDING" /\ t.timers = r.timers
      /\ t.is_rpl_owner /\ t.rpl_port \in Port
  BY <1>1, <1>2, TakenEffect DEF TakenFrom
<1> HIDE DEF t
<1>6. u = Revert(t, {"wtb"}) /\ {"wtb"} \in SUBSET Timer
  BY <1>4, <1>5 DEF FsmRows, PendingRows, Timer
<1> HIDE DEF u
<1>7. /\ u \in Ring
      /\ u.state = "IDLE"
      /\ u.blocked = {t.rpl_port}
      /\ u.timers = t.timers \ {"wtb"}
      /\ Announces(u, "NR")
      /\ "RB" \in u.raps.flags
  BY <1>5, <1>6, RevertEffect
<1>8. s = StopTimers(u, {"wtr"})
  BY DEF u
<1> QED BY <1>1, <1>5, <1>7, <1>8
        DEF StopTimers, Ring, Backed, StandsBy, Standing, Announces

\* ring_create: the node starts in PENDING with a port blocked, announcing NR.
LEMMA CreateRingContest ==
    ASSUME NEW c \in Config
    PROVE  Backed(CreateRing(c)) /\ CreateRing(c).is_sending_raps
<1> DEFINE s == CreateRing(c)
<1>1. s.blocked # {} /\ Announces(s, "NR") /\ s.state = "PENDING"
  BY CreateRingSound, CreateRingRoles
<1> HIDE DEF s
<1>2. Backed(s) /\ s.is_sending_raps
  BY <1>1 DEF Backed, Announces
<1> QED BY <1>2 DEF s

=============================================================================
