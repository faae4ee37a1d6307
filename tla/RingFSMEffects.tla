--------------------------- MODULE RingFSMEffects ---------------------------
(***************************************************************************)
(* What the helpers of the state machine do to a ring, each stated once as *)
(* the fields it leaves behind.  The rows are proved from these lemmas, so *)
(* that no proof of a row has to take a fifteen-field record apart.        *)
(***************************************************************************)
EXTENDS RingFSM, TLAPS

\* The owner's two restore timers.
RestoreTimer == {"wtr", "wtb"}

\* A restore timer runs.
Waits(r) == r.timers \cap RestoreTimer # {}

\* The node is sending this request.
Announces(r, request) == r.is_sending_raps /\ r.raps.request = request

\* The fields that no action of a row changes: the roles of the node, and what
\* ring_fsm and the priority logic have noted about the request.
Kept(s, r) ==
    /\ s.is_rpl_owner     = r.is_rpl_owner
    /\ s.is_rpl_neighbour = r.is_rpl_neighbour
    /\ s.rpl_port         = r.rpl_port
    /\ s.prev             = r.prev
    /\ s.local_request    = r.local_request

-----------------------------------------------------------------------------
\* other_port: the two ports are each other's other port.
LEMMA OtherPortType ==
    ASSUME NEW p \in Port
    PROVE  /\ OtherPort(p) \in Port
           /\ OtherPort(p) # p
           /\ Port = {p, OtherPort(p)}
  BY DEF OtherPort, Port

\* start_tx: whether the message is new or not, it is being sent afterwards.
LEMMA StartTxEffect ==
    ASSUME NEW r \in Ring, NEW request \in RapsRequest, NEW flags \in SUBSET Flag,
           NEW s, s = StartTx(r, request, flags)
    PROVE  /\ s \in Ring
           /\ Kept(s, r)
           /\ s.state = r.state
           /\ s.blocked = r.blocked
           /\ s.timers = r.timers
           /\ Announces(s, request)
           /\ s.raps.flags = flags
<1> DEFINE m == [request |-> request, flags |-> flags]
<1>1. RAPS_BURSTS \in 0 .. RAPS_BURSTS
  BY DEF RAPS_BURSTS
<1>2. /\ m \in [request : RapsRequest, flags : SUBSET Flag]
      /\ m.request = request
      /\ m.flags = flags
  OBVIOUS
<1>3. CASE r.raps = m
  <2>1. s = [r EXCEPT !.is_sending_raps = TRUE]
    BY <1>3 DEF StartTx
  <2> HIDE DEF m
  <2> QED BY <1>2, <1>3, <2>1 DEF Ring, Kept, Announces
<1>4. CASE r.raps # m
  <2>1. s = [r EXCEPT !.raps            = m,
                      !.bursts_remain   = RAPS_BURSTS,
                      !.is_sending_raps = TRUE]
    BY <1>4 DEF StartTx
  <2> HIDE DEF m
  <2>2. s \in Ring
    BY <1>1, <1>2, <2>1, ZenonT(60) DEF Ring
  <2> QED BY <1>2, <2>1, <2>2 DEF Ring, Kept, Announces
<1> QED BY <1>3, <1>4

\* block_port and unblock_port of the other port leave exactly one port blocked.
LEMMA BlockPairEffect ==
    ASSUME NEW r \in Ring, NEW port \in Port
    PROVE  UnblockPort(BlockPort(r, port), OtherPort(port)) =
               [r EXCEPT !.blocked = {port}]
<1> DEFINE o == OtherPort(port)
           t == BlockPort(r, port)
<1>1. (r.blocked \cup {port}) \ {o} = {port}
  BY OtherPortType DEF Ring
<1>2. t \in Ring /\ t.blocked = r.blocked \cup {port}
  BY DEF Ring, BlockPort
<1>3. UnblockPort(t, o) = [t EXCEPT !.blocked = {port}]
  BY <1>1, <1>2 DEF UnblockPort
<1> QED BY <1>3 DEF BlockPort, Ring

\* The block, announce and open sequence of a local switch: only port is blocked.
LEMMA IsolateEffect ==
    ASSUME NEW r \in Ring, NEW port \in Port, NEW request \in RapsRequest,
           NEW flags \in SUBSET Flag,
           NEW s, s = Isolate(r, port, request, flags)
    PROVE  /\ s \in Ring
           /\ Kept(s, r)
           /\ s.state = r.state
           /\ s.blocked = {port}
           /\ s.timers = r.timers
           /\ Announces(s, request)
           /\ "RB" \in s.raps.flags <=> "RB" \in flags
<1> DEFINE f == flags \cup (IF port \in r.blocked THEN {"DNF"} ELSE {})
           t == StartTx(r, request, f)
<1>1. f \in SUBSET Flag /\ ("RB" \in f <=> "RB" \in flags)
  BY DEF Flag
<1>2. s = UnblockPort(BlockPort(t, port), OtherPort(port))
  BY DEF Isolate
<1> HIDE DEF f
<1>3. /\ t \in Ring
      /\ Kept(t, r)
      /\ t.state = r.state
      /\ t.timers = r.timers
      /\ Announces(t, request)
      /\ t.raps.flags = f
  BY <1>1, StartTxEffect
<1> HIDE DEF t
<1>4. s = [t EXCEPT !.blocked = {port}]
  BY <1>2, <1>3, BlockPairEffect
<1> QED BY <1>1, <1>3, <1>4 DEF Ring, Kept, Announces

\* A remote switch opens ports and silences the node.
LEMMA YieldToEffect ==
    ASSUME NEW r \in Ring, NEW state \in RingState,
           NEW s, s = YieldTo(r, state)
    PROVE  /\ s \in Ring
           /\ Kept(s, r)
           /\ s.state = state
           /\ s.blocked \subseteq r.blocked
           /\ s.timers = r.timers
           /\ ~s.is_sending_raps
  BY DEF YieldTo, StopTx, UnblockNonfailed, Enter, Ring, Kept

\* A remote forced switch opens both ports and silences the node.
LEMMA YieldToForcedEffect ==
    ASSUME NEW r \in Ring,
           NEW s, s = YieldToForced(r)
    PROVE  /\ s \in Ring
           /\ Kept(s, r)
           /\ s.state = "FORCED_SWITCH"
           /\ s.blocked = {}
           /\ s.timers = r.timers
           /\ ~s.is_sending_raps
  BY DEF YieldToForced, StopTx, UnblockPorts, Enter, Ring, Kept, RingState

\* Ending a switch moves no port and starts the guard timer; only an owner starts
\* a restore timer.
LEMMA AnnounceNREffect ==
    ASSUME NEW r \in Ring, NEW timer \in RestoreTimer,
           NEW s, s = AnnounceNR(r, timer)
    PROVE  /\ s \in Ring
           /\ Kept(s, r)
           /\ s.state = r.state
           /\ s.blocked = r.blocked
           /\ Waits(s) => r.is_rpl_owner \/ Waits(r)
           /\ Announces(s, "NR")
           /\ "RB" \notin s.raps.flags
           /\ "guard" \in s.timers
<1> DEFINE t == StartTimer(r, "guard")
           u == StartTx(t, "NR", {})
<1>1. /\ t \in Ring
      /\ t = [r EXCEPT !.timers = r.timers \cup {"guard"}]
  BY DEF StartTimer, Ring, Timer
<1> HIDE DEF t
<1>2. "NR" \in RapsRequest /\ {} \in SUBSET Flag
  BY DEF RapsRequest
<1>3. /\ u \in Ring
      /\ Kept(u, t)
      /\ u.state = t.state
      /\ u.blocked = t.blocked
      /\ u.timers = t.timers
      /\ Announces(u, "NR")
      /\ u.raps.flags = {}
  BY <1>1, <1>2, StartTxEffect, ZenonT(60)
<1>4. s = OwnerStarts(u, timer)
  BY <1>1 DEF AnnounceNR, t
<1> HIDE DEF u
<1>5. s \in Ring
  BY <1>3, <1>4 DEF OwnerStarts, StartTimer, Ring, Timer, RestoreTimer
<1>6. /\ s.state = u.state /\ s.blocked = u.blocked
      /\ s.raps = u.raps /\ s.is_sending_raps = u.is_sending_raps
      /\ s.timers = u.timers \/ (u.is_rpl_owner /\ s.timers = u.timers \cup {timer})
      /\ Kept(s, u)
  <2>1. s = u \/ (u.is_rpl_owner /\ s = [u EXCEPT !.timers = @ \cup {timer}])
    BY <1>4 DEF OwnerStarts, StartTimer
  <2>2. CASE s = u
    BY <2>2 DEF Kept
  <2>3. CASE u.is_rpl_owner /\ s = [u EXCEPT !.timers = @ \cup {timer}]
    <3>1. s.timers = u.timers \cup {timer}
      BY <1>3, <2>3 DEF Ring
    <3> QED BY <1>3, <2>3, <3>1 DEF Ring, Kept
  <2> QED BY <2>1, <2>2, <2>3
<1>7. t.state = r.state /\ t.blocked = r.blocked /\ Kept(t, r)
  BY <1>1 DEF Ring, Kept
<1>8. t.timers = r.timers \cup {"guard"}
  BY <1>1 DEF Ring
<1>9. Kept(s, r) /\ r.is_rpl_owner = u.is_rpl_owner
  BY <1>3, <1>6, <1>7 DEF Kept
<1>10. Waits(s) => r.is_rpl_owner \/ Waits(r)
  BY <1>3, <1>6, <1>8, <1>9 DEF Waits, RestoreTimer
<1> QED BY <1>3, <1>5, <1>6, <1>7, <1>8, <1>9, <1>10 DEF Announces

\* stop_timer on both restore timers: none runs afterwards.
LEMMA OwnerStopsTimersEffect ==
    ASSUME NEW r \in Ring, Waits(r) => r.is_rpl_owner,
           NEW s, s = OwnerStopsTimers(r)
    PROVE  /\ s \in Ring
           /\ Kept(s, r)
           /\ s.state = r.state
           /\ s.blocked = r.blocked
           /\ s.raps = r.raps
           /\ s.is_sending_raps = r.is_sending_raps
           /\ ~Waits(s)
  BY DEF OwnerStopsTimers, StopTimers, Ring, Kept, Waits, RestoreTimer

\* Rows 58, 66 and 68 at the owner: the RPL port alone is blocked, NR,RB is sent.
LEMMA RevertEffect ==
    ASSUME NEW r \in Ring, r.is_rpl_owner, r.rpl_port \in Port,
           NEW timers \in SUBSET Timer,
           NEW s, s = Revert(r, timers)
    PROVE  /\ s \in Ring
           /\ Kept(s, r)
           /\ s.state = "IDLE"
           /\ s.blocked = {r.rpl_port}
           /\ s.timers = r.timers \ timers
           /\ Announces(s, "NR")
           /\ "RB" \in s.raps.flags
<1> DEFINE t == StopTimers(r, timers)
           u == Isolate(t, r.rpl_port, "NR", {"RB"})
<1>1. /\ t \in Ring
      /\ Kept(t, r)
      /\ t.timers = r.timers \ timers
  BY DEF StopTimers, Ring, Kept
<1> HIDE DEF t
<1>2. "NR" \in RapsRequest /\ {"RB"} \in SUBSET Flag
  BY DEF RapsRequest, Flag
<1>3. /\ u \in Ring
      /\ Kept(u, t)
      /\ u.blocked = {r.rpl_port}
      /\ u.timers = t.timers
      /\ Announces(u, "NR")
      /\ "RB" \in u.raps.flags
  BY <1>1, <1>2, IsolateEffect
<1>4. s = Enter(u, "IDLE")
  BY DEF Revert, t
<1> HIDE DEF u
<1>5. s \in Ring
  BY <1>3, <1>4 DEF Enter, Ring, RingState
<1>6. /\ s.state = "IDLE"
      /\ s.blocked = u.blocked /\ s.timers = u.timers
      /\ s.raps = u.raps /\ s.is_sending_raps = u.is_sending_raps
      /\ Kept(s, u)
  BY <1>3, <1>4 DEF Enter, Ring, Kept
<1> QED BY <1>1, <1>3, <1>5, <1>6 DEF Kept, Announces

\* Row 70: only the ends of the RPL may keep a port blocked.
LEMMA ObeyRplBlockedEffect ==
    ASSUME NEW r \in Ring, r.blocked # Port, Waits(r) => r.is_rpl_owner,
           r.is_rpl_neighbour => r.rpl_port \in Port,
           NEW s, s = ObeyRplBlocked(r)
    PROVE  /\ s \in Ring
           /\ Kept(s, r)
           /\ s.state = "IDLE"
           /\ s.blocked # Port
           /\ ~Waits(s)
           /\ IF r.is_rpl_owner
              THEN s.raps = r.raps /\ s.is_sending_raps = r.is_sending_raps
              ELSE /\ ~s.is_sending_raps
                   /\ s.blocked = IF r.is_rpl_neighbour THEN {r.rpl_port} ELSE {}
<1>1. CASE r.is_rpl_owner
  <2> DEFINE u == OwnerStopsTimers(r)
  <2>1. /\ u \in Ring
        /\ Kept(u, r)
        /\ u.blocked = r.blocked
        /\ u.raps = r.raps
        /\ u.is_sending_raps = r.is_sending_raps
        /\ ~Waits(u)
    BY OwnerStopsTimersEffect
  <2>2. s = Enter(u, "IDLE")
    BY <1>1 DEF ObeyRplBlocked
  <2> HIDE DEF u
  <2>3. s \in Ring
    BY <2>1, <2>2 DEF Enter, Ring, RingState
  <2>4. /\ s.state = "IDLE"
        /\ s.blocked = u.blocked /\ s.timers = u.timers
        /\ s.raps = u.raps /\ s.is_sending_raps = u.is_sending_raps
        /\ Kept(s, u)
    BY <2>1, <2>2 DEF Enter, Ring, Kept
  <2> QED BY <1>1, <2>1, <2>3, <2>4 DEF Kept, Waits
<1>2. CASE ~r.is_rpl_owner
  <2> DEFINE u == IF r.is_rpl_neighbour
                  THEN UnblockPort(BlockPort(r, r.rpl_port), OtherPort(r.rpl_port))
                  ELSE UnblockPorts(r)
  <2>1. u = [r EXCEPT !.blocked = IF r.is_rpl_neighbour THEN {r.rpl_port} ELSE {}]
    BY BlockPairEffect DEF UnblockPorts
  <2>2. s = Enter(StopTx(u), "IDLE")
    BY <1>2 DEF ObeyRplBlocked
  <2> HIDE DEF u
  <2> DEFINE b == IF r.is_rpl_neighbour THEN {r.rpl_port} ELSE {}
  <2>3. b \in SUBSET Port /\ b # Port
    BY DEF Port
  <2>4. u = [r EXCEPT !.blocked = b]
    BY <2>1
  <2> HIDE DEF b
  <2>5. u \in Ring
    BY <2>3, <2>4 DEF Ring
  <2>6. /\ s \in Ring
        /\ Kept(s, r)
        /\ s.state = "IDLE"
        /\ s.blocked = b
        /\ s.timers = r.timers
        /\ ~s.is_sending_raps
    BY <2>2, <2>4, <2>5, ZenonT(60) DEF Enter, StopTx, Ring, RingState, Kept
  <2> QED BY <1>2, <2>3, <2>6 DEF Waits, b
<1> QED BY <1>1, <1>2

-----------------------------------------------------------------------------
\* What a caller of ring_process_request passes along with a request.
Arguments(req, port, node) ==
    /\ port \in Port \cup {NoPort}
    /\ node \in NodeId \cup {NoNode}
    /\ req \in PortRequest   => port \in Port
    /\ req \in RemoteRequest => node \in NodeId

\* The ring that the rows of a state are given: the request is noted in
\* local_request and in prev, and nothing else has changed.
Taken(r, req, port, node) ==
    [r EXCEPT !.local_request = Retained(req),
              !.prev          = PrevOf(req, port, node)]

\* The same, field by field.
TakenFrom(t, r, req, port) ==
    /\ t \in Ring
    /\ t.is_rpl_owner     = r.is_rpl_owner
    /\ t.is_rpl_neighbour = r.is_rpl_neighbour
    /\ t.rpl_port         = r.rpl_port
    /\ t.state            = r.state
    /\ t.blocked          = r.blocked
    /\ t.timers           = r.timers
    /\ t.raps             = r.raps
    /\ t.is_sending_raps  = r.is_sending_raps
    /\ t.local_request    = Retained(req)
    /\ t.prev.req         = req
    /\ t.prev.port        = IF req \in PortRequest THEN port ELSE NoPort
    /\ req \notin RemoteRequest => t.prev.node = NoNode

\* Noting a request changes local_request and prev only.
LEMMA TakenEffect ==
    ASSUME NEW r \in Ring, NEW req \in Request, NEW port, NEW node,
           Arguments(req, port, node),
           NEW t, t = Taken(r, req, port, node)
    PROVE  TakenFrom(t, r, req, port)
<1> DEFINE new == PrevOf(req, port, node)
<1>1. /\ new \in Prev
      /\ new.req = req
      /\ new.port = IF req \in PortRequest THEN port ELSE NoPort
      /\ req \notin RemoteRequest => new.node = NoNode
  BY DEF PrevOf, Prev, Arguments
<1>2. Retained(req) \in LocalRequest
  BY DEF Retained, LocalRequest
<1>3. t = [r EXCEPT !.local_request = Retained(req), !.prev = new]
  BY DEF Taken
<1> HIDE DEF new
<1> QED BY <1>1, <1>2, <1>3 DEF Ring, TakenFrom

\* An accepted request that is not a duplicate gets to the rows of the state.
LEMMA NewRequestTaken ==
    ASSUME NEW r \in Ring, NEW req \in Request, NEW port, NEW node,
           Accepted(r, req), req # "INVALID", PrevOf(req, port, node) # r.prev
    PROVE  ProcessRequest(r, req, port, node) =
               FsmRows(Taken(r, req, port, node), req, port, node)
<1> DEFINE q == [r EXCEPT !.local_request = Retained(req)]
<1>1. q.prev = r.prev
  BY DEF Ring
<1>2. [q EXCEPT !.prev = PrevOf(req, port, node)] = Taken(r, req, port, node)
  BY DEF Taken, Ring
<1>3. ProcessRequest(r, req, port, node) = RingFsm(q, req, port, node)
  BY DEF ProcessRequest
<1> HIDE DEF q
<1> QED BY <1>1, <1>2, <1>3 DEF RingFsm

\* The requests raised by operators, failures and messages; WTR_EXPIRES, the
\* one request a timer raises, is treated apart.
Raised == RemoteRequest \cup PortRequest \cup {"CLEAR"}

\* They are requests, and neither the expiry nor INVALID is among them.
LEMMA RaisedRequest == Raised \subseteq Request /\ "WTR_EXPIRES" \notin Raised
                   /\ "INVALID" \notin Raised
  BY DEF Raised, Request, Severity, RemoteRequest, PortRequest

\* Every frame maps to a remote request.
LEMMA RequestOfFrame ==
    ASSUME NEW frame \in Frame, NEW port \in Port
    PROVE  /\ RequestOf(frame) \in RemoteRequest
           /\ RequestOf(frame) \in Raised
           /\ Arguments(RequestOf(frame), port, frame.node_id)
  BY DEF Frame, RapsRequest, RequestOf, RemoteRequest, Raised, Arguments, PortRequest

\* What the filters and the priority logic let pass over a retained request.
LEMMA AcceptedOver ==
    ASSUME NEW r, NEW req \in Request, Accepted(r, req)
    PROVE  /\ r.local_request = "FS" => req = "CLEAR"
           /\ r.local_request = "SF" => req \in {"CLEAR", "FS", "RAPS_FS", "CLEAR_SF"}
           /\ r.local_request = "MS" => req \notin {"RAPS_NR", "RAPS_NR_RB", "MS", "WTR_EXPIRES"}
           /\ req = "CLEAR" => \/ r.local_request \in {"MS", "FS"}
                               \/ r.is_rpl_owner /\ r.state \notin {"FORCED_SWITCH",
                                          "MANUAL_SWITCH", "PROTECTION", "IDLE"}
           /\ req = "SF" => r.state # "FORCED_SWITCH"
  BY DEF Accepted, Overrides, StandingRequest, Severity, Request, Filtered, ClearDenied

=============================================================================
