---------------------------- MODULE RingNetProofs ----------------------------
(***************************************************************************)
(* Theorems about a ring of daemons, for every number of nodes, every way  *)
(* of joining them, every owner, every menu of commands and any number of  *)
(* them: every node is a ringd daemon, the owner in IDLE blocks the RPL,   *)
(* a ring whose nodes are all in IDLE is open everywhere else, and short   *)
(* of a late recovery some node always cuts the ring.                      *)
(*                                                                         *)
(* Daemon(n) is Ringd with the state of node n for its own, and brings its *)
(* own copy of RingFSM.  The first lemmas say that the copy is the same.   *)
(***************************************************************************)
EXTENDS RingNet, RingFSMPromises

-----------------------------------------------------------------------------
\* The constants of the control process.
LEMMA SameConstants ==
    \A n :
        /\ Daemon(n)!NoNode = NoNode
        /\ Daemon(n)!Port = Port
        /\ Daemon(n)!NoPort = NoPort
        /\ Daemon(n)!Severity = Severity
        /\ Daemon(n)!Request = Request
        /\ Daemon(n)!RemoteRequest = RemoteRequest
        /\ Daemon(n)!PortRequest = PortRequest
        /\ Daemon(n)!PlainRequest = PlainRequest
        /\ Daemon(n)!RapsRequest = RapsRequest
        /\ Daemon(n)!RAPS_BURSTS = RAPS_BURSTS
        /\ Daemon(n)!Timer = Timer
        /\ Daemon(n)!Flag = Flag
        /\ Daemon(n)!Frame = Frame
        /\ Daemon(n)!Config = Config
  BY DEF Daemon!NoNode, NoNode, Daemon!Port, Port, Daemon!NoPort, NoPort,
         Daemon!Severity, Severity, Daemon!Request, Request,
         Daemon!RemoteRequest, RemoteRequest, Daemon!PortRequest, PortRequest,
         Daemon!PlainRequest, PlainRequest, Daemon!RapsRequest, RapsRequest,
         Daemon!RAPS_BURSTS, RAPS_BURSTS, Daemon!Timer, Timer, Daemon!Flag, Flag,
         Daemon!Frame, Frame, Daemon!Config, Config

\* What the rows are made of.
LEMMA SameActions ==
    /\ \A n, r, timer : Daemon(n)!StartTimer(r, timer) = StartTimer(r, timer)
    /\ \A n, r, timers : Daemon(n)!StopTimers(r, timers) = StopTimers(r, timers)
    /\ \A n, port : Daemon(n)!OtherPort(port) = OtherPort(port)
    /\ \A n, r, port : Daemon(n)!BlockPort(r, port) = BlockPort(r, port)
    /\ \A n, r, port : Daemon(n)!UnblockPort(r, port) = UnblockPort(r, port)
    /\ \A n, r : Daemon(n)!UnblockPorts(r) = UnblockPorts(r)
    /\ \A n, r : Daemon(n)!UnblockNonfailed(r) = UnblockNonfailed(r)
    /\ \A n, r, request, flags :
           Daemon(n)!StartTx(r, request, flags) = StartTx(r, request, flags)
    /\ \A n, r : Daemon(n)!StopTx(r) = StopTx(r)
    /\ \A n, r, state : Daemon(n)!Enter(r, state) = Enter(r, state)
    /\ \A n, r, remote : Daemon(n)!LosesTo(r, remote) = LosesTo(r, remote)
  BY DEF Daemon!StartTimer, StartTimer, Daemon!StopTimers, StopTimers,
         Daemon!OtherPort, OtherPort, Daemon!BlockPort, BlockPort,
         Daemon!UnblockPort, UnblockPort, Daemon!UnblockPorts, UnblockPorts,
         Daemon!UnblockNonfailed, UnblockNonfailed, Daemon!StartTx, StartTx,
         Daemon!StopTx, StopTx, Daemon!Enter, Enter, Daemon!LosesTo, LosesTo,
         Daemon!RAPS_BURSTS, RAPS_BURSTS

\* Yielding, and the owner's timers.
LEMMA SameSteps ==
    /\ \A n, r, state : Daemon(n)!YieldTo(r, state) = YieldTo(r, state)
    /\ \A n, r : Daemon(n)!YieldToForced(r) = YieldToForced(r)
    /\ \A n, r : Daemon(n)!OwnerStopsTimers(r) = OwnerStopsTimers(r)
    /\ \A n, r, timer : Daemon(n)!OwnerStarts(r, timer) = OwnerStarts(r, timer)
    /\ \A n, r, remote : Daemon(n)!IdleLosesTo(r, remote) = IdleLosesTo(r, remote)
  BY SameActions DEF Daemon!YieldTo, YieldTo, Daemon!YieldToForced, YieldToForced,
         Daemon!OwnerStopsTimers, OwnerStopsTimers, Daemon!OwnerStarts, OwnerStarts,
         Daemon!IdleLosesTo, IdleLosesTo

\* Switching and announcing.
LEMMA SameSwitches ==
    /\ \A n, r, port, request, flags :
           Daemon(n)!Isolate(r, port, request, flags) =
               Isolate(r, port, request, flags)
    /\ \A n, r, timer : Daemon(n)!AnnounceNR(r, timer) = AnnounceNR(r, timer)
    /\ \A n, r : Daemon(n)!ObeyRplBlocked(r) = ObeyRplBlocked(r)
  BY SameActions, SameSteps DEF Daemon!Isolate, Isolate,
         Daemon!AnnounceNR, AnnounceNR, Daemon!ObeyRplBlocked, ObeyRplBlocked

\* Reverting.
LEMMA SameRevert ==
    /\ \A n, r, timers : Daemon(n)!Revert(r, timers) = Revert(r, timers)
  BY SameActions, SameSwitches DEF Daemon!Revert, Revert

\* The rows of every state.
LEMMA SameRows ==
    /\ \A n, r :
           Daemon(n)!InitRows(r) = InitRows(r)
    /\ \A n, r, req, port, remote :
           Daemon(n)!IdleRows(r, req, port, remote) = IdleRows(r, req, port, remote)
    /\ \A n, r, req, port :
           Daemon(n)!ProtectionRows(r, req, port) = ProtectionRows(r, req, port)
    /\ \A n, r, req, port :
           Daemon(n)!ManualSwitchRows(r, req, port) = ManualSwitchRows(r, req, port)
    /\ \A n, r, req, port :
           Daemon(n)!ForcedSwitchRows(r, req, port) = ForcedSwitchRows(r, req, port)
    /\ \A n, r, req, port, remote :
           Daemon(n)!PendingRows(r, req, port, remote) =
               PendingRows(r, req, port, remote)
  BY SameConstants, SameActions, SameSteps, SameSwitches, SameRevert
  DEF
      Daemon!InitRows, InitRows, Daemon!IdleRows, IdleRows,
      Daemon!ProtectionRows, ProtectionRows,
      Daemon!ManualSwitchRows, ManualSwitchRows,
      Daemon!ForcedSwitchRows, ForcedSwitchRows, Daemon!PendingRows, PendingRows

\* ring_fsm, for a ring whose state is one of the states.
LEMMA SameFsm ==
    ASSUME NEW n, NEW r \in Ring, NEW req, NEW port, NEW remote
    PROVE  Daemon(n)!RingFsm(r, req, port, remote) = RingFsm(r, req, port, remote)
<1> DEFINE new == PrevOf(req, port, remote)
           t   == [r EXCEPT !.prev = new]
<1>1. Daemon(n)!PrevOf(req, port, remote) = new
  BY DEF Daemon!PrevOf, PrevOf, Daemon!PortRequest, PortRequest,
         Daemon!RemoteRequest, RemoteRequest, Daemon!NoPort, NoPort,
         Daemon!NoNode, NoNode
<1> HIDE DEF new
<1>2. t.state \in RingState
  BY DEF Ring
<1> HIDE DEF t
<1>3. Daemon(n)!FsmRows(t, req, port, remote) = FsmRows(t, req, port, remote)
  BY <1>2, SameRows DEF Daemon!FsmRows, FsmRows, RingState
<1> QED BY <1>1, <1>3 DEF Daemon!RingFsm, RingFsm, new, t

\* The filters and the priority logic.
LEMMA SameAccepted ==
    ASSUME NEW n, NEW r, NEW req
    PROVE  Daemon(n)!Accepted(r, req) <=> Accepted(r, req)
  BY DEF Daemon!Accepted, Accepted, Daemon!Filtered, Filtered, Daemon!Overrides,
         Overrides, Daemon!StandingRequest, StandingRequest, Daemon!ClearDenied,
         ClearDenied, Daemon!Severity, Severity

\* ring_process_request.
LEMMA SameRequest ==
    ASSUME NEW n, NEW r \in Ring, NEW req \in Request, NEW port, NEW remote
    PROVE  Daemon(n)!ProcessRequest(r, req, port, remote) =
               ProcessRequest(r, req, port, remote)
<1> DEFINE q == [r EXCEPT !.local_request = Retained(req)]
<1>1. q \in Ring
  BY DEF Retained, LocalRequest, Ring
<1>2. Daemon(n)!Retained(req) = Retained(req)
  BY DEF Daemon!Retained, Retained
<1> HIDE DEF q
<1>3. Daemon(n)!RingFsm(q, req, port, remote) = RingFsm(q, req, port, remote)
  BY <1>1, SameFsm
<1> QED BY <1>2, <1>3, SameAccepted DEF Daemon!ProcessRequest, ProcessRequest, q

\* process_raps_frame.
LEMMA SameRaps ==
    ASSUME NEW n, NEW r \in Ring, NEW frame \in Frame, NEW port \in Port, NEW expired
    PROVE  Daemon(n)!ProcessRaps(r, frame, port, expired) =
               ProcessRaps(r, frame, port, expired)
<1> DEFINE t   == StopTimers(r, {"guard"})
           req == RequestOf(frame)
<1>1. t \in Ring
  BY DEF StopTimers, Ring
<1>2. req \in Request
  BY RequestOfFrame, RaisedRequest
<1>3. Daemon(n)!RequestOf(frame) = req
  BY DEF Daemon!RequestOf, RequestOf, Frame, RapsRequest
<1>4. Daemon(n)!Guarded(r, expired) <=> Guarded(r, expired)
  BY DEF Daemon!Guarded, Guarded
<1>5. Daemon(n)!StopTimers(r, {"guard"}) = t
  BY SameActions
<1> HIDE DEF t, req
<1>6. Daemon(n)!ProcessRequest(t, req, port, frame.node_id) =
          ProcessRequest(t, req, port, frame.node_id)
  BY <1>1, <1>2, SameRequest
<1> QED BY <1>3, <1>4, <1>5, <1>6 DEF Daemon!ProcessRaps, ProcessRaps, t, req

\* ring_create.
LEMMA SameCreateRing ==
    ASSUME NEW n, NEW c \in Config
    PROVE  Daemon(n)!CreateRing(c) = CreateRing(c)
<1> DEFINE r == NewRing(c)
<1>1. 0 \in 0 .. RAPS_BURSTS
  BY DEF RAPS_BURSTS
<1>2. PrevOf("INVALID", NoPort, NoNode) \in Prev
  BY DEF PrevOf, Prev, Request, Severity, PortRequest, RemoteRequest
<1>3. r \in Ring
  BY <1>1, <1>2 DEF NewRing, Config, Ring, RingState, LocalRequest, RapsRequest
<1>4. Daemon(n)!NewRing(c) = r
  BY SameConstants DEF Daemon!NewRing, NewRing, Daemon!PrevOf, PrevOf
<1> HIDE DEF r
<1>5. Daemon(n)!RingFsm(r, "INVALID", NoPort, NoNode) =
          RingFsm(r, "INVALID", NoPort, NoNode)
  BY <1>3, SameFsm
<1> QED BY <1>4, <1>5, SameConstants DEF Daemon!CreateRing, CreateRing, r

-----------------------------------------------------------------------------
(***************************************************************************)
(* The inductive invariant.  It adds to the types what the messages carry  *)
(* from node to node: only the owner ever announces RB.                    *)
(***************************************************************************)

\* Node n keeps its identity and its role, and the owner in IDLE its block.
InPlace(n, r) ==
    /\ Sound(r)
    /\ r.node_id = n
    /\ r.is_rpl_owner = (n = Owner)
    /\ r.is_rpl_neighbour = (n = NeighbourEnd[1])
    /\ r.rpl_port = ConfigOf(n).rpl_port
    /\ r.raps.flags \subseteq {"DNF", "RB"}
    /\ HoldsRpl(r)

\* A frame that may be on a link: the owner's if it says that the RPL is blocked.
InFlight(f) == f \in Frame /\ ("RB" \in f.flags => f.node_id = Owner)

\* What may be on the links.
Links(c) == /\ c \in [Interface -> {NoFrame} \cup { <<f>> : f \in Frame }]
            /\ \A e \in Interface : c[e] # NoFrame => InFlight(c[e][1])

\* The parts of the inductive invariant that a step at a node may disturb.
Nodes(nd) == nd \in [NodeId -> Ring] /\ \A n \in NodeId : InPlace(n, nd[n])

\* The inductive invariant of the ring.
IInv == /\ Nodes(node)
        /\ Links(chan)
        /\ up \subseteq NodeId
        /\ elapsed \subseteq NodeId
        /\ menu \in Menus
        /\ commands \in 0 .. MaxCommands[menu]
        /\ late \in BOOLEAN

-----------------------------------------------------------------------------
\* The RPL has two ends at two nodes.
LEMMA RingEnds ==
    /\ Owner \in NodeId /\ OwnerPort \in Port
    /\ NeighbourEnd \in Interface /\ NeighbourEnd = <<NeighbourEnd[1], NeighbourEnd[2]>>
    /\ NeighbourEnd[1] \in NodeId /\ NeighbourEnd[2] \in Port
    /\ NeighbourEnd[1] # Owner
<1>1. <<Owner, OwnerPort>> \in Interface /\ Owner \in NodeId /\ OwnerPort \in Port
  BY RingAssumption DEF Interface
<1>2. NeighbourEnd \in Interface /\ NeighbourEnd[1] # Owner
  BY <1>1, RingAssumption DEF NeighbourEnd
<1> QED BY <1>1, <1>2 DEF Interface

\* The command line of every node is one ring_create takes.
LEMMA ConfigOfNode ==
    ASSUME NEW n \in NodeId
    PROVE  ConfigOf(n) \in Config /\ ConfigOf(n) \in Daemon(n)!RingdConfig
<1>1. ConfigOf(n).rpl_port \in Port \cup {NoPort} /\ 0 \in 0 .. 2
  BY RingEnds DEF ConfigOf
<1>2. ConfigOf(n) \in [ node_id : NodeId, is_rpl_owner : BOOLEAN,
                        is_rpl_neighbour : BOOLEAN, rpl_port : Port \cup {NoPort},
                        is_revertive : BOOLEAN, version : 0 .. 2 ]
  BY <1>1 DEF ConfigOf
<1>3. ~(ConfigOf(n).is_rpl_owner /\ ConfigOf(n).is_rpl_neighbour)
  BY RingEnds DEF ConfigOf
<1>4. (ConfigOf(n).rpl_port = NoPort)
          = ~(ConfigOf(n).is_rpl_owner \/ ConfigOf(n).is_rpl_neighbour)
  BY RingEnds DEF ConfigOf, Port, NoPort
<1>5. ConfigOf(n) \in Config
  BY <1>2, <1>3, <1>4 DEF Config
<1>6. ConfigOf(n).is_revertive /\ ConfigOf(n).version = 0
  BY DEF ConfigOf
<1> QED BY <1>5, <1>6, SameConstants DEF Daemon!RingdConfig

\* Every node starts in its place.
LEMMA CreatedInPlace ==
    ASSUME NEW n \in NodeId
    PROVE  InPlace(n, CreateRing(ConfigOf(n)))
<1> DEFINE r == CreateRing(ConfigOf(n))
<1>1. Sound(r)
  BY ConfigOfNode, CreateRingSound
<1>2. /\ r.node_id          = ConfigOf(n).node_id
      /\ r.is_rpl_owner     = ConfigOf(n).is_rpl_owner
      /\ r.is_rpl_neighbour = ConfigOf(n).is_rpl_neighbour
      /\ r.rpl_port         = ConfigOf(n).rpl_port
      /\ r.raps.flags       = {}
      /\ r.state            = "PENDING"
  BY ConfigOfNode, CreateRingRoles
<1>3. /\ ConfigOf(n).node_id = n
      /\ ConfigOf(n).is_rpl_owner = (n = Owner)
      /\ ConfigOf(n).is_rpl_neighbour = (n = NeighbourEnd[1])
  BY DEF ConfigOf
<1> HIDE DEF r
<1>4. InPlace(n, r)
  BY <1>1, <1>2, <1>3 DEF InPlace, HoldsRpl
<1> QED BY <1>4 DEF r

\* A node that carries its identity and roles along stays in its place.
LEMMA StaysInPlace ==
    ASSUME NEW n, NEW r, InPlace(n, r), NEW s, Sound(s), Carries(s, r), HoldsRpl(s)
    PROVE  InPlace(n, s)
  BY DEF InPlace, Carries

\* A step that moves one node from its place to its place.
LEMMA StepInPlace ==
    ASSUME IInv, NEW n \in NodeId, NEW r, InPlace(n, r), Step(n, r)
    PROVE  Nodes(node)' /\ (elapsed \subseteq NodeId)'
<1>1. r \in Ring /\ node' = [node EXCEPT ![n] = r]
  BY DEF InPlace, Sound, Step
<1>2. Nodes(node)'
  BY <1>1 DEF IInv, Nodes
<1>3. (elapsed \subseteq NodeId)'
  BY DEF Step, IInv
<1> QED BY <1>2, <1>3

\* send_raps_cb: what a node announces is a frame, and RB is the owner's.
LEMMA MessageInFlight ==
    ASSUME NEW n \in NodeId, InPlace(n, node[n]), node[n].is_sending_raps
    PROVE  InFlight(Message(n))
<1>1. /\ node[n].raps.request \in RapsRequest
      /\ node[n].raps.flags \in SUBSET {"DNF", "RB"}
  BY DEF InPlace, Sound, Ring
<1>2. "RB" \in node[n].raps.flags => n = Owner
  BY DEF InPlace, Sound, Parts, AnnouncePart
<1> QED BY <1>1, <1>2 DEF InFlight, Message, Frame

\* Putting a frame on some links, and taking one off, keeps the links in order.
LEMMA LinksKept ==
    ASSUME NEW c, Links(c), NEW f, InFlight(f), NEW es
    PROVE  /\ Links([e \in Interface |-> IF e \in es THEN <<f>> ELSE c[e]])
           /\ \A e \in Interface : Links([c EXCEPT ![e] = NoFrame])
           /\ \A e \in Interface : Links([c EXCEPT ![e] = <<f>>])
<1>1. <<f>> \in {NoFrame} \cup { <<g>> : g \in Frame } /\ <<f>>[1] = f
  BY DEF InFlight
<1>2. NoFrame \in {NoFrame} \cup { <<g>> : g \in Frame }
  OBVIOUS
<1> DEFINE S == {NoFrame} \cup { <<g>> : g \in Frame }
<1> HIDE DEF S
<1>3. ASSUME NEW d \in [Interface -> S],
             \A e \in Interface : d[e] \in {c[e], NoFrame, <<f>>}
      PROVE  Links(d)
  BY <1>1, <1>3 DEF Links, S
<1>4. c \in [Interface -> S] /\ <<f>> \in S /\ NoFrame \in S
  BY <1>1, <1>2 DEF Links, S
<1>5. Links([e \in Interface |-> IF e \in es THEN <<f>> ELSE c[e]])
  <2> DEFINE d == [e \in Interface |-> IF e \in es THEN <<f>> ELSE c[e]]
  <2>1. d \in [Interface -> S] /\ \A e \in Interface : d[e] \in {c[e], NoFrame, <<f>>}
    BY <1>4
  <2> QED BY <1>3, <2>1
<1>6. ASSUME NEW e \in Interface
      PROVE  Links([c EXCEPT ![e] = NoFrame]) /\ Links([c EXCEPT ![e] = <<f>>])
  <2>1. ASSUME NEW x \in {NoFrame, <<f>>}
        PROVE  Links([c EXCEPT ![e] = x])
    <3> DEFINE d == [c EXCEPT ![e] = x]
    <3>1. d \in [Interface -> S] /\ \A i \in Interface : d[i] \in {c[i], NoFrame, <<f>>}
      BY <1>4
    <3> QED BY <1>3, <3>1
  <2> QED BY <2>1
<1> QED BY <1>5, <1>6

-----------------------------------------------------------------------------
(***************************************************************************)
(* The steps of a node: each leaves it in its place, and is a step of      *)
(* Ringd there.                                                            *)
(***************************************************************************)

\* Seen from node n, the step is a step of Ringd or a stutter.
IsRingd(n) == [Daemon(n)!Next]_(Daemon(n)!vars)

\* A step at n leaves the other nodes as they are.
LEMMA OthersStutter ==
    ASSUME IInv, NEW n \in NodeId, NEW r, Step(n, r),
           NEW m \in NodeId \ {n}, m \in up' <=> m \in up
    PROVE  IsRingd(m)
<1>1. node'[m] = node[m]
  BY DEF Step, IInv, Nodes
<1> QED BY <1>1 DEF IsRingd, Daemon!vars

\* A step that touches neither the nodes nor who is up.
LEMMA AllStutter ==
    ASSUME UNCHANGED <<node, up>>, NEW m
    PROVE  IsRingd(m)
  BY DEF IsRingd, Daemon!vars

\* port_cb: the owner drops its own frames, so it never hears NR,RB.
LEMMA ReceiveStep ==
    ASSUME IInv, NEW n \in NodeId, NEW p \in Port, ReceiveRaps(n, p)
    PROVE  IInv' /\ \A m \in NodeId : IsRingd(m)
<1> DEFINE frame   == chan[<<n, p>>][1]
           expired == n \in elapsed
           r       == ProcessRaps(node[n], frame, p, expired)
           next    == Peer[<<n, OtherPort(p)>>]
           taken   == [chan EXCEPT ![<<n, p>>] = NoFrame]
<1>1. /\ <<n, p>> \in Interface
      /\ <<n, OtherPort(p)>> \in Interface
      /\ next \in Interface
  BY OtherPortType, RingAssumption DEF Interface
<1>2. /\ n \in up
      /\ chan[<<n, p>>] # NoFrame
      /\ UNCHANGED <<up, menu, commands, late>>
  BY DEF ReceiveRaps
<1>3. Links(chan) /\ InFlight(frame)
  BY <1>1, <1>2 DEF IInv, Links
<1>4. InPlace(n, node[n]) /\ node[n] \in Ring /\ Sound(node[n])
  BY DEF IInv, Nodes, InPlace
<1>5. CASE frame.node_id = n
  <2>1. UNCHANGED <<node, elapsed>> /\ chan' = taken
    BY <1>5 DEF ReceiveRaps
  <2>2. Links(taken)
    BY <1>1, <1>3, LinksKept
  <2> HIDE DEF taken
  <2>3. IInv'
    BY <1>2, <2>1, <2>2 DEF IInv
  <2> QED BY <1>2, <2>1, <2>3, AllStutter
<1>6. CASE frame.node_id # n
  <2>1. /\ Step(n, r)
        /\ chan' = taken \/ chan' = [taken EXCEPT ![next] = <<frame>>]
    BY <1>6 DEF ReceiveRaps
  <2>2. frame \in Frame /\ (node[n].is_rpl_owner => "RB" \notin frame.flags)
    BY <1>3, <1>4, <1>6 DEF InFlight, InPlace
  <2>3. Sound(r)
    BY <1>4, <2>2, ProcessRapsKeepsSound
  <2>4. Carries(r, node[n]) /\ HoldsRpl(r)
    BY <1>4, <2>2, RapsCarries DEF InPlace
  <2>5. Links(taken)
    BY <1>1, <1>3, LinksKept
  <2> HIDE DEF taken, r, next, frame
  <2>6. Links(chan')
    <3>1. Links([taken EXCEPT ![next] = <<frame>>])
      BY <1>1, <1>3, <2>5, LinksKept
    <3> QED BY <2>1, <2>5, <3>1
  <2>7. InPlace(n, r)
    BY <1>4, <2>3, <2>4, StaysInPlace
  <2>8. IInv'
    BY <1>2, <2>1, <2>6, <2>7, StepInPlace DEF IInv
  <2>9. IsRingd(n)
    <3> DEFINE e == expired \/ "guard" \notin node[n].timers
    <3>1. node'[n] = r /\ (n \in up <=> n \in up')
      BY <1>2, <2>1 DEF Step, IInv, Nodes
    <3>2. r = ProcessRaps(node[n], frame, p, e)
      BY DEF r, ProcessRaps, Guarded
    <3> HIDE DEF e
    <3>3. r = Daemon(n)!ProcessRaps(node[n], frame, p, e)
      BY <1>4, <2>2, <3>2, SameRaps
    <3>4. e \in BOOLEAN /\ (e \/ "guard" \in node[n].timers)
      BY DEF e
    <3>5. frame \in Daemon(n)!Frame /\ p \in Daemon(n)!Port
      BY <2>2, SameConstants
    <3>6. frame.node_id # node[n].node_id
      BY <1>4, <1>6 DEF InPlace
    <3>7. Daemon(n)!ReceiveRaps(frame, p, e)
      BY <1>2, <3>1, <3>3, <3>4, <3>6 DEF Daemon!ReceiveRaps
    <3> QED BY <3>4, <3>5, <3>7 DEF IsRingd, Daemon!Next
  <2>10. \A m \in NodeId \ {n} : IsRingd(m)
    BY <1>2, <2>1, OthersStutter
  <2> QED BY <2>8, <2>9, <2>10
<1> QED BY <1>5, <1>6

\* ring_timer_cb: the expiry never ends the process.
LEMMA WtrExpiresStep ==
    ASSUME IInv, NEW n \in NodeId, WtrExpires(n)
    PROVE  IInv' /\ \A m \in NodeId : IsRingd(m)
<1> DEFINE u == ProcessRequest(node[n], "WTR_EXPIRES", NoPort, NoNode)
           r == StopTimers(u, {"wtr"})
<1>1. /\ n \in up
      /\ "wtr" \in node[n].timers
      /\ Step(n, r)
      /\ UNCHANGED <<up, chan, menu, commands, late>>
  BY DEF WtrExpires
<1>2. InPlace(n, node[n]) /\ node[n] \in Ring /\ Sound(node[n])
  BY DEF IInv, Nodes, InPlace
<1>3. Sound(r)
  BY <1>1, <1>2, WtrStep
<1>4. Carries(r, node[n]) /\ HoldsRpl(r)
  BY <1>1, <1>2, WtrCarries DEF InPlace
<1>5. ~ImpossibleDuplicate(node[n], "WTR_EXPIRES")
  BY <1>1, <1>2 DEF ImpossibleDuplicate, Sound, Parts, TimerPart
<1> HIDE DEF r
<1>6. InPlace(n, r)
  BY <1>2, <1>3, <1>4, StaysInPlace
<1>7. IInv'
  BY <1>1, <1>6, StepInPlace DEF IInv
<1>8. IsRingd(n)
  <2>1. node'[n] = r /\ (n \in up <=> n \in up')
    BY <1>1 DEF Step, IInv, Nodes
  <2>2. u = Daemon(n)!ProcessRequest(node[n], "WTR_EXPIRES", NoPort, NoNode)
    BY <1>2, SameRequest DEF Request, Severity
  <2>3. r = Daemon(n)!StopTimers(u, {"wtr"})
    BY SameActions DEF r
  <2>4. ~Daemon(n)!Dies(node[n], "WTR_EXPIRES")
    BY <1>5 DEF Daemon!Dies, Daemon!ImpossibleDuplicate, ImpossibleDuplicate,
                Daemon!PlainRequest, PlainRequest
  <2> HIDE DEF u
  <2>5. Daemon(n)!WtrExpires
    BY <1>1, <2>1, <2>2, <2>3, <2>4, SameConstants DEF Daemon!WtrExpires
  <2> QED BY <2>5 DEF IsRingd, Daemon!Next
<1>9. \A m \in NodeId \ {n} : IsRingd(m)
  BY <1>1, OthersStutter
<1> QED BY <1>7, <1>8, <1>9

\* A command given at a node leaves ring_process_request's ring there.
LEMMA PerformStep ==
    ASSUME IInv, NEW n \in NodeId, NEW r, InPlace(n, r),
           NEW req \in PortRequest \cup {"CLEAR"}, NEW port,
           port \in IF req = "CLEAR" THEN {NoPort} ELSE Port,
           Perform(n, r, req, port)
    PROVE  /\ IInv'
           /\ n \in up
           /\ node'[n] = Daemon(n)!ProcessRequest(r, req, port, NoNode)
           /\ n \in up' <=> ~Daemon(n)!Dies(r, req)
           /\ req # "CLEAR" => n \in up'
           /\ \A m \in NodeId \ {n} : IsRingd(m)
<1> DEFINE s    == ProcessRequest(r, req, port, NoNode)
           dies == Accepted(r, req) /\ ImpossibleDuplicate(r, req)
<1>1. /\ n \in up
      /\ commands < MaxCommands[menu]
      /\ commands' = commands + 1
      /\ Step(n, s)
      /\ up' = IF dies THEN up \ {n} ELSE up
      /\ late' = (late \/ (req = "CLEAR_SF" /\ LateRecovery(r)))
      /\ UNCHANGED <<chan, menu>>
  BY DEF Perform
<1>2. /\ req \in Raised
      /\ req \in Request \ {"INVALID"}
      /\ Arguments(req, port, NoNode)
      /\ req # "RAPS_NR_RB"
  BY DEF Raised, Request, Severity, Arguments, PortRequest, RemoteRequest
<1>3. r \in Ring /\ Sound(r) /\ HoldsRpl(r)
  BY DEF InPlace, Sound
<1>4. Sound(s)
  BY <1>2, <1>3, ProcessRequestKeepsSound
<1>5. Carries(s, r) /\ HoldsRpl(s)
  BY <1>2, <1>3, RequestCarries
<1>6. s = Daemon(n)!ProcessRequest(r, req, port, NoNode)
  BY <1>2, <1>3, SameRequest
<1>7. dies <=> Daemon(n)!Dies(r, req)
  BY SameAccepted DEF Daemon!Dies, Daemon!ImpossibleDuplicate, ImpossibleDuplicate,
                      Daemon!PlainRequest, PlainRequest
<1>8. req # "CLEAR" => ~dies
  BY DEF ImpossibleDuplicate, PlainRequest, PortRequest
<1> HIDE DEF s, dies
<1>9. InPlace(n, s)
  BY <1>4, <1>5, StaysInPlace
<1>10. node'[n] = s
  BY <1>1 DEF Step, IInv, Nodes
<1>11. commands' \in 0 .. MaxCommands[menu] /\ late' \in BOOLEAN
  BY <1>1, RingAssumption DEF IInv
<1>12. IInv'
  BY <1>1, <1>9, <1>11, StepInPlace DEF IInv
<1>13. \A m \in NodeId \ {n} : IsRingd(m)
  BY <1>1, OthersStutter
<1> QED BY <1>1, <1>6, <1>7, <1>8, <1>10, <1>12, <1>13

\* clear, ms and fs are Ringd's.
LEMMA SwitchStep ==
    ASSUME IInv, NEW n \in NodeId,
           Clear(n) \/ \E p \in Port : Ms(n, p) \/ Fs(n, p)
    PROVE  IInv' /\ \A m \in NodeId : IsRingd(m)
<1>1. InPlace(n, node[n])
  BY DEF IInv, Nodes
<1>2. CASE Clear(n)
  <2>1. Perform(n, node[n], "CLEAR", NoPort)
    BY <1>2 DEF Clear
  <2>2. /\ IInv'
        /\ n \in up
        /\ node'[n] = Daemon(n)!ProcessRequest(node[n], "CLEAR", NoPort, NoNode)
        /\ n \in up' <=> ~Daemon(n)!Dies(node[n], "CLEAR")
        /\ \A m \in NodeId \ {n} : IsRingd(m)
    BY <1>1, <2>1, PerformStep
  <2>3. Daemon(n)!Clear
    BY <2>2, SameConstants DEF Daemon!Clear, Daemon!Process
  <2> QED BY <2>2, <2>3 DEF IsRingd, Daemon!Next
<1>3. ASSUME NEW p \in Port, NEW req \in {"MS", "FS"}, Perform(n, node[n], req, p)
      PROVE  IInv' /\ (\A m \in NodeId \ {n} : IsRingd(m)) /\ n \in up
             /\ Daemon(n)!Process(req, p)
  <2>1. req \in PortRequest \cup {"CLEAR"} /\ req # "CLEAR"
    BY DEF PortRequest
  <2>2. /\ IInv'
        /\ n \in up
        /\ node'[n] = Daemon(n)!ProcessRequest(node[n], req, p, NoNode)
        /\ n \in up' <=> ~Daemon(n)!Dies(node[n], req)
        /\ \A m \in NodeId \ {n} : IsRingd(m)
    BY <1>1, <1>3, <2>1, PerformStep
  <2> QED BY <2>2, SameConstants DEF Daemon!Process
<1>4. ASSUME NEW p \in Port, Ms(n, p) \/ Fs(n, p)
      PROVE  IInv' /\ \A m \in NodeId : IsRingd(m)
  <2>1. p \in Daemon(n)!Port
    BY SameConstants
  <2>2. CASE Ms(n, p)
    <3>1. Perform(n, node[n], "MS", p)
      BY <2>2 DEF Ms
    <3>2. Daemon(n)!Ms(p)
      BY <1>3, <3>1 DEF Daemon!Ms
    <3> QED BY <1>3, <2>1, <3>1, <3>2 DEF IsRingd, Daemon!Next
  <2>3. CASE Fs(n, p)
    <3>1. Perform(n, node[n], "FS", p)
      BY <2>3 DEF Fs
    <3>2. Daemon(n)!Fs(p)
      BY <1>3, <3>1 DEF Daemon!Fs
    <3> QED BY <1>3, <2>1, <3>1, <3>2 DEF IsRingd, Daemon!Next
  <2> QED BY <1>4, <2>2, <2>3
<1> QED BY <1>2, <1>4

\* fail and recover are Ringd's, and never end the process.
LEMMA FailureStep ==
    ASSUME IInv, NEW n \in NodeId, NEW p \in Port, Fail(n, p) \/ Recover(n, p)
    PROVE  IInv' /\ \A m \in NodeId : IsRingd(m)
<1>1. InPlace(n, node[n]) /\ node[n] \in Ring /\ p \in Daemon(n)!Port
  BY SameConstants DEF IInv, Nodes, InPlace
<1>2. ASSUME NEW failed \in SUBSET Port, NEW req \in {"SF", "CLEAR_SF"},
             Perform(n, [node[n] EXCEPT !.failed = failed], req, p)
      PROVE  /\ IInv'
             /\ \A m \in NodeId \ {n} : IsRingd(m)
             /\ n \in up /\ n \in up'
             /\ node'[n] = Daemon(n)!ProcessRequest(
                               [node[n] EXCEPT !.failed = failed], req, p, NoNode)
  <2> DEFINE r == [node[n] EXCEPT !.failed = failed]
  <2>1. 0 \in 0 .. RAPS_BURSTS
    BY DEF RAPS_BURSTS
  <2>2. Sound(r)
    BY <1>1, <2>1, UnseenFieldsKeepSound DEF InPlace
  <2>3. Carries(r, node[n]) /\ HoldsRpl(r)
    BY <1>1 DEF Carries, HoldsRpl, InPlace, Ring
  <2>4. req \in PortRequest \cup {"CLEAR"} /\ req # "CLEAR"
    BY DEF PortRequest
  <2> HIDE DEF r
  <2>5. InPlace(n, r)
    BY <1>1, <2>2, <2>3, StaysInPlace
  <2>6. /\ IInv'
        /\ n \in up
        /\ node'[n] = Daemon(n)!ProcessRequest(r, req, p, NoNode)
        /\ n \in up'
        /\ \A m \in NodeId \ {n} : IsRingd(m)
    BY <1>2, <2>4, <2>5, PerformStep DEF r
  <2> QED BY <2>6 DEF r
<1>3. CASE Fail(n, p)
  <2> DEFINE failed == node[n].failed \cup {p}
  <2>1. failed \in SUBSET Port
    BY <1>1 DEF Ring
  <2>2. Perform(n, [node[n] EXCEPT !.failed = failed], "SF", p)
    BY <1>3 DEF Fail
  <2> HIDE DEF failed
  <2>3. /\ IInv'
        /\ \A m \in NodeId \ {n} : IsRingd(m)
        /\ n \in up /\ n \in up'
        /\ node'[n] = Daemon(n)!ProcessRequest(
                          [node[n] EXCEPT !.failed = failed], "SF", p, NoNode)
    BY <1>2, <2>1, <2>2
  <2>4. Daemon(n)!Fail(p)
    BY <2>3, SameConstants DEF Daemon!Fail, failed
  <2> QED BY <1>1, <2>3, <2>4 DEF IsRingd, Daemon!Next
<1>4. CASE Recover(n, p)
  <2> DEFINE failed == node[n].failed \ {p}
  <2>1. failed \in SUBSET Port
    BY <1>1 DEF Ring
  <2>2. Perform(n, [node[n] EXCEPT !.failed = failed], "CLEAR_SF", p)
    BY <1>4 DEF Recover
  <2> HIDE DEF failed
  <2>3. /\ IInv'
        /\ \A m \in NodeId \ {n} : IsRingd(m)
        /\ n \in up /\ n \in up'
        /\ node'[n] = Daemon(n)!ProcessRequest(
                          [node[n] EXCEPT !.failed = failed], "CLEAR_SF", p, NoNode)
    BY <1>2, <2>1, <2>2
  <2>4. Daemon(n)!Recover(p)
    BY <2>3, SameConstants DEF Daemon!Recover, failed
  <2> QED BY <1>1, <2>3, <2>4 DEF IsRingd, Daemon!Next
<1> QED BY <1>3, <1>4

\* Sending, losing and the passing of the guard time move no node.
LEMMA LinkStep ==
    ASSUME IInv, NEW n \in NodeId,
           \/ \E delivered \in SUBSET Port \ {{}} : SendRaps(n, delivered)
           \/ \E p \in Port : LoseAtDead(n, p)
           \/ GuardElapses(n)
    PROVE  IInv' /\ \A m \in NodeId : IsRingd(m)
<1>1. InPlace(n, node[n]) /\ Links(chan)
  BY DEF IInv, Nodes
<1>2. ASSUME NEW delivered \in SUBSET Port, SendRaps(n, delivered)
      PROVE  IInv' /\ UNCHANGED <<node, up>>
  <2> DEFINE es == { Peer[<<n, p>>] : p \in delivered }
  <2>1. /\ node[n].is_sending_raps
        /\ chan' = [e \in Interface |-> IF e \in es THEN <<Message(n)>> ELSE chan[e]]
        /\ UNCHANGED <<node, up, elapsed, menu, commands, late>>
    BY <1>2 DEF SendRaps
  <2>2. InFlight(Message(n))
    BY <1>1, <2>1, MessageInFlight
  <2> HIDE DEF es
  <2>3. Links(chan')
    BY <1>1, <2>1, <2>2, LinksKept
  <2> QED BY <2>1, <2>3 DEF IInv
<1>3. ASSUME NEW p \in Port, LoseAtDead(n, p)
      PROVE  IInv' /\ UNCHANGED <<node, up>>
  <2>1. /\ chan' = [chan EXCEPT ![<<n, p>>] = NoFrame]
        /\ chan[<<n, p>>] # NoFrame
        /\ UNCHANGED <<node, up, elapsed, menu, commands, late>>
    BY <1>3 DEF LoseAtDead
  <2>2. <<n, p>> \in Interface
    BY DEF Interface
  <2>3. InFlight(chan[<<n, p>>][1])
    BY <1>1, <2>1, <2>2 DEF Links
  <2>4. Links(chan')
    BY <1>1, <2>1, <2>2, <2>3, LinksKept
  <2> QED BY <2>1, <2>4 DEF IInv
<1>4. CASE GuardElapses(n)
  BY <1>4, AllStutter DEF GuardElapses, IInv
<1> QED BY <1>2, <1>3, <1>4, AllStutter

-----------------------------------------------------------------------------
\* The daemons are started in their places, and the links are empty.
LEMMA IInvInit == Init => IInv
<1> SUFFICES ASSUME Init
             PROVE  IInv
  OBVIOUS
<1>1. Nodes(node)
  BY CreatedInPlace DEF Init, Nodes, InPlace, Sound
<1>2. Links(chan)
  BY DEF Init, Links
<1>3. commands \in 0 .. MaxCommands[menu]
  BY RingAssumption DEF Init
<1>4. late \in BOOLEAN
  BY DEF Init
<1> QED BY <1>1, <1>2, <1>3, <1>4 DEF Init, IInv

\* Every step keeps the invariant and is, at every node, a step of Ringd or none.
LEMMA IInvNext ==
    ASSUME IInv, [Next]_vars
    PROVE  IInv' /\ \A m \in NodeId : IsRingd(m)
<1>1. CASE UNCHANGED vars
  BY <1>1, AllStutter DEF vars, IInv
<1>2. ASSUME NEW n \in NodeId,
             \/ \E delivered \in SUBSET Port \ {{}} : SendRaps(n, delivered)
             \/ \E p \in Port : LoseAtDead(n, p)
             \/ GuardElapses(n)
      PROVE  IInv' /\ \A m \in NodeId : IsRingd(m)
  BY <1>2, LinkStep
<1>3. ASSUME NEW n \in NodeId, NEW p \in Port, ReceiveRaps(n, p)
      PROVE  IInv' /\ \A m \in NodeId : IsRingd(m)
  BY <1>3, ReceiveStep
<1>4. ASSUME NEW n \in NodeId, WtrExpires(n)
      PROVE  IInv' /\ \A m \in NodeId : IsRingd(m)
  BY <1>4, WtrExpiresStep
<1>5. ASSUME NEW n \in NodeId, Clear(n) \/ \E p \in Port : Ms(n, p) \/ Fs(n, p)
      PROVE  IInv' /\ \A m \in NodeId : IsRingd(m)
  BY <1>5, SwitchStep
<1>6. ASSUME NEW n \in NodeId, NEW p \in Port, Fail(n, p) \/ Recover(n, p)
      PROVE  IInv' /\ \A m \in NodeId : IsRingd(m)
  BY <1>6, FailureStep
<1> QED BY <1>1, <1>2, <1>3, <1>4, <1>5, <1>6 DEF Next

\* The invariant is inductive: every node of every ring stays sound and in its
\* place, whatever is lost and whatever commands are given.
THEOREM Inductive == Spec => []IInv
<1>1. IInv /\ [Next]_vars => IInv'
  BY IInvNext
<1> QED BY IInvInit, <1>1, PTL DEF Spec

\* The invariants that the runs check.
LEMMA IInvImplies ==
    ASSUME IInv
    PROVE  TypeOK /\ OwnerIdleHoldsRpl /\ IdleRingIsOpen
<1>1. TypeOK
  BY DEF IInv, TypeOK, Nodes, Links
<1>2. ASSUME NEW n \in NodeId
      PROVE  /\ node[n].is_rpl_owner = (n = Owner)
             /\ node[n].is_rpl_neighbour = (n = NeighbourEnd[1])
             /\ node[n].rpl_port = ConfigOf(n).rpl_port
             /\ HoldsRpl(node[n])
             /\ IdlePart(node[n])
  BY DEF IInv, Nodes, InPlace, Sound, Parts
<1>3. node[Owner].state = "IDLE" => node[Owner].blocked = {OwnerPort}
  BY <1>2, RingEnds DEF HoldsRpl, ConfigOf
<1>4. IdleRingIsOpen
  <2> SUFFICES ASSUME \A n \in NodeId : node[n].state = "IDLE"
               PROVE  BlockedEnds = {<<Owner, OwnerPort>>, NeighbourEnd}
    BY DEF IdleRingIsOpen
  <2>1. node[Owner].blocked = {OwnerPort}
    BY <1>3, RingEnds
  <2>2. node[NeighbourEnd[1]].blocked = {NeighbourEnd[2]}
    BY <1>2, RingEnds DEF IdlePart, ConfigOf
  <2>3. \A n \in NodeId \ {Owner, NeighbourEnd[1]} : node[n].blocked = {}
    BY <1>2 DEF IdlePart
  <2>4. \A n \in NodeId, p \in Port :
            p \in node[n].blocked <=> <<n, p>> \in {<<Owner, OwnerPort>>, NeighbourEnd}
    BY <2>1, <2>2, <2>3, RingEnds
  <2>5. {<<Owner, OwnerPort>>, NeighbourEnd} \subseteq Interface
    BY RingEnds DEF Interface
  <2> QED BY <2>4, <2>5 DEF BlockedEnds, Interface
<1> QED BY <1>1, <1>3, <1>4 DEF OwnerIdleHoldsRpl

\* The daemons, the frames in flight and the bounds stay in their types.
THEOREM TypeCorrect == Spec => []TypeOK
  BY Inductive, IInvImplies, PTL

\* In a ring with one owner, an owner that is back in IDLE blocks the RPL: its
\* own NR,RB never reaches its control process.
THEOREM OwnerHoldsRpl == Spec => []OwnerIdleHoldsRpl
  BY Inductive, IInvImplies, PTL

\* When all nodes are in IDLE, the RPL is blocked at both ends and nothing else is.
THEOREM IdleRingOpen == Spec => []IdleRingIsOpen
  BY Inductive, IInvImplies, PTL

\* Every node of a ring behaves like a ringd daemon in an open environment: what
\* is proved of Ringd holds at every node.
THEOREM NodesAreRingd == Spec => EveryNodeIsRingd
<1>1. Init => \A n \in NodeId : Daemon(n)!Init
  <2> SUFFICES ASSUME Init, NEW n \in NodeId
               PROVE  Daemon(n)!Init
    OBVIOUS
  <2>1. node[n] = CreateRing(ConfigOf(n)) /\ n \in up
    BY DEF Init
  <2>2. node[n] = Daemon(n)!CreateRing(ConfigOf(n))
    BY <2>1, ConfigOfNode, SameCreateRing
  <2> QED BY <2>1, <2>2, ConfigOfNode DEF Daemon!Init
<1>2. IInv /\ [Next]_vars =>
          [\A n \in NodeId : UNCHANGED Daemon(n)!vars \/ Daemon(n)!Next]_vars
  BY IInvNext DEF IsRingd
<1> QED BY <1>1, <1>2, Inductive, PTL DEF Spec, EveryNodeIsRingd

-----------------------------------------------------------------------------
(***************************************************************************)
(* The ring is never without a block.  While all daemons are up and no     *)
(* recovery has come late, some node announces, and a node that announces  *)
(* has a port blocked.  That some node announces is kept because a node    *)
(* falls silent only for a frame that stands for more than itself, and     *)
(* that frame is backed by a node that goes on announcing: so the frames   *)
(* in flight belong to the invariant.                                      *)
(***************************************************************************)

\* Backs, of any state of the nodes.
BacksIn(nd, el, k, f) == /\ nd[k].is_sending_raps
                         /\ Guarded(nd[k], k \in el) \/ ~Weaker(nd[k], f)

\* Every frame on the links is backed.
FramesIn(nd, el, c) ==
    \A e \in Interface : c[e] # NoFrame =>
        \E k \in NodeId : BacksIn(nd, el, k, c[e][1])

\* The inductive invariant, relative to IInv.
BlockInv == ~late => /\ \A n \in NodeId : Backed(node[n])
                     /\ up = NodeId => /\ \E n \in NodeId : node[n].is_sending_raps
                                      /\ FramesIn(node, elapsed, chan)

-----------------------------------------------------------------------------
\* Strengths are numbers.
LEMMA StrengthType ==
    ASSUME NEW m, m.request \in RapsRequest
    PROVE  Strength(m) \in 1 .. 5
  BY DEF Strength, RapsRequest

\* What a node announces has the strength of what it stands for.
LEMMA StrengthOfState ==
    ASSUME NEW r, Sound(r), Backed(r), r.is_sending_raps
    PROVE  Strength(r.raps) = Standing(r.state)
<1>1. r.state \in RingState \ {"INIT"} /\ r.raps.request \in RapsRequest
  BY DEF Sound, Parts, StateOfRetained, Ring
<1>2. CASE r.state = "FORCED_SWITCH"
  <2>1. r.raps.request = "FS"
    BY <1>2 DEF Sound, Parts, ForcedPart, Announces
  <2> QED BY <1>2, <2>1 DEF Strength, Standing
<1>3. CASE r.state = "PROTECTION"
  <2>1. r.raps.request = "SF"
    BY <1>3 DEF Sound, Parts, FailPart, Announces
  <2> QED BY <1>3, <2>1 DEF Strength, Standing
<1>4. CASE r.state = "MANUAL_SWITCH"
  BY <1>4 DEF Backed, Strength, Standing
<1>5. CASE r.state = "IDLE"
  BY <1>5 DEF Backed, Strength, Standing
<1>6. CASE r.state = "PENDING"
  <2>1. r.raps.request = "NR" /\ "RB" \notin r.raps.flags
    BY <1>6 DEF Backed, Sound, Parts, AnnouncePart
  <2> QED BY <1>6, <2>1 DEF Strength, Standing
<1> QED BY <1>1, <1>2, <1>3, <1>4, <1>5, <1>6 DEF RingState

\* A node that stands by its announcement backs the frames it backed.
LEMMA StandingIsNotWeaker ==
    ASSUME NEW r, Sound(r), Backed(r), r.is_sending_raps,
           NEW s, Sound(s), Backed(s), StandsBy(s, r), s.node_id = r.node_id,
           NEW f \in Frame, ~Weaker(r, f)
    PROVE  ~Weaker(s, f)
<1>1. Strength(r.raps) = Standing(r.state) /\ Strength(s.raps) = Standing(s.state)
  BY StrengthOfState DEF StandsBy
<1>2. /\ Strength(r.raps) \in 1 .. 5
      /\ Strength(s.raps) \in 1 .. 5
      /\ Strength(f) \in 1 .. 5
  BY StrengthType DEF Sound, Ring, Frame
<1>3. Strength(s.raps) >= Strength(r.raps)
  BY <1>1 DEF StandsBy
<1> QED BY <1>2, <1>3 DEF Weaker

\* The messages that silence a node stand for more than the node.
LEMMA OverruledIsWeaker ==
    ASSUME NEW r, Sound(r), Backed(r), r.is_sending_raps,
           NEW f \in Frame, Overruled(r, RequestOf(f), f.node_id)
    PROVE  Weaker(r, f)
<1>1. Strength(r.raps) = Standing(r.state)
  BY StrengthOfState
<1>2. r.state \in RingState \ {"INIT"} /\ f.request \in RapsRequest
  BY DEF Sound, Parts, StateOfRetained, Ring, Frame
<1>3. \/ Standing(r.state) < Strength(f)
      \/ Standing(r.state) = 1 /\ Strength(f) = 1 /\ r.node_id < f.node_id
  BY <1>2 DEF Overruled, RequestOf, Standing, Strength, RapsRequest, RingState
<1> QED BY <1>1, <1>3 DEF Weaker

\* Who backs a frame that silences a node backs whatever the node has backed.
LEMMA Succession ==
    ASSUME NEW r, r.raps.request \in RapsRequest, r.node_id \in Nat,
           NEW k, k.raps.request \in RapsRequest, k.node_id \in Nat,
           NEW f \in Frame, NEW g \in Frame,
           Weaker(r, f), ~Weaker(k, f), ~Weaker(r, g)
    PROVE  ~Weaker(k, g)
<1>1. /\ Strength(r.raps) \in 1 .. 5
      /\ Strength(k.raps) \in 1 .. 5
      /\ Strength(f) \in 1 .. 5
      /\ Strength(g) \in 1 .. 5
  BY StrengthType DEF Frame
<1>2. f.node_id \in Nat /\ g.node_id \in Nat
  BY NodeIdAssumption DEF Frame
<1> QED BY <1>1, <1>2 DEF Weaker

-----------------------------------------------------------------------------
\* A step at n leaves the other nodes, and their deafness, as they are.
LEMMA OthersKept ==
    ASSUME IInv, NEW n \in NodeId, NEW r, Step(n, r)
    PROVE  /\ node'[n] = r
           /\ elapsed' \subseteq elapsed
           /\ GuardRestarted(n, r) => n \notin elapsed'
           /\ \A m \in NodeId : m # n => /\ node'[m] = node[m]
                                          /\ (m \in elapsed') = (m \in elapsed)
  BY DEF Step, IInv, Nodes

\* A node that is not silenced goes on backing what it has backed.
LEMMA BackingStays ==
    ASSUME IInv, NEW n \in NodeId, NEW r, InPlace(n, r), Step(n, r),
           Backed(node[n]), Backed(r),
           node[n].is_sending_raps => StandsBy(r, node[n]) \/ Restarts(r, node[n]),
           Guarded(node[n], n \in elapsed) => "guard" \in r.timers,
           NEW k \in NodeId
    PROVE  /\ node[k].is_sending_raps => node'[k].is_sending_raps
           /\ \A f \in Frame : BacksIn(node, elapsed, k, f) =>
                                   BacksIn(node', elapsed', k, f)
<1>1. /\ node'[n] = r
      /\ elapsed' \subseteq elapsed
      /\ GuardRestarted(n, r) => n \notin elapsed'
      /\ \A m \in NodeId : m # n => /\ node'[m] = node[m]
                                     /\ (m \in elapsed') = (m \in elapsed)
  BY OthersKept
<1>2. CASE k # n
  BY <1>1, <1>2 DEF BacksIn, Guarded
<1>3. CASE k = n /\ ~node[n].is_sending_raps
  BY <1>3 DEF BacksIn
<1>4. CASE k = n /\ node[n].is_sending_raps /\ Restarts(r, node[n])
  <2>1. Guarded(r, n \in elapsed')
    BY <1>1, <1>4 DEF GuardRestarted, Restarts, Guarded
  <2> QED BY <1>1, <1>4, <2>1 DEF BacksIn, Restarts
<1>5. CASE k = n /\ node[n].is_sending_raps /\ StandsBy(r, node[n])
  <2>1. Sound(node[n]) /\ Sound(r) /\ node[n].node_id = n /\ r.node_id = n
    BY DEF IInv, Nodes, InPlace
  <2>2. r.is_sending_raps
    BY <1>5 DEF StandsBy
  <2>3. Guarded(node[n], n \in elapsed) => Guarded(r, n \in elapsed')
    BY <1>1 DEF Guarded
  <2>4. ASSUME NEW f \in Frame, ~Weaker(node[n], f)
        PROVE  ~Weaker(r, f)
    BY <1>5, <2>1, <2>4, StandingIsNotWeaker
  <2> QED BY <1>1, <1>5, <2>2, <2>3, <2>4 DEF BacksIn
<1> QED BY <1>2, <1>3, <1>4, <1>5

\* Frames that only move, or are lost, stay backed if what was backed is.
LEMMA FramesStayBacked ==
    ASSUME IInv, FramesIn(node, elapsed, chan), NEW nd, NEW el, NEW c,
           \A e \in Interface : c[e] # NoFrame =>
               \E d \in Interface : chan[d] # NoFrame /\ c[e][1] = chan[d][1],
           \A f \in Frame, k \in NodeId : BacksIn(node, elapsed, k, f) =>
               \E j \in NodeId : BacksIn(nd, el, j, f)
    PROVE  FramesIn(nd, el, c)
<1> SUFFICES ASSUME NEW e \in Interface, c[e] # NoFrame
             PROVE  \E j \in NodeId : BacksIn(nd, el, j, c[e][1])
  BY DEF FramesIn
<1>1. PICK d \in Interface : chan[d] # NoFrame /\ c[e][1] = chan[d][1]
  OBVIOUS
<1>2. chan[d][1] \in Frame
  BY <1>1 DEF IInv, Links, InFlight
<1>3. PICK k \in NodeId : BacksIn(node, elapsed, k, chan[d][1])
  BY <1>1 DEF FramesIn
<1> QED BY <1>1, <1>2, <1>3

\* A step of a node that is not silenced, while the links stay as they are.
LEMMA StandingStep ==
    ASSUME IInv, BlockInv, NEW n \in NodeId, NEW r, InPlace(n, r), Step(n, r),
           UNCHANGED chan, up' \subseteq up, up \subseteq NodeId, late => late',
           ~late' => /\ Backed(r)
                     /\ node[n].is_sending_raps =>
                            StandsBy(r, node[n]) \/ Restarts(r, node[n]),
           Guarded(node[n], n \in elapsed) => "guard" \in r.timers
    PROVE  BlockInv'
<1> SUFFICES ASSUME ~late'
             PROVE  /\ \A m \in NodeId : Backed(node'[m])
                    /\ up' = NodeId => /\ \E m \in NodeId : node'[m].is_sending_raps
                                      /\ FramesIn(node', elapsed', chan')
  BY DEF BlockInv
<1>1. ~late /\ \A m \in NodeId : Backed(node[m])
  BY DEF BlockInv
<1>2. node'[n] = r /\ \A m \in NodeId : m # n => node'[m] = node[m]
  BY OthersKept
<1>3. \A m \in NodeId : Backed(node'[m])
  BY <1>1, <1>2
<1>4. ASSUME up' = NodeId
      PROVE  /\ \E m \in NodeId : node'[m].is_sending_raps
             /\ FramesIn(node', elapsed', chan')
  <2>1. up = NodeId
    BY <1>4
  <2>2. /\ \E m \in NodeId : node[m].is_sending_raps
        /\ FramesIn(node, elapsed, chan)
    BY <1>1, <2>1 DEF BlockInv
  <2>3. \A k \in NodeId :
            /\ node[k].is_sending_raps => node'[k].is_sending_raps
            /\ \A f \in Frame : BacksIn(node, elapsed, k, f) =>
                                    BacksIn(node', elapsed', k, f)
    BY <1>1, BackingStays
  <2>4. FramesIn(node', elapsed', chan')
    BY <2>2, <2>3, FramesStayBacked
  <2> QED BY <2>2, <2>3, <2>4
<1> QED BY <1>3, <1>4

-----------------------------------------------------------------------------
\* send_raps_cb: the sender backs its own frame.
LEMMA SendKeepsBlock ==
    ASSUME IInv, BlockInv, NEW n \in NodeId, NEW delivered \in SUBSET Port,
           SendRaps(n, delivered)
    PROVE  BlockInv'
<1> DEFINE es == { Peer[<<n, p>>] : p \in delivered }
<1>1. /\ node[n].is_sending_raps
      /\ chan' = [e \in Interface |-> IF e \in es THEN <<Message(n)>> ELSE chan[e]]
      /\ UNCHANGED <<node, up, elapsed, menu, commands, late>>
  BY DEF SendRaps
<1>2. node[n].node_id \in Nat /\ node[n].raps.request \in RapsRequest
  BY NodeIdAssumption DEF IInv, Nodes, InPlace, Ring
<1>3. node[n].node_id = n
  BY DEF IInv, Nodes, InPlace
<1>4. Strength(Message(n)) = Strength(node[n].raps)
  BY DEF Strength, Message
<1>5. ~Weaker(node[n], Message(n))
  <2>1. Strength(node[n].raps) \in 1 .. 5
    BY <1>2, StrengthType
  <2>2. Message(n).node_id = n
    BY DEF Message
  <2> QED BY <1>2, <1>3, <1>4, <2>1, <2>2 DEF Weaker
<1>6. BacksIn(node, elapsed, n, Message(n))
  BY <1>1, <1>5 DEF BacksIn
<1> HIDE DEF es
<1>7. FramesIn(node, elapsed, chan) => FramesIn(node, elapsed, chan')
  BY <1>1, <1>6 DEF FramesIn
<1> QED BY <1>1, <1>7 DEF BlockInv

\* port_cb, for a frame of another node: a node that is silenced leaves the frame
\* to whoever backs it.
LEMMA HearKeepsBlock ==
    ASSUME IInv, BlockInv, NEW n \in NodeId, NEW p \in Port, NEW r, InPlace(n, r),
           Step(n, r), chan[<<n, p>>] # NoFrame, chan[<<n, p>>][1].node_id # n,
           r = ProcessRaps(node[n], chan[<<n, p>>][1], p, n \in elapsed),
           UNCHANGED <<up, late>>,
           \A e \in Interface : chan'[e] # NoFrame =>
               \E d \in Interface : chan[d] # NoFrame /\ chan'[e][1] = chan[d][1]
    PROVE  BlockInv'
<1> DEFINE frame == chan[<<n, p>>][1]
<1> SUFFICES ASSUME ~late
             PROVE  /\ \A m \in NodeId : Backed(node'[m])
                    /\ up = NodeId => /\ \E m \in NodeId : node'[m].is_sending_raps
                                     /\ FramesIn(node', elapsed', chan')
  BY DEF BlockInv
<1>1. \A m \in NodeId : Backed(node[m]) /\ Sound(node[m]) /\ node[m].node_id \in Nat
                      /\ node[m].raps.request \in RapsRequest
  BY NodeIdAssumption DEF BlockInv, IInv, Nodes, InPlace, Ring
<1>2. <<n, p>> \in Interface
  BY DEF Interface
<1>3. frame \in Frame /\ (node[n].is_rpl_owner => "RB" \notin frame.flags)
  BY <1>2 DEF IInv, Links, InFlight, Nodes, InPlace
<1>4. /\ node'[n] = r
      /\ \A m \in NodeId : m # n => /\ node'[m] = node[m]
                                     /\ (m \in elapsed') = (m \in elapsed)
  BY OthersKept
<1>5. CASE Guarded(node[n], n \in elapsed)
  <2>1. r = node[n]
    BY <1>5 DEF ProcessRaps
  <2>2. ~GuardRestarted(n, r)
    BY <2>1 DEF GuardRestarted
  <2>3. node' = node /\ elapsed' = elapsed
    BY <2>1, <2>2 DEF Step, IInv, Nodes
  <2>4. FramesIn(node, elapsed, chan) => FramesIn(node', elapsed', chan')
    BY <2>3, FramesStayBacked
  <2> QED BY <1>1, <2>3, <2>4 DEF BlockInv
<1>6. CASE ~Guarded(node[n], n \in elapsed)
  <2>1. Contest(r, node[n], RequestOf(frame), frame.node_id)
    BY <1>1, <1>3, <1>6, RapsContest
  <2>2. \A m \in NodeId : Backed(node'[m])
    BY <1>1, <1>4, <2>1 DEF Contest
  <2> SUFFICES ASSUME up = NodeId
               PROVE  /\ \E m \in NodeId : node'[m].is_sending_raps
                      /\ FramesIn(node', elapsed', chan')
    BY <2>2
  <2>3. /\ \E m \in NodeId : node[m].is_sending_raps
        /\ FramesIn(node, elapsed, chan)
    BY DEF BlockInv
  <2>4. CASE node[n].is_sending_raps => StandsBy(r, node[n]) \/ Restarts(r, node[n])
    <3>1. \A k \in NodeId :
              /\ node[k].is_sending_raps => node'[k].is_sending_raps
              /\ \A f \in Frame : BacksIn(node, elapsed, k, f) =>
                                      BacksIn(node', elapsed', k, f)
      BY <1>1, <1>6, <2>1, <2>4, BackingStays DEF Contest
    <3>2. FramesIn(node', elapsed', chan')
      BY <2>3, <3>1, FramesStayBacked
    <3> QED BY <2>3, <3>1, <3>2
  <2>5. CASE node[n].is_sending_raps /\ Overruled(node[n], RequestOf(frame), frame.node_id)
    <3>1. Weaker(node[n], frame)
      BY <1>1, <1>3, <2>5, OverruledIsWeaker
    <3>2. PICK k \in NodeId : BacksIn(node, elapsed, k, frame)
      BY <1>2, <2>3 DEF FramesIn
    <3>3. k # n
      BY <1>6, <3>1, <3>2 DEF BacksIn
    <3>4. node'[k] = node[k] /\ (k \in elapsed') = (k \in elapsed)
      BY <1>4, <3>3
    <3>5. node'[k].is_sending_raps
      BY <3>2, <3>4 DEF BacksIn
    <3>6. ASSUME NEW f \in Frame, NEW j \in NodeId, BacksIn(node, elapsed, j, f)
          PROVE  \E i \in NodeId : BacksIn(node', elapsed', i, f)
      <4>1. CASE j # n
        <5>1. BacksIn(node', elapsed', j, f)
          BY <1>4, <3>6, <4>1 DEF BacksIn, Guarded
        <5> QED BY <5>1
      <4>2. CASE j = n
        <5>1. ~Weaker(node[n], f)
          BY <1>6, <3>6, <4>2 DEF BacksIn
        <5>2. Guarded(node[k], k \in elapsed) \/ ~Weaker(node[k], frame)
          BY <3>2 DEF BacksIn
        <5>3. ~Weaker(node[k], frame) => ~Weaker(node[k], f)
          BY <1>1, <1>3, <3>1, <5>1, Succession
        <5>4. BacksIn(node', elapsed', k, f)
          BY <3>4, <3>5, <5>2, <5>3 DEF BacksIn, Guarded
        <5> QED BY <5>4
      <4> QED BY <4>1, <4>2
    <3>7. FramesIn(node', elapsed', chan')
      BY <2>3, <3>6, FramesStayBacked
    <3> QED BY <3>5, <3>7
  <2> QED BY <2>1, <2>4, <2>5 DEF Contest
<1> QED BY <1>5, <1>6

\* port_cb.
LEMMA ReceiveKeepsBlock ==
    ASSUME IInv, BlockInv, NEW n \in NodeId, NEW p \in Port, ReceiveRaps(n, p), IInv'
    PROVE  BlockInv'
<1> DEFINE frame == chan[<<n, p>>][1]
           r     == ProcessRaps(node[n], frame, p, n \in elapsed)
           next  == Peer[<<n, OtherPort(p)>>]
           taken == [chan EXCEPT ![<<n, p>>] = NoFrame]
<1>1. <<n, p>> \in Interface /\ next \in Interface
  BY OtherPortType, RingAssumption DEF Interface
<1>2. chan[<<n, p>>] # NoFrame /\ UNCHANGED <<up, late>>
  BY DEF ReceiveRaps
<1>3. \/ /\ frame.node_id = n
         /\ UNCHANGED <<node, elapsed>>
         /\ chan' = taken
      \/ /\ frame.node_id # n
         /\ Step(n, r)
         /\ chan' = taken \/ chan' = [taken EXCEPT ![next] = <<frame>>]
  BY DEF ReceiveRaps
<1>4. \A e \in Interface : chan'[e] # NoFrame =>
          \E d \in Interface : chan[d] # NoFrame /\ chan'[e][1] = chan[d][1]
  <2>1. chan \in [Interface -> {NoFrame} \cup { <<f>> : f \in Frame }]
    BY DEF IInv, Links
  <2>2. <<frame>>[1] = frame
    OBVIOUS
  <2> HIDE DEF frame, next
  <2>3. CASE chan' = taken
    BY <1>1, <2>1, <2>3
  <2>4. CASE chan' = [taken EXCEPT ![next] = <<frame>>]
    <3>1. ASSUME NEW e \in Interface, chan'[e] # NoFrame
          PROVE  chan'[e] = <<frame>> \/ chan'[e] = chan[e]
      BY <1>1, <2>1, <2>4, <3>1
    <3>2. frame = chan[<<n, p>>][1]
      BY DEF frame
    <3> QED BY <1>1, <1>2, <2>2, <3>1, <3>2
  <2> QED BY <1>3, <2>3, <2>4
<1> HIDE DEF taken, next
<1>5. CASE frame.node_id = n
  <2>1. UNCHANGED <<node, elapsed>>
    BY <1>3, <1>5
  <2>2. FramesIn(node, elapsed, chan) => FramesIn(node', elapsed', chan')
    BY <1>4, <2>1, FramesStayBacked
  <2> QED BY <1>2, <2>1, <2>2 DEF BlockInv
<1>6. CASE frame.node_id # n
  <2>1. Step(n, r)
    BY <1>3, <1>6
  <2>2. node'[n] = r
    BY <2>1, OthersKept
  <2> HIDE DEF r
  <2>3. InPlace(n, r)
    BY <2>2 DEF IInv, Nodes
  <2>4. r = ProcessRaps(node[n], chan[<<n, p>>][1], p, n \in elapsed)
    BY DEF r
  <2> QED BY <1>2, <1>4, <1>6, <2>1, <2>3, <2>4, HearKeepsBlock
<1> QED BY <1>5, <1>6

\* ring_timer_cb: the owner stands for more than before.
LEMMA WtrKeepsBlock ==
    ASSUME IInv, BlockInv, NEW n \in NodeId, WtrExpires(n), IInv'
    PROVE  BlockInv'
<1> DEFINE r == StopTimers(ProcessRequest(node[n], "WTR_EXPIRES", NoPort, NoNode), {"wtr"})
<1>1. /\ "wtr" \in node[n].timers
      /\ Step(n, r)
      /\ UNCHANGED <<up, chan, late>>
  BY DEF WtrExpires
<1>2. Sound(node[n]) /\ up \subseteq NodeId
  BY DEF IInv, Nodes, InPlace
<1>3. /\ Backed(r) /\ StandsBy(r, node[n])
      /\ "guard" \in node[n].timers => "guard" \in r.timers
  BY <1>1, <1>2, WtrContest
<1> HIDE DEF r
<1>4. InPlace(n, r)
  <2>1. node'[n] = r
    BY <1>1, OthersKept
  <2> QED BY <2>1 DEF IInv, Nodes
<1>5. Guarded(node[n], n \in elapsed) => "guard" \in r.timers
  BY <1>3 DEF Guarded
<1> QED BY <1>1, <1>2, <1>3, <1>4, <1>5, StandingStep

\* A command, failure or recovery silences nobody.
LEMMA PerformKeepsBlock ==
    ASSUME IInv, BlockInv, IInv', NEW n \in NodeId, NEW failed \in SUBSET Port,
           NEW r, r \in {node[n], [node[n] EXCEPT !.failed = failed]},
           NEW req \in PortRequest \cup {"CLEAR"}, NEW port,
           port \in IF req = "CLEAR" THEN {NoPort} ELSE Port,
           Perform(n, r, req, port)
    PROVE  BlockInv'
<1> DEFINE s == ProcessRequest(r, req, port, NoNode)
<1>1. /\ Step(n, s)
      /\ UNCHANGED chan
      /\ up' \subseteq up
      /\ late' = (late \/ (req = "CLEAR_SF" /\ LateRecovery(r)))
  BY DEF Perform
<1>2. Sound(node[n]) /\ node[n] \in Ring /\ up \subseteq NodeId
  BY DEF IInv, Nodes, InPlace
<1>3. Sound(r)
  <2>1. 0 \in 0 .. RAPS_BURSTS
    BY DEF RAPS_BURSTS
  <2>2. Sound([node[n] EXCEPT !.failed = failed])
    BY <1>2, <2>1, UnseenFieldsKeepSound
  <2> QED BY <1>2, <2>2
<1>4. /\ r.state = node[n].state
      /\ r.blocked = node[n].blocked
      /\ r.raps = node[n].raps
      /\ r.is_sending_raps = node[n].is_sending_raps
      /\ r.local_request = node[n].local_request
      /\ r.timers = node[n].timers
      /\ r.is_rpl_owner = node[n].is_rpl_owner
      /\ r.rpl_port = node[n].rpl_port
  BY <1>2 DEF Ring
<1>5. /\ req \in Raised
      /\ Arguments(req, port, NoNode)
      /\ req \notin RemoteRequest
  BY DEF Raised, Arguments, PortRequest, RemoteRequest
<1>6. Alone(r, req)
  BY <1>3, <1>5 DEF Alone, RemoteRequest, Sound, Parts, Configured, Ring
<1>7. ASSUME Backed(r), Timely(r, req)
      PROVE  Contest(s, r, req, NoNode)
  BY <1>3, <1>5, <1>6, <1>7, RequestContest
<1>8. Guarded(node[n], n \in elapsed) => "guard" \in s.timers
  BY <1>3, <1>4, <1>5, RequestKeepsGuard DEF Guarded
<1> HIDE DEF s
<1>9. InPlace(n, s)
  <2>1. node'[n] = s
    BY <1>1, OthersKept
  <2> QED BY <2>1 DEF IInv, Nodes
<1>10. ASSUME ~late'
       PROVE  /\ Backed(s)
              /\ node[n].is_sending_raps =>
                     StandsBy(s, node[n]) \/ Restarts(s, node[n])
  <2>1. Backed(node[n]) /\ Timely(r, req)
    BY <1>1, <1>10 DEF BlockInv, Timely, LateRecovery
  <2>2. Backed(r)
    BY <1>4, <2>1 DEF Backed
  <2>3. ~Overruled(r, req, NoNode)
    BY <1>5 DEF Overruled, RemoteRequest
  <2> QED BY <1>4, <1>7, <2>1, <2>2, <2>3 DEF Contest, StandsBy, Restarts
<1>11. late => late'
  BY <1>1
<1> QED BY <1>1, <1>2, <1>8, <1>9, <1>10, <1>11, StandingStep

-----------------------------------------------------------------------------
\* Every daemon starts with a port blocked, announcing NR; the links are empty.
LEMMA BlockInvInit == Init => BlockInv
<1> SUFFICES ASSUME Init
             PROVE  BlockInv
  OBVIOUS
<1>1. \A n \in NodeId : Backed(node[n]) /\ node[n].is_sending_raps
  BY ConfigOfNode, CreateRingContest DEF Init
<1>2. FramesIn(node, elapsed, chan)
  BY DEF Init, FramesIn
<1> QED BY <1>1, <1>2, RingEnds DEF BlockInv

\* Every step keeps the invariant.
LEMMA BlockInvNext ==
    ASSUME IInv, IInv', BlockInv, [Next]_vars
    PROVE  BlockInv'
<1>1. CASE UNCHANGED vars
  BY <1>1 DEF vars, BlockInv
<1>2. ASSUME NEW n \in NodeId, NEW delivered \in SUBSET Port \ {{}},
             SendRaps(n, delivered)
      PROVE  BlockInv'
  BY <1>2, SendKeepsBlock
<1>3. ASSUME NEW n \in NodeId, NEW p \in Port, ReceiveRaps(n, p)
      PROVE  BlockInv'
  BY <1>3, ReceiveKeepsBlock
<1>4. ASSUME NEW n \in NodeId, NEW p \in Port, LoseAtDead(n, p)
      PROVE  BlockInv'
  <2>1. up # NodeId /\ UNCHANGED <<node, up, late>>
    BY <1>4 DEF LoseAtDead
  <2> QED BY <2>1 DEF BlockInv
<1>5. ASSUME NEW n \in NodeId, GuardElapses(n)
      PROVE  BlockInv'
  <2>1. (\A e \in Interface : chan'[e] = NoFrame) /\ UNCHANGED <<node, up, late>>
    BY <1>5 DEF GuardElapses, Quiet
  <2>2. FramesIn(node', elapsed', chan')
    BY <2>1 DEF FramesIn
  <2> QED BY <2>1, <2>2 DEF BlockInv
<1>6. ASSUME NEW n \in NodeId, WtrExpires(n)
      PROVE  BlockInv'
  BY <1>6, WtrKeepsBlock
<1>7. ASSUME NEW n \in NodeId, Clear(n)
      PROVE  BlockInv'
  <2>1. Perform(n, node[n], "CLEAR", NoPort)
    BY <1>7 DEF Clear
  <2> QED BY <2>1, PerformKeepsBlock
<1>8. ASSUME NEW n \in NodeId, NEW p \in Port,
             Ms(n, p) \/ Fs(n, p) \/ Fail(n, p) \/ Recover(n, p)
      PROVE  BlockInv'
  <2>1. \E failed \in SUBSET Port, req \in PortRequest :
            \E r \in {node[n], [node[n] EXCEPT !.failed = failed]} :
                Perform(n, r, req, p)
    <3>1. node[n].failed \in SUBSET Port
      BY DEF IInv, Nodes, InPlace, Ring
    <3> QED BY <1>8, <3>1 DEF Ms, Fs, Fail, Recover, PortRequest
  <2>2. "CLEAR" \notin PortRequest
    BY DEF PortRequest
  <2> QED BY <2>1, <2>2, PerformKeepsBlock
<1> QED BY <1>1, <1>2, <1>3, <1>4, <1>5, <1>6, <1>7, <1>8 DEF Next

\* Relative to the invariant of the nodes and the links, the block is inductive:
\* whatever is lost, delayed or overtaken, and whatever commands are given when.
THEOREM BlockInductive == Spec => []BlockInv
<1>1. IInv /\ IInv' /\ BlockInv /\ [Next]_vars => BlockInv'
  BY BlockInvNext
<1> QED BY BlockInvInit, Inductive, <1>1, PTL DEF Spec

\* What it says of the ring.
LEMMA BlockInvImplies ==
    ASSUME IInv, BlockInv
    PROVE  LoopFree /\ AnnouncerHoldsBlock /\ FramesAreBacked
<1>1. AnnouncerHoldsBlock
  BY DEF BlockInv, Backed, AnnouncerHoldsBlock
<1>2. FramesAreBacked
  BY DEF BlockInv, FramesIn, BacksIn, FramesAreBacked, Backs, Deaf
<1>3. LoopFree
  <2>1. CASE up = NodeId
    BY <1>1, <2>1 DEF BlockInv, LoopFree, AnnouncerHoldsBlock, Cut
  <2>2. CASE up # NodeId
    BY <2>2 DEF IInv, LoopFree, Cut
  <2> QED BY <2>1, <2>2
<1> QED BY <1>1, <1>2, <1>3

\* The purpose of the protocol: at every moment of every behaviour some node cuts
\* the ring, unless a recovery has come late.
THEOREM RingIsLoopFree == Spec => []LoopFree
  BY Inductive, BlockInductive, BlockInvImplies, PTL

\* A node that announces has a port blocked: nobody opens its ports on the word of
\* a node that is open itself.
THEOREM AnnouncersBlock == Spec => []AnnouncerHoldsBlock
  BY Inductive, BlockInductive, BlockInvImplies, PTL

\* No frame in flight outlives the block it speaks of, or its successor's: one
\* that could still open a port is backed by a node that keeps its own blocked.
THEOREM FramesBacked == Spec => []FramesAreBacked
  BY Inductive, BlockInductive, BlockInvImplies, PTL

=============================================================================
