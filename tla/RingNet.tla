------------------------------- MODULE RingNet -------------------------------
(***************************************************************************)
(* A ring of ringd daemons, joined by links that lose messages and keep    *)
(* the order of the others.  It is the composition of the control process  *)
(* (RingFSM) at every node with R-APS transmission (send_raps_cb) and      *)
(* forwarding (port_cb), and it asks whether the ring stays free of loops. *)
(*                                                                         *)
(* Time.  A frame crosses a link in far less than the 500 ms of the guard  *)
(* timer, so the guard time passes only when no frame is in flight.  That  *)
(* is all the ring relies on.  Most runs also wait for the links to be     *)
(* empty before an operator gives a command and before the wait-to-restore *)
(* timer (fifteen seconds) expires: Unhurried, a bound.  Nothing is        *)
(* assumed about when a frame is sent: the daemon may take five seconds to *)
(* notice that it has something new to announce.                           *)
(***************************************************************************)
EXTENDS RingFSM, Sequences

CONSTANTS Peer,         \* the port at the other end of a port's link
          Owner,        \* the RPL owner ...
          OwnerPort,    \* ... and its end of the RPL
          Menus,        \* bound: each a set of commands that are given together
          MaxCommands,  \* bound: how many commands, of each menu
          Unhurried     \* bound: commands and expiries wait for empty links

Interface == NodeId \X Port

ASSUME RingAssumption ==
    /\ Peer \in [Interface -> Interface]
    /\ \A e \in Interface : Peer[Peer[e]] = e /\ Peer[e][1] # e[1]
    /\ Owner \in NodeId /\ OwnerPort \in Port
    /\ Menus \subseteq SUBSET {"fail", "recover", "ms", "fs", "clear"}
    /\ MaxCommands \in [Menus -> Nat]
    /\ Unhurried \in BOOLEAN

VARIABLES node,         \* struct ring of every daemon
          up,           \* the daemons that have not died
          chan,         \* the frame on its way to an interface, or none
          elapsed,      \* the daemons whose guard time has passed
          menu,         \* the commands that the operators give in this behaviour
          commands,     \* commands given so far
          late          \* history: has a recovery come too late?

vars == <<node, up, chan, elapsed, menu, commands, late>>

-----------------------------------------------------------------------------
(***************************************************************************)
(* The command lines the daemons are started with: one owner, and the node *)
(* at the other end of the RPL as its neighbour.                           *)
(***************************************************************************)
NeighbourEnd == Peer[<<Owner, OwnerPort>>]

ConfigOf(n) ==
    [ node_id          |-> n,
      is_rpl_owner     |-> n = Owner,
      is_rpl_neighbour |-> n = NeighbourEnd[1],
      rpl_port         |-> CASE n = Owner           -> OwnerPort
                             [] n = NeighbourEnd[1] -> NeighbourEnd[2]
                             [] OTHER               -> NoPort,
      is_revertive     |-> TRUE,
      version          |-> 0 ]

NoFrame == <<>>

Init == /\ node     = [n \in NodeId |-> CreateRing(ConfigOf(n))]
        /\ up       = NodeId
        /\ chan     = [e \in Interface |-> NoFrame]
        /\ elapsed  = {}
        /\ menu \in Menus
        /\ commands = 0
        /\ late     = FALSE

Quiet == \A e \in Interface : chan[e] = NoFrame

\* A guard timer that a step of node n starts has not elapsed.  The rows that
\* start it end a switch of the node and lead to PENDING; a row that leads there
\* for another reason answers a frame, and the timer has been stopped for it.
GuardRestarted(n, r) ==
    "guard" \in r.timers /\ r.state = "PENDING" /\ node[n].state # "PENDING"

Step(n, r) ==
    /\ node'    = [node EXCEPT ![n] = r]
    /\ elapsed' = IF GuardRestarted(n, r) THEN elapsed \ {n} ELSE elapsed

-----------------------------------------------------------------------------
(***************************************************************************)
(* Messages.                                                               *)
(***************************************************************************)

\* Broken: the node_id has not been set.
Message_NoNodeId(n) == [ request |-> node[n].raps.request,
                         flags |-> node[n].raps.flags, node_id |-> NoNode ]

\* raps_frame, as start_tx encoded it last.
Message(n) == [ request |-> node[n].raps.request, flags |-> node[n].raps.flags,
                node_id |-> n ]

\* send_raps_cb sends the message on both ports.  How often it does so is left
\* open, and so is bursts_remain, which only sets the pace.
SendRaps(n, delivered) ==
    /\ n \in up
    /\ node[n].is_sending_raps
    /\ \A p \in delivered : chan[Peer[<<n, p>>]] = NoFrame
    /\ chan' = [e \in Interface |->
                    IF e \in { Peer[<<n, p>>] : p \in delivered }
                    THEN <<Message(n)>> ELSE chan[e]]
    /\ UNCHANGED <<node, up, elapsed, menu, commands, late>>

\* port_cb asks only whether the port the frame came in on is blocked.
Forwards(r, p) == p \notin r.blocked

\* port_cb: a frame of our own has been around the ring; any other goes to the
\* control process, and on to the other port.  The link there may lose it.
ReceiveRaps(n, p) ==
    LET frame == chan[<<n, p>>][1]
        r     == ProcessRaps(node[n], frame, p, n \in elapsed)
        next  == Peer[<<n, OtherPort(p)>>]
        taken == [chan EXCEPT ![<<n, p>>] = NoFrame]
    IN  /\ n \in up
        /\ chan[<<n, p>>] # NoFrame
        /\ IF frame.node_id = n
           THEN chan' = taken /\ UNCHANGED <<node, elapsed>>
           ELSE /\ Step(n, r)
                /\ \/ chan' = taken
                   \/ /\ Forwards(r, p)
                      /\ taken[next] = NoFrame
                      /\ chan' = [taken EXCEPT ![next] = <<frame>>]
        /\ UNCHANGED <<up, menu, commands, late>>

\* What is sent to a dead node is lost.
LoseAtDead(n, p) ==
    /\ n \notin up
    /\ chan[<<n, p>>] # NoFrame
    /\ chan' = [chan EXCEPT ![<<n, p>>] = NoFrame]
    /\ UNCHANGED <<node, up, elapsed, menu, commands, late>>

-----------------------------------------------------------------------------
(***************************************************************************)
(* Timers and commands.                                                    *)
(***************************************************************************)
GuardElapses(n) ==
    /\ Quiet
    /\ n \in up
    /\ "guard" \in node[n].timers
    /\ n \notin elapsed
    /\ elapsed' = elapsed \cup {n}
    /\ UNCHANGED <<node, up, chan, menu, commands, late>>

\* Broken: the expired timer is left running.
WtrExpires_NotCleared(n) ==
    /\ Unhurried => Quiet
    /\ n \in up
    /\ "wtr" \in node[n].timers
    /\ Step(n, ProcessRequest(node[n], "WTR_EXPIRES", NoPort, NoNode))
    /\ UNCHANGED <<up, chan, menu, commands, late>>

WtrExpires(n) ==
    /\ Unhurried => Quiet
    /\ n \in up
    /\ "wtr" \in node[n].timers
    /\ Step(n, StopTimers(ProcessRequest(node[n], "WTR_EXPIRES", NoPort, NoNode),
                          {"wtr"}))
    /\ UNCHANGED <<up, chan, menu, commands, late>>

\* A CLEAR_SF that reaches a node when its signal failure is no longer what it
\* stands for: in another node's PROTECTION with no port blocked, or under a
\* manual switch of its own.  (History: no action looks at late.)
LateRecovery(r) == \/ r.state = "PROTECTION" /\ r.blocked = {}
                   \/ r.state = "MANUAL_SWITCH" /\ r.local_request = "MS"

Perform(n, r, req, port) ==
    /\ Unhurried => Quiet
    /\ n \in up
    /\ commands < MaxCommands[menu]
    /\ commands' = commands + 1
    /\ Step(n, ProcessRequest(r, req, port, NoNode))
    /\ up' = IF Accepted(r, req) /\ ImpossibleDuplicate(r, req) THEN up \ {n}
                                                                ELSE up
    /\ late' = (late \/ (req = "CLEAR_SF" /\ LateRecovery(r)))
    /\ UNCHANGED <<chan, menu>>

Clear(n) == "clear" \in menu /\ Perform(n, node[n], "CLEAR", NoPort)
Ms(n, p) == "ms"    \in menu /\ Perform(n, node[n], "MS", p)
Fs(n, p) == "fs"    \in menu /\ Perform(n, node[n], "FS", p)

\* rio_client asks neither whether the port has failed already nor whether it has.
Fail(n, p) ==
    /\ "fail" \in menu
    /\ Perform(n, [node[n] EXCEPT !.failed = @ \cup {p}], "SF", p)

Recover(n, p) ==
    /\ "recover" \in menu
    /\ Perform(n, [node[n] EXCEPT !.failed = @ \ {p}], "CLEAR_SF", p)

Next == \E n \in NodeId :
            \/ \E delivered \in SUBSET Port \ {{}} : SendRaps(n, delivered)
            \/ \E p \in Port : ReceiveRaps(n, p)
            \/ \E p \in Port : LoseAtDead(n, p)
            \/ GuardElapses(n)
            \/ WtrExpires(n)
            \/ Clear(n)
            \/ \E p \in Port : \/ Ms(n, p)
                               \/ Fs(n, p)
                               \/ Fail(n, p)
                               \/ Recover(n, p)

Spec == Init /\ [][Next]_vars

\* The frames in flight are delivered or lost between two that a daemon sends
\* five seconds apart (Quiet again and again); a daemon with something to
\* announce repeats it, every now and then without a loss on its own links; a
\* guard time passes; and a wait-to-restore timer that keeps running is found
\* expired by the poll.
Fairness == /\ []<>Quiet
            /\ \A n \in NodeId : /\ SF_vars(SendRaps(n, Port))
                                 /\ SF_vars(GuardElapses(n))
                                 /\ SF_vars(WtrExpires(n))

FairSpec == Spec /\ Fairness

-----------------------------------------------------------------------------
(***************************************************************************)
(* What the ring promises.                                                 *)
(***************************************************************************)

\* The daemons, the frames in flight and the bounds stay in their types.
TypeOK == /\ node \in [NodeId -> Ring]
          /\ up \subseteq NodeId
          /\ chan \in [Interface -> {NoFrame} \cup { <<f>> : f \in Frame }]
          /\ elapsed \subseteq NodeId
          /\ menu \in Menus
          /\ commands \in 0 .. MaxCommands[menu]
          /\ late \in BOOLEAN

Cut(n) == n \notin up \/ node[n].blocked # {}

\* The purpose of the protocol.  While the state machines hand the block over
\* from one node to another, at every moment some node cuts the ring: no frame
\* of the service traffic can go round for ever.  (A port that has failed does
\* not count: only blocked ports do.)  One thing breaks it, and it takes several
\* commands: a recovery that comes late.
LoopFree == ~late => \E n \in NodeId : Cut(n)

\* The only thing the nodes tell each other is who announces what, and they open
\* their ports on the strength of it.  So a node that goes on announcing has to
\* have a port blocked.
AnnouncerHoldsBlock ==
    ~late => \A n \in NodeId : node[n].is_sending_raps => node[n].blocked # {}

\* What gives way to what: a forced switch to nothing, NR to everything, and of
\* two that announce NR the one with the lower node_id.
Strength(message) ==
    CASE message.request = "FS" -> 5
      [] message.request = "SF" -> 4
      [] message.request = "MS" -> 3
      [] message.request = "NR" -> IF "RB" \in message.flags THEN 2 ELSE 1

Weaker(r, frame) ==
    \/ Strength(r.raps) < Strength(frame)
    \/ /\ Strength(r.raps) = 1
       /\ Strength(frame) = 1
       /\ r.node_id < frame.node_id

Deaf(n) == Guarded(node[n], n \in elapsed)

\* Node k goes on announcing and does not open its ports for this frame: it is
\* deaf until the frame is gone, or it stands for as much.
Backs(k, frame) == /\ node[k].is_sending_raps
                   /\ Deaf(k) \/ ~Weaker(node[k], frame)

\* A frame outlives what its sender stood for, and the node that hears it opens
\* its ports all the same.  So every frame in flight has to be backed by a node.
FramesAreBacked ==
    ~late /\ up = NodeId =>
        \A e \in Interface : chan[e] # NoFrame =>
            \E k \in NodeId : Backs(k, chan[e][1])

\* The owner in IDLE blocks the RPL.  No single daemon can promise it: an owner
\* that hears another node's NR,RB goes to IDLE without blocking anything (row
\* 70).  It takes a ring with one owner, and port_cb dropping the owner's own
\* frames.
OwnerIdleHoldsRpl ==
    Owner \in up /\ node[Owner].state = "IDLE" =>
        node[Owner].blocked = {OwnerPort}

BlockedEnds == { e \in Interface : e[2] \in node[e[1]].blocked }

\* Once every state machine is in IDLE the two ends of the RPL are blocked and
\* nothing else is: the ring is cut at the RPL and connected everywhere else.
IdleRingIsOpen ==
    up = NodeId /\ (\A n \in NodeId : node[n].state = "IDLE") =>
        BlockedEnds = {<<Owner, OwnerPort>>, NeighbourEnd}

Daemon(n) == INSTANCE Ringd WITH ring <- node[n], alive <- n \in up

\* Composition adds nothing to what a single daemon may do: seen from any node
\* the ring is a behaviour of Ringd, so that all of Ringd's invariants hold at
\* every node of it.
EveryNodeIsRingd ==
    /\ \A n \in NodeId : Daemon(n)!Init
    /\ [][\A n \in NodeId : UNCHANGED Daemon(n)!vars \/ Daemon(n)!Next]_vars

\* A ring that is switched on and left alone (no command is ever given) settles:
\* the wait-to-restore timer ends, the owner's NR,RB reaches everybody, and every
\* node stays in IDLE.
Settles == [](commands = 0) => <>[](\A n \in NodeId : node[n].state = "IDLE")

\* Failures leave nothing behind: when every port works again, the ring ends up
\* connected, cut at the RPL by its owner and nowhere else.  (Not every node
\* need be back in IDLE: see the deduplication hazard.)
Reopens ==
    <>[](\A n \in NodeId : node[n].failed = {}) =>
        <>[](/\ <<Owner, OwnerPort>> \in BlockedEnds
             /\ BlockedEnds \subseteq {<<Owner, OwnerPort>>, NeighbourEnd})

=============================================================================
