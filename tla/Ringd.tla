-------------------------------- MODULE Ringd --------------------------------
(***************************************************************************)
(* One ringd daemon (extras/sim) in an open environment: the neighbours    *)
(* may put any R-APS message on either port at any time, and the operator  *)
(* may give any ring-ctl command.  Whatever the rest of the ring does, one *)
(* node's behaviour is a behaviour of this specification, so an invariant  *)
(* of it holds at every node of every ring.                                *)
(*                                                                         *)
(* One action per entry point: the three libev callbacks (port_cb,         *)
(* ring_timer_cb, send_raps_cb) and the five commands of rio_client.  An   *)
(* action is one whole callback: the two threads of the daemon are taken   *)
(* to enter ring_process_request one after the other.                      *)
(***************************************************************************)
EXTENDS RingFSM, Integers

VARIABLES ring,         \* struct ring
          alive         \* FALSE once the process has called die()

vars == <<ring, alive>>

\* ringd has no option for either: ring_create makes every ring revertive and
\* leaves version 0.
RingdConfig == { c \in Config : c.is_revertive /\ c.version = 0 }

Init == /\ \E c \in RingdConfig : ring = CreateRing(c)
        /\ alive = TRUE

\* ring_process_request; a repeated WTR_EXPIRES or CLEAR that gets as far as
\* the state machine ends the process.
Dies(r, req) == Accepted(r, req) /\ ImpossibleDuplicate(r, req)

Process(req, port) == /\ ring'  = ProcessRequest(ring, req, port, NoNode)
                      /\ alive' = ~Dies(ring, req)

-----------------------------------------------------------------------------
(***************************************************************************)
(* The event loop.                                                         *)
(***************************************************************************)

\* port_cb: frames with our own node_id went around the ring and are dropped.
ReceiveRaps(frame, port, expired) ==
    /\ alive
    /\ frame.node_id # ring.node_id
    /\ expired \/ "guard" \in ring.timers
    /\ ring' = ProcessRaps(ring, frame, port, expired)
    /\ UNCHANGED alive

\* Broken: the expired timer is left running.
WtrExpires_NotCleared ==
    /\ alive
    /\ "wtr" \in ring.timers
    /\ ring'  = ProcessRequest(ring, "WTR_EXPIRES", NoPort, NoNode)
    /\ alive' = ~Dies(ring, "WTR_EXPIRES")

\* ring_timer_cb finds the wait-to-restore time over.  ring_timer clears the
\* timer after the request, whatever the request did to it.
WtrExpires ==
    /\ alive
    /\ "wtr" \in ring.timers
    /\ ring'  = StopTimers(ProcessRequest(ring, "WTR_EXPIRES", NoPort, NoNode),
                           {"wtr"})
    /\ alive' = ~Dies(ring, "WTR_EXPIRES")

\* Broken: the counter is decremented without the test.
SendRaps_NoTest ==
    /\ alive
    /\ ring.is_sending_raps
    /\ ring' = [ring EXCEPT !.bursts_remain = @ - 1]
    /\ UNCHANGED alive

\* send_raps_cb: the bursts go out before the five-second pace.
SendRaps ==
    /\ alive
    /\ ring.is_sending_raps
    /\ ring' = [ring EXCEPT !.bursts_remain = IF @ > 0 THEN @ - 1 ELSE 0]
    /\ UNCHANGED alive

-----------------------------------------------------------------------------
(***************************************************************************)
(* The commands of ring-ctl.                                               *)
(***************************************************************************)
Clear    == alive /\ Process("CLEAR", NoPort)
Ms(port) == alive /\ Process("MS", port)
Fs(port) == alive /\ Process("FS", port)

\* fail and recover set the port's flag first, then raise the request.
Fail(port) ==
    /\ alive
    /\ ring' = ProcessRequest([ring EXCEPT !.failed = @ \cup {port}],
                              "SF", port, NoNode)
    /\ UNCHANGED alive

Recover(port) ==
    /\ alive
    /\ ring' = ProcessRequest([ring EXCEPT !.failed = @ \ {port}],
                              "CLEAR_SF", port, NoNode)
    /\ UNCHANGED alive

Next == \/ \E frame \in Frame, port \in Port, expired \in BOOLEAN :
               ReceiveRaps(frame, port, expired)
        \/ WtrExpires
        \/ SendRaps
        \/ Clear
        \/ \E port \in Port : \/ Ms(port)
                              \/ Fs(port)
                              \/ Fail(port)
                              \/ Recover(port)

Spec == Init /\ [][Next]_vars

\* libev polls both timers every second, so a timer that keeps running is found
\* expired in the end and an announced message is sent.
FairSpec == Spec /\ WF_vars(WtrExpires) /\ WF_vars(SendRaps)

-----------------------------------------------------------------------------
(***************************************************************************)
(* What the daemon promises.                                               *)
(***************************************************************************)

\* The ring record and the process flag stay in their types.
TypeOK == ring \in Ring /\ alive \in BOOLEAN

Sends(r, request) == r.is_sending_raps /\ r.raps.request = request

\* block_port and unblock_port are called in pairs: whatever sequence of
\* requests arrives, the node never cuts itself off on both sides.
NeverIsolated == ring.blocked # Port

\* A forced switch retained in local_request is in force: the state machine
\* stands in FORCED_SWITCH, holds a port blocked and announces FS.
ForcedSwitchInForce ==
    ring.local_request = "FS" =>
        /\ ring.state = "FORCED_SWITCH"
        /\ ring.blocked # {}
        /\ Sends(ring, "FS")

\* In a forced switch of another node both ports forward, failed or not, and
\* the node is silent (rows 04, 18, 32 and 60 undo whatever was set up).
RemoteForcedSwitch ==
    ring.state = "FORCED_SWITCH" /\ ring.local_request # "FS" =>
        ring.blocked = {} /\ ~ring.is_sending_raps

\* A signal failure retained in local_request is in force: the port it was
\* raised on, and only that port, is blocked and SF is announced.
SignalFailInForce ==
    ring.local_request = "SF" =>
        /\ ring.state = "PROTECTION"
        /\ ring.blocked = {ring.prev.port}
        /\ Sends(ring, "SF")

\* The owner's restore timers run in PENDING only; every way out of PENDING
\* stops them (or is their expiry), and nobody else ever starts one.
TimersOfPendingOwner ==
    ring.timers \cap {"wtr", "wtb"} # {} =>
        ring.is_rpl_owner /\ ring.state = "PENDING"

\* start_tx and stop_tx keep pace with the state: a node never goes on
\* announcing FS, SF or a blocked RPL once it has left the state that says so.
AnnouncementInState ==
    ring.is_sending_raps =>
        /\ ring.raps.request = "FS"  => ring.state = "FORCED_SWITCH"
        /\ ring.raps.request = "SF"  => ring.state = "PROTECTION"
        /\ "RB" \in ring.raps.flags => ring.state = "IDLE" /\ ring.is_rpl_owner

\* In IDLE a node that is not the RPL owner is silent; only the RPL neighbour
\* keeps a port blocked, and that is its RPL port.
NonOwnerIdle ==
    ring.state = "IDLE" /\ ~ring.is_rpl_owner =>
        /\ ~ring.is_sending_raps
        /\ ring.blocked = IF ring.is_rpl_neighbour THEN {ring.rpl_port} ELSE {}

\* The wait-to-restore timer alone never drives the daemon into the die() of
\* "impossible duplicit request": if it died, the operator had given CLEAR.
OnlyClearKills == ~alive => ring.prev.req = "CLEAR"

\* An operator's forced switch is ended by CLEAR and by nothing else: no
\* message, failure, recovery or expiry moves the block it set up.
ForcedSwitchHolds ==
    [][ring.local_request = "FS" =>
           \/ ring'.prev.req = "CLEAR"
           \/ /\ ring'.local_request = "FS"
              /\ ring'.blocked = ring.blocked]_vars

\* A signal failure yields to a recovery and to a forced switch, the node's or
\* another's; no manual switch, failure message, NR or CLEAR lifts it.
SignalFailHolds ==
    [][ring.local_request = "SF" =>
           \/ ring'.prev.req \in {"CLEAR_SF", "FS", "RAPS_FS"}
           \/ /\ ring'.local_request = "SF"
              /\ ring'.blocked = ring.blocked]_vars

\* An owner that waits to restore does leave PENDING: the request of the
\* expiring timer is never refused by the priority logic or the state machine.
WtrReverts == "wtr" \in ring.timers ~> (ring.state # "PENDING" \/ ~alive)

=============================================================================
