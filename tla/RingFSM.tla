------------------------------- MODULE RingFSM -------------------------------
(***************************************************************************)
(* The ERP control process of one ring instance: the request priority      *)
(* logic (ring_process_request), the state machine of table 10-2           *)
(* (ring_fsm, rows 01 to 71) and R-APS reception (process_raps_frame).     *)
(*                                                                         *)
(* The kernel module (src/sys/dev/erps/er_ring.c) and the userspace daemon *)
(* (extras/sim/ring.c) hold the same three functions; they are modelled    *)
(* here once, as operators that take a ring and return the ring the call   *)
(* leaves behind.  The modules that EXTEND this one decide who calls them  *)
(* and when.  There is no state in this module.                            *)
(*                                                                         *)
(* A definition introduced by "Broken" is a variant of the one below it    *)
(* that a slip in the code would give.  Nothing uses it: it is substituted *)
(* for the real definition to see that a property notices.                 *)
(***************************************************************************)
EXTENDS Naturals

CONSTANT NodeId         \* node identifiers; < on them is memcmp() on the bytes

ASSUME NodeIdAssumption == NodeId \subseteq Nat \ {0}

NoNode == 0             \* the null remote_node_id
Port   == {"port0", "port1"}
NoPort == "none"        \* the null struct er_port *

-----------------------------------------------------------------------------
(***************************************************************************)
(* Requests, with the numbers the priority logic compares.                 *)
(***************************************************************************)
Severity ==
    [ INVALID     |-> 0,  RAPS_NR     |-> 1,  RAPS_NR_RB  |-> 2,
      WTB_RUNNING |-> 3,  WTB_EXPIRES |-> 4,  WTR_RUNNING |-> 5,
      WTR_EXPIRES |-> 6,  MS          |-> 7,  RAPS_MS     |-> 8,
      RAPS_SF     |-> 9,  CLEAR_SF    |-> 10, SF          |-> 11,
      RAPS_FS     |-> 12, FS          |-> 13, CLEAR       |-> 14 ]

Request       == DOMAIN Severity
RemoteRequest == {"RAPS_NR", "RAPS_NR_RB", "RAPS_SF", "RAPS_MS", "RAPS_FS"}
PortRequest   == {"MS", "SF", "FS", "CLEAR_SF"}
PlainRequest  == {"WTB_RUNNING", "WTB_EXPIRES", "WTR_RUNNING",
                  "WTR_EXPIRES", "CLEAR"}
LocalRequest  == {"INVALID", "MS", "SF", "FS"}   \* what local_request may hold

RingState == {"INIT", "IDLE", "PROTECTION", "MANUAL_SWITCH",
              "FORCED_SWITCH", "PENDING"}

(***************************************************************************)
(* R-APS messages.  A message carries a request, flags and the node_id of  *)
(* its sender; the flags byte 0xff a fresh ring starts from is the only    *)
(* value with the reserved bits set.                                       *)
(***************************************************************************)
RapsRequest == {"NR", "MS", "SF", "FS"}
Flag        == {"DNF", "RB", "RESERVED"}
Frame       == [request : RapsRequest, flags : SUBSET {"DNF", "RB"},
                node_id : NodeId]

RAPS_BURSTS == 3        \* frames sent back to back when the message changes

(***************************************************************************)
(* struct er_ring.  The ports' is_blocked and is_failed flags are the sets *)
(* of the ports that have them; the three *_timer_active flags are the set *)
(* of running timers; prev holds the request the state machine accepted    *)
(* last, with the argument its deduplication compares.                     *)
(***************************************************************************)
Timer == {"guard", "wtr", "wtb"}

Prev == [req : Request, port : Port \cup {NoPort}, node : NodeId \cup {NoNode}]

Ring == [ node_id          : NodeId,
          is_rpl_owner     : BOOLEAN,
          is_rpl_neighbour : BOOLEAN,
          rpl_port         : Port \cup {NoPort},
          is_revertive     : BOOLEAN,
          version          : 0 .. 2,
          state            : RingState,
          prev             : Prev,
          local_request    : LocalRequest,
          blocked          : SUBSET Port,
          failed           : SUBSET Port,
          timers           : SUBSET Timer,
          raps             : [request : RapsRequest, flags : SUBSET Flag],
          bursts_remain    : 0 .. RAPS_BURSTS,
          is_sending_raps  : BOOLEAN ]

-----------------------------------------------------------------------------
(***************************************************************************)
(* The actions of the state machine.                                       *)
(***************************************************************************)
StartTimer(r, t)  == [r EXCEPT !.timers = @ \cup {t}]
StopTimers(r, ts) == [r EXCEPT !.timers = @ \ ts]

\* Broken: the test the wrong way round.
OtherPort_Inverted(p) == IF p = "port1" THEN "port1" ELSE "port0"

OtherPort(p) == IF p = "port1" THEN "port0" ELSE "port1"

BlockPort(r, p)     == [r EXCEPT !.blocked = @ \cup {p}]
UnblockPort(r, p)   == [r EXCEPT !.blocked = @ \ {p}]
UnblockPorts(r)     == [r EXCEPT !.blocked = {}]
UnblockNonfailed(r) == [r EXCEPT !.blocked = @ \cap r.failed]

\* Broken: a message that was stopped is not started again.
StartTx_OnlyIfNew(r, request, flags) ==
    IF r.raps = [request |-> request, flags |-> flags]
    THEN r
    ELSE [r EXCEPT !.raps            = [request |-> request, flags |-> flags],
                   !.bursts_remain   = RAPS_BURSTS,
                   !.is_sending_raps = TRUE]

\* A message that differs from the previous one is encoded and burst out.
StartTx(r, request, flags) ==
    IF r.raps = [request |-> request, flags |-> flags]
    THEN [r EXCEPT !.is_sending_raps = TRUE]
    ELSE [r EXCEPT !.raps            = [request |-> request, flags |-> flags],
                   !.bursts_remain   = RAPS_BURSTS,
                   !.is_sending_raps = TRUE]

StopTx(r) == [r EXCEPT !.is_sending_raps = FALSE]

Enter(r, state) == [r EXCEPT !.state = state]

\* Broken: the other port is left as it was.
Isolate_OneSided(r, port, request, flags) ==
    LET dnf == IF port \in r.blocked THEN {"DNF"} ELSE {}
    IN  BlockPort(StartTx(r, request, flags \cup dnf), port)

\* Block port, announce request and open the other port.  DNF is set when the
\* port was blocked already, so that no filtering database needs a flush.
Isolate(r, port, request, flags) ==
    LET dnf == IF port \in r.blocked THEN {"DNF"} ELSE {}
    IN  UnblockPort(BlockPort(StartTx(r, request, flags \cup dnf), port),
                    OtherPort(port))

\* Broken: the node goes on announcing its own request.
YieldTo_Talking(r, state) == Enter(UnblockNonfailed(r), state)

\* Open what can be opened for a remote switch and be silent about it.
YieldTo(r, state) == Enter(StopTx(UnblockNonfailed(r)), state)

\* Broken: failed ports stay blocked, as in the other remote switches.
YieldToForced_Nonfailed(r) ==
    Enter(StopTx(UnblockNonfailed(r)), "FORCED_SWITCH")

\* A remote forced switch opens even failed ports.
YieldToForced(r) == Enter(StopTx(UnblockPorts(r)), "FORCED_SWITCH")

\* Broken: the wait-to-block timer is forgotten.
OwnerStopsTimers_WtrOnly(r) ==
    IF r.is_rpl_owner THEN StopTimers(r, {"wtr"}) ELSE r

OwnerStopsTimers(r) ==
    IF r.is_rpl_owner THEN StopTimers(r, {"wtr", "wtb"}) ELSE r

OwnerStarts(r, timer) ==
    IF r.is_rpl_owner /\ r.is_revertive THEN StartTimer(r, timer) ELSE r

\* Broken: the node opens its ports at once.
AnnounceNR_Opens(r, timer) ==
    UnblockPorts(OwnerStarts(StartTx(StartTimer(r, "guard"), "NR", {}), timer))

\* The node that held a switch says that it is over.
AnnounceNR(r, timer) ==
    OwnerStarts(StartTx(StartTimer(r, "guard"), "NR", {}), timer)

-----------------------------------------------------------------------------
(***************************************************************************)
(* ring_fsm, one operator per state.  req, port and node are the arguments *)
(* of the call.  A request without a row of its own below changes nothing. *)
(***************************************************************************)

\* Row 01: whatever the request, block one port and announce NR.
InitRows(r) ==
    LET s == StopTimers(r, Timer)
        t == IF r.is_rpl_owner \/ r.is_rpl_neighbour
             THEN UnblockPort(BlockPort(s, r.rpl_port), OtherPort(r.rpl_port))
             ELSE UnblockPort(BlockPort(s, "port0"), "port1")
    IN  Enter(OwnerStarts(StartTx(t, "NR", {}), "wtr"), "PENDING")

\* Broken: both nodes give way.
LosesTo_Either(r, node) == r.node_id # node

\* Rows 15 and 71: of two nodes that both announce NR, the one with the lower
\* node_id opens its ports.  In IDLE the ends of the RPL keep theirs.
LosesTo(r, node) == r.node_id < node

\* Broken: the ends of the RPL give way too.
IdleLosesTo_Anyone(r, node) == LosesTo(r, node)

IdleLosesTo(r, node) ==
    ~r.is_rpl_owner /\ ~r.is_rpl_neighbour /\ LosesTo(r, node)

\* Rows 02 to 15.
IdleRows(r, req, port, node) ==
    CASE req = "FS"         -> Enter(Isolate(r, port, "FS", {}), "FORCED_SWITCH")
      [] req = "SF"         -> Enter(Isolate(r, port, "SF", {}), "PROTECTION")
      [] req = "MS"         -> Enter(Isolate(r, port, "MS", {}), "MANUAL_SWITCH")
      [] req = "RAPS_FS"    -> YieldToForced(r)
      [] req = "RAPS_SF"    -> YieldTo(r, "PROTECTION")
      [] req = "RAPS_MS"    -> YieldTo(r, "MANUAL_SWITCH")
      [] req = "RAPS_NR_RB" -> LET s == UnblockPort(r, OtherPort(r.rpl_port))
                               IN  IF r.is_rpl_owner THEN s ELSE StopTx(s)
      [] /\ req = "RAPS_NR"
         /\ IdleLosesTo(r, node) -> YieldTo(r, "IDLE")
      [] OTHER              -> r

\* Rows 16 to 29.
ProtectionRows(r, req, port) ==
    CASE req = "FS"         -> Enter(Isolate(r, port, "FS", {}), "FORCED_SWITCH")
      [] req = "SF"         -> Isolate(r, port, "SF", {})
      [] req = "RAPS_FS"    -> YieldToForced(r)
      [] req = "CLEAR_SF"   -> Enter(AnnounceNR(r, "wtr"), "PENDING")
      [] req = "RAPS_NR_RB" -> Enter(r, "PENDING")
      [] req = "RAPS_NR"    -> Enter(OwnerStarts(r, "wtr"), "PENDING")
      [] OTHER              -> r

\* Rows 30 to 43.
ManualSwitchRows(r, req, port) ==
    CASE req = "CLEAR"      -> Enter(IF r.blocked # {} THEN AnnounceNR(r, "wtb")
                                                       ELSE r, "PENDING")
      [] req = "FS"         -> Enter(Isolate(r, port, "FS", {}), "FORCED_SWITCH")
      [] req = "SF"         -> Enter(Isolate(r, port, "SF", {}), "PROTECTION")
      [] req = "RAPS_FS"    -> YieldToForced(r)
      [] req = "RAPS_SF"    -> YieldTo(r, "MANUAL_SWITCH")
      [] /\ req = "RAPS_MS"
         /\ r.blocked # {}  -> Enter(AnnounceNR(r, "wtb"), "PENDING")
      [] req = "RAPS_NR_RB" -> Enter(r, "PENDING")
      [] req = "RAPS_NR"    -> Enter(OwnerStarts(r, "wtb"), "PENDING")
      [] OTHER              -> r

\* Rows 44 to 57.
ForcedSwitchRows(r, req, port) ==
    CASE req = "CLEAR"      -> Enter(IF r.blocked # {} THEN AnnounceNR(r, "wtb")
                                                       ELSE r, "PENDING")
      [] req = "FS"         -> StartTx(BlockPort(r, port), "FS", {})
      [] req = "RAPS_NR_RB" -> Enter(r, "PENDING")
      [] req = "RAPS_NR"    -> Enter(OwnerStarts(r, "wtb"), "PENDING")
      [] OTHER              -> r

\* Broken: the new state is not written back.
Revert_NoState(r, timers) ==
    IF r.is_rpl_owner
    THEN Isolate(StopTimers(r, timers), r.rpl_port, "NR", {"RB"})
    ELSE r

\* Rows 58, 66 and 68: the owner takes the ring back to the RPL.  Each of the
\* three requests stops the timers it did not come from.
Revert(r, timers) ==
    Enter(IF r.is_rpl_owner
          THEN Isolate(StopTimers(r, timers), r.rpl_port, "NR", {"RB"})
          ELSE r,
          "IDLE")

\* Broken: the RPL neighbour opens its end of the RPL like everybody else.
ObeyRplBlocked_NoNeighbour(r) ==
    Enter(IF r.is_rpl_owner THEN OwnerStopsTimers(r) ELSE StopTx(UnblockPorts(r)),
          "IDLE")

\* Row 70: the owner has reverted; make way for it.
ObeyRplBlocked(r) ==
    LET s == IF r.is_rpl_neighbour
             THEN UnblockPort(BlockPort(r, r.rpl_port), OtherPort(r.rpl_port))
             ELSE UnblockPorts(r)
    IN  Enter(IF r.is_rpl_owner THEN OwnerStopsTimers(r) ELSE StopTx(s), "IDLE")

\* Rows 58 to 71.
PendingRows(r, req, port, node) ==
    CASE req = "CLEAR"       -> Revert(r, {"wtr", "wtb"})
      [] req = "WTR_EXPIRES" -> Revert(r, {"wtb"})
      [] req = "WTB_EXPIRES" -> Revert(r, {"wtr"})
      [] req = "FS"          -> Enter(OwnerStopsTimers(Isolate(r, port, "FS", {})),
                                      "FORCED_SWITCH")
      [] req = "SF"          -> Enter(OwnerStopsTimers(Isolate(r, port, "SF", {})),
                                      "PROTECTION")
      [] req = "MS"          -> Enter(OwnerStopsTimers(Isolate(r, port, "MS", {})),
                                      "MANUAL_SWITCH")
      [] req = "RAPS_FS"     -> OwnerStopsTimers(YieldToForced(r))
      [] req = "RAPS_SF"     -> OwnerStopsTimers(YieldTo(r, "PROTECTION"))
      [] req = "RAPS_MS"     -> OwnerStopsTimers(YieldTo(r, "MANUAL_SWITCH"))
      [] req = "RAPS_NR_RB"  -> ObeyRplBlocked(r)
      [] /\ req = "RAPS_NR"
         /\ LosesTo(r, node) -> YieldTo(r, "PENDING")
      [] OTHER               -> r

\* A request is a duplicate of the one accepted last when its name and the
\* argument that counts for it are the same.
PrevOf(req, port, node) ==
    [ req  |-> req,
      port |-> IF req \in PortRequest   THEN port ELSE NoPort,
      node |-> IF req \in RemoteRequest THEN node ELSE NoNode ]

\* "impossible duplicit request received!"
ImpossibleDuplicate(r, req) == req \in PlainRequest /\ req = r.prev.req

FsmRows(r, req, port, node) ==
    CASE r.state = "INIT"          -> InitRows(r)
      [] r.state = "IDLE"          -> IdleRows(r, req, port, node)
      [] r.state = "PROTECTION"    -> ProtectionRows(r, req, port)
      [] r.state = "MANUAL_SWITCH" -> ManualSwitchRows(r, req, port)
      [] r.state = "FORCED_SWITCH" -> ForcedSwitchRows(r, req, port)
      [] r.state = "PENDING"       -> PendingRows(r, req, port, node)

\* RING_REQ_INVALID, the request of ring creation, is never deduplicated.
RingFsm(r, req, port, node) ==
    LET new == PrevOf(req, port, node)
    IN  IF req # "INVALID" /\ new = r.prev
        THEN r
        ELSE FsmRows([r EXCEPT !.prev = new], req, port, node)

-----------------------------------------------------------------------------
(***************************************************************************)
(* ring_process_request: the filters and the priority logic.               *)
(***************************************************************************)

\* CLEAR needs a local switch to end, or an owner that may revert.
ClearDenied(r) ==
    /\ r.local_request \notin {"MS", "FS"}
    /\ \/ ~r.is_rpl_owner
       \/ r.state \in {"FORCED_SWITCH", "MANUAL_SWITCH", "PROTECTION", "IDLE"}

Filtered(r, req) ==
    \/ r.version = 1 /\ req \in {"FS", "MS"}
    \/ req = "SF" /\ r.state = "FORCED_SWITCH"
    \/ req = "CLEAR" /\ ClearDenied(r)

\* Broken: a recovery clears whatever is retained.
StandingRequest_AnyLocal(r, req) ==
    IF req = "CLEAR_SF" THEN "INVALID" ELSE r.local_request

\* Broken: a retained signal failure stops nothing.
StandingRequest_AnyRequest(r, req) ==
    IF r.local_request = "SF" THEN "INVALID" ELSE r.local_request

\* The local request a new request is measured against.
StandingRequest(r, req) ==
    IF r.local_request = "SF" /\ req = "CLEAR_SF" THEN "INVALID"
                                                  ELSE r.local_request

Overrides(r, req) == Severity[req] > Severity[StandingRequest(r, req)]

\* Does the request get past the filters and the priority logic?
Accepted(r, req) == ~Filtered(r, req) /\ Overrides(r, req)

Retained(req) == IF req \in {"SF", "FS", "MS"} THEN req ELSE "INVALID"

ProcessRequest(r, req, port, node) ==
    IF Accepted(r, req)
    THEN RingFsm([r EXCEPT !.local_request = Retained(req)], req, port, node)
    ELSE r

-----------------------------------------------------------------------------
(***************************************************************************)
(* process_raps_frame.  expired tells whether the guard time has passed    *)
(* since the guard timer was started; the flag is cleared only here.       *)
(***************************************************************************)
RequestOf(frame) ==
    CASE frame.request = "NR" -> IF "RB" \in frame.flags THEN "RAPS_NR_RB"
                                                         ELSE "RAPS_NR"
      [] frame.request = "MS" -> "RAPS_MS"
      [] frame.request = "SF" -> "RAPS_SF"
      [] frame.request = "FS" -> "RAPS_FS"

\* Broken: the guard timer is not looked at, or its age is not.
Guarded_Never(r, expired)  == FALSE
Guarded_Always(r, expired) == "guard" \in r.timers

Guarded(r, expired) == "guard" \in r.timers /\ ~expired

ProcessRaps(r, frame, port, expired) ==
    IF Guarded(r, expired)
    THEN r
    ELSE ProcessRequest(StopTimers(r, {"guard"}), RequestOf(frame), port,
                        frame.node_id)

-----------------------------------------------------------------------------
(***************************************************************************)
(* er_ring_create, from the allocated record to the end of row 01.         *)
(***************************************************************************)
Config == { c \in [ node_id          : NodeId,
                    is_rpl_owner     : BOOLEAN,
                    is_rpl_neighbour : BOOLEAN,
                    rpl_port         : Port \cup {NoPort},
                    is_revertive     : BOOLEAN,
                    version          : 0 .. 2 ] :
              /\ ~(c.is_rpl_owner /\ c.is_rpl_neighbour)
              /\ (c.rpl_port = NoPort) = ~(c.is_rpl_owner \/ c.is_rpl_neighbour) }

NewRing(c) ==
    [ node_id          |-> c.node_id,
      is_rpl_owner     |-> c.is_rpl_owner,
      is_rpl_neighbour |-> c.is_rpl_neighbour,
      rpl_port         |-> c.rpl_port,
      is_revertive     |-> c.is_revertive,
      version          |-> c.version,
      state            |-> "INIT",
      prev             |-> PrevOf("INVALID", NoPort, NoNode),
      local_request    |-> "INVALID",
      blocked          |-> {},
      failed           |-> {},
      timers           |-> {},
      raps             |-> [request |-> "NR", flags |-> Flag],
      bursts_remain    |-> 0,
      is_sending_raps  |-> FALSE ]

CreateRing(c) == RingFsm(NewRing(c), "INVALID", NoPort, NoNode)

=============================================================================
