----------------------------- MODULE RingdThreads -----------------------------
(***************************************************************************)
(* The two threads of ringd (extras/sim): the libev loop runs port_cb,     *)
(* ring_timer_cb and send_raps_cb, rio_worker runs the commands of         *)
(* ring-ctl, and both call ring_process_request on the same struct ring    *)
(* without a lock.  Ringd takes a call for one step; here a step is one    *)
(* assignment or one condition of the code, and the threads take turns at  *)
(* every step.                                                             *)
(*                                                                         *)
(* A call is a list of steps still to do.  A step changes the ring, or it  *)
(* is a condition that puts further steps in front of the list, or it      *)
(* returns.  Memory is sequentially consistent: the reorderings of a       *)
(* compiler or of a processor are not added to those of the threads.       *)
(***************************************************************************)
EXTENDS RingSteps, Integers

CONSTANTS StartConfig,  \* the configurations the daemon may be started in
          Calls,        \* bound: how many calls each thread makes
          Stack         \* what an uninitialised int may have in its upper three bytes

Thread == {"loop", "worker"}

\* ringd has no option for either: ring_create makes every ring revertive and
\* leaves version 0.
RingdConfig == { c \in Config : c.is_revertive /\ c.version = 0 }

ASSUME ThreadsAssumption ==
    /\ StartConfig \subseteq RingdConfig
    /\ Calls \in [Thread -> Nat]
    /\ Stack \subseteq Int          \* 24 bits, the sign among them

VARIABLES ring,         \* struct ring
          raps_frame,   \* the buffer start_tx encodes into and send_raps_cb sends
          alive,        \* FALSE once the process has died
          call,         \* what each thread is doing
          made,         \* calls made so far
          before,       \* history: the ring a call that nobody has disturbed began with
          row45         \* history: row 45 has been taken

vars == <<ring, raps_frame, alive, call, made, before, row45>>

\* What most steps leave alone.
aside == <<raps_frame, alive, row45>>

Other(t) == IF t = "loop" THEN "worker" ELSE "loop"

NoRing == <<>>

\* origin is the function that makes the call, new is ring_fsm's new_state, reg
\* what was loaded and not yet stored, after what the caller does in the end.
NoCall == [ origin |-> "none", req |-> "INVALID", port |-> NoPort, node |-> NoNode,
            named |-> NoPort, expired |-> FALSE, new |-> "INIT", reg |-> <<>>,
            todo |-> <<>>, after |-> <<>> ]

Busy(t) == call[t].todo # <<>>
AtRest  == \A t \in Thread : ~Busy(t)

\* The first step of the list is one of these.
AtOneOf(t, steps) == alive /\ Busy(t) /\ Head(call[t].todo)[1] \in steps
At(t, s)          == alive /\ Busy(t) /\ Head(call[t].todo)[1] = s

RestOf(t) == Tail(call[t].todo)

-----------------------------------------------------------------------------
(***************************************************************************)
(* The steps.                                                              *)
(***************************************************************************)

\* The ring but for the counter that only paces the sending.
Unpaced(r) == [r EXCEPT !.bursts_remain = 0]

\* Thread t goes on with list todo and local values c; the ring becomes r.  The
\* history forgets the other thread's beginning when the step is news to it.
Continue(t, c, todo, r) ==
    LET done == IF todo = <<>> THEN NoCall ELSE [c EXCEPT !.todo = todo]
    IN  /\ ring'   = r
        /\ call'   = [call EXCEPT ![t] = done]
        /\ before' = [u \in Thread |->
                         IF \/ u = t /\ todo = <<>>
                            \/ u # t /\ \/ Unpaced(r) # Unpaced(ring)
                                         \/ Head(call[t].todo)[1] \in FrameStore
                         THEN NoRing ELSE before[u]]
        /\ UNCHANGED made

Advance(t, r)  == Continue(t, call[t], RestOf(t), r)
Insert(t, new) == Continue(t, call[t], new \o RestOf(t), ring)
Return(t)      == Continue(t, [call[t] EXCEPT !.after = <<>>], call[t].after, ring)
Die == alive' = FALSE /\ UNCHANGED <<ring, raps_frame, call, made, before, row45>>

Assigns(t) ==
    /\ AtOneOf(t, Assignment)
    /\ Advance(t, Assign(ring, Head(call[t].todo)))
    /\ UNCHANGED aside

\* The conditions inside the rows and inside start_tx.
Holds(t) ==
    LET s == Head(call[t].todo)
    IN  /\ AtOneOf(t, Condition)
        /\ Continue(t, IF Decides(ring, s) THEN [call[t] EXCEPT !.new = s[2]] ELSE call[t],
                    Inserted(ring, s) \o RestOf(t), ring)
        /\ UNCHANGED aside

\* er_raps_encode's stores and the loads before them.
Encodes(t) ==
    /\ AtOneOf(t, FrameStore \cup FrameLoad)
    /\ \/ /\ At(t, "wipe")
          /\ raps_frame' = [request |-> "NR", flags |-> {}, node_id |-> NoNode]
          /\ Advance(t, ring)
       \/ /\ At(t, "load_request")
          /\ Continue(t, [call[t] EXCEPT !.reg = <<ring.raps.request>>], RestOf(t), ring)
          /\ UNCHANGED raps_frame
       \/ /\ At(t, "store_request")
          /\ raps_frame' = [raps_frame EXCEPT !.request = call[t].reg[1]]
          /\ Advance(t, ring)
       \/ /\ At(t, "load_flags")
          /\ Continue(t, [call[t] EXCEPT !.reg = <<ring.raps.flags>>], RestOf(t), ring)
          /\ UNCHANGED raps_frame
       \/ /\ At(t, "store_flags")
          /\ raps_frame' = [raps_frame EXCEPT !.flags = call[t].reg[1]]
          /\ Advance(t, ring)
       \/ /\ At(t, "store_node_id")
          /\ raps_frame' = [raps_frame EXCEPT !.node_id = ring.node_id]
          /\ Advance(t, ring)
    /\ UNCHANGED <<alive, row45>>

-----------------------------------------------------------------------------
(***************************************************************************)
(* ring_process_request and the frame of ring_fsm around the rows.         *)
(***************************************************************************)
ProcessSteps ==
    << <<"filter?">>, <<"clear_sf">>, <<"severe?">>, <<"drop">>, <<"retain">>,
       <<"enter">>, <<"dupe?">>, <<"remember">>, <<"switch">>, <<"store">> >>

Filters(t) ==
    /\ \/ /\ At(t, "filter?")
          /\ IF Filtered(ring, call[t].req) THEN Return(t) ELSE Advance(t, ring)
       \/ /\ At(t, "clear_sf")
          /\ Advance(t, [ring EXCEPT !.local_request =
                             StandingRequest(ring, call[t].req)])
       \/ /\ At(t, "severe?")
          /\ IF Severity[call[t].req] > Severity[ring.local_request]
             THEN Advance(t, ring) ELSE Return(t)
    /\ UNCHANGED aside

\* The old local request is dropped before the new one is retained.
Retains(t) ==
    /\ \/ /\ At(t, "drop")
          /\ Advance(t, [ring EXCEPT !.local_request = "INVALID"])
       \/ /\ At(t, "retain")
          /\ Advance(t, IF Retained(call[t].req) = "INVALID" THEN ring
                        ELSE [ring EXCEPT !.local_request = call[t].req])
    /\ UNCHANGED aside

\* new_state is read first, the state that selects the row after the
\* deduplication, and new_state is stored last, whatever happened meanwhile.
Enters(t) ==
    /\ At(t, "enter")
    /\ Continue(t, [call[t] EXCEPT !.new = ring.state], RestOf(t), ring)
    /\ UNCHANGED aside

Deduplicates(t) ==
    LET c == call[t]
    IN  /\ At(t, "dupe?")
        /\ IF ImpossibleDuplicate(ring, c.req) THEN Die
           ELSE /\ IF PrevOf(c.req, c.port, c.node) = ring.prev THEN Return(t)
                                                                ELSE Advance(t, ring)
                /\ UNCHANGED aside

\* The three prev_* assignments are one step.
Remembers(t) ==
    /\ At(t, "remember")
    /\ Advance(t, [ring EXCEPT !.prev = PrevOf(call[t].req, call[t].port, call[t].node)])
    /\ UNCHANGED aside

Switches(t) ==
    LET row == RowSteps(ring, call[t].req, call[t].port, call[t].node)
    IN  /\ At(t, "switch")
        /\ Continue(t, IF row.new = "same" THEN call[t]
                                           ELSE [call[t] EXCEPT !.new = row.new],
                    row.steps \o RestOf(t), ring)
        /\ row45' = (row45 \/ (ring.state = "FORCED_SWITCH" /\ call[t].req = "FS"))
        /\ UNCHANGED <<raps_frame, alive>>

Stores(t) ==
    /\ At(t, "store")
    /\ LET r == Enter(ring, call[t].new)
       IN  Continue(t, [call[t] EXCEPT !.after = <<>>], call[t].after, r)
    /\ UNCHANGED aside

-----------------------------------------------------------------------------
(***************************************************************************)
(* The event loop.                                                         *)
(***************************************************************************)
Begin(t, c) ==
    /\ alive /\ ~Busy(t)
    /\ made[t] < Calls[t]
    /\ made'   = [made EXCEPT ![t] = @ + 1]
    /\ call'   = [call EXCEPT ![t] = c]
    /\ before' = [before EXCEPT ![t] = <<ring>>]
    /\ UNCHANGED <<ring, aside>>

\* port_cb has received a message of another node.
PortCb(req, node) ==
    /\ node # ring.node_id
    /\ Begin("loop", [NoCall EXCEPT !.origin = "port_cb", !.req = req, !.node = node,
                                    !.todo = << <<"guard?">> >> \o ProcessSteps])

\* ring_process_raps looks at the guard timer.
GuardTest(expired) ==
    /\ At("loop", "guard?")
    /\ expired \/ "guard" \in ring.timers
    /\ IF "guard" \notin ring.timers THEN Advance("loop", ring)
       ELSE IF expired
       THEN Continue("loop", [call["loop"] EXCEPT !.expired = TRUE],
                     Stop("guard") \o RestOf("loop"), ring)
       ELSE Return("loop")
    /\ UNCHANGED aside

\* ring_timer_cb finds the wait-to-restore time over.
RingTimerCb ==
    /\ "wtr" \in ring.timers
    /\ Begin("loop", [NoCall EXCEPT !.origin = "ring_timer", !.req = "WTR_EXPIRES",
                                    !.todo = ProcessSteps, !.after = Stop("wtr")])

\* Broken: the counter is decremented without the test.
Pace_NoTest(r) == << <<"load_bursts">>, <<"store_bursts">> >>

Pace(r) == IF r.bursts_remain > 0 THEN << <<"load_bursts">>, <<"store_bursts">> >>
                                  ELSE <<>>

SendRapsCb ==
    /\ ring.is_sending_raps
    /\ Begin("loop", [NoCall EXCEPT !.origin = "send_raps_cb",
                                    !.todo = << <<"pace?">>, <<"send">>, <<"send">> >>])

\* send_raps_cb takes one off the bursts and sends the buffer on both ports.
Sends ==
    /\ \/ /\ At("loop", "pace?")
          /\ Insert("loop", Pace(ring))
       \/ /\ At("loop", "load_bursts")
          /\ Continue("loop", [call["loop"] EXCEPT !.reg = <<ring.bursts_remain>>],
                      RestOf("loop"), ring)
       \/ /\ At("loop", "store_bursts")
          /\ Advance("loop", [ring EXCEPT !.bursts_remain = call["loop"].reg[1] - 1])
       \/ /\ At("loop", "send")
          /\ Advance("loop", ring)
    /\ UNCHANGED aside

-----------------------------------------------------------------------------
(***************************************************************************)
(* The worker: rio_client.  ring-ctl sends a struct of eight bytes, of     *)
(* which five are received and copied: cmd, three of padding and the low   *)
(* byte of the int param.  The three bytes above are what the stack holds. *)
(***************************************************************************)
PortCommand == [ms |-> "MS", fs |-> "FS", fail |-> "SF", recover |-> "CLEAR_SF"]

CodeOf == [port0 |-> 240, port1 |-> 241]    \* RING_IO_PORT0 and RING_IO_PORT1

\* param as rio_client has it when ring-ctl has sent the code of a port.
ParamOf(named, stack) == CodeOf[named] + 256 * stack

\* Broken: what is not port0 is port1.
PortOfParam_Default(param) == IF param = CodeOf["port0"] THEN "port0" ELSE "port1"

\* param is compared as a whole; no port but the two has a code.
PortOfParam(param) == CASE param = CodeOf["port0"] -> "port0"
                        [] param = CodeOf["port1"] -> "port1"
                        [] OTHER -> NoPort

\* fail and recover set the port's flag before they raise the request.
CommandSteps(cmd, port) ==
    CASE cmd = "fail"    -> << <<"fail", port>> >> \o ProcessSteps
      [] cmd = "recover" -> << <<"recover", port>> >> \o ProcessSteps
      [] OTHER           -> ProcessSteps

\* port->name, which the log prints first, of a null port.
CrashOnNullPort ==
    /\ alive /\ ~Busy("worker")
    /\ made["worker"] < Calls["worker"]
    /\ made'  = [made EXCEPT !["worker"] = @ + 1]
    /\ alive' = FALSE
    /\ UNCHANGED <<ring, raps_frame, call, before, row45>>

RioClient(cmd, named, stack) ==
    LET port == PortOfParam(ParamOf(named, stack))
    IN  IF port = NoPort THEN CrashOnNullPort
        ELSE Begin("worker", [NoCall EXCEPT !.origin = cmd, !.req = PortCommand[cmd],
                                           !.named = named, !.port = port,
                                           !.todo = CommandSteps(cmd, port)])

RioClientClear ==
    Begin("worker", [NoCall EXCEPT !.origin = "clear", !.req = "CLEAR",
                                   !.todo = ProcessSteps])

-----------------------------------------------------------------------------
\* The buffer once the announced message is encoded.
Encoded(r) == [request |-> r.raps.request, flags |-> r.raps.flags, node_id |-> r.node_id]

\* Both threads start when ring_create has executed row 01.  The calls that are
\* counted begin when the bursts of the first message are over.
Init == /\ \E c \in StartConfig : ring = Unpaced(CreateRing(c))
        /\ raps_frame = Encoded(ring)
        /\ alive  = TRUE
        /\ call   = [t \in Thread |-> NoCall]
        /\ made   = [t \in Thread |-> 0]
        /\ before = [t \in Thread |-> NoRing]
        /\ row45  = FALSE

Loop == \/ \E req \in RemoteRequest, node \in NodeId : PortCb(req, node)
        \/ \E expired \in BOOLEAN : GuardTest(expired)
        \/ RingTimerCb
        \/ SendRapsCb
        \/ Sends

Worker == \/ \E cmd \in DOMAIN PortCommand, named \in Port, stack \in Stack :
                 RioClient(cmd, named, stack)
          \/ RioClientClear

Runs(t) == \/ Filters(t) \/ Retains(t) \/ Enters(t) \/ Deduplicates(t)
           \/ Remembers(t) \/ Switches(t) \/ Stores(t)
           \/ Assigns(t) \/ Holds(t) \/ Encodes(t)

Next == Loop \/ Worker \/ \E t \in Thread : Runs(t)

Spec == Init /\ [][Next]_vars

-----------------------------------------------------------------------------
(***************************************************************************)
(* What survives the missing lock.                                         *)
(***************************************************************************)

\* The ring, the buffer and the bookkeeping stay in their types; bursts_remain
\* does although both threads write it: the worker only ever refills it.
TypeOK == /\ ring \in Ring /\ alive \in BOOLEAN
          /\ raps_frame.request \in RapsRequest /\ raps_frame.flags \subseteq Flag
          /\ raps_frame.node_id \in {ring.node_id, NoNode}
          /\ \A t \in Thread : made[t] \in 0 .. Calls[t]

\* The call as Ringd has it, in one step.
AtomicCall(c, r) ==
    LET guarded == "guard" \in r.timers /\ ~c.expired
    IN  CASE c.origin = "port_cb" ->
               IF guarded THEN r
               ELSE ProcessRequest(StopTimers(r, {"guard"}), c.req, c.port, c.node)
          [] c.origin = "ring_timer" ->
               StopTimers(ProcessRequest(r, c.req, c.port, c.node), {"wtr"})
          [] c.origin = "fail" ->
               ProcessRequest([r EXCEPT !.failed = @ \cup {c.port}], c.req, c.port, NoNode)
          [] c.origin = "recover" ->
               ProcessRequest([r EXCEPT !.failed = @ \ {c.port}], c.req, c.port, NoNode)
          [] c.origin = "send_raps_cb" -> r
          [] OTHER -> ProcessRequest(r, c.req, c.port, c.node)

\* A call that the other thread leaves alone does what Ringd says it does in one
\* step: the statements of every row, in the order of the code, come to the row
\* of RingFSM, and the message it announces is the one in the buffer.
UndisturbedCallIsAtomic ==
    [][\A t \in Thread :
           before[t] # NoRing /\ Busy(t) /\ ~Busy(t)' =>
               LET r == before[t][1]
               IN  /\ Unpaced(ring') = Unpaced(AtomicCall(call[t], r))
                   /\ ring.raps # r.raps => raps_frame' = Encoded(ring')]_vars

\* A port command acts on the port it names, whatever is left of its param and
\* whatever rows the loop executes in between: no step of the worker blocks the other
\* port, opens the named one or changes the other's failed flag.
CommandOnNamedPort ==
    [][LET named == call["worker"].named
           other == OtherPort(named)
       IN  call["worker"].origin \in DOMAIN PortCommand
             /\ call'["worker"].todo # call["worker"].todo =>
               /\ ring'.blocked \subseteq ring.blocked \cup {named}
               /\ ring.blocked \subseteq ring'.blocked \cup {other}
               /\ (other \in ring.failed) = (other \in ring'.failed)]_vars

\* Every row that blocks a port opens the other one after it, but for row 45, which
\* counts on the ports being open in FORCED_SWITCH.  As long as it has not been taken
\* the node is not cut off on both sides when both threads are at rest, however many
\* commands and messages have raced before.
RestIsNotIsolated == AtRest /\ ~row45 => ring.blocked # Port

=============================================================================
