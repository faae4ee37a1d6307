-------------------------- MODULE RingdThreadsProofs --------------------------
(***************************************************************************)
(* Theorems about the two threads of ringd, for every configuration, every *)
(* number of nodes and any number of calls of each thread.                 *)
(*                                                                         *)
(* The invariant is about the lists of steps that the threads have still   *)
(* to do: what a list may hold depends on how far the call has come.       *)
(***************************************************************************)
EXTENDS RingdThreads, RingFSMProofs, SequenceTheorems

-----------------------------------------------------------------------------
(***************************************************************************)
(* Lists of steps.                                                         *)
(***************************************************************************)

\* The statements of a row that have no argument.
PlainStep == {"sending", "silent", "burst", "wipe", "load_request", "store_request",
              "load_flags", "store_flags", "store_node_id"}

\* The statements and conditions of the rows.
RowStep ==
    ({"block", "unblock", "nonfailed?"} \X Port)
    \cup ({"start", "stop"} \X Timer)
    \cup ({"request"} \X RapsRequest)
    \cup ({"flags"} \X SUBSET Flag)
    \cup ({"differs?"} \X RapsRequest \X SUBSET Flag)
    \cup ({"blocked?"} \X Port \X RapsRequest \X SUBSET Flag)
    \cup {<<"any_blocked?", "PENDING">>}
    \cup { <<name>> : name \in PlainStep }

\* The frame of ring_process_request and ring_fsm around the rows, and what the
\* callbacks and the commands do besides.
FrameStep == { <<name>> : name \in {"filter?", "clear_sf", "severe?", "drop", "retain",
                                    "enter", "dupe?", "remember", "switch", "store"} }
OtherStep == ({"fail", "recover"} \X Port)
             \cup { <<name>> : name \in {"guard?", "pace?", "send", "load_bursts",
                                         "store_bursts"} }

Step == RowStep \cup FrameStep \cup OtherStep

\* A list that a row may consist of: what is stored has been loaded in the step
\* before.
Good(l) ==
    /\ l \in Seq(RowStep)
    /\ \A k \in 1 .. Len(l) :
           /\ l[k] = <<"store_request">> => k > 1 /\ l[k - 1] = <<"load_request">>
           /\ l[k] = <<"store_flags">>   => k > 1 /\ l[k - 1] = <<"load_flags">>

\* The list opens a port.
Opens(l) == \E k \in 1 .. Len(l) : l[k][1] = "unblock"

\* Whatever port the list blocks, it opens one later.
Paired(l) ==
    \A k \in 1 .. Len(l) : l[k][1] = "block" =>
        \E m \in k + 1 .. Len(l) : l[m][1] = "unblock"

\* What all rows but row 45 consist of.
Fine(l) == Good(l) /\ Paired(l)

\* The names of the steps of a row, and the types of their arguments.
LEMMA RowStepFields ==
    ASSUME NEW s \in RowStep
    PROVE  /\ s[1] \in {"block", "unblock", "nonfailed?", "start", "stop", "request",
                        "flags", "differs?", "blocked?", "any_blocked?"} \cup PlainStep
           /\ s[1] \in {"block", "unblock", "nonfailed?"} => s[2] \in Port
           /\ s[1] \in {"start", "stop"} => s[2] \in Timer
           /\ s[1] = "request" => s[2] \in RapsRequest
           /\ s[1] = "flags" => s[2] \in SUBSET Flag
           /\ s[1] = "differs?" => s[2] \in RapsRequest /\ s[3] \in SUBSET Flag
           /\ s[1] = "blocked?" =>
                  s[2] \in Port /\ s[3] \in RapsRequest /\ s[4] \in SUBSET Flag
           /\ s[1] = "any_blocked?" => s[2] = "PENDING"
           /\ s[1] \in PlainStep => s = <<s[1]>>
  BY DEF RowStep, PlainStep

\* Lists of one and of two steps.
LEMMA OneIsFine ==
    ASSUME NEW s \in RowStep, s[1] \notin {"store_request", "store_flags"}
    PROVE  /\ Good(<<s>>)
           /\ s[1] # "block" => Fine(<<s>>)
<1>1. Good(<<s>>)
  BY DEF Good
<1> QED BY <1>1 DEF Fine, Paired

\* A list of two statements.
LEMMA TwoAreFine ==
    ASSUME NEW s \in RowStep, s[1] \notin {"store_request", "store_flags", "block"},
           NEW u \in RowStep, u[1] \notin {"store_request", "store_flags", "block"}
    PROVE  Fine(<<s, u>>)
<1>1. Good(<<s, u>>)
  BY DEF Good
<1> QED BY <1>1 DEF Fine, Paired

\* A row without statements.
LEMMA EmptyIsFine == Fine(<<>>)
  BY DEF Fine, Good, Paired

\* One list after the other.
LEMMA GoodConcat ==
    ASSUME NEW a, NEW b, Good(a), Good(b)
    PROVE  Good(a \o b)
<1> DEFINE l == a \o b
<1>1. /\ a \in Seq(RowStep) /\ b \in Seq(RowStep)
      /\ l \in Seq(RowStep) /\ Len(l) = Len(a) + Len(b)
      /\ \A k \in 1 .. Len(a) : l[k] = a[k]
      /\ \A k \in Len(a) + 1 .. Len(l) : l[k] = b[k - Len(a)]
      /\ Len(a) \in Nat /\ Len(b) \in Nat
  BY DEF Good
<1>2. ASSUME NEW k \in 1 .. Len(l)
      PROVE  /\ l[k] = <<"store_request">> => k > 1 /\ l[k - 1] = <<"load_request">>
             /\ l[k] = <<"store_flags">>   => k > 1 /\ l[k - 1] = <<"load_flags">>
  <2> HIDE DEF l
  <2>1. CASE k \in 1 .. Len(a)
    <3>1. k > 1 => k - 1 \in 1 .. Len(a)
      BY <1>1, <2>1
    <3> QED BY <1>1, <2>1, <3>1 DEF Good
  <2>2. CASE k \in Len(a) + 1 .. Len(l)
    <3>1. k - Len(a) \in 1 .. Len(b)
      BY <1>1, <2>2
    <3>2. k - Len(a) > 1 => /\ k - 1 \in Len(a) + 1 .. Len(l) /\ k > 1
                            /\ (k - 1) - Len(a) = (k - Len(a)) - 1
      BY <1>1, <2>2
    <3> QED BY <1>1, <2>2, <3>1, <3>2 DEF Good
  <2> QED BY <1>1, <2>1, <2>2
<1> QED BY <1>1, <1>2 DEF Good

\* Fine lists one after the other are fine.
LEMMA FineConcat ==
    ASSUME NEW a, NEW b, Fine(a), Fine(b)
    PROVE  Fine(a \o b)
<1> DEFINE l == a \o b
<1>1. /\ a \in Seq(RowStep) /\ b \in Seq(RowStep)
      /\ Len(l) = Len(a) + Len(b) /\ Len(a) \in Nat /\ Len(b) \in Nat
      /\ \A k \in 1 .. Len(a) : l[k] = a[k]
      /\ \A k \in 1 .. Len(b) : l[Len(a) + k] = b[k]
  BY DEF Fine, Good
<1>2. Paired(l)
  <2> HIDE DEF l
  <2> SUFFICES ASSUME NEW k \in 1 .. Len(l), l[k][1] = "block"
               PROVE  \E m \in k + 1 .. Len(l) : l[m][1] = "unblock"
    BY DEF Paired
  <2>1. CASE k \in 1 .. Len(a)
    <3>1. PICK m \in k + 1 .. Len(a) : a[m][1] = "unblock"
      BY <1>1, <2>1 DEF Fine, Paired
    <3> QED BY <1>1, <3>1
  <2>2. CASE k \notin 1 .. Len(a)
    <3>1. k - Len(a) \in 1 .. Len(b) /\ l[k] = b[k - Len(a)]
      BY <1>1, <2>2
    <3>2. PICK m \in (k - Len(a)) + 1 .. Len(b) : b[m][1] = "unblock"
      BY <3>1 DEF Fine, Paired
    <3>3. Len(a) + m \in k + 1 .. Len(l) /\ l[Len(a) + m] = b[m]
      BY <1>1, <3>1, <3>2
    <3> QED BY <3>2, <3>3
  <2> QED BY <2>1, <2>2
<1> QED BY <1>2, GoodConcat DEF Fine

\* A list that ends by opening a port.
LEMMA OpensLast ==
    ASSUME NEW a, Good(a), NEW p \in Port
    PROVE  Fine(a \o Unblock(p))
<1> DEFINE l == a \o Unblock(p)
<1>1. Good(Unblock(p))
  BY OneIsFine DEF Unblock, RowStep
<1>2. a \in Seq(RowStep) /\ Len(a) \in Nat
  BY DEF Good
<1>3. Len(l) = Len(a) + 1 /\ l[Len(l)][1] = "unblock"
      /\ \A k \in 1 .. Len(a) : l[k] = a[k]
  BY <1>2 DEF Unblock
<1> HIDE DEF l
<1>4. Paired(l)
  BY <1>2, <1>3 DEF Paired
<1> QED BY <1>1, <1>4, GoodConcat DEF Fine, l


-----------------------------------------------------------------------------
(***************************************************************************)
(* The statements of the rows.                                             *)
(***************************************************************************)
LEMMA PortStepsAreFine ==
    ASSUME NEW p \in Port
    PROVE  Good(Block(p)) /\ Fine(Unblock(p)) /\ OtherPort(p) \in Port
<1>1. <<"block", p>> \in RowStep /\ <<"unblock", p>> \in RowStep
  BY DEF RowStep
<1>2. Good(Block(p))
  BY <1>1, OneIsFine DEF Block
<1>3. Fine(Unblock(p))
  BY <1>1, OneIsFine DEF Unblock
<1> QED BY <1>2, <1>3 DEF OtherPort, Port

\* The statements about timers.
LEMMA TimerStepsAreFine ==
    ASSUME NEW timer \in Timer
    PROVE  Fine(Start(timer)) /\ Fine(Stop(timer))
<1>1. <<"start", timer>> \in RowStep /\ <<"stop", timer>> \in RowStep
  BY DEF RowStep
<1> QED BY <1>1, OneIsFine DEF Start, Stop

\* The statements that stop the transmission and open both ports.
LEMMA PlainStepsAreFine ==
    Fine(TxStop) /\ Fine(UnblockBoth) /\ Fine(NonfailedBoth) /\ Fine(Yielding)
<1>1. /\ <<"silent">> \in RowStep
      /\ \A p \in Port : <<"nonfailed?", p>> \in RowStep /\ <<"unblock", p>> \in RowStep
  BY DEF RowStep, PlainStep
<1>2. Fine(TxStop)
  BY <1>1, OneIsFine DEF TxStop
<1>3. Fine(UnblockBoth)
  BY PortStepsAreFine, FineConcat DEF UnblockBoth, Port
<1>4. Fine(NonfailedBoth)
  BY <1>1, TwoAreFine DEF NonfailedBoth, Port
<1> QED BY <1>2, <1>3, <1>4, FineConcat DEF Yielding

\* start_tx, and the blocking of one port for a request.
LEMMA RequestStepsAreFine ==
    ASSUME NEW request \in RapsRequest, NEW flags \in SUBSET Flag
    PROVE  /\ Fine(TxStart(request, flags))
           /\ \A p \in Port : Fine(Isolating(p, request, flags))
<1>1. /\ <<"differs?", request, flags>> \in RowStep
      /\ <<"sending">> \in RowStep
      /\ \A p \in Port : <<"blocked?", p, request, flags>> \in RowStep
  BY DEF RowStep, PlainStep
<1>2. Fine(TxStart(request, flags))
  BY <1>1, TwoAreFine DEF TxStart
<1> QED BY <1>1, <1>2, OneIsFine DEF Isolating

\* er_raps_encode, field by field: what is stored has been loaded just before.
LEMMA EncodeStepsAreFine == Fine(EncodeSteps)
<1>1. EncodeSteps \in Seq(RowStep) /\ Len(EncodeSteps) = 6
  BY DEF EncodeSteps, RowStep, PlainStep
<1>2. /\ EncodeSteps[1] = <<"wipe">>
      /\ EncodeSteps[2] = <<"load_request">>
      /\ EncodeSteps[3] = <<"store_request">>
      /\ EncodeSteps[4] = <<"load_flags">>
      /\ EncodeSteps[5] = <<"store_flags">>
      /\ EncodeSteps[6] = <<"store_node_id">>
  BY DEF EncodeSteps
<1>3. /\ \A k \in 1 .. 6 : EncodeSteps[k][1] # "block"
      /\ \A k \in 1 .. 6 : EncodeSteps[k] = <<"store_request">> => k = 3
      /\ \A k \in 1 .. 6 : EncodeSteps[k] = <<"store_flags">> => k = 5
  BY <1>2
<1> QED BY <1>1, <1>2, <1>3 DEF Fine, Good, Paired

\* start_tx when what is sent has changed.
LEMMA BurstStepsAreFine ==
    ASSUME NEW request \in RapsRequest, NEW flags \in SUBSET Flag
    PROVE  Fine(BurstSteps(request, flags))
<1> DEFINE two == << <<"request", request>>, <<"flags", flags>> >>
           one == << <<"burst">> >>
<1>1. /\ <<"request", request>> \in RowStep
      /\ <<"flags", flags>> \in RowStep
      /\ <<"burst">> \in RowStep
  BY DEF RowStep, PlainStep
<1>2. Fine(two) /\ Fine(one)
  BY <1>1, TwoAreFine, OneIsFine
<1> HIDE DEF two, one
<1>3. Fine((two \o EncodeSteps) \o one)
  BY <1>2, EncodeStepsAreFine, FineConcat
<1> QED BY <1>3 DEF BurstSteps, two, one

\* Both branches of the condition on the port that has to be blocked.
LEMMA IsolateStepsAreFine ==
    ASSUME NEW r, NEW p \in Port, NEW request \in RapsRequest, NEW flags \in SUBSET Flag
    PROVE  Fine(IsolateSteps(r, p, request, flags))
<1>1. flags \cup {"DNF"} \in SUBSET Flag
  BY DEF Flag
<1>2. /\ Fine(TxStart(request, flags \cup {"DNF"}))
      /\ Fine(TxStart(request, flags))
  BY <1>1, RequestStepsAreFine
<1>3. OtherPort(p) \in Port /\ Good(Block(p)) /\ Fine(Unblock(OtherPort(p)))
  BY PortStepsAreFine
<1>4. Fine(TxStart(request, flags \cup {"DNF"}) \o Unblock(OtherPort(p)))
  BY <1>2, <1>3, FineConcat
<1>5. Good(Block(p) \o TxStart(request, flags))
  BY <1>2, <1>3, GoodConcat DEF Fine
<1>6. Fine((Block(p) \o TxStart(request, flags)) \o Unblock(OtherPort(p)))
  BY <1>3, <1>5, OpensLast
<1> QED BY <1>4, <1>6 DEF IsolateSteps

\* What the owner of the RPL does with its timers, and the announcement of NR.
LEMMA OwnerStepsAreFine ==
    ASSUME NEW r, NEW timer \in Timer
    PROVE  Fine(OwnerStop(r)) /\ Fine(OwnerStart(r, timer)) /\ Fine(Announcing(r, timer))
<1>1. Fine(Stop("wtr") \o Stop("wtb")) /\ Fine(Start("guard")) /\ Fine(Start(timer))
  BY TimerStepsAreFine, FineConcat DEF Timer
<1>2. Fine(OwnerStop(r)) /\ Fine(OwnerStart(r, timer))
  BY <1>1, EmptyIsFine DEF OwnerStop, OwnerStart
<1>3. Fine(TxStart("NR", {}))
  BY RequestStepsAreFine DEF RapsRequest
<1> QED BY <1>1, <1>2, <1>3, FineConcat DEF Announcing

-----------------------------------------------------------------------------
(***************************************************************************)
(* The rows.                                                               *)
(***************************************************************************)

\* The port that a request of the operator names.
Named(req, port) == req \in PortRequest => port \in Port

NewState == {"same"} \cup (RingState \ {"INIT"})

FineRow(row) == row.new \in NewState /\ Fine(row.steps)

\* A row that only consists of a new state.
LEMMA EmptyRowIsFine ==
    ASSUME NEW new \in NewState
    PROVE  FineRow(Row(new, <<>>))
  BY EmptyIsFine DEF FineRow, Row

\* The rows that more than one state has.
LEMMA CommonRowsAreFine ==
    /\ \A port \in Port, request \in RapsRequest, new \in NewState :
           FineRow(Row(new, Isolating(port, request, {})))
    /\ \A new \in NewState : FineRow(Row(new, Yielding))
    /\ FineRow(Row("FORCED_SWITCH", UnblockBoth \o TxStop))
    /\ \A r : \A timer \in Timer : FineRow(Row("PENDING", OwnerStart(r, timer)))
    /\ \A new \in NewState : FineRow(Row(new, << <<"any_blocked?", "PENDING">> >>))
    /\ FineRow(NoRow)
    /\ FineRow(Row("PENDING", <<>>))
<1>1. \A port \in Port, request \in RapsRequest : Fine(Isolating(port, request, {}))
  BY RequestStepsAreFine
<1>2. Fine(Yielding) /\ Fine(UnblockBoth \o TxStop)
  BY PlainStepsAreFine, FineConcat
<1>3. \A r : \A timer \in Timer : Fine(OwnerStart(r, timer))
  BY OwnerStepsAreFine
<1>4. Fine(<< <<"any_blocked?", "PENDING">> >>)
  BY OneIsFine DEF RowStep
<1> QED BY <1>1, <1>2, <1>3, <1>4, EmptyIsFine
        DEF FineRow, Row, NoRow, NewState, RingState

\* Rows 02 to 15.
LEMMA IdleRowsAreFine ==
    ASSUME NEW r, NEW req, NEW port, NEW node, Named(req, port)
    PROVE  FineRow(IdleSteps(r, req, port, node))
<1> DEFINE open == Unblock(OtherPort(r.rpl_port)) \o
                   IF r.is_rpl_owner THEN <<>> ELSE TxStop
<1>1. Fine(open)
  BY PortStepsAreFine, PlainStepsAreFine, EmptyIsFine, FineConcat DEF OtherPort, Port
<1>2. FineRow(Row("same", open))
  BY <1>1 DEF FineRow, Row, NewState
<1>3. req \in {"FS", "SF", "MS"} => port \in Port
  BY DEF Named, PortRequest
<1> HIDE DEF open
<1> QED BY <1>2, <1>3, CommonRowsAreFine
        DEF IdleSteps, open, NewState, RingState, RapsRequest

\* Rows 16 to 29.
LEMMA ProtectionRowsAreFine ==
    ASSUME NEW r, NEW req, NEW port, Named(req, port)
    PROVE  FineRow(ProtectionSteps(r, req, port))
<1>0. {"same", "FORCED_SWITCH"} \subseteq NewState /\ {"FS", "SF"} \subseteq RapsRequest
      /\ "wtr" \in Timer
  BY DEF NewState, RingState, RapsRequest, Timer
<1>1. FineRow(Row("PENDING", Announcing(r, "wtr")))
  BY OwnerStepsAreFine DEF FineRow, Row, NewState, RingState, Timer
<1>2. req \in {"FS", "SF"} => port \in Port
  BY DEF Named, PortRequest
<1> QED BY <1>0, <1>1, <1>2, CommonRowsAreFine DEF ProtectionSteps

\* Rows 30 to 43.
LEMMA ManualSwitchRowsAreFine ==
    ASSUME NEW r, NEW req, NEW port, Named(req, port)
    PROVE  FineRow(ManualSwitchSteps(r, req, port))
<1>0. {"same", "FORCED_SWITCH", "PROTECTION", "MANUAL_SWITCH", "PENDING"} \subseteq NewState
      /\ {"FS", "SF"} \subseteq RapsRequest /\ "wtb" \in Timer
  BY DEF NewState, RingState, RapsRequest, Timer
<1>1. req \in {"FS", "SF"} => port \in Port
  BY DEF Named, PortRequest
<1> QED BY <1>0, <1>1, CommonRowsAreFine DEF ManualSwitchSteps

\* Rows 44 to 57.  Row 45 blocks a port and opens none.
LEMMA ForcedSwitchRowsAreFine ==
    ASSUME NEW r, NEW req, NEW port, Named(req, port),
           NEW row, row = ForcedSwitchSteps(r, req, port)
    PROVE  /\ row.new \in NewState /\ Good(row.steps)
           /\ req # "FS" => Fine(row.steps)
<1>1. CASE req = "FS"
  <2>1. port \in Port
    BY <1>1 DEF Named, PortRequest
  <2>2. Good(Block(port)) /\ Good(TxStart("FS", {}))
    BY <2>1, PortStepsAreFine, RequestStepsAreFine DEF Fine, RapsRequest
  <2>3. Good(Block(port) \o TxStart("FS", {}))
    BY <2>2, GoodConcat
  <2> QED BY <1>1, <2>3 DEF ForcedSwitchSteps, Row, NewState
<1>2. CASE req # "FS"
  <2>0. "PENDING" \in NewState /\ "wtb" \in Timer
    BY DEF NewState, RingState, Timer
  <2>1. FineRow(row)
    BY <1>2, <2>0, CommonRowsAreFine DEF ForcedSwitchSteps
  <2> QED BY <2>1, <1>2 DEF FineRow, Fine
<1> QED BY <1>1, <1>2

\* Rows 58 to 71.
LEMMA PendingRowsAreFine ==
    ASSUME NEW r \in Ring, Configured(r), NEW req, NEW port, NEW node, Named(req, port)
    PROVE  FineRow(PendingSteps(r, req, port, node))
<1>1. r.is_rpl_owner \/ r.is_rpl_neighbour => r.rpl_port \in Port
  BY DEF Configured, Ring
<1>2. Fine(OwnerStop(r)) /\ Fine(Stop("wtr")) /\ Fine(Stop("wtb"))
  BY OwnerStepsAreFine, TimerStepsAreFine DEF Timer
<1>3. ASSUME NEW stops, Fine(stops)
      PROVE  FineRow(Reverting(r, stops))
  <2>1. r.is_rpl_owner => Fine(Isolating(r.rpl_port, "NR", {"RB"}))
    BY <1>1, RequestStepsAreFine DEF RapsRequest, Flag
  <2>2. r.is_rpl_owner => Fine(stops \o Isolating(r.rpl_port, "NR", {"RB"}))
    BY <1>3, <2>1, FineConcat
  <2> QED BY <2>2, EmptyIsFine DEF Reverting, FineRow, Row, NewState, RingState
<1>4. FineRow(ObeyingRplBlocked(r))
  <2> DEFINE p == r.rpl_port
             close == (Block(p) \o Unblock(OtherPort(p))) \o TxStop
  <2>1. CASE r.is_rpl_owner
    <3>1. ObeyingRplBlocked(r) = Row("IDLE", OwnerStop(r))
      BY <2>1 DEF ObeyingRplBlocked, Configured
    <3> QED BY <1>2, <3>1 DEF FineRow, Row, NewState, RingState
  <2>2. CASE ~r.is_rpl_owner /\ r.is_rpl_neighbour
    <3>1. OtherPort(p) \in Port /\ Good(Block(p))
      BY <1>1, <2>2, PortStepsAreFine
    <3>2. Fine(Block(p) \o Unblock(OtherPort(p)))
      BY <3>1, OpensLast
    <3>3. Fine(close)
      BY <3>2, PlainStepsAreFine, FineConcat
    <3> QED BY <2>2, <3>3 DEF ObeyingRplBlocked, FineRow, Row, NewState, RingState
  <2>3. CASE ~r.is_rpl_owner /\ ~r.is_rpl_neighbour
    BY <2>3, PlainStepsAreFine, FineConcat
    DEF ObeyingRplBlocked, FineRow, Row, NewState, RingState
  <2> QED BY <2>1, <2>2, <2>3
<1>5. ASSUME port \in Port, NEW request \in RapsRequest, NEW new \in NewState
      PROVE  /\ FineRow(Row(new, Isolating(port, request, {}) \o OwnerStop(r)))
             /\ FineRow(Row(new, OwnerStop(r) \o Isolating(port, request, {})))
  <2>1. Fine(Isolating(port, request, {}))
    BY <1>5, RequestStepsAreFine
  <2> QED BY <1>2, <2>1, FineConcat DEF FineRow, Row
<1>6. /\ FineRow(Row("FORCED_SWITCH", UnblockBoth \o TxStop \o OwnerStop(r)))
      /\ \A new \in NewState : FineRow(Row(new, Yielding \o OwnerStop(r)))
  BY <1>2, PlainStepsAreFine, FineConcat DEF FineRow, Row, NewState, RingState
<1>7. req \in {"FS", "SF", "MS"} => port \in Port
  BY DEF Named, PortRequest
<1>8. {"same", "FORCED_SWITCH", "PROTECTION", "MANUAL_SWITCH"} \subseteq NewState
      /\ {"FS", "SF", "MS"} \subseteq RapsRequest
  BY DEF NewState, RingState, RapsRequest
<1>9. FineRow(Reverting(r, OwnerStop(r))) /\ FineRow(Reverting(r, Stop("wtb")))
      /\ FineRow(Reverting(r, Stop("wtr")))
  BY <1>2, <1>3
<1> QED BY <1>4, <1>5, <1>6, <1>7, <1>8, <1>9, CommonRowsAreFine DEF PendingSteps

\* What ring_fsm does for a request.
LEMMA RowsAreFine ==
    ASSUME NEW r \in Ring, Configured(r), r.state # "INIT",
           NEW req, NEW port, NEW node, Named(req, port),
           NEW row, row = RowSteps(r, req, port, node)
    PROVE  /\ row.new \in NewState /\ Good(row.steps)
           /\ Fine(row.steps) \/ (r.state = "FORCED_SWITCH" /\ req = "FS")
<1>1. r.state \in {"IDLE", "PROTECTION", "MANUAL_SWITCH", "FORCED_SWITCH", "PENDING"}
  BY DEF Ring, RingState
<1>2. CASE r.state = "FORCED_SWITCH"
  <2>1. row = ForcedSwitchSteps(r, req, port)
    BY <1>2 DEF RowSteps
  <2> QED BY <1>2, <2>1, ForcedSwitchRowsAreFine
<1>3. CASE r.state # "FORCED_SWITCH"
  <2>1. FineRow(row)
    BY <1>1, <1>3, IdleRowsAreFine, ProtectionRowsAreFine, ManualSwitchRowsAreFine,
       PendingRowsAreFine DEF RowSteps
  <2> QED BY <2>1 DEF FineRow, Fine
<1> QED BY <1>2, <1>3

-----------------------------------------------------------------------------
(***************************************************************************)
(* The list of a thread inside a row: statements of the row, then the      *)
(* store of new_state.                                                     *)
(***************************************************************************)

\* What er_raps_encode has loaded.
LoadedRequest == { <<request>> : request \in RapsRequest }
LoadedFlags   == { <<flags>> : flags \in SUBSET Flag }

\* reg is what has been loaded last; crossed says whether row 45 has been taken.
RowList(l, reg, crossed) ==
    /\ l \in Seq(Step) /\ Len(l) >= 1 /\ l[Len(l)] = <<"store">>
    /\ \A k \in 1 .. Len(l) - 1 :
           /\ l[k] \in RowStep
           /\ l[k] = <<"store_request">> =>
                  IF k = 1 THEN reg \in LoadedRequest ELSE l[k - 1] = <<"load_request">>
           /\ l[k] = <<"store_flags">> =>
                  IF k = 1 THEN reg \in LoadedFlags ELSE l[k - 1] = <<"load_flags">>
    /\ crossed \/ Paired(l)

\* One statement of the row is done.
LEMMA RowListTail ==
    ASSUME NEW l, NEW reg, NEW crossed, RowList(l, reg, crossed),
           Head(l) # <<"store">>,
           NEW now,
           Head(l) = <<"load_request">> => now \in LoadedRequest,
           Head(l) = <<"load_flags">>   => now \in LoadedFlags
    PROVE  /\ Len(l) >= 2 /\ Head(l) \in RowStep
           /\ RowList(Tail(l), now, crossed)
           /\ Head(l) = <<"store_request">> => reg \in LoadedRequest
           /\ Head(l) = <<"store_flags">>   => reg \in LoadedFlags
           /\ Head(l)[1] \notin {"load_request", "load_flags"} =>
                  Head(Tail(l)) \notin {<<"store_request">>, <<"store_flags">>}
           /\ ~crossed /\ Head(l)[1] = "block" => Opens(Tail(l))
<1> DEFINE b == Tail(l)
<1>1. l \in Seq(Step) /\ Len(l) \in Nat /\ Len(l) >= 2 /\ l # <<>> /\ Head(l) = l[1]
  BY DEF RowList
<1>2. /\ b \in Seq(Step) /\ Len(b) = Len(l) - 1 /\ Head(b) = b[1]
      /\ \A k \in 1 .. Len(b) : b[k] = l[k + 1]
  BY <1>1
<1> HIDE DEF b
<1>3. Head(l) \in RowStep
  BY <1>1 DEF RowList
<1>4. Head(l)[1] \notin {"load_request", "load_flags"} =>
          Head(l) \notin {<<"load_request">>, <<"load_flags">>}
  OBVIOUS
<1>5. ASSUME NEW k \in 1 .. Len(b) - 1
      PROVE  /\ b[k] \in RowStep
             /\ b[k] = <<"store_request">> =>
                    IF k = 1 THEN now \in LoadedRequest ELSE b[k - 1] = <<"load_request">>
             /\ b[k] = <<"store_flags">> =>
                    IF k = 1 THEN now \in LoadedFlags ELSE b[k - 1] = <<"load_flags">>
  <2>1. /\ k + 1 \in 1 .. Len(l) - 1 /\ k + 1 # 1 /\ (k + 1) - 1 = k
        /\ b[k] = l[k + 1]
        /\ k # 1 => b[k - 1] = l[k]
        /\ k = 1 => l[k] = Head(l)
    BY <1>1, <1>2
  <2> QED BY <2>1 DEF RowList
<1>6. crossed \/ Paired(b)
  <2> SUFFICES ASSUME ~crossed, NEW k \in 1 .. Len(b), b[k][1] = "block"
               PROVE  \E m \in k + 1 .. Len(b) : b[m][1] = "unblock"
    BY DEF Paired
  <2>1. k + 1 \in 1 .. Len(l) /\ l[k + 1][1] = "block"
    BY <1>1, <1>2
  <2>2. PICK m \in (k + 1) + 1 .. Len(l) : l[m][1] = "unblock"
    BY <2>1 DEF RowList, Paired
  <2>3. m - 1 \in k + 1 .. Len(b) /\ b[m - 1] = l[m]
    BY <1>1, <1>2, <2>2
  <2> QED BY <2>2, <2>3
<1>7. RowList(b, now, crossed)
  BY <1>1, <1>2, <1>5, <1>6 DEF RowList
<1>8. Head(l)[1] \notin {"load_request", "load_flags"} =>
          Head(b) \notin {<<"store_request">>, <<"store_flags">>}
  <2> SUFFICES ASSUME Head(l)[1] \notin {"load_request", "load_flags"}
               PROVE  Head(b) \notin {<<"store_request">>, <<"store_flags">>}
    OBVIOUS
  <2>1. CASE Len(l) = 2
    <3>1. Head(b) = <<"store">>
      BY <1>1, <1>2, <2>1 DEF RowList
    <3> QED BY <3>1
  <2>2. CASE Len(l) > 2
    <3>1. 2 \in 1 .. Len(l) - 1 /\ Head(b) = l[2] /\ Head(l) = l[2 - 1]
      BY <1>1, <1>2, <2>2
    <3>2. /\ l[2] = <<"store_request">> => l[2 - 1] = <<"load_request">>
          /\ l[2] = <<"store_flags">> => l[2 - 1] = <<"load_flags">>
      BY <3>1 DEF RowList
    <3> QED BY <1>4, <3>1, <3>2
  <2>3. \A n \in Nat : n >= 2 => n = 2 \/ n > 2
    OBVIOUS
  <2>4. Len(l) = 2 \/ Len(l) > 2
    BY <1>1, <2>3
  <2> QED BY <2>1, <2>2, <2>4
<1>9. ~crossed /\ Head(l)[1] = "block" => Opens(b)
  <2> SUFFICES ASSUME ~crossed, Head(l)[1] = "block"
               PROVE  Opens(b)
    OBVIOUS
  <2>1. PICK m \in 2 .. Len(l) : l[m][1] = "unblock"
    BY <1>1 DEF RowList, Paired
  <2>2. m - 1 \in 1 .. Len(b) /\ b[m - 1] = l[m]
    BY <1>1, <1>2, <2>1
  <2> QED BY <2>1, <2>2 DEF Opens
<1>10. /\ Head(l) = <<"store_request">> => reg \in LoadedRequest
       /\ Head(l) = <<"store_flags">> => reg \in LoadedFlags
  BY <1>1 DEF RowList
<1> QED BY <1>1, <1>3, <1>7, <1>8, <1>9, <1>10 DEF b

\* Statements are put in front of the list.
LEMMA RowListGrows ==
    ASSUME NEW a, NEW b, NEW reg, NEW was, NEW crossed,
           Good(a), crossed \/ Fine(a), RowList(b, was, crossed),
           Head(b) \notin {<<"store_request">>, <<"store_flags">>}
    PROVE  RowList(a \o b, reg, crossed)
<1> DEFINE l == a \o b
<1>1. /\ a \in Seq(RowStep) /\ Len(a) \in Nat
      /\ b \in Seq(Step) /\ Len(b) \in Nat /\ Len(b) >= 1 /\ Head(b) = b[1]
  BY DEF Good, RowList
<1>2. a \in Seq(Step)
  BY <1>1 DEF Step
<1>3. /\ l \in Seq(Step) /\ Len(l) = Len(a) + Len(b)
      /\ \A k \in 1 .. Len(a) : l[k] = a[k]
      /\ \A k \in Len(a) + 1 .. Len(l) : l[k] = b[k - Len(a)]
  BY <1>1, <1>2
<1> HIDE DEF l
<1>4. ASSUME NEW k \in 1 .. Len(l) - 1
      PROVE  /\ l[k] \in RowStep
             /\ l[k] = <<"store_request">> => k # 1 /\ l[k - 1] = <<"load_request">>
             /\ l[k] = <<"store_flags">>   => k # 1 /\ l[k - 1] = <<"load_flags">>
  <2>1. CASE k \in 1 .. Len(a)
    <3>1. k > 1 => k - 1 \in 1 .. Len(a)
      BY <1>1, <2>1
    <3>2. /\ l[k] = a[k] /\ a[k] \in RowStep
          /\ k > 1 => l[k - 1] = a[k - 1]
      BY <1>1, <1>3, <2>1, <3>1
    <3> QED BY <1>1, <2>1, <3>2 DEF Good
  <2>2. CASE k \notin 1 .. Len(a)
    <3>1. k - Len(a) \in 1 .. Len(b) - 1 /\ l[k] = b[k - Len(a)]
      BY <1>1, <1>3, <2>2
    <3>2. k - Len(a) # 1 => /\ k - 1 \in Len(a) + 1 .. Len(l)
                            /\ (k - 1) - Len(a) = (k - Len(a)) - 1
                            /\ k # 1
      BY <1>1, <1>3, <2>2
    <3>3. k - Len(a) # 1 => l[k - 1] = b[(k - Len(a)) - 1]
      BY <1>3, <3>2
    <3> QED BY <1>1, <3>1, <3>2, <3>3 DEF RowList
  <2> QED BY <2>1, <2>2
<1>5. crossed \/ Paired(l)
  <2> SUFFICES ASSUME ~crossed, NEW k \in 1 .. Len(l), l[k][1] = "block"
               PROVE  \E m \in k + 1 .. Len(l) : l[m][1] = "unblock"
    BY DEF Paired
  <2>1. CASE k \in 1 .. Len(a)
    <3>1. PICK m \in k + 1 .. Len(a) : a[m][1] = "unblock"
      BY <1>3, <2>1 DEF Fine, Paired
    <3> QED BY <1>1, <1>3, <2>1, <3>1
  <2>2. CASE k \notin 1 .. Len(a)
    <3>1. k - Len(a) \in 1 .. Len(b) /\ l[k] = b[k - Len(a)]
      BY <1>1, <1>3, <2>2
    <3>2. PICK m \in (k - Len(a)) + 1 .. Len(b) : b[m][1] = "unblock"
      BY <3>1 DEF RowList, Paired
    <3>3. /\ Len(a) + m \in k + 1 .. Len(l) /\ Len(a) + m \in Len(a) + 1 .. Len(l)
          /\ (Len(a) + m) - Len(a) = m
      BY <1>1, <1>3, <3>1, <3>2
    <3>4. l[Len(a) + m] = b[m]
      BY <1>3, <3>3
    <3> QED BY <3>2, <3>3, <3>4
  <2> QED BY <2>1, <2>2
<1>6. l[Len(l)] = <<"store">> /\ Len(l) >= 1
  BY <1>1, <1>3 DEF RowList
<1> QED BY <1>3, <1>4, <1>5, <1>6 DEF RowList, l

\* The list that new statements are put in front of still opens what it opened.
LEMMA OpensStays ==
    ASSUME NEW a \in Seq(Step), NEW l \in Seq(Step), l # <<>>, Head(l)[1] # "unblock",
           Opens(l)
    PROVE  Opens(Tail(l)) /\ Opens(a \o Tail(l))
<1> DEFINE b == Tail(l)
<1>1. /\ Len(l) \in Nat /\ Len(a) \in Nat /\ Head(l) = l[1]
      /\ Len(b) = Len(l) - 1 /\ Len(a \o b) = Len(a) + Len(b)
      /\ \A k \in 1 .. Len(b) : b[k] = l[k + 1] /\ (a \o b)[Len(a) + k] = b[k]
  OBVIOUS
<1> HIDE DEF b
<1>2. PICK k \in 1 .. Len(l) : l[k][1] = "unblock"
  BY DEF Opens
<1>3. k - 1 \in 1 .. Len(b) /\ b[k - 1] = l[k]
  BY <1>1, <1>2
<1>4. Len(a) + (k - 1) \in 1 .. Len(a \o b)
  BY <1>1, <1>3
<1> QED BY <1>1, <1>2, <1>3, <1>4 DEF Opens, b

-----------------------------------------------------------------------------
(***************************************************************************)
(* The inductive invariant.                                                *)
(***************************************************************************)
Origin == {"none", "port_cb", "ring_timer", "send_raps_cb", "clear"}
          \cup DOMAIN PortCommand

CallRec == [ origin : Origin, req : Request, port : Port \cup {NoPort},
             node : NodeId \cup {NoNode}, named : Port \cup {NoPort},
             expired : BOOLEAN, new : RingState,
             reg : {<<>>} \cup LoadedRequest \cup LoadedFlags
                   \cup { <<n>> : n \in 0 .. RAPS_BURSTS },
             todo : Seq(Step), after : {<<>>, Stop("wtr")} ]

\* On the way to the row: the rest of ProcessSteps, at first with the step before
\* it.  new_state has been read when four steps are left.
Framing(t, c) ==
    LET n == Len(c.todo)
    IN  /\ n \in 2 .. 11
        /\ \A k \in 1 .. n : 10 - n + k >= 1 => c.todo[k] = ProcessSteps[10 - n + k]
        /\ n = 11 => c.todo[1] \in IF t = "loop"
                                   THEN {<<"guard?">>, <<"stop", "guard">>}
                                   ELSE {<<"fail", c.named>>, <<"recover", c.named>>}
        /\ n <= 4 => c.new # "INIT"
        /\ Named(c.req, c.port)

\* send_raps_cb.
SendLists == { << <<"pace?">>, <<"send">>, <<"send">> >>,
               << <<"load_bursts">>, <<"store_bursts">>, <<"send">>, <<"send">> >>,
               << <<"store_bursts">>, <<"send">>, <<"send">> >>,
               << <<"send">>, <<"send">> >>,
               << <<"send">> >> }

\* What thread t may be doing.
Steady(t, c, crossed) ==
    \/ c.todo = <<>>
    \/ c.todo = Stop("wtr")
    \/ Framing(t, c)
    \/ c.new # "INIT" /\ RowList(c.todo, c.reg, crossed)
Shape(t, c, crossed) == Steady(t, c, crossed) \/ (t = "loop" /\ c.todo \in SendLists)

\* The decrement of bursts_remain, whose three steps the worker may part.
Counting(c, n) ==
    c.todo # <<>> =>
        /\ Head(c.todo) = <<"load_bursts">> => n >= 1
        /\ Head(c.todo) = <<"store_bursts">> => c.reg \in { <<m>> : m \in 1 .. RAPS_BURSTS }

\* A ring that has left INIT, and the buffer that goes with it.
Usable(r) == r \in Ring /\ Configured(r) /\ r.state # "INIT"
Buffer(r) == [request : RapsRequest, flags : SUBSET Flag, node_id : {r.node_id, NoNode}]

\* Both ports are blocked only while a thread has yet to open one.
Opening == ~row45 /\ ring.blocked = Port => \E t \in Thread : Opens(call[t].todo)

Inv == /\ Usable(ring)
       /\ raps_frame \in Buffer(ring)
       /\ alive \in BOOLEAN
       /\ row45 \in BOOLEAN
       /\ made \in [Thread -> Nat]
       /\ \A t \in Thread : made[t] <= Calls[t]
       /\ call \in [Thread -> CallRec]
       /\ \A t \in Thread : Shape(t, call[t], row45)
       /\ Counting(call["loop"], ring.bursts_remain)
       /\ Opening

-----------------------------------------------------------------------------
(***************************************************************************)
(* How a thread goes on.                                                   *)
(***************************************************************************)

\* A list that was shaped before row 45 is shaped after it.
LEMMA ShapeStays ==
    ASSUME NEW t, NEW c, NEW p, NEW q, p => q, Shape(t, c, p)
    PROVE  Shape(t, c, q)
  BY DEF Shape, Steady, RowList

\* A step of thread t that changes its list to todo and the ring to r.
LEMMA ContinueKeeps ==
    ASSUME Inv, NEW t \in Thread, NEW c \in CallRec, NEW todo \in Seq(Step), NEW r,
           Continue(t, c, todo, r),
           Usable(r), r.node_id = ring.node_id,
           NEW d, d = [c EXCEPT !.todo = todo],
           row45' \in BOOLEAN, row45 => row45', alive' \in BOOLEAN,
           raps_frame' \in Buffer(r),
           todo # <<>> => Shape(t, d, row45'),
           t = "loop" => Counting(d, r.bursts_remain),
           t = "worker" => r.bursts_remain \in {ring.bursts_remain, RAPS_BURSTS},
           ~row45' /\ r.blocked = Port =>
               Opens(todo) \/ (ring.blocked = Port /\ ~Opens(call[t].todo))
    PROVE  Inv'
<1> DEFINE e == IF todo = <<>> THEN NoCall ELSE d
<1>1. /\ call \in [Thread -> CallRec]
      /\ ring' = r /\ call' = [call EXCEPT ![t] = e] /\ made' = made
  BY DEF Continue, Inv
<1>2. d \in CallRec /\ d.todo = todo
  BY DEF CallRec
<1>3. NoCall \in CallRec /\ NoCall.todo = <<>>
  BY EmptyIsFine DEF NoCall, CallRec, Origin, Request, Severity, RingState, NoPort, NoNode
<1>4. e \in CallRec /\ e.todo = todo
  BY <1>2, <1>3
<1>5. Shape(t, e, row45')
  BY <1>3, <1>4 DEF Shape, Steady
<1>6. t = "loop" => Counting(e, r.bursts_remain)
  BY <1>3 DEF Counting
<1> HIDE DEF e
<1>7. /\ call' \in [Thread -> CallRec] /\ call'[t] = e
      /\ \A u \in Thread \ {t} : call'[u] = call[u]
  BY <1>1, <1>4
<1>8. \A u \in Thread : Shape(u, call'[u], row45')
  <2> SUFFICES ASSUME NEW u \in Thread PROVE Shape(u, call'[u], row45')
    OBVIOUS
  <2>1. CASE u = t
    BY <1>5, <1>7, <2>1
  <2>2. CASE u # t
    <3>1. Shape(u, call[u], row45)
      BY DEF Inv
    <3>2. Shape(u, call[u], row45')
      BY <3>1, ShapeStays
    <3> QED BY <1>7, <2>2, <3>2
  <2> QED BY <2>1, <2>2
<1>9. Counting(call'["loop"], r.bursts_remain)
  <2>1. CASE t = "loop"
    BY <1>6, <1>7, <2>1
  <2>2. CASE t = "worker"
    <3>1. call'["loop"] = call["loop"] /\ Counting(call["loop"], ring.bursts_remain)
      BY <1>7, <2>2 DEF Inv, Thread
    <3>2. ring.bursts_remain >= 1 => r.bursts_remain >= 1
      BY <2>2 DEF RAPS_BURSTS
    <3> QED BY <3>1, <3>2 DEF Counting
  <2> QED BY <2>1, <2>2 DEF Thread
<1>10. Opening'
  <2> SUFFICES ASSUME ~row45', r.blocked = Port
               PROVE  \E u \in Thread : Opens(call'[u].todo)
    BY <1>1 DEF Opening
  <2>1. CASE Opens(todo)
    BY <1>4, <1>7, <2>1
  <2>2. CASE ring.blocked = Port /\ ~Opens(call[t].todo)
    <3>1. PICK u \in Thread : Opens(call[u].todo)
      BY <2>2 DEF Inv, Opening
    <3>2. call'[u] = call[u]
      BY <1>7, <2>2, <3>1
    <3> QED BY <3>1, <3>2
  <2> QED BY <2>1, <2>2
<1>11. made' \in [Thread -> Nat] /\ \A u \in Thread : made'[u] <= Calls[u]
  BY <1>1 DEF Inv
<1> QED BY <1>1, <1>7, <1>8, <1>9, <1>10, <1>11 DEF Inv

\* The list of a call on its way to the row opens no port.
LEMMA FramingOpensNothing ==
    ASSUME NEW t, NEW c, Framing(t, c)
    PROVE  ~Opens(c.todo)
<1>1. \A i \in 1 .. 10 : ProcessSteps[i][1] # "unblock"
  BY DEF ProcessSteps
<1>2. PICK n \in 2 .. 11 : n = Len(c.todo)
  BY DEF Framing
<1>3. ASSUME NEW k \in 1 .. n PROVE c.todo[k][1] # "unblock"
  <2>1. CASE 10 - n + k >= 1
    <3>1. 10 - n + k \in 1 .. 10
      BY <2>1
    <3>2. c.todo[k] = ProcessSteps[10 - n + k]
      BY <1>2, <2>1 DEF Framing
    <3> QED BY <1>1, <3>1, <3>2
  <2>2. CASE ~(10 - n + k >= 1)
    <3>1. n = 11 /\ k = 1
      BY <2>2
    <3> QED BY <1>2, <3>1 DEF Framing
  <2> QED BY <2>1, <2>2
<1> QED BY <1>2, <1>3 DEF Opens

\* The only list that begins with a step of ProcessSteps is the rest of them.
LEMMA FramingHead ==
    ASSUME NEW t, NEW c, c.todo \in Seq(Step), Framing(t, c),
           NEW i \in 1 .. 10, Head(c.todo) = ProcessSteps[i]
    PROVE  /\ Len(c.todo) = 11 - i
           /\ i <= 9
<1>1. PICK n \in 2 .. 11 : n = Len(c.todo)
  BY DEF Framing
<1>2. Head(c.todo) = c.todo[1]
  BY <1>1
<1>3. ProcessSteps =
          << <<"filter?">>, <<"clear_sf">>, <<"severe?">>, <<"drop">>, <<"retain">>,
             <<"enter">>, <<"dupe?">>, <<"remember">>, <<"switch">>, <<"store">> >>
  BY DEF ProcessSteps
<1>4. \A j \in 1 .. 10, k \in 1 .. 10 : ProcessSteps[j] = ProcessSteps[k] => j = k
  BY <1>3
<1>5. CASE n = 11
  <2>1. Head(c.todo) \in {<<"guard?">>, <<"stop", "guard">>,
                          <<"fail", c.named>>, <<"recover", c.named>>}
    BY <1>1, <1>2, <1>5 DEF Framing
  <2> QED BY <1>3, <2>1, SMTT(30)
<1>6. CASE n # 11
  <2>1. /\ 1 \in 1 .. n /\ 10 - n + 1 >= 1 /\ 10 - n + 1 = 11 - n
        /\ 11 - n \in 1 .. 9
    BY <1>6
  <2>2. Head(c.todo) = ProcessSteps[11 - n]
    BY <1>1, <1>2, <2>1 DEF Framing
  <2>3. i = 11 - n
    BY <1>4, <2>1, <2>2, SMTT(30)
  <2> QED BY <1>1, <2>1, <2>3
<1> QED BY <1>5, <1>6

\* One step of ProcessSteps, or the one before them, is done.
LEMMA FramingTail ==
    ASSUME NEW t, NEW c, c.todo \in Seq(Step), Framing(t, c), Len(c.todo) \in 3 .. 11,
           NEW d, d.todo = Tail(c.todo), d.req = c.req, d.port = c.port,
           Len(c.todo) <= 5 => d.new # "INIT"
    PROVE  Framing(t, d)
<1>1. PICK m \in 2 .. 10 : Len(c.todo) = m + 1
  <2>1. \A n \in 3 .. 11 : n - 1 \in 2 .. 10 /\ n = (n - 1) + 1
    OBVIOUS
  <2> QED BY <2>1
<1>2. Len(d.todo) = m /\ \A k \in 1 .. m : d.todo[k] = c.todo[k + 1]
  BY <1>1
<1>3. ASSUME NEW k \in 1 .. m, 10 - m + k >= 1
      PROVE  d.todo[k] = ProcessSteps[10 - m + k]
  <2>1. /\ k + 1 \in 1 .. m + 1 /\ 10 - (m + 1) + (k + 1) >= 1
        /\ 10 - (m + 1) + (k + 1) = 10 - m + k
    BY <1>3
  <2> QED BY <1>1, <1>2, <2>1 DEF Framing
<1>4. Named(d.req, d.port)
  BY DEF Framing
<1>5. m \in 2 .. 11 /\ m # 11
  BY <1>1
<1>6. m <= 4 => d.new # "INIT"
  BY <1>1
<1> QED BY <1>2, <1>3, <1>4, <1>5, <1>6 DEF Framing

\* A list inside the row begins with a statement of the row, or nothing is left of it
\* but the store.
LEMMA RowListHead ==
    ASSUME NEW l, NEW reg, NEW crossed, RowList(l, reg, crossed)
    PROVE  \/ Head(l) = <<"store">> /\ ~Opens(l)
           \/ Head(l) \in RowStep
<1>1. l \in Seq(Step) /\ Len(l) \in Nat /\ Len(l) >= 1 /\ Head(l) = l[1]
  BY DEF RowList
<1>2. CASE Len(l) = 1
  <2>1. l[1] = <<"store">>
    BY <1>2 DEF RowList
  <2> QED BY <1>1, <1>2, <2>1 DEF Opens
<1>3. CASE Len(l) # 1
  <2>1. \A n \in Nat : n >= 1 /\ n # 1 => 1 \in 1 .. n - 1
    OBVIOUS
  <2>2. 1 \in 1 .. Len(l) - 1
    BY <1>1, <1>3, <2>1
  <2> QED BY <1>1, <2>2 DEF RowList
<1> QED BY <1>2, <1>3

\* The steps of ProcessSteps before the last.
FrameName == {"filter?", "clear_sf", "severe?", "drop", "retain", "enter", "dupe?",
              "remember", "switch"}

\* The statements of a row but for those that other lists have too.
RowName == {"block", "unblock", "nonfailed?", "start", "request", "flags", "differs?",
            "blocked?", "any_blocked?"} \cup PlainStep

\* The steps of ProcessSteps one by one.
LEMMA ProcessStepsNames ==
    /\ \A i \in 1 .. 9 : ProcessSteps[i] = << ProcessSteps[i][1] >>
                         /\ ProcessSteps[i][1] \in FrameName
    /\ ProcessSteps[1] = <<"filter?">> /\ ProcessSteps[2] = <<"clear_sf">>
    /\ ProcessSteps[3] = <<"severe?">> /\ ProcessSteps[4] = <<"drop">>
    /\ ProcessSteps[5] = <<"retain">>  /\ ProcessSteps[6] = <<"enter">>
    /\ ProcessSteps[7] = <<"dupe?">>   /\ ProcessSteps[8] = <<"remember">>
    /\ ProcessSteps[9] = <<"switch">>  /\ ProcessSteps[10] = <<"store">>
<1>1. ProcessSteps =
          << <<"filter?">>, <<"clear_sf">>, <<"severe?">>, <<"drop">>, <<"retain">>,
             <<"enter">>, <<"dupe?">>, <<"remember">>, <<"switch">>, <<"store">> >>
  BY DEF ProcessSteps
<1> QED BY <1>1 DEF FrameName

\* How the list of a call on its way to the row begins.
LEMMA FramingBegins ==
    ASSUME NEW t, NEW c, c.todo \in Seq(Step), Framing(t, c),
           NEW s, s = Head(c.todo)
    PROVE  \/ /\ Len(c.todo) = 11
              /\ s \in IF t = "loop" THEN {<<"guard?">>, <<"stop", "guard">>}
                       ELSE {<<"fail", c.named>>, <<"recover", c.named>>}
           \/ s[1] \in FrameName /\ \E i \in 1 .. 9 : s = ProcessSteps[i]
<1>1. PICK n \in 2 .. 11 : n = Len(c.todo)
  BY DEF Framing
<1>2. s = c.todo[1]
  BY <1>1
<1>3. CASE n = 11
  BY <1>1, <1>2, <1>3 DEF Framing
<1>4. CASE n # 11
  <2>1. 1 \in 1 .. n /\ 10 - n + 1 >= 1 /\ 10 - n + 1 \in 1 .. 9
    BY <1>4
  <2>2. s = ProcessSteps[10 - n + 1]
    BY <1>1, <1>2, <2>1 DEF Framing
  <2> QED BY <2>1, <2>2, ProcessStepsNames
<1> QED BY <1>3, <1>4

\* The first step of a list says where the call is.
LEMMA WhereItIs ==
    ASSUME NEW t, NEW c, NEW x, c.todo \in Seq(Step), c.todo # <<>>, Shape(t, c, x),
           NEW s, s = Head(c.todo)
    PROVE  /\ s[1] \in RowName \cup {"store"} =>
                  c.new # "INIT" /\ RowList(c.todo, c.reg, x)
           /\ s[1] = "stop" => \/ c.todo = Stop("wtr")
                               \/ Framing(t, c) /\ Len(c.todo) = 11
                               \/ c.new # "INIT" /\ RowList(c.todo, c.reg, x)
           /\ s[1] \in FrameName =>
                  /\ Framing(t, c)
                  /\ \E i \in 1 .. 9 : s = ProcessSteps[i] /\ Len(c.todo) = 11 - i
           /\ s[1] = "guard?" => Framing(t, c) /\ Len(c.todo) = 11
           /\ s[1] \in {"fail", "recover"} =>
                  Framing(t, c) /\ Len(c.todo) = 11 /\ t # "loop" /\ s[2] = c.named
           /\ s[1] \in {"pace?", "load_bursts", "store_bursts", "send"} =>
                  t = "loop" /\ c.todo \in SendLists
<1>1. CASE c.todo = Stop("wtr")
  <2>1. s[1] = "stop"
    BY <1>1 DEF Stop
  <2> QED BY <1>1, <2>1 DEF RowName, PlainStep, FrameName
<1>2. CASE Framing(t, c)
  <2>1. CASE /\ Len(c.todo) = 11
             /\ s \in IF t = "loop" THEN {<<"guard?">>, <<"stop", "guard">>}
                      ELSE {<<"fail", c.named>>, <<"recover", c.named>>}
    BY <1>2, <2>1 DEF RowName, PlainStep, FrameName
  <2>2. CASE s[1] \in FrameName /\ \E i \in 1 .. 9 : s = ProcessSteps[i]
    <3>1. PICK i \in 1 .. 9 : s = ProcessSteps[i]
      BY <2>2
    <3>2. i \in 1 .. 10
      OBVIOUS
    <3>3. Len(c.todo) = 11 - i
      BY <1>2, <3>1, <3>2, FramingHead
    <3> QED BY <1>2, <2>2, <3>1, <3>3 DEF RowName, PlainStep, FrameName
  <2> QED BY <1>2, <2>1, <2>2, FramingBegins
<1>3. CASE c.new # "INIT" /\ RowList(c.todo, c.reg, x)
  <2>1. s = <<"store">> \/ s \in RowStep
    BY <1>3, RowListHead
  <2>2. s[1] \in RowName \cup {"store", "stop"}
    BY <2>1, RowStepFields DEF RowName
  <2> QED BY <1>3, <2>2 DEF RowName, PlainStep, FrameName
<1>4. CASE t = "loop" /\ c.todo \in SendLists
  <2>1. s[1] \in {"pace?", "load_bursts", "store_bursts", "send"}
    BY <1>4 DEF SendLists
  <2> QED BY <1>4, <2>1 DEF RowName, PlainStep, FrameName
<1> QED BY <1>1, <1>2, <1>3, <1>4 DEF Shape, Steady

\* Only send_raps_cb counts the bursts.
LEMMA SteadyCounts ==
    ASSUME NEW t, NEW c, NEW x, c.todo \in Seq(Step), Steady(t, c, x), NEW n
    PROVE  Counting(c, n)
<1> SUFFICES ASSUME c.todo # <<>>
             PROVE  Head(c.todo)[1] \notin {"load_bursts", "store_bursts"}
  BY DEF Counting
<1> DEFINE s == Head(c.todo)
<1>1. CASE c.todo = Stop("wtr")
  BY <1>1 DEF Stop
<1>2. CASE Framing(t, c)
  BY <1>2, FramingBegins DEF FrameName
<1>3. CASE c.new # "INIT" /\ RowList(c.todo, c.reg, x)
  <2>1. s = <<"store">> \/ s \in RowStep
    BY <1>3, RowListHead
  <2> QED BY <2>1, RowStepFields DEF PlainStep
<1> QED BY <1>1, <1>2, <1>3 DEF Steady

-----------------------------------------------------------------------------
(***************************************************************************)
(* ring_process_request and the frame of ring_fsm.                         *)
(***************************************************************************)
\* What the invariant says of the call of one thread.
LEMMA CallFacts ==
    ASSUME Inv, NEW t \in Thread, NEW c, c = call[t]
    PROVE  /\ c \in CallRec /\ c.todo \in Seq(Step)
           /\ c.req \in Request
           /\ c.port \in Port \cup {NoPort} /\ c.node \in NodeId \cup {NoNode}
           /\ Shape(t, c, row45)
           /\ row45 \in BOOLEAN
           /\ Usable(ring) /\ raps_frame \in Buffer(ring) /\ alive \in BOOLEAN
  BY DEF Inv, CallRec

\* A call on its way to the row does one step more.
LEMMA WayKeeps ==
    ASSUME Inv, NEW t \in Thread, Framing(t, call[t]), Len(call[t].todo) \in 3 .. 11,
           NEW c \in CallRec, c.req = call[t].req, c.port = call[t].port,
           Len(call[t].todo) <= 5 => c.new # "INIT",
           NEW r, Usable(r), r.node_id = ring.node_id, r.blocked = ring.blocked,
           r.bursts_remain = ring.bursts_remain,
           Continue(t, c, RestOf(t), r), UNCHANGED aside
    PROVE  Inv'
<1> DEFINE todo == RestOf(t)
           d    == [c EXCEPT !.todo = todo]
<1>0. call[t].todo \in Seq(Step)
  BY CallFacts
<1>1. call[t].todo \in Seq(Step) /\ call[t].todo # <<>>
  <2>1. Len(<<>>) = 0 /\ 0 \notin 3 .. 11
    OBVIOUS
  <2> QED BY <1>0, <2>1
<1>2. todo \in Seq(Step)
  BY <1>1 DEF RestOf
<1>3. d.todo = Tail(call[t].todo) /\ d.req = c.req /\ d.port = c.port /\ d.new = c.new
  BY DEF RestOf, CallRec
<1> HIDE DEF d
<1>4. Framing(t, d)
  BY <1>1, <1>3, FramingTail
<1>5. Steady(t, d, row45) /\ Shape(t, d, row45)
  BY <1>4 DEF Steady, Shape
<1>6. Counting(d, r.bursts_remain)
  BY <1>1, <1>2, <1>3, <1>5, SteadyCounts DEF RestOf
<1>7. ~Opens(call[t].todo)
  BY FramingOpensNothing
<1>8. /\ row45' = row45 /\ alive' = alive /\ raps_frame' = raps_frame
      /\ row45 \in BOOLEAN /\ alive \in BOOLEAN /\ raps_frame \in Buffer(r)
  BY CallFacts DEF aside, Buffer
<1> QED BY <1>2, <1>5, <1>6, <1>7, <1>8, ContinueKeeps DEF d

\* A call returns; its caller may have a timer to stop.
LEMMA ReturnKeeps ==
    ASSUME Inv, NEW t \in Thread, ~Opens(call[t].todo),
           NEW r, Usable(r), r.node_id = ring.node_id, r.blocked = ring.blocked,
           r.bursts_remain = ring.bursts_remain,
           Continue(t, [call[t] EXCEPT !.after = <<>>], call[t].after, r),
           UNCHANGED aside
    PROVE  Inv'
<1> DEFINE c    == [call[t] EXCEPT !.after = <<>>]
           todo == call[t].after
           d    == [c EXCEPT !.todo = todo]
<1>1. call[t] \in CallRec /\ c \in CallRec /\ todo \in {<<>>, Stop("wtr")}
  BY CallFacts DEF CallRec
<1>2. <<"stop", "wtr">> \in Step
  BY DEF Step, RowStep, Timer
<1>3. todo \in Seq(Step)
  <2>1. Stop("wtr") \in Seq(Step)
    BY <1>2 DEF Stop
  <2>2. <<>> \in Seq(Step)
    OBVIOUS
  <2> QED BY <1>1, <2>1, <2>2
<1>4. d.todo = todo
  BY <1>1 DEF CallRec
<1> HIDE DEF c, d
<1>5. Steady(t, d, row45) /\ Shape(t, d, row45)
  BY <1>1, <1>4 DEF Steady, Shape
<1>6. Counting(d, r.bursts_remain)
  BY <1>3, <1>4, <1>5, SteadyCounts
<1>7. /\ row45' = row45 /\ alive' = alive /\ raps_frame' = raps_frame
      /\ row45 \in BOOLEAN /\ alive \in BOOLEAN /\ raps_frame \in Buffer(r)
  BY CallFacts DEF aside, Buffer
<1>8. Continue(t, c, todo, r)
  BY DEF c
<1> QED BY <1>1, <1>3, <1>5, <1>6, <1>7, <1>8, ContinueKeeps DEF d

\* A thread at a step before "switch" is on its way to the row.
LEMMA OnTheWay ==
    ASSUME Inv, NEW t \in Thread, Busy(t), NEW s, s = Head(call[t].todo),
           s[1] \in FrameName \ {"switch"}
    PROVE  /\ Framing(t, call[t]) /\ Len(call[t].todo) \in 3 .. 11
           /\ ~Opens(call[t].todo)
           /\ s[1] # "enter" /\ Len(call[t].todo) <= 5 => call[t].new # "INIT"
<1>1. PICK i \in 1 .. 9 : s = ProcessSteps[i] /\ Len(call[t].todo) = 11 - i
  BY CallFacts, WhereItIs, SMTT(30) DEF Busy
<1>2. Framing(t, call[t])
  BY CallFacts, WhereItIs DEF Busy
<1>3. i # 9
  BY <1>1, ProcessStepsNames
<1>4. Len(call[t].todo) \in 3 .. 11
  BY <1>1, <1>3
<1>5. ASSUME s[1] # "enter", Len(call[t].todo) <= 5 PROVE call[t].new # "INIT"
  <2>1. i # 6
    BY <1>1, <1>5, ProcessStepsNames
  <2>2. 11 - i <= 5 => 11 - i <= 4
    BY <2>1
  <2>3. Len(call[t].todo) <= 4
    BY <1>1, <1>5, <2>2
  <2> QED BY <1>2, <2>3 DEF Framing
<1> QED BY <1>2, <1>4, <1>5, FramingOpensNothing

\* One step forward, with the same local values.
LEMMA AdvanceKeeps ==
    ASSUME Inv, NEW t \in Thread, Busy(t),
           Head(call[t].todo)[1] \in FrameName \ {"switch", "enter"},
           NEW r, Usable(r), r.node_id = ring.node_id, r.blocked = ring.blocked,
           r.bursts_remain = ring.bursts_remain,
           Advance(t, r), UNCHANGED aside
    PROVE  Inv'
<1>1. /\ Framing(t, call[t]) /\ Len(call[t].todo) \in 3 .. 11
      /\ Len(call[t].todo) <= 5 => call[t].new # "INIT"
  BY OnTheWay
<1>2. call[t] \in CallRec
  BY CallFacts
<1> QED BY <1>1, <1>2, WayKeeps DEF Advance

\* ring_process_request returns before it reaches the row.
LEMMA ReturnOnTheWayKeeps ==
    ASSUME Inv, NEW t \in Thread, Busy(t),
           Head(call[t].todo)[1] \in FrameName \ {"switch"},
           Return(t), UNCHANGED aside
    PROVE  Inv'
<1>1. ~Opens(call[t].todo)
  BY OnTheWay
<1>2. Usable(ring)
  BY CallFacts
<1> QED BY <1>1, <1>2, ReturnKeeps DEF Return

\* The priority logic: a request that is filtered out or not severe enough ends here.
LEMMA FiltersKeep ==
    ASSUME Inv, NEW t \in Thread, Filters(t)
    PROVE  Inv'
<1>1. Busy(t) /\ UNCHANGED aside
  BY DEF Filters, At
<1>2. Usable(ring) /\ call[t].req \in Request
  BY CallFacts
<1>3. CASE At(t, "filter?") /\ (Return(t) \/ Advance(t, ring))
  BY <1>1, <1>2, <1>3, AdvanceKeeps, ReturnOnTheWayKeeps DEF At, FrameName
<1>4. CASE At(t, "severe?") /\ (Return(t) \/ Advance(t, ring))
  BY <1>1, <1>2, <1>4, AdvanceKeeps, ReturnOnTheWayKeeps DEF At, FrameName
<1>5. CASE /\ At(t, "clear_sf")
           /\ Advance(t, [ring EXCEPT !.local_request =
                              StandingRequest(ring, call[t].req)])
  <2> DEFINE r == [ring EXCEPT !.local_request = StandingRequest(ring, call[t].req)]
  <2>1. StandingRequest(ring, call[t].req) \in LocalRequest
    BY <1>2 DEF StandingRequest, Usable, Ring, LocalRequest
  <2>2. Usable(r) /\ r.node_id = ring.node_id /\ r.blocked = ring.blocked
        /\ r.bursts_remain = ring.bursts_remain
    BY <1>2, <2>1 DEF Usable, Ring, Configured
  <2> QED BY <1>1, <1>5, <2>2, AdvanceKeeps DEF At, FrameName
<1> QED BY <1>3, <1>4, <1>5 DEF Filters

\* The old local request is dropped, and the new one retained.
LEMMA RetainsKeep ==
    ASSUME Inv, NEW t \in Thread, Retains(t)
    PROVE  Inv'
<1>1. Busy(t) /\ UNCHANGED aside
  BY DEF Retains, At
<1>2. Usable(ring) /\ call[t].req \in Request
  BY CallFacts
<1>3. ASSUME NEW q \in LocalRequest, NEW r, r = [ring EXCEPT !.local_request = q]
      PROVE  /\ Usable(r) /\ r.node_id = ring.node_id /\ r.blocked = ring.blocked
             /\ r.bursts_remain = ring.bursts_remain
  BY <1>2, <1>3 DEF Usable, Ring, Configured
<1>4. CASE At(t, "drop") /\ Advance(t, [ring EXCEPT !.local_request = "INVALID"])
  <2>1. "INVALID" \in LocalRequest
    BY DEF LocalRequest
  <2> QED BY <1>1, <1>3, <1>4, <2>1, AdvanceKeeps DEF At, FrameName
<1>5. CASE At(t, "retain") /\ Advance(t, IF Retained(call[t].req) = "INVALID" THEN ring
                                  ELSE [ring EXCEPT !.local_request = call[t].req])
  <2>1. CASE Retained(call[t].req) = "INVALID"
    BY <1>1, <1>2, <1>5, <2>1, AdvanceKeeps DEF At, FrameName
  <2>2. CASE Retained(call[t].req) # "INVALID"
    <3>1. call[t].req \in LocalRequest
      BY <2>2 DEF Retained, LocalRequest
    <3> QED BY <1>1, <1>3, <1>5, <2>2, <3>1, AdvanceKeeps DEF At, FrameName
  <2> QED BY <2>1, <2>2
<1> QED BY <1>4, <1>5 DEF Retains

\* ring_fsm reads the state into new_state.
LEMMA EntersKeep ==
    ASSUME Inv, NEW t \in Thread, Enters(t)
    PROVE  Inv'
<1> DEFINE c == [call[t] EXCEPT !.new = ring.state]
<1>1. Busy(t) /\ UNCHANGED aside /\ Head(call[t].todo)[1] = "enter"
      /\ Continue(t, c, RestOf(t), ring)
  BY DEF Enters, At
<1>2. Framing(t, call[t]) /\ Len(call[t].todo) \in 3 .. 11
  BY <1>1, OnTheWay DEF FrameName
<1>3. Usable(ring) /\ call[t] \in CallRec /\ ring.state \in RingState
  BY CallFacts DEF Usable, Ring
<1>4. c \in CallRec /\ c.req = call[t].req /\ c.port = call[t].port /\ c.new # "INIT"
  BY <1>3 DEF CallRec, Usable
<1> QED BY <1>1, <1>2, <1>3, <1>4, WayKeeps

\* An assertion has failed or a null pointer has been used.
LEMMA DieKeeps ==
    ASSUME Inv, Die
    PROVE  Inv'
  BY DEF Inv, Die, Opening

\* ring_fsm compares the request with the last one.
LEMMA DeduplicatesKeep ==
    ASSUME Inv, NEW t \in Thread, Deduplicates(t)
    PROVE  Inv'
<1>1. CASE Die
  BY <1>1, DieKeeps
<1>2. CASE UNCHANGED aside /\ (Return(t) \/ Advance(t, ring))
  <2>1. Busy(t) /\ Head(call[t].todo)[1] \in FrameName \ {"switch", "enter"}
    BY DEF Deduplicates, At, FrameName
  <2>2. Usable(ring)
    BY CallFacts
  <2> QED BY <1>2, <2>1, <2>2, AdvanceKeeps, ReturnOnTheWayKeeps
<1> QED BY <1>1, <1>2 DEF Deduplicates

\* ring_fsm saves the request.
LEMMA RemembersKeep ==
    ASSUME Inv, NEW t \in Thread, Remembers(t)
    PROVE  Inv'
<1> DEFINE new == PrevOf(call[t].req, call[t].port, call[t].node)
           r   == [ring EXCEPT !.prev = new]
<1>1. /\ Busy(t) /\ UNCHANGED aside /\ Advance(t, r)
      /\ Head(call[t].todo)[1] \in FrameName \ {"switch", "enter"}
  BY DEF Remembers, At, FrameName
<1>2. new \in Prev
  BY CallFacts DEF PrevOf, Prev
<1>3. Usable(r) /\ r.node_id = ring.node_id /\ r.blocked = ring.blocked
      /\ r.bursts_remain = ring.bursts_remain
  BY <1>2, CallFacts DEF Usable, Ring, Configured
<1> QED BY <1>1, <1>3, AdvanceKeeps

-----------------------------------------------------------------------------
(***************************************************************************)
(* The steps of the rows.                                                  *)
(***************************************************************************)

\* What an assignment may change.
LEMMA AssignIsUsable ==
    ASSUME NEW r, Usable(r), NEW s \in RowStep \cup ({"fail", "recover"} \X Port),
           s[1] \in Assignment,
           NEW u, u = Assign(r, s)
    PROVE  /\ Usable(u) /\ u.node_id = r.node_id
           /\ u.bursts_remain \in {r.bursts_remain, RAPS_BURSTS}
           /\ s[1] = "unblock" => u.blocked # Port
           /\ s[1] \notin {"block", "unblock"} => u.blocked = r.blocked
           /\ s[1] \in {"stop", "fail", "recover"} => u.bursts_remain = r.bursts_remain
           /\ s[1] \notin {"fail", "recover"} => u.failed = r.failed
           /\ s[1] \in {"fail", "recover"} =>
                  \A p \in Port \ {s[2]} : (p \in r.failed) = (p \in u.failed)
<1>1. r \in Ring /\ Configured(r) /\ r.state # "INIT"
  BY DEF Usable
<1>2. /\ s[1] \in {"block", "unblock", "fail", "recover"} => s[2] \in Port
      /\ s[1] \in {"start", "stop"} => s[2] \in Timer
      /\ s[1] = "request" => s[2] \in RapsRequest
      /\ s[1] = "flags" => s[2] \in SUBSET Flag
  <2>1. CASE s \in RowStep
    BY <2>1, RowStepFields DEF PlainStep
  <2>2. CASE s \in {"fail", "recover"} \X Port
    BY <2>2
  <2> QED BY <2>1, <2>2
<1>3. CASE s[1] = "block"
  <2>1. u = [r EXCEPT !.blocked = @ \cup {s[2]}]
    BY <1>3 DEF Assign, BlockPort
  <2> QED BY <1>1, <1>2, <1>3, <2>1 DEF Usable, Ring, Configured
<1>4. CASE s[1] = "unblock"
  <2>1. u = [r EXCEPT !.blocked = @ \ {s[2]}]
    BY <1>4 DEF Assign, UnblockPort
  <2> QED BY <1>1, <1>2, <1>4, <2>1 DEF Usable, Ring, Configured
<1>5. CASE s[1] = "fail"
  <2>1. u = [r EXCEPT !.failed = @ \cup {s[2]}]
    BY <1>5 DEF Assign
  <2> QED BY <1>1, <1>2, <1>5, <2>1 DEF Usable, Ring, Configured
<1>6. CASE s[1] = "recover"
  <2>1. u = [r EXCEPT !.failed = @ \ {s[2]}]
    BY <1>6 DEF Assign
  <2> QED BY <1>1, <1>2, <1>6, <2>1 DEF Usable, Ring, Configured
<1>7. CASE s[1] = "start"
  <2>1. u = [r EXCEPT !.timers = @ \cup {s[2]}]
    BY <1>7 DEF Assign, StartTimer
  <2> QED BY <1>1, <1>2, <1>7, <2>1 DEF Usable, Ring, Configured
<1>8. CASE s[1] = "stop"
  <2>1. u = [r EXCEPT !.timers = @ \ {s[2]}]
    BY <1>8 DEF Assign, StopTimers
  <2> QED BY <1>1, <1>2, <1>8, <2>1 DEF Usable, Ring, Configured
<1>9. CASE s[1] = "request"
  <2>1. u = [r EXCEPT !.raps.request = s[2]]
    BY <1>9 DEF Assign
  <2> QED BY <1>1, <1>2, <1>9, <2>1 DEF Usable, Ring, Configured
<1>10. CASE s[1] = "flags"
  <2>1. u = [r EXCEPT !.raps.flags = s[2]]
    BY <1>10 DEF Assign
  <2> QED BY <1>1, <1>2, <1>10, <2>1 DEF Usable, Ring, Configured
<1>11. CASE s[1] = "burst"
  <2>1. u = [r EXCEPT !.bursts_remain = RAPS_BURSTS]
    BY <1>11 DEF Assign
  <2> QED BY <1>1, <1>11, <2>1 DEF Usable, Ring, Configured, RAPS_BURSTS
<1>12. CASE s[1] \in {"sending", "silent"}
  <2>1. \E b \in BOOLEAN : u = [r EXCEPT !.is_sending_raps = b]
    BY <1>12 DEF Assign, StopTx
  <2> QED BY <1>1, <1>12, <2>1 DEF Usable, Ring, Configured
<1> QED BY <1>3, <1>4, <1>5, <1>6, <1>7, <1>8, <1>9, <1>10, <1>11, <1>12
        DEF Assignment

\* A statement of the row is done.
LEMMA RowAdvances ==
    ASSUME Inv, NEW t \in Thread, call[t].new # "INIT",
           RowList(call[t].todo, call[t].reg, row45),
           NEW s, s = Head(call[t].todo), s # <<"store">>,
           NEW c \in CallRec, c.new = call[t].new,
           s = <<"load_request">> => c.reg \in LoadedRequest,
           s = <<"load_flags">>   => c.reg \in LoadedFlags,
           NEW r, Usable(r), r.node_id = ring.node_id,
           r.bursts_remain \in {ring.bursts_remain, RAPS_BURSTS},
           s[1] = "unblock" => r.blocked # Port,
           s[1] \notin {"block", "unblock"} => r.blocked = ring.blocked,
           Continue(t, c, RestOf(t), r),
           raps_frame' \in Buffer(r), alive' = alive, row45' = row45
    PROVE  Inv'
<1> DEFINE l    == call[t].todo
           todo == RestOf(t)
           d    == [c EXCEPT !.todo = todo]
<1>1. l \in Seq(Step) /\ alive \in BOOLEAN /\ row45 \in BOOLEAN
  BY CallFacts
<1>2. l # <<>>
  <2>1. Len(l) >= 1 /\ Len(<<>>) = 0
    BY DEF RowList
  <2> QED BY <2>1
<1>3. todo = Tail(l) /\ todo \in Seq(Step)
  BY <1>1, <1>2 DEF RestOf
<1>4. d.todo = todo /\ d.new # "INIT" /\ d.reg = c.reg
  BY DEF CallRec
<1>5. RowList(todo, c.reg, row45) /\ (~row45 /\ s[1] = "block" => Opens(todo))
  BY <1>3, RowListTail
<1> HIDE DEF d
<1>6. Steady(t, d, row45) /\ Shape(t, d, row45)
  BY <1>4, <1>5 DEF Steady, Shape
<1>7. Counting(d, r.bursts_remain)
  BY <1>3, <1>4, <1>6, SteadyCounts
<1>8. ASSUME ~row45', r.blocked = Port
      PROVE  Opens(todo) \/ (ring.blocked = Port /\ ~Opens(l))
  <2>1. CASE s[1] = "block"
    BY <1>5, <1>8, <2>1
  <2>2. CASE s[1] # "block"
    <3>1. s[1] # "unblock" /\ ring.blocked = Port
      BY <1>8, <2>2
    <3>2. Opens(l) => Opens(todo)
      BY <1>1, <1>2, <1>3, <3>1, EmptyIsFine, OpensStays
    <3> QED BY <3>1, <3>2
  <2> QED BY <2>1, <2>2
<1> QED BY <1>1, <1>3, <1>6, <1>7, <1>8, ContinueKeeps DEF d

\* A condition in a row has put statements in front of the list.
LEMMA RowInserts ==
    ASSUME Inv, NEW t \in Thread,
           RowList(call[t].todo, call[t].reg, row45),
           NEW s, s = Head(call[t].todo), s # <<"store">>,
           s[1] \notin {"unblock", "load_request", "load_flags"},
           NEW c \in CallRec, c.new # "INIT",
           NEW a, Fine(a),
           Continue(t, c, a \o RestOf(t), ring), UNCHANGED aside
    PROVE  Inv'
<1> DEFINE l    == call[t].todo
           todo == a \o RestOf(t)
           d    == [c EXCEPT !.todo = todo]
<1>1. /\ l \in Seq(Step) /\ alive \in BOOLEAN /\ row45 \in BOOLEAN
      /\ Usable(ring) /\ raps_frame \in Buffer(ring)
  BY CallFacts
<1>2. l # <<>>
  <2>1. Len(l) >= 1 /\ Len(<<>>) = 0
    BY DEF RowList
  <2> QED BY <2>1
<1>3. /\ RowList(Tail(l), <<>>, row45)
      /\ Head(Tail(l)) \notin {<<"store_request">>, <<"store_flags">>}
  BY RowListTail
<1>4. RowList(todo, c.reg, row45)
  BY <1>3, RowListGrows DEF Fine, RestOf
<1>5. todo \in Seq(Step) /\ a \in Seq(Step)
  <2>1. a \in Seq(RowStep)
    BY DEF Fine, Good
  <2> QED BY <1>4, <2>1 DEF RowList, Step
<1>6. d.todo = todo /\ d.new # "INIT" /\ d.reg = c.reg
  BY DEF CallRec
<1> HIDE DEF d
<1>7. Steady(t, d, row45) /\ Shape(t, d, row45)
  BY <1>4, <1>6 DEF Steady, Shape
<1>8. Counting(d, ring.bursts_remain)
  BY <1>5, <1>6, <1>7, SteadyCounts
<1>9. Opens(l) => Opens(todo)
  BY <1>1, <1>2, <1>5, OpensStays DEF RestOf
<1>10. row45' = row45 /\ alive' = alive /\ raps_frame' = raps_frame
  BY DEF aside
<1> QED BY <1>1, <1>5, <1>7, <1>8, <1>9, <1>10, ContinueKeeps DEF d

\* The last step of a list.
LEMMA EndKeeps ==
    ASSUME Inv, NEW t \in Thread, ~Opens(call[t].todo), NEW c \in CallRec,
           NEW r, Usable(r), r.node_id = ring.node_id, r.blocked = ring.blocked,
           r.bursts_remain = ring.bursts_remain,
           Continue(t, c, <<>>, r), UNCHANGED aside
    PROVE  Inv'
<1> DEFINE d == [c EXCEPT !.todo = <<>>]
<1>1. /\ row45' = row45 /\ alive' = alive /\ raps_frame' = raps_frame
      /\ row45 \in BOOLEAN /\ alive \in BOOLEAN /\ raps_frame \in Buffer(r)
  BY CallFacts DEF aside, Buffer
<1>2. Counting(d, r.bursts_remain)
  BY DEF Counting, CallRec
<1>3. <<>> \in Seq(Step)
  OBVIOUS
<1> HIDE DEF d
<1> QED BY <1>1, <1>2, <1>3, ContinueKeeps DEF d

\* A statement of a row, and the is_failed flag of a command.
LEMMA AssignsKeep ==
    ASSUME Inv, NEW t \in Thread, Assigns(t)
    PROVE  Inv'
<1> DEFINE c == call[t]
           s == Head(c.todo)
           r == Assign(ring, s)
<1>1. /\ c.todo # <<>> /\ s[1] \in Assignment
      /\ Continue(t, c, RestOf(t), r) /\ UNCHANGED aside
  BY DEF Assigns, AtOneOf, Busy, Advance
<1>2. /\ c \in CallRec /\ c.todo \in Seq(Step) /\ Shape(t, c, row45)
      /\ Usable(ring) /\ raps_frame \in Buffer(ring)
  BY CallFacts
<1>3. s \in RowStep \cup ({"fail", "recover"} \X Port)
  <2>1. s \in Step
    BY <1>1, <1>2
  <2> QED BY <1>1, <2>1 DEF Step, FrameStep, OtherStep, Assignment
<1>4. /\ Usable(r) /\ r.node_id = ring.node_id
      /\ r.bursts_remain \in {ring.bursts_remain, RAPS_BURSTS}
      /\ s[1] = "unblock" => r.blocked # Port
      /\ s[1] \notin {"block", "unblock"} => r.blocked = ring.blocked
      /\ s[1] \in {"stop", "fail", "recover"} => r.bursts_remain = ring.bursts_remain
  BY <1>1, <1>2, <1>3, AssignIsUsable
<1> HIDE DEF r
<1>5. CASE c.todo = Stop("wtr")
  <2>1. s[1] = "stop" /\ RestOf(t) = <<>>
    BY <1>5 DEF Stop, RestOf
  <2>2. ~Opens(c.todo)
    BY <1>5 DEF Opens, Stop
  <2> QED BY <1>1, <1>2, <1>4, <2>1, <2>2, EndKeeps
<1>6. CASE s[1] \in {"stop", "fail", "recover"} /\ Framing(t, c) /\ Len(c.todo) = 11
  <2>1. Len(c.todo) \in 3 .. 11 /\ ~(Len(c.todo) <= 5)
    BY <1>6
  <2> QED BY <1>1, <1>2, <1>4, <1>6, <2>1, WayKeeps
<1>7. CASE c.new # "INIT" /\ RowList(c.todo, c.reg, row45)
  <2>1. s # <<"store">> /\ s # <<"load_request">> /\ s # <<"load_flags">>
    BY <1>1 DEF Assignment
  <2>2. raps_frame' \in Buffer(r) /\ alive' = alive /\ row45' = row45
    BY <1>1, <1>2, <1>4 DEF aside, Buffer
  <2> QED BY <1>1, <1>2, <1>4, <1>7, <2>1, <2>2, RowAdvances
<1>8. s[1] \in RowName \cup {"stop", "fail", "recover"}
  BY <1>1 DEF Assignment, RowName, PlainStep
<1> QED BY <1>1, <1>2, <1>5, <1>6, <1>7, <1>8, WhereItIs

\* An argument of the step that thread t executes next.
Arg(t, i) == Head(call[t].todo)[i]

\* The conditions one by one.
LEMMA HoldsCases ==
    ASSUME NEW t \in Thread, Holds(t)
    PROVE  /\ UNCHANGED aside
           /\ \/ /\ At(t, "blocked?")
                 /\ Insert(t, IsolateSteps(ring, Arg(t, 2), Arg(t, 3), Arg(t, 4)))
              \/ /\ At(t, "nonfailed?")
                 /\ Insert(t, IF Arg(t, 2) \in ring.failed THEN <<>> ELSE Unblock(Arg(t, 2)))
              \/ /\ At(t, "differs?")
                 /\ Insert(t, IF ring.raps = [request |-> Arg(t, 2), flags |-> Arg(t, 3)]
                              THEN <<>> ELSE BurstSteps(Arg(t, 2), Arg(t, 3)))
              \/ At(t, "any_blocked?") /\ ring.blocked = {} /\ Insert(t, <<>>)
              \/ /\ At(t, "any_blocked?") /\ ring.blocked # {}
                 /\ Continue(t, [call[t] EXCEPT !.new = Arg(t, 2)],
                             Announcing(ring, "wtb") \o RestOf(t), ring)
<1> DEFINE s == Head(call[t].todo)
<1>1. /\ alive /\ Busy(t) /\ s[1] \in Condition /\ UNCHANGED aside
      /\ Continue(t, IF Decides(ring, s) THEN [call[t] EXCEPT !.new = s[2]] ELSE call[t],
                  Inserted(ring, s) \o RestOf(t), ring)
  BY DEF Holds, AtOneOf
<1>2. CASE s[1] = "blocked?"
  <2>1. ~Decides(ring, s) /\ Inserted(ring, s) = IsolateSteps(ring, s[2], s[3], s[4])
    BY <1>2 DEF Decides, Inserted
  <2> QED BY <1>1, <1>2, <2>1 DEF Insert, Arg, At
<1>3. CASE s[1] = "nonfailed?"
  <2>1. /\ ~Decides(ring, s)
        /\ Inserted(ring, s) = IF s[2] \in ring.failed THEN <<>> ELSE Unblock(s[2])
    BY <1>3 DEF Decides, Inserted
  <2> QED BY <1>1, <1>3, <2>1 DEF Insert, Arg, At
<1>4. CASE s[1] = "differs?"
  <2>1. /\ ~Decides(ring, s)
        /\ Inserted(ring, s) = IF ring.raps = [request |-> s[2], flags |-> s[3]]
                               THEN <<>> ELSE BurstSteps(s[2], s[3])
    BY <1>4 DEF Decides, Inserted
  <2> QED BY <1>1, <1>4, <2>1 DEF Insert, Arg, At
<1>5. CASE s[1] = "any_blocked?"
  <2>1. /\ Decides(ring, s) <=> ring.blocked # {}
        /\ Inserted(ring, s) = IF ring.blocked = {} THEN <<>> ELSE Announcing(ring, "wtb")
    BY <1>5 DEF Decides, Inserted
  <2>2. CASE ring.blocked = {}
    BY <1>1, <1>5, <2>1, <2>2 DEF Insert, Arg, At
  <2>3. CASE ring.blocked # {}
    BY <1>1, <1>5, <2>1, <2>3 DEF Arg, At
  <2> QED BY <2>2, <2>3
<1> QED BY <1>1, <1>2, <1>3, <1>4, <1>5 DEF Condition

\* A condition of a row.
LEMMA HoldsKeep ==
    ASSUME Inv, NEW t \in Thread, Holds(t)
    PROVE  Inv'
<1> DEFINE c == call[t]
           s == Head(c.todo)
<1>1. /\ c.todo # <<>> /\ UNCHANGED aside
      /\ s[1] \in {"blocked?", "nonfailed?", "differs?", "any_blocked?"}
  BY HoldsCases DEF At, Busy
<1>2. /\ c \in CallRec /\ c.todo \in Seq(Step) /\ Shape(t, c, row45)
  BY CallFacts
<1>3. c.new # "INIT" /\ RowList(c.todo, c.reg, row45)
  BY <1>1, <1>2, WhereItIs DEF RowName
<1>4. s # <<"store">> /\ s[1] \notin {"unblock", "load_request", "load_flags"}
  BY <1>1
<1>5. s \in RowStep
  BY <1>3, <1>4, RowListHead
<1>6. ASSUME NEW a, Fine(a), Insert(t, a)
      PROVE  Inv'
  BY <1>1, <1>2, <1>3, <1>4, <1>6, RowInserts DEF Insert
<1>7. CASE /\ At(t, "blocked?")
           /\ Insert(t, IsolateSteps(ring, Arg(t, 2), Arg(t, 3), Arg(t, 4)))
  <2>1. s[2] \in Port /\ s[3] \in RapsRequest /\ s[4] \in SUBSET Flag
    BY <1>5, <1>7, RowStepFields DEF At
  <2>2. Fine(IsolateSteps(ring, Arg(t, 2), Arg(t, 3), Arg(t, 4)))
    BY <2>1, IsolateStepsAreFine DEF Arg
  <2> QED BY <1>6, <1>7, <2>2
<1>8. CASE /\ At(t, "nonfailed?")
           /\ Insert(t, IF Arg(t, 2) \in ring.failed THEN <<>> ELSE Unblock(Arg(t, 2)))
  <2>1. s[2] \in Port
    BY <1>5, <1>8, RowStepFields DEF At
  <2>2. Fine(Unblock(Arg(t, 2))) /\ Fine(<<>>)
    BY <2>1, PortStepsAreFine, EmptyIsFine DEF Arg
  <2> QED BY <1>6, <1>8, <2>2
<1>9. CASE /\ At(t, "differs?")
           /\ Insert(t, IF ring.raps = [request |-> Arg(t, 2), flags |-> Arg(t, 3)]
                        THEN <<>> ELSE BurstSteps(Arg(t, 2), Arg(t, 3)))
  <2>1. s[2] \in RapsRequest /\ s[3] \in SUBSET Flag
    BY <1>5, <1>9, RowStepFields DEF At
  <2>2. Fine(BurstSteps(Arg(t, 2), Arg(t, 3))) /\ Fine(<<>>)
    BY <2>1, BurstStepsAreFine, EmptyIsFine DEF Arg
  <2> QED BY <1>6, <1>9, <2>2
<1>10. CASE At(t, "any_blocked?") /\ ring.blocked = {} /\ Insert(t, <<>>)
  BY <1>6, <1>10, EmptyIsFine
<1>11. CASE /\ At(t, "any_blocked?") /\ ring.blocked # {}
            /\ Continue(t, [call[t] EXCEPT !.new = Arg(t, 2)],
                        Announcing(ring, "wtb") \o RestOf(t), ring)
  <2> DEFINE e == [call[t] EXCEPT !.new = Arg(t, 2)]
  <2>1. s[2] = "PENDING"
    BY <1>5, <1>11, RowStepFields DEF At
  <2>2. e \in CallRec /\ e.new = "PENDING"
    BY <1>2, <2>1 DEF Arg, CallRec, RingState
  <2>3. Fine(Announcing(ring, "wtb"))
    BY OwnerStepsAreFine DEF Timer
  <2> QED BY <1>1, <1>3, <1>4, <1>11, <2>2, <2>3, RowInserts
<1> QED BY <1>7, <1>8, <1>9, <1>10, <1>11, HoldsCases

\* er_raps_encode fills in the buffer field by field.
LEMMA EncodesKeep ==
    ASSUME Inv, NEW t \in Thread, Encodes(t)
    PROVE  Inv'
<1> DEFINE c == call[t]
           s == Head(c.todo)
<1>1. /\ c.todo # <<>> /\ alive' = alive /\ row45' = row45
      /\ s[1] \in FrameStore \cup {"load_request", "load_flags"}
  BY DEF Encodes, AtOneOf, Busy, FrameLoad
<1>2. /\ c \in CallRec /\ c.todo \in Seq(Step) /\ Shape(t, c, row45)
      /\ Usable(ring) /\ raps_frame \in Buffer(ring)
  BY CallFacts
<1>3. c.new # "INIT" /\ RowList(c.todo, c.reg, row45)
  BY <1>1, <1>2, WhereItIs DEF RowName, PlainStep, FrameStore
<1>4. s # <<"store">> /\ s[1] \notin {"block", "unblock"}
  BY <1>1 DEF FrameStore
<1>5. s \in RowStep
  BY <1>3, <1>4, RowListHead
<1>6. s = << s[1] >>
  BY <1>1, <1>5, RowStepFields DEF FrameStore, PlainStep
<1>7. /\ s = <<"store_request">> => c.reg \in LoadedRequest
      /\ s = <<"store_flags">> => c.reg \in LoadedFlags
  <2>1. \E now : /\ s = <<"load_request">> => now \in LoadedRequest
                 /\ s = <<"load_flags">> => now \in LoadedFlags
    <3>1. <<"NR">> \in LoadedRequest /\ <<{}>> \in LoadedFlags
      BY DEF LoadedRequest, LoadedFlags, RapsRequest
    <3>2. <<"load_request">> # <<"load_flags">>
      OBVIOUS
    <3> QED BY <3>1, <3>2
  <2> QED BY <1>3, <1>4, <2>1, RowListTail
<1>8. ASSUME NEW e \in CallRec, e.new = c.new, Continue(t, e, RestOf(t), ring),
             raps_frame' \in Buffer(ring),
             s = <<"load_request">> => e.reg \in LoadedRequest,
             s = <<"load_flags">> => e.reg \in LoadedFlags
      PROVE  Inv'
  BY <1>1, <1>2, <1>3, <1>4, <1>8, RowAdvances
<1>9. CASE At(t, "load_request")
  <2> DEFINE e == [c EXCEPT !.reg = <<ring.raps.request>>]
  <2>1. /\ s[1] = "load_request" /\ Continue(t, e, RestOf(t), ring)
        /\ raps_frame' = raps_frame
    BY <1>9 DEF Encodes, At
  <2>2. <<ring.raps.request>> \in LoadedRequest
    BY <1>2 DEF Usable, Ring, LoadedRequest
  <2>3. e \in CallRec /\ e.new = c.new /\ e.reg \in LoadedRequest
    BY <1>2, <2>2 DEF CallRec
  <2>4. s # <<"load_flags">>
    BY <2>1
  <2> HIDE DEF e
  <2> QED BY <1>2, <1>8, <2>1, <2>3, <2>4
<1>10. CASE At(t, "load_flags")
  <2> DEFINE e == [c EXCEPT !.reg = <<ring.raps.flags>>]
  <2>1. s[1] = "load_flags" /\ Continue(t, e, RestOf(t), ring) /\ raps_frame' = raps_frame
    BY <1>10 DEF Encodes, At
  <2>2. <<ring.raps.flags>> \in LoadedFlags
    BY <1>2 DEF Usable, Ring, LoadedFlags
  <2>3. e \in CallRec /\ e.new = c.new /\ e.reg \in LoadedFlags
    BY <1>2, <2>2 DEF CallRec
  <2>4. s # <<"load_request">>
    BY <2>1
  <2> HIDE DEF e
  <2> QED BY <1>2, <1>8, <2>1, <2>3, <2>4
<1>11. CASE s[1] \in FrameStore
  <2>1. s # <<"load_request">> /\ s # <<"load_flags">>
    BY <1>11 DEF FrameStore
  <2>2. Advance(t, ring)
    BY <1>11 DEF Encodes, At, FrameStore
  <2>3. raps_frame' \in Buffer(ring)
    <3>1. CASE s[1] = "wipe"
      <4>1. raps_frame' = [request |-> "NR", flags |-> {}, node_id |-> NoNode]
        BY <3>1 DEF Encodes, At
      <4> QED BY <4>1 DEF Buffer, RapsRequest
    <3>2. CASE s[1] = "store_request"
      <4>1. raps_frame' = [raps_frame EXCEPT !.request = c.reg[1]]
        BY <3>2 DEF Encodes, At
      <4>2. c.reg[1] \in RapsRequest
        BY <1>6, <1>7, <3>2 DEF LoadedRequest
      <4> QED BY <1>2, <4>1, <4>2 DEF Buffer
    <3>3. CASE s[1] = "store_flags"
      <4>1. raps_frame' = [raps_frame EXCEPT !.flags = c.reg[1]]
        BY <3>3 DEF Encodes, At
      <4>2. c.reg[1] \in SUBSET Flag
        BY <1>6, <1>7, <3>3 DEF LoadedFlags
      <4> QED BY <1>2, <4>1, <4>2 DEF Buffer
    <3>4. CASE s[1] = "store_node_id"
      <4>1. raps_frame' = [raps_frame EXCEPT !.node_id = ring.node_id]
        BY <3>4 DEF Encodes, At
      <4> QED BY <1>2, <4>1 DEF Buffer
    <3> QED BY <1>11, <3>1, <3>2, <3>3, <3>4 DEF FrameStore
  <2> QED BY <1>2, <1>8, <2>1, <2>2, <2>3 DEF Advance
<1> QED BY <1>9, <1>10, <1>11 DEF Encodes, At, FrameStore, FrameLoad

\* A thread about to enter a row has a port if its request needs one.
LEMMA SwitchNames ==
    ASSUME Inv, NEW t \in Thread, At(t, "switch")
    PROVE  /\ Framing(t, call[t]) /\ Len(call[t].todo) = 2
           /\ Named(call[t].req, call[t].port)
<1> DEFINE c == call[t]
<1>1. c.todo # <<>> /\ Head(c.todo)[1] = "switch"
  BY DEF At, Busy
<1>2. c \in CallRec /\ c.todo \in Seq(Step) /\ Shape(t, c, row45)
  BY CallFacts
<1>3. PICK i \in 1 .. 9 : Head(c.todo) = ProcessSteps[i] /\ Len(c.todo) = 11 - i
  BY <1>1, <1>2, WhereItIs, SMTT(30) DEF FrameName
<1>4. i = 9
  BY <1>1, <1>3, ProcessStepsNames, SMTT(30)
<1>5. Framing(t, c) /\ Len(c.todo) = 2
  <2>1. Len(c.todo) = 2
    BY <1>3, <1>4
  <2> QED BY <1>1, <1>2, <2>1, WhereItIs DEF FrameName
<1> QED BY <1>5 DEF Framing

\* The row of the state that is read now is put in front of the store.
LEMMA SwitchesKeep ==
    ASSUME Inv, NEW t \in Thread, Switches(t)
    PROVE  Inv'
<1> DEFINE c    == call[t]
           row  == RowSteps(ring, c.req, c.port, c.node)
           e    == IF row.new = "same" THEN c ELSE [c EXCEPT !.new = row.new]
           todo == row.steps \o RestOf(t)
           d    == [e EXCEPT !.todo = todo]
<1>1. /\ c.todo # <<>> /\ Head(c.todo)[1] = "switch"
      /\ Continue(t, e, todo, ring)
      /\ alive' = alive /\ raps_frame' = raps_frame
      /\ row45' = (row45 \/ (ring.state = "FORCED_SWITCH" /\ c.req = "FS"))
  BY DEF Switches, At, Busy
<1>2. /\ c \in CallRec /\ c.todo \in Seq(Step) /\ Shape(t, c, row45)
      /\ Usable(ring) /\ raps_frame \in Buffer(ring) /\ alive \in BOOLEAN
  BY CallFacts
<1>5. Framing(t, c) /\ Len(c.todo) = 2 /\ Named(c.req, c.port)
  BY SwitchNames DEF Switches
<1>6. c.new # "INIT" /\ Named(c.req, c.port) /\ c.todo[2] = <<"store">>
  <2>1. 2 \in 1 .. 2 /\ 10 - 2 + 2 >= 1 /\ 10 - 2 + 2 = 10
    OBVIOUS
  <2> QED BY <1>5, <2>1, ProcessStepsNames DEF Framing
<1>7. RestOf(t) \in Seq(Step) /\ Len(RestOf(t)) = 1 /\ RestOf(t)[1] = <<"store">>
  BY <1>1, <1>2, <1>5, <1>6 DEF RestOf
<1>8. RowList(RestOf(t), <<>>, row45') /\ Head(RestOf(t)) = <<"store">>
  BY <1>7 DEF RowList, Paired
<1>9. /\ row.new \in NewState /\ Good(row.steps)
      /\ Fine(row.steps) \/ (ring.state = "FORCED_SWITCH" /\ c.req = "FS")
  BY <1>2, <1>6, RowsAreFine DEF Usable
<1>10. row45' \in BOOLEAN /\ (row45 => row45') /\ (row45' \/ Fine(row.steps))
  BY <1>1, <1>9
<1>11. e \in CallRec /\ e.new # "INIT"
  BY <1>2, <1>6, <1>9 DEF CallRec, NewState, RingState
<1> HIDE DEF e, row
<1>12. RowList(todo, e.reg, row45')
  BY <1>8, <1>9, <1>10, RowListGrows
<1>13. todo \in Seq(Step)
  BY <1>12 DEF RowList
<1>14. d.todo = todo /\ d.new # "INIT" /\ d.reg = e.reg
  BY <1>11 DEF CallRec
<1> HIDE DEF d
<1>15. Steady(t, d, row45') /\ Shape(t, d, row45')
  BY <1>12, <1>14 DEF Steady, Shape
<1>16. Counting(d, ring.bursts_remain)
  BY <1>13, <1>14, <1>15, SteadyCounts
<1>17. ~Opens(c.todo)
  BY <1>5, FramingOpensNothing
<1>18. alive' \in BOOLEAN /\ raps_frame' \in Buffer(ring)
  BY <1>1, <1>2
<1> QED BY <1>1, <1>2, <1>10, <1>11, <1>13, <1>15, <1>16, <1>17, <1>18, ContinueKeeps
        DEF d

\* ring_fsm stores new_state.
LEMMA StoresKeep ==
    ASSUME Inv, NEW t \in Thread, Stores(t)
    PROVE  Inv'
<1> DEFINE c == call[t]
           r == Enter(ring, c.new)
<1>1. /\ c.todo # <<>> /\ Head(c.todo)[1] = "store" /\ UNCHANGED aside
      /\ Continue(t, [call[t] EXCEPT !.after = <<>>], call[t].after, r)
  BY DEF Stores, At, Busy
<1>2. /\ c \in CallRec /\ c.todo \in Seq(Step) /\ Shape(t, c, row45) /\ Usable(ring)
  BY CallFacts
<1>3. c.new # "INIT" /\ RowList(c.todo, c.reg, row45)
  BY <1>1, <1>2, WhereItIs
<1>4. ~Opens(c.todo)
  <2>1. Head(c.todo) \notin RowStep
    BY <1>1, RowStepFields DEF PlainStep
  <2> QED BY <1>3, <2>1, RowListHead
<1>5. /\ Usable(r) /\ r.node_id = ring.node_id /\ r.blocked = ring.blocked
      /\ r.bursts_remain = ring.bursts_remain
  BY <1>2, <1>3 DEF Enter, Usable, Ring, Configured, CallRec
<1> QED BY <1>1, <1>4, <1>5, ReturnKeeps

-----------------------------------------------------------------------------
(***************************************************************************)
(* The event loop and the worker.                                          *)
(***************************************************************************)

\* The guard timer.
LEMMA GuardTestKeeps ==
    ASSUME Inv, NEW expired \in BOOLEAN, GuardTest(expired)
    PROVE  Inv'
<1> DEFINE t == "loop"
           c == call[t]
<1>0. t \in Thread
  BY DEF Thread
<1>1. c.todo # <<>> /\ Head(c.todo)[1] = "guard?" /\ UNCHANGED aside
  BY DEF GuardTest, At, Busy
<1>2. /\ c \in CallRec /\ c.todo \in Seq(Step) /\ Shape(t, c, row45)
      /\ Usable(ring) /\ raps_frame \in Buffer(ring) /\ alive \in BOOLEAN
      /\ row45 \in BOOLEAN
  BY <1>0, CallFacts
<1>3. Framing(t, c) /\ Len(c.todo) = 11
  BY <1>1, <1>2, WhereItIs
<1>4. ~Opens(c.todo)
  BY <1>3, FramingOpensNothing
<1>5. CASE Advance(t, ring)
  <2>1. Len(c.todo) \in 3 .. 11 /\ ~(Len(c.todo) <= 5)
    BY <1>3
  <2> QED BY <1>0, <1>1, <1>2, <1>3, <1>5, <2>1, WayKeeps DEF Advance
<1>6. CASE Return(t)
  BY <1>0, <1>1, <1>2, <1>4, <1>6, ReturnKeeps DEF Return
<1>7. CASE Continue(t, [call["loop"] EXCEPT !.expired = TRUE],
                    Stop("guard") \o RestOf("loop"), ring)
  <2> DEFINE e    == [c EXCEPT !.expired = TRUE]
             todo == Stop("guard") \o RestOf(t)
             d    == [e EXCEPT !.todo = todo]
  <2>1. e \in CallRec /\ d.todo = todo /\ d.req = c.req /\ d.port = c.port
    BY <1>2 DEF CallRec
  <2>2. <<"stop", "guard">> \in Step
    BY DEF Step, RowStep, Timer
  <2>3. /\ todo \in Seq(Step) /\ Len(todo) = 11 /\ todo[1] = <<"stop", "guard">>
        /\ \A k \in 2 .. 11 : todo[k] = c.todo[k]
    BY <1>1, <1>2, <1>3, <2>2 DEF Stop, RestOf
  <2>4. \A k \in 1 .. 11 : 10 - 11 + k >= 1 => todo[k] = ProcessSteps[10 - 11 + k]
    <3> SUFFICES ASSUME NEW k \in 1 .. 11, 10 - 11 + k >= 1
                 PROVE  todo[k] = ProcessSteps[10 - 11 + k]
      OBVIOUS
    <3>1. k \in 2 .. 11
      OBVIOUS
    <3> QED BY <1>3, <2>3, <3>1 DEF Framing
  <2> HIDE DEF d, e, todo
  <2>5. Framing(t, d)
    BY <1>3, <2>1, <2>3, <2>4 DEF Framing
  <2>6. Steady(t, d, row45) /\ Shape(t, d, row45)
    BY <2>5 DEF Steady, Shape
  <2>7. Counting(d, ring.bursts_remain)
    BY <2>1, <2>3, <2>6, SteadyCounts
  <2>8. row45' = row45 /\ alive' = alive /\ raps_frame' = raps_frame
    BY <1>1 DEF aside
  <2>9. Continue(t, e, todo, ring) /\ d = [e EXCEPT !.todo = todo]
    BY <1>7 DEF d, e, todo
  <2> QED BY <1>0, <1>2, <1>4, <2>1, <2>3, <2>6, <2>7, <2>8, <2>9, ContinueKeeps
<1> QED BY <1>5, <1>6, <1>7 DEF GuardTest

\* send_raps_cb.
LEMMA SendsKeep ==
    ASSUME Inv, Sends
    PROVE  Inv'
<1> DEFINE t == "loop"
           c == call[t]
           s == Head(c.todo)
<1>0. t \in Thread
  BY DEF Thread
<1>1. /\ c.todo # <<>> /\ UNCHANGED aside
      /\ s[1] \in {"pace?", "load_bursts", "store_bursts", "send"}
  BY DEF Sends, At, Busy
<1>2. /\ c \in CallRec /\ c.todo \in Seq(Step) /\ Shape(t, c, row45)
      /\ Usable(ring) /\ raps_frame \in Buffer(ring) /\ alive \in BOOLEAN
      /\ row45 \in BOOLEAN
  BY <1>0, CallFacts
<1>3. c.todo \in SendLists
  BY <1>1, <1>2, WhereItIs
<1>4. ~Opens(c.todo)
  BY <1>3 DEF SendLists, Opens
<1>5. /\ row45' = row45 /\ alive' = alive /\ raps_frame' = raps_frame
  BY <1>1 DEF aside
<1>6. {<<"pace?">>, <<"load_bursts">>, <<"store_bursts">>, <<"send">>} \subseteq Step
  BY DEF Step, OtherStep
<1>7. ASSUME NEW e \in CallRec, NEW todo \in SendLists \cup {<<>>}, todo \in Seq(Step),
             NEW r, Usable(r), r.node_id = ring.node_id, r.blocked = ring.blocked,
             NEW d, d = [e EXCEPT !.todo = todo],
             Counting(d, r.bursts_remain),
             Continue(t, e, todo, r)
      PROVE  Inv'
  <2>1. d.todo = todo
    BY <1>7 DEF CallRec
  <2>2. Shape(t, d, row45)
    BY <1>7, <2>1 DEF Shape, Steady
  <2>3. raps_frame \in Buffer(r)
    BY <1>2, <1>7 DEF Buffer
  <2> QED BY <1>0, <1>2, <1>4, <1>5, <1>7, <2>2, <2>3, ContinueKeeps
<1>8. CASE At(t, "pace?") /\ Insert(t, Pace(ring))
  <2> DEFINE todo == Pace(ring) \o RestOf(t)
             d    == [c EXCEPT !.todo = todo]
  <2>1. c.todo = << <<"pace?">>, <<"send">>, <<"send">> >>
    BY <1>3, <1>8 DEF SendLists, At
  <2>2. RestOf(t) = << <<"send">>, <<"send">> >>
    BY <2>1 DEF RestOf
  <2>3. \/ todo = << <<"send">>, <<"send">> >>
        \/ /\ ring.bursts_remain >= 1
           /\ todo = << <<"load_bursts">>, <<"store_bursts">>, <<"send">>, <<"send">> >>
    <3>1. CASE ring.bursts_remain > 0
      <4>0. Pace(ring) = << <<"load_bursts">>, <<"store_bursts">> >>
        BY <3>1 DEF Pace
      <4>1. todo = << <<"load_bursts">>, <<"store_bursts">>, <<"send">>, <<"send">> >>
        <5> DEFINE a == << <<"load_bursts">>, <<"store_bursts">> >>
                   b == << <<"send">>, <<"send">> >>
                   l == << <<"load_bursts">>, <<"store_bursts">>, <<"send">>, <<"send">> >>
        <5>1. a \in Seq(Step) /\ b \in Seq(Step) /\ l \in Seq(Step)
          BY <1>6
        <5>2. Len(a) = 2 /\ Len(b) = 2 /\ Len(l) = 4
          OBVIOUS
        <5>3. a \o b \in Seq(Step) /\ Len(a \o b) = 4
          BY <5>1, <5>2
        <5>4. \A k \in 1 .. 4 : (a \o b)[k] = l[k]
          <6>1. /\ \A k \in 1 .. 2 : (a \o b)[k] = a[k]
                /\ \A k \in 3 .. 4 : (a \o b)[k] = b[k - 2]
            BY <5>1, <5>2
          <6> QED BY <6>1
        <5> HIDE DEF a, b, l
        <5>5. a \o b = l
          BY <5>1, <5>2, <5>3, <5>4, SeqEqual
        <5> QED BY <2>2, <4>0, <5>5 DEF a, b, l
      <4> QED BY <1>2, <3>1, <4>1 DEF Usable, Ring
    <3>2. CASE ~(ring.bursts_remain > 0)
      <4>1. Pace(ring) = <<>>
        BY <3>2 DEF Pace
      <4>2. todo = << <<"send">>, <<"send">> >>
        BY <2>2, <4>1
      <4> QED BY <4>2
    <3> QED BY <3>1, <3>2
  <2>4. d.todo = todo
    BY <1>2 DEF CallRec
  <2> HIDE DEF d, todo
  <2>5. todo \in SendLists /\ todo \in Seq(Step)
    <3>1. todo \in SendLists
      BY <2>3 DEF SendLists
    <3>2. /\ << <<"send">>, <<"send">> >> \in Seq(Step)
          /\ << <<"load_bursts">>, <<"store_bursts">>, <<"send">>, <<"send">> >> \in Seq(Step)
      BY <1>6
    <3> QED BY <2>3, <3>1, <3>2
  <2>6. Counting(d, ring.bursts_remain)
    <3>1. \/ Head(todo) = <<"send">>
          \/ Head(todo) = <<"load_bursts">> /\ ring.bursts_remain >= 1
      BY <2>3
    <3> QED BY <2>4, <3>1 DEF Counting
  <2>7. Continue(t, c, todo, ring) /\ d = [c EXCEPT !.todo = todo]
    BY <1>8 DEF Insert, todo, d
  <2> QED BY <1>2, <1>7, <2>5, <2>6, <2>7
<1>9. CASE /\ At(t, "load_bursts")
           /\ Continue(t, [c EXCEPT !.reg = <<ring.bursts_remain>>], RestOf(t), ring)
  <2> DEFINE e    == [c EXCEPT !.reg = <<ring.bursts_remain>>]
             todo == << <<"store_bursts">>, <<"send">>, <<"send">> >>
             d    == [e EXCEPT !.todo = todo]
  <2>1. c.todo = << <<"load_bursts">>, <<"store_bursts">>, <<"send">>, <<"send">> >>
    BY <1>3, <1>9 DEF SendLists, At
  <2>2. RestOf(t) = todo
    BY <2>1 DEF RestOf
  <2>3. Counting(c, ring.bursts_remain)
    BY DEF Inv
  <2>4. ring.bursts_remain \in 1 .. RAPS_BURSTS
    BY <1>2, <2>1, <2>3 DEF Counting, Usable, Ring, RAPS_BURSTS
  <2>5. <<ring.bursts_remain>> \in { <<m>> : m \in 0 .. RAPS_BURSTS }
    BY <2>4 DEF RAPS_BURSTS
  <2>6. e \in CallRec
    BY <1>2, <2>5 DEF CallRec
  <2>7. d.todo = todo /\ d.reg = <<ring.bursts_remain>>
    BY <1>2 DEF CallRec
  <2>8. todo \in SendLists /\ todo \in Seq(Step) /\ Head(todo) = <<"store_bursts">>
    BY <1>6 DEF SendLists
  <2> HIDE DEF d, e, todo
  <2>9. Counting(d, ring.bursts_remain)
    BY <2>4, <2>7, <2>8 DEF Counting
  <2>10. Continue(t, e, todo, ring) /\ d = [e EXCEPT !.todo = todo]
    BY <1>9, <2>2 DEF d, e
  <2> QED BY <1>2, <1>7, <2>6, <2>8, <2>9, <2>10
<1>10. CASE /\ At(t, "store_bursts")
            /\ Advance(t, [ring EXCEPT !.bursts_remain = c.reg[1] - 1])
  <2> DEFINE r    == [ring EXCEPT !.bursts_remain = c.reg[1] - 1]
             todo == << <<"send">>, <<"send">> >>
             d    == [c EXCEPT !.todo = todo]
  <2>1. c.todo = << <<"store_bursts">>, <<"send">>, <<"send">> >>
    BY <1>3, <1>10 DEF SendLists, At
  <2>2. RestOf(t) = todo
    BY <2>1 DEF RestOf
  <2>3. Counting(c, ring.bursts_remain)
    BY DEF Inv
  <2>4. c.reg \in { <<m>> : m \in 1 .. RAPS_BURSTS }
    BY <2>1, <2>3 DEF Counting
  <2>5. PICK m \in 1 .. 3 : c.reg = <<m>>
    BY <2>4 DEF RAPS_BURSTS
  <2>6. c.reg[1] - 1 \in 0 .. 3
    BY <2>5
  <2>7. Usable(r) /\ r.node_id = ring.node_id /\ r.blocked = ring.blocked
    BY <1>2, <2>6 DEF Usable, Ring, Configured, RAPS_BURSTS
  <2>8. d.todo = todo
    BY <1>2 DEF CallRec
  <2>9. todo \in SendLists /\ todo \in Seq(Step) /\ Head(todo) = <<"send">>
    BY <1>6 DEF SendLists
  <2> HIDE DEF d, r, todo
  <2>10. Counting(d, r.bursts_remain)
    BY <2>8, <2>9 DEF Counting
  <2>11. Continue(t, c, todo, r) /\ d = [c EXCEPT !.todo = todo]
    BY <1>10, <2>2 DEF Advance, d, r
  <2> QED BY <1>2, <1>7, <2>7, <2>9, <2>10, <2>11
<1>11. CASE At(t, "send") /\ Advance(t, ring)
  <2> DEFINE todo == RestOf(t)
             d    == [c EXCEPT !.todo = todo]
  <2>1. c.todo = << <<"send">>, <<"send">> >> \/ c.todo = << <<"send">> >>
    BY <1>3, <1>11 DEF SendLists, At
  <2>2. todo = << <<"send">> >> \/ todo = <<>>
    <3>1. /\ Tail(<< <<"send">>, <<"send">> >>) = << <<"send">> >>
          /\ Tail(<< <<"send">> >>) = <<>>
      OBVIOUS
    <3> QED BY <2>1, <3>1 DEF RestOf
  <2>3. d.todo = todo
    BY <1>2 DEF CallRec
  <2> HIDE DEF d, todo
  <2>4. todo \in SendLists \cup {<<>>} /\ todo \in Seq(Step)
    <3>1. << <<"send">> >> \in Seq(Step) /\ <<>> \in Seq(Step)
      BY <1>6
    <3> QED BY <2>2, <3>1 DEF SendLists
  <2>5. Counting(d, ring.bursts_remain)
    <3>1. todo # <<>> => Head(todo) = <<"send">>
      BY <2>2
    <3> QED BY <2>3, <3>1 DEF Counting
  <2>6. Continue(t, c, todo, ring) /\ d = [c EXCEPT !.todo = todo]
    BY <1>11 DEF Advance, todo, d
  <2> QED BY <1>2, <1>7, <2>4, <2>5, <2>6
<1> QED BY <1>8, <1>9, <1>10, <1>11 DEF Sends

\* A thread makes a new call.
LEMMA BeginKeeps ==
    ASSUME Inv, NEW t \in Thread, NEW c \in CallRec, Begin(t, c),
           Shape(t, c, row45), NEW n, n = ring.bursts_remain, Counting(c, n)
    PROVE  Inv'
<1>1. /\ call \in [Thread -> CallRec] /\ made \in [Thread -> Nat]
      /\ call' = [call EXCEPT ![t] = c] /\ made' = [made EXCEPT ![t] = @ + 1]
      /\ ring' = ring /\ raps_frame' = raps_frame /\ alive' = alive /\ row45' = row45
      /\ made[t] < Calls[t] /\ call[t].todo = <<>>
  BY DEF Begin, Inv, aside, Busy
<1>2. call' \in [Thread -> CallRec] /\ call'[t] = c
      /\ \A u \in Thread \ {t} : call'[u] = call[u]
  BY <1>1
<1>3. made' \in [Thread -> Nat]
  BY <1>1
<1>4. \A u \in Thread : made'[u] <= Calls[u]
  <2> SUFFICES ASSUME NEW u \in Thread PROVE made'[u] <= Calls[u]
    OBVIOUS
  <2>1. made[u] \in Nat /\ Calls[u] \in Nat /\ made[u] <= Calls[u]
    BY <1>1, ThreadsAssumption DEF Inv
  <2>2. made'[u] = IF u = t THEN made[u] + 1 ELSE made[u]
    BY <1>1
  <2> QED BY <1>1, <2>1, <2>2
<1>5. \A u \in Thread : Shape(u, call'[u], row45)
  BY <1>2 DEF Inv
<1>6. Counting(call'["loop"], ring.bursts_remain)
  BY <1>2 DEF Inv, Thread
<1>7. Opening'
  <2> SUFFICES ASSUME ~row45, ring.blocked = Port
               PROVE  \E u \in Thread : Opens(call'[u].todo)
    BY <1>1 DEF Opening
  <2>1. PICK u \in Thread : Opens(call[u].todo)
    BY DEF Inv, Opening
  <2>2. u # t
    BY <1>1, <2>1 DEF Opens
  <2> QED BY <1>2, <2>1, <2>2
<1> QED BY <1>1, <1>2, <1>3, <1>4, <1>5, <1>6, <1>7 DEF Inv

\* The lists a call begins with.
LEMMA ProcessStepsFrame ==
    ASSUME NEW t, NEW c, c.todo = ProcessSteps, Named(c.req, c.port)
    PROVE  c.todo \in Seq(Step) /\ Len(c.todo) = 10 /\ Framing(t, c)
<1>1. Len(ProcessSteps) = 10 /\ \A i \in 1 .. 10 : 10 - 10 + i = i
  BY DEF ProcessSteps
<1>2. { <<name>> : name \in {"filter?", "clear_sf", "severe?", "drop", "retain", "enter",
                             "dupe?", "remember", "switch", "store"} } \subseteq Step
  BY DEF Step, FrameStep
<1>3. ProcessSteps \in Seq(Step)
  BY <1>2 DEF ProcessSteps
<1>4. 10 \in 2 .. 11 /\ 10 # 11 /\ ~(10 <= 4)
  OBVIOUS
<1> QED BY <1>1, <1>3, <1>4 DEF Framing

\* One element in front of ten.
LEMMA OneBefore ==
    ASSUME NEW a \in Seq(Step), Len(a) = 1, NEW b \in Seq(Step), Len(b) = 10
    PROVE  /\ a \o b \in Seq(Step) /\ Len(a \o b) = 11 /\ (a \o b)[1] = a[1]
           /\ \A k \in 2 .. 11 : (a \o b)[k] = b[k - 1]
<1>1. a \o b \in Seq(Step) /\ Len(a \o b) = Len(a) + Len(b)
  BY ConcatProperties
<1>2. Len(a \o b) = 11
  BY <1>1
<1>3. ASSUME NEW k \in 1 .. 11
      PROVE  (a \o b)[k] = IF k <= Len(a) THEN a[k] ELSE b[k - Len(a)]
  <2>1. k \in 1 .. Len(a) + Len(b)
    OBVIOUS
  <2> QED BY <2>1, ConcatProperties
<1>4. ASSUME NEW k \in 1 .. 11, k = 1
      PROVE  (a \o b)[k] = a[k]
  <2>1. k <= Len(a)
    BY <1>4
  <2> QED BY <1>3, <2>1, Zenon
<1>5. ASSUME NEW k \in 2 .. 11
      PROVE  (a \o b)[k] = b[k - 1]
  <2>1. k \in 1 .. 11 /\ ~(k <= Len(a))
    OBVIOUS
  <2>2. (a \o b)[k] = b[k - Len(a)]
    BY <1>3, <2>1, Zenon
  <2> QED BY <2>2, Zenon
<1>6. (a \o b)[1] = a[1]
  <2>1. PICK k \in 1 .. 11 : k = 1
    OBVIOUS
  <2> QED BY <1>4, <2>1, Zenon
<1> QED BY <1>1, <1>2, <1>5, <1>6, Zenon

\* The list of a call that does one thing before it processes its request.
LEMMA StepBeforeFrame ==
    ASSUME NEW t, NEW c, NEW a \in Seq(Step), Len(a) = 1, c.todo = a \o ProcessSteps,
           a[1] \in IF t = "loop" THEN {<<"guard?">>, <<"stop", "guard">>}
                    ELSE {<<"fail", c.named>>, <<"recover", c.named>>},
           Named(c.req, c.port)
    PROVE  c.todo \in Seq(Step) /\ Framing(t, c)
<1>1. ProcessSteps \in Seq(Step) /\ Len(ProcessSteps) = 10
  <2> DEFINE f == [NoCall EXCEPT !.todo = ProcessSteps]
  <2>1. f.todo = ProcessSteps /\ Named(f.req, f.port)
    BY DEF NoCall, Named, PortRequest
  <2> QED BY <2>1, ProcessStepsFrame
<1>2. /\ a \o ProcessSteps \in Seq(Step) /\ Len(a \o ProcessSteps) = 11
      /\ (a \o ProcessSteps)[1] = a[1]
      /\ \A k \in 2 .. 11 : (a \o ProcessSteps)[k] = ProcessSteps[k - 1]
  BY <1>1, OneBefore
<1>3. /\ c.todo \in Seq(Step) /\ Len(c.todo) = 11 /\ c.todo[1] = a[1]
      /\ \A k \in 2 .. 11 : c.todo[k] = ProcessSteps[k - 1]
  BY <1>2
<1>4. \A k \in 1 .. 11 : 10 - 11 + k >= 1 => c.todo[k] = ProcessSteps[10 - 11 + k]
  <2> SUFFICES ASSUME NEW k \in 1 .. 11, 10 - 11 + k >= 1
               PROVE  c.todo[k] = ProcessSteps[10 - 11 + k]
    OBVIOUS
  <2>1. k \in 2 .. 11 /\ 10 - 11 + k = k - 1
    OBVIOUS
  <2> QED BY <1>3, <2>1
<1>5. 11 \in 2 .. 11 /\ ~(11 <= 4)
  OBVIOUS
<1> HIDE DEF ProcessSteps
<1> QED BY <1>3, <1>4, <1>5 DEF Framing

\* One step is a list of one.
LEMMA OneStep ==
    ASSUME NEW x \in Step
    PROVE  <<x>> \in Seq(Step) /\ Len(<<x>>) = 1 /\ <<x>>[1] = x
OBVIOUS

\* A call that starts on its way to the row.
LEMMA CallBegins ==
    ASSUME Inv, NEW t \in Thread, NEW c \in CallRec, Begin(t, c), Framing(t, c)
    PROVE  Inv'
<1>1. Steady(t, c, row45) /\ Shape(t, c, row45)
  BY DEF Steady, Shape
<1>2. Counting(c, ring.bursts_remain)
  BY <1>1, SteadyCounts DEF CallRec
<1> QED BY <1>1, <1>2, BeginKeeps

\* A thread that does nothing.
LEMMA NoCallIsACall == NoCall \in CallRec /\ <<>> \in Seq(Step)
<1>1. <<>> \in Seq(Step)
  OBVIOUS
<1> QED BY <1>1 DEF NoCall, CallRec, Origin, Request, Severity, RingState, NoPort, NoNode

\* A R-APS message arrives.
LEMMA PortCbKeeps ==
    ASSUME Inv, NEW req \in RemoteRequest, NEW node \in NodeId, PortCb(req, node)
    PROVE  Inv'
<1> DEFINE a == << <<"guard?">> >>
           c == [NoCall EXCEPT !.origin = "port_cb", !.req = req, !.node = node,
                               !.todo = a \o ProcessSteps]
<1>0. <<"guard?">> \in Step /\ "loop" \in Thread
  BY DEF Step, OtherStep, Thread
<1>1. a \in Seq(Step) /\ Len(a) = 1 /\ a[1] = <<"guard?">>
  BY <1>0, OneStep
<1>8. Begin("loop", c)
  BY DEF PortCb
<1> HIDE DEF a
<1>2. /\ c.todo = a \o ProcessSteps /\ c.req = req /\ c.port = NoPort
  BY NoCallIsACall DEF CallRec, NoCall
<1>3. Named(c.req, c.port)
  BY <1>2 DEF Named, PortRequest, RemoteRequest
<1>4. c.todo \in Seq(Step) /\ Framing("loop", c)
  <2> HIDE DEF c
  <2> QED BY <1>1, <1>2, <1>3, StepBeforeFrame
<1>5. req \in Request
  BY DEF RemoteRequest, Request, Severity
<1>6. c \in CallRec
  BY <1>2, <1>4, <1>5, NoCallIsACall DEF CallRec, Origin
<1> HIDE DEF c
<1> QED BY <1>0, <1>4, <1>6, <1>8, CallBegins

\* A WTR or WTB timer fires.
LEMMA RingTimerCbKeeps ==
    ASSUME Inv, RingTimerCb
    PROVE  Inv'
<1> DEFINE c == [NoCall EXCEPT !.origin = "ring_timer", !.req = "WTR_EXPIRES",
                               !.todo = ProcessSteps, !.after = Stop("wtr")]
<1>1. "loop" \in Thread
  BY DEF Thread
<1>2. c.todo = ProcessSteps /\ c.req = "WTR_EXPIRES"
  BY NoCallIsACall DEF CallRec
<1>3. Named(c.req, c.port)
  BY <1>2 DEF Named, PortRequest
<1>4. c.todo \in Seq(Step) /\ Framing("loop", c)
  BY <1>2, <1>3, ProcessStepsFrame
<1>5. c \in CallRec
  BY <1>2, <1>4, NoCallIsACall, ZenonT(60) DEF CallRec, Origin, Request, Severity
<1>6. Begin("loop", c)
  BY DEF RingTimerCb
<1> HIDE DEF c
<1> QED BY <1>1, <1>4, <1>5, <1>6, CallBegins

\* The transmission timer fires.
LEMMA SendRapsCbKeeps ==
    ASSUME Inv, SendRapsCb
    PROVE  Inv'
<1> DEFINE l == << <<"pace?">>, <<"send">>, <<"send">> >>
           c == [NoCall EXCEPT !.origin = "send_raps_cb", !.todo = l]
<1>1. "loop" \in Thread
  BY DEF Thread
<1>2. {<<"pace?">>, <<"send">>} \subseteq Step
  BY DEF Step, OtherStep
<1>3. l \in Seq(Step) /\ l \in SendLists /\ Head(l) = <<"pace?">>
  BY <1>2 DEF SendLists
<1>4. c.todo = l
  BY NoCallIsACall DEF CallRec
<1>5. c \in CallRec
  BY <1>3, NoCallIsACall DEF CallRec, Origin
<1>6. Begin("loop", c)
  BY DEF SendRapsCb
<1> HIDE DEF c, l
<1>7. Shape("loop", c, row45) /\ Counting(c, ring.bursts_remain)
  BY <1>3, <1>4 DEF Shape, Counting
<1> QED BY <1>1, <1>5, <1>6, <1>7, BeginKeeps

\* The low byte of param tells the ports apart: with the upper bytes of 0 it is the code
\* of the port that was named, with others it is no port's.
LEMMA ParamNamesPort ==
    ASSUME NEW named \in Port, NEW stack \in Stack
    PROVE  PortOfParam(ParamOf(named, stack)) \in {named, NoPort}
<1>1. stack \in Int
  BY ThreadsAssumption
<1>2. /\ CodeOf["port0"] = 240 /\ CodeOf["port1"] = 241
  BY DEF CodeOf
<1>3. CASE named = "port0"
  <2>1. ParamOf(named, stack) = 240 + 256 * stack
    BY <1>2, <1>3 DEF ParamOf
  <2>2. ParamOf(named, stack) # 241
    BY <1>1, <2>1
  <2> QED BY <1>2, <1>3, <2>2 DEF PortOfParam
<1>4. CASE named = "port1"
  <2>1. ParamOf(named, stack) = 241 + 256 * stack
    BY <1>2, <1>4 DEF ParamOf
  <2>2. ParamOf(named, stack) # 240
    BY <1>1, <2>1
  <2> QED BY <1>2, <1>4, <2>2 DEF PortOfParam
<1> QED BY <1>3, <1>4 DEF Port

\* A command that names a port.
LEMMA RioClientKeeps ==
    ASSUME Inv, NEW cmd \in DOMAIN PortCommand, NEW named \in Port,
           NEW stack \in Stack, RioClient(cmd, named, stack)
    PROVE  Inv'
<1> DEFINE port == PortOfParam(ParamOf(named, stack))
           c == [NoCall EXCEPT !.origin = cmd, !.req = PortCommand[cmd],
                               !.named = named, !.port = port,
                               !.todo = CommandSteps(cmd, port)]
<1>1. CASE port = NoPort
  <2>1. CrashOnNullPort
    BY <1>1 DEF RioClient
  <2>2. /\ UNCHANGED <<ring, raps_frame, call, before, row45>>
        /\ alive' = FALSE /\ made["worker"] < Calls["worker"]
        /\ made' = [made EXCEPT !["worker"] = @ + 1]
    BY <2>1 DEF CrashOnNullPort
  <2>3. made' \in [Thread -> Nat] /\ \A t \in Thread : made'[t] <= Calls[t]
    BY <2>2, ThreadsAssumption DEF Inv, Thread
  <2> QED BY <2>2, <2>3 DEF Inv, Opening, Shape, Steady, Counting
<1>2. CASE port # NoPort
  <2>0. "worker" \in Thread /\ "worker" # "loop"
    BY DEF Thread
  <2>1. port = named
    BY <1>2, ParamNamesPort
  <2>2. Begin("worker", c)
    BY <1>2 DEF RioClient
  <2> HIDE DEF port
  <2>3. /\ c.todo = CommandSteps(cmd, named) /\ c.req = PortCommand[cmd]
        /\ c.port = named /\ c.named = named
    BY <2>1, NoCallIsACall DEF CallRec
  <2>4. PortCommand[cmd] \in Request /\ cmd \in Origin
    BY DEF PortCommand, Request, Severity, Origin
  <2>5. Named(c.req, c.port)
    BY <2>3 DEF Named
  <2>6. <<"fail", named>> \in Step /\ <<"recover", named>> \in Step
    BY DEF Step, OtherStep
  <2>7. c.todo \in Seq(Step) /\ Framing("worker", c)
    <3>1. CASE cmd = "fail"
      <4> DEFINE a == << <<"fail", named>> >>
      <4>1. c.todo = a \o ProcessSteps
        BY <2>3, <3>1 DEF CommandSteps
      <4>2. a \in Seq(Step) /\ Len(a) = 1 /\ a[1] = <<"fail", named>>
        BY <2>6, OneStep
      <4> HIDE DEF a, c
      <4> QED BY <2>0, <2>3, <2>5, <4>1, <4>2, StepBeforeFrame
    <3>2. CASE cmd = "recover"
      <4> DEFINE a == << <<"recover", named>> >>
      <4>1. c.todo = a \o ProcessSteps
        BY <2>3, <3>2 DEF CommandSteps
      <4>2. a \in Seq(Step) /\ Len(a) = 1 /\ a[1] = <<"recover", named>>
        BY <2>6, OneStep
      <4> HIDE DEF a, c
      <4> QED BY <2>0, <2>3, <2>5, <4>1, <4>2, StepBeforeFrame
    <3>3. CASE cmd \notin {"fail", "recover"}
      <4>1. c.todo = ProcessSteps
        BY <2>3, <3>3 DEF CommandSteps
      <4> HIDE DEF c
      <4> QED BY <2>5, <4>1, ProcessStepsFrame
    <3> QED BY <3>1, <3>2, <3>3
  <2>8. c \in CallRec
    BY <2>1, <2>3, <2>4, <2>7, NoCallIsACall DEF CallRec
  <2> HIDE DEF c
  <2> QED BY <2>0, <2>2, <2>7, <2>8, CallBegins
<1> QED BY <1>1, <1>2

\* The command clear.
LEMMA RioClientClearKeeps ==
    ASSUME Inv, RioClientClear
    PROVE  Inv'
<1> DEFINE c == [NoCall EXCEPT !.origin = "clear", !.req = "CLEAR",
                               !.todo = ProcessSteps]
<1>1. "worker" \in Thread
  BY DEF Thread
<1>2. c.todo = ProcessSteps /\ c.req = "CLEAR"
  BY NoCallIsACall DEF CallRec
<1>3. Named(c.req, c.port)
  BY <1>2 DEF Named, PortRequest
<1>4. c.todo \in Seq(Step) /\ Framing("worker", c)
  BY <1>2, <1>3, ProcessStepsFrame
<1>5. c \in CallRec
  BY <1>2, <1>4, NoCallIsACall, ZenonT(60) DEF CallRec, Origin, Request, Severity
<1>6. Begin("worker", c)
  BY DEF RioClientClear
<1> HIDE DEF c
<1> QED BY <1>1, <1>4, <1>5, <1>6, CallBegins

-----------------------------------------------------------------------------
(***************************************************************************)
(* The theorems.                                                           *)
(***************************************************************************)

\* Both threads start at rest, on the ring that row 01 has left.
LEMMA InitEstablishes == Init => Inv
<1> SUFFICES ASSUME Init PROVE Inv
  OBVIOUS
<1>1. PICK g \in StartConfig : ring = Unpaced(CreateRing(g))
  BY DEF Init
<1>2. g \in Config
  BY ThreadsAssumption DEF RingdConfig
<1> DEFINE r == CreateRing(g)
<1>3. r \in Ring /\ Configured(r) /\ r.state # "INIT" /\ r.blocked # Port
  BY <1>2, CreateRingSound DEF Sound, Parts, StateOfRetained
<1> HIDE DEF r
<1>4. ring = [r EXCEPT !.bursts_remain = 0]
  BY <1>1 DEF Unpaced, r
<1>5. Usable(ring) /\ ring.blocked # Port
  BY <1>3, <1>4 DEF Usable, Ring, Configured, RAPS_BURSTS
<1>6. raps_frame \in Buffer(ring)
  BY <1>5 DEF Init, Encoded, Buffer, Usable, Ring
<1>7. /\ call = [t \in Thread |-> NoCall] /\ made = [t \in Thread |-> 0]
      /\ alive = TRUE /\ row45 = FALSE
  BY DEF Init
<1>8. call \in [Thread -> CallRec] /\ \A t \in Thread : call[t] = NoCall
  BY <1>7, NoCallIsACall
<1>9. NoCall.todo = <<>>
  BY DEF NoCall
<1>10. \A t \in Thread : Shape(t, call[t], row45)
  BY <1>8, <1>9 DEF Shape, Steady
<1>11. Counting(call["loop"], ring.bursts_remain)
  BY <1>8, <1>9 DEF Counting, Thread
<1>12. made \in [Thread -> Nat] /\ \A t \in Thread : made[t] <= Calls[t]
  BY <1>7, ThreadsAssumption
<1> QED BY <1>5, <1>6, <1>7, <1>8, <1>10, <1>11, <1>12 DEF Inv, Opening

\* A step of either thread inside its call.
LEMMA RunsKeep ==
    ASSUME Inv, NEW t \in Thread, Runs(t)
    PROVE  Inv'
  BY FiltersKeep, RetainsKeep, EntersKeep, DeduplicatesKeep, RemembersKeep,
     SwitchesKeep, StoresKeep, AssignsKeep, HoldsKeep, EncodesKeep DEF Runs

\* A step of nobody.
LEMMA StutterKeeps == Inv /\ UNCHANGED vars => Inv'
  BY DEF Inv, vars, aside, Opening

\* Every step keeps the invariant.
LEMMA NextKeeps == Inv /\ [Next]_vars => Inv'
<1> SUFFICES ASSUME Inv, [Next]_vars PROVE Inv'
  OBVIOUS
<1>1. CASE Loop
  BY <1>1, PortCbKeeps, GuardTestKeeps, RingTimerCbKeeps, SendRapsCbKeeps, SendsKeep
  DEF Loop
<1>2. CASE Worker
  BY <1>2, RioClientKeeps, RioClientClearKeeps DEF Worker
<1>3. CASE \E t \in Thread : Runs(t)
  BY <1>3, RunsKeep
<1> QED BY <1>1, <1>2, <1>3, StutterKeeps DEF Next

\* However the steps of the two threads interleave, the lists of steps they have
\* still to do keep their shape, and both ports are blocked only while a thread
\* has yet to open one.
THEOREM ThreadsInductive == Spec => []Inv
  BY InitEstablishes, NextKeeps, PTL DEF Spec

\* The ring and the buffer stay in their types without a lock; in particular
\* bursts_remain, which send_raps_cb decrements in three steps that start_tx of the
\* other thread may part, never leaves 0 .. RAPS_BURSTS.
THEOREM ThreadsTypes == Spec => []TypeOK
<1>1. Inv => TypeOK
  <2> SUFFICES ASSUME Inv PROVE TypeOK
    OBVIOUS
  <2>1. ring \in Ring /\ alive \in BOOLEAN /\ raps_frame \in Buffer(ring)
    BY DEF Inv, Usable
  <2>2. \A t \in Thread : made[t] \in 0 .. Calls[t]
    BY ThreadsAssumption DEF Inv
  <2> QED BY <2>1, <2>2 DEF TypeOK, Buffer
<1> QED BY <1>1, ThreadsInductive, PTL

\* However many commands, messages and timers have raced, a node whose threads are at
\* rest is not cut off on both sides, unless row 45 of ring_fsm has been taken.
THEOREM RestingNodeIsNotIsolated == Spec => []RestIsNotIsolated
<1>1. Inv => RestIsNotIsolated
  BY DEF Inv, Opening, RestIsNotIsolated, AtRest, Busy, Opens
<1> QED BY <1>1, ThreadsInductive, PTL

-----------------------------------------------------------------------------
(***************************************************************************)
(* What the commands do to the ports.                                      *)
(***************************************************************************)

\* The steps of a command on port p: it blocks p and opens the other port.
CommandStep(p) ==
    {<<"block", p>>, <<"unblock", OtherPort(p)>>, <<"fail", p>>, <<"recover", p>>}
    \cup ({"blocked?"} \X {p} \X RapsRequest \X SUBSET Flag)
    \cup ({"differs?"} \X RapsRequest \X SUBSET Flag)
    \cup ({"start", "stop"} \X Timer)
    \cup ({"request"} \X RapsRequest)
    \cup ({"flags"} \X SUBSET Flag)
    \cup { <<name>> : name \in PlainStep }
    \cup FrameStep

\* What the worker has still to do keeps to the port that was named.
Commands(c) ==
    c.origin \in DOMAIN PortCommand =>
        /\ c.named \in Port /\ c.port = c.named
        /\ c.req = PortCommand[c.origin]
        /\ c.after = <<>>
        /\ c.todo \in Seq(CommandStep(c.named))

CommandInv == Commands(call["worker"])

\* Which port a step of a command names.
LEMMA CommandStepFields ==
    ASSUME NEW p \in Port, NEW s \in CommandStep(p)
    PROVE  /\ s[1] \in {"block", "fail", "recover", "blocked?"} => s[2] = p
           /\ s[1] = "unblock" => s[2] = OtherPort(p)
           /\ s[1] \notin {"nonfailed?", "any_blocked?"}
           /\ s[1] = "differs?" => s[2] \in RapsRequest /\ s[3] \in SUBSET Flag
           /\ s[1] = "blocked?" => s[3] \in RapsRequest /\ s[4] \in SUBSET Flag
  BY DEF CommandStep, PlainStep, FrameStep

\* The lists that the rows of a command are made of.
LEMMA CommandLists ==
    ASSUME NEW p \in Port, NEW S, S = CommandStep(p)
    PROVE  /\ <<>> \in Seq(S)
           /\ Block(p) \in Seq(S) /\ Unblock(OtherPort(p)) \in Seq(S)
           /\ \A timer \in Timer : Start(timer) \in Seq(S) /\ Stop(timer) \in Seq(S)
           /\ \A request \in RapsRequest, flags \in SUBSET Flag :
                  /\ TxStart(request, flags) \in Seq(S)
                  /\ Isolating(p, request, flags) \in Seq(S)
                  /\ BurstSteps(request, flags) \in Seq(S)
<1>1. \A s \in S : <<s>> \in Seq(S)
  OBVIOUS
<1>2. <<"block", p>> \in S /\ <<"unblock", OtherPort(p)>> \in S
  BY DEF CommandStep
<1>3. \A timer \in Timer : <<"start", timer>> \in S /\ <<"stop", timer>> \in S
  BY DEF CommandStep
<1>4. /\ <<"sending">> \in S /\ <<"burst">> \in S /\ <<"wipe">> \in S
      /\ <<"load_request">> \in S /\ <<"store_request">> \in S
      /\ <<"load_flags">> \in S /\ <<"store_flags">> \in S /\ <<"store_node_id">> \in S
  BY DEF CommandStep, PlainStep
<1>5. ASSUME NEW request \in RapsRequest, NEW flags \in SUBSET Flag
      PROVE  /\ TxStart(request, flags) \in Seq(S)
             /\ Isolating(p, request, flags) \in Seq(S)
             /\ BurstSteps(request, flags) \in Seq(S)
  <2>1. /\ <<"differs?", request, flags>> \in S
        /\ <<"blocked?", p, request, flags>> \in S
        /\ <<"request", request>> \in S /\ <<"flags", flags>> \in S
    BY DEF CommandStep
  <2>2. << <<"differs?", request, flags>>, <<"sending">> >> \in Seq(S)
    BY <1>4, <2>1
  <2>3. /\ << <<"request", request>>, <<"flags", flags>> >> \in Seq(S)
        /\ << <<"burst">> >> \in Seq(S)
    BY <1>4, <2>1
  <2>4. EncodeSteps \in Seq(S)
    BY <1>4 DEF EncodeSteps
  <2>5. \A a, b, c \in Seq(S) : a \o b \o c \in Seq(S)
    OBVIOUS
  <2> QED BY <1>1, <2>1, <2>2, <2>3, <2>4, <2>5 DEF TxStart, Isolating, BurstSteps
<1> QED BY <1>1, <1>2, <1>3, <1>5 DEF Block, Unblock, Start, Stop

\* The rows that a command may execute.
LEMMA CommandRows ==
    ASSUME NEW r \in Ring, r.state # "INIT", NEW p \in Port, NEW node,
           NEW cmd \in DOMAIN PortCommand
    PROVE  RowSteps(r, PortCommand[cmd], p, node).steps \in Seq(CommandStep(p))
<1> DEFINE S == CommandStep(p)
           req == PortCommand[cmd]
<1>1. req \in {"MS", "FS", "SF", "CLEAR_SF"}
  BY DEF PortCommand
<1>2. \A a, b \in Seq(S) : a \o b \in Seq(S)
  OBVIOUS
<1>3. /\ <<>> \in Seq(S)
      /\ \A timer \in Timer : Start(timer) \in Seq(S) /\ Stop(timer) \in Seq(S)
      /\ \A request \in RapsRequest :
             Isolating(p, request, {}) \in Seq(S) /\ TxStart(request, {}) \in Seq(S)
      /\ Block(p) \in Seq(S)
  <2>1. {} \in SUBSET Flag
    OBVIOUS
  <2> HIDE DEF S
  <2> QED BY <2>1, CommandLists DEF S
<1> HIDE DEF S, req
<1>4. OwnerStop(r) \in Seq(S)
  BY <1>2, <1>3 DEF OwnerStop, Timer
<1>5. Announcing(r, "wtr") \in Seq(S)
  <2>1. OwnerStart(r, "wtr") \in Seq(S)
    BY <1>3 DEF OwnerStart, Timer
  <2>2. Start("guard") \in Seq(S) /\ TxStart("NR", {}) \in Seq(S)
    BY <1>3 DEF Timer, RapsRequest
  <2> QED BY <1>2, <2>1, <2>2 DEF Announcing
<1>6. /\ Isolating(p, "FS", {}) \in Seq(S) /\ Isolating(p, "SF", {}) \in Seq(S)
      /\ Isolating(p, "MS", {}) \in Seq(S) /\ TxStart("FS", {}) \in Seq(S)
  BY <1>3 DEF RapsRequest
<1>7. /\ (Isolating(p, "FS", {}) \o OwnerStop(r)) \in Seq(S)
      /\ (Isolating(p, "SF", {}) \o OwnerStop(r)) \in Seq(S)
      /\ (OwnerStop(r) \o Isolating(p, "MS", {})) \in Seq(S)
      /\ (Block(p) \o TxStart("FS", {})) \in Seq(S)
  BY <1>2, <1>3, <1>4, <1>6
<1>8. IdleSteps(r, req, p, node).steps \in Seq(S)
  BY <1>1, <1>3, <1>6 DEF IdleSteps, Row, NoRow
<1>9. ProtectionSteps(r, req, p).steps \in Seq(S)
  BY <1>1, <1>3, <1>5, <1>6 DEF ProtectionSteps, Row, NoRow
<1>10. ManualSwitchSteps(r, req, p).steps \in Seq(S)
  BY <1>1, <1>3, <1>6 DEF ManualSwitchSteps, Row, NoRow
<1>11. ForcedSwitchSteps(r, req, p).steps \in Seq(S)
  BY <1>1, <1>3, <1>7 DEF ForcedSwitchSteps, Row, NoRow
<1>12. PendingSteps(r, req, p, node).steps \in Seq(S)
  BY <1>1, <1>3, <1>7 DEF PendingSteps, Row, NoRow
<1>13. r.state \in {"IDLE", "PROTECTION", "MANUAL_SWITCH", "FORCED_SWITCH", "PENDING"}
  BY DEF Ring, RingState
<1> QED BY <1>8, <1>9, <1>10, <1>11, <1>12, <1>13 DEF RowSteps, S, req

\* What a condition of a command puts in front of its list.
LEMMA CommandInserts ==
    ASSUME NEW r, NEW p \in Port, NEW s \in CommandStep(p), s[1] \in Condition
    PROVE  Inserted(r, s) \in Seq(CommandStep(p)) /\ ~Decides(r, s)
<1> DEFINE S == CommandStep(p)
<1>1. \A a, b, c \in Seq(S) : a \o b \in Seq(S) /\ a \o b \o c \in Seq(S)
  OBVIOUS
<1>2. s[1] \in {"blocked?", "differs?"}
  BY CommandStepFields DEF Condition
<1>3. CASE s[1] = "blocked?"
  <2>1. s[2] = p /\ s[3] \in RapsRequest /\ s[4] \in SUBSET Flag
        /\ s[4] \cup {"DNF"} \in SUBSET Flag
    BY <1>3, CommandStepFields DEF Flag
  <2>2. /\ TxStart(s[3], s[4]) \in Seq(S) /\ TxStart(s[3], s[4] \cup {"DNF"}) \in Seq(S)
        /\ Block(p) \in Seq(S) /\ Unblock(OtherPort(p)) \in Seq(S)
    BY <2>1, CommandLists
  <2>3. Inserted(r, s) = IsolateSteps(r, p, s[3], s[4]) /\ ~Decides(r, s)
    BY <1>3, <2>1 DEF Inserted, Decides
  <2> HIDE DEF S
  <2>4. IsolateSteps(r, p, s[3], s[4]) \in Seq(S)
    BY <1>1, <2>2 DEF IsolateSteps
  <2> QED BY <2>3, <2>4 DEF S
<1>4. CASE s[1] = "differs?"
  <2>1. s[2] \in RapsRequest /\ s[3] \in SUBSET Flag
    BY <1>4, CommandStepFields
  <2>2. BurstSteps(s[2], s[3]) \in Seq(S) /\ <<>> \in Seq(S)
    BY <2>1, CommandLists
  <2> QED BY <1>4, <2>2 DEF Inserted, Decides
<1> QED BY <1>2, <1>3, <1>4

\* The worker goes on with a list that keeps to the port.
LEMMA CommandGoesOn ==
    ASSUME Inv, CommandInv, NEW c \in CallRec, NEW todo, NEW r,
           Continue("worker", c, todo, r),
           c.origin = call["worker"].origin, c.named = call["worker"].named,
           c.port = call["worker"].port, c.req = call["worker"].req,
           c.after \in {call["worker"].after, <<>>},
           c.origin \in DOMAIN PortCommand => todo \in Seq(CommandStep(c.named))
    PROVE  CommandInv'
<1> DEFINE d == [c EXCEPT !.todo = todo]
<1>1. /\ d.origin = c.origin /\ d.named = c.named /\ d.port = c.port /\ d.req = c.req
      /\ d.after = c.after /\ d.todo = todo
  BY DEF CallRec
<1>2. call' = [call EXCEPT !["worker"] = IF todo = <<>> THEN NoCall ELSE d]
  BY DEF Continue
<1>3. call'["worker"] = IF todo = <<>> THEN NoCall ELSE d
  BY <1>2 DEF Inv, Thread
<1>4. NoCall.origin \notin DOMAIN PortCommand
  BY DEF NoCall, PortCommand
<1> HIDE DEF d
<1> QED BY <1>1, <1>3, <1>4 DEF CommandInv, Commands

\* The worker goes on with the tail of its list, or with a row's or a condition's steps
\* in front of it.
LEMMA CommandProceeds ==
    ASSUME Inv, CommandInv, Busy("worker"), NEW c \in CallRec, NEW a, NEW r,
           \/ Continue("worker", c, a \o RestOf("worker"), r)
           \/ a = <<>> /\ Continue("worker", c, RestOf("worker"), r),
           c.origin = call["worker"].origin, c.named = call["worker"].named,
           c.port = call["worker"].port, c.req = call["worker"].req,
           c.after = call["worker"].after,
           c.origin \in DOMAIN PortCommand => a \in Seq(CommandStep(c.named))
    PROVE  CommandInv'
<1> DEFINE S == CommandStep(c.named)
<1>1. ASSUME c.origin \in DOMAIN PortCommand
      PROVE  RestOf("worker") \in Seq(S) /\ a \o RestOf("worker") \in Seq(S)
  <2>1. call["worker"].todo \in Seq(S) /\ call["worker"].todo # <<>>
    BY <1>1 DEF CommandInv, Commands, Busy
  <2> HIDE DEF S
  <2>2. Tail(call["worker"].todo) \in Seq(S)
    BY <2>1
  <2>3. a \in Seq(S)
    BY <1>1 DEF S
  <2> QED BY <2>2, <2>3 DEF RestOf
<1>2. CASE Continue("worker", c, a \o RestOf("worker"), r)
  BY <1>1, <1>2, CommandGoesOn
<1>3. CASE Continue("worker", c, RestOf("worker"), r)
  BY <1>1, <1>3, CommandGoesOn
<1> QED BY <1>2, <1>3

\* A statement of the worker leaves it with a list that keeps to the port.
LEMMA CommandRuns ==
    ASSUME Inv, CommandInv, Runs("worker")
    PROVE  CommandInv'
<1> DEFINE t == "worker"
           c == call[t]
           s == Head(c.todo)
<1>1. c \in CallRec /\ ring \in Ring /\ ring.state # "INIT" /\ t \in Thread
  BY DEF Inv, Usable, Thread
<1>2. Busy(t)
  BY DEF Runs, Filters, Retains, Enters, Deduplicates, Remembers, Switches, Stores,
         Assigns, Holds, Encodes, At, AtOneOf
<1>3. ASSUME c.origin \in DOMAIN PortCommand
      PROVE  /\ s \in CommandStep(c.named) /\ c.named \in Port /\ c.port = c.named
             /\ c.req = PortCommand[c.origin] /\ c.after = <<>>
             /\ <<>> \in Seq(CommandStep(c.named))
  BY <1>2, <1>3 DEF CommandInv, Commands, Busy
<1>4. ASSUME NEW r, Advance(t, r)
      PROVE  CommandInv'
  <2>1. Continue("worker", c, RestOf("worker"), r)
    BY <1>4 DEF Advance
  <2> QED BY <1>1, <1>2, <1>3, <2>1, CommandProceeds
<1>5. ASSUME NEW r, Continue(t, [c EXCEPT !.after = <<>>], c.after, r)
      PROVE  CommandInv'
  <2> DEFINE d == [c EXCEPT !.after = <<>>]
  <2>1. Continue("worker", d, c.after, r)
    BY <1>5
  <2>2. /\ d \in CallRec /\ d.origin = c.origin /\ d.named = c.named /\ d.port = c.port
        /\ d.req = c.req /\ d.after = <<>>
    BY <1>1 DEF CallRec
  <2> HIDE DEF d
  <2> QED BY <1>3, <2>1, <2>2, CommandGoesOn
<1>6. ASSUME NEW d \in CallRec, NEW a, NEW r,
             Continue("worker", d, a \o RestOf("worker"), r),
             d.origin = c.origin, d.named = c.named, d.port = c.port, d.req = c.req,
             d.after = c.after,
             c.origin \in DOMAIN PortCommand => a \in Seq(CommandStep(c.named))
      PROVE  CommandInv'
  BY <1>2, <1>6, CommandProceeds
<1>7. ASSUME NEW d \in CallRec, NEW r, Continue("worker", d, RestOf("worker"), r),
             d.origin = c.origin, d.named = c.named, d.port = c.port, d.req = c.req,
             d.after = c.after
      PROVE  CommandInv'
  BY <1>2, <1>3, <1>7, CommandProceeds
<1>8. ASSUME NEW state \in RingState
      PROVE  LET d == [c EXCEPT !.new = state]
             IN  /\ d \in CallRec /\ d.origin = c.origin /\ d.named = c.named
                 /\ d.port = c.port /\ d.req = c.req /\ d.after = c.after
  BY <1>1, <1>8 DEF CallRec
<1>9. CASE Filters(t)
  BY <1>4, <1>5, <1>9 DEF Filters, Return
<1>10. CASE Retains(t)
  BY <1>4, <1>10 DEF Retains
<1>11. CASE Enters(t)
  <2>1. ring.state \in RingState
    BY <1>1 DEF Ring
  <2> QED BY <1>7, <1>8, <1>11, <2>1 DEF Enters
<1>12. CASE Deduplicates(t)
  <2>1. CASE Die
    BY <2>1 DEF Die, CommandInv
  <2>2. CASE ~Die
    BY <1>4, <1>5, <1>12, <2>2 DEF Deduplicates, Return
  <2> QED BY <2>1, <2>2
<1>13. CASE Remembers(t) \/ Assigns(t)
  BY <1>4, <1>13 DEF Remembers, Assigns
<1>14. CASE Switches(t)
  <2> DEFINE row == RowSteps(ring, c.req, c.port, c.node)
             d == IF row.new = "same" THEN c ELSE [c EXCEPT !.new = row.new]
  <2>1. Continue("worker", d, row.steps \o RestOf("worker"), ring)
    BY <1>14 DEF Switches
  <2>2. c.origin \in DOMAIN PortCommand => row.steps \in Seq(CommandStep(c.named))
    BY <1>1, <1>3, CommandRows
  <2>3. row.new \in NewState
    <3>1. Named(c.req, c.port)
      BY <1>1, <1>14, SwitchNames DEF Switches
    <3> QED BY <1>1, <3>1, RowsAreFine DEF FineRow, Inv, Usable, CallRec
  <2>4. row.new # "same" => row.new \in RingState
    BY <2>3 DEF NewState
  <2> HIDE DEF row
  <2>5. /\ d \in CallRec /\ d.origin = c.origin /\ d.named = c.named
        /\ d.port = c.port /\ d.req = c.req /\ d.after = c.after
    BY <1>1, <1>8, <2>4
  <2> HIDE DEF d
  <2> QED BY <1>6, <2>1, <2>2, <2>5
<1>15. CASE Stores(t)
  BY <1>5, <1>15 DEF Stores
<1>16. CASE Holds(t)
  <2> DEFINE d == IF Decides(ring, s) THEN [c EXCEPT !.new = s[2]] ELSE c
  <2>1. /\ s[1] \in Condition
        /\ Continue("worker", d, Inserted(ring, s) \o RestOf("worker"), ring)
    BY <1>16 DEF Holds, AtOneOf
  <2>2. s[1] = "any_blocked?" => s[2] = "PENDING"
    <3>1. s \in Step
      BY <1>1, <1>2, <2>1 DEF CallRec, Busy
    <3> QED BY <3>1, RowStepFields DEF Step, FrameStep, OtherStep
  <2>3. /\ d \in CallRec /\ d.origin = c.origin /\ d.named = c.named
        /\ d.port = c.port /\ d.req = c.req /\ d.after = c.after
    BY <1>1, <1>8, <2>2 DEF Decides, RingState
  <2>4. c.origin \in DOMAIN PortCommand => Inserted(ring, s) \in Seq(CommandStep(c.named))
    BY <1>3, <2>1, CommandInserts
  <2> HIDE DEF d
  <2> QED BY <1>6, <2>1, <2>3, <2>4
<1>17. CASE Encodes(t)
  <2>1. CASE \E r : Advance(t, r)
    BY <1>4, <2>1
  <2>2. ring.raps.request \in RapsRequest /\ ring.raps.flags \in SUBSET Flag
    BY <1>1 DEF Ring
  <2>3. ASSUME NEW reg \in LoadedRequest \cup LoadedFlags
        PROVE  LET d == [c EXCEPT !.reg = reg]
               IN  /\ d \in CallRec /\ d.origin = c.origin /\ d.named = c.named
                   /\ d.port = c.port /\ d.req = c.req /\ d.after = c.after
    BY <1>1, <2>3 DEF CallRec
  <2>4. <<ring.raps.request>> \in LoadedRequest /\ <<ring.raps.flags>> \in LoadedFlags
    BY <2>2 DEF LoadedRequest, LoadedFlags
  <2>5. CASE Continue(t, [c EXCEPT !.reg = <<ring.raps.request>>], RestOf(t), ring)
    BY <1>7, <2>3, <2>4, <2>5
  <2>6. CASE Continue(t, [c EXCEPT !.reg = <<ring.raps.flags>>], RestOf(t), ring)
    BY <1>7, <2>3, <2>4, <2>6
  <2> QED BY <1>17, <2>1, <2>5, <2>6 DEF Encodes
<1> QED BY <1>9, <1>10, <1>11, <1>12, <1>13, <1>14, <1>15, <1>16, <1>17 DEF Runs

\* A step inside a call goes on with that call or is the end of the process; nothing
\* but an assignment of a row blocks, opens or fails a port.
LEMMA RunsGoOn ==
    ASSUME Inv, NEW t \in Thread, Runs(t)
    PROVE  /\ \A u \in Thread \ {t} : call'[u] = call[u]
           /\ \/ Assigns(t)
              \/ ring'.blocked = ring.blocked /\ ring'.failed = ring.failed
<1>1. ring \in Ring /\ call \in [Thread -> CallRec]
  BY DEF Inv, Usable
<1>2. ASSUME NEW c, NEW todo, NEW r, Continue(t, c, todo, r)
      PROVE  ring' = r /\ \A u \in Thread \ {t} : call'[u] = call[u]
  BY <1>1, <1>2 DEF Continue
<1>3. ASSUME NEW c, NEW todo, Continue(t, c, todo, ring)
      PROVE  ring' = ring /\ \A u \in Thread \ {t} : call'[u] = call[u]
  BY <1>2, <1>3
<1>4. ASSUME NEW c, NEW todo, NEW value,
             \/ Continue(t, c, todo, [ring EXCEPT !.local_request = value])
             \/ Continue(t, c, todo, [ring EXCEPT !.prev = value])
      PROVE  /\ ring'.blocked = ring.blocked /\ ring'.failed = ring.failed
             /\ \A u \in Thread \ {t} : call'[u] = call[u]
  <2>1. PICK r : Continue(t, c, todo, r) /\ r.blocked = ring.blocked
                                        /\ r.failed = ring.failed
    BY <1>1, <1>4 DEF Ring
  <2> QED BY <1>2, <2>1
<1>9. CASE Filters(t)
  <2>1. CASE At(t, "filter?") \/ At(t, "severe?")
    <3>1. PICK c, todo : Continue(t, c, todo, ring)
      BY <1>9, <2>1 DEF Filters, Advance, Return, At
    <3> QED BY <1>3, <3>1
  <2>2. CASE At(t, "clear_sf")
    <3>1. Continue(t, call[t], RestOf(t),
                   [ring EXCEPT !.local_request = StandingRequest(ring, call[t].req)])
      BY <1>9, <2>2 DEF Filters, Advance, At
    <3> QED BY <1>4, <3>1
  <2> QED BY <1>9, <2>1, <2>2 DEF Filters
<1>10. CASE Retains(t)
  <2>1. PICK c, todo, value : \/ Continue(t, c, todo, ring)
                             \/ Continue(t, c, todo, [ring EXCEPT !.local_request = value])
    BY <1>10 DEF Retains, Advance
  <2> QED BY <1>3, <1>4, <2>1
<1>11. CASE Remembers(t)
  <2>1. PICK c, todo, value : Continue(t, c, todo, [ring EXCEPT !.prev = value])
    BY <1>11 DEF Remembers, Advance
  <2> QED BY <1>4, <2>1
<1>5. CASE Deduplicates(t)
  <2>1. CASE Die
    BY <2>1 DEF Die
  <2> QED BY <1>3, <1>5, <2>1 DEF Deduplicates, Advance, Return
<1>6. CASE Stores(t)
  <2>1. Enter(ring, call[t].new).blocked = ring.blocked
        /\ Enter(ring, call[t].new).failed = ring.failed
    BY <1>1 DEF Enter, Ring
  <2> QED BY <1>2, <1>6, <2>1 DEF Stores
<1>7. CASE Enters(t) \/ Switches(t) \/ Holds(t) \/ Encodes(t)
  BY <1>3, <1>7 DEF Enters, Switches, Holds, Encodes, Advance
<1>8. CASE Assigns(t)
  BY <1>2, <1>8 DEF Assigns, Advance
<1> QED BY <1>5, <1>6, <1>7, <1>8, <1>9, <1>10, <1>11 DEF Runs

\* The event loop leaves the worker's list alone.
LEMMA LoopLeavesTheWorker ==
    ASSUME Inv, Loop
    PROVE  call'["worker"] = call["worker"]
<1>1. call \in [Thread -> CallRec]
  BY DEF Inv
<1>2. ASSUME NEW c, NEW todo, NEW r, Continue("loop", c, todo, r)
      PROVE  call'["worker"] = call["worker"]
  BY <1>1, <1>2 DEF Continue, Thread
<1>3. ASSUME NEW c, Begin("loop", c)
      PROVE  call'["worker"] = call["worker"]
  BY <1>1, <1>3 DEF Begin, Thread
<1>4. CASE \E req \in RemoteRequest, node \in NodeId : PortCb(req, node)
  BY <1>3, <1>4 DEF PortCb
<1>5. CASE \E expired \in BOOLEAN : GuardTest(expired)
  BY <1>2, <1>5 DEF GuardTest, Advance, Return
<1>6. CASE RingTimerCb \/ SendRapsCb
  BY <1>3, <1>6 DEF RingTimerCb, SendRapsCb
<1>7. CASE Sends
  BY <1>2, <1>7 DEF Sends, Advance, Insert
<1> QED BY <1>4, <1>5, <1>6, <1>7 DEF Loop

\* The list a command begins with keeps to the port that it names.
LEMMA CommandBegins ==
    ASSUME Inv, Worker
    PROVE  CrashOnNullPort \/ CommandInv'
<1>1. call \in [Thread -> CallRec] /\ "worker" \in Thread
  BY DEF Inv, Thread
<1>2. ASSUME NEW c, Begin("worker", c)
      PROVE  call'["worker"] = c
  BY <1>1, <1>2 DEF Begin
<1>3. ASSUME NEW cmd \in DOMAIN PortCommand, NEW named \in Port, NEW stack \in Stack,
             RioClient(cmd, named, stack), ~CrashOnNullPort
      PROVE  CommandInv'
  <2> DEFINE port == PortOfParam(ParamOf(named, stack))
             c == [NoCall EXCEPT !.origin = cmd, !.req = PortCommand[cmd],
                                 !.named = named, !.port = port,
                                 !.todo = CommandSteps(cmd, port)]
  <2>1. port = named /\ Begin("worker", c)
    BY <1>3, ParamNamesPort DEF RioClient
  <2>2. /\ c.origin = cmd /\ c.req = PortCommand[cmd] /\ c.named = named
        /\ c.port = named /\ c.after = <<>> /\ c.todo = CommandSteps(cmd, named)
    BY <2>1 DEF NoCall
  <2> HIDE DEF c, port
  <2>3. CommandSteps(cmd, named) \in Seq(CommandStep(named))
    <3> DEFINE S == CommandStep(named)
    <3>1. FrameStep \subseteq S /\ <<"fail", named>> \in S /\ <<"recover", named>> \in S
      BY DEF CommandStep
    <3>2. { <<name>> : name \in {"filter?", "clear_sf", "severe?", "drop", "retain",
                                "enter", "dupe?", "remember", "switch", "store"} }
              \subseteq FrameStep
      BY DEF FrameStep
    <3> HIDE DEF S
    <3>3. ProcessSteps \in Seq(S)
      BY <3>1, <3>2 DEF ProcessSteps
    <3>4. << <<"fail", named>> >> \in Seq(S) /\ << <<"recover", named>> >> \in Seq(S)
      BY <3>1
    <3>5. \A a, b \in Seq(S) : a \o b \in Seq(S)
      OBVIOUS
    <3> QED BY <3>3, <3>4, <3>5 DEF CommandSteps, S
  <2> QED BY <1>2, <2>1, <2>2, <2>3 DEF CommandInv, Commands
<1>4. ASSUME RioClientClear
      PROVE  CommandInv'
  <2> DEFINE c == [NoCall EXCEPT !.origin = "clear", !.req = "CLEAR", !.todo = ProcessSteps]
  <2>1. Begin("worker", c) /\ c.origin = "clear"
    BY <1>4 DEF RioClientClear, NoCall
  <2> HIDE DEF c
  <2>2. call'["worker"].origin = "clear"
    BY <1>2, <2>1
  <2> QED BY <2>2 DEF CommandInv, Commands, PortCommand
<1> QED BY <1>3, <1>4 DEF Worker

\* Every step leaves the worker a list that keeps to the port.
LEMMA CommandNext == Inv /\ CommandInv /\ [Next]_vars => CommandInv'
<1> SUFFICES ASSUME Inv, CommandInv, [Next]_vars PROVE CommandInv'
  OBVIOUS
<1>1. ASSUME call'["worker"] = call["worker"] PROVE CommandInv'
  BY <1>1 DEF CommandInv
<1>2. CASE Loop
  BY <1>1, <1>2, LoopLeavesTheWorker
<1>3. CASE Worker
  <2>1. CASE CrashOnNullPort
    BY <1>1, <2>1 DEF CrashOnNullPort
  <2>2. CASE ~CrashOnNullPort
    BY <1>3, <2>2, CommandBegins
  <2> QED BY <2>1, <2>2
<1>4. CASE Runs("worker")
  BY <1>4, CommandRuns
<1>5. CASE Runs("loop")
  <2>1. call'["worker"] = call["worker"]
    BY <1>5, RunsGoOn DEF Thread
  <2> QED BY <1>1, <2>1
<1>6. CASE UNCHANGED vars
  BY <1>1, <1>6 DEF vars
<1> QED BY <1>2, <1>3, <1>4, <1>5, <1>6 DEF Next, Thread

\* An assignment of a command blocks no port but the named one, opens no port but the
\* other and fails no port but the named one.
LEMMA CommandAssigns ==
    ASSUME NEW r \in Ring, NEW p \in Port, NEW s \in CommandStep(p), s[1] \in Assignment
    PROVE  LET q == Assign(r, s)
           IN  /\ q.blocked \subseteq r.blocked \cup {p}
               /\ r.blocked \subseteq q.blocked \cup {OtherPort(p)}
               /\ (OtherPort(p) \in r.failed) = (OtherPort(p) \in q.failed)
<1>1. OtherPort(p) # p
  BY DEF OtherPort, Port
<1>2. /\ s[1] \in {"block", "fail", "recover"} => s[2] = p
      /\ s[1] = "unblock" => s[2] = OtherPort(p)
  BY CommandStepFields
<1>3. CASE s[1] \in {"block", "unblock", "fail", "recover"}
  BY <1>1, <1>2, <1>3 DEF Assign, BlockPort, UnblockPort, Ring
<1>4. CASE s[1] \in Assignment \ {"block", "unblock", "fail", "recover"}
  <2>1. Assign(r, s).blocked = r.blocked /\ Assign(r, s).failed = r.failed
    BY <1>4 DEF Assign, Assignment, StartTimer, StopTimers, StopTx, Ring
  <2> QED BY <2>1
<1> QED BY <1>3, <1>4

\* A step of the worker keeps to the port.
LEMMA CommandKeepsToPort ==
    ASSUME Inv, CommandInv, [Next]_vars,
           call["worker"].origin \in DOMAIN PortCommand,
           call'["worker"].todo # call["worker"].todo
    PROVE  LET named == call["worker"].named
               other == OtherPort(named)
           IN  /\ ring'.blocked \subseteq ring.blocked \cup {named}
               /\ ring.blocked \subseteq ring'.blocked \cup {other}
               /\ (other \in ring.failed) = (other \in ring'.failed)
<1> DEFINE c == call["worker"]
<1>1. ring \in Ring /\ "worker" \in Thread
  BY DEF Inv, Usable, Thread
<1>2. ASSUME ring'.blocked = ring.blocked, ring'.failed = ring.failed
      PROVE  LET named == call["worker"].named
                 other == OtherPort(named)
             IN  /\ ring'.blocked \subseteq ring.blocked \cup {named}
                 /\ ring.blocked \subseteq ring'.blocked \cup {other}
                 /\ (other \in ring.failed) = (other \in ring'.failed)
  BY <1>2
<1>3. CASE Worker
  <2>1. ring' = ring
    BY <1>3 DEF Worker, RioClient, RioClientClear, Begin, CrashOnNullPort
  <2> QED BY <1>2, <2>1
<1>4. CASE Runs("worker")
  <2>1. CASE Assigns("worker")
    <3> DEFINE s == Head(c.todo)
    <3>1. /\ c.named \in Port /\ c.todo # <<>> /\ c.todo \in Seq(CommandStep(c.named))
          /\ s[1] \in Assignment /\ ring' = Assign(ring, s)
      BY <2>1 DEF CommandInv, Commands, Assigns, AtOneOf, Busy, Advance, Continue
    <3>2. s \in CommandStep(c.named)
      <4> DEFINE S == CommandStep(c.named)
      <4>1. c.todo # <<>> /\ c.todo \in Seq(S)
        BY <3>1
      <4> HIDE DEF S
      <4> QED BY <4>1 DEF S
    <3> QED BY <1>1, <3>1, <3>2, CommandAssigns
  <2> QED BY <1>1, <1>2, <1>4, <2>1, RunsGoOn
<1>5. CASE Loop
  BY <1>5, LoopLeavesTheWorker
<1>6. CASE Runs("loop")
  <2>1. call'["worker"] = call["worker"]
    BY <1>6, RunsGoOn DEF Thread
  <2> QED BY <2>1
<1>7. CASE UNCHANGED vars
  BY <1>7 DEF vars
<1> QED BY <1>3, <1>4, <1>5, <1>6, <1>7 DEF Next, Thread

\* A port command acts on the port it names.  rio_client compares the whole param, of
\* which only the low byte was received, with the two codes: whatever the other bytes
\* are it finds the named port or none, and no row that the request may then execute,
\* in the states the event loop leaves behind meanwhile, blocks the other port, opens
\* the named one or changes the other's failed flag.
THEOREM CommandsKeepToTheirPort == Spec => CommandOnNamedPort
<1>1. Init => CommandInv
  BY DEF Init, CommandInv, Commands, NoCall, PortCommand, Thread
<1>2. Inv /\ CommandInv /\ [Next]_vars =>
         [LET named == call["worker"].named
              other == OtherPort(named)
          IN  call["worker"].origin \in DOMAIN PortCommand
                /\ call'["worker"].todo # call["worker"].todo =>
                  /\ ring'.blocked \subseteq ring.blocked \cup {named}
                  /\ ring.blocked \subseteq ring'.blocked \cup {other}
                  /\ (other \in ring.failed) = (other \in ring'.failed)]_vars
  BY CommandKeepsToPort
<1> QED BY <1>1, <1>2, CommandNext, ThreadsInductive, PTL DEF Spec, CommandOnNamedPort

=============================================================================
