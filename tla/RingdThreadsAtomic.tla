-------------------------- MODULE RingdThreadsAtomic --------------------------
(***************************************************************************)
(* The two threads of ringd and the same daemon in one step: a call that   *)
(* the other thread leaves alone does to the ring what Ringd says it does, *)
(* for every configuration, every number of nodes and any number of calls. *)
(*                                                                         *)
(* In three parts.  What a list of steps does when nothing comes between   *)
(* them, and that the list of every row comes to the row of RingFSM.       *)
(* Where an undisturbed call is, by what it has still to do.  And that     *)
(* every step of either thread keeps it there until it ends.               *)
(***************************************************************************)
EXTENDS RingdThreadsProofs

-----------------------------------------------------------------------------
(***************************************************************************)
(* What a list does when nothing comes between its steps.                  *)
(***************************************************************************)

\* What a row works on: the ring, with the state that will be stored in the end
\* in place of the state, the buffer and what has been loaded from the ring.
Unstored(r, new) == Enter(Unpaced(r), new)

\* The same memory with another ring.
With(m, r) == [ring |-> r, frame |-> m.frame, reg |-> m.reg]

\* A message, as start_tx is given it.
Message(request, flags) == [request |-> request, flags |-> flags]

\* start_tx up to the burst, and all of it.
Sent(m, request, flags) ==
    LET r == [m.ring EXCEPT !.raps = Message(request, flags)]
    IN  IF m.ring.raps = Message(request, flags) THEN m
        ELSE [ring |-> r, frame |-> Encoded(r), reg |-> <<flags>>]

\* ... and with the flag that lets send_raps_cb send.
Started(m, request, flags) ==
    LET k == Sent(m, request, flags)
    IN  With(k, [k.ring EXCEPT !.is_sending_raps = TRUE])

\* The ring once it announces a message.
Announced(r, message) == [r EXCEPT !.raps = message, !.is_sending_raps = TRUE]

\* What one step does, a condition with everything it puts in front of the list.
Do(m, s) ==
    LET r == m.ring
        f == m.frame
    IN  CASE s[1] \in {"block", "unblock", "start", "stop", "request", "flags",
                       "sending", "silent"} -> With(m, Assign(r, s))
          [] s[1] = "nonfailed?"    -> IF s[2] \in r.failed THEN m
                                       ELSE With(m, UnblockPort(r, s[2]))
          [] s[1] = "differs?"      -> Sent(m, s[2], s[3])
          [] s[1] = "blocked?"      ->
                 LET dnf == IF s[2] \in r.blocked THEN {"DNF"} ELSE {}
                     k   == Started(m, s[3], s[4] \cup dnf)
                 IN  With(k, [k.ring EXCEPT !.blocked = {s[2]}])
          [] s[1] = "any_blocked?"  ->
                 LET u == StartTimer(Enter(r, s[2]), "guard")
                     k == Started(With(m, u), "NR", {})
                 IN  IF r.blocked = {} THEN m ELSE With(k, OwnerStarts(k.ring, "wtb"))
          [] s[1] = "wipe"          ->
                 [ring |-> r, frame |-> [request |-> "NR", flags |-> {}, node_id |-> NoNode],
                  reg |-> m.reg]
          [] s[1] = "load_request"  ->
                 [ring |-> r, frame |-> f, reg |-> <<r.raps.request>>]
          [] s[1] = "store_request" ->
                 [ring |-> r, frame |-> [f EXCEPT !.request = m.reg[1]], reg |-> m.reg]
          [] s[1] = "load_flags"    ->
                 [ring |-> r, frame |-> f, reg |-> <<r.raps.flags>>]
          [] s[1] = "store_flags"   ->
                 [ring |-> r, frame |-> [f EXCEPT !.flags = m.reg[1]], reg |-> m.reg]
          [] s[1] = "store_node_id" ->
                 [ring |-> r, frame |-> [f EXCEPT !.node_id = r.node_id], reg |-> m.reg]
          [] OTHER                  -> m

\* A record of these three fields, with a ring.
IsMemory(m) == m.ring \in Ring /\ m = [ring |-> m.ring, frame |-> m.frame, reg |-> m.reg]

\* The list leads from memory m to memory n.
Leads(l, m, n) ==
    \E tr : /\ tr[0] = m /\ tr[Len(l)] = n
            /\ \A k \in 1 .. Len(l) : tr[k] = Do(tr[k - 1], l[k])

\* The empty list does nothing.
LEMMA LeadsNowhere ==
    ASSUME NEW m, NEW n
    PROVE  Leads(<<>>, m, n) <=> m = n
<1>1. Len(<<>>) = 0
  OBVIOUS
<1>2. Leads(<<>>, m, n) => m = n
  BY <1>1 DEF Leads
<1>3. ASSUME m = n PROVE Leads(<<>>, m, n)
  <2> DEFINE tr == [k \in 0 .. 0 |-> m]
  <2>1. /\ tr[0] = m /\ tr[Len(<<>>)] = n
        /\ \A k \in 1 .. Len(<<>>) : tr[k] = Do(tr[k - 1], <<>>[k])
    BY <1>1, <1>3
  <2> QED BY <2>1 DEF Leads
<1> QED BY <1>2, <1>3

\* A list of one step does what the step does.
LEMMA LeadsOne ==
    ASSUME NEW s, NEW m, NEW n
    PROVE  Leads(<<s>>, m, n) <=> n = Do(m, s)
<1>1. Len(<<s>>) = 1 /\ <<s>>[1] = s
  OBVIOUS
<1>2. Leads(<<s>>, m, n) => n = Do(m, s)
  <2> SUFFICES ASSUME NEW tr, tr[0] = m, tr[Len(<<s>>)] = n,
                      \A k \in 1 .. Len(<<s>>) : tr[k] = Do(tr[k - 1], <<s>>[k])
               PROVE  n = Do(m, s)
    BY DEF Leads
  <2>1. 1 \in 1 .. 1 /\ 1 - 1 = 0
    OBVIOUS
  <2> QED BY <1>1, <2>1
<1>3. ASSUME n = Do(m, s) PROVE Leads(<<s>>, m, n)
  <2> DEFINE tr == [k \in 0 .. 1 |-> IF k = 0 THEN m ELSE n]
  <2>1. tr[0] = m /\ tr[1] = n
    OBVIOUS
  <2>2. \A k \in 1 .. 1 : k = 1 /\ k - 1 = 0
    OBVIOUS
  <2> HIDE DEF tr
  <2>3. /\ tr[0] = m /\ tr[Len(<<s>>)] = n
        /\ \A k \in 1 .. Len(<<s>>) : tr[k] = Do(tr[k - 1], <<s>>[k])
    BY <1>1, <1>3, <2>1, <2>2
  <2> QED BY <2>3 DEF Leads
<1> QED BY <1>2, <1>3

\* Two lists one after the other.
LEMMA LeadsOn ==
    ASSUME NEW S, NEW a \in Seq(S), NEW b \in Seq(S), NEW m, NEW n, NEW o,
           Leads(a, m, n), Leads(b, n, o)
    PROVE  Leads(a \o b, m, o) /\ a \o b \in Seq(S)
<1> DEFINE l == a \o b
<1>1. /\ Len(a) \in Nat /\ Len(b) \in Nat /\ Len(l) = Len(a) + Len(b) /\ l \in Seq(S)
      /\ \A k \in 1 .. Len(a) : l[k] = a[k]
      /\ \A k \in Len(a) + 1 .. Len(l) : l[k] = b[k - Len(a)]
  OBVIOUS
<1> HIDE DEF l
<1>2. PICK ta : /\ ta[0] = m /\ ta[Len(a)] = n
                /\ \A k \in 1 .. Len(a) : ta[k] = Do(ta[k - 1], a[k])
  BY DEF Leads
<1>3. PICK tb : /\ tb[0] = n /\ tb[Len(b)] = o
                /\ \A k \in 1 .. Len(b) : tb[k] = Do(tb[k - 1], b[k])
  BY DEF Leads
<1> DEFINE tr == [k \in 0 .. Len(l) |-> IF k <= Len(a) THEN ta[k] ELSE tb[k - Len(a)]]
<1>4. /\ \A k \in 0 .. Len(a) : tr[k] = ta[k]
      /\ \A k \in Len(a) .. Len(l) : tr[k] = tb[k - Len(a)]
  <2>1. ASSUME NEW k \in 0 .. Len(a) PROVE tr[k] = ta[k]
    <3>1. k \in 0 .. Len(l) /\ k <= Len(a)
      BY <1>1
    <3> QED BY <3>1
  <2>2. ASSUME NEW k \in Len(a) .. Len(l) PROVE tr[k] = tb[k - Len(a)]
    <3>1. CASE k = Len(a)
      <4>1. k - Len(a) = 0 /\ k \in 0 .. Len(a)
        BY <1>1, <3>1
      <4> QED BY <1>2, <1>3, <2>1, <3>1, <4>1
    <3>2. CASE k # Len(a)
      <4>1. k \in 0 .. Len(l) /\ ~(k <= Len(a))
        BY <1>1, <3>2
      <4> QED BY <4>1
    <3> QED BY <3>1, <3>2
  <2> QED BY <2>1, <2>2
<1> HIDE DEF tr
<1>5. tr[0] = m
  <2>1. 0 \in 0 .. Len(a)
    BY <1>1
  <2> QED BY <1>2, <1>4, <2>1
<1>6. tr[Len(l)] = o
  <2>1. Len(l) \in Len(a) .. Len(l) /\ Len(l) - Len(a) = Len(b)
    BY <1>1
  <2> QED BY <1>3, <1>4, <2>1
<1>7. ASSUME NEW k \in 1 .. Len(l) PROVE tr[k] = Do(tr[k - 1], l[k])
  <2>1. CASE k <= Len(a)
    <3>1. k \in 1 .. Len(a) /\ k \in 0 .. Len(a) /\ k - 1 \in 0 .. Len(a)
      BY <1>1, <2>1
    <3> QED BY <1>1, <1>2, <1>4, <3>1
  <2>2. CASE ~(k <= Len(a))
    <3>1. /\ k \in Len(a) + 1 .. Len(l) /\ k \in Len(a) .. Len(l)
          /\ k - 1 \in Len(a) .. Len(l)
          /\ k - Len(a) \in 1 .. Len(b) /\ (k - 1) - Len(a) = (k - Len(a)) - 1
      BY <1>1, <2>2
    <3> QED BY <1>1, <1>3, <1>4, <3>1
  <2> QED BY <2>1, <2>2
<1>8. Leads(l, m, o) /\ l \in Seq(S)
  BY <1>1, <1>5, <1>6, <1>7 DEF Leads
<1> QED BY <1>8 DEF l

\* Once the first step is done, the rest of the list leads on to the same memory.
LEMMA LeadsTail ==
    ASSUME NEW S, NEW l \in Seq(S), l # <<>>, NEW m, NEW n, Leads(l, m, n)
    PROVE  Leads(Tail(l), Do(m, Head(l)), n)
<1> DEFINE b == Tail(l)
<1>1. /\ Len(l) \in Nat /\ Len(l) >= 1 /\ Len(b) = Len(l) - 1 /\ Head(l) = l[1]
      /\ \A k \in 1 .. Len(b) : b[k] = l[k + 1]
  OBVIOUS
<1> HIDE DEF b
<1>2. PICK tr : /\ tr[0] = m /\ tr[Len(l)] = n
                /\ \A k \in 1 .. Len(l) : tr[k] = Do(tr[k - 1], l[k])
  BY DEF Leads
<1> DEFINE tb == [k \in 0 .. Len(b) |-> tr[k + 1]]
<1>3. \A k \in 0 .. Len(b) : tb[k] = tr[k + 1]
  OBVIOUS
<1> HIDE DEF tb
<1>4. tb[0] = Do(m, Head(l))
  <2>1. 0 \in 0 .. Len(b) /\ 0 + 1 = 1 /\ 1 \in 1 .. Len(l) /\ 1 - 1 = 0
    BY <1>1
  <2>2. tr[1] = Do(tr[0], l[1])
    BY <1>2, <2>1
  <2> QED BY <1>1, <1>2, <1>3, <2>1, <2>2
<1>5. tb[Len(b)] = n
  <2>1. Len(b) \in 0 .. Len(b) /\ Len(b) + 1 = Len(l)
    BY <1>1
  <2> QED BY <1>2, <1>3, <2>1
<1>6. ASSUME NEW k \in 1 .. Len(b) PROVE tb[k] = Do(tb[k - 1], b[k])
  <2>1. /\ k \in 0 .. Len(b) /\ k - 1 \in 0 .. Len(b) /\ k + 1 \in 1 .. Len(l)
        /\ (k - 1) + 1 = (k + 1) - 1
    BY <1>1
  <2>2. tr[k + 1] = Do(tr[(k + 1) - 1], l[k + 1])
    BY <1>2, <2>1
  <2> QED BY <1>1, <1>3, <2>1, <2>2
<1> QED BY <1>4, <1>5, <1>6 DEF Leads, b

-----------------------------------------------------------------------------
\* A ring with the state that is to be stored, its pace left out, is a ring.
LEMMA UnstoredFields ==
    ASSUME NEW r \in Ring, NEW new \in RingState, NEW u, u = Unstored(r, new)
    PROVE  /\ u \in Ring /\ u.state = new /\ u.bursts_remain = 0
           /\ u.node_id = r.node_id /\ u.is_rpl_owner = r.is_rpl_owner
           /\ u.is_rpl_neighbour = r.is_rpl_neighbour /\ u.rpl_port = r.rpl_port
           /\ u.is_revertive = r.is_revertive /\ u.version = r.version
           /\ u.prev = r.prev /\ u.local_request = r.local_request
           /\ u.blocked = r.blocked /\ u.failed = r.failed /\ u.timers = r.timers
           /\ u.raps = r.raps /\ u.is_sending_raps = r.is_sending_raps
<1>1. u = [[r EXCEPT !.bursts_remain = 0] EXCEPT !.state = new]
  BY DEF Unstored, Enter, Unpaced
<1>2. 0 \in 0 .. RAPS_BURSTS
  BY DEF RAPS_BURSTS
<1> QED BY <1>1, <1>2 DEF Ring

\* Two rings are the same once the pace is left out.
LEMMA UnpacedAgree ==
    ASSUME NEW r \in Ring, NEW x \in Ring
    PROVE  Unpaced(x) = Unpaced(r) <=>
               /\ x.node_id = r.node_id /\ x.is_rpl_owner = r.is_rpl_owner
               /\ x.is_rpl_neighbour = r.is_rpl_neighbour /\ x.rpl_port = r.rpl_port
               /\ x.is_revertive = r.is_revertive /\ x.version = r.version
               /\ x.state = r.state /\ x.prev = r.prev
               /\ x.local_request = r.local_request
               /\ x.blocked = r.blocked /\ x.failed = r.failed /\ x.timers = r.timers
               /\ x.raps = r.raps /\ x.is_sending_raps = r.is_sending_raps
  BY DEF Unpaced, Ring

\* The assignments do not look at the state and the pace.
LEMMA AssignUnstored ==
    ASSUME NEW r \in Ring, NEW new \in RingState, NEW s \in RowStep, s[1] \in Assignment,
           s[1] # "burst"
    PROVE  Unstored(Assign(r, s), new) = Assign(Unstored(r, new), s)
<1>0. /\ s[1] \in {"block", "unblock", "start", "stop", "request", "flags", "sending",
                   "silent"}
  BY RowStepFields DEF Assignment, PlainStep
<1>1. CASE s[1] = "block"
  BY <1>1 DEF Assign, BlockPort, Unstored, Unpaced, Enter, Ring
<1>2. CASE s[1] = "unblock"
  BY <1>2 DEF Assign, UnblockPort, Unstored, Unpaced, Enter, Ring
<1>3. CASE s[1] = "start"
  BY <1>3, ZenonT(60) DEF Assign, StartTimer, Unstored, Unpaced, Enter, Ring
<1>4. CASE s[1] = "stop"
  BY <1>4, ZenonT(60) DEF Assign, StopTimers, Unstored, Unpaced, Enter, Ring
<1>5. CASE s[1] = "request"
  BY <1>5, ZenonT(60) DEF Assign, Unstored, Unpaced, Enter, Ring
<1>6. CASE s[1] = "flags"
  BY <1>6, ZenonT(60) DEF Assign, Unstored, Unpaced, Enter, Ring
<1>7. CASE s[1] = "sending"
  BY <1>7 DEF Assign, Unstored, Unpaced, Enter, Ring
<1>8. CASE s[1] = "silent"
  BY <1>8 DEF Assign, StopTx, Unstored, Unpaced, Enter, Ring
<1> QED BY <1>0, <1>1, <1>2, <1>3, <1>4, <1>5, <1>6, <1>7, <1>8

\* The assignment of the pace is none to the rest of the ring.
LEMMA BurstUnstored ==
    ASSUME NEW r \in Ring, NEW new \in RingState
    PROVE  Unstored(Assign(r, <<"burst">>), new) = Unstored(r, new)
<1>1. Assign(r, <<"burst">>) = [r EXCEPT !.bursts_remain = RAPS_BURSTS]
  BY DEF Assign
<1> QED BY <1>1 DEF Unstored, Unpaced, Enter, Ring

-----------------------------------------------------------------------------
(***************************************************************************)
(* A condition does what the steps it puts in front of the list do.        *)
(***************************************************************************)

\* Two lists of one step each.
LEMMA OneAndOne ==
    ASSUME NEW a \in Step, NEW b \in Step
    PROVE  <<a>> \o <<b>> = <<a, b>>
<1>1. <<a>> \in Seq(Step) /\ <<b>> \in Seq(Step) /\ <<a, b>> \in Seq(Step)
  OBVIOUS
<1>2. /\ <<a>> \o <<b>> \in Seq(Step)
      /\ Len(<<a>> \o <<b>>) = 2 /\ Len(<<a, b>>) = 2
  BY <1>1
<1>3. \A k \in 1 .. 2 : (<<a>> \o <<b>>)[k] = <<a, b>>[k]
  BY <1>1, <1>2
<1> QED BY <1>1, <1>2, <1>3, SeqEqual

\* A step and a list after it.
LEMMA LeadsTwo ==
    ASSUME NEW s \in Step, NEW l \in Seq(Step), NEW m, NEW n, Leads(l, Do(m, s), n)
    PROVE  Leads(<<s>> \o l, m, n)
<1>1. Leads(<<s>>, m, Do(m, s))
  BY LeadsOne
<1>2. <<s>> \in Seq(Step)
  OBVIOUS
<1> QED BY <1>1, <1>2, LeadsOn

\* What er_raps_encode has written in the end.
LEMMA EncodeLeads ==
    ASSUME NEW m, IsMemory(m)
    PROVE  Leads(EncodeSteps, m, [ring |-> m.ring, frame |-> Encoded(m.ring),
                                  reg |-> <<m.ring.raps.flags>>])
<1> DEFINE r  == m.ring
           f1 == [request |-> "NR", flags |-> {}, node_id |-> NoNode]
           f2 == [request |-> r.raps.request, flags |-> {}, node_id |-> NoNode]
           f3 == [request |-> r.raps.request, flags |-> r.raps.flags, node_id |-> NoNode]
           m1 == [ring |-> r, frame |-> f1, reg |-> m.reg]
           m2 == [ring |-> r, frame |-> f1, reg |-> <<r.raps.request>>]
           m3 == [ring |-> r, frame |-> f2, reg |-> <<r.raps.request>>]
           m4 == [ring |-> r, frame |-> f2, reg |-> <<r.raps.flags>>]
           m5 == [ring |-> r, frame |-> f3, reg |-> <<r.raps.flags>>]
           m6 == [ring |-> r, frame |-> Encoded(r), reg |-> <<r.raps.flags>>]
           tr == [k \in 0 .. 6 |-> IF k = 0 THEN m ELSE IF k = 1 THEN m1 ELSE
                     IF k = 2 THEN m2 ELSE IF k = 3 THEN m3 ELSE IF k = 4 THEN m4 ELSE
                     IF k = 5 THEN m5 ELSE m6]
<1>0. m.ring \in Ring /\ m = [ring |-> r, frame |-> m.frame, reg |-> m.reg]
  BY DEF IsMemory
<1>1. Do(m, <<"wipe">>) = m1
  BY <1>0 DEF Do
<1>2. Do(m1, <<"load_request">>) = m2
  BY DEF Do
<1>3. Do(m2, <<"store_request">>) = m3
  BY DEF Do
<1>4. Do(m3, <<"load_flags">>) = m4
  BY DEF Do
<1>5. Do(m4, <<"store_flags">>) = m5
  BY DEF Do
<1>6. Do(m5, <<"store_node_id">>) = m6
  BY DEF Do, Encoded
<1>7. /\ tr[0] = m /\ tr[1] = m1 /\ tr[2] = m2 /\ tr[3] = m3 /\ tr[4] = m4
      /\ tr[5] = m5 /\ tr[6] = m6
  <2> HIDE DEF m1, m2, m3, m4, m5, m6
  <2> QED OBVIOUS
<1> HIDE DEF tr, m1, m2, m3, m4, m5, m6
<1>8. /\ Len(EncodeSteps) = 6
      /\ EncodeSteps[1] = <<"wipe">> /\ EncodeSteps[2] = <<"load_request">>
      /\ EncodeSteps[3] = <<"store_request">> /\ EncodeSteps[4] = <<"load_flags">>
      /\ EncodeSteps[5] = <<"store_flags">> /\ EncodeSteps[6] = <<"store_node_id">>
  BY DEF EncodeSteps
<1>9. ASSUME NEW k \in 1 .. 6 PROVE tr[k] = Do(tr[k - 1], EncodeSteps[k])
  <2>1. k \in {1, 2, 3, 4, 5, 6}
    OBVIOUS
  <2>2. 1 - 1 = 0 /\ 2 - 1 = 1 /\ 3 - 1 = 2 /\ 4 - 1 = 3 /\ 5 - 1 = 4 /\ 6 - 1 = 5
    OBVIOUS
  <2> QED BY <1>1, <1>2, <1>3, <1>4, <1>5, <1>6, <1>7, <1>8, <2>1, <2>2
<1>10. Leads(EncodeSteps, m, m6)
  BY <1>7, <1>8, <1>9 DEF Leads
<1> QED BY <1>10 DEF m6

\* start_tx with a message that differs.
LEMMA BurstLeads ==
    ASSUME NEW m, IsMemory(m),
           NEW q \in RapsRequest, NEW f \in SUBSET Flag,
           m.ring.raps # Message(q, f)
    PROVE  Leads(BurstSteps(q, f), m, Sent(m, q, f))
<1> DEFINE r1 == [m.ring EXCEPT !.raps.request = q]
           r2 == [m.ring EXCEPT !.raps = [request |-> q, flags |-> f]]
           m1 == [ring |-> r1, frame |-> m.frame, reg |-> m.reg]
           m2 == [ring |-> r2, frame |-> m.frame, reg |-> m.reg]
           two == << <<"request", q>>, <<"flags", f>> >>
           one == << <<"burst">> >>
<1>0. m.ring \in Ring /\ m = [ring |-> m.ring, frame |-> m.frame, reg |-> m.reg]
  BY DEF IsMemory
<1>1. Do(m, <<"request", q>>) = m1
  BY <1>0 DEF Do, Assign, With
<1>2. Do(m1, <<"flags", f>>) = m2
  <2>1. [r1 EXCEPT !.raps.flags = f] = r2
    <3> DEFINE x == [m.ring.raps EXCEPT !.request = q]
               y == [request |-> q, flags |-> f]
    <3>1. m.ring.raps \in [request : RapsRequest, flags : SUBSET Flag]
      BY <1>0 DEF Ring
    <3>2. [x EXCEPT !.flags = f] = y
      <4>1. x = [request |-> q, flags |-> m.ring.raps.flags]
        BY <3>1
      <4> HIDE DEF x
      <4> QED BY <4>1
    <3>3. r1 = [m.ring EXCEPT !.raps = x]
      OBVIOUS
    <3> HIDE DEF x, y, r1
    <3>4. [r1 EXCEPT !.raps.flags = f] = [r1 EXCEPT !.raps = [x EXCEPT !.flags = f]]
      BY <1>0, <3>3 DEF Ring
    <3>5. [r1 EXCEPT !.raps = y] = [m.ring EXCEPT !.raps = y]
      BY <1>0, <3>3 DEF Ring
    <3> QED BY <3>2, <3>4, <3>5 DEF y
  <2>2. Do(m1, <<"flags", f>>) = With(m1, Assign(m1.ring, <<"flags", f>>))
    BY DEF Do
  <2>3. Assign(r1, <<"flags", f>>) = [r1 EXCEPT !.raps.flags = f]
    BY DEF Assign
  <2> HIDE DEF r1, r2
  <2> QED BY <2>1, <2>2, <2>3 DEF With
<1>3. r2 \in Ring /\ r2.raps = [request |-> q, flags |-> f]
  BY <1>0 DEF Ring
<1>4. Sent(m, q, f) = [ring |-> r2, frame |-> Encoded(r2), reg |-> <<f>>]
  BY DEF Sent, Message
<1>5. m2 = [ring |-> m2.ring, frame |-> m2.frame, reg |-> m2.reg] /\ m2.ring = r2
      /\ IsMemory(m2)
  BY <1>3 DEF IsMemory
<1> HIDE DEF r1, r2, m1, m2
<1>6. Leads(EncodeSteps, m2, Sent(m, q, f))
  <2>1. <<m2.ring.raps.flags>> = <<f>>
    BY <1>3, <1>5
  <2> QED BY <1>3, <1>4, <1>5, <2>1, EncodeLeads
<1>7. Leads(one, Sent(m, q, f), Sent(m, q, f))
  <2>1. Do(Sent(m, q, f), <<"burst">>) = Sent(m, q, f)
    BY DEF Do
  <2> QED BY <2>1, LeadsOne
<1>8. /\ <<"request", q>> \in Step /\ <<"flags", f>> \in Step /\ <<"burst">> \in Step
      /\ EncodeSteps \in Seq(Step)
  BY EncodeStepsAreFine DEF Fine, Good, Step, RowStep, PlainStep
<1>9. Leads(two, m, m2)
  <2>1. Leads(<< <<"flags", f>> >>, m1, m2)
    BY <1>2, LeadsOne
  <2>2. << <<"flags", f>> >> \in Seq(Step)
    BY <1>8
  <2>3. Leads(<< <<"request", q>> >> \o << <<"flags", f>> >>, m, m2)
    BY <1>1, <1>8, <2>1, <2>2, LeadsTwo
  <2> QED BY <1>8, <2>3, OneAndOne
<1>10. two \in Seq(Step) /\ one \in Seq(Step)
  BY <1>8
<1> HIDE DEF two, one
<1>11. Leads(two \o EncodeSteps, m, Sent(m, q, f)) /\ two \o EncodeSteps \in Seq(Step)
  BY <1>6, <1>8, <1>9, <1>10, LeadsOn
<1>12. Leads((two \o EncodeSteps) \o one, m, Sent(m, q, f))
  BY <1>7, <1>10, <1>11, LeadsOn
<1> QED BY <1>12 DEF BurstSteps, two, one

\* start_tx, in terms of what it finds and leaves.
LEMMA StartedFields ==
    ASSUME NEW m, IsMemory(m), NEW q \in RapsRequest, NEW f \in SUBSET Flag
    PROVE  LET k == Started(m, q, f)
               g == Message(q, f)
           IN  /\ IsMemory(k)
               /\ k.ring = Announced(m.ring, g)
               /\ m.ring.raps = g => k.frame = m.frame /\ k.reg = m.reg
               /\ m.ring.raps # g => k.frame = Encoded(k.ring) /\ k.reg = <<f>>
               /\ k.ring.raps = g
<1> SUFFICES ASSUME NEW k, k = Started(m, q, f), NEW g, g = Message(q, f)
             PROVE  /\ IsMemory(k)
                    /\ k.ring = Announced(m.ring, g)
                    /\ m.ring.raps = g => k.frame = m.frame /\ k.reg = m.reg
                    /\ m.ring.raps # g => k.frame = Encoded(k.ring) /\ k.reg = <<f>>
                    /\ k.ring.raps = g
       OBVIOUS
<1> DEFINE r == m.ring
           u == [r EXCEPT !.raps = g, !.is_sending_raps = TRUE]
<1>1. r \in Ring /\ m = [ring |-> r, frame |-> m.frame, reg |-> m.reg]
  BY DEF IsMemory
<1>2. g \in [request : RapsRequest, flags : SUBSET Flag]
  BY DEF Message
<1>3. u \in Ring /\ u.raps = g /\ u.node_id = r.node_id
  BY <1>1, <1>2 DEF Ring
<1>4. CASE r.raps = g
  <2>1. k = [ring |-> [r EXCEPT !.is_sending_raps = TRUE], frame |-> m.frame, reg |-> m.reg]
    BY <1>1, <1>4 DEF Started, Sent, With
  <2>2. [r EXCEPT !.is_sending_raps = TRUE] = u
    BY <1>1, <1>4 DEF Ring
  <2>3. k.ring = [r EXCEPT !.is_sending_raps = TRUE] /\ k.frame = m.frame /\ k.reg = m.reg
        /\ k = [ring |-> k.ring, frame |-> k.frame, reg |-> k.reg]
    BY <2>1
  <2> HIDE DEF u
  <2>4. k.ring = u
    BY <2>2, <2>3
  <2>5. IsMemory(k)
    BY <1>3, <2>3, <2>4 DEF IsMemory
  <2> QED BY <1>3, <1>4, <2>3, <2>4, <2>5 DEF u, Announced
<1>5. CASE r.raps # g
  <2> DEFINE v == [r EXCEPT !.raps = g]
  <2>1. Sent(m, q, f) = [ring |-> v, frame |-> Encoded(v), reg |-> <<f>>]
    BY <1>5 DEF Sent
  <2>2. [v EXCEPT !.is_sending_raps = TRUE] = u
    BY <1>1 DEF Ring
  <2>3. v.raps = u.raps /\ v.node_id = u.node_id
    BY <1>1 DEF Ring
  <2>4. Encoded(v) = Encoded(u)
    BY <2>3 DEF Encoded
  <2> HIDE DEF u, v
  <2>5. k = [ring |-> u, frame |-> Encoded(u), reg |-> <<f>>]
    <3>1. k = [ring |-> [v EXCEPT !.is_sending_raps = TRUE], frame |-> Encoded(v),
               reg |-> <<f>>]
      BY <2>1 DEF Started, With
    <3> QED BY <2>2, <2>4, <3>1
  <2>6. k.ring = u /\ k.frame = Encoded(u) /\ k.reg = <<f>> /\ IsMemory(k)
    BY <1>3, <2>5 DEF IsMemory
  <2> QED BY <1>3, <1>5, <2>6 DEF u, Announced
<1> QED BY <1>4, <1>5

\* The two steps of start_tx.
LEMMA TxLeads ==
    ASSUME NEW m, IsMemory(m), NEW q \in RapsRequest, NEW f \in SUBSET Flag
    PROVE  Leads(TxStart(q, f), m, Started(m, q, f)) /\ TxStart(q, f) \in Seq(Step)
<1> DEFINE s == <<"differs?", q, f>>
           z == <<"sending">>
<1>1. s \in Step /\ z \in Step
  BY DEF Step, RowStep, PlainStep
<1>2. Do(m, s) = Sent(m, q, f)
  BY DEF Do
<1>3. Do(Sent(m, q, f), z) = Started(m, q, f)
  BY DEF Do, Assign, Started, With
<1>4. <<s>> \o <<z>> = <<s, z>>
  BY <1>1, OneAndOne
<1> HIDE DEF s, z
<1>5. Leads(<<z>>, Do(m, s), Started(m, q, f)) /\ <<z>> \in Seq(Step)
  BY <1>1, <1>2, <1>3, LeadsOne
<1>6. Leads(<<s>> \o <<z>>, m, Started(m, q, f))
  BY <1>1, <1>5, LeadsTwo
<1>7. Leads(<<s, z>>, m, Started(m, q, f))
  BY <1>4, <1>6
<1>8. <<s, z>> \in Seq(Step)
  BY <1>1
<1> QED BY <1>7, <1>8 DEF TxStart, s, z

\* The fields of a memory whose ring is replaced.
LEMMA WithMemory ==
    ASSUME NEW m, IsMemory(m), NEW r \in Ring
    PROVE  /\ IsMemory(With(m, r)) /\ With(m, r).ring = r
           /\ With(m, r).frame = m.frame /\ With(m, r).reg = m.reg
           /\ With(m, m.ring) = m
  BY DEF With, IsMemory

\* A statement of a row.
LEMMA StatementLeads ==
    ASSUME NEW m, NEW s \in RowStep,
           s[1] \in {"block", "unblock", "start", "stop", "sending", "silent"}
    PROVE  Leads(<<s>>, m, With(m, Assign(m.ring, s))) /\ <<s>> \in Seq(Step)
<1>1. Do(m, s) = With(m, Assign(m.ring, s))
  BY DEF Do
<1>2. s \in Step
  BY DEF Step
<1> QED BY <1>1, <1>2, LeadsOne

\* blocked_port and the message are assigned in either order.
LEMMA BlockedLast ==
    ASSUME NEW r \in Ring, NEW a, NEW b, NEW g,
           NEW u, u = [[r EXCEPT !.blocked = a] EXCEPT !.raps = g, !.is_sending_raps = TRUE],
           NEW v, v = [r EXCEPT !.raps = g, !.is_sending_raps = TRUE]
    PROVE  [u EXCEPT !.blocked = b] = [v EXCEPT !.blocked = b]
  BY DEF Ring

\* The blocking of one port.
LEMMA IsolateLeads ==
    ASSUME NEW m, IsMemory(m), NEW p \in Port, NEW q \in RapsRequest, NEW f \in SUBSET Flag,
           NEW r, r.blocked = m.ring.blocked
    PROVE  Leads(IsolateSteps(r, p, q, f), m, Do(m, <<"blocked?", p, q, f>>))
<1> DEFINE o   == OtherPort(p)
           dnf == IF p \in m.ring.blocked THEN {"DNF"} ELSE {}
           k   == Started(m, q, f \cup dnf)
           u   == [k.ring EXCEPT !.blocked = {p}]
           g   == Message(q, f \cup dnf)
           out == Unblock(o)
<1>0. m.ring \in Ring /\ o \in Port /\ o # p /\ Port = {p, o}
  BY OtherPortType DEF IsMemory
<1>1. f \cup dnf \in SUBSET Flag
  BY DEF Flag
<1>2. Do(m, <<"blocked?", p, q, f>>) = With(k, u)
  BY DEF Do
<1> HIDE DEF dnf
<1>3. /\ IsMemory(k) /\ k.ring = Announced(m.ring, g)
      /\ m.ring.raps = g => k.frame = m.frame /\ k.reg = m.reg
      /\ m.ring.raps # g => k.frame = Encoded(k.ring) /\ k.reg = <<f \cup dnf>>
      /\ k.ring.raps = g
  BY <1>1, StartedFields, ZenonT(60)
<1>4. <<"block", p>> \in RowStep /\ <<"unblock", o>> \in RowStep
  BY <1>0 DEF RowStep
<1>5. ASSUME NEW n, IsMemory(n)
      PROVE  Leads(out, n, With(n, UnblockPort(n.ring, o))) /\ out \in Seq(Step)
  <2>1. Assign(n.ring, <<"unblock", o>>) = UnblockPort(n.ring, o)
    BY DEF Assign
  <2> QED BY <1>4, <2>1, StatementLeads DEF Unblock
<1> HIDE DEF o, k, out
<1>6. CASE p \in m.ring.blocked
  <2>1. Leads(TxStart(q, f \cup dnf), m, k) /\ TxStart(q, f \cup dnf) \in Seq(Step)
    BY <1>1, TxLeads DEF k
  <2>2. Leads(TxStart(q, f \cup dnf) \o out, m, With(k, UnblockPort(k.ring, o)))
    BY <1>3, <1>5, <2>1, LeadsOn
  <2>3. UnblockPort(k.ring, o) = u
    <3>1. k.ring.blocked = m.ring.blocked /\ m.ring.blocked \subseteq Port
      BY <1>0, <1>3 DEF Ring, Announced
    <3>2. k.ring.blocked \ {o} = {p}
      BY <1>0, <1>6, <3>1
    <3> QED BY <3>2 DEF UnblockPort
  <2>4. IsolateSteps(r, p, q, f) = TxStart(q, f \cup dnf) \o out
    BY <1>6 DEF IsolateSteps, out, o, dnf
  <2> QED BY <1>2, <2>2, <2>3, <2>4
<1>7. CASE p \notin m.ring.blocked
  <2> DEFINE m1 == With(m, BlockPort(m.ring, p))
             k1 == Started(m1, q, f)
             n  == With(k1, UnblockPort(k1.ring, o))
  <2>0. f \cup dnf = f
    BY <1>7 DEF dnf
  <2>g. g = Message(q, f)
    BY <2>0
  <2>1. BlockPort(m.ring, p) \in Ring
    BY <1>0 DEF BlockPort, Ring
  <2>2. IsMemory(m1) /\ m1.ring = BlockPort(m.ring, p) /\ m1.frame = m.frame
        /\ m1.reg = m.reg
    BY <2>1, WithMemory
  <2>3. Leads(Block(p), m, m1) /\ Block(p) \in Seq(Step)
    <3>1. Assign(m.ring, <<"block", p>>) = BlockPort(m.ring, p)
      BY DEF Assign
    <3> QED BY <1>4, <3>1, StatementLeads DEF Block
  <2> HIDE DEF m1, g
  <2>4. Leads(TxStart(q, f), m1, k1) /\ TxStart(q, f) \in Seq(Step)
    BY <2>2, TxLeads
  <2>5. /\ IsMemory(k1) /\ k1.ring = Announced(m1.ring, g)
        /\ m1.ring.raps = g => k1.frame = m1.frame /\ k1.reg = m1.reg
        /\ m1.ring.raps # g => k1.frame = Encoded(k1.ring) /\ k1.reg = <<f>>
        /\ k1.ring.raps = g
    BY <2>2, <2>g, StartedFields
  <2> HIDE DEF k1
  <2>6. Leads(Block(p) \o TxStart(q, f), m, k1)
        /\ Block(p) \o TxStart(q, f) \in Seq(Step)
    BY <2>3, <2>4, LeadsOn
  <2>7. Leads((Block(p) \o TxStart(q, f)) \o out, m, n)
    BY <1>5, <2>5, <2>6, LeadsOn
  <2>8. UnblockPort(k1.ring, o) = u
    <3>1. BlockPort(m.ring, p) = [m.ring EXCEPT !.blocked = @ \cup {p}]
      BY DEF BlockPort
    <3>2. k1.ring.blocked \ {o} = {p}
      <4>1. k1.ring.blocked = m.ring.blocked \cup {p} /\ m.ring.blocked \subseteq Port
        BY <1>0, <2>1, <2>2, <2>5, <3>1 DEF Ring, Announced
      <4> QED BY <1>0, <4>1
    <3>3. UnblockPort(k1.ring, o) = [k1.ring EXCEPT !.blocked = {p}]
      BY <3>2 DEF UnblockPort
    <3>4. k1.ring = [BlockPort(m.ring, p) EXCEPT !.raps = g, !.is_sending_raps = TRUE]
      BY <2>2, <2>5 DEF Announced
    <3>5. k.ring = [m.ring EXCEPT !.raps = g, !.is_sending_raps = TRUE]
      BY <1>3 DEF Announced
    <3>6. [k1.ring EXCEPT !.blocked = {p}] = [k.ring EXCEPT !.blocked = {p}]
      BY <1>0, <3>1, <3>4, <3>5, BlockedLast
    <3> QED BY <3>3, <3>6
  <2>9. k1.frame = k.frame /\ k1.reg = k.reg
    <3>1. m1.ring.raps = m.ring.raps /\ m1.ring.node_id = m.ring.node_id
      BY <1>0, <2>2 DEF BlockPort, Ring
    <3>2. k1.ring.node_id = k.ring.node_id
      BY <1>0, <1>3, <2>1, <2>2, <2>5, <3>1 DEF Ring, Announced
    <3>3. Encoded(k1.ring) = Encoded(k.ring)
      BY <1>3, <2>5, <3>2 DEF Encoded
    <3> QED BY <1>3, <2>0, <2>2, <2>5, <3>1, <3>3
  <2>10. n = With(k, u)
    BY <2>8, <2>9 DEF With
  <2>11. IsolateSteps(r, p, q, f) = (Block(p) \o TxStart(q, f)) \o out
    <3>1. IsolateSteps(r, p, q, f) = Block(p) \o TxStart(q, f) \o Unblock(OtherPort(p))
      BY <1>7 DEF IsolateSteps
    <3> QED BY <3>1 DEF out, o
  <2> HIDE DEF n
  <2> QED BY <1>2, <2>7, <2>10, <2>11
<1> QED BY <1>6, <1>7

\* What the owner does with its restore timers.
LEMMA OwnerStartLeads ==
    ASSUME NEW m, IsMemory(m), NEW timer \in Timer,
           NEW r, r.is_rpl_owner = m.ring.is_rpl_owner,
           r.is_revertive = m.ring.is_revertive
    PROVE  /\ Leads(OwnerStart(r, timer), m, With(m, OwnerStarts(m.ring, timer)))
           /\ OwnerStart(r, timer) \in Seq(Step)
<1>1. CASE r.is_rpl_owner /\ r.is_revertive
  <2>1. <<"start", timer>> \in RowStep
    BY DEF RowStep
  <2>2. Assign(m.ring, <<"start", timer>>) = StartTimer(m.ring, timer)
    BY DEF Assign
  <2>3. /\ Leads(Start(timer), m, With(m, StartTimer(m.ring, timer)))
        /\ Start(timer) \in Seq(Step)
    BY <2>1, <2>2, StatementLeads DEF Start
  <2> QED BY <1>1, <2>3 DEF OwnerStart, OwnerStarts
<1>2. CASE ~(r.is_rpl_owner /\ r.is_revertive)
  <2>1. OwnerStart(r, timer) = <<>> /\ OwnerStarts(m.ring, timer) = m.ring
    BY <1>2 DEF OwnerStart, OwnerStarts
  <2>2. With(m, m.ring) = m
    BY DEF With, IsMemory
  <2>3. <<>> \in Seq(Step)
    OBVIOUS
  <2> QED BY <2>1, <2>2, <2>3, LeadsNowhere
<1> QED BY <1>1, <1>2

\* The announcement of NR.
LEMMA AnnouncingLeads ==
    ASSUME NEW m, IsMemory(m), NEW timer \in Timer,
           NEW r, r.is_rpl_owner = m.ring.is_rpl_owner,
           r.is_revertive = m.ring.is_revertive,
           NEW k, k = Started(With(m, StartTimer(m.ring, "guard")), "NR", {})
    PROVE  /\ Leads(Announcing(r, timer), m, With(k, OwnerStarts(k.ring, timer)))
           /\ Announcing(r, timer) \in Seq(Step)
           /\ IsMemory(k)
<1> DEFINE m1 == With(m, StartTimer(m.ring, "guard"))
           g  == Message("NR", {})
<1>1. m.ring \in Ring /\ StartTimer(m.ring, "guard") \in Ring
  BY DEF IsMemory, StartTimer, Ring, Timer
<1>2. IsMemory(m1) /\ m1.ring = StartTimer(m.ring, "guard")
  BY <1>1, WithMemory
<1>3. Leads(Start("guard"), m, m1) /\ Start("guard") \in Seq(Step)
  <2>1. <<"start", "guard">> \in RowStep
    BY DEF RowStep, Timer
  <2>2. Assign(m.ring, <<"start", "guard">>) = StartTimer(m.ring, "guard")
    BY DEF Assign
  <2> QED BY <2>1, <2>2, StatementLeads DEF Start
<1>4. "NR" \in RapsRequest /\ {} \in SUBSET Flag /\ k = Started(m1, "NR", {})
  BY DEF RapsRequest
<1> HIDE DEF m1, g
<1>5. Leads(TxStart("NR", {}), m1, k) /\ TxStart("NR", {}) \in Seq(Step)
  BY <1>2, <1>4, TxLeads
<1>6. IsMemory(k) /\ k.ring = Announced(m1.ring, g)
  BY <1>2, <1>4, StartedFields DEF g
<1>7. k.ring.is_rpl_owner = m.ring.is_rpl_owner
      /\ k.ring.is_revertive = m.ring.is_revertive
  <2>1. k.ring = [m1.ring EXCEPT !.raps = g, !.is_sending_raps = TRUE]
    BY <1>6 DEF Announced
  <2>2. /\ m1.ring \in Ring /\ m1.ring.is_rpl_owner = m.ring.is_rpl_owner
        /\ m1.ring.is_revertive = m.ring.is_revertive
    BY <1>1, <1>2 DEF StartTimer, Ring
  <2> QED BY <2>1, <2>2 DEF Ring
<1>8. /\ Leads(OwnerStart(r, timer), k, With(k, OwnerStarts(k.ring, timer)))
      /\ OwnerStart(r, timer) \in Seq(Step)
  BY <1>6, <1>7, OwnerStartLeads
<1>9. Leads(TxStart("NR", {}) \o OwnerStart(r, timer), m1,
            With(k, OwnerStarts(k.ring, timer)))
      /\ TxStart("NR", {}) \o OwnerStart(r, timer) \in Seq(Step)
  BY <1>5, <1>8, LeadsOn
<1>10. Leads((Start("guard") \o TxStart("NR", {})) \o OwnerStart(r, timer), m,
            With(k, OwnerStarts(k.ring, timer)))
       /\ (Start("guard") \o TxStart("NR", {})) \o OwnerStart(r, timer) \in Seq(Step)
  <2>1. Leads(Start("guard") \o TxStart("NR", {}), m, k)
        /\ Start("guard") \o TxStart("NR", {}) \in Seq(Step)
    BY <1>3, <1>5, LeadsOn
  <2> QED BY <1>8, <2>1, LeadsOn
<1> QED BY <1>6, <1>10 DEF Announcing

-----------------------------------------------------------------------------
(***************************************************************************)
(* What a list of statements makes of a ring, compared with the operators  *)
(* of RingFSM.                                                             *)
(***************************************************************************)

\* The fields that no statement of a row changes.
Based(s, r) == /\ Kept(s, r) /\ s.node_id = r.node_id
               /\ s.is_revertive = r.is_revertive /\ s.state = r.state

\* List l makes ring s of ring r, whichever state will be stored afterwards; what it
\* announces is in the buffer.
Gives(l, r, s, new) ==
    /\ l \in Seq(Step) /\ r \in Ring /\ s \in Ring /\ Based(s, r)
    /\ \A m : IsMemory(m) /\ m.ring = Unstored(r, new) =>
           \E n : /\ Leads(l, m, n) /\ IsMemory(n) /\ n.ring = Unstored(s, new)
                  /\ \/ n.frame = m.frame /\ s.raps = r.raps
                     \/ n.frame = Encoded(s)

\* Fields that two lists leave alone, both together leave alone.
LEMMA BasedOn ==
    ASSUME NEW r, NEW s, NEW u, Based(s, r), Based(u, s)
    PROVE  Based(u, r)
  BY DEF Based, Kept

\* The empty list gives the ring it finds.
LEMMA GivesNothing ==
    ASSUME NEW r \in Ring, NEW new
    PROVE  Gives(<<>>, r, r, new)
<1>1. \A m : Leads(<<>>, m, m)
  BY LeadsNowhere
<1>2. <<>> \in Seq(Step)
  OBVIOUS
<1> QED BY <1>1, <1>2 DEF Gives, Based, Kept

\* Lists one after the other give what the second makes of what the first gives.
LEMMA GivesOn ==
    ASSUME NEW a, NEW b, NEW r, NEW s, NEW u, NEW new,
           Gives(a, r, s, new), Gives(b, s, u, new)
    PROVE  Gives(a \o b, r, u, new)
<1>1. /\ a \in Seq(Step) /\ b \in Seq(Step) /\ r \in Ring /\ s \in Ring /\ u \in Ring
      /\ Based(s, r) /\ Based(u, s)
  BY DEF Gives
<1>2. Based(u, r) /\ a \o b \in Seq(Step)
  BY <1>1, BasedOn
<1>3. ASSUME NEW m, IsMemory(m), m.ring = Unstored(r, new)
      PROVE  \E n : /\ Leads(a \o b, m, n) /\ IsMemory(n) /\ n.ring = Unstored(u, new)
                    /\ \/ n.frame = m.frame /\ u.raps = r.raps
                       \/ n.frame = Encoded(u)
  <2>1. PICK k : /\ Leads(a, m, k) /\ IsMemory(k) /\ k.ring = Unstored(s, new)
                 /\ \/ k.frame = m.frame /\ s.raps = r.raps
                    \/ k.frame = Encoded(s)
    BY <1>3 DEF Gives
  <2>2. PICK n : /\ Leads(b, k, n) /\ IsMemory(n) /\ n.ring = Unstored(u, new)
                 /\ \/ n.frame = k.frame /\ u.raps = s.raps
                    \/ n.frame = Encoded(u)
    BY <2>1 DEF Gives
  <2>3. Leads(a \o b, m, n)
    BY <1>1, <2>1, <2>2, LeadsOn
  <2>4. u.raps = s.raps => Encoded(u) = Encoded(s)
    BY <1>1 DEF Encoded, Based
  <2> QED BY <2>1, <2>2, <2>3, <2>4
<1> QED BY <1>1, <1>2, <1>3 DEF Gives

\* One statement of a row gives the ring that Assign makes, the buffer left alone.
LEMMA GivesOneStatement ==
    ASSUME NEW r \in Ring, NEW new \in RingState, NEW x \in RowStep,
           x[1] \in {"block", "unblock", "start", "stop", "sending", "silent"},
           NEW u, u = Assign(r, x)
    PROVE  Gives(<<x>>, r, u, new) /\ u.raps = r.raps
<1>0. /\ x[1] \in {"block", "unblock"} => x[2] \in Port
      /\ x[1] \in {"start", "stop"} => x[2] \in Timer
  BY RowStepFields
<1>1. u \in Ring /\ Based(u, r) /\ u.raps = r.raps
  <2>1. CASE x[1] = "block"
    <3>1. u = [r EXCEPT !.blocked = @ \cup {x[2]}]
      BY <2>1 DEF Assign, BlockPort
    <3> QED BY <1>0, <2>1, <3>1 DEF Based, Kept, Ring
  <2>2. CASE x[1] = "unblock"
    <3>1. u = [r EXCEPT !.blocked = @ \ {x[2]}]
      BY <2>2 DEF Assign, UnblockPort
    <3> QED BY <1>0, <2>2, <3>1 DEF Based, Kept, Ring
  <2>3. CASE x[1] = "start"
    <3>1. u = [r EXCEPT !.timers = @ \cup {x[2]}]
      BY <2>3 DEF Assign, StartTimer
    <3> QED BY <1>0, <2>3, <3>1 DEF Based, Kept, Ring
  <2>4. CASE x[1] = "stop"
    <3>1. u = [r EXCEPT !.timers = @ \ {x[2]}]
      BY <2>4 DEF Assign, StopTimers
    <3> QED BY <1>0, <2>4, <3>1 DEF Based, Kept, Ring
  <2>5. CASE x[1] \in {"sending", "silent"}
    <3>1. \E b \in BOOLEAN : u = [r EXCEPT !.is_sending_raps = b]
      BY <2>5 DEF Assign, StopTx
    <3> QED BY <3>1 DEF Based, Kept, Ring
  <2> QED BY <2>1, <2>2, <2>3, <2>4, <2>5
<1>2. Assign(Unstored(r, new), x) = Unstored(u, new)
  BY AssignUnstored DEF Assignment
<1>3. Unstored(u, new) \in Ring
  BY <1>1, UnstoredFields
<1>4. ASSUME NEW m, IsMemory(m), m.ring = Unstored(r, new)
      PROVE  \E n : /\ Leads(<<x>>, m, n) /\ IsMemory(n) /\ n.ring = Unstored(u, new)
                    /\ \/ n.frame = m.frame /\ u.raps = r.raps
                       \/ n.frame = Encoded(u)
  <2>1. Leads(<<x>>, m, With(m, Unstored(u, new)))
    BY <1>2, <1>4, StatementLeads
  <2>2. LET n == With(m, Unstored(u, new))
        IN  IsMemory(n) /\ n.ring = Unstored(u, new) /\ n.frame = m.frame
    BY <1>3, <1>4, WithMemory
  <2> QED BY <1>1, <2>1, <2>2
<1>5. <<x>> \in Seq(Step)
  BY DEF Step
<1> QED BY <1>1, <1>4, <1>5 DEF Gives

\* The helpers that are one statement.
LEMMA GivesHelpers ==
    ASSUME NEW r \in Ring, NEW new \in RingState
    PROVE  /\ \A p \in Port : /\ Gives(Block(p), r, BlockPort(r, p), new)
                              /\ Gives(Unblock(p), r, UnblockPort(r, p), new)
           /\ \A timer \in Timer : /\ Gives(Start(timer), r, StartTimer(r, timer), new)
                                   /\ Gives(Stop(timer), r, StopTimers(r, {timer}), new)
           /\ Gives(TxStop, r, StopTx(r), new)
<1>1. /\ \A p \in Port : <<"block", p>> \in RowStep /\ <<"unblock", p>> \in RowStep
      /\ \A timer \in Timer : <<"start", timer>> \in RowStep /\ <<"stop", timer>> \in RowStep
      /\ <<"silent">> \in RowStep
  BY DEF RowStep, PlainStep
<1>2. ASSUME NEW p \in Port
      PROVE  /\ Gives(Block(p), r, BlockPort(r, p), new)
             /\ Gives(Unblock(p), r, UnblockPort(r, p), new)
  <2>1. /\ Assign(r, <<"block", p>>) = BlockPort(r, p)
        /\ Assign(r, <<"unblock", p>>) = UnblockPort(r, p)
    BY DEF Assign
  <2> QED BY <1>1, <2>1, GivesOneStatement DEF Block, Unblock
<1>3. ASSUME NEW timer \in Timer
      PROVE  /\ Gives(Start(timer), r, StartTimer(r, timer), new)
             /\ Gives(Stop(timer), r, StopTimers(r, {timer}), new)
  <2>1. /\ Assign(r, <<"start", timer>>) = StartTimer(r, timer)
        /\ Assign(r, <<"stop", timer>>) = StopTimers(r, {timer})
    BY DEF Assign
  <2> QED BY <1>1, <2>1, GivesOneStatement DEF Start, Stop
<1>4. Gives(TxStop, r, StopTx(r), new)
  <2>1. Assign(r, <<"silent">>) = StopTx(r)
    BY DEF Assign
  <2> QED BY <1>1, <2>1, GivesOneStatement DEF TxStop
<1> QED BY <1>2, <1>3, <1>4

\* A list that leads to Do of one condition.
LEMMA ConditionLeads ==
    ASSUME NEW x \in RowStep, NEW m
    PROVE  Leads(<<x>>, m, Do(m, x)) /\ <<x>> \in Seq(Step)
<1>1. Leads(<<x>>, m, Do(m, x))
  BY LeadsOne
<1>2. x \in Step
  BY DEF Step
<1>3. <<x>> \in Seq(Step)
  BY <1>2
<1> QED BY <1>1, <1>3

\* What start_tx makes of a ring.
LEMMA TxUnstored ==
    ASSUME NEW r \in Ring, NEW new \in RingState, NEW q \in RapsRequest,
           NEW f \in SUBSET Flag, NEW u, u = StartTx(r, q, f)
    PROVE  /\ u \in Ring /\ Based(u, r) /\ u.raps = Message(q, f) /\ u.blocked = r.blocked
           /\ Unstored(u, new) = Announced(Unstored(r, new), Message(q, f))
<1> DEFINE g == Message(q, f)
<1>1. g \in [request : RapsRequest, flags : SUBSET Flag] /\ RAPS_BURSTS \in 0 .. RAPS_BURSTS
  BY DEF Message, RAPS_BURSTS
<1>2. u = IF r.raps = g THEN [r EXCEPT !.is_sending_raps = TRUE]
          ELSE [r EXCEPT !.raps = g, !.bursts_remain = RAPS_BURSTS, !.is_sending_raps = TRUE]
  BY DEF StartTx, Message
<1> HIDE DEF g
<1>3. u \in Ring /\ Based(u, r) /\ u.raps = g /\ u.blocked = r.blocked
  <2>1. CASE r.raps = g
    <3>1. u = [r EXCEPT !.is_sending_raps = TRUE]
      BY <1>2, <2>1
    <3> QED BY <2>1, <3>1 DEF Ring, Based, Kept
  <2>2. CASE r.raps # g
    <3>1. u = [r EXCEPT !.raps = g, !.bursts_remain = RAPS_BURSTS, !.is_sending_raps = TRUE]
      BY <1>2, <2>2
    <3> QED BY <1>1, <3>1, ZenonT(60) DEF Ring, Based, Kept
  <2> QED BY <2>1, <2>2
<1>4. Unstored(u, new) = Announced(Unstored(r, new), g)
  <2>1. CASE r.raps = g
    <3>1. u = [r EXCEPT !.is_sending_raps = TRUE]
      BY <1>2, <2>1
    <3> QED BY <2>1, <3>1 DEF Ring, Unstored, Announced, Enter, Unpaced
  <2>2. CASE r.raps # g
    <3>1. u = [r EXCEPT !.raps = g, !.bursts_remain = RAPS_BURSTS, !.is_sending_raps = TRUE]
      BY <1>2, <2>2
    <3> QED BY <2>2, <3>1 DEF Ring, Unstored, Announced, Enter, Unpaced
  <2> QED BY <2>1, <2>2
<1> QED BY <1>3, <1>4 DEF g

\* start_tx.
LEMMA GivesTx ==
    ASSUME NEW r \in Ring, NEW new \in RingState, NEW q \in RapsRequest,
           NEW f \in SUBSET Flag
    PROVE  Gives(TxStart(q, f), r, StartTx(r, q, f), new)
<1> DEFINE u == StartTx(r, q, f)
           g == Message(q, f)
<1>1. /\ u \in Ring /\ Based(u, r) /\ u.raps = g
      /\ Unstored(u, new) = Announced(Unstored(r, new), g)
  BY TxUnstored
<1>2. Unstored(r, new).raps = r.raps
  BY UnstoredFields
<1>3. Unstored(u, new).raps = u.raps /\ Unstored(u, new).node_id = u.node_id
  BY <1>1, UnstoredFields
<1> HIDE DEF u
<1>4. TxStart(q, f) \in Seq(Step)
  <2>1. <<"differs?", q, f>> \in Step /\ <<"sending">> \in Step
    BY DEF Step, RowStep, PlainStep
  <2> QED BY <2>1 DEF TxStart
<1>5. ASSUME NEW m, IsMemory(m), m.ring = Unstored(r, new)
      PROVE  \E n : /\ Leads(TxStart(q, f), m, n) /\ IsMemory(n) /\ n.ring = Unstored(u, new)
                    /\ \/ n.frame = m.frame /\ u.raps = r.raps
                       \/ n.frame = Encoded(u)
  <2> DEFINE k == Started(m, q, f)
  <2>1. Leads(TxStart(q, f), m, k)
    BY <1>5, TxLeads
  <2>2. /\ IsMemory(k) /\ k.ring = Announced(m.ring, g)
        /\ m.ring.raps = g => k.frame = m.frame /\ k.reg = m.reg
        /\ m.ring.raps # g => k.frame = Encoded(k.ring) /\ k.reg = <<f>>
    BY <1>5, StartedFields
  <2> HIDE DEF k, g
  <2>3. k.ring = Unstored(u, new)
    BY <1>1, <1>5, <2>2
  <2>4. Encoded(k.ring) = Encoded(u)
    BY <1>3, <2>3 DEF Encoded
  <2> QED BY <1>1, <1>2, <1>5, <2>1, <2>2, <2>3, <2>4
<1> QED BY <1>1, <1>4, <1>5 DEF Gives, u

\* The blocking of one port.
LEMMA GivesIsolate ==
    ASSUME NEW r \in Ring, NEW new \in RingState, NEW p \in Port, NEW q \in RapsRequest,
           NEW f \in SUBSET Flag
    PROVE  Gives(Isolating(p, q, f), r, Isolate(r, p, q, f), new)
<1> DEFINE dnf == IF p \in r.blocked THEN {"DNF"} ELSE {}
           s   == StartTx(r, q, f \cup dnf)
           u   == Isolate(r, p, q, f)
           g   == Message(q, f \cup dnf)
           x   == <<"blocked?", p, q, f>>
<1>1. f \cup dnf \in SUBSET Flag
  BY DEF Flag
<1>2. u = UnblockPort(BlockPort(s, p), OtherPort(p))
  BY DEF Isolate
<1> HIDE DEF dnf
<1>3. /\ s \in Ring /\ Based(s, r) /\ s.raps = g
      /\ Unstored(s, new) = Announced(Unstored(r, new), g)
  BY <1>1, TxUnstored
<1>4. /\ Unstored(r, new).raps = r.raps /\ Unstored(r, new).blocked = r.blocked
      /\ Unstored(r, new) \in Ring
  BY UnstoredFields
<1> HIDE DEF s, u, g
<1>5. u = [s EXCEPT !.blocked = {p}]
  <2>1. OtherPort(p) \in Port /\ OtherPort(p) # p /\ Port = {p, OtherPort(p)}
    BY OtherPortType
  <2>2. s.blocked \subseteq Port
    BY <1>3 DEF Ring
  <2>3. (s.blocked \cup {p}) \ {OtherPort(p)} = {p}
    BY <2>1, <2>2
  <2>4. u = [[s EXCEPT !.blocked = s.blocked \cup {p}]
                EXCEPT !.blocked = [s EXCEPT !.blocked = s.blocked \cup {p}].blocked
                                      \ {OtherPort(p)}]
    BY <1>2 DEF UnblockPort, BlockPort
  <2>5. [s EXCEPT !.blocked = s.blocked \cup {p}].blocked = s.blocked \cup {p}
    BY <1>3 DEF Ring
  <2>6. u = [[s EXCEPT !.blocked = s.blocked \cup {p}] EXCEPT !.blocked = {p}]
    BY <2>3, <2>4, <2>5
  <2> QED BY <1>3, <2>6 DEF Ring
<1>6. u \in Ring /\ Based(u, r) /\ u.raps = s.raps /\ u.node_id = r.node_id
  BY <1>3, <1>5 DEF Ring, Based, Kept
<1>7. Unstored(u, new) = [Unstored(s, new) EXCEPT !.blocked = {p}]
  BY <1>3, <1>5 DEF Ring, Unstored, Enter, Unpaced
<1>8. Isolating(p, q, f) = <<x>> /\ x \in RowStep
  BY DEF Isolating, RowStep
<1>9. ASSUME NEW m, IsMemory(m), m.ring = Unstored(r, new)
      PROVE  \E n : /\ Leads(<<x>>, m, n) /\ IsMemory(n) /\ n.ring = Unstored(u, new)
                    /\ \/ n.frame = m.frame /\ u.raps = r.raps
                       \/ n.frame = Encoded(u)
  <2> DEFINE k == Started(m, q, f \cup dnf)
             n == With(k, [k.ring EXCEPT !.blocked = {p}])
  <2>1. Do(m, x) = n
    BY <1>4, <1>9 DEF Do, dnf
  <2>2. /\ IsMemory(k) /\ k.ring = Announced(m.ring, g)
        /\ m.ring.raps = g => k.frame = m.frame /\ k.reg = m.reg
        /\ m.ring.raps # g => k.frame = Encoded(k.ring) /\ k.reg = <<f \cup dnf>>
    BY <1>1, <1>9, StartedFields, ZenonT(60) DEF g
  <2>3. Leads(<<x>>, m, Do(m, x))
    BY <1>8, ConditionLeads
  <2> HIDE DEF k
  <2>4. k.ring = Unstored(s, new)
    BY <1>3, <1>9, <2>2
  <2>5. [k.ring EXCEPT !.blocked = {p}] = Unstored(u, new)
    BY <1>7, <2>4
  <2>6. Unstored(u, new) \in Ring
    BY <1>6, UnstoredFields
  <2>7. IsMemory(n) /\ n.ring = Unstored(u, new) /\ n.frame = k.frame
    <3>1. n = With(k, Unstored(u, new))
      BY <2>5
    <3> HIDE DEF n
    <3> QED BY <2>2, <2>6, <3>1, WithMemory
  <2>8. Encoded(k.ring) = Encoded(u)
    <3>1. k.ring.raps = s.raps /\ k.ring.node_id = s.node_id
      BY <1>3, <2>4, UnstoredFields
    <3>2. s.node_id = r.node_id
      BY <1>3 DEF Based
    <3> QED BY <1>6, <3>1, <3>2 DEF Encoded
  <2> HIDE DEF n
  <2>9. Leads(<<x>>, m, n)
    BY <2>1, <2>3
  <2> QED BY <1>3, <1>4, <1>6, <1>9, <2>2, <2>7, <2>8, <2>9
<1>10. <<x>> \in Seq(Step)
  BY <1>8, ConditionLeads
<1> HIDE DEF x
<1>11. Gives(<<x>>, r, u, new)
  BY <1>6, <1>9, <1>10 DEF Gives
<1> QED BY <1>8, <1>11 DEF u

\* Both ports opened, whatever their state.
LEMMA GivesUnblockBoth ==
    ASSUME NEW r \in Ring, NEW new \in RingState
    PROVE  Gives(UnblockBoth, r, UnblockPorts(r), new)
<1> DEFINE s == UnblockPort(r, "port0")
           u == UnblockPort(s, "port1")
<1>1. "port0" \in Port /\ "port1" \in Port /\ Port = {"port0", "port1"}
  BY DEF Port
<1>2. s = [r EXCEPT !.blocked = r.blocked \ {"port0"}] /\ s \in Ring
  BY DEF UnblockPort, Ring
<1>3. u = UnblockPorts(r)
  <2>1. s.blocked = r.blocked \ {"port0"} /\ r.blocked \subseteq Port
    BY <1>2 DEF Ring
  <2>2. s.blocked \ {"port1"} = {}
    BY <1>1, <2>1
  <2>3. u = [s EXCEPT !.blocked = {}]
    BY <2>2 DEF UnblockPort
  <2> HIDE DEF u
  <2> QED BY <1>2, <2>3 DEF UnblockPorts, Ring
<1>4. Gives(Unblock("port0"), r, s, new)
  BY <1>1, GivesHelpers
<1>5. Gives(Unblock("port1"), s, u, new)
  BY <1>1, <1>2, GivesHelpers
<1> HIDE DEF s, u
<1> QED BY <1>3, <1>4, <1>5, GivesOn DEF UnblockBoth

\* One port opened unless it has failed.
LEMMA GivesNonfailed ==
    ASSUME NEW r \in Ring, NEW new \in RingState, NEW p \in Port,
           NEW u, u = IF p \in r.failed THEN r ELSE UnblockPort(r, p)
    PROVE  Gives(<< <<"nonfailed?", p>> >>, r, u, new)
<1> DEFINE x == <<"nonfailed?", p>>
<1>1. u \in Ring /\ Based(u, r) /\ u.raps = r.raps
  <2>1. CASE p \in r.failed
    BY <2>1 DEF Based, Kept
  <2>2. CASE p \notin r.failed
    <3>1. u = [r EXCEPT !.blocked = r.blocked \ {p}]
      BY <2>2 DEF UnblockPort
    <3> QED BY <3>1 DEF Based, Kept, Ring
  <2> QED BY <2>1, <2>2
<1>2. x \in RowStep
  BY DEF RowStep
<1>3. Unstored(u, new) \in Ring /\ Unstored(r, new).failed = r.failed
  BY <1>1, UnstoredFields
<1>4. p \notin r.failed => UnblockPort(Unstored(r, new), p) = Unstored(u, new)
  <2> HAVE p \notin r.failed
  <2>1. u = [r EXCEPT !.blocked = r.blocked \ {p}]
    BY DEF UnblockPort
  <2> QED BY <2>1 DEF UnblockPort, Unstored, Enter, Unpaced, Ring
<1>5. ASSUME NEW m, IsMemory(m), m.ring = Unstored(r, new)
      PROVE  \E n : /\ Leads(<<x>>, m, n) /\ IsMemory(n) /\ n.ring = Unstored(u, new)
                    /\ \/ n.frame = m.frame /\ u.raps = r.raps
                       \/ n.frame = Encoded(u)
  <2> DEFINE n == With(m, Unstored(u, new))
  <2>1. Do(m, x) = IF p \in m.ring.failed THEN m ELSE With(m, UnblockPort(m.ring, p))
    BY DEF Do
  <2>2. p \in r.failed => Do(m, x) = n
    BY <1>3, <1>5, <2>1, WithMemory
  <2>3. p \notin r.failed => Do(m, x) = n
    BY <1>3, <1>4, <1>5, <2>1
  <2>4. IsMemory(n) /\ n.ring = Unstored(u, new) /\ n.frame = m.frame
    BY <1>3, <1>5, WithMemory
  <2>5. Leads(<<x>>, m, Do(m, x))
    BY <1>2, ConditionLeads
  <2> HIDE DEF n, x
  <2> QED BY <1>1, <2>2, <2>3, <2>4, <2>5
<1>6. <<x>> \in Seq(Step)
  BY <1>2, ConditionLeads
<1> HIDE DEF x
<1>7. Gives(<<x>>, r, u, new)
  BY <1>1, <1>5, <1>6 DEF Gives
<1> QED BY <1>7 DEF x

\* Both ports opened unless they have failed, and the node silent.
LEMMA GivesYielding ==
    ASSUME NEW r \in Ring, NEW new \in RingState
    PROVE  Gives(Yielding, r, StopTx(UnblockNonfailed(r)), new)
<1> DEFINE s == IF "port0" \in r.failed THEN r ELSE UnblockPort(r, "port0")
           u == IF "port1" \in s.failed THEN s ELSE UnblockPort(s, "port1")
<1>1. "port0" \in Port /\ "port1" \in Port /\ Port = {"port0", "port1"}
  BY DEF Port
<1>2. Gives(<< <<"nonfailed?", "port0">> >>, r, s, new)
  BY <1>1, GivesNonfailed
<1>3. s \in Ring
  BY <1>2 DEF Gives
<1>4. Gives(<< <<"nonfailed?", "port1">> >>, s, u, new)
  <2> HIDE DEF s
  <2> QED BY <1>1, <1>3, GivesNonfailed
<1>5. NonfailedBoth = << <<"nonfailed?", "port0">> >> \o << <<"nonfailed?", "port1">> >>
  <2>1. <<"nonfailed?", "port0">> \in Step /\ <<"nonfailed?", "port1">> \in Step
    BY <1>1 DEF Step, RowStep
  <2> QED BY <2>1, OneAndOne DEF NonfailedBoth
<1>6. u = UnblockNonfailed(r)
  <2>1. s = [r EXCEPT !.blocked = IF "port0" \in r.failed THEN r.blocked
                                  ELSE r.blocked \ {"port0"}]
    <3>1. CASE "port0" \in r.failed
      BY <3>1 DEF Ring
    <3>2. CASE "port0" \notin r.failed
      BY <3>2 DEF UnblockPort
    <3> QED BY <3>1, <3>2
  <2> HIDE DEF s
  <2>2. s.failed = r.failed
        /\ s.blocked = IF "port0" \in r.failed THEN r.blocked ELSE r.blocked \ {"port0"}
    BY <2>1 DEF Ring
  <2>3. u = [s EXCEPT !.blocked = IF "port1" \in r.failed THEN s.blocked
                                  ELSE s.blocked \ {"port1"}]
    <3>1. CASE "port1" \in r.failed
      BY <1>3, <2>2, <3>1 DEF Ring
    <3>2. CASE "port1" \notin r.failed
      BY <2>2, <3>2 DEF UnblockPort
    <3> QED BY <3>1, <3>2
  <2> HIDE DEF u
  <2>4. r.blocked \subseteq Port /\ r.failed \subseteq Port
    BY DEF Ring
  <2>5. (IF "port1" \in r.failed THEN s.blocked ELSE s.blocked \ {"port1"})
           = r.blocked \cap r.failed
    BY <1>1, <2>2, <2>4
  <2>6. u = [s EXCEPT !.blocked = r.blocked \cap r.failed]
    BY <2>3, <2>5
  <2>7. [s EXCEPT !.blocked = r.blocked \cap r.failed]
           = [r EXCEPT !.blocked = r.blocked \cap r.failed]
    BY <2>1 DEF Ring
  <2> QED BY <2>6, <2>7 DEF UnblockNonfailed
<1> HIDE DEF s, u
<1>7. Gives(NonfailedBoth, r, u, new)
  BY <1>2, <1>4, <1>5, GivesOn
<1>8. u \in Ring
  BY <1>7 DEF Gives
<1>9. Gives(TxStop, u, StopTx(u), new)
  BY <1>8, GivesHelpers
<1>10. Gives(NonfailedBoth \o TxStop, r, StopTx(u), new)
  BY <1>7, <1>9, GivesOn
<1> QED BY <1>6, <1>10 DEF Yielding

\* What the owner of the RPL does with its timers, and the announcement of NR.
LEMMA GivesOwner ==
    ASSUME NEW r \in Ring, NEW new \in RingState, NEW timer \in Timer,
           NEW x, x.is_rpl_owner = r.is_rpl_owner, x.is_revertive = r.is_revertive
    PROVE  /\ Gives(OwnerStop(x), r, OwnerStopsTimers(r), new)
           /\ Gives(OwnerStart(x, timer), r, OwnerStarts(r, timer), new)
           /\ Gives(Announcing(x, timer), r, AnnounceNR(r, timer), new)
<1>1. "wtr" \in Timer /\ "wtb" \in Timer /\ "guard" \in Timer
  BY DEF Timer
<1>2. Gives(OwnerStop(x), r, OwnerStopsTimers(r), new)
  <2>1. CASE r.is_rpl_owner
    <3> DEFINE s == StopTimers(r, {"wtr"})
               u == StopTimers(s, {"wtb"})
    <3>1. Gives(Stop("wtr"), r, s, new) /\ s \in Ring
      BY <1>1, GivesHelpers DEF Gives
    <3>2. Gives(Stop("wtb"), s, u, new)
      BY <1>1, <3>1, GivesHelpers
    <3>3. u = StopTimers(r, {"wtr", "wtb"})
      <4>1. s = [r EXCEPT !.timers = r.timers \ {"wtr"}]
        BY DEF StopTimers
      <4>2. s.timers = r.timers \ {"wtr"}
        BY <4>1 DEF Ring
      <4> HIDE DEF s
      <4>3. u = [s EXCEPT !.timers = r.timers \ {"wtr", "wtb"}]
        <5>1. s.timers \ {"wtb"} = r.timers \ {"wtr", "wtb"}
          BY <4>2
        <5> QED BY <5>1 DEF StopTimers
      <4> QED BY <4>1, <4>3 DEF StopTimers, Ring
    <3> HIDE DEF s, u
    <3>4. Gives(Stop("wtr") \o Stop("wtb"), r, u, new)
      BY <3>1, <3>2, GivesOn
    <3> QED BY <2>1, <3>3, <3>4 DEF OwnerStop, OwnerStopsTimers
  <2>2. CASE ~r.is_rpl_owner
    BY <2>2, GivesNothing DEF OwnerStop, OwnerStopsTimers
  <2> QED BY <2>1, <2>2
<1>3. ASSUME NEW s \in Ring, s.is_rpl_owner = r.is_rpl_owner,
             s.is_revertive = r.is_revertive
      PROVE  Gives(OwnerStart(x, timer), s, OwnerStarts(s, timer), new)
  <2>1. CASE r.is_rpl_owner /\ r.is_revertive
    BY <1>3, <2>1, GivesHelpers DEF OwnerStart, OwnerStarts
  <2>2. CASE ~(r.is_rpl_owner /\ r.is_revertive)
    BY <1>3, <2>2, GivesNothing DEF OwnerStart, OwnerStarts
  <2> QED BY <2>1, <2>2
<1>4. Gives(Announcing(x, timer), r, AnnounceNR(r, timer), new)
  <2> DEFINE s == StartTimer(r, "guard")
             u == StartTx(s, "NR", {})
  <2>1. Gives(Start("guard"), r, s, new) /\ s \in Ring /\ Based(s, r)
    BY <1>1, GivesHelpers DEF Gives
  <2>2. "NR" \in RapsRequest /\ {} \in SUBSET Flag
    BY DEF RapsRequest
  <2> HIDE DEF s
  <2>3. Gives(TxStart("NR", {}), s, u, new) /\ u \in Ring /\ Based(u, s)
    BY <2>1, <2>2, GivesTx DEF Gives
  <2> HIDE DEF u
  <2>4. u.is_rpl_owner = r.is_rpl_owner /\ u.is_revertive = r.is_revertive
    BY <2>1, <2>3 DEF Based, Kept
  <2>5. Gives(OwnerStart(x, timer), u, OwnerStarts(u, timer), new)
    BY <1>3, <2>3, <2>4
  <2>6. Gives(Start("guard") \o TxStart("NR", {}), r, u, new)
    BY <2>1, <2>3, GivesOn
  <2>7. Gives((Start("guard") \o TxStart("NR", {})) \o OwnerStart(x, timer), r,
              OwnerStarts(u, timer), new)
    BY <2>5, <2>6, GivesOn
  <2> QED BY <2>7 DEF Announcing, AnnounceNR, s, u
<1> QED BY <1>2, <1>3, <1>4

-----------------------------------------------------------------------------
(***************************************************************************)
(* Every row comes to the row of RingFSM.                                  *)
(***************************************************************************)

\* The state a row stores.
NewOf(row, r) == IF row.new = "same" THEN r.state ELSE row.new

\* The statements of a row and the state it stores make ring t of ring r.
RowGives(row, r, t) ==
    /\ NewOf(row, r) \in RingState /\ row.steps \in Seq(Step)
    /\ t \in Ring /\ t.node_id = r.node_id
    /\ \A m : IsMemory(m) /\ m.ring = Unstored(r, NewOf(row, r)) =>
           \E n : /\ Leads(row.steps, m, n) /\ IsMemory(n) /\ n.ring = Unpaced(t)
                  /\ \/ n.frame = m.frame /\ t.raps = r.raps
                     \/ n.frame = Encoded(t)

\* A ring that enters a state.
LEMMA EnterFields ==
    ASSUME NEW s \in Ring, NEW new \in RingState
    PROVE  /\ Enter(s, new) \in Ring /\ Enter(s, new).raps = s.raps
           /\ Enter(s, new).node_id = s.node_id
           /\ Enter(s, s.state) = s
           /\ Unpaced(Enter(s, new)) = Unstored(s, new)
           /\ OwnerStopsTimers(Enter(s, new)) = Enter(OwnerStopsTimers(s), new)
<1>1. /\ Enter(s, new) \in Ring /\ Enter(s, new).raps = s.raps
      /\ Enter(s, new).node_id = s.node_id
      /\ Enter(s, s.state) = s
      /\ Unpaced(Enter(s, new)) = Unstored(s, new)
      /\ Enter(s, new).is_rpl_owner = s.is_rpl_owner
  BY DEF Enter, Unpaced, Unstored, Ring
<1>2. OwnerStopsTimers(Enter(s, new)) = Enter(OwnerStopsTimers(s), new)
  <2>1. StopTimers(Enter(s, new), {"wtr", "wtb"}) = Enter(StopTimers(s, {"wtr", "wtb"}), new)
    BY DEF Enter, StopTimers, Ring
  <2> QED BY <1>1, <2>1 DEF OwnerStopsTimers
<1> QED BY <1>1, <1>2

\* A row with a new state.
LEMMA NewRowGives ==
    ASSUME NEW r, NEW new \in RingState, NEW l, NEW s, Gives(l, r, s, new)
    PROVE  RowGives(Row(new, l), r, Enter(s, new))
<1> DEFINE row == Row(new, l)
           t   == Enter(s, new)
<1>1. /\ l \in Seq(Step) /\ r \in Ring /\ s \in Ring /\ s.node_id = r.node_id
  BY DEF Gives, Based
<1>2. t \in Ring /\ t.raps = s.raps /\ t.node_id = r.node_id
      /\ Unpaced(t) = Unstored(s, new)
  BY <1>1, EnterFields
<1>3. new # "same" /\ row.new = new /\ row.steps = l
  BY DEF Row, RingState
<1>4. NewOf(row, r) = new
  BY <1>3 DEF NewOf
<1>5. Encoded(t) = Encoded(s)
  BY <1>1, <1>2 DEF Encoded
<1>6. ASSUME NEW m, IsMemory(m), m.ring = Unstored(r, new)
      PROVE  \E n : /\ Leads(l, m, n) /\ IsMemory(n) /\ n.ring = Unpaced(t)
                    /\ \/ n.frame = m.frame /\ t.raps = r.raps
                       \/ n.frame = Encoded(t)
  <2>1. PICK n : /\ Leads(l, m, n) /\ IsMemory(n) /\ n.ring = Unstored(s, new)
                 /\ \/ n.frame = m.frame /\ s.raps = r.raps
                    \/ n.frame = Encoded(s)
    BY <1>6 DEF Gives
  <2> HIDE DEF t
  <2> QED BY <1>2, <1>5, <2>1
<1> HIDE DEF row, t
<1>7. RowGives(row, r, t)
  BY <1>1, <1>2, <1>3, <1>4, <1>6 DEF RowGives
<1> QED BY <1>7 DEF row, t

\* A row that stays in the state.
LEMMA SameRowGives ==
    ASSUME NEW r, NEW l, NEW s, Gives(l, r, s, r.state)
    PROVE  RowGives(Row("same", l), r, s)
<1> DEFINE row == Row("same", l)
           new == r.state
<1>1. /\ l \in Seq(Step) /\ r \in Ring /\ s \in Ring /\ s.node_id = r.node_id
      /\ s.state = new
  BY DEF Gives, Based
<1>2. new \in RingState
  BY <1>1 DEF Ring
<1>3. Unpaced(s) = Unstored(s, new)
  BY <1>1, <1>2, EnterFields
<1>4. row.new = "same" /\ row.steps = l
  BY DEF Row
<1>5. NewOf(row, r) = new
  BY <1>4 DEF NewOf
<1>6. ASSUME NEW m, IsMemory(m), m.ring = Unstored(r, new)
      PROVE  \E n : /\ Leads(l, m, n) /\ IsMemory(n) /\ n.ring = Unpaced(s)
                    /\ \/ n.frame = m.frame /\ s.raps = r.raps
                       \/ n.frame = Encoded(s)
  BY <1>3, <1>6 DEF Gives
<1> HIDE DEF row, new
<1>7. RowGives(row, r, s)
  BY <1>1, <1>2, <1>4, <1>5, <1>6 DEF RowGives
<1> QED BY <1>7 DEF row

\* The condition that looks for a blocked port.
LEMMA AnyBlockedGives ==
    ASSUME NEW r \in Ring, NEW new \in RingState
    PROVE  RowGives(Row(new, << <<"any_blocked?", "PENDING">> >>), r,
                    IF r.blocked = {} THEN Enter(r, new)
                                      ELSE Enter(AnnounceNR(r, "wtb"), "PENDING"))
<1> DEFINE x   == <<"any_blocked?", "PENDING">>
           row == Row(new, <<x>>)
           p   == "PENDING"
           s   == StartTimer(r, "guard")
           u   == StartTx(s, "NR", {})
           v   == OwnerStarts(u, "wtb")
           t   == IF r.blocked = {} THEN Enter(r, new) ELSE Enter(v, p)
           g   == Message("NR", {})
<1>0. /\ "NR" \in RapsRequest /\ {} \in SUBSET Flag /\ p \in RingState
      /\ "guard" \in Timer /\ "wtb" \in Timer
  BY DEF RapsRequest, RingState, Timer
<1>1. x \in RowStep
  BY DEF RowStep
<1>2. <<x>> \in Seq(Step)
  BY <1>1, ConditionLeads
<1>3. new # "same" /\ row.new = new /\ row.steps = <<x>>
  BY DEF Row, RingState
<1>4. NewOf(row, r) = new
  BY <1>3 DEF NewOf
<1>5. /\ s \in Ring /\ s.node_id = r.node_id
      /\ Unstored(s, p) = StartTimer(Unstored(r, p), "guard")
      /\ s.raps = r.raps
  BY <1>0 DEF StartTimer, Unstored, Enter, Unpaced, Ring
<1> HIDE DEF s
<1>6. /\ u \in Ring /\ Based(u, s) /\ u.raps = g
      /\ Unstored(u, p) = Announced(Unstored(s, p), g)
  BY <1>0, <1>5, TxUnstored
<1>7. u.node_id = r.node_id
  BY <1>5, <1>6 DEF Based
<1> HIDE DEF u, g
<1>8. /\ v \in Ring /\ v.node_id = r.node_id /\ v.raps = g
      /\ Unstored(v, p) = OwnerStarts(Unstored(u, p), "wtb")
  <2>1. Unstored(u, p).is_rpl_owner = u.is_rpl_owner
        /\ Unstored(u, p).is_revertive = u.is_revertive
    BY <1>0, <1>6, UnstoredFields
  <2>2. CASE u.is_rpl_owner /\ u.is_revertive
    <3>1. v = StartTimer(u, "wtb")
          /\ OwnerStarts(Unstored(u, p), "wtb") = StartTimer(Unstored(u, p), "wtb")
      BY <2>1, <2>2 DEF OwnerStarts
    <3>2. StartTimer(u, "wtb") \in Ring
      BY <1>0, <1>6 DEF StartTimer, Ring
    <3>3. StartTimer(u, "wtb").node_id = u.node_id /\ StartTimer(u, "wtb").raps = u.raps
      BY <1>6 DEF StartTimer, Ring
    <3>4. Unstored(StartTimer(u, "wtb"), p) = StartTimer(Unstored(u, p), "wtb")
      BY <1>6 DEF StartTimer, Unstored, Enter, Unpaced, Ring
    <3> QED BY <1>6, <1>7, <3>1, <3>2, <3>3, <3>4
  <2>3. CASE ~(u.is_rpl_owner /\ u.is_revertive)
    BY <1>6, <1>7, <2>1, <2>3 DEF OwnerStarts
  <2> QED BY <2>2, <2>3
<1> HIDE DEF v
<1>9. /\ Unstored(r, new) \in Ring /\ Unstored(r, new).blocked = r.blocked
      /\ Enter(Unstored(r, new), p) = Unstored(r, p)
      /\ Unstored(s, p) \in Ring /\ Unstored(s, p).raps = r.raps
  <2>1. Unstored(r, new) \in Ring /\ Unstored(r, new).blocked = r.blocked
    BY UnstoredFields
  <2>2. Enter(Unstored(r, new), p) = Unstored(r, p)
    BY DEF Enter, Unstored, Unpaced, Ring
  <2>3. Unstored(s, p) \in Ring /\ Unstored(s, p).raps = s.raps
    BY <1>0, <1>5, UnstoredFields
  <2> QED BY <1>5, <2>1, <2>2, <2>3
<1>10. /\ t \in Ring /\ t.node_id = r.node_id
       /\ r.blocked = {} => t.raps = r.raps /\ Unpaced(t) = Unstored(r, new)
       /\ r.blocked # {} => t.raps = g /\ Unpaced(t) = Unstored(v, p)
  BY <1>0, <1>8, EnterFields
<1>11. Unstored(v, p) \in Ring
  BY <1>0, <1>8, UnstoredFields
<1> HIDE DEF t
<1>12. ASSUME NEW m, IsMemory(m), m.ring = Unstored(r, new)
       PROVE  \E n : /\ Leads(<<x>>, m, n) /\ IsMemory(n) /\ n.ring = Unpaced(t)
                     /\ \/ n.frame = m.frame /\ t.raps = r.raps
                        \/ n.frame = Encoded(t)
  <2>1. Leads(<<x>>, m, Do(m, x))
    BY <1>1, ConditionLeads
  <2> DEFINE w == With(m, StartTimer(Enter(m.ring, p), "guard"))
             k == Started(w, "NR", {})
             n == With(k, OwnerStarts(k.ring, "wtb"))
  <2>2. Do(m, x) = IF m.ring.blocked = {} THEN m ELSE n
    BY DEF Do
  <2>3. CASE r.blocked = {}
    BY <1>9, <1>10, <1>12, <2>1, <2>2, <2>3
  <2>4. CASE r.blocked # {}
    <3>1. w = With(m, Unstored(s, p))
      BY <1>5, <1>9, <1>12
    <3>2. IsMemory(w) /\ w.ring = Unstored(s, p) /\ w.frame = m.frame
      <4> HIDE DEF w
      <4> QED BY <1>9, <1>12, <3>1, WithMemory
    <3> HIDE DEF w
    <3>3. /\ IsMemory(k) /\ k.ring = Announced(w.ring, g)
          /\ w.ring.raps = g => k.frame = w.frame /\ k.reg = w.reg
          /\ w.ring.raps # g => k.frame = Encoded(k.ring) /\ k.reg = <<{}>>
          /\ k.ring.raps = g
      BY <1>0, <3>2, StartedFields DEF g
    <3> HIDE DEF k
    <3>4. k.ring = Unstored(u, p)
      BY <1>6, <3>2, <3>3
    <3>5. n = With(k, Unstored(v, p))
      BY <1>8, <3>4
    <3>6. Do(m, x) = n
      BY <1>9, <1>12, <2>2, <2>4
    <3> HIDE DEF n
    <3>7. IsMemory(n) /\ n.ring = Unpaced(t) /\ n.frame = k.frame
      BY <1>10, <1>11, <2>4, <3>3, <3>5, WithMemory
    <3>8. Encoded(k.ring) = Encoded(t)
      <4>1. k.ring.node_id = u.node_id
        BY <1>0, <1>6, <3>4, UnstoredFields
      <4> QED BY <1>7, <1>10, <2>4, <3>3, <4>1 DEF Encoded
    <3>9. /\ \/ n.frame = m.frame /\ t.raps = r.raps
             \/ n.frame = Encoded(t)
      BY <1>9, <1>10, <2>4, <3>2, <3>3, <3>7, <3>8
    <3> QED BY <2>1, <3>6, <3>7, <3>9
  <2> QED BY <2>3, <2>4
<1> HIDE DEF row, x
<1>13. RowGives(row, r, t)
  BY <1>2, <1>3, <1>4, <1>10, <1>12 DEF RowGives
<1> QED BY <1>13 DEF row, t, v, u, s, x, AnnounceNR

\* The rows that more than one state has.
LEMMA CommonRowsGive ==
    ASSUME NEW r \in Ring
    PROVE  /\ \A port \in Port, q \in RapsRequest, new \in RingState :
                  RowGives(Row(new, Isolating(port, q, {})), r,
                           Enter(Isolate(r, port, q, {}), new))
           /\ \A new \in RingState : RowGives(Row(new, Yielding), r, YieldTo(r, new))
           /\ RowGives(Row("same", Yielding), r, YieldTo(r, r.state))
           /\ RowGives(Row("FORCED_SWITCH", UnblockBoth \o TxStop), r, YieldToForced(r))
           /\ \A timer \in Timer : RowGives(Row("PENDING", OwnerStart(r, timer)), r,
                                            Enter(OwnerStarts(r, timer), "PENDING"))
           /\ RowGives(NoRow, r, r)
           /\ RowGives(Row("PENDING", <<>>), r, Enter(r, "PENDING"))
<1>0. /\ {} \in SUBSET Flag /\ "PENDING" \in RingState /\ "FORCED_SWITCH" \in RingState
      /\ r.state \in RingState
  BY DEF RingState, Ring
<1>1. ASSUME NEW port \in Port, NEW q \in RapsRequest, NEW new \in RingState
      PROVE  RowGives(Row(new, Isolating(port, q, {})), r,
                      Enter(Isolate(r, port, q, {}), new))
  BY <1>0, GivesIsolate, NewRowGives
<1>2. ASSUME NEW new \in RingState
      PROVE  RowGives(Row(new, Yielding), r, YieldTo(r, new))
  BY GivesYielding, NewRowGives DEF YieldTo
<1>3. RowGives(Row("same", Yielding), r, YieldTo(r, r.state))
  <2> DEFINE s == StopTx(UnblockNonfailed(r))
  <2>1. Gives(Yielding, r, s, r.state)
    BY <1>0, GivesYielding
  <2>2. s \in Ring /\ s.state = r.state
    BY <2>1 DEF Gives, Based
  <2>3. YieldTo(r, r.state) = Enter(s, s.state)
    BY <2>2 DEF YieldTo
  <2> HIDE DEF s
  <2> QED BY <1>0, <2>1, <2>2, <2>3, EnterFields, SameRowGives
<1>4. RowGives(Row("FORCED_SWITCH", UnblockBoth \o TxStop), r, YieldToForced(r))
  <2> DEFINE s == UnblockPorts(r)
  <2>1. Gives(UnblockBoth, r, s, "FORCED_SWITCH") /\ s \in Ring
    BY <1>0, GivesUnblockBoth DEF Gives
  <2> HIDE DEF s
  <2>2. Gives(TxStop, s, StopTx(s), "FORCED_SWITCH")
    BY <1>0, <2>1, GivesHelpers
  <2>3. Gives(UnblockBoth \o TxStop, r, StopTx(s), "FORCED_SWITCH")
    BY <2>1, <2>2, GivesOn
  <2> QED BY <1>0, <2>3, NewRowGives DEF YieldToForced, s
<1>5. ASSUME NEW timer \in Timer
      PROVE  RowGives(Row("PENDING", OwnerStart(r, timer)), r,
                      Enter(OwnerStarts(r, timer), "PENDING"))
  BY <1>0, GivesOwner, NewRowGives
<1>6. RowGives(NoRow, r, r)
  BY GivesNothing, SameRowGives DEF NoRow
<1>7. RowGives(Row("PENDING", <<>>), r, Enter(r, "PENDING"))
  BY <1>0, GivesNothing, NewRowGives
<1> QED BY <1>1, <1>2, <1>3, <1>4, <1>5, <1>6, <1>7

\* Rows 02 to 15.
LEMMA IdleRowsGive ==
    ASSUME NEW r \in Ring, r.state = "IDLE", NEW req, NEW port, NEW node, Named(req, port)
    PROVE  RowGives(IdleSteps(r, req, port, node), r, IdleRows(r, req, port, node))
<1>0. /\ "FORCED_SWITCH" \in RingState /\ "PROTECTION" \in RingState
      /\ "MANUAL_SWITCH" \in RingState /\ "IDLE" \in RingState
      /\ {"FS", "SF", "MS"} \subseteq RapsRequest
      /\ req \in {"FS", "SF", "MS"} => port \in Port
  BY DEF RingState, RapsRequest, Named, PortRequest
<1>1. CASE req \in {"FS", "SF", "MS"}
  <2>1. CASE req = "FS"
    BY <1>0, <1>1, <2>1, CommonRowsGive DEF IdleSteps, IdleRows
  <2>2. CASE req = "SF"
    BY <1>0, <1>1, <2>2, CommonRowsGive DEF IdleSteps, IdleRows
  <2>3. CASE req = "MS"
    BY <1>0, <1>1, <2>3, CommonRowsGive DEF IdleSteps, IdleRows
  <2> QED BY <1>1, <2>1, <2>2, <2>3
<1>2. CASE req = "RAPS_FS"
  BY <1>2, CommonRowsGive DEF IdleSteps, IdleRows
<1>3. CASE req = "RAPS_SF"
  BY <1>0, <1>3, CommonRowsGive DEF IdleSteps, IdleRows
<1>4. CASE req = "RAPS_MS"
  BY <1>0, <1>4, CommonRowsGive DEF IdleSteps, IdleRows
<1>5. CASE req = "RAPS_NR_RB"
  <2> DEFINE p == OtherPort(r.rpl_port)
             s == UnblockPort(r, p)
             a == Unblock(p)
  <2>1. p \in Port
    BY DEF OtherPort, Port
  <2> HIDE DEF p
  <2>2. Gives(a, r, s, r.state) /\ s \in Ring
    BY <1>0, <2>1, GivesHelpers DEF Gives
  <2>3. CASE r.is_rpl_owner
    <3>1. a \o <<>> = a
      BY DEF Unblock
    <3>2. /\ IdleSteps(r, req, port, node) = Row("same", a \o <<>>)
          /\ IdleRows(r, req, port, node) = s
      BY <1>5, <2>3 DEF IdleSteps, IdleRows, p
    <3> HIDE DEF a, s
    <3> QED BY <2>2, <3>1, <3>2, SameRowGives
  <2>4. CASE ~r.is_rpl_owner
    <3>1. /\ IdleSteps(r, req, port, node) = Row("same", a \o TxStop)
          /\ IdleRows(r, req, port, node) = StopTx(s)
      BY <1>5, <2>4 DEF IdleSteps, IdleRows, p
    <3> HIDE DEF a, s
    <3>2. Gives(TxStop, s, StopTx(s), r.state)
      BY <1>0, <2>2, GivesHelpers
    <3>3. Gives(a \o TxStop, r, StopTx(s), r.state)
      BY <2>2, <3>2, GivesOn
    <3> QED BY <3>1, <3>3, SameRowGives
  <2> QED BY <2>3, <2>4
<1>6. CASE req = "RAPS_NR" /\ IdleLosesTo(r, node)
  BY <1>6, CommonRowsGive DEF IdleSteps, IdleRows
<1>7. CASE /\ req \notin {"FS", "SF", "MS", "RAPS_FS", "RAPS_SF", "RAPS_MS", "RAPS_NR_RB"}
           /\ ~(req = "RAPS_NR" /\ IdleLosesTo(r, node))
  BY <1>7, CommonRowsGive DEF IdleSteps, IdleRows
<1> QED BY <1>1, <1>2, <1>3, <1>4, <1>5, <1>6, <1>7

\* Rows 16 to 29.
LEMMA ProtectionRowsGive ==
    ASSUME NEW r \in Ring, r.state = "PROTECTION", NEW req, NEW port, Named(req, port)
    PROVE  RowGives(ProtectionSteps(r, req, port), r, ProtectionRows(r, req, port))
<1>0. /\ "FORCED_SWITCH" \in RingState /\ "PROTECTION" \in RingState
      /\ "PENDING" \in RingState /\ "wtr" \in Timer /\ {} \in SUBSET Flag
      /\ {"FS", "SF"} \subseteq RapsRequest
      /\ req \in {"FS", "SF"} => port \in Port
  BY DEF RingState, RapsRequest, Named, PortRequest, Timer
<1>1. CASE req = "FS"
  BY <1>0, <1>1, CommonRowsGive DEF ProtectionSteps, ProtectionRows
<1>2. CASE req = "SF"
  <2>1. Gives(Isolating(port, "SF", {}), r, Isolate(r, port, "SF", {}), r.state)
    BY <1>0, <1>2, GivesIsolate
  <2> QED BY <1>2, <2>1, SameRowGives DEF ProtectionSteps, ProtectionRows
<1>3. CASE req = "RAPS_FS"
  BY <1>3, CommonRowsGive DEF ProtectionSteps, ProtectionRows
<1>4. CASE req = "CLEAR_SF"
  <2>1. Gives(Announcing(r, "wtr"), r, AnnounceNR(r, "wtr"), "PENDING")
    BY <1>0, GivesOwner
  <2> QED BY <1>0, <1>4, <2>1, NewRowGives DEF ProtectionSteps, ProtectionRows
<1>5. CASE req = "RAPS_NR_RB"
  BY <1>5, CommonRowsGive DEF ProtectionSteps, ProtectionRows
<1>6. CASE req = "RAPS_NR"
  BY <1>0, <1>6, CommonRowsGive DEF ProtectionSteps, ProtectionRows
<1>7. CASE req \notin {"FS", "SF", "RAPS_FS", "CLEAR_SF", "RAPS_NR_RB", "RAPS_NR"}
  BY <1>7, CommonRowsGive DEF ProtectionSteps, ProtectionRows
<1> QED BY <1>1, <1>2, <1>3, <1>4, <1>5, <1>6, <1>7

\* Rows 30 to 43.
LEMMA ManualSwitchRowsGive ==
    ASSUME NEW r \in Ring, r.state = "MANUAL_SWITCH", NEW req, NEW port, Named(req, port)
    PROVE  RowGives(ManualSwitchSteps(r, req, port), r, ManualSwitchRows(r, req, port))
<1>0. /\ "FORCED_SWITCH" \in RingState /\ "PROTECTION" \in RingState
      /\ "PENDING" \in RingState /\ "MANUAL_SWITCH" \in RingState /\ "wtb" \in Timer
      /\ {"FS", "SF"} \subseteq RapsRequest
      /\ req \in {"FS", "SF"} => port \in Port
  BY DEF RingState, RapsRequest, Named, PortRequest, Timer
<1>1. CASE req = "CLEAR"
  <2>1. RowGives(Row("PENDING", << <<"any_blocked?", "PENDING">> >>), r,
                 IF r.blocked = {} THEN Enter(r, "PENDING")
                                   ELSE Enter(AnnounceNR(r, "wtb"), "PENDING"))
    BY <1>0, AnyBlockedGives
  <2>2. ManualSwitchRows(r, req, port)
           = IF r.blocked = {} THEN Enter(r, "PENDING")
                               ELSE Enter(AnnounceNR(r, "wtb"), "PENDING")
    BY <1>1 DEF ManualSwitchRows
  <2> QED BY <1>1, <2>1, <2>2 DEF ManualSwitchSteps
<1>2. CASE req = "FS"
  BY <1>0, <1>2, CommonRowsGive DEF ManualSwitchSteps, ManualSwitchRows
<1>3. CASE req = "SF"
  BY <1>0, <1>3, CommonRowsGive DEF ManualSwitchSteps, ManualSwitchRows
<1>4. CASE req = "RAPS_FS"
  BY <1>4, CommonRowsGive DEF ManualSwitchSteps, ManualSwitchRows
<1>5. CASE req = "RAPS_SF"
  BY <1>5, CommonRowsGive DEF ManualSwitchSteps, ManualSwitchRows
<1>6. CASE req = "RAPS_MS"
  <2>1. RowGives(Row("MANUAL_SWITCH", << <<"any_blocked?", "PENDING">> >>), r,
                 IF r.blocked = {} THEN Enter(r, "MANUAL_SWITCH")
                                   ELSE Enter(AnnounceNR(r, "wtb"), "PENDING"))
    BY <1>0, AnyBlockedGives
  <2>2. Enter(r, "MANUAL_SWITCH") = r
    BY EnterFields, <1>0
  <2>3. ManualSwitchRows(r, req, port)
           = IF r.blocked = {} THEN r ELSE Enter(AnnounceNR(r, "wtb"), "PENDING")
    BY <1>6 DEF ManualSwitchRows
  <2>4. ManualSwitchSteps(r, req, port)
           = Row("MANUAL_SWITCH", << <<"any_blocked?", "PENDING">> >>)
    BY <1>6 DEF ManualSwitchSteps
  <2> QED BY <2>1, <2>2, <2>3, <2>4
<1>7. CASE req = "RAPS_NR_RB"
  BY <1>7, CommonRowsGive DEF ManualSwitchSteps, ManualSwitchRows
<1>8. CASE req = "RAPS_NR"
  BY <1>0, <1>8, CommonRowsGive DEF ManualSwitchSteps, ManualSwitchRows
<1>9. CASE req \notin {"CLEAR", "FS", "SF", "RAPS_FS", "RAPS_SF", "RAPS_MS", "RAPS_NR_RB",
                       "RAPS_NR"}
  BY <1>9, CommonRowsGive DEF ManualSwitchSteps, ManualSwitchRows
<1> QED BY <1>1, <1>2, <1>3, <1>4, <1>5, <1>6, <1>7, <1>8, <1>9

\* Rows 44 to 57.
LEMMA ForcedSwitchRowsGive ==
    ASSUME NEW r \in Ring, NEW req, NEW port, Named(req, port)
    PROVE  RowGives(ForcedSwitchSteps(r, req, port), r, ForcedSwitchRows(r, req, port))
<1>0. /\ "PENDING" \in RingState /\ "wtb" \in Timer /\ "FS" \in RapsRequest
      /\ {} \in SUBSET Flag /\ r.state \in RingState
      /\ req = "FS" => port \in Port
  BY DEF RingState, RapsRequest, Named, PortRequest, Timer, Ring
<1>1. CASE req = "CLEAR"
  <2>1. RowGives(Row("PENDING", << <<"any_blocked?", "PENDING">> >>), r,
                 IF r.blocked = {} THEN Enter(r, "PENDING")
                                   ELSE Enter(AnnounceNR(r, "wtb"), "PENDING"))
    BY <1>0, AnyBlockedGives
  <2>2. ForcedSwitchRows(r, req, port)
           = IF r.blocked = {} THEN Enter(r, "PENDING")
                               ELSE Enter(AnnounceNR(r, "wtb"), "PENDING")
    BY <1>1 DEF ForcedSwitchRows
  <2> QED BY <1>1, <2>1, <2>2 DEF ForcedSwitchSteps
<1>2. CASE req = "FS"
  <2> DEFINE s == BlockPort(r, port)
  <2>1. Gives(Block(port), r, s, r.state) /\ s \in Ring
    BY <1>0, <1>2, GivesHelpers DEF Gives
  <2> HIDE DEF s
  <2>2. Gives(TxStart("FS", {}), s, StartTx(s, "FS", {}), r.state)
    BY <1>0, <2>1, GivesTx
  <2>3. Gives(Block(port) \o TxStart("FS", {}), r, StartTx(s, "FS", {}), r.state)
    BY <2>1, <2>2, GivesOn
  <2> QED BY <1>2, <2>3, SameRowGives DEF ForcedSwitchSteps, ForcedSwitchRows, s
<1>3. CASE req = "RAPS_NR_RB"
  BY <1>3, CommonRowsGive DEF ForcedSwitchSteps, ForcedSwitchRows
<1>4. CASE req = "RAPS_NR"
  BY <1>0, <1>4, CommonRowsGive DEF ForcedSwitchSteps, ForcedSwitchRows
<1>5. CASE req \notin {"CLEAR", "FS", "RAPS_NR_RB", "RAPS_NR"}
  BY <1>5, CommonRowsGive DEF ForcedSwitchSteps, ForcedSwitchRows
<1> QED BY <1>1, <1>2, <1>3, <1>4, <1>5

\* The timers and the ports do not meet.
LEMMA OwnerStopsBeforeIsolating ==
    ASSUME NEW r \in Ring, NEW p \in Port, NEW q \in RapsRequest, NEW f \in SUBSET Flag
    PROVE  Isolate(OwnerStopsTimers(r), p, q, f) = OwnerStopsTimers(Isolate(r, p, q, f))
<1> DEFINE ts == {"wtr", "wtb"}
           dnf == IF p \in r.blocked THEN {"DNF"} ELSE {}
           g == Message(q, f \cup dnf)
           s == StartTx(r, q, f \cup dnf)
<1>1. CASE r.is_rpl_owner
  <2> DEFINE t == StopTimers(r, ts)
  <2>1. OwnerStopsTimers(r) = t
    BY <1>1 DEF OwnerStopsTimers
  <2>2. /\ t = [r EXCEPT !.timers = r.timers \ ts]
        /\ t.blocked = r.blocked /\ t.raps = r.raps /\ t \in Ring
    BY DEF StopTimers, Ring
  <2>3. StartTx(t, q, f \cup dnf) = StopTimers(s, ts)
    <3> HIDE DEF t, dnf
    <3>1. CASE r.raps = g
      <4>1. s = [r EXCEPT !.is_sending_raps = TRUE]
            /\ StartTx(t, q, f \cup dnf) = [t EXCEPT !.is_sending_raps = TRUE]
        BY <2>2, <3>1 DEF StartTx, Message
      <4> HIDE DEF s, g, ts
      <4> QED BY <2>2, <4>1 DEF StopTimers, Ring
    <3>2. CASE r.raps # g
      <4>1. /\ s = [r EXCEPT !.raps = g, !.bursts_remain = RAPS_BURSTS,
                             !.is_sending_raps = TRUE]
            /\ StartTx(t, q, f \cup dnf) = [t EXCEPT !.raps = g,
                             !.bursts_remain = RAPS_BURSTS, !.is_sending_raps = TRUE]
        BY <2>2, <3>2 DEF StartTx, Message
      <4> HIDE DEF s, g, ts
      <4> QED BY <2>2, <4>1 DEF StopTimers, Ring
    <3> QED BY <3>1, <3>2
  <2>4. s \in Ring /\ s.is_rpl_owner
    <3>1. f \cup dnf \in SUBSET Flag
      BY DEF Flag
    <3> HIDE DEF dnf
    <3>2. s \in Ring /\ Based(s, r)
      <4>1. "IDLE" \in RingState
        BY DEF RingState
      <4> QED BY <3>1, <4>1, TxUnstored
    <3> QED BY <1>1, <3>2 DEF Based, Kept
  <2>5. Isolate(t, p, q, f) = UnblockPort(BlockPort(StopTimers(s, ts), p), OtherPort(p))
    BY <2>2, <2>3 DEF Isolate
  <2>6. Isolate(r, p, q, f) = UnblockPort(BlockPort(s, p), OtherPort(p))
    BY DEF Isolate
  <2> HIDE DEF s, t, ts
  <2>7. /\ UnblockPort(BlockPort(StopTimers(s, ts), p), OtherPort(p))
              = StopTimers(UnblockPort(BlockPort(s, p), OtherPort(p)), ts)
        /\ UnblockPort(BlockPort(s, p), OtherPort(p)).is_rpl_owner
    BY <2>4 DEF UnblockPort, BlockPort, StopTimers, Ring
  <2> QED BY <2>1, <2>5, <2>6, <2>7 DEF OwnerStopsTimers, ts
<1>2. CASE ~r.is_rpl_owner
  <2>1. Isolate(r, p, q, f).is_rpl_owner = r.is_rpl_owner
    <3>1. "IDLE" \in RingState
      BY DEF RingState
    <3>2. Based(Isolate(r, p, q, f), r)
      BY <3>1, GivesIsolate DEF Gives
    <3> QED BY <3>2 DEF Based, Kept
  <2> QED BY <1>2, <2>1 DEF OwnerStopsTimers
<1> QED BY <1>1, <1>2

\* Rows 58, 66, 68 and 70.
LEMMA RevertingGives ==
    ASSUME NEW r \in Ring, Configured(r)
    PROVE  /\ RowGives(Reverting(r, OwnerStop(r)), r, Revert(r, {"wtr", "wtb"}))
           /\ RowGives(Reverting(r, Stop("wtb")), r, Revert(r, {"wtb"}))
           /\ RowGives(Reverting(r, Stop("wtr")), r, Revert(r, {"wtr"}))
           /\ RowGives(ObeyingRplBlocked(r), r, ObeyRplBlocked(r))
<1>0. /\ "IDLE" \in RingState /\ "wtr" \in Timer /\ "wtb" \in Timer
      /\ "NR" \in RapsRequest /\ {"RB"} \in SUBSET Flag
      /\ r.is_rpl_owner \/ r.is_rpl_neighbour => r.rpl_port \in Port
      /\ ~(r.is_rpl_owner /\ r.is_rpl_neighbour)
  BY DEF RingState, Timer, RapsRequest, Flag, Configured, Ring
<1>1. ASSUME NEW stops, NEW ts,
             r.is_rpl_owner => Gives(stops, r, StopTimers(r, ts), "IDLE")
      PROVE  RowGives(Reverting(r, stops), r, Revert(r, ts))
  <2>1. CASE r.is_rpl_owner
    <3> DEFINE s == StopTimers(r, ts)
               p == r.rpl_port
    <3>1. Gives(stops, r, s, "IDLE") /\ s \in Ring
      BY <1>1, <2>1 DEF Gives
    <3> HIDE DEF s
    <3>2. Gives(Isolating(p, "NR", {"RB"}), s, Isolate(s, p, "NR", {"RB"}), "IDLE")
      BY <1>0, <2>1, <3>1, GivesIsolate
    <3>3. Gives(stops \o Isolating(p, "NR", {"RB"}), r, Isolate(s, p, "NR", {"RB"}), "IDLE")
      BY <3>1, <3>2, GivesOn
    <3> QED BY <1>0, <2>1, <3>3, NewRowGives DEF Reverting, Revert, s
  <2>2. CASE ~r.is_rpl_owner
    BY <1>0, <2>2, GivesNothing, NewRowGives DEF Reverting, Revert
  <2> QED BY <2>1, <2>2
<1>2. RowGives(Reverting(r, OwnerStop(r)), r, Revert(r, {"wtr", "wtb"}))
  <2>1. Gives(OwnerStop(r), r, OwnerStopsTimers(r), "IDLE")
    BY <1>0, GivesOwner
  <2>2. r.is_rpl_owner => OwnerStopsTimers(r) = StopTimers(r, {"wtr", "wtb"})
    BY DEF OwnerStopsTimers
  <2> QED BY <1>1, <2>1, <2>2
<1>3. /\ RowGives(Reverting(r, Stop("wtb")), r, Revert(r, {"wtb"}))
      /\ RowGives(Reverting(r, Stop("wtr")), r, Revert(r, {"wtr"}))
  BY <1>0, <1>1, GivesHelpers
<1>4. RowGives(ObeyingRplBlocked(r), r, ObeyRplBlocked(r))
  <2>1. CASE r.is_rpl_owner
    <3>1. Gives(OwnerStop(r), r, OwnerStopsTimers(r), "IDLE")
      BY <1>0, GivesOwner
    <3>2. /\ ObeyingRplBlocked(r) = Row("IDLE", OwnerStop(r))
          /\ ObeyRplBlocked(r) = Enter(OwnerStopsTimers(r), "IDLE")
      BY <1>0, <2>1 DEF ObeyingRplBlocked, ObeyRplBlocked
    <3> QED BY <1>0, <3>1, <3>2, NewRowGives
  <2>2. CASE ~r.is_rpl_owner /\ r.is_rpl_neighbour
    <3> DEFINE p == r.rpl_port
               o == OtherPort(p)
               s == BlockPort(r, p)
               u == UnblockPort(s, o)
    <3>1. p \in Port /\ o \in Port
      BY <1>0, <2>2, OtherPortType
    <3>2. Gives(Block(p), r, s, "IDLE") /\ s \in Ring
      BY <1>0, <3>1, GivesHelpers DEF Gives
    <3>3. Gives(Unblock(o), s, u, "IDLE") /\ u \in Ring
      <4> HIDE DEF s
      <4> QED BY <1>0, <3>1, <3>2, GivesHelpers DEF Gives
    <3>4. Gives(TxStop, u, StopTx(u), "IDLE")
      <4> HIDE DEF u
      <4> QED BY <1>0, <3>3, GivesHelpers DEF Gives
    <3> HIDE DEF s, u, p
    <3>5. Gives(Block(p) \o Unblock(o), r, u, "IDLE")
      BY <3>2, <3>3, GivesOn
    <3>6. Gives((Block(p) \o Unblock(o)) \o TxStop, r, StopTx(u), "IDLE")
      BY <3>4, <3>5, GivesOn
    <3>7. /\ ObeyingRplBlocked(r) = Row("IDLE", (Block(p) \o Unblock(o)) \o TxStop)
          /\ ObeyRplBlocked(r) = Enter(StopTx(u), "IDLE")
      BY <2>2 DEF ObeyingRplBlocked, ObeyRplBlocked, p, u, s
    <3> QED BY <1>0, <3>6, <3>7, NewRowGives
  <2>3. CASE ~r.is_rpl_owner /\ ~r.is_rpl_neighbour
    <3> DEFINE s == UnblockPorts(r)
    <3>1. Gives(UnblockBoth, r, s, "IDLE") /\ s \in Ring
      BY <1>0, GivesUnblockBoth DEF Gives
    <3> HIDE DEF s
    <3>2. Gives(TxStop, s, StopTx(s), "IDLE")
      BY <1>0, <3>1, GivesHelpers
    <3>3. Gives(UnblockBoth \o TxStop, r, StopTx(s), "IDLE")
      BY <3>1, <3>2, GivesOn
    <3>4. /\ ObeyingRplBlocked(r) = Row("IDLE", UnblockBoth \o TxStop)
          /\ ObeyRplBlocked(r) = Enter(StopTx(s), "IDLE")
      BY <2>3 DEF ObeyingRplBlocked, ObeyRplBlocked, s
    <3> QED BY <1>0, <3>3, <3>4, NewRowGives
  <2> QED BY <2>1, <2>2, <2>3
<1> QED BY <1>2, <1>3, <1>4

\* Rows 58 to 71.
LEMMA PendingRowsGive ==
    ASSUME NEW r \in Ring, Configured(r), r.state = "PENDING",
           NEW req, NEW port, NEW node, Named(req, port)
    PROVE  RowGives(PendingSteps(r, req, port, node), r, PendingRows(r, req, port, node))
<1>0. /\ {"FORCED_SWITCH", "PROTECTION", "MANUAL_SWITCH"} \subseteq RingState
      /\ {"FS", "SF", "MS"} \subseteq RapsRequest /\ {} \in SUBSET Flag /\ "wtr" \in Timer
      /\ req \in {"FS", "SF", "MS"} => port \in Port
  BY DEF RingState, RapsRequest, Named, PortRequest, Timer
<1>1. ASSUME NEW new \in RingState, NEW l, NEW s, Gives(l, r, s, new)
      PROVE  RowGives(Row(new, l \o OwnerStop(r)), r, Enter(OwnerStopsTimers(s), new))
  <2>1. s \in Ring /\ r.is_rpl_owner = s.is_rpl_owner /\ r.is_revertive = s.is_revertive
    BY <1>1 DEF Gives, Based, Kept
  <2>2. Gives(OwnerStop(r), s, OwnerStopsTimers(s), new)
    BY <1>0, <2>1, GivesOwner
  <2>3. Gives(l \o OwnerStop(r), r, OwnerStopsTimers(s), new)
    BY <1>1, <2>2, GivesOn
  <2> QED BY <2>3, NewRowGives
<1>2. CASE req \in {"CLEAR", "WTR_EXPIRES", "WTB_EXPIRES", "RAPS_NR_RB"}
  BY <1>2, RevertingGives DEF PendingSteps, PendingRows
<1>3. CASE req = "FS"
  <2>1. Gives(Isolating(port, "FS", {}), r, Isolate(r, port, "FS", {}), "FORCED_SWITCH")
    BY <1>0, <1>3, GivesIsolate
  <2> QED BY <1>0, <1>1, <1>3, <2>1 DEF PendingSteps, PendingRows
<1>4. CASE req = "SF"
  <2>1. Gives(Isolating(port, "SF", {}), r, Isolate(r, port, "SF", {}), "PROTECTION")
    BY <1>0, <1>4, GivesIsolate
  <2> QED BY <1>0, <1>1, <1>4, <2>1 DEF PendingSteps, PendingRows
<1>5. CASE req = "MS"
  <2> DEFINE s == OwnerStopsTimers(r)
             new == "MANUAL_SWITCH"
  <2>1. Gives(OwnerStop(r), r, s, new) /\ s \in Ring
    BY <1>0, GivesOwner DEF Gives
  <2> HIDE DEF s
  <2>2. Gives(Isolating(port, "MS", {}), s, Isolate(s, port, "MS", {}), new)
    BY <1>0, <1>5, <2>1, GivesIsolate
  <2>3. Gives(OwnerStop(r) \o Isolating(port, "MS", {}), r, Isolate(s, port, "MS", {}), new)
    BY <2>1, <2>2, GivesOn
  <2>4. Isolate(s, port, "MS", {}) = OwnerStopsTimers(Isolate(r, port, "MS", {}))
    BY <1>0, <1>5, OwnerStopsBeforeIsolating DEF s
  <2>5. RowGives(Row(new, OwnerStop(r) \o Isolating(port, "MS", {})), r,
                 Enter(OwnerStopsTimers(Isolate(r, port, "MS", {})), new))
    BY <1>0, <2>3, <2>4, NewRowGives
  <2> QED BY <1>5, <2>5 DEF PendingSteps, PendingRows
<1>6. ASSUME NEW new \in RingState, NEW s \in Ring
      PROVE  OwnerStopsTimers(Enter(s, new)) = Enter(OwnerStopsTimers(s), new)
  BY <1>6, EnterFields
<1>7. CASE req = "RAPS_FS"
  <2> DEFINE s == UnblockPorts(r)
             new == "FORCED_SWITCH"
  <2>1. Gives(UnblockBoth, r, s, new) /\ s \in Ring
    BY <1>0, GivesUnblockBoth DEF Gives
  <2> HIDE DEF s
  <2>2. Gives(TxStop, s, StopTx(s), new) /\ StopTx(s) \in Ring
    BY <1>0, <2>1, GivesHelpers DEF Gives
  <2>3. Gives(UnblockBoth \o TxStop, r, StopTx(s), new)
    BY <2>1, <2>2, GivesOn
  <2>4. RowGives(Row(new, (UnblockBoth \o TxStop) \o OwnerStop(r)), r,
                 Enter(OwnerStopsTimers(StopTx(s)), new))
    BY <1>0, <1>1, <2>3
  <2>5. OwnerStopsTimers(YieldToForced(r)) = Enter(OwnerStopsTimers(StopTx(s)), new)
    BY <1>0, <1>6, <2>2 DEF YieldToForced, s
  <2> QED BY <1>7, <2>4, <2>5 DEF PendingSteps, PendingRows
<1>8. ASSUME NEW new \in RingState
      PROVE  RowGives(Row(new, Yielding \o OwnerStop(r)), r, OwnerStopsTimers(YieldTo(r, new)))
  <2> DEFINE s == StopTx(UnblockNonfailed(r))
  <2>1. Gives(Yielding, r, s, new) /\ s \in Ring
    BY GivesYielding DEF Gives
  <2>2. YieldTo(r, new) = Enter(s, new)
    BY DEF YieldTo
  <2> HIDE DEF s
  <2> QED BY <1>1, <1>6, <2>1, <2>2
<1>9. CASE req = "RAPS_SF"
  BY <1>0, <1>8, <1>9 DEF PendingSteps, PendingRows
<1>10. CASE req = "RAPS_MS"
  BY <1>0, <1>8, <1>10 DEF PendingSteps, PendingRows
<1>11. CASE req = "RAPS_NR" /\ LosesTo(r, node)
  BY <1>11, CommonRowsGive DEF PendingSteps, PendingRows
<1>12. CASE /\ req \notin {"CLEAR", "WTR_EXPIRES", "WTB_EXPIRES", "RAPS_NR_RB", "FS", "SF",
                           "MS", "RAPS_FS", "RAPS_SF", "RAPS_MS"}
            /\ ~(req = "RAPS_NR" /\ LosesTo(r, node))
  BY <1>12, CommonRowsGive DEF PendingSteps, PendingRows
<1> QED BY <1>2, <1>3, <1>4, <1>5, <1>7, <1>9, <1>10, <1>11, <1>12

\* What ring_fsm does for a request is the row of RingFSM.
LEMMA RowsGive ==
    ASSUME NEW r \in Ring, Configured(r), r.state # "INIT",
           NEW req, NEW port, NEW node, Named(req, port)
    PROVE  RowGives(RowSteps(r, req, port, node), r, FsmRows(r, req, port, node))
<1>1. r.state \in {"IDLE", "PROTECTION", "MANUAL_SWITCH", "FORCED_SWITCH", "PENDING"}
  BY DEF Ring, RingState
<1>2. CASE r.state = "IDLE"
  BY <1>2, IdleRowsGive DEF RowSteps, FsmRows
<1>3. CASE r.state = "PROTECTION"
  BY <1>3, ProtectionRowsGive DEF RowSteps, FsmRows
<1>4. CASE r.state = "MANUAL_SWITCH"
  BY <1>4, ManualSwitchRowsGive DEF RowSteps, FsmRows
<1>5. CASE r.state = "FORCED_SWITCH"
  BY <1>5, ForcedSwitchRowsGive DEF RowSteps, FsmRows
<1>6. CASE r.state = "PENDING"
  BY <1>6, PendingRowsGive DEF RowSteps, FsmRows
<1> QED BY <1>1, <1>2, <1>3, <1>4, <1>5, <1>6

\* The pace chooses no row.
LEMMA RowStepsUnpaced ==
    ASSUME NEW r \in Ring, NEW x \in Ring, Unpaced(x) = Unpaced(r),
           NEW req, NEW port, NEW node
    PROVE  RowSteps(x, req, port, node) = RowSteps(r, req, port, node)
<1>1. /\ x.node_id = r.node_id /\ x.is_rpl_owner = r.is_rpl_owner
      /\ x.is_rpl_neighbour = r.is_rpl_neighbour /\ x.rpl_port = r.rpl_port
      /\ x.is_revertive = r.is_revertive /\ x.state = r.state
  BY UnpacedAgree
<1>2. /\ OwnerStop(x) = OwnerStop(r)
      /\ \A timer : OwnerStart(x, timer) = OwnerStart(r, timer)
      /\ \A timer : Announcing(x, timer) = Announcing(r, timer)
      /\ \A stops : Reverting(x, stops) = Reverting(r, stops)
      /\ LosesTo(x, node) <=> LosesTo(r, node)
      /\ IdleLosesTo(x, node) <=> IdleLosesTo(r, node)
  BY <1>1 DEF OwnerStop, OwnerStart, Announcing, Reverting, LosesTo, IdleLosesTo
<1>3. ObeyingRplBlocked(x) = ObeyingRplBlocked(r)
  BY <1>1, <1>2 DEF ObeyingRplBlocked
<1>4. IdleSteps(x, req, port, node) = IdleSteps(r, req, port, node)
  BY <1>1, <1>2 DEF IdleSteps
<1>5. ProtectionSteps(x, req, port) = ProtectionSteps(r, req, port)
  BY <1>1, <1>2 DEF ProtectionSteps
<1>6. ManualSwitchSteps(x, req, port) = ManualSwitchSteps(r, req, port)
  BY <1>1, <1>2 DEF ManualSwitchSteps
<1>7. ForcedSwitchSteps(x, req, port) = ForcedSwitchSteps(r, req, port)
  BY <1>1, <1>2 DEF ForcedSwitchSteps
<1>8. PendingSteps(x, req, port, node) = PendingSteps(r, req, port, node)
  BY <1>2, <1>3 DEF PendingSteps
<1> QED BY <1>1, <1>4, <1>5, <1>6, <1>7, <1>8 DEF RowSteps

-----------------------------------------------------------------------------
(***************************************************************************)
(* Where a call is that the other thread has left alone.  u is the ring    *)
(* without its pace, f the buffer and r the ring the call began with.      *)
(***************************************************************************)

\* What ring_timer_cb does when the request has been processed.
Settle(c, x) == IF c.origin = "ring_timer" THEN StopTimers(x, {"wtr"}) ELSE x

\* What Begin makes of the local values and no step changes.
Kind(c) == /\ c.req # "INVALID"
           /\ c.after = IF c.origin = "ring_timer" THEN Stop("wtr") ELSE <<>>
           /\ c.origin \in {"fail", "recover"} => c.port = c.named /\ c.node = NoNode

\* The request is more severe than the retained one.
Outranks(x, req) == Severity[req] > Severity[x.local_request]

\* The ring with another retained request.
Retaining(x, req) == [x EXCEPT !.local_request = req]

\* The ring with another last request.
Remembering(x, prev) == [x EXCEPT !.prev = prev]

\* What the call has still to make of ring x when the next step has this name.
Left(name, c, x) ==
    LET Fsm(y) == RingFsm(y, c.req, c.port, c.node)
        All(y) == ProcessRequest(y, c.req, c.port, c.node)
        now    == Retaining(x, Retained(c.req))
    IN  CASE name = "stop"     -> All(StopTimers(x, {"guard"}))
          [] name = "fail"     -> All([x EXCEPT !.failed = @ \cup {c.named}])
          [] name = "recover"  -> All([x EXCEPT !.failed = @ \ {c.named}])
          [] name = "filter?"  -> All(x)
          [] name = "clear_sf" -> IF Overrides(x, c.req) THEN Fsm(now) ELSE x
          [] name = "severe?"  -> IF Outranks(x, c.req) THEN Fsm(now) ELSE x
          [] name = "drop"     -> Fsm(now)
          [] name = "retain"   -> Fsm(IF Retained(c.req) = "INVALID" THEN x
                                      ELSE Retaining(x, c.req))
          [] name \in {"enter", "dupe?"} -> Fsm(x)
          [] name = "remember" -> FsmRows(Remembering(x, PrevOf(c.req, c.port, c.node)),
                                          c.req, c.port, c.node)
          [] name = "switch"   -> FsmRows(x, c.req, c.port, c.node)

\* port_cb has not looked at the guard timer yet.
Guarding(t, c, u, r) ==
    /\ c.origin = "port_cb" /\ Framing(t, c) /\ Len(c.todo) = 11
    /\ Head(c.todo) = <<"guard?">> /\ Kind(c) /\ ~c.expired
    /\ Usable(r) /\ Unpaced(r) = u

\* Before the row.
Coming(t, c, u, r) ==
    /\ Framing(t, c) /\ Head(c.todo)[1] # "guard?" /\ Kind(c)
    /\ \E x : /\ Usable(x) /\ Unpaced(x) = u /\ x.raps = r.raps
              /\ Head(c.todo)[1] \in {"dupe?", "remember", "switch"} => c.new = x.state
              /\ Settle(c, Left(Head(c.todo)[1], c, x)) = AtomicCall(c, r)

\* What the row works on when the ring without its pace is u and the buffer f.
InMemory(c, u, f) == [ring |-> Enter(u, c.new), frame |-> f, reg |-> c.reg]

\* In the row: what is left of it leads to the ring of RingFSM.
InRow(c, u, f, r) ==
    /\ RowList(c.todo, c.reg, TRUE) /\ c.new # "INIT" /\ Kind(c)
    /\ \E x, n :
          /\ x \in Ring
          /\ Leads(c.todo, InMemory(c, u, f), n)
          /\ n.ring = Unpaced(x) /\ (n.frame = Encoded(x) \/ x.raps = r.raps)
          /\ Settle(c, x) = AtomicCall(c, r)

\* ring_timer_cb has yet to stop its timer.
Ending(c, u, f, r) ==
    /\ c.todo = Stop("wtr")
    /\ \E x \in Ring : /\ Unpaced(x) = u /\ (f = Encoded(x) \/ x.raps = r.raps)
                       /\ StopTimers(x, {"wtr"}) = AtomicCall(c, r)

\* send_raps_cb, which changes nothing but the pace.
Sending(t, c, u, r) ==
    /\ t = "loop" /\ c.origin = "send_raps_cb" /\ c.todo \in SendLists
    /\ r \in Ring /\ Unpaced(r) = u

\* Where an undisturbed call may be.
Phase(t, c, u, f, r) ==
    \/ Guarding(t, c, u, r) \/ Coming(t, c, u, r) \/ InRow(c, u, f, r)
    \/ Ending(c, u, f, r)   \/ Sending(t, c, u, r)

\* A call nobody has disturbed is in one of these phases.
Undisturbed ==
    /\ before \in [Thread -> {NoRing} \cup {<<r>> : r \in Ring}]
    /\ \A t \in Thread : before[t] # NoRing /\ Busy(t) =>
           Phase(t, call[t], Unpaced(ring), raps_frame, before[t][1])

\* The call of c is over and did what Ringd says: the ring has become r1 and the
\* buffer f1, the message was q before the last step.
Atomic(c, q, r1, f1, r) ==
    /\ Unpaced(r1) = Unpaced(AtomicCall(c, r))
    /\ q # r.raps => f1 = Encoded(r1)

\* After a step of its own the thread goes on with list todo and local values c1.
Proceeds(t, c, q, c1, todo, r1, f1, r) ==
    IF todo = <<>> THEN Atomic(c, q, r1, f1, r)
    ELSE Phase(t, [c1 EXCEPT !.todo = todo], Unpaced(r1), f1, r)

-----------------------------------------------------------------------------
\* The local values that decide what a call does.
LEMMA SameCall ==
    ASSUME NEW c, NEW d, d.origin = c.origin, d.req = c.req, d.port = c.port,
           d.node = c.node, d.named = c.named, d.expired = c.expired
    PROVE  /\ \A r : AtomicCall(d, r) = AtomicCall(c, r)
           /\ \A x : Settle(d, x) = Settle(c, x)
           /\ \A name, x : Left(name, d, x) = Left(name, c, x)
           /\ d.after = c.after => (Kind(d) <=> Kind(c))
<1>1. \A r : AtomicCall(d, r) = AtomicCall(c, r)
  BY DEF AtomicCall
<1>2. \A x : Settle(d, x) = Settle(c, x)
  BY DEF Settle
<1>3. \A name, x : Left(name, d, x) = Left(name, c, x)
  BY DEF Left
<1>4. d.after = c.after => (Kind(d) <=> Kind(c))
  BY DEF Kind
<1> QED BY <1>1, <1>2, <1>3, <1>4

\* The pace and the other fields do not meet.
LEMMA UnpacedUpdates ==
    ASSUME NEW r \in Ring, NEW v
    PROVE  /\ Unpaced([r EXCEPT !.local_request = v])
                 = [Unpaced(r) EXCEPT !.local_request = v]
           /\ Unpaced([r EXCEPT !.prev = v]) = [Unpaced(r) EXCEPT !.prev = v]
           /\ Unpaced([r EXCEPT !.failed = v]) = [Unpaced(r) EXCEPT !.failed = v]
           /\ Unpaced([r EXCEPT !.timers = v]) = [Unpaced(r) EXCEPT !.timers = v]
           /\ Unpaced([r EXCEPT !.state = v]) = [Unpaced(r) EXCEPT !.state = v]
           /\ Unpaced([r EXCEPT !.bursts_remain = v]) = Unpaced(r)
  BY DEF Unpaced, Ring

\* A timer is stopped on both rings.
LEMMA UnpacedStops ==
    ASSUME NEW r \in Ring, NEW x \in Ring, Unpaced(x) = Unpaced(r), NEW ts
    PROVE  /\ Unpaced(StopTimers(x, ts)) = Unpaced(StopTimers(r, ts))
           /\ StopTimers(x, ts).raps = x.raps
<1> DEFINE v == r.timers \ ts
<1>1. x.timers = r.timers
  BY UnpacedAgree
<1>2. /\ StopTimers(x, ts) = [x EXCEPT !.timers = v]
      /\ StopTimers(r, ts) = [r EXCEPT !.timers = v]
  BY <1>1 DEF StopTimers
<1> HIDE DEF v
<1>3. [x EXCEPT !.timers = v].raps = x.raps
  BY DEF Ring
<1>4. /\ Unpaced([x EXCEPT !.timers = v]) = [Unpaced(x) EXCEPT !.timers = v]
      /\ Unpaced([r EXCEPT !.timers = v]) = [Unpaced(r) EXCEPT !.timers = v]
  BY UnpacedUpdates
<1> QED BY <1>2, <1>3, <1>4

\* What a step of its own does to a thread whose call nobody has disturbed.
Progress(t) ==
    /\ call'[t].todo = <<>> =>
           before'[t] = NoRing
           /\ Atomic(call[t], ring.raps, ring', raps_frame', before[t][1])
    /\ call'[t].todo # <<>> =>
           before'[t] = before[t]
           /\ Phase(t, call'[t], Unpaced(ring'), raps_frame', before[t][1])

\* How a call proceeds by a step of the thread.
LEMMA StepProceeds ==
    ASSUME Inv, NEW t \in Thread, NEW c1 \in CallRec, NEW todo, NEW r1,
           Continue(t, c1, todo, r1),
           Proceeds(t, call[t], ring.raps, c1, todo, r1, raps_frame', before[t][1])
    PROVE  Progress(t)
<1>0. call \in [Thread -> CallRec]
  BY DEF Inv
<1>1. /\ ring' = r1
      /\ call'[t] = IF todo = <<>> THEN NoCall ELSE [c1 EXCEPT !.todo = todo]
      /\ before'[t] = IF todo = <<>> THEN NoRing ELSE before[t]
  BY <1>0 DEF Continue
<1>2. NoCall.todo = <<>> /\ [c1 EXCEPT !.todo = todo].todo = todo
  BY DEF NoCall, CallRec
<1> QED BY <1>1, <1>2 DEF Proceeds, Progress

\* ring_process_request returns.
LEMMA ReturnProceeds ==
    ASSUME NEW t, NEW c \in CallRec, Kind(c), NEW q, NEW r1 \in Ring, r1.raps = q,
           NEW f1, NEW r, NEW x \in Ring, Unpaced(x) = Unpaced(r1),
           f1 = Encoded(x) \/ x.raps = r.raps, Settle(c, x) = AtomicCall(c, r)
    PROVE  Proceeds(t, c, q, [c EXCEPT !.after = <<>>], c.after, r1, f1, r)
<1>1. x.raps = r1.raps /\ x.node_id = r1.node_id
  BY UnpacedAgree
<1>2. CASE c.origin = "ring_timer"
  <2> DEFINE e == [c EXCEPT !.after = <<>>]
             d == [e EXCEPT !.todo = Stop("wtr")]
  <2>1. c.after = Stop("wtr") /\ StopTimers(x, {"wtr"}) = AtomicCall(c, r)
    BY <1>2 DEF Kind, Settle
  <2>2. /\ d.todo = Stop("wtr") /\ d.origin = c.origin /\ d.req = c.req /\ d.port = c.port
        /\ d.node = c.node /\ d.named = c.named /\ d.expired = c.expired
    BY DEF CallRec
  <2>3. Stop("wtr") # <<>>
    BY DEF Stop
  <2> HIDE DEF e, d
  <2>4. AtomicCall(d, r) = AtomicCall(c, r)
    BY <2>2, SameCall
  <2>5. Ending(d, Unpaced(r1), f1, r)
    BY <2>1, <2>2, <2>4 DEF Ending
  <2> QED BY <2>1, <2>3, <2>5 DEF Proceeds, Phase, d, e
<1>3. CASE c.origin # "ring_timer"
  <2>1. c.after = <<>> /\ x = AtomicCall(c, r)
    BY <1>3 DEF Kind, Settle
  <2>2. q # r.raps => f1 = Encoded(r1)
    BY <1>1 DEF Encoded
  <2> QED BY <2>1, <2>2 DEF Proceeds, Atomic
<1> QED BY <1>2, <1>3

-----------------------------------------------------------------------------
(***************************************************************************)
(* The steps before the row.                                               *)
(***************************************************************************)

\* The first step of a list says in which phase the call is.
LEMMA WhichPhase ==
    ASSUME NEW t, NEW c, NEW u, NEW f, NEW r, c.todo \in Seq(Step), c.todo # <<>>,
           Phase(t, c, u, f, r), NEW s, s = Head(c.todo)
    PROVE  /\ s[1] \in FrameName \cup {"fail", "recover"} => Coming(t, c, u, r)
           /\ s[1] \in RowName \cup {"store"} => InRow(c, u, f, r)
           /\ s[1] = "stop" => \/ Coming(t, c, u, r) /\ Len(c.todo) = 11
                                  /\ s = <<"stop", "guard">>
                               \/ Ending(c, u, f, r)
                               \/ InRow(c, u, f, r)
           /\ s[1] = "guard?" => Guarding(t, c, u, r)
           /\ s[1] \in {"pace?", "load_bursts", "store_bursts", "send"} =>
                  Sending(t, c, u, r)
<1>1. CASE Guarding(t, c, u, r)
  BY <1>1 DEF Guarding, FrameName, RowName, PlainStep
<1>2. CASE Coming(t, c, u, r)
  <2>1. CASE /\ Len(c.todo) = 11
             /\ s \in IF t = "loop" THEN {<<"guard?">>, <<"stop", "guard">>}
                      ELSE {<<"fail", c.named>>, <<"recover", c.named>>}
    BY <1>2, <2>1 DEF Coming, RowName, PlainStep, FrameName
  <2>2. CASE s[1] \in FrameName
    BY <1>2, <2>2 DEF RowName, PlainStep, FrameName
  <2> QED BY <1>2, <2>1, <2>2, FramingBegins DEF Coming
<1>3. CASE InRow(c, u, f, r)
  <2>1. s = <<"store">> \/ s \in RowStep
    BY <1>3, RowListHead DEF InRow
  <2>2. s[1] \in RowName \cup {"store", "stop"}
    BY <2>1, RowStepFields DEF RowName
  <2> QED BY <1>3, <2>2 DEF RowName, PlainStep, FrameName
<1>4. CASE Ending(c, u, f, r)
  <2>1. s[1] = "stop"
    BY <1>4 DEF Ending, Stop
  <2> QED BY <1>4, <2>1 DEF RowName, PlainStep, FrameName
<1>5. CASE Sending(t, c, u, r)
  <2>1. s[1] \in {"pace?", "load_bursts", "store_bursts", "send"}
    BY <1>5 DEF Sending, SendLists
  <2> QED BY <1>5, <2>1 DEF RowName, PlainStep, FrameName
<1> QED BY <1>1, <1>2, <1>3, <1>4, <1>5 DEF Phase

\* The names of the steps of ProcessSteps, each followed by the next.
LEMMA NextName ==
    ASSUME NEW i \in 1 .. 9, NEW s, s = ProcessSteps[i],
           NEW n, n = ProcessSteps[i + 1]
    PROVE  /\ s[1] \notin {"guard?", "stop", "fail", "recover"}
           /\ s[1] = "filter?"  => n = <<"clear_sf">>
           /\ s[1] = "clear_sf" => n = <<"severe?">>
           /\ s[1] = "severe?"  => n = <<"drop">>
           /\ s[1] = "drop"     => n = <<"retain">>
           /\ s[1] = "retain"   => n = <<"enter">>
           /\ s[1] = "enter"    => n = <<"dupe?">>
           /\ s[1] = "dupe?"    => n = <<"remember">>
           /\ s[1] = "remember" => n = <<"switch">>
           /\ s[1] = "switch"   => n = <<"store">>
           /\ s[1] = "switch" <=> i = 9
<1>1. /\ 1 + 1 = 2 /\ 2 + 1 = 3 /\ 3 + 1 = 4 /\ 4 + 1 = 5 /\ 5 + 1 = 6
      /\ 6 + 1 = 7 /\ 7 + 1 = 8 /\ 8 + 1 = 9 /\ 9 + 1 = 10
  OBVIOUS
<1>2. i \in {1, 2, 3, 4, 5, 6, 7, 8, 9}
  OBVIOUS
<1>3. CASE i \in {1, 2, 3, 4}
  BY <1>1, <1>3, ProcessStepsNames
<1>4. CASE i \in {5, 6, 7, 8, 9}
  BY <1>1, <1>4, ProcessStepsNames
<1> QED BY <1>2, <1>3, <1>4

\* A list of one element.
LEMMA OneElement ==
    ASSUME NEW S, NEW l \in Seq(S), Len(l) = 1
    PROVE  l = << l[1] >>
<1>1. l[1] \in S
  OBVIOUS
<1>2. << l[1] >> \in Seq(S) /\ Len(<< l[1] >>) = 1 /\ << l[1] >>[1] = l[1]
  BY <1>1
<1>3. \A k \in 1 .. 1 : k = 1
  OBVIOUS
<1> DEFINE m == << l[1] >>
<1>4. m \in Seq(S) /\ Len(m) = Len(l) /\ \A k \in 1 .. Len(l) : l[k] = m[k]
  BY <1>2, <1>3
<1> HIDE DEF m
<1>5. l = m
  BY <1>4, SeqEqual
<1> QED BY <1>5 DEF m

\* What follows a step of ProcessSteps, and the step before them.
LEMMA WhatFollows ==
    ASSUME NEW t, NEW c, c.todo \in Seq(Step), c.todo # <<>>, Framing(t, c),
           NEW s, s = Head(c.todo), NEW n, n = Head(Tail(c.todo))
    PROVE  /\ s[1] \in {"guard?", "stop", "fail", "recover"} => n = <<"filter?">>
           /\ s[1] = "filter?"  => n = <<"clear_sf">>
           /\ s[1] = "clear_sf" => n = <<"severe?">>
           /\ s[1] = "severe?"  => n = <<"drop">>
           /\ s[1] = "drop"     => n = <<"retain">>
           /\ s[1] = "retain"   => n = <<"enter">>
           /\ s[1] = "enter"    => n = <<"dupe?">>
           /\ s[1] = "dupe?"    => n = <<"remember">>
           /\ s[1] = "remember" => n = <<"switch">>
           /\ s[1] = "switch"   => Tail(c.todo) = << <<"store">> >>
           /\ s[1] # "switch"   => Len(c.todo) \in 3 .. 11
           /\ s[1] \in {"guard?", "stop", "fail", "recover"} => Len(c.todo) = 11
<1> DEFINE l == c.todo
           b == Tail(l)
<1>1. PICK m \in 2 .. 11 : m = Len(l)
  BY DEF Framing
<1>2. l \in Seq(Step) /\ l # <<>> /\ Len(l) = m
  BY <1>1
<1>a. ASSUME NEW i \in 1 .. m, 10 - m + i >= 1
      PROVE  l[i] = ProcessSteps[10 - m + i]
  BY <1>1, <1>a DEF Framing
<1>b. m = 11 => l[1] \in {<<"guard?">>, <<"stop", "guard">>, <<"fail", c.named>>,
                          <<"recover", c.named>>}
  BY <1>1 DEF Framing
<1> HIDE DEF l
<1>3. b \in Seq(Step) /\ Len(b) = m - 1 /\ \A k \in 1 .. m - 1 : b[k] = l[k + 1]
  BY <1>2
<1>4. s = l[1]
  BY <1>2 DEF l
<1>5. n = l[2]
  <2>1. 1 \in 1 .. m - 1 /\ 1 + 1 = 2
    OBVIOUS
  <2>2. n = Head(b)
    BY DEF l
  <2> HIDE DEF b
  <2>3. Head(b) = b[1]
    OBVIOUS
  <2> QED BY <1>3, <2>1, <2>2, <2>3
<1>6. n = ProcessSteps[12 - m]
  <2>1. 2 \in 1 .. m /\ 10 - m + 2 >= 1 /\ 10 - m + 2 = 12 - m
    OBVIOUS
  <2> QED BY <1>a, <1>5, <2>1
<1>7. CASE m = 11
  <2>1. s[1] \in {"guard?", "stop", "fail", "recover"}
    BY <1>b, <1>4, <1>7
  <2>2. n = <<"filter?">> /\ Len(c.todo) \in 3 .. 11
    <3>1. 12 - m = 1
      BY <1>7
    <3>2. n = <<"filter?">>
      BY <1>6, <3>1, ProcessStepsNames
    <3>3. m \in 3 .. 11
      BY <1>7
    <3>4. Len(c.todo) = m
      BY <1>1 DEF l
    <3> QED BY <3>2, <3>3, <3>4
  <2> QED BY <1>1, <1>7, <2>1, <2>2 DEF l
<1>8. CASE m # 11
  <2>1. s = ProcessSteps[11 - m]
    <3>1. 1 \in 1 .. m /\ 10 - m + 1 >= 1 /\ 10 - m + 1 = 11 - m
      BY <1>8
    <3> QED BY <1>a, <1>4, <3>1
  <2>2. PICK i \in 1 .. 9 : i = 11 - m
    BY <1>8
  <2>3. i + 1 = 12 - m /\ (i = 9 <=> m = 2)
    BY <2>2
  <2>4. s = ProcessSteps[i] /\ n = ProcessSteps[i + 1]
    BY <1>6, <2>1, <2>2, <2>3
  <2>5. s[1] = "switch" => b = << <<"store">> >>
    <3> SUFFICES ASSUME s[1] = "switch" PROVE b = << <<"store">> >>
      OBVIOUS
    <3>1. m = 2 /\ n = <<"store">>
      BY <2>3, <2>4, NextName
    <3>2. Len(b) = 1 /\ b[1] = l[2]
      <4>1. m - 1 = 1 /\ 1 \in 1 .. 1 /\ 1 + 1 = 2
        BY <3>1
      <4> QED BY <1>3, <4>1
    <3> QED BY <1>3, <1>5, <3>1, <3>2, OneElement
  <2>6. s[1] # "switch" => Len(c.todo) \in 3 .. 11
    <3>1. s[1] # "switch" => m # 2
      BY <2>3, <2>4, NextName
    <3> QED BY <1>1, <3>1 DEF l
  <2> QED BY <2>4, <2>5, <2>6, NextName DEF l
<1> QED BY <1>7, <1>8

\* The call of c has been taken one step further on its way to the row: its local
\* values are c1, the ring is r1 and the next step has this name.
Onward(c, c1, name, r1, x, r) ==
    /\ Head(Tail(c.todo)) = <<name>> /\ name # "guard?"
    /\ c1.origin = c.origin /\ c1.req = c.req /\ c1.port = c.port /\ c1.node = c.node
    /\ c1.named = c.named /\ c1.after = c.after
    /\ Usable(x) /\ Unpaced(x) = Unpaced(r1) /\ x.raps = r.raps
    /\ name \in {"dupe?", "remember", "switch"} => c1.new = x.state
    /\ Settle(c1, Left(name, c1, x)) = AtomicCall(c1, r)

\* A call on its way to the row does one step more.
LEMMA ComingProceeds ==
    ASSUME Inv, NEW t \in Thread, NEW c, c = call[t], c.todo # <<>>, Framing(t, c), Kind(c),
           Head(c.todo)[1] # "switch",
           NEW c1 \in CallRec, Len(c.todo) <= 5 => c1.new # "INIT",
           NEW name, NEW r1, NEW x, Onward(c, c1, name, r1, x, before[t][1]),
           Continue(t, c1, RestOf(t), r1)
    PROVE  Progress(t)
<1> DEFINE d == [c1 EXCEPT !.todo = Tail(c.todo)]
<1>1. c.todo \in Seq(Step) /\ Len(c.todo) \in 3 .. 11
  BY CallFacts, WhatFollows
<1>2. /\ d.todo = Tail(c.todo) /\ d.origin = c1.origin /\ d.req = c1.req /\ d.port = c1.port
      /\ d.node = c1.node /\ d.named = c1.named /\ d.expired = c1.expired
      /\ d.after = c1.after /\ d.new = c1.new
  BY DEF CallRec
<1>0. /\ Head(Tail(c.todo)) = <<name>> /\ name # "guard?"
      /\ c1.origin = c.origin /\ c1.req = c.req /\ c1.port = c.port /\ c1.node = c.node
      /\ c1.named = c.named /\ c1.after = c.after
      /\ Usable(x) /\ Unpaced(x) = Unpaced(r1) /\ x.raps = before[t][1].raps
      /\ name \in {"dupe?", "remember", "switch"} => c1.new = x.state
      /\ Settle(c1, Left(name, c1, x)) = AtomicCall(c1, before[t][1])
  BY DEF Onward
<1>3. RestOf(t) = Tail(c.todo) /\ Tail(c.todo) # <<>>
  <2>1. Len(Tail(c.todo)) = Len(c.todo) - 1 /\ Len(<<>>) = 0
    BY <1>1
  <2>2. \A k \in 3 .. 11 : k - 1 # 0
    OBVIOUS
  <2> QED BY <1>1, <2>1, <2>2 DEF RestOf
<1> HIDE DEF d
<1>4. Framing(t, d)
  BY <1>0, <1>1, <1>2, FramingTail
<1>5. Kind(d)
  BY <1>0, <1>2 DEF Kind
<1>6. Settle(d, Left(name, d, x)) = AtomicCall(d, before[t][1])
  BY <1>0, <1>2, SameCall
<1>7. Head(d.todo) = <<name>> /\ <<name>>[1] = name
  BY <1>0, <1>2
<1>8. Coming(t, d, Unpaced(r1), before[t][1])
  BY <1>0, <1>2, <1>4, <1>5, <1>6, <1>7 DEF Coming
<1>9. Proceeds(t, c, ring.raps, c1, RestOf(t), r1, raps_frame', before[t][1])
  BY <1>3, <1>8 DEF Proceeds, Phase, d
<1> QED BY <1>9, StepProceeds

\* ring_process_request returns on the way to the row.
LEMMA ReturnsProceed ==
    ASSUME Inv, NEW t \in Thread, NEW c, c = call[t], Kind(c), Return(t),
           NEW x, Usable(x), Unpaced(x) = Unpaced(ring), x.raps = before[t][1].raps,
           Settle(c, x) = AtomicCall(c, before[t][1])
    PROVE  Progress(t)
<1>1. c \in CallRec /\ ring \in Ring /\ x \in Ring
  BY CallFacts DEF Usable
<1>2. [c EXCEPT !.after = <<>>] \in CallRec
  BY <1>1 DEF CallRec
<1>3. Proceeds(t, c, ring.raps, [c EXCEPT !.after = <<>>], c.after, ring, raps_frame',
               before[t][1])
  BY <1>1, ReturnProceeds
<1> QED BY <1>2, <1>3, StepProceeds DEF Return

\* What a call has still to do, step by step.
LEMMA LeftIs ==
    ASSUME NEW c, NEW x
    PROVE  /\ Left("stop", c, x)
                 = ProcessRequest(StopTimers(x, {"guard"}), c.req, c.port, c.node)
           /\ Left("fail", c, x)
                 = ProcessRequest([x EXCEPT !.failed = @ \cup {c.named}], c.req, c.port, c.node)
           /\ Left("recover", c, x)
                 = ProcessRequest([x EXCEPT !.failed = @ \ {c.named}], c.req, c.port, c.node)
           /\ Left("filter?", c, x) = ProcessRequest(x, c.req, c.port, c.node)
           /\ Left("enter", c, x) = RingFsm(x, c.req, c.port, c.node)
           /\ Left("dupe?", c, x) = RingFsm(x, c.req, c.port, c.node)
           /\ Left("remember", c, x)
                 = FsmRows(Remembering(x, PrevOf(c.req, c.port, c.node)),
                           c.req, c.port, c.node)
           /\ Left("switch", c, x) = FsmRows(x, c.req, c.port, c.node)
  BY DEF Left

\* What the priority logic has still to do.
LEMMA LeftOfPriority ==
    ASSUME NEW c, NEW x,
           NEW y, y = RingFsm(Retaining(x, Retained(c.req)), c.req, c.port, c.node)
    PROVE  /\ Overrides(x, c.req)  => Left("clear_sf", c, x) = y
           /\ ~Overrides(x, c.req) => Left("clear_sf", c, x) = x
           /\ Outranks(x, c.req)   => Left("severe?", c, x) = y
           /\ ~Outranks(x, c.req)  => Left("severe?", c, x) = x
           /\ Left("drop", c, x) = y
           /\ Retained(c.req) = "INVALID" =>
                  Left("retain", c, x) = RingFsm(x, c.req, c.port, c.node)
           /\ Retained(c.req) # "INVALID" =>
                  Left("retain", c, x)
                      = RingFsm(Retaining(x, c.req), c.req, c.port, c.node)
  BY DEF Left

\* A ring whose retained request is another one.
LEMMA RetainingFacts ==
    ASSUME NEW x \in Ring, NEW q, NEW y, y = Retaining(x, q)
    PROVE  /\ Usable(x) /\ q \in LocalRequest => Usable(y)
           /\ y.raps = x.raps /\ y.state = x.state /\ y.local_request = q
           /\ \A z : Retaining(y, z) = Retaining(x, z)
           /\ q = x.local_request => y = x
           /\ \A o \in Ring : Unpaced(x) = Unpaced(o) => Unpaced(y) = Unpaced(Retaining(o, q))
<1>1. Usable(x) /\ q \in LocalRequest => Usable(y)
  BY DEF Retaining, Usable, Ring, Configured
<1>2. y.raps = x.raps /\ y.state = x.state /\ y.local_request = q
  BY DEF Retaining, Ring
<1>3. \A z : Retaining(y, z) = Retaining(x, z)
  BY DEF Retaining, Ring
<1>4. q = x.local_request => y = x
  BY DEF Retaining, Ring
<1>5. ASSUME NEW o \in Ring, Unpaced(x) = Unpaced(o)
      PROVE  Unpaced(y) = Unpaced(Retaining(o, q))
  <2>1. /\ Unpaced([x EXCEPT !.local_request = q]) = [Unpaced(x) EXCEPT !.local_request = q]
        /\ Unpaced([o EXCEPT !.local_request = q]) = [Unpaced(o) EXCEPT !.local_request = q]
    BY UnpacedUpdates
  <2> QED BY <1>5, <2>1 DEF Retaining
<1> QED BY <1>1, <1>2, <1>3, <1>4, <1>5

\* A ring whose last request is another one.
LEMMA RememberingFacts ==
    ASSUME NEW x \in Ring, NEW p, NEW y, y = Remembering(x, p)
    PROVE  /\ Usable(x) /\ p \in Prev => Usable(y)
           /\ y.raps = x.raps /\ y.state = x.state
           /\ \A o \in Ring : Unpaced(x) = Unpaced(o) => Unpaced(y) = Unpaced(Remembering(o, p))
<1>1. Usable(x) /\ p \in Prev => Usable(y)
  BY DEF Remembering, Usable, Ring, Configured
<1>2. y.raps = x.raps /\ y.state = x.state
  BY DEF Remembering, Ring
<1>3. ASSUME NEW o \in Ring, Unpaced(x) = Unpaced(o)
      PROVE  Unpaced(y) = Unpaced(Remembering(o, p))
  <2>1. /\ Unpaced([x EXCEPT !.prev = p]) = [Unpaced(x) EXCEPT !.prev = p]
        /\ Unpaced([o EXCEPT !.prev = p]) = [Unpaced(o) EXCEPT !.prev = p]
    BY UnpacedUpdates
  <2> QED BY <1>3, <2>1 DEF Remembering
<1> QED BY <1>1, <1>2, <1>3

\* A thread before the row.
LEMMA WayFacts ==
    ASSUME Inv, NEW t \in Thread, Busy(t), NEW s, s = Head(call[t].todo),
           s[1] \in FrameName \ {"switch"}, NEW c, c = call[t], NEW u, NEW f, NEW r,
           Phase(t, c, u, f, r)
    PROVE  /\ Coming(t, c, u, r) /\ Framing(t, c) /\ Kind(c) /\ c \in CallRec
           /\ c.todo # <<>>
           /\ s[1] # "enter" /\ Len(c.todo) <= 5 => c.new # "INIT"
<1>1. c \in CallRec /\ c.todo \in Seq(Step) /\ c.todo # <<>>
  BY CallFacts DEF Busy
<1>2. Coming(t, c, u, r)
  BY <1>1, WhichPhase
<1>3. s[1] # "enter" /\ Len(c.todo) <= 5 => c.new # "INIT"
  BY OnTheWay
<1> QED BY <1>1, <1>2, <1>3 DEF Coming

\* One step forward, with the same local values.
LEMMA AdvanceProceeds ==
    ASSUME Inv, NEW t \in Thread, Busy(t), NEW c, c = call[t],
           Head(c.todo)[1] \in FrameName \ {"switch", "enter"}, Framing(t, c), Kind(c),
           NEW name, NEW r1, NEW x, Onward(c, c, name, r1, x, before[t][1]),
           Advance(t, r1)
    PROVE  Progress(t)
<1>1. /\ c \in CallRec /\ c.todo # <<>>
      /\ Len(c.todo) <= 5 => c.new # "INIT"
  BY CallFacts, OnTheWay DEF Busy
<1>2. Continue(t, c, RestOf(t), r1)
  BY DEF Advance
<1> QED BY <1>1, <1>2, ComingProceeds

\* The priority logic.
LEMMA FiltersProgress ==
    ASSUME Inv, NEW t \in Thread, Filters(t),
           Phase(t, call[t], Unpaced(ring), raps_frame, before[t][1])
    PROVE  Progress(t)
<1> DEFINE c == call[t]
           s == Head(c.todo)
           r == before[t][1]
           n == Head(Tail(c.todo))
<1>1. Busy(t) /\ s[1] \in {"filter?", "clear_sf", "severe?"}
  BY DEF Filters, At
<1>2. /\ Coming(t, c, Unpaced(ring), r) /\ Framing(t, c) /\ Kind(c) /\ c \in CallRec
      /\ c.todo # <<>>
  BY <1>1, WayFacts DEF FrameName
<1>3. /\ s[1] = "filter?"  => n = <<"clear_sf">>
      /\ s[1] = "clear_sf" => n = <<"severe?">>
      /\ s[1] = "severe?"  => n = <<"drop">>
  BY <1>2, CallFacts, WhatFollows
<1>4. ring \in Ring /\ c.req \in Request
  BY CallFacts DEF Usable
<1>5. PICK x : /\ Usable(x) /\ Unpaced(x) = Unpaced(ring) /\ x.raps = r.raps
               /\ Settle(c, Left(s[1], c, x)) = AtomicCall(c, r)
  BY <1>2 DEF Coming
<1>6. x \in Ring
  BY <1>5 DEF Usable
<1>7. /\ x.local_request = ring.local_request /\ x.state = ring.state
      /\ x.version = ring.version /\ x.is_rpl_owner = ring.is_rpl_owner
  BY <1>4, <1>5, <1>6, UnpacedAgree
<1>8. s[1] \in FrameName \ {"switch", "enter"}
  BY <1>1 DEF FrameName
<1> HIDE DEF c, s, r, n
<1>9. CASE s[1] = "filter?"
  <2>1. Filtered(x, c.req) <=> Filtered(ring, c.req)
    BY <1>7 DEF Filtered, ClearDenied
  <2>2. Settle(c, ProcessRequest(x, c.req, c.port, c.node)) = AtomicCall(c, r)
    BY <1>5, <1>9, LeftIs
  <2>3. CASE Filtered(ring, c.req)
    <3>1. ProcessRequest(x, c.req, c.port, c.node) = x
      BY <2>1, <2>3 DEF ProcessRequest, Accepted
    <3>2. Return(t)
      BY <1>9, <2>3 DEF Filters, At, s, c
    <3> QED BY <1>2, <1>5, <2>2, <3>1, <3>2, ReturnsProceed DEF c, r
  <2>4. CASE ~Filtered(ring, c.req)
    <3>1. ProcessRequest(x, c.req, c.port, c.node) = Left("clear_sf", c, x)
      BY <2>1, <2>4, LeftOfPriority DEF ProcessRequest, Accepted, Retaining
    <3>2. Advance(t, ring)
      BY <1>9, <2>4 DEF Filters, At, s, c
    <3>3. Settle(c, Left("clear_sf", c, x)) = AtomicCall(c, r)
      BY <2>2, <3>1
    <3>4. Onward(c, c, "clear_sf", ring, x, r)
      BY <1>3, <1>5, <1>9, <3>3 DEF Onward, n
    <3> QED BY <1>1, <1>2, <1>8, <3>2, <3>4, AdvanceProceeds DEF c, r, s
  <2> QED BY <2>3, <2>4
<1>10. CASE s[1] = "clear_sf"
  <2> DEFINE q == StandingRequest(ring, c.req)
             y == Retaining(x, q)
             o == Retaining(ring, q)
             z == Retained(c.req)
  <2>1. q \in LocalRequest
    BY <1>4 DEF StandingRequest, Ring, LocalRequest
  <2>2. StandingRequest(x, c.req) = q
    BY <1>7 DEF StandingRequest
  <2>3. q # x.local_request => Overrides(x, c.req)
    <3>1. Severity["CLEAR_SF"] > Severity["INVALID"]
      BY DEF Severity
    <3>2. q # x.local_request => q = "INVALID" /\ c.req = "CLEAR_SF"
      BY <1>7 DEF StandingRequest
    <3> QED BY <2>2, <3>1, <3>2 DEF Overrides
  <2>4. Advance(t, o)
    BY <1>10 DEF Filters, At, s, c, Retaining
  <2> HIDE DEF q, z
  <2>5. /\ Usable(y) /\ y.raps = r.raps /\ y.local_request = q /\ Unpaced(y) = Unpaced(o)
        /\ Retaining(y, z) = Retaining(x, z)
        /\ q = x.local_request => y = x
    BY <1>4, <1>5, <1>6, <2>1, RetainingFacts
  <2> HIDE DEF y, o
  <2>6. Outranks(y, c.req) <=> Overrides(x, c.req)
    BY <2>2, <2>5 DEF Overrides, Outranks
  <2>7. Left("severe?", c, y) = Left("clear_sf", c, x)
    <3> DEFINE v == RingFsm(Retaining(y, z), c.req, c.port, c.node)
    <3>1. /\ Outranks(y, c.req)  => Left("severe?", c, y) = v
          /\ ~Outranks(y, c.req) => Left("severe?", c, y) = y
      BY LeftOfPriority DEF z
    <3>2. v = RingFsm(Retaining(x, z), c.req, c.port, c.node)
      BY <2>5
    <3> HIDE DEF v
    <3>3. /\ Overrides(x, c.req)  => Left("clear_sf", c, x) = v
          /\ ~Overrides(x, c.req) => Left("clear_sf", c, x) = x
      BY <3>2, LeftOfPriority DEF z
    <3> QED BY <2>3, <2>5, <2>6, <3>1, <3>3
  <2>9. Settle(c, Left("severe?", c, y)) = AtomicCall(c, r)
    BY <1>5, <1>10, <2>7
  <2>10. Onward(c, c, "severe?", o, y, r)
    BY <1>3, <1>10, <2>5, <2>9 DEF Onward, n
  <2> QED BY <1>1, <1>2, <1>8, <2>4, <2>10, AdvanceProceeds DEF c, r, s
<1>11. CASE s[1] = "severe?"
  <2>0. Outranks(x, c.req) <=> Severity[c.req] > Severity[ring.local_request]
    BY <1>7 DEF Outranks
  <2>1. CASE Severity[c.req] > Severity[ring.local_request]
    <3>1. Left("severe?", c, x) = Left("drop", c, x)
      BY <2>0, <2>1, LeftOfPriority
    <3>2. Advance(t, ring)
      BY <1>11, <2>1 DEF Filters, At, s, c
    <3>3. Settle(c, Left("drop", c, x)) = AtomicCall(c, r)
      BY <1>5, <1>11, <3>1
    <3>4. Onward(c, c, "drop", ring, x, r)
      BY <1>3, <1>5, <1>11, <3>3 DEF Onward, n
    <3> QED BY <1>1, <1>2, <1>8, <3>2, <3>4, AdvanceProceeds DEF c, r, s
  <2>2. CASE ~(Severity[c.req] > Severity[ring.local_request])
    <3>1. Left("severe?", c, x) = x
      BY <2>0, <2>2, LeftOfPriority
    <3>2. Return(t)
      BY <1>11, <2>2 DEF Filters, At, s, c
    <3>3. Settle(c, x) = AtomicCall(c, r)
      BY <1>5, <1>11, <3>1
    <3> QED BY <1>2, <1>5, <3>2, <3>3, ReturnsProceed DEF c, r
  <2> QED BY <2>1, <2>2
<1> QED BY <1>1, <1>9, <1>10, <1>11 DEF s, c

\* A retained request.
LEMMA RetainsProgress ==
    ASSUME Inv, NEW t \in Thread, Retains(t),
           Phase(t, call[t], Unpaced(ring), raps_frame, before[t][1])
    PROVE  Progress(t)
<1> DEFINE c == call[t]
           s == Head(c.todo)
           r == before[t][1]
           n == Head(Tail(c.todo))
           z == Retained(c.req)
<1>1. Busy(t) /\ s[1] \in {"drop", "retain"}
  BY DEF Retains, At
<1>2. /\ Coming(t, c, Unpaced(ring), r) /\ Framing(t, c) /\ Kind(c) /\ c \in CallRec
      /\ c.todo # <<>>
  BY <1>1, WayFacts DEF FrameName
<1>3. /\ s[1] = "drop"   => n = <<"retain">>
      /\ s[1] = "retain" => n = <<"enter">>
  BY <1>2, CallFacts, WhatFollows
<1>4. ring \in Ring /\ c.req \in Request
  BY CallFacts DEF Usable
<1>5. PICK x : /\ Usable(x) /\ Unpaced(x) = Unpaced(ring) /\ x.raps = r.raps
               /\ Settle(c, Left(s[1], c, x)) = AtomicCall(c, r)
  BY <1>2 DEF Coming
<1>6. x \in Ring
  BY <1>5 DEF Usable
<1>7. s[1] \in FrameName \ {"switch", "enter"}
  BY <1>1 DEF FrameName
<1>8. z # "INVALID" => z = c.req /\ c.req \in LocalRequest
  BY DEF Retained, LocalRequest
<1>9. "INVALID" \in LocalRequest
  BY DEF LocalRequest
<1>10. CASE s[1] = "drop"
  <2> DEFINE y == Retaining(x, "INVALID")
             o == Retaining(ring, "INVALID")
             v == RingFsm(Retaining(x, z), c.req, c.port, c.node)
  <2>1. Advance(t, o)
    BY <1>10 DEF Retains, At, Retaining
  <2> HIDE DEF c, s, r, n
  <2>2. Left("drop", c, x) = v
    BY LeftOfPriority
  <2> HIDE DEF z
  <2>3. /\ Usable(y) /\ y.raps = r.raps /\ Unpaced(y) = Unpaced(o)
        /\ \A q : Retaining(y, q) = Retaining(x, q)
        /\ y.local_request = "INVALID"
    BY <1>4, <1>5, <1>6, <1>9, RetainingFacts
  <2> HIDE DEF y, o
  <2>4. Left("retain", c, y) = v
    <3>1. CASE z = "INVALID"
      <4>1. y = Retaining(x, z)
        BY <3>1 DEF y
      <4>2. Left("retain", c, y) = RingFsm(y, c.req, c.port, c.node)
        BY <3>1, LeftOfPriority DEF z
      <4> QED BY <4>1, <4>2
    <3>2. CASE z # "INVALID"
      <4>1. Left("retain", c, y) = RingFsm(Retaining(y, c.req), c.req, c.port, c.node)
        BY <3>2, LeftOfPriority DEF z
      <4>2. Retaining(y, c.req) = Retaining(x, z)
        BY <1>8, <2>3, <3>2
      <4> QED BY <4>1, <4>2
    <3> QED BY <3>1, <3>2
  <2>5. Settle(c, Left("retain", c, y)) = AtomicCall(c, r)
    BY <1>5, <1>10, <2>2, <2>4
  <2>6. Onward(c, c, "retain", o, y, r)
    BY <1>3, <1>10, <2>3, <2>5 DEF Onward, n
  <2> QED BY <1>1, <1>2, <1>7, <2>1, <2>6, AdvanceProceeds DEF c, r, s
<1>11. CASE s[1] = "retain" /\ z = "INVALID"
  <2>1. Advance(t, ring)
    BY <1>11 DEF Retains, At
  <2> HIDE DEF c, s, r, n
  <2>2. Left("retain", c, x) = Left("enter", c, x)
    <3>1. Left("retain", c, x) = RingFsm(x, c.req, c.port, c.node)
      BY <1>11, LeftOfPriority
    <3>2. Left("enter", c, x) = RingFsm(x, c.req, c.port, c.node)
      BY LeftIs
    <3> QED BY <3>1, <3>2
  <2>3. Onward(c, c, "enter", ring, x, r)
    BY <1>3, <1>5, <1>11, <2>2 DEF Onward, n
  <2> QED BY <1>1, <1>2, <1>7, <2>1, <2>3, AdvanceProceeds DEF c, r, s
<1>12. CASE s[1] = "retain" /\ z # "INVALID"
  <2> DEFINE y == Retaining(x, c.req)
             o == Retaining(ring, c.req)
  <2>1. Advance(t, o)
    BY <1>12 DEF Retains, At, Retaining
  <2> HIDE DEF c, s, r, n
  <2>2. Usable(y) /\ y.raps = r.raps /\ Unpaced(y) = Unpaced(o)
    BY <1>4, <1>5, <1>6, <1>8, <1>12, RetainingFacts
  <2>3. Left("retain", c, x) = Left("enter", c, y)
    <3>1. Left("retain", c, x) = RingFsm(y, c.req, c.port, c.node)
      BY <1>12, LeftOfPriority
    <3> HIDE DEF y
    <3>2. Left("enter", c, y) = RingFsm(y, c.req, c.port, c.node)
      BY LeftIs
    <3> QED BY <3>1, <3>2
  <2> HIDE DEF y, o
  <2>4. Onward(c, c, "enter", o, y, r)
    BY <1>3, <1>5, <1>12, <2>2, <2>3 DEF Onward, n
  <2> QED BY <1>1, <1>2, <1>7, <2>1, <2>4, AdvanceProceeds DEF c, r, s
<1> QED BY <1>1, <1>10, <1>11, <1>12

\* ring_fsm reads the state into new_state.
LEMMA EntersProgress ==
    ASSUME Inv, NEW t \in Thread, Enters(t),
           Phase(t, call[t], Unpaced(ring), raps_frame, before[t][1])
    PROVE  Progress(t)
<1> DEFINE c == call[t]
           s == Head(c.todo)
           r == before[t][1]
           d == [c EXCEPT !.new = ring.state]
<1>1. Busy(t) /\ s[1] = "enter" /\ Continue(t, d, RestOf(t), ring)
  BY DEF Enters, At
<1>2. /\ Coming(t, c, Unpaced(ring), r) /\ Framing(t, c) /\ Kind(c) /\ c \in CallRec
      /\ c.todo # <<>>
  BY <1>1, WayFacts DEF FrameName
<1>3. Head(Tail(c.todo)) = <<"dupe?">>
  BY <1>1, <1>2, CallFacts, WhatFollows
<1>4. ring \in Ring /\ ring.state \in RingState /\ ring.state # "INIT"
  BY CallFacts DEF Usable, Ring
<1>5. PICK x : /\ Usable(x) /\ Unpaced(x) = Unpaced(ring) /\ x.raps = r.raps
               /\ Settle(c, Left("enter", c, x)) = AtomicCall(c, r)
  BY <1>1, <1>2 DEF Coming
<1>6. x.state = ring.state
  BY <1>4, <1>5, UnpacedAgree DEF Usable
<1>7. /\ d \in CallRec /\ d.new = ring.state
      /\ d.origin = c.origin /\ d.req = c.req /\ d.port = c.port /\ d.node = c.node
      /\ d.named = c.named /\ d.after = c.after /\ d.expired = c.expired
  BY <1>2, <1>4 DEF CallRec
<1> HIDE DEF c, s, r, d
<1>8. Settle(d, Left("dupe?", d, x)) = AtomicCall(d, r)
  <2>1. Settle(c, Left("dupe?", c, x)) = AtomicCall(c, r)
    <3>1. Left("enter", c, x) = RingFsm(x, c.req, c.port, c.node)
      BY LeftIs
    <3>2. Left("dupe?", c, x) = RingFsm(x, c.req, c.port, c.node)
      BY LeftIs
    <3> QED BY <1>5, <3>1, <3>2
  <2> QED BY <1>7, <2>1, SameCall
<1>9. Onward(c, d, "dupe?", ring, x, r)
  BY <1>3, <1>5, <1>6, <1>7, <1>8 DEF Onward
<1> QED BY <1>1, <1>2, <1>4, <1>7, <1>9, ComingProceeds DEF c, s, r

\* A request that is the last one again ends here.
LEMMA DeduplicatesProgress ==
    ASSUME Inv, NEW t \in Thread, Deduplicates(t), ~Die,
           Phase(t, call[t], Unpaced(ring), raps_frame, before[t][1])
    PROVE  Progress(t)
<1> DEFINE c == call[t]
           s == Head(c.todo)
           r == before[t][1]
           p == PrevOf(c.req, c.port, c.node)
<1>1. /\ Busy(t) /\ s[1] = "dupe?"
      /\ IF p = ring.prev THEN Return(t) ELSE Advance(t, ring)
  BY DEF Deduplicates, At
<1>2. /\ Coming(t, c, Unpaced(ring), r) /\ Framing(t, c) /\ Kind(c) /\ c \in CallRec
      /\ c.todo # <<>>
  BY <1>1, WayFacts DEF FrameName
<1>3. Head(Tail(c.todo)) = <<"remember">>
  BY <1>1, <1>2, CallFacts, WhatFollows
<1>4. ring \in Ring
  BY CallFacts DEF Usable
<1>5. PICK x : /\ Usable(x) /\ Unpaced(x) = Unpaced(ring) /\ x.raps = r.raps
               /\ c.new = x.state
               /\ Settle(c, Left("dupe?", c, x)) = AtomicCall(c, r)
  BY <1>1, <1>2 DEF Coming
<1>6. x.prev = ring.prev
  BY <1>4, <1>5, UnpacedAgree DEF Usable
<1>7. c.req # "INVALID"
  BY <1>2 DEF Kind
<1>8. s[1] \in FrameName \ {"switch", "enter"}
  BY <1>1 DEF FrameName
<1> HIDE DEF c, s, r
<1>9. CASE p = ring.prev
  <2>1. RingFsm(x, c.req, c.port, c.node) = x
    BY <1>6, <1>7, <1>9 DEF RingFsm
  <2>2. Settle(c, x) = AtomicCall(c, r)
    BY <1>5, <2>1, LeftIs
  <2> QED BY <1>1, <1>2, <1>5, <1>9, <2>2, ReturnsProceed DEF c, r
<1>10. CASE p # ring.prev
  <2>1. RingFsm(x, c.req, c.port, c.node) = Left("remember", c, x)
    BY <1>6, <1>7, <1>10, LeftIs DEF RingFsm, Remembering
  <2>2. Settle(c, Left("remember", c, x)) = AtomicCall(c, r)
    BY <1>5, <2>1, LeftIs, ZenonT(60)
  <2>3. Onward(c, c, "remember", ring, x, r)
    BY <1>3, <1>5, <2>2 DEF Onward
  <2> QED BY <1>1, <1>2, <1>8, <1>10, <2>3, AdvanceProceeds DEF c, r, s
<1> QED BY <1>9, <1>10

\* ring_fsm saves the request.
LEMMA RemembersProgress ==
    ASSUME Inv, NEW t \in Thread, Remembers(t),
           Phase(t, call[t], Unpaced(ring), raps_frame, before[t][1])
    PROVE  Progress(t)
<1> DEFINE c == call[t]
           s == Head(c.todo)
           r == before[t][1]
           p == PrevOf(c.req, c.port, c.node)
           o == Remembering(ring, p)
<1>1. Busy(t) /\ s[1] = "remember" /\ Advance(t, o)
  BY DEF Remembers, At, Remembering
<1>2. /\ Coming(t, c, Unpaced(ring), r) /\ Framing(t, c) /\ Kind(c) /\ c \in CallRec
      /\ c.todo # <<>>
  BY <1>1, WayFacts DEF FrameName
<1>3. Head(Tail(c.todo)) = <<"switch">>
  BY <1>1, <1>2, CallFacts, WhatFollows
<1>4. ring \in Ring /\ p \in Prev
  BY CallFacts DEF Usable, PrevOf, Prev
<1>5. PICK x : /\ Usable(x) /\ Unpaced(x) = Unpaced(ring) /\ x.raps = r.raps
               /\ c.new = x.state
               /\ Settle(c, Left("remember", c, x)) = AtomicCall(c, r)
  BY <1>1, <1>2 DEF Coming
<1> DEFINE y == Remembering(x, p)
<1>6. x \in Ring
  BY <1>5 DEF Usable
<1>7. s[1] \in FrameName \ {"switch", "enter"}
  BY <1>1 DEF FrameName
<1> HIDE DEF c, s, r
<1>8. Left("remember", c, x) = Left("switch", c, y)
  <2>1. Left("remember", c, x) = FsmRows(y, c.req, c.port, c.node)
    BY LeftIs
  <2> HIDE DEF y
  <2>2. Left("switch", c, y) = FsmRows(y, c.req, c.port, c.node)
    BY LeftIs
  <2> QED BY <2>1, <2>2
<1> HIDE DEF p
<1>9. Usable(y) /\ y.raps = r.raps /\ y.state = c.new /\ Unpaced(y) = Unpaced(o)
  BY <1>4, <1>5, <1>6, RememberingFacts
<1> HIDE DEF y, o
<1>10. Onward(c, c, "switch", o, y, r)
  BY <1>3, <1>5, <1>8, <1>9 DEF Onward
<1> QED BY <1>1, <1>2, <1>7, <1>10, AdvanceProceeds DEF c, r, s

-----------------------------------------------------------------------------
(***************************************************************************)
(* The steps in the row.                                                   *)
(***************************************************************************)

\* What is left of a row goes on leading to the ring of RingFSM.
LeadsOut(c, todo, u, f, r, x, n) ==
    /\ RowList(todo, c.reg, TRUE) /\ c.new # "INIT" /\ Kind(c) /\ x \in Ring
    /\ Leads(todo, InMemory(c, u, f), n)
    /\ n.ring = Unpaced(x)
    /\ n.frame = Encoded(x) \/ x.raps = r.raps
    /\ Settle(c, x) = AtomicCall(c, r)

\* A call in the row goes on with list todo.
LEMMA RowProceeds ==
    ASSUME Inv, NEW t \in Thread, NEW c \in CallRec, NEW todo, NEW r1, NEW x, NEW n,
           LeadsOut(c, todo, Unpaced(r1), raps_frame', before[t][1], x, n),
           Continue(t, c, todo, r1)
    PROVE  Progress(t)
<1> DEFINE d == [c EXCEPT !.todo = todo]
           u == Unpaced(r1)
           f == raps_frame'
           r == before[t][1]
<1>1. /\ d.todo = todo /\ d.origin = c.origin /\ d.req = c.req /\ d.port = c.port
      /\ d.node = c.node /\ d.named = c.named /\ d.expired = c.expired
      /\ d.after = c.after /\ d.new = c.new /\ d.reg = c.reg
  BY DEF CallRec
<1>2. todo # <<>>
  <2>1. Len(todo) >= 1 /\ Len(<<>>) = 0
    BY DEF LeadsOut, RowList
  <2> QED BY <2>1
<1> HIDE DEF d, u, f, r
<1>3. InMemory(d, u, f) = InMemory(c, u, f)
  BY <1>1 DEF InMemory
<1>4. Kind(d) /\ Settle(d, x) = AtomicCall(d, r)
  BY <1>1, SameCall DEF LeadsOut, r
<1>5. InRow(d, u, f, r)
  BY <1>1, <1>3, <1>4 DEF InRow, LeadsOut, u, f, r
<1>6. Proceeds(t, call[t], ring.raps, c, todo, r1, raps_frame', before[t][1])
  BY <1>2, <1>5 DEF Proceeds, Phase, d, u, f, r
<1> QED BY <1>6, StepProceeds

\* The store of new_state, the end of every row.
LEMMA StoreAlone ==
    ASSUME NEW l, l = << <<"store">> >>
    PROVE  /\ l \in Seq(Step) /\ Len(l) = 1 /\ l[1] = <<"store">>
           /\ \A reg : RowList(l, reg, TRUE)
           /\ Head(l) \notin {<<"store_request">>, <<"store_flags">>}
           /\ \A n : Leads(l, n, n)
<1>1. <<"store">> \in Step
  BY DEF Step, FrameStep
<1>2. l \in Seq(Step) /\ Len(l) = 1 /\ l[1] = <<"store">>
  BY <1>1
<1>3. \A reg : RowList(l, reg, TRUE)
  <2>1. 1 .. Len(l) - 1 = {}
    BY <1>2
  <2> QED BY <1>2, <2>1 DEF RowList
<1>4. Head(l) \notin {<<"store_request">>, <<"store_flags">>}
  BY <1>2
<1>5. \A n : Do(n, <<"store">>) = n
  BY DEF Do
<1>6. \A n : Leads(l, n, n)
  BY <1>5, LeadsOne
<1> QED BY <1>2, <1>3, <1>4, <1>6

\* ring_fsm takes the row.
LEMMA SwitchesProgress ==
    ASSUME Inv, NEW t \in Thread, Switches(t),
           Phase(t, call[t], Unpaced(ring), raps_frame, before[t][1])
    PROVE  Progress(t)
<1> DEFINE c   == call[t]
           s   == Head(c.todo)
           r   == before[t][1]
           row == RowSteps(ring, c.req, c.port, c.node)
           d   == IF row.new = "same" THEN c ELSE [c EXCEPT !.new = row.new]
           u   == Unpaced(ring)
           f   == raps_frame
           l   == RestOf(t)
           todo == row.steps \o l
<1>1. /\ Busy(t) /\ s[1] = "switch" /\ Continue(t, d, todo, ring)
      /\ raps_frame' = raps_frame
  BY DEF Switches, At
<1>2. c \in CallRec /\ c.todo \in Seq(Step) /\ c.todo # <<>> /\ ring \in Ring
  BY <1>1, CallFacts DEF Busy, Usable
<1>3. Coming(t, c, u, r)
  BY <1>1, <1>2, WhichPhase DEF FrameName
<1>4. Framing(t, c) /\ Kind(c) /\ Named(c.req, c.port)
  BY <1>3 DEF Coming, Framing
<1>5. l = << <<"store">> >>
  BY <1>1, <1>2, <1>4, WhatFollows DEF RestOf
<1>6. PICK x : /\ Usable(x) /\ Unpaced(x) = u /\ x.raps = r.raps
               /\ c.new = x.state
               /\ Settle(c, Left("switch", c, x)) = AtomicCall(c, r)
  BY <1>1, <1>3 DEF Coming
<1> DEFINE y   == FsmRows(x, c.req, c.port, c.node)
           new == NewOf(row, x)
<1>7. x \in Ring /\ Configured(x) /\ x.state # "INIT"
  BY <1>6 DEF Usable
<1> HIDE DEF c, s, r
<1>8. row = RowSteps(x, c.req, c.port, c.node)
  BY <1>2, <1>6, <1>7, RowStepsUnpaced
<1>9. RowGives(row, x, y) /\ row.new \in NewState /\ Good(row.steps)
  BY <1>4, <1>7, <1>8, RowsGive, RowsAreFine
<1>10. Settle(c, y) = AtomicCall(c, r)
  BY <1>6, LeftIs
<1> HIDE DEF row, y, l
<1>11. new \in RingState /\ new # "INIT" /\ row.steps \in Seq(Step) /\ y \in Ring
  <2>1. new # "INIT"
    BY <1>7, <1>9 DEF NewOf, NewState
  <2> QED BY <1>9, <2>1 DEF RowGives
<1>12. /\ d \in CallRec /\ d.new = new /\ d.reg = c.reg
       /\ d.origin = c.origin /\ d.req = c.req /\ d.port = c.port /\ d.node = c.node
       /\ d.named = c.named /\ d.after = c.after /\ d.expired = c.expired
  <2>1. CASE row.new = "same"
    BY <1>2, <1>6, <2>1 DEF NewOf
  <2>2. CASE row.new # "same"
    <3>1. new = row.new
      BY <2>2 DEF NewOf
    <3> QED BY <1>2, <1>11, <2>2, <3>1 DEF CallRec
  <2> QED BY <2>1, <2>2
<1> HIDE DEF d, new
<1> DEFINE m == InMemory(d, u, f)
<1>13. IsMemory(m) /\ m.ring = Unstored(x, new) /\ m.frame = f
  <2>1. m.ring = Enter(u, new) /\ m = [ring |-> m.ring, frame |-> m.frame, reg |-> m.reg]
        /\ m.frame = f
    BY <1>12 DEF InMemory
  <2>2. Unstored(x, new) = Enter(u, new)
    BY <1>6 DEF Unstored
  <2>3. Unstored(x, new) \in Ring
    BY <1>7, <1>11, UnstoredFields
  <2> QED BY <2>1, <2>2, <2>3 DEF IsMemory
<1> HIDE DEF m
<1>14. PICK n : /\ Leads(row.steps, m, n) /\ n.ring = Unpaced(y)
                /\ \/ n.frame = m.frame /\ y.raps = x.raps
                   \/ n.frame = Encoded(y)
  BY <1>9, <1>13 DEF RowGives, new
<1>15. Leads(todo, m, n)
  BY <1>5, <1>11, <1>14, StoreAlone, LeadsOn
<1>16. RowList(todo, d.reg, TRUE)
  BY <1>5, <1>9, StoreAlone, RowListGrows
<1>17. Kind(d) /\ Settle(d, y) = AtomicCall(d, r)
  BY <1>4, <1>10, <1>12, SameCall
<1> HIDE DEF todo, u, f
<1>18. LeadsOut(d, todo, u, f, r, y, n)
  BY <1>6, <1>11, <1>12, <1>14, <1>15, <1>16, <1>17 DEF LeadsOut, m
<1> QED BY <1>1, <1>12, <1>18, RowProceeds DEF u, f, r

\* The store of new_state.
LEMMA StoresProgress ==
    ASSUME Inv, NEW t \in Thread, Stores(t),
           Phase(t, call[t], Unpaced(ring), raps_frame, before[t][1])
    PROVE  Progress(t)
<1> DEFINE c  == call[t]
           l  == c.todo
           r  == before[t][1]
           r1 == Enter(ring, c.new)
           d  == [c EXCEPT !.after = <<>>]
           m  == InMemory(c, Unpaced(ring), raps_frame)
<1>1. /\ Busy(t) /\ Head(l)[1] = "store" /\ Continue(t, d, c.after, r1)
      /\ raps_frame' = raps_frame
  BY DEF Stores, At, aside
<1>2. /\ c \in CallRec /\ l \in Seq(Step) /\ l # <<>> /\ ring \in Ring
      /\ c.new \in RingState /\ d \in CallRec
  BY <1>1, CallFacts DEF Busy, Usable, CallRec
<1>3. InRow(c, Unpaced(ring), raps_frame, r)
  BY <1>1, <1>2, WhichPhase
<1>4. RowList(l, c.reg, TRUE) /\ Kind(c)
  BY <1>3 DEF InRow
<1>5. PICK x, n :
         /\ x \in Ring
         /\ Leads(l, m, n)
         /\ n.ring = Unpaced(x) /\ (n.frame = Encoded(x) \/ x.raps = r.raps)
         /\ Settle(c, x) = AtomicCall(c, r)
  BY <1>3 DEF InRow
<1>6. m.ring = Enter(Unpaced(ring), c.new) /\ m.frame = raps_frame
  BY DEF InMemory
<1>7. r1 \in Ring /\ r1.raps = ring.raps /\ Unpaced(r1) = m.ring
  BY <1>2, <1>6, EnterFields DEF Unstored
<1> HIDE DEF c, l, r, r1, d, m
<1>8. l = << <<"store">> >>
  <2>1. Len(l) = 1
    <3> SUFFICES ASSUME Len(l) # 1 PROVE FALSE
      OBVIOUS
    <3>1. Len(l) \in Nat /\ Len(l) >= 1 /\ Head(l) = l[1]
      BY <1>2, <1>4 DEF RowList
    <3>2. \A i \in Nat : i >= 1 /\ i # 1 => 1 \in 1 .. i - 1
      OBVIOUS
    <3>3. Head(l) \in RowStep
      BY <1>4, <3>1, <3>2 DEF RowList
    <3> QED BY <1>1, <3>3, RowStepFields DEF PlainStep
  <2>2. l[1] = <<"store">>
    BY <1>4, <2>1 DEF RowList
  <2> QED BY <1>2, <2>1, <2>2, OneElement
<1>9. n = m
  <2>1. Do(m, <<"store">>) = m
    BY DEF Do
  <2> QED BY <1>5, <1>8, <2>1, LeadsOne
<1>10. Proceeds(t, c, ring.raps, d, c.after, r1, raps_frame, r)
  <2>1. raps_frame = Encoded(x) \/ x.raps = r.raps
    BY <1>5, <1>6, <1>9
  <2>2. Unpaced(x) = Unpaced(r1)
    BY <1>5, <1>7, <1>9
  <2> QED BY <1>2, <1>4, <1>5, <1>7, <2>1, <2>2, ReturnProceeds DEF d
<1> QED BY <1>1, <1>2, <1>10, StepProceeds DEF c, r

\* A statement of the row is done: it did what Do says.
LEMMA RowStepProceeds ==
    ASSUME Inv, NEW t \in Thread, Busy(t), NEW c, c = call[t],
           InRow(c, Unpaced(ring), raps_frame, before[t][1]),
           NEW s, s = Head(c.todo), s # <<"store">>,
           NEW d \in CallRec, d.new = c.new, d.after = c.after,
           d.origin = c.origin, d.req = c.req, d.port = c.port, d.node = c.node,
           d.named = c.named, d.expired = c.expired,
           s = <<"load_request">> => d.reg \in LoadedRequest,
           s = <<"load_flags">>   => d.reg \in LoadedFlags,
           NEW r1, Continue(t, d, RestOf(t), r1),
           InMemory(d, Unpaced(r1), raps_frame') = Do(InMemory(c, Unpaced(ring), raps_frame), s)
    PROVE  Progress(t)
<1> DEFINE r == before[t][1]
           m == InMemory(c, Unpaced(ring), raps_frame)
           l == c.todo
<1>1. l \in Seq(Step) /\ l # <<>> /\ RestOf(t) = Tail(l)
  BY CallFacts DEF Busy, RestOf
<1>2. RowList(l, c.reg, TRUE) /\ Kind(c) /\ c.new # "INIT"
  BY DEF InRow
<1>3. PICK x, n :
         /\ x \in Ring
         /\ Leads(l, m, n)
         /\ n.ring = Unpaced(x) /\ (n.frame = Encoded(x) \/ x.raps = r.raps)
         /\ Settle(c, x) = AtomicCall(c, r)
  BY DEF InRow
<1> HIDE DEF r, m, l
<1>4. Leads(Tail(l), Do(m, s), n)
  BY <1>1, <1>3, LeadsTail DEF l
<1>5. RowList(Tail(l), d.reg, TRUE)
  BY <1>2, RowListTail DEF l
<1>6. Kind(d) /\ Settle(d, x) = AtomicCall(d, r)
  BY <1>2, <1>3, SameCall
<1>7. LeadsOut(d, Tail(l), Unpaced(r1), raps_frame', r, x, n)
  BY <1>2, <1>3, <1>4, <1>5, <1>6 DEF LeadsOut, m
<1> QED BY <1>1, <1>7, RowProceeds DEF r

\* A condition of the row has put list a in front of what is left, which does what
\* Do says of the condition.
LEMMA RowConditionProceeds ==
    ASSUME Inv, NEW t \in Thread, Busy(t), NEW c, c = call[t],
           InRow(c, Unpaced(ring), raps_frame, before[t][1]),
           NEW s, s = Head(c.todo), s # <<"store">>,
           s[1] \notin {"load_request", "load_flags"},
           NEW d \in CallRec, d.new # "INIT", d.after = c.after,
           d.origin = c.origin, d.req = c.req, d.port = c.port, d.node = c.node,
           d.named = c.named, d.expired = c.expired,
           NEW a, Good(a), Continue(t, d, a \o RestOf(t), ring),
           raps_frame' = raps_frame,
           Leads(a, InMemory(d, Unpaced(ring), raps_frame),
                 Do(InMemory(c, Unpaced(ring), raps_frame), s))
    PROVE  Progress(t)
<1> DEFINE r == before[t][1]
           m == InMemory(c, Unpaced(ring), raps_frame)
           k == InMemory(d, Unpaced(ring), raps_frame)
           l == c.todo
<1>1. l \in Seq(Step) /\ l # <<>> /\ RestOf(t) = Tail(l)
  BY CallFacts DEF Busy, RestOf
<1>2. RowList(l, c.reg, TRUE) /\ Kind(c)
  BY DEF InRow
<1>3. PICK x, n :
         /\ x \in Ring
         /\ Leads(l, m, n)
         /\ n.ring = Unpaced(x) /\ (n.frame = Encoded(x) \/ x.raps = r.raps)
         /\ Settle(c, x) = AtomicCall(c, r)
  BY DEF InRow
<1>4. Leads(a, k, Do(m, s))
  OBVIOUS
<1> HIDE DEF r, m, k, l
<1>5. Leads(Tail(l), Do(m, s), n)
  BY <1>1, <1>3, LeadsTail DEF l
<1>6. /\ RowList(Tail(l), <<>>, TRUE)
      /\ Head(Tail(l)) \notin {<<"store_request">>, <<"store_flags">>}
  <2>1. s # <<"load_request">> /\ s # <<"load_flags">>
    OBVIOUS
  <2> QED BY <1>2, <2>1, RowListTail DEF l
<1>7. RowList(a \o Tail(l), d.reg, TRUE)
  BY <1>6, RowListGrows
<1>8. Leads(a \o Tail(l), k, n)
  <2>1. a \in Seq(Step) /\ Tail(l) \in Seq(Step)
    <3>1. RowStep \subseteq Step /\ a \in Seq(RowStep)
      BY DEF Step, Good
    <3> QED BY <1>1, <3>1
  <2> QED BY <1>4, <1>5, <2>1, LeadsOn
<1>9. Kind(d) /\ Settle(d, x) = AtomicCall(d, r)
  BY <1>2, <1>3, SameCall
<1>10. LeadsOut(d, a \o Tail(l), Unpaced(ring), raps_frame', r, x, n)
  BY <1>3, <1>7, <1>8, <1>9 DEF LeadsOut, k
<1> QED BY <1>1, <1>10, RowProceeds DEF r

\* What the row works on after an assignment.
LEMMA AssignInMemory ==
    ASSUME NEW r \in Ring, NEW c, c.new \in RingState, NEW f,
           NEW s \in RowStep, s[1] \in Assignment
    PROVE  InMemory(c, Unpaced(Assign(r, s)), f) = Do(InMemory(c, Unpaced(r), f), s)
<1> DEFINE m == InMemory(c, Unpaced(r), f)
           v == Assign(r, s)
<1>1. /\ m.ring = Unstored(r, c.new) /\ m.frame = f /\ m.reg = c.reg
      /\ \A z : InMemory(c, Unpaced(z), f) = With(m, Unstored(z, c.new))
  BY DEF InMemory, Unstored, With
<1> HIDE DEF m
<1>2. CASE s[1] = "burst"
  <2>1. s = <<"burst">>
    BY <1>2, RowStepFields DEF PlainStep
  <2>2. Unstored(v, c.new) = Unstored(r, c.new)
    BY <2>1, BurstUnstored
  <2>3. Do(m, s) = m
    BY <2>1 DEF Do
  <2>4. InMemory(c, Unpaced(v), f) = InMemory(c, Unpaced(r), f)
    BY <1>1, <2>2
  <2> QED BY <2>3, <2>4 DEF m
<1>3. CASE s[1] # "burst"
  <2>1. s[1] \in {"block", "unblock", "start", "stop", "request", "flags", "sending",
                  "silent"}
    BY <1>3, RowStepFields DEF Assignment, PlainStep
  <2>2. Do(m, s) = With(m, Assign(m.ring, s))
    BY <2>1 DEF Do
  <2>3. Unstored(v, c.new) = Assign(Unstored(r, c.new), s)
    BY <1>3, AssignUnstored
  <2> HIDE DEF v
  <2>4. InMemory(c, Unpaced(v), f) = With(m, Assign(m.ring, s))
    BY <1>1, <2>3
  <2> QED BY <2>2, <2>4 DEF m, v
<1> QED BY <1>2, <1>3

\* The assignments before the row leave the pace aside.
LEMMA AssignBeforeRow ==
    ASSUME NEW r \in Ring, NEW x, Usable(x), Unpaced(x) = Unpaced(r),
           NEW s \in {<<"stop", "guard">>} \cup ({"fail", "recover"} \X Port)
    PROVE  /\ Usable(Assign(x, s)) /\ Assign(x, s).raps = x.raps
           /\ Unpaced(Assign(x, s)) = Unpaced(Assign(r, s))
<1>1. x \in Ring
  BY DEF Usable
<1>2. Usable(Assign(x, s))
  <2>1. s \in RowStep \cup ({"fail", "recover"} \X Port) /\ s[1] \in Assignment
    BY DEF RowStep, Timer, Assignment
  <2> QED BY <2>1, AssignIsUsable
<1>3. CASE s = <<"stop", "guard">>
  <2>1. \A z : Assign(z, s) = StopTimers(z, {"guard"})
    BY <1>3 DEF Assign
  <2> QED BY <1>1, <1>2, <2>1, UnpacedStops
<1>4. CASE s \in {"fail", "recover"} \X Port
  <2> DEFINE v == IF s[1] = "fail" THEN x.failed \cup {s[2]} ELSE x.failed \ {s[2]}
  <2>1. s[1] = "fail" \/ s[1] = "recover"
    BY <1>4
  <2>2. x.failed = r.failed
    BY <1>1, UnpacedAgree
  <2>3. /\ Assign(x, s) = [x EXCEPT !.failed = v]
        /\ Assign(r, s) = [r EXCEPT !.failed = v]
    <3>1. CASE s[1] = "fail"
      BY <2>2, <3>1 DEF Assign
    <3>2. CASE s[1] = "recover"
      BY <2>2, <3>2 DEF Assign
    <3> QED BY <2>1, <3>1, <3>2
  <2> HIDE DEF v
  <2>4. [x EXCEPT !.failed = v].raps = x.raps
    BY <1>1 DEF Ring
  <2>5. /\ Unpaced([x EXCEPT !.failed = v]) = [Unpaced(x) EXCEPT !.failed = v]
        /\ Unpaced([r EXCEPT !.failed = v]) = [Unpaced(r) EXCEPT !.failed = v]
    BY <1>1, UnpacedUpdates
  <2> QED BY <1>2, <2>3, <2>4, <2>5
<1> QED BY <1>3, <1>4

\* The assignments before the row are what the call has still to do.
LEMMA LeftBeforeRow ==
    ASSUME NEW c, NEW x,
           NEW s \in {<<"stop", "guard">>, <<"fail", c.named>>, <<"recover", c.named>>}
    PROVE  Left(s[1], c, x) = Left("filter?", c, Assign(x, s))
<1> DEFINE y == Assign(x, s)
<1>1. Left(s[1], c, x) = ProcessRequest(y, c.req, c.port, c.node)
  <2>1. CASE s = <<"stop", "guard">>
    BY <2>1, LeftIs DEF Assign
  <2>2. CASE s = <<"fail", c.named>>
    BY <2>2, LeftIs DEF Assign
  <2>3. CASE s = <<"recover", c.named>>
    BY <2>3, LeftIs DEF Assign
  <2> QED BY <2>1, <2>2, <2>3
<1> HIDE DEF y
<1>2. Left("filter?", c, y) = ProcessRequest(y, c.req, c.port, c.node)
  BY LeftIs
<1> QED BY <1>1, <1>2 DEF y

\* An assignment before the row.
LEMMA AssignmentComing ==
    ASSUME Inv, NEW t \in Thread, Busy(t), NEW c, c = call[t],
           NEW s, s = Head(c.todo), s[1] \in {"stop", "fail", "recover"},
           Coming(t, c, Unpaced(ring), before[t][1]),
           Advance(t, Assign(ring, s))
    PROVE  Progress(t)
<1> DEFINE r == before[t][1]
           o == Assign(ring, s)
<1>1. /\ c \in CallRec /\ c.todo \in Seq(Step) /\ c.todo # <<>> /\ ring \in Ring
      /\ Shape(t, c, row45)
  BY CallFacts DEF Busy, Usable
<1>2. Framing(t, c) /\ Kind(c)
  BY DEF Coming
<1>3. Len(c.todo) = 11 /\ Head(Tail(c.todo)) = <<"filter?">>
  BY <1>1, <1>2, WhatFollows
<1>4. /\ s \in {<<"stop", "guard">>, <<"fail", c.named>>, <<"recover", c.named>>}
      /\ s \in {<<"stop", "guard">>} \cup ({"fail", "recover"} \X Port)
  <2>1. s \in {<<"stop", "guard">>, <<"fail", c.named>>, <<"recover", c.named>>}
    <3>1. s = c.todo[1]
      BY <1>1
    <3>2. s \in {<<"guard?">>, <<"stop", "guard">>, <<"fail", c.named>>,
                 <<"recover", c.named>>}
      BY <1>2, <1>3, <3>1 DEF Framing
    <3> QED BY <3>2
  <2>2. s \in Step
    BY <1>1
  <2>3. s[1] \in {"fail", "recover"} => s \in {"fail", "recover"} \X Port
    <3>1. CASE s \in RowStep
      BY <3>1, RowStepFields DEF PlainStep
    <3>2. CASE s \in FrameStep
      BY <3>2 DEF FrameStep
    <3>3. CASE s \in OtherStep
      BY <3>3 DEF OtherStep
    <3> QED BY <2>2, <3>1, <3>2, <3>3 DEF Step
  <2> QED BY <2>1, <2>3
<1>5. PICK x : /\ Usable(x) /\ Unpaced(x) = Unpaced(ring) /\ x.raps = r.raps
               /\ Settle(c, Left(s[1], c, x)) = AtomicCall(c, r)
  BY DEF Coming
<1> DEFINE y == Assign(x, s)
<1>6. Usable(y) /\ y.raps = r.raps /\ Unpaced(y) = Unpaced(o)
  BY <1>1, <1>4, <1>5, AssignBeforeRow
<1>7. Left("filter?", c, y) = Left(s[1], c, x)
  BY <1>4, LeftBeforeRow, ZenonT(60)
<1>8. Continue(t, c, RestOf(t), o)
  BY DEF Advance
<1>9. Head(c.todo)[1] # "switch"
  OBVIOUS
<1> HIDE DEF r, o, y
<1>10. Onward(c, c, "filter?", o, y, r)
  BY <1>3, <1>5, <1>6, <1>7 DEF Onward
<1>11. ~(Len(c.todo) <= 5)
  BY <1>3
<1> QED BY <1>1, <1>2, <1>8, <1>9, <1>10, <1>11, ComingProceeds DEF r

\* ring_timer_cb stops its timer, the last step of its call.
LEMMA EndingProceeds ==
    ASSUME Inv, NEW t \in Thread, Busy(t), NEW c, c = call[t],
           Ending(c, Unpaced(ring), raps_frame, before[t][1]),
           NEW s, s = Head(c.todo),
           Advance(t, Assign(ring, s)), raps_frame' = raps_frame
    PROVE  Progress(t)
<1> DEFINE r  == before[t][1]
           r1 == Assign(ring, s)
<1>1. c \in CallRec /\ ring \in Ring
  BY CallFacts DEF Usable
<1>2. s = <<"stop", "wtr">> /\ RestOf(t) = <<>>
  <2>1. c.todo = << <<"stop", "wtr">> >>
    BY DEF Ending, Stop
  <2>2. Head(<< <<"stop", "wtr">> >>) = <<"stop", "wtr">>
        /\ Tail(<< <<"stop", "wtr">> >>) = <<>>
    OBVIOUS
  <2> QED BY <2>1, <2>2 DEF RestOf
<1>3. r1 = StopTimers(ring, {"wtr"})
  <2>1. \A z : Assign(z, <<"stop", "wtr">>) = StopTimers(z, {"wtr"})
    BY DEF Assign
  <2> QED BY <1>2, <2>1, SMTT(30)
<1>4. PICK x \in Ring : /\ Unpaced(x) = Unpaced(ring)
                        /\ raps_frame = Encoded(x) \/ x.raps = r.raps
                        /\ StopTimers(x, {"wtr"}) = AtomicCall(c, r)
  BY DEF Ending
<1>5. Unpaced(r1) = Unpaced(AtomicCall(c, r))
  BY <1>1, <1>3, <1>4, UnpacedStops
<1>6. x.raps = ring.raps /\ x.node_id = ring.node_id
  BY <1>1, <1>4, UnpacedAgree
<1>7. r1.raps = ring.raps /\ r1.node_id = ring.node_id
  BY <1>1, <1>3 DEF StopTimers, Ring
<1>8. ring.raps # r.raps => raps_frame = Encoded(r1)
  BY <1>4, <1>6, <1>7 DEF Encoded
<1>9. Continue(t, c, <<>>, r1)
  BY <1>2 DEF Advance
<1> HIDE DEF r1
<1>10. Proceeds(t, call[t], ring.raps, c, <<>>, r1, raps_frame', r)
  BY <1>5, <1>8 DEF Proceeds, Atomic
<1> QED BY <1>1, <1>9, <1>10, StepProceeds

\* The assignments.
LEMMA AssignsProgress ==
    ASSUME Inv, NEW t \in Thread, Assigns(t),
           Phase(t, call[t], Unpaced(ring), raps_frame, before[t][1])
    PROVE  Progress(t)
<1> DEFINE c == call[t]
           s == Head(c.todo)
           r == before[t][1]
<1>1. /\ Busy(t) /\ s[1] \in Assignment /\ Advance(t, Assign(ring, s))
      /\ raps_frame' = raps_frame
  BY DEF Assigns, AtOneOf, aside
<1>2. /\ c \in CallRec /\ c.todo \in Seq(Step) /\ c.todo # <<>> /\ ring \in Ring
      /\ c.new \in RingState
  BY <1>1, CallFacts DEF Busy, Usable, CallRec
<1> DEFINE o == Assign(ring, s)
<1>3. Continue(t, c, RestOf(t), o)
  BY <1>1 DEF Advance
<1>4. CASE InRow(c, Unpaced(ring), raps_frame, r)
  <2>1. s \in RowStep /\ s # <<"store">>
    <3>1. Head(c.todo) = <<"store">> \/ Head(c.todo) \in RowStep
      BY <1>4, RowListHead DEF InRow
    <3>2. s # <<"store">>
      BY <1>1 DEF Assignment
    <3> QED BY <3>1, <3>2
  <2>2. InMemory(c, Unpaced(o), raps_frame') = Do(InMemory(c, Unpaced(ring), raps_frame), s)
    BY <1>1, <1>2, <2>1, AssignInMemory
  <2>3. s # <<"load_request">> /\ s # <<"load_flags">>
    BY <1>1 DEF Assignment
  <2> HIDE DEF c, s, r, o
  <2> QED BY <1>1, <1>2, <1>3, <1>4, <2>1, <2>2, <2>3, RowStepProceeds DEF c, s, r
<1>5. CASE Coming(t, c, Unpaced(ring), r) /\ s[1] \in {"stop", "fail", "recover"}
  BY <1>1, <1>5, AssignmentComing
<1>6. CASE Ending(c, Unpaced(ring), raps_frame, r)
  BY <1>1, <1>6, EndingProceeds
<1>7. s[1] \in RowName \cup {"stop", "fail", "recover"}
  BY <1>1 DEF RowName, PlainStep, Assignment
<1>8. /\ s[1] \in {"fail", "recover"} => Coming(t, c, Unpaced(ring), r)
      /\ s[1] \in RowName => InRow(c, Unpaced(ring), raps_frame, r)
      /\ s[1] = "stop" => \/ Coming(t, c, Unpaced(ring), r)
                          \/ Ending(c, Unpaced(ring), raps_frame, r)
                          \/ InRow(c, Unpaced(ring), raps_frame, r)
  BY <1>2, WhichPhase
<1> QED BY <1>4, <1>5, <1>6, <1>7, <1>8

\* What the row of a busy thread works on.
LEMMA RowFacts ==
    ASSUME Inv, NEW t \in Thread, Busy(t), NEW c, c = call[t],
           NEW m, m = InMemory(c, Unpaced(ring), raps_frame)
    PROVE  /\ c \in CallRec /\ c.todo \in Seq(Step) /\ c.todo # <<>> /\ c.new \in RingState
           /\ ring \in Ring /\ IsMemory(m) /\ m.ring = Unstored(ring, c.new)
           /\ m.ring.blocked = ring.blocked /\ m.ring.failed = ring.failed
           /\ m.ring.raps = ring.raps /\ m.ring.node_id = ring.node_id
           /\ m.ring.is_rpl_owner = ring.is_rpl_owner
           /\ m.ring.is_revertive = ring.is_revertive
           /\ m.frame = raps_frame /\ m.reg = c.reg
<1>1. /\ c \in CallRec /\ c.todo \in Seq(Step) /\ c.todo # <<>> /\ ring \in Ring
      /\ c.new \in RingState
  BY CallFacts DEF Busy, Usable, CallRec
<1>2. m.ring = Unstored(ring, c.new) /\ m.frame = raps_frame /\ m.reg = c.reg
      /\ m = [ring |-> m.ring, frame |-> m.frame, reg |-> m.reg]
  BY DEF InMemory, Unstored
<1> HIDE DEF InMemory
<1>3. /\ m.ring \in Ring /\ m.ring.blocked = ring.blocked /\ m.ring.failed = ring.failed
      /\ m.ring.raps = ring.raps /\ m.ring.node_id = ring.node_id
      /\ m.ring.is_rpl_owner = ring.is_rpl_owner
      /\ m.ring.is_revertive = ring.is_revertive
  BY <1>1, <1>2, UnstoredFields
<1> QED BY <1>1, <1>2, <1>3 DEF IsMemory

\* Row 30 or 37 announces NR and changes the new state.
LEMMA AnyBlockedLeads ==
    ASSUME NEW r \in Ring, r.blocked # {}, NEW c, c.new \in RingState,
           NEW d, d.new = "PENDING", d.reg = c.reg, NEW f,
           NEW m, m = InMemory(c, Unpaced(r), f)
    PROVE  Leads(Announcing(r, "wtb"), InMemory(d, Unpaced(r), f),
                 Do(m, <<"any_blocked?", "PENDING">>))
<1> DEFINE m2 == InMemory(d, Unpaced(r), f)
           u2 == StartTimer(m2.ring, "guard")
           k  == Started(With(m2, u2), "NR", {})
<1>1. /\ m.ring = Unstored(r, c.new) /\ m.frame = f /\ m.reg = c.reg
      /\ m2.ring = Unstored(r, "PENDING") /\ m2.frame = f /\ m2.reg = c.reg
      /\ m2 = [ring |-> m2.ring, frame |-> m2.frame, reg |-> m2.reg]
  BY DEF InMemory, Unstored
<1>2. "PENDING" \in RingState /\ "wtb" \in Timer
  BY DEF RingState, Timer
<1> HIDE DEF m2, k
<1>3. /\ m.ring \in Ring /\ m.ring.blocked = r.blocked
      /\ m2.ring \in Ring /\ r.is_rpl_owner = m2.ring.is_rpl_owner
      /\ r.is_revertive = m2.ring.is_revertive
  BY <1>1, <1>2, UnstoredFields
<1>4. IsMemory(m2)
  BY <1>1, <1>3 DEF IsMemory
<1>5. Enter(m.ring, "PENDING") = m2.ring
  BY <1>1 DEF Unstored, Enter, Unpaced, Ring
<1>6. With(m, u2) = With(m2, u2)
  BY <1>1 DEF With
<1>7. Do(m, <<"any_blocked?", "PENDING">>) = With(k, OwnerStarts(k.ring, "wtb"))
  BY <1>3, <1>5, <1>6 DEF Do, k
<1>8. Leads(Announcing(r, "wtb"), m2, With(k, OwnerStarts(k.ring, "wtb")))
  BY <1>2, <1>3, <1>4, AnnouncingLeads DEF k
<1> QED BY <1>7, <1>8 DEF m2

\* The conditions inside the rows.
LEMMA HoldsProgress ==
    ASSUME Inv, NEW t \in Thread, Holds(t),
           Phase(t, call[t], Unpaced(ring), raps_frame, before[t][1])
    PROVE  Progress(t)
<1> DEFINE c == call[t]
           s == Head(c.todo)
           r == before[t][1]
           m == InMemory(c, Unpaced(ring), raps_frame)
<1>1. /\ Busy(t) /\ raps_frame' = raps_frame
      /\ s[1] \in {"blocked?", "nonfailed?", "differs?", "any_blocked?"}
  BY HoldsCases DEF At, aside
<1>2. /\ c \in CallRec /\ c.todo \in Seq(Step) /\ c.todo # <<>> /\ c.new \in RingState
      /\ ring \in Ring /\ IsMemory(m)
      /\ m.ring.blocked = ring.blocked /\ m.ring.failed = ring.failed
      /\ m.ring.raps = ring.raps
  BY <1>1, RowFacts
<1>3. InRow(c, Unpaced(ring), raps_frame, r)
  BY <1>1, <1>2, WhichPhase DEF RowName
<1>4. s \in RowStep /\ s # <<"store">> /\ s[1] \notin {"load_request", "load_flags"}
      /\ c.new # "INIT"
  <2>1. s # <<"store">> /\ s[1] \notin {"load_request", "load_flags"}
    BY <1>1
  <2>2. RowList(c.todo, c.reg, TRUE) /\ c.new # "INIT"
    BY <1>3 DEF InRow
  <2> QED BY <2>1, <2>2, RowListHead
<1>5. ASSUME NEW a, Good(a), Insert(t, a), Leads(a, m, Do(m, s))
      PROVE  Progress(t)
  <2>1. Continue(t, c, a \o RestOf(t), ring)
    BY <1>5 DEF Insert
  <2>2. Leads(a, InMemory(c, Unpaced(ring), raps_frame),
              Do(InMemory(c, Unpaced(ring), raps_frame), s))
    BY <1>5
  <2> HIDE DEF c, s, r, m
  <2> QED BY <1>1, <1>2, <1>3, <1>4, <1>5, <2>1, <2>2, RowConditionProceeds DEF c, s, r
<1>6. CASE /\ At(t, "blocked?")
           /\ Insert(t, IsolateSteps(ring, Arg(t, 2), Arg(t, 3), Arg(t, 4)))
  <2>1. s[2] \in Port /\ s[3] \in RapsRequest /\ s[4] \in SUBSET Flag
    BY <1>4, <1>6, RowStepFields DEF At
  <2>2. Good(IsolateSteps(ring, s[2], s[3], s[4]))
    BY <2>1, IsolateStepsAreFine, SMTT(30) DEF Fine
  <2>3. Do(m, s) = Do(m, <<"blocked?", s[2], s[3], s[4]>>)
    BY <1>6 DEF Do, At
  <2> HIDE DEF m
  <2>4. Leads(IsolateSteps(ring, s[2], s[3], s[4]), m, Do(m, s))
    BY <1>2, <2>1, <2>3, IsolateLeads
  <2>5. Insert(t, IsolateSteps(ring, s[2], s[3], s[4]))
    BY <1>6 DEF Arg
  <2> QED BY <1>5, <2>2, <2>4, <2>5
<1>7. CASE /\ At(t, "nonfailed?")
           /\ Insert(t, IF Arg(t, 2) \in ring.failed THEN <<>> ELSE Unblock(Arg(t, 2)))
  <2> DEFINE a == IF s[2] \in ring.failed THEN <<>> ELSE Unblock(s[2])
  <2>1. s[2] \in Port /\ s[1] = "nonfailed?"
    BY <1>4, <1>7, RowStepFields, SMTT(30) DEF At
  <2> HIDE DEF m
  <2>2. Do(m, s) = IF s[2] \in m.ring.failed THEN m ELSE With(m, UnblockPort(m.ring, s[2]))
    BY <2>1 DEF Do
  <2>3. Good(a)
    BY <2>1, PortStepsAreFine, EmptyIsFine DEF Fine
  <2>4. Leads(a, m, Do(m, s))
    <3>1. CASE s[2] \in ring.failed
      <4>1. a = <<>> /\ Do(m, s) = m
        BY <1>2, <2>2, <3>1
      <4> QED BY <4>1, LeadsNowhere
    <3>2. CASE s[2] \notin ring.failed
      <4>1. <<"unblock", s[2]>> \in RowStep
        BY <2>1 DEF RowStep
      <4>2. Assign(m.ring, <<"unblock", s[2]>>) = UnblockPort(m.ring, s[2])
        BY DEF Assign
      <4>3. Leads(Unblock(s[2]), m, With(m, UnblockPort(m.ring, s[2])))
        BY <4>1, <4>2, StatementLeads DEF Unblock
      <4> QED BY <1>2, <2>2, <3>2, <4>3
    <3> QED BY <3>1, <3>2
  <2>5. Insert(t, a)
    BY <1>7 DEF Arg
  <2> QED BY <1>5, <2>3, <2>4, <2>5
<1>8. CASE /\ At(t, "differs?")
           /\ Insert(t, IF ring.raps = [request |-> Arg(t, 2), flags |-> Arg(t, 3)]
                        THEN <<>> ELSE BurstSteps(Arg(t, 2), Arg(t, 3)))
  <2> DEFINE a == IF ring.raps = [request |-> s[2], flags |-> s[3]]
                  THEN <<>> ELSE BurstSteps(s[2], s[3])
  <2>1. s[2] \in RapsRequest /\ s[3] \in SUBSET Flag /\ s[1] = "differs?"
    BY <1>4, <1>8, RowStepFields, SMTT(30) DEF At
  <2> HIDE DEF m
  <2>2. Do(m, s) = Sent(m, s[2], s[3])
    BY <2>1 DEF Do
  <2>3. Good(a)
    BY <2>1, BurstStepsAreFine, EmptyIsFine DEF Fine
  <2>4. Leads(a, m, Do(m, s))
    <3>1. CASE ring.raps = [request |-> s[2], flags |-> s[3]]
      <4>1. a = <<>> /\ Do(m, s) = m
        BY <1>2, <2>2, <3>1 DEF Sent, Message
      <4> QED BY <4>1, LeadsNowhere
    <3>2. CASE ring.raps # [request |-> s[2], flags |-> s[3]]
      <4>1. m.ring.raps # Message(s[2], s[3])
        BY <1>2, <3>2 DEF Message
      <4>2. Leads(BurstSteps(s[2], s[3]), m, Sent(m, s[2], s[3]))
        BY <1>2, <2>1, <4>1, BurstLeads
      <4> QED BY <2>2, <3>2, <4>2
    <3> QED BY <3>1, <3>2
  <2>5. Insert(t, a)
    BY <1>8 DEF Arg
  <2> QED BY <1>5, <2>3, <2>4, <2>5, SMTT(30)
<1>9. CASE At(t, "any_blocked?") /\ ring.blocked = {} /\ Insert(t, <<>>)
  <2> HIDE DEF m
  <2>1. Do(m, s) = m
    BY <1>2, <1>9 DEF Do, At
  <2> QED BY <1>5, <1>9, <2>1, LeadsNowhere, EmptyIsFine DEF Fine
<1>10. CASE /\ At(t, "any_blocked?") /\ ring.blocked # {}
            /\ Continue(t, [call[t] EXCEPT !.new = Arg(t, 2)],
                        Announcing(ring, "wtb") \o RestOf(t), ring)
  <2> DEFINE d == [c EXCEPT !.new = Arg(t, 2)]
             a == Announcing(ring, "wtb")
  <2>1. s = <<"any_blocked?", "PENDING">> /\ Arg(t, 2) = "PENDING"
    <3>1. s[1] = "any_blocked?"
      BY <1>10 DEF At
    <3>2. s = <<"any_blocked?", "PENDING">>
      BY <1>4, <3>1 DEF RowStep, PlainStep
    <3> QED BY <3>2 DEF Arg
  <2>2. /\ d \in CallRec /\ d.new = "PENDING" /\ d.after = c.after /\ d.reg = c.reg
        /\ d.origin = c.origin /\ d.req = c.req /\ d.port = c.port /\ d.node = c.node
        /\ d.named = c.named /\ d.expired = c.expired
    BY <1>2, <2>1 DEF CallRec, RingState
  <2>3. Good(a)
    BY OwnerStepsAreFine DEF Timer, Fine
  <2>4. Continue(t, d, a \o RestOf(t), ring)
    BY <1>10
  <2> HIDE DEF d, a, m
  <2>5. Leads(a, InMemory(d, Unpaced(ring), raps_frame), Do(m, s))
    BY <1>2, <1>10, <2>1, <2>2, AnyBlockedLeads DEF m, a
  <2>6. Leads(a, InMemory(d, Unpaced(ring), raps_frame),
              Do(InMemory(c, Unpaced(ring), raps_frame), s))
    BY <2>5 DEF m
  <2> HIDE DEF c, s, r
  <2> QED BY <1>1, <1>2, <1>3, <1>4, <2>2, <2>3, <2>4, <2>6, RowConditionProceeds
          DEF c, s, r
<1> QED BY <1>6, <1>7, <1>8, <1>9, <1>10, HoldsCases

\* er_raps_encode fills in the buffer field by field.
LEMMA EncodesProgress ==
    ASSUME Inv, NEW t \in Thread, Encodes(t),
           Phase(t, call[t], Unpaced(ring), raps_frame, before[t][1])
    PROVE  Progress(t)
<1> DEFINE c == call[t]
           s == Head(c.todo)
           r == before[t][1]
           m == InMemory(c, Unpaced(ring), raps_frame)
<1>1. /\ Busy(t) /\ s[1] \in FrameStore \cup {"load_request", "load_flags"}
  BY DEF Encodes, AtOneOf, FrameLoad
<1>2. /\ c \in CallRec /\ c.todo \in Seq(Step) /\ c.todo # <<>>
      /\ ring \in Ring /\ m.ring.raps = ring.raps /\ m.ring.node_id = ring.node_id
      /\ m.frame = raps_frame /\ m.reg = c.reg /\ Usable(ring)
  BY <1>1, RowFacts, CallFacts
<1>3. InRow(c, Unpaced(ring), raps_frame, r)
  BY <1>1, <1>2, WhichPhase DEF RowName, PlainStep, FrameStore
<1>4. s \in RowStep /\ s # <<"store">>
  <2>1. s # <<"store">>
    BY <1>1 DEF FrameStore
  <2>2. RowList(c.todo, c.reg, TRUE)
    BY <1>3 DEF InRow
  <2> QED BY <2>1, <2>2, RowListHead
<1>5. s = << s[1] >>
  BY <1>1, <1>4, RowStepFields DEF FrameStore, PlainStep
<1>6. /\ m.ring = Enter(Unpaced(ring), c.new)
      /\ \A d, f : d.new = c.new =>
             InMemory(d, Unpaced(ring), f) = [ring |-> m.ring, frame |-> f, reg |-> d.reg]
  BY DEF InMemory
<1>7. ASSUME NEW d \in CallRec, d.new = c.new, d.after = c.after,
             d.origin = c.origin, d.req = c.req, d.port = c.port, d.node = c.node,
             d.named = c.named, d.expired = c.expired,
             s = <<"load_request">> => d.reg \in LoadedRequest,
             s = <<"load_flags">>   => d.reg \in LoadedFlags,
             Continue(t, d, RestOf(t), ring),
             [ring |-> m.ring, frame |-> raps_frame', reg |-> d.reg] = Do(m, s)
      PROVE  Progress(t)
  <2>1. InMemory(d, Unpaced(ring), raps_frame')
            = Do(InMemory(c, Unpaced(ring), raps_frame), s)
    BY <1>6, <1>7
  <2> HIDE DEF c, s, r, m
  <2> QED BY <1>1, <1>3, <1>4, <1>7, <2>1, RowStepProceeds DEF c, s, r
<1> HIDE DEF m
<1>8. CASE At(t, "load_request")
  <2> DEFINE d == [c EXCEPT !.reg = <<ring.raps.request>>]
  <2>1. /\ s[1] = "load_request" /\ Continue(t, d, RestOf(t), ring)
        /\ raps_frame' = raps_frame
    BY <1>8 DEF Encodes, At
  <2>2. <<ring.raps.request>> \in LoadedRequest
    BY <1>2 DEF Ring, LoadedRequest
  <2>3. /\ d \in CallRec /\ d.new = c.new /\ d.after = c.after /\ d.reg = <<ring.raps.request>>
        /\ d.origin = c.origin /\ d.req = c.req /\ d.port = c.port /\ d.node = c.node
        /\ d.named = c.named /\ d.expired = c.expired
    BY <1>2, <2>2 DEF CallRec
  <2>4. s # <<"load_flags">>
    BY <2>1
  <2>5. Do(m, s) = [ring |-> m.ring, frame |-> m.frame, reg |-> <<m.ring.raps.request>>]
    BY <2>1 DEF Do
  <2> HIDE DEF d
  <2> QED BY <1>2, <1>7, <2>1, <2>2, <2>3, <2>4, <2>5
<1>9. CASE At(t, "load_flags")
  <2> DEFINE d == [c EXCEPT !.reg = <<ring.raps.flags>>]
  <2>1. /\ s[1] = "load_flags" /\ Continue(t, d, RestOf(t), ring)
        /\ raps_frame' = raps_frame
    BY <1>9 DEF Encodes, At
  <2>2. <<ring.raps.flags>> \in LoadedFlags
    BY <1>2 DEF Ring, LoadedFlags
  <2>3. /\ d \in CallRec /\ d.new = c.new /\ d.after = c.after /\ d.reg = <<ring.raps.flags>>
        /\ d.origin = c.origin /\ d.req = c.req /\ d.port = c.port /\ d.node = c.node
        /\ d.named = c.named /\ d.expired = c.expired
    BY <1>2, <2>2 DEF CallRec
  <2>4. s # <<"load_request">>
    BY <2>1
  <2>5. Do(m, s) = [ring |-> m.ring, frame |-> m.frame, reg |-> <<m.ring.raps.flags>>]
    BY <2>1 DEF Do
  <2> HIDE DEF d
  <2> QED BY <1>2, <1>7, <2>1, <2>2, <2>3, <2>4, <2>5
<1>10. CASE s[1] \in FrameStore
  <2>1. s # <<"load_request">> /\ s # <<"load_flags">>
    BY <1>10 DEF FrameStore
  <2>2. Continue(t, c, RestOf(t), ring)
    BY <1>10 DEF Encodes, At, FrameStore, Advance
  <2>3. [ring |-> m.ring, frame |-> raps_frame', reg |-> m.reg] = Do(m, s)
    <3>1. CASE s[1] = "wipe"
      <4>1. raps_frame' = [request |-> "NR", flags |-> {}, node_id |-> NoNode]
        BY <3>1 DEF Encodes, At
      <4>2. Do(m, s) = [ring |-> m.ring, frame |-> [request |-> "NR", flags |-> {},
                                                    node_id |-> NoNode], reg |-> m.reg]
        BY <3>1 DEF Do
      <4> QED BY <4>1, <4>2
    <3>2. CASE s[1] = "store_request"
      <4>1. raps_frame' = [raps_frame EXCEPT !.request = c.reg[1]]
        BY <3>2 DEF Encodes, At
      <4>2. Do(m, s) = [ring |-> m.ring, frame |-> [m.frame EXCEPT !.request = m.reg[1]],
                        reg |-> m.reg]
        BY <3>2 DEF Do
      <4> QED BY <1>2, <4>1, <4>2
    <3>3. CASE s[1] = "store_flags"
      <4>1. raps_frame' = [raps_frame EXCEPT !.flags = c.reg[1]]
        BY <3>3 DEF Encodes, At
      <4>2. Do(m, s) = [ring |-> m.ring, frame |-> [m.frame EXCEPT !.flags = m.reg[1]],
                        reg |-> m.reg]
        BY <3>3 DEF Do
      <4> QED BY <1>2, <4>1, <4>2
    <3>4. CASE s[1] = "store_node_id"
      <4>1. raps_frame' = [raps_frame EXCEPT !.node_id = ring.node_id]
        BY <3>4 DEF Encodes, At
      <4>2. Do(m, s) = [ring |-> m.ring,
                        frame |-> [m.frame EXCEPT !.node_id = m.ring.node_id],
                        reg |-> m.reg]
        BY <3>4 DEF Do
      <4> QED BY <1>2, <4>1, <4>2
    <3> QED BY <1>10, <3>1, <3>2, <3>3, <3>4 DEF FrameStore
  <2> HIDE DEF c, s
  <2> QED BY <1>2, <1>7, <2>1, <2>2, <2>3
<1> QED BY <1>8, <1>9, <1>10 DEF Encodes, At, FrameStore

\* What port_cb makes of the ring.
LEMMA PortCallIs ==
    ASSUME NEW c, c.origin = "port_cb", NEW r
    PROVE  /\ \A x : Settle(c, x) = x
           /\ "guard" \in r.timers /\ ~c.expired => AtomicCall(c, r) = r
           /\ "guard" \notin r.timers \/ c.expired =>
                  AtomicCall(c, r)
                      = ProcessRequest(StopTimers(r, {"guard"}), c.req, c.port, c.node)
<1>1. \A x : Settle(c, x) = x
  BY DEF Settle
<1>2. "guard" \in r.timers /\ ~c.expired => AtomicCall(c, r) = r
  BY DEF AtomicCall
<1>3. "guard" \notin r.timers \/ c.expired =>
          AtomicCall(c, r) = ProcessRequest(StopTimers(r, {"guard"}), c.req, c.port, c.node)
  BY DEF AtomicCall
<1> QED BY <1>1, <1>2, <1>3

\* ring_process_raps looks at the guard timer.
LEMMA GuardTestProgress ==
    ASSUME Inv, NEW expired \in BOOLEAN, GuardTest(expired), NEW t, t = "loop",
           Phase(t, call[t], Unpaced(ring), raps_frame, before[t][1])
    PROVE  Progress(t)
<1> DEFINE c == call[t]
           r == before[t][1]
<1>0. t \in Thread
  BY DEF Thread
<1>1. Busy(t) /\ c.todo # <<>> /\ Head(c.todo)[1] = "guard?"
  BY DEF GuardTest, At, Busy
<1>2. c \in CallRec /\ c.todo \in Seq(Step) /\ ring \in Ring
  BY <1>0, CallFacts DEF Usable
<1>3. /\ c.origin = "port_cb" /\ Framing(t, c) /\ Len(c.todo) = 11 /\ Kind(c) /\ ~c.expired
      /\ Usable(r) /\ Unpaced(r) = Unpaced(ring)
  BY <1>1, <1>2, WhichPhase DEF Guarding
<1>4. r.timers = ring.timers /\ r \in Ring
  BY <1>2, <1>3, UnpacedAgree DEF Usable
<1>5. Head(Tail(c.todo)) = <<"filter?">>
  BY <1>1, <1>2, <1>3, WhatFollows
<1>6. CASE "guard" \notin ring.timers /\ Advance(t, ring)
  <2>1. StopTimers(r, {"guard"}) = r
    <3>1. r.timers \ {"guard"} = r.timers
      BY <1>4, <1>6
    <3>2. StopTimers(r, {"guard"}) = [r EXCEPT !.timers = r.timers]
      BY <3>1 DEF StopTimers
    <3> QED BY <1>4, <3>2 DEF Ring
  <2>2. Settle(c, Left("filter?", c, r)) = AtomicCall(c, r)
    <3>1. AtomicCall(c, r) = ProcessRequest(r, c.req, c.port, c.node)
      BY <1>3, <1>4, <1>6, <2>1, PortCallIs
    <3>2. Left("filter?", c, r) = ProcessRequest(r, c.req, c.port, c.node)
      BY LeftIs
    <3> HIDE DEF c, r
    <3> QED BY <1>3, <3>1, <3>2, PortCallIs
  <2>3. Onward(c, c, "filter?", ring, r, r)
    BY <1>3, <1>5, <2>2 DEF Onward
  <2>4. Continue(t, c, RestOf(t), ring)
    BY <1>6 DEF Advance
  <2>5. ~(Len(c.todo) <= 5) /\ Head(c.todo)[1] # "switch"
    BY <1>1, <1>3
  <2> HIDE DEF c, r
  <2> QED BY <1>0, <1>1, <1>2, <1>3, <2>3, <2>4, <2>5, ComingProceeds DEF c, r
<1>7. CASE "guard" \in ring.timers /\ Return(t)
  <2>1. Settle(c, r) = AtomicCall(c, r)
    BY <1>3, <1>4, <1>7, PortCallIs
  <2> HIDE DEF c, r
  <2> QED BY <1>0, <1>3, <1>7, <2>1, ReturnsProceed DEF c, r
<1>8. CASE Continue(t, [call["loop"] EXCEPT !.expired = TRUE],
                    Stop("guard") \o RestOf("loop"), ring)
  <2> DEFINE e    == [c EXCEPT !.expired = TRUE]
             todo == Stop("guard") \o RestOf(t)
             d    == [e EXCEPT !.todo = todo]
  <2>1. /\ e \in CallRec /\ d.todo = todo /\ d.origin = c.origin /\ d.req = c.req
        /\ d.port = c.port /\ d.node = c.node /\ d.named = c.named /\ d.after = c.after
        /\ d.expired
    BY <1>2 DEF CallRec
  <2>2. <<"stop", "guard">> \in Step
    BY DEF Step, RowStep, Timer
  <2>3. /\ todo \in Seq(Step) /\ Len(todo) = 11 /\ todo[1] = <<"stop", "guard">>
        /\ \A k \in 2 .. 11 : todo[k] = c.todo[k]
    BY <1>1, <1>2, <1>3, <2>2 DEF Stop, RestOf
  <2>4. \A k \in 1 .. 11 : 10 - 11 + k >= 1 => todo[k] = ProcessSteps[10 - 11 + k]
    <3> SUFFICES ASSUME NEW k \in 1 .. 11, 10 - 11 + k >= 1
                 PROVE  todo[k] = ProcessSteps[10 - 11 + k]
      OBVIOUS
    <3>1. k \in 2 .. 11
      OBVIOUS
    <3> QED BY <1>3, <2>3, <3>1 DEF Framing
  <2>5. Continue(t, e, todo, ring) /\ d = [e EXCEPT !.todo = todo]
    BY <1>8
  <2>6. todo # <<>> /\ Head(todo) = <<"stop", "guard">> /\ Head(todo)[1] = "stop"
    BY <2>3, SMTT(30)
  <2> HIDE DEF d, e, todo
  <2>7. Framing(t, d)
    BY <1>3, <2>1, <2>3, <2>4 DEF Framing
  <2>8. Kind(d)
    BY <1>3, <2>1 DEF Kind
  <2>9. Settle(d, Left("stop", d, r)) = AtomicCall(d, r)
    <3>1. d.origin = "port_cb" /\ d.expired
      BY <1>3, <2>1
    <3>2. AtomicCall(d, r)
              = ProcessRequest(StopTimers(r, {"guard"}), d.req, d.port, d.node)
      BY <3>1, PortCallIs
    <3>3. Left("stop", d, r)
              = ProcessRequest(StopTimers(r, {"guard"}), d.req, d.port, d.node)
      BY LeftIs
    <3> HIDE DEF r
    <3> QED BY <3>1, <3>2, <3>3, PortCallIs
  <2>10. Coming(t, d, Unpaced(ring), r)
    BY <1>3, <2>1, <2>6, <2>7, <2>8, <2>9 DEF Coming
  <2>11. Proceeds(t, c, ring.raps, e, todo, ring, raps_frame', r)
    BY <2>5, <2>6, <2>10 DEF Proceeds, Phase
  <2> QED BY <1>0, <2>1, <2>5, <2>11, StepProceeds
<1> QED BY <1>6, <1>7, <1>8 DEF GuardTest

\* A step of send_raps_cb, which only the pace is about.
LEMMA SendingProceeds ==
    ASSUME Inv, NEW t \in Thread, NEW c, c = call[t], NEW r, r = before[t][1],
           Sending(t, c, Unpaced(ring), r),
           NEW e \in CallRec, e.origin = c.origin,
           NEW todo \in SendLists \cup {<<>>},
           NEW r1 \in Ring, Unpaced(r1) = Unpaced(ring), Continue(t, e, todo, r1)
    PROVE  Progress(t)
<1>1. /\ t = "loop" /\ c.origin = "send_raps_cb" /\ r \in Ring /\ Unpaced(r) = Unpaced(ring)
  BY DEF Sending
<1>2. CASE todo = <<>>
  <2>1. AtomicCall(c, r) = r
    BY <1>1 DEF AtomicCall
  <2>2. ring.raps = r.raps
    <3>1. ring \in Ring
      BY CallFacts DEF Usable
    <3> QED BY <1>1, <3>1, UnpacedAgree
  <2>3. Proceeds(t, c, ring.raps, e, todo, r1, raps_frame', r)
    BY <1>1, <1>2, <2>1, <2>2 DEF Proceeds, Atomic
  <2> QED BY <2>3, StepProceeds
<1>3. CASE todo # <<>>
  <2> DEFINE d == [e EXCEPT !.todo = todo]
  <2>1. d.origin = c.origin /\ d.todo = todo /\ todo \in SendLists
    BY <1>3 DEF CallRec
  <2> HIDE DEF d
  <2>2. Sending(t, d, Unpaced(r1), r)
    BY <1>1, <2>1 DEF Sending
  <2>3. Proceeds(t, c, ring.raps, e, todo, r1, raps_frame', r)
    BY <1>3, <2>2 DEF Proceeds, Phase, d
  <2> QED BY <2>3, StepProceeds
<1> QED BY <1>2, <1>3

\* What is left of the lists of send_raps_cb.
LEMMA SendTails ==
    ASSUME NEW l \in SendLists
    PROVE  Head(l)[1] # "pace?" => Tail(l) \in SendLists \cup {<<>>}
<1>1. CASE l = << <<"pace?">>, <<"send">>, <<"send">> >>
  BY <1>1
<1>2. CASE l = << <<"load_bursts">>, <<"store_bursts">>, <<"send">>, <<"send">> >>
  BY <1>2 DEF SendLists
<1>3. CASE l = << <<"store_bursts">>, <<"send">>, <<"send">> >>
  BY <1>3 DEF SendLists
<1>4. CASE l = << <<"send">>, <<"send">> >>
  BY <1>4 DEF SendLists
<1>5. CASE l = << <<"send">> >>
  BY <1>5
<1> QED BY <1>1, <1>2, <1>3, <1>4, <1>5 DEF SendLists

\* The pacing of send_raps_cb, before the two frames are sent.
LEMMA PaceLists ==
    ASSUME NEW l \in SendLists, Head(l)[1] = "pace?", NEW r
    PROVE  Pace(r) \o Tail(l) \in SendLists
<1>1. l = << <<"pace?">>, <<"send">>, <<"send">> >>
  BY DEF SendLists
<1> DEFINE a == << <<"load_bursts">>, <<"store_bursts">> >>
           b == << <<"send">>, <<"send">> >>
           n == << <<"load_bursts">>, <<"store_bursts">>, <<"send">>, <<"send">> >>
<1>2. Tail(l) = b
  BY <1>1
<1>3. {<<"load_bursts">>, <<"store_bursts">>, <<"send">>} \subseteq Step
  BY DEF Step, OtherStep
<1>4. a \in Seq(Step) /\ b \in Seq(Step) /\ n \in Seq(Step)
  BY <1>3
<1>5. Len(a) = 2 /\ Len(b) = 2 /\ Len(n) = 4
  OBVIOUS
<1>6. a \o b \in Seq(Step) /\ Len(a \o b) = 4
  BY <1>4, <1>5
<1>7. \A k \in 1 .. 4 : (a \o b)[k] = n[k]
  <2>1. /\ \A k \in 1 .. 2 : (a \o b)[k] = a[k]
        /\ \A k \in 3 .. 4 : (a \o b)[k] = b[k - 2]
    BY <1>4, <1>5
  <2> QED BY <2>1
<1>8. n \in SendLists /\ b \in SendLists
  BY DEF SendLists
<1>9. Pace(r) = a \/ Pace(r) = <<>>
  BY DEF Pace
<1> HIDE DEF a, b, n
<1>10. a \o b = n
  BY <1>4, <1>5, <1>6, <1>7, SeqEqual
<1>11. <<>> \o b = b
  BY <1>4
<1> QED BY <1>2, <1>8, <1>9, <1>10, <1>11

\* send_raps_cb.
LEMMA SendsProgress ==
    ASSUME Inv, Sends, NEW t, t = "loop",
           Phase(t, call[t], Unpaced(ring), raps_frame, before[t][1])
    PROVE  Progress(t)
<1> DEFINE c == call[t]
           s == Head(c.todo)
<1>0. t \in Thread
  BY DEF Thread
<1>1. /\ c.todo # <<>> /\ s[1] \in {"pace?", "load_bursts", "store_bursts", "send"}
  BY DEF Sends, At, Busy
<1>2. /\ c \in CallRec /\ c.todo \in Seq(Step) /\ ring \in Ring
  BY <1>0, CallFacts DEF Usable
<1>3. Sending(t, c, Unpaced(ring), before[t][1])
  BY <1>1, <1>2, WhichPhase
<1>4. c.todo \in SendLists
  BY <1>3 DEF Sending
<1>5. s[1] # "pace?" => RestOf(t) \in SendLists \cup {<<>>}
  BY <1>4, SendTails DEF RestOf
<1>6. CASE At(t, "pace?") /\ Insert(t, Pace(ring))
  <2>1. Continue(t, c, Pace(ring) \o RestOf(t), ring)
    BY <1>6 DEF Insert
  <2>2. Pace(ring) \o RestOf(t) \in SendLists
    BY <1>4, <1>6, PaceLists DEF At, RestOf
  <2> QED BY <1>0, <1>2, <1>3, <2>1, <2>2, SendingProceeds
<1>7. CASE /\ At(t, "load_bursts")
           /\ Continue(t, [c EXCEPT !.reg = <<ring.bursts_remain>>], RestOf(t), ring)
  <2> DEFINE e == [c EXCEPT !.reg = <<ring.bursts_remain>>]
  <2>1. <<ring.bursts_remain>> \in { <<m>> : m \in 0 .. RAPS_BURSTS }
    BY <1>2 DEF Ring
  <2>2. e \in CallRec /\ e.origin = c.origin
    BY <1>2, <2>1 DEF CallRec
  <2>3. RestOf(t) \in SendLists \cup {<<>>}
    BY <1>5, <1>7 DEF At
  <2> HIDE DEF e
  <2> QED BY <1>0, <1>2, <1>3, <1>7, <2>2, <2>3, SendingProceeds DEF e
<1>8. CASE /\ At(t, "store_bursts")
           /\ Advance(t, [ring EXCEPT !.bursts_remain = c.reg[1] - 1])
  <2> DEFINE r1 == [ring EXCEPT !.bursts_remain = c.reg[1] - 1]
  <2>1. Counting(c, ring.bursts_remain)
    BY DEF Inv
  <2>2. s = <<"store_bursts">>
    BY <1>4, <1>8 DEF SendLists, At
  <2>3. c.reg \in { <<m>> : m \in 1 .. RAPS_BURSTS }
    BY <1>1, <2>1, <2>2 DEF Counting
  <2>4. PICK m \in 1 .. 3 : c.reg = <<m>>
    BY <2>3 DEF RAPS_BURSTS
  <2>5. r1 \in Ring
    BY <1>2, <2>4 DEF Ring, RAPS_BURSTS
  <2>6. Unpaced(r1) = Unpaced(ring)
    BY <1>2, UnpacedUpdates
  <2>7. RestOf(t) \in SendLists \cup {<<>>}
    BY <1>5, <1>8 DEF At
  <2>8. Continue(t, c, RestOf(t), r1)
    BY <1>8 DEF Advance
  <2> HIDE DEF r1
  <2> QED BY <1>0, <1>2, <1>3, <2>5, <2>6, <2>7, <2>8, SendingProceeds
<1>9. CASE At(t, "send") /\ Advance(t, ring)
  <2>1. Continue(t, c, RestOf(t), ring) /\ RestOf(t) \in SendLists \cup {<<>>}
    BY <1>5, <1>9 DEF Advance, At
  <2> QED BY <1>0, <1>2, <1>3, <2>1, SendingProceeds
<1> QED BY <1>6, <1>7, <1>8, <1>9 DEF Sends

-----------------------------------------------------------------------------
(***************************************************************************)
(* The steps of both threads.                                              *)
(***************************************************************************)

\* What UndisturbedCallIsAtomic says of a step.
EndsAtomic ==
    \A t \in Thread :
        before[t] # NoRing /\ Busy(t) /\ ~Busy(t)' =>
            LET r == before[t][1]
            IN  /\ Unpaced(ring') = Unpaced(AtomicCall(call[t], r))
                /\ ring.raps # r.raps => raps_frame' = Encoded(ring')

\* A step of thread t inside its call.
Moves(t) ==
    /\ Busy(t)
    /\ \E c, todo, r : Continue(t, c, todo, r)
    /\ raps_frame' = raps_frame \/ Head(call[t].todo)[1] \in FrameStore

\* The thread whose step it is proceeds, and the other one is left alone or knows
\* that it has been disturbed.
LEMMA MoveKeeps ==
    ASSUME Inv, Undisturbed, NEW t \in Thread, Moves(t),
           Phase(t, call[t], Unpaced(ring), raps_frame, before[t][1]) => Progress(t)
    PROVE  Undisturbed' /\ EndsAtomic
<1>1. PICK c, todo, r : Continue(t, c, todo, r)
  BY DEF Moves
<1>2. call \in [Thread -> CallRec]
  BY DEF Inv
<1>3. before \in [Thread -> {NoRing} \cup {<<x>> : x \in Ring}]
  BY DEF Undisturbed
<1>4. /\ ring' = r /\ call' = [call EXCEPT ![t] = IF todo = <<>> THEN NoCall
                                                  ELSE [c EXCEPT !.todo = todo]]
      /\ before' = [u \in Thread |->
             IF \/ u = t /\ todo = <<>>
                \/ u # t /\ \/ Unpaced(r) # Unpaced(ring)
                             \/ Head(call[t].todo)[1] \in FrameStore
             THEN NoRing ELSE before[u]]
  BY <1>1 DEF Continue
<1>5. before' \in [Thread -> {NoRing} \cup {<<x>> : x \in Ring}]
  BY <1>3, <1>4
<1>6. ASSUME NEW u \in Thread, u # t
      PROVE  /\ call'[u] = call[u]
             /\ before'[u] # NoRing =>
                    /\ before'[u] = before[u] /\ raps_frame' = raps_frame
                    /\ Unpaced(ring') = Unpaced(ring)
  <2>1. call'[u] = call[u]
    BY <1>2, <1>4, <1>6
  <2>2. before'[u] # NoRing =>
            /\ before'[u] = before[u] /\ Unpaced(ring') = Unpaced(ring)
            /\ Head(call[t].todo)[1] \notin FrameStore
    BY <1>4, <1>6
  <2> QED BY <2>1, <2>2 DEF Moves
<1>7. before[t] # NoRing => Progress(t)
  BY DEF Undisturbed, Moves
<1>8. before'[t] # NoRing /\ call'[t].todo # <<>> =>
          Phase(t, call'[t], Unpaced(ring'), raps_frame', before'[t][1])
  <2> SUFFICES ASSUME before'[t] # NoRing, call'[t].todo # <<>>
               PROVE  Phase(t, call'[t], Unpaced(ring'), raps_frame', before'[t][1])
    OBVIOUS
  <2>1. before'[t] = before[t]
    BY <1>4
  <2> QED BY <1>7, <2>1 DEF Progress
<1>9. Undisturbed'
  <2>1. ASSUME NEW u \in Thread, before'[u] # NoRing, call'[u].todo # <<>>
        PROVE  Phase(u, call'[u], Unpaced(ring'), raps_frame', before'[u][1])
    <3>1. CASE u = t
      BY <1>8, <2>1, <3>1
    <3>2. CASE u # t
      <4>1. /\ call'[u] = call[u] /\ before'[u] = before[u] /\ raps_frame' = raps_frame
            /\ Unpaced(ring') = Unpaced(ring)
        BY <1>6, <2>1, <3>2
      <4>2. Phase(u, call[u], Unpaced(ring), raps_frame, before[u][1])
        BY <2>1, <4>1 DEF Undisturbed, Busy
      <4> QED BY <4>1, <4>2
    <3> QED BY <3>1, <3>2
  <2> QED BY <1>5, <2>1 DEF Undisturbed, Busy
<1>10. EndsAtomic
  <2> SUFFICES ASSUME NEW u \in Thread, before[u] # NoRing, call[u].todo # <<>>,
                      call'[u].todo = <<>>
               PROVE  /\ Unpaced(ring') = Unpaced(AtomicCall(call[u], before[u][1]))
                      /\ ring.raps # before[u][1].raps => raps_frame' = Encoded(ring')
    BY DEF EndsAtomic, Busy
  <2>1. u = t
    BY <1>6
  <2> QED BY <1>7, <2>1 DEF Progress, Atomic
<1> QED BY <1>9, <1>10

\* A call begins.
LEMMA BeginUndisturbed ==
    ASSUME Inv, Undisturbed, NEW t \in Thread, NEW c \in CallRec, Begin(t, c),
           Phase(t, c, Unpaced(ring), raps_frame, ring)
    PROVE  Undisturbed' /\ EndsAtomic
<1>1. call \in [Thread -> CallRec] /\ ring \in Ring
  BY DEF Inv, Usable
<1>2. before \in [Thread -> {NoRing} \cup {<<x>> : x \in Ring}]
  BY DEF Undisturbed
<1>3. /\ ~Busy(t) /\ call' = [call EXCEPT ![t] = c]
      /\ before' = [before EXCEPT ![t] = <<ring>>]
      /\ ring' = ring /\ raps_frame' = raps_frame
  BY DEF Begin, aside
<1>4. before' \in [Thread -> {NoRing} \cup {<<x>> : x \in Ring}]
  BY <1>1, <1>2, <1>3
<1>5. call'[t] = c /\ before'[t] = <<ring>> /\ before'[t][1] = ring
  BY <1>1, <1>2, <1>3
<1>6. \A u \in Thread : u # t => call'[u] = call[u] /\ before'[u] = before[u]
  BY <1>1, <1>2, <1>3
<1>7. ASSUME NEW u \in Thread, before'[u] # NoRing, call'[u].todo # <<>>
      PROVE  Phase(u, call'[u], Unpaced(ring'), raps_frame', before'[u][1])
  <2>1. CASE u = t
    BY <1>3, <1>5, <2>1
  <2>2. CASE u # t
    <3>1. call'[u] = call[u] /\ before'[u] = before[u]
      BY <1>6, <2>2
    <3>2. Phase(u, call[u], Unpaced(ring), raps_frame, before[u][1])
      BY <1>7, <3>1 DEF Undisturbed, Busy
    <3> QED BY <1>3, <3>1, <3>2
  <2> QED BY <2>1, <2>2
<1>8. Undisturbed'
  BY <1>4, <1>7 DEF Undisturbed, Busy
<1>9. EndsAtomic
  BY <1>3, <1>6 DEF EndsAtomic, Busy
<1> QED BY <1>8, <1>9

\* Nothing happens to the threads: the process dies, or nobody takes a step.
LEMMA RestUndisturbed ==
    ASSUME Undisturbed, UNCHANGED <<ring, raps_frame, call, before>>
    PROVE  Undisturbed' /\ EndsAtomic
<1>1. Undisturbed'
  BY DEF Undisturbed, Busy
<1>2. EndsAtomic
  BY DEF EndsAtomic, Busy
<1> QED BY <1>1, <1>2

\* A step of either thread inside its call.
LEMMA RunsUndisturbed ==
    ASSUME Inv, Undisturbed, NEW t \in Thread, Runs(t)
    PROVE  Undisturbed' /\ EndsAtomic
<1>1. CASE Deduplicates(t) /\ Die
  <2>1. UNCHANGED <<ring, raps_frame, call, before>>
    BY <1>1 DEF Die
  <2> QED BY <2>1, RestUndisturbed
<1>2. CASE ~(Deduplicates(t) /\ Die)
  <2>1. Phase(t, call[t], Unpaced(ring), raps_frame, before[t][1]) => Progress(t)
    BY <1>2, FiltersProgress, RetainsProgress, EntersProgress, DeduplicatesProgress,
       RemembersProgress, SwitchesProgress, StoresProgress, AssignsProgress,
       HoldsProgress, EncodesProgress DEF Runs
  <2>2. Moves(t)
    <3>1. CASE Encodes(t)
      <4>1. Busy(t)
        BY <3>1 DEF Encodes, AtOneOf
      <4>2. \E c, todo, r : Continue(t, c, todo, r)
        BY <3>1 DEF Encodes, Advance
      <4>3. raps_frame' = raps_frame \/ Head(call[t].todo)[1] \in FrameStore
        BY <3>1 DEF Encodes, At, FrameStore
      <4> QED BY <4>1, <4>2, <4>3 DEF Moves
    <3>2. CASE Filters(t) \/ Retains(t) \/ Enters(t)
      <4>1. Busy(t) /\ raps_frame' = raps_frame
        BY <3>2 DEF Filters, Retains, Enters, At, aside
      <4>2. \E c, todo, r : Continue(t, c, todo, r)
        BY <3>2 DEF Filters, Retains, Enters, Advance, Return
      <4> QED BY <4>1, <4>2 DEF Moves
    <3>3. CASE Deduplicates(t)
      <4>1. Busy(t) /\ raps_frame' = raps_frame
        BY <1>2, <3>3 DEF Deduplicates, At, aside
      <4>2. \E c, todo, r : Continue(t, c, todo, r)
        BY <1>2, <3>3 DEF Deduplicates, Advance, Return
      <4> QED BY <4>1, <4>2 DEF Moves
    <3>4. CASE Remembers(t) \/ Switches(t) \/ Stores(t)
      <4>1. Busy(t) /\ raps_frame' = raps_frame
        BY <3>4 DEF Remembers, Switches, Stores, At, aside
      <4>2. \E c, todo, r : Continue(t, c, todo, r)
        BY <3>4 DEF Remembers, Switches, Stores, Advance
      <4> QED BY <4>1, <4>2 DEF Moves
    <3>5. CASE Assigns(t) \/ Holds(t)
      <4>1. Busy(t) /\ raps_frame' = raps_frame
        BY <3>5 DEF Assigns, Holds, At, AtOneOf, aside
      <4>2. \E c, todo, r : Continue(t, c, todo, r)
        BY <3>5 DEF Assigns, Holds, Advance, Insert
      <4> QED BY <4>1, <4>2 DEF Moves
    <3> QED BY <3>1, <3>2, <3>3, <3>4, <3>5 DEF Runs
  <2> QED BY <2>1, <2>2, MoveKeeps
<1> QED BY <1>1, <1>2

\* ring_process_request and the frame of ring_fsm.
LEMMA TenSteps == ProcessSteps \in Seq(Step) /\ Len(ProcessSteps) = 10
<1> DEFINE f == [NoCall EXCEPT !.todo = ProcessSteps]
<1>1. f.todo = ProcessSteps /\ Named(f.req, f.port)
  BY DEF NoCall, Named, PortRequest
<1> QED BY <1>1, ProcessStepsFrame

\* A call that begins on its way to the row.
LEMMA CallBeginsUndisturbed ==
    ASSUME Inv, Undisturbed, NEW t \in Thread, NEW c \in CallRec, Begin(t, c),
           Framing(t, c), Kind(c),
           NEW name \in {"filter?", "fail", "recover"}, Head(c.todo)[1] = name,
           Settle(c, Left(name, c, ring)) = AtomicCall(c, ring)
    PROVE  Undisturbed' /\ EndsAtomic
<1>1. Usable(ring)
  BY DEF Inv
<1>2. Coming(t, c, Unpaced(ring), ring)
  BY <1>1 DEF Coming
<1>3. Phase(t, c, Unpaced(ring), raps_frame, ring)
  BY <1>2 DEF Phase
<1> QED BY <1>3, BeginUndisturbed

\* A call that begins with the processing of its request.
LEMMA RequestBeginsUndisturbed ==
    ASSUME Inv, Undisturbed, NEW t \in Thread, NEW c \in CallRec, Begin(t, c),
           c.todo = ProcessSteps, Named(c.req, c.port), Kind(c),
           c.origin \in {"ring_timer", "ms", "fs", "clear"}
    PROVE  Undisturbed' /\ EndsAtomic
<1>1. Framing(t, c)
  BY ProcessStepsFrame
<1>2. Head(c.todo)[1] = "filter?"
  <2>1. Head(ProcessSteps) = <<"filter?">>
    BY DEF ProcessSteps
  <2> QED BY <2>1
<1> DEFINE x == ProcessRequest(ring, c.req, c.port, c.node)
<1>3. Left("filter?", c, ring) = x
  BY LeftIs
<1>4. Settle(c, x) = AtomicCall(c, ring)
  <2> HIDE DEF x
  <2>1. Settle(c, x) = IF c.origin = "ring_timer" THEN StopTimers(x, {"wtr"}) ELSE x
    BY DEF Settle
  <2>2. AtomicCall(c, ring) = IF c.origin = "ring_timer" THEN StopTimers(x, {"wtr"}) ELSE x
    BY DEF AtomicCall, x
  <2> QED BY <2>1, <2>2
<1> HIDE DEF x
<1> QED BY <1>1, <1>2, <1>3, <1>4, CallBeginsUndisturbed

\* A call that sets or clears a failed flag first.
LEMMA FlagBeginsUndisturbed ==
    ASSUME Inv, Undisturbed, NEW t, t = "worker", NEW c \in CallRec, Begin(t, c),
           NEW a \in Seq(Step), Len(a) = 1, c.todo = a \o ProcessSteps,
           c.origin \in {"fail", "recover"}, a[1] = <<c.origin, c.named>>,
           Named(c.req, c.port), Kind(c)
    PROVE  Undisturbed' /\ EndsAtomic
<1>0. t \in Thread /\ t # "loop"
  BY DEF Thread
<1>1. c.todo \in Seq(Step) /\ Framing(t, c)
  <2>1. a[1] \in {<<"fail", c.named>>, <<"recover", c.named>>}
    OBVIOUS
  <2> QED BY <1>0, <2>1, StepBeforeFrame
<1>2. Head(c.todo) = a[1]
  <2>1. ProcessSteps \in Seq(Step) /\ Len(ProcessSteps) = 10
    BY TenSteps
  <2>2. (a \o ProcessSteps)[1] = a[1]
    BY <2>1, OneBefore
  <2> QED BY <1>1, <2>2
<1>3. Head(c.todo)[1] = c.origin
  BY <1>2, SMTT(30)
<1>4. c.port = c.named /\ c.node = NoNode
  BY DEF Kind
<1>5. Settle(c, Left(c.origin, c, ring)) = AtomicCall(c, ring)
  <2>1. \A x : Settle(c, x) = x
    BY DEF Settle
  <2>2. CASE c.origin = "fail"
    <3>1. Left("fail", c, ring)
              = ProcessRequest([ring EXCEPT !.failed = @ \cup {c.named}],
                               c.req, c.port, c.node)
      BY LeftIs
    <3>2. AtomicCall(c, ring)
              = ProcessRequest([ring EXCEPT !.failed = @ \cup {c.port}],
                               c.req, c.port, NoNode)
      BY <2>2 DEF AtomicCall
    <3> QED BY <1>4, <2>1, <2>2, <3>1, <3>2
  <2>3. CASE c.origin = "recover"
    <3>1. Left("recover", c, ring)
              = ProcessRequest([ring EXCEPT !.failed = @ \ {c.named}],
                               c.req, c.port, c.node)
      BY LeftIs
    <3>2. AtomicCall(c, ring)
              = ProcessRequest([ring EXCEPT !.failed = @ \ {c.port}],
                               c.req, c.port, NoNode)
      BY <2>3 DEF AtomicCall
    <3> QED BY <1>4, <2>1, <2>3, <3>1, <3>2
  <2> QED BY <2>2, <2>3
<1>6. c.origin \in {"filter?", "fail", "recover"}
  OBVIOUS
<1> QED BY <1>0, <1>1, <1>3, <1>5, <1>6, CallBeginsUndisturbed

\* A message arrives.
LEMMA PortCbUndisturbed ==
    ASSUME Inv, Undisturbed, NEW req \in RemoteRequest, NEW node \in NodeId,
           PortCb(req, node)
    PROVE  Undisturbed' /\ EndsAtomic
<1> DEFINE a == << <<"guard?">> >>
           c == [NoCall EXCEPT !.origin = "port_cb", !.req = req, !.node = node,
                               !.todo = a \o ProcessSteps]
<1>0. <<"guard?">> \in Step /\ "loop" \in Thread
  BY DEF Step, OtherStep, Thread
<1>1. a \in Seq(Step) /\ Len(a) = 1 /\ a[1] = <<"guard?">>
  BY <1>0, OneStep
<1>2. Begin("loop", c)
  BY DEF PortCb
<1>3. ProcessSteps \in Seq(Step) /\ Len(ProcessSteps) = 10
  BY TenSteps
<1> HIDE DEF a
<1>4. /\ c.todo = a \o ProcessSteps /\ c.req = req /\ c.port = NoPort
      /\ c.origin = "port_cb" /\ c.after = <<>> /\ c.expired = FALSE
  BY NoCallIsACall DEF CallRec, NoCall
<1>5. Named(c.req, c.port)
  BY <1>4 DEF Named, PortRequest, RemoteRequest
<1>6. c.todo \in Seq(Step) /\ Framing("loop", c)
  <2> HIDE DEF c
  <2> QED BY <1>1, <1>4, <1>5, StepBeforeFrame
<1>7. Len(c.todo) = 11 /\ Head(c.todo) = <<"guard?">>
  <2>1. Len(a \o ProcessSteps) = 11 /\ (a \o ProcessSteps)[1] = <<"guard?">>
    BY <1>1, <1>3, OneBefore
  <2> HIDE DEF c
  <2> QED BY <1>4, <1>6, <2>1
<1>8. c \in CallRec
  <2>1. req \in Request
    BY DEF RemoteRequest, Request, Severity
  <2> QED BY <1>4, <1>6, <2>1, NoCallIsACall DEF CallRec, Origin
<1> HIDE DEF c
<1>9. Kind(c)
  BY <1>4 DEF Kind, RemoteRequest
<1>10. Usable(ring)
  BY DEF Inv
<1>11. Guarding("loop", c, Unpaced(ring), ring)
  BY <1>4, <1>6, <1>7, <1>9, <1>10 DEF Guarding
<1>12. Phase("loop", c, Unpaced(ring), raps_frame, ring)
  BY <1>11 DEF Phase
<1> QED BY <1>0, <1>2, <1>8, <1>12, BeginUndisturbed

\* The wait-to-restore timer fires.
LEMMA RingTimerCbUndisturbed ==
    ASSUME Inv, Undisturbed, RingTimerCb
    PROVE  Undisturbed' /\ EndsAtomic
<1> DEFINE c == [NoCall EXCEPT !.origin = "ring_timer", !.req = "WTR_EXPIRES",
                               !.todo = ProcessSteps, !.after = Stop("wtr")]
<1>1. "loop" \in Thread
  BY DEF Thread
<1>2. /\ c.todo = ProcessSteps /\ c.req = "WTR_EXPIRES" /\ c.origin = "ring_timer"
      /\ c.after = Stop("wtr")
  BY NoCallIsACall DEF CallRec
<1>3. Named(c.req, c.port) /\ Kind(c)
  <2> HIDE DEF c
  <2> QED BY <1>2 DEF Named, PortRequest, Kind
<1>4. c.todo \in Seq(Step)
  BY <1>2, <1>3, ProcessStepsFrame
<1>5. c \in CallRec
  BY <1>2, <1>4, NoCallIsACall DEF CallRec, Origin, Request, Severity
<1>6. Begin("loop", c)
  BY DEF RingTimerCb
<1> HIDE DEF c
<1> QED BY <1>1, <1>2, <1>3, <1>5, <1>6, RequestBeginsUndisturbed

\* The transmission timer fires.
LEMMA SendRapsCbUndisturbed ==
    ASSUME Inv, Undisturbed, SendRapsCb
    PROVE  Undisturbed' /\ EndsAtomic
<1> DEFINE l == << <<"pace?">>, <<"send">>, <<"send">> >>
           c == [NoCall EXCEPT !.origin = "send_raps_cb", !.todo = l]
<1>1. "loop" \in Thread /\ ring \in Ring
  BY DEF Thread, Inv, Usable
<1>2. {<<"pace?">>, <<"send">>} \subseteq Step
  BY DEF Step, OtherStep
<1>3. l \in Seq(Step) /\ l \in SendLists
  BY <1>2 DEF SendLists
<1>4. c.todo = l /\ c.origin = "send_raps_cb"
  BY NoCallIsACall DEF CallRec
<1>5. c \in CallRec
  BY <1>3, NoCallIsACall DEF CallRec, Origin
<1>6. Begin("loop", c)
  BY DEF SendRapsCb
<1> HIDE DEF c, l
<1>7. Phase("loop", c, Unpaced(ring), raps_frame, ring)
  BY <1>1, <1>3, <1>4 DEF Phase, Sending
<1> QED BY <1>1, <1>5, <1>6, <1>7, BeginUndisturbed

\* A command that names a port.
LEMMA RioClientUndisturbed ==
    ASSUME Inv, Undisturbed, NEW cmd \in DOMAIN PortCommand, NEW named \in Port,
           NEW stack \in Stack, RioClient(cmd, named, stack)
    PROVE  Undisturbed' /\ EndsAtomic
<1> DEFINE port == PortOfParam(ParamOf(named, stack))
           c == [NoCall EXCEPT !.origin = cmd, !.req = PortCommand[cmd],
                               !.named = named, !.port = port,
                               !.todo = CommandSteps(cmd, port)]
<1>1. CASE port = NoPort
  <2>1. UNCHANGED <<ring, raps_frame, call, before>>
    BY <1>1 DEF RioClient, CrashOnNullPort
  <2> QED BY <2>1, RestUndisturbed
<1>2. CASE port # NoPort
  <2>0. "worker" \in Thread
    BY DEF Thread
  <2>1. port = named
    BY <1>2, ParamNamesPort
  <2>2. Begin("worker", c)
    BY <1>2 DEF RioClient
  <2> HIDE DEF port
  <2>3. /\ c.todo = CommandSteps(cmd, named) /\ c.req = PortCommand[cmd]
        /\ c.port = named /\ c.named = named /\ c.origin = cmd
        /\ c.after = <<>> /\ c.node = NoNode
    BY <2>1, NoCallIsACall DEF CallRec, NoCall
  <2>4. PortCommand[cmd] \in Request /\ cmd \in Origin /\ PortCommand[cmd] # "INVALID"
        /\ cmd \in {"ms", "fs", "fail", "recover"}
    BY DEF PortCommand, Request, Severity, Origin
  <2>5. Named(c.req, c.port)
    BY <2>3 DEF Named
  <2>6. Kind(c)
    BY <2>3, <2>4 DEF Kind
  <2>7. <<"fail", named>> \in Step /\ <<"recover", named>> \in Step
    BY DEF Step, OtherStep
  <2> DEFINE a == << <<cmd, named>> >>
  <2>8. cmd \in {"fail", "recover"} =>
            c.todo = a \o ProcessSteps /\ a \in Seq(Step) /\ Len(a) = 1
            /\ a[1] = <<cmd, named>>
    <3> SUFFICES ASSUME cmd \in {"fail", "recover"}
                 PROVE  /\ c.todo = a \o ProcessSteps /\ a \in Seq(Step) /\ Len(a) = 1
                        /\ a[1] = <<cmd, named>>
      OBVIOUS
    <3>1. c.todo = a \o ProcessSteps
      BY <2>3 DEF CommandSteps
    <3>2. <<cmd, named>> \in Step
      BY <2>7
    <3> QED BY <3>1, <3>2, OneStep
  <2>9. cmd \notin {"fail", "recover"} => c.todo = ProcessSteps
    BY <2>3 DEF CommandSteps
  <2> HIDE DEF a
  <2>10. c.todo \in Seq(Step)
    <3>1. CASE cmd \in {"fail", "recover"}
      <4>1. a[1] \in {<<"fail", c.named>>, <<"recover", c.named>>} /\ "worker" # "loop"
        BY <2>3, <2>8, <3>1
      <4> HIDE DEF c
      <4> QED BY <2>5, <2>8, <3>1, <4>1, StepBeforeFrame
    <3>2. CASE cmd \notin {"fail", "recover"}
      <4> HIDE DEF c
      <4> QED BY <2>5, <2>9, <3>2, ProcessStepsFrame
    <3> QED BY <3>1, <3>2
  <2>11. c \in CallRec
    BY <2>1, <2>3, <2>4, <2>10, NoCallIsACall DEF CallRec
  <2> HIDE DEF c
  <2>12. CASE cmd \in {"fail", "recover"}
    BY <2>2, <2>3, <2>5, <2>6, <2>8, <2>11, <2>12, FlagBeginsUndisturbed
  <2>13. CASE cmd \notin {"fail", "recover"}
    <3>1. c.origin \in {"ring_timer", "ms", "fs", "clear"}
      BY <2>3, <2>4, <2>13
    <3> QED BY <2>0, <2>2, <2>5, <2>6, <2>9, <2>11, <2>13, <3>1, RequestBeginsUndisturbed
  <2> QED BY <2>12, <2>13
<1> QED BY <1>1, <1>2

\* The command clear.
LEMMA RioClientClearUndisturbed ==
    ASSUME Inv, Undisturbed, RioClientClear
    PROVE  Undisturbed' /\ EndsAtomic
<1> DEFINE c == [NoCall EXCEPT !.origin = "clear", !.req = "CLEAR",
                               !.todo = ProcessSteps]
<1>1. "worker" \in Thread
  BY DEF Thread
<1>2. /\ c.todo = ProcessSteps /\ c.req = "CLEAR" /\ c.origin = "clear"
      /\ c.after = <<>>
  BY NoCallIsACall DEF CallRec, NoCall
<1>3. Named(c.req, c.port) /\ Kind(c)
  <2> HIDE DEF c
  <2> QED BY <1>2 DEF Named, PortRequest, Kind
<1>4. c.todo \in Seq(Step)
  BY <1>2, <1>3, ProcessStepsFrame
<1>5. c \in CallRec
  BY <1>2, <1>4, NoCallIsACall DEF CallRec, Origin, Request, Severity
<1>6. Begin("worker", c)
  BY DEF RioClientClear
<1> HIDE DEF c
<1> QED BY <1>1, <1>2, <1>3, <1>5, <1>6, RequestBeginsUndisturbed

\* The loop goes on with its call.
LEMMA LoopUndisturbed ==
    ASSUME Inv, Undisturbed, (\E expired \in BOOLEAN : GuardTest(expired)) \/ Sends
    PROVE  Undisturbed' /\ EndsAtomic
<1>0. "loop" \in Thread
  BY DEF Thread
<1>1. Phase("loop", call["loop"], Unpaced(ring), raps_frame, before["loop"][1])
          => Progress("loop")
  BY GuardTestProgress, SendsProgress
<1>2. Moves("loop")
  <2>1. Busy("loop") /\ raps_frame' = raps_frame
    BY DEF GuardTest, Sends, At, aside
  <2>2. \E c, todo, r : Continue("loop", c, todo, r)
    BY DEF GuardTest, Sends, Advance, Insert, Return
  <2> QED BY <2>1, <2>2 DEF Moves
<1> QED BY <1>0, <1>1, <1>2, MoveKeeps

\* Every step keeps the phases, and a call that ends undisturbed ends as Ringd says.
LEMMA NextUndisturbed == Inv /\ Undisturbed /\ [Next]_vars => Undisturbed' /\ EndsAtomic
<1> SUFFICES ASSUME Inv, Undisturbed, [Next]_vars PROVE Undisturbed' /\ EndsAtomic
  OBVIOUS
<1>1. CASE Loop
  BY <1>1, PortCbUndisturbed, LoopUndisturbed, RingTimerCbUndisturbed,
     SendRapsCbUndisturbed DEF Loop
<1>2. CASE Worker
  BY <1>2, RioClientUndisturbed, RioClientClearUndisturbed DEF Worker
<1>3. CASE \E t \in Thread : Runs(t)
  BY <1>3, RunsUndisturbed
<1>4. CASE UNCHANGED vars
  BY <1>4, RestUndisturbed DEF vars
<1> QED BY <1>1, <1>2, <1>3, <1>4 DEF Next

\* A call of ringd that the other thread has left alone does to the ring what the same
\* call does in one step: its statements, in the order of the code, come to the priority
\* logic and the row of RingFSM, and when it announces another message, send_raps_cb
\* finds that message in the buffer.
THEOREM UndisturbedCallsAreAtomic == Spec => UndisturbedCallIsAtomic
<1>1. Init => Undisturbed
  <2> SUFFICES ASSUME Init PROVE Undisturbed
    OBVIOUS
  <2>1. before = [t \in Thread |-> NoRing]
    BY DEF Init
  <2> QED BY <2>1 DEF Undisturbed
<1>2. Inv /\ Undisturbed /\ [Next]_vars => Undisturbed'
  BY NextUndisturbed
<1>3. Inv /\ Undisturbed /\ [Next]_vars =>
          [\A t \in Thread :
               before[t] # NoRing /\ Busy(t) /\ ~Busy(t)' =>
                   LET r == before[t][1]
                   IN  /\ Unpaced(ring') = Unpaced(AtomicCall(call[t], r))
                       /\ ring.raps # r.raps => raps_frame' = Encoded(ring')]_vars
  BY NextUndisturbed DEF EndsAtomic
<1>4. Spec => []Undisturbed
  BY <1>1, <1>2, ThreadsInductive, PTL DEF Spec
<1> QED BY <1>3, <1>4, ThreadsInductive, PTL DEF Spec, UndisturbedCallIsAtomic
===============================================================================
