----------------------------- MODULE RingdProofs -----------------------------
(***************************************************************************)
(* Theorems about one ringd daemon, for every set of node identifiers,     *)
(* every configuration and every sequence of messages and commands.        *)
(***************************************************************************)
EXTENDS Ringd, RingFSMProofs

\* The inductive invariant: the ring is sound, and only CLEAR ends the process.

IInv == /\ Sound(ring)
        /\ alive \in BOOLEAN
        /\ OnlyClearKills

\* Both come out of ring_create.
LEMMA IInvInit == Init => IInv
<1> SUFFICES ASSUME Init
             PROVE  IInv
  OBVIOUS
<1>1. PICK c \in RingdConfig : ring = CreateRing(c)
  BY DEF Init
<1>2. c \in Config
  BY DEF RingdConfig
<1> QED BY <1>1, <1>2, CreateRingSound DEF Init, IInv, OnlyClearKills

\* Every callback and every command keeps it.
LEMMA IInvNext == IInv /\ [Next]_vars => IInv'
<1> SUFFICES ASSUME IInv, [Next]_vars
             PROVE  IInv'
  OBVIOUS
<1>1. Sound(ring) /\ ring \in Ring /\ alive \in BOOLEAN /\ OnlyClearKills
  BY DEF IInv, Sound
<1>2. ASSUME NEW frame \in Frame, NEW port \in Port, NEW expired \in BOOLEAN,
             ReceiveRaps(frame, port, expired)
      PROVE  IInv'
  <2>1. Sound(ring')
    BY <1>1, <1>2, ProcessRapsKeepsSound DEF ReceiveRaps
  <2> QED BY <1>1, <1>2, <2>1 DEF ReceiveRaps, IInv, OnlyClearKills
<1>3. CASE WtrExpires
  <2>1. Sound(ring')
    BY <1>1, <1>3, WtrStep DEF WtrExpires
  <2>2. ~Dies(ring, "WTR_EXPIRES")
    BY <1>1, <1>3
    DEF WtrExpires, Dies, ImpossibleDuplicate, Sound, Parts, TimerPart
  <2> QED BY <1>3, <2>1, <2>2 DEF WtrExpires, IInv, OnlyClearKills
<1>4. CASE SendRaps
  <2> DEFINE n == IF ring.bursts_remain > 0 THEN ring.bursts_remain - 1 ELSE 0
  <2>1. n \in 0 .. RAPS_BURSTS
    BY <1>1 DEF Ring, RAPS_BURSTS
  <2>2. ring' = [ring EXCEPT !.bursts_remain = n] /\ alive' = alive /\ alive
    BY <1>4 DEF SendRaps
  <2> HIDE DEF n
  <2>3. {} \in SUBSET Port
    OBVIOUS
  <2>4. Sound(ring')
    BY <1>1, <2>1, <2>2, <2>3, UnseenFieldsKeepSound
  <2> QED BY <2>2, <2>4 DEF IInv, OnlyClearKills
<1>5. CASE Clear
  <2>1. "CLEAR" \in Raised /\ Arguments("CLEAR", NoPort, NoNode)
    BY DEF Raised, Arguments, PortRequest, RemoteRequest
  <2>2. /\ ring' = ProcessRequest(ring, "CLEAR", NoPort, NoNode)
        /\ alive' = ~Dies(ring, "CLEAR")
    BY <1>5 DEF Clear, Process
  <2>3. Sound(ring')
    BY <1>1, <2>1, <2>2, ProcessRequestKeepsSound
  <2>4. ~alive' => ring'.prev.req = "CLEAR"
    <3> SUFFICES ASSUME Dies(ring, "CLEAR")
                 PROVE  ring'.prev.req = "CLEAR"
      BY <2>2
    <3>1. ring.prev.req = "CLEAR"
      BY DEF Dies, ImpossibleDuplicate
    <3>2. /\ ring.prev \in Prev
          /\ ring.prev.port = NoPort
          /\ ring.prev.node = NoNode
      BY <1>1, <3>1
      DEF Sound, Parts, RetainedIsLast, Ring, PortRequest, RemoteRequest
    <3>3. PrevOf("CLEAR", NoPort, NoNode) = ring.prev
      BY <3>1, <3>2 DEF PrevOf, Prev, PortRequest, RemoteRequest
    <3> QED BY <1>1, <2>1, <2>2, <3>1, <3>3, RepeatedRequestIgnored, RaisedRequest
  <2> QED BY <2>2, <2>3, <2>4 DEF IInv, OnlyClearKills
<1>6. ASSUME NEW port \in Port, Ms(port) \/ Fs(port)
      PROVE  IInv'
  <2>1. PICK req \in {"MS", "FS"} : /\ ring' = ProcessRequest(ring, req, port, NoNode)
                                    /\ alive' = ~Dies(ring, req)
    BY <1>6 DEF Ms, Fs, Process
  <2>2. req \in Raised /\ Arguments(req, port, NoNode)
    BY DEF Raised, Arguments, PortRequest, RemoteRequest
  <2>3. Sound(ring')
    BY <1>1, <2>1, <2>2, ProcessRequestKeepsSound
  <2>4. ~Dies(ring, req)
    BY DEF Dies, ImpossibleDuplicate, PlainRequest
  <2> QED BY <2>1, <2>3, <2>4 DEF IInv, OnlyClearKills
<1>7. ASSUME NEW port \in Port, Fail(port) \/ Recover(port)
      PROVE  IInv'
  <2>1. PICK req \in {"SF", "CLEAR_SF"}, failed \in SUBSET Port :
           ring' = ProcessRequest([ring EXCEPT !.failed = failed], req, port, NoNode)
    <3>1. CASE Fail(port)
      BY <1>1, <3>1 DEF Fail, Ring
    <3>2. CASE Recover(port)
      BY <1>1, <3>2 DEF Recover, Ring
    <3> QED BY <1>7, <3>1, <3>2
  <2>2. req \in Raised /\ Arguments(req, port, NoNode)
    BY DEF Raised, Arguments, PortRequest, RemoteRequest
  <2>3. 0 \in 0 .. RAPS_BURSTS
    BY DEF RAPS_BURSTS
  <2>4. Sound([ring EXCEPT !.failed = failed])
    BY <1>1, <2>3, UnseenFieldsKeepSound
  <2>5. Sound(ring')
    BY <2>1, <2>2, <2>4, ProcessRequestKeepsSound
  <2> QED BY <1>7, <2>5 DEF Fail, Recover, IInv, OnlyClearKills
<1>8. CASE UNCHANGED vars
  BY <1>1, <1>8 DEF vars, IInv, OnlyClearKills
<1> QED BY <1>2, <1>3, <1>4, <1>5, <1>6, <1>7, <1>8 DEF Next

\* The invariant holds in every behaviour of the daemon.
THEOREM Inductive == Spec => []IInv
  BY IInvInit, IInvNext, PTL DEF Spec

\* It implies each invariant of Ringd.
LEMMA IInvImplies ==
    ASSUME IInv
    PROVE  /\ TypeOK
           /\ NeverIsolated
           /\ ForcedSwitchInForce
           /\ RemoteForcedSwitch
           /\ SignalFailInForce
           /\ TimersOfPendingOwner
           /\ AnnouncementInState
           /\ NonOwnerIdle
           /\ OnlyClearKills
  BY DEF IInv, Sound, Parts, ForcedPart, FailPart, TimerPart, AnnouncePart, IdlePart,
         Waits, RestoreTimer, Announces, Sends, TypeOK, NeverIsolated,
         ForcedSwitchInForce, RemoteForcedSwitch, SignalFailInForce,
         TimersOfPendingOwner, AnnouncementInState, NonOwnerIdle

\* Every callback leaves a ring record of the declared type: no counter runs
\* below zero, no port or state outside the enumerations is ever stored.
THEOREM TypeCorrect == Spec => []TypeOK
  BY Inductive, IInvImplies, PTL

\* block_port and unblock_port: the node never cuts itself off on both sides.
THEOREM NotIsolated == Spec => []NeverIsolated
  BY Inductive, IInvImplies, PTL

\* A retained forced switch blocks a port and is announced.
THEOREM ForcedSwitchEnforced == Spec => []ForcedSwitchInForce
  BY Inductive, IInvImplies, PTL

\* A forced switch of another node leaves both ports open and the node silent.
THEOREM RemoteSwitchEnforced == Spec => []RemoteForcedSwitch
  BY Inductive, IInvImplies, PTL

\* A retained signal failure blocks the failed port, and only it, and is announced.
THEOREM SignalFailEnforced == Spec => []SignalFailInForce
  BY Inductive, IInvImplies, PTL

\* The restore timers run in the owner's PENDING state only.
THEOREM TimersConfined == Spec => []TimersOfPendingOwner
  BY Inductive, IInvImplies, PTL

\* No announcement outlives the state that it announces.
THEOREM AnnouncementsCurrent == Spec => []AnnouncementInState
  BY Inductive, IInvImplies, PTL

\* In IDLE a node without the RPL is silent and open; its neighbour blocks the RPL.
THEOREM IdleNodesOpen == Spec => []NonOwnerIdle
  BY Inductive, IInvImplies, PTL

\* The wait-to-restore timer never ends the process.
THEOREM TimerNeverKills == Spec => []OnlyClearKills
  BY Inductive, IInvImplies, PTL

-----------------------------------------------------------------------------
\* The step leaves the ring as ring_process_request leaves r, a ring that holds
\* the same retained request and blocks the same ports as the ring before it.
RequestStep(r, req, port, node) ==
    /\ Sound(r)
    /\ r.local_request = ring.local_request
    /\ r.blocked = ring.blocked
    /\ Arguments(req, port, node)
    /\ ring'.local_request = ProcessRequest(r, req, port, node).local_request
    /\ ring'.blocked = ProcessRequest(r, req, port, node).blocked
    /\ ring'.prev = ProcessRequest(r, req, port, node).prev

\* The step has nothing to do with the switch.
SwitchUntouched == /\ ring'.local_request = ring.local_request
                   /\ ring'.blocked = ring.blocked

\* While a local switch is retained, a step either raises a request or does not
\* touch the switch; the wait-to-restore timer is not running.
LEMMA StepIsRequest ==
    ASSUME IInv, Next, ring.local_request \in {"FS", "SF"}
    PROVE  \/ SwitchUntouched
           \/ \E r, port, node : \E req \in Raised : RequestStep(r, req, port, node)
<1> DEFINE Goal ==
             \/ SwitchUntouched
             \/ \E r, port, node : \E req \in Raised : RequestStep(r, req, port, node)
<1>1. Sound(ring) /\ ring \in Ring
  BY DEF IInv, Sound
<1>2. ASSUME NEW frame \in Frame, NEW port \in Port, NEW expired \in BOOLEAN,
             ReceiveRaps(frame, port, expired)
      PROVE  Goal
  <2> DEFINE r   == StopTimers(ring, {"guard"})
             req == RequestOf(frame)
  <2>1. CASE Guarded(ring, expired)
    BY <1>2, <2>1 DEF ReceiveRaps, ProcessRaps, SwitchUntouched
  <2>2. CASE ~Guarded(ring, expired)
    <3>1. Sound(r) /\ r.local_request = ring.local_request /\ r.blocked = ring.blocked
      <4>1. Sound(r)
        BY <1>1, StopTimersKeepsSound DEF Timer
      <4> QED BY <1>1, <4>1 DEF StopTimers, Ring
    <3>2. req \in Raised /\ Arguments(req, port, frame.node_id)
      BY <1>2, RequestOfFrame
    <3>3. ring' = ProcessRequest(r, req, port, frame.node_id)
      BY <1>2, <2>2 DEF ReceiveRaps, ProcessRaps
    <3> HIDE DEF r, req
    <3>4. RequestStep(r, req, port, frame.node_id)
      BY <3>1, <3>2, <3>3 DEF RequestStep
    <3> QED BY <3>2, <3>4
  <2> QED BY <2>1, <2>2
<1>3. ~WtrExpires
  BY <1>1 DEF WtrExpires, Sound, Parts, TimerPart, Waits, RestoreTimer,
              StateOfRetained
<1>4. CASE SendRaps
  BY <1>1, <1>4 DEF SendRaps, Ring, SwitchUntouched
<1>5. ASSUME NEW port \in Port \cup {NoPort}, NEW req \in {"CLEAR", "MS", "FS"},
             req # "CLEAR" => port \in Port, Process(req, port)
      PROVE  Goal
  <2>1. req \in Raised /\ Arguments(req, port, NoNode)
    BY <1>5 DEF Raised, Arguments, PortRequest, RemoteRequest
  <2>2. RequestStep(ring, req, port, NoNode)
    BY <1>1, <1>5, <2>1 DEF Process, RequestStep
  <2> QED BY <2>1, <2>2
<1>6. ASSUME NEW port \in Port, Fail(port) \/ Recover(port)
      PROVE  Goal
  <2>1. PICK req \in {"SF", "CLEAR_SF"}, failed \in SUBSET Port :
           ring' = ProcessRequest([ring EXCEPT !.failed = failed], req, port, NoNode)
    <3>1. CASE Fail(port)
      BY <1>1, <3>1 DEF Fail, Ring
    <3>2. CASE Recover(port)
      BY <1>1, <3>2 DEF Recover, Ring
    <3> QED BY <1>6, <3>1, <3>2
  <2> DEFINE r == [ring EXCEPT !.failed = failed]
  <2>2. req \in Raised /\ Arguments(req, port, NoNode)
    BY DEF Raised, Arguments, PortRequest, RemoteRequest
  <2>3. 0 \in 0 .. RAPS_BURSTS
    BY DEF RAPS_BURSTS
  <2>4. Sound(r)
    BY <1>1, <2>3, UnseenFieldsKeepSound
  <2>5. r.local_request = ring.local_request /\ r.blocked = ring.blocked
    BY <1>1 DEF Ring
  <2> HIDE DEF r
  <2>6. RequestStep(r, req, port, NoNode)
    BY <2>1, <2>2, <2>4, <2>5 DEF r, RequestStep
  <2> QED BY <2>2, <2>6
<1>7. Clear => Goal
  BY <1>5 DEF Clear
<1>8. \A port \in Port : Ms(port) \/ Fs(port) => Goal
  BY <1>5 DEF Ms, Fs
<1> QED BY <1>2, <1>3, <1>4, <1>6, <1>7, <1>8 DEF Next

\* The priority logic and FORCED_SWITCH together: only CLEAR moves the block of
\* the operator's forced switch.
THEOREM ForcedSwitchKept == Spec => ForcedSwitchHolds
<1>1. ASSUME IInv, Next, ring.local_request = "FS"
      PROVE  \/ ring'.prev.req = "CLEAR"
             \/ /\ ring'.local_request = "FS"
                /\ ring'.blocked = ring.blocked
  <2>1. CASE SwitchUntouched
    BY <1>1, <2>1 DEF SwitchUntouched
  <2>2. ASSUME NEW r, NEW req \in Raised, NEW port, NEW node,
               RequestStep(r, req, port, node)
        PROVE  \/ ring'.prev.req = "CLEAR"
               \/ /\ ring'.local_request = "FS"
                  /\ ring'.blocked = ring.blocked
    BY <1>1, <2>2, ForcedSwitchYields DEF RequestStep
  <2> QED BY <1>1, <2>1, <2>2, StepIsRequest
<1>2. IInv /\ [Next]_vars =>
        [ring.local_request = "FS" =>
           \/ ring'.prev.req = "CLEAR"
           \/ /\ ring'.local_request = "FS"
              /\ ring'.blocked = ring.blocked]_vars
  BY <1>1
<1> QED BY <1>2, Inductive, PTL DEF Spec, ForcedSwitchHolds

\* The priority logic and PROTECTION together: only a recovery or a forced switch
\* lifts the block of a signal failure.
THEOREM SignalFailKept == Spec => SignalFailHolds
<1>1. ASSUME IInv, Next, ring.local_request = "SF"
      PROVE  \/ ring'.prev.req \in {"CLEAR_SF", "FS", "RAPS_FS"}
             \/ /\ ring'.local_request = "SF"
                /\ ring'.blocked = ring.blocked
  <2>1. CASE SwitchUntouched
    BY <1>1, <2>1 DEF SwitchUntouched
  <2>2. ASSUME NEW r, NEW req \in Raised, NEW port, NEW node,
               RequestStep(r, req, port, node)
        PROVE  \/ ring'.prev.req \in {"CLEAR_SF", "FS", "RAPS_FS"}
               \/ /\ ring'.local_request = "SF"
                  /\ ring'.blocked = ring.blocked
    BY <1>1, <2>2, SignalFailYields DEF RequestStep
  <2> QED BY <1>1, <2>1, <2>2, StepIsRequest
<1>2. IInv /\ [Next]_vars =>
        [ring.local_request = "SF" =>
           \/ ring'.prev.req \in {"CLEAR_SF", "FS", "RAPS_FS"}
           \/ /\ ring'.local_request = "SF"
              /\ ring'.blocked = ring.blocked]_vars
  BY <1>1
<1> QED BY <1>2, Inductive, PTL DEF Spec, SignalFailHolds
=============================================================================
