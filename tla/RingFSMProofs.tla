--------------------------- MODULE RingFSMProofs ----------------------------
(***************************************************************************)
(* An invariant of the ring record that every call of the control process  *)
(* keeps: er_ring_create establishes it, ring_process_request,             *)
(* process_raps_frame and ring_timer preserve it, whatever the request.    *)
(*                                                                         *)
(* The parts support each other.  RetainedIsLast makes a repeated request  *)
(* harmless; StateOfRetained rules out that CLEAR reverts a node that does *)
(* not own the RPL; ForcedPart and FailPart say who is silent, which is    *)
(* what lets the rows that only change the state keep AnnouncePart.        *)
(***************************************************************************)
EXTENDS RingFSMEffects

\* The local requests that are retained.
Switch == {"SF", "FS", "MS"}

\* er_ring_create: at most one RPL role, and an RPL port exactly with a role.
Configured(r) ==
    /\ ~(r.is_rpl_owner /\ r.is_rpl_neighbour)
    /\ (r.rpl_port = NoPort) <=> ~(r.is_rpl_owner \/ r.is_rpl_neighbour)

\* What is retained is what was accepted last; prev holds no stale argument.
\* This is what makes a repeated request change nothing at all.
RetainedIsLast(r) ==
    /\ r.local_request = Retained(r.prev.req)
    /\ r.prev.req \notin PortRequest   => r.prev.port = NoPort
    /\ r.prev.req \notin RemoteRequest => r.prev.node = NoNode

\* Row 01 is over, and IDLE and PENDING retain nothing.
StateOfRetained(r) ==
    /\ r.state # "INIT"
    /\ r.state \in {"IDLE", "PENDING"} => r.local_request = "INVALID"

\* A retained forced switch is in force; in another node's this one is silent
\* and open.
ForcedPart(r) ==
    IF r.local_request = "FS"
    THEN r.state = "FORCED_SWITCH" /\ r.blocked # {} /\ Announces(r, "FS")
    ELSE r.state = "FORCED_SWITCH" => r.blocked = {} /\ ~r.is_sending_raps

\* A retained signal failure is in force; in another node's this one is silent.
FailPart(r) ==
    IF r.local_request = "SF"
    THEN r.state = "PROTECTION" /\ r.blocked = {r.prev.port} /\ Announces(r, "SF")
    ELSE r.state = "PROTECTION" => ~r.is_sending_raps

\* The restore timers run in the owner's PENDING, and the wait-to-restore timer
\* runs only while its expiry would be news to the state machine.
TimerPart(r) ==
    /\ Waits(r) => r.is_rpl_owner /\ r.state = "PENDING"
    /\ "wtr" \in r.timers => r.prev.req # "WTR_EXPIRES"

\* start_tx and stop_tx keep pace with the state.
AnnouncePart(r) ==
    r.is_sending_raps =>
        /\ r.raps.request = "FS"  => r.state = "FORCED_SWITCH"
        /\ r.raps.request = "SF"  => r.state = "PROTECTION"
        /\ "RB" \in r.raps.flags => r.state = "IDLE" /\ r.is_rpl_owner

\* In IDLE a node that is not the owner is silent and holds at most the RPL.
IdlePart(r) ==
    r.state = "IDLE" /\ ~r.is_rpl_owner =>
        /\ ~r.is_sending_raps
        /\ r.blocked = IF r.is_rpl_neighbour THEN {r.rpl_port} ELSE {}

\* The parts of the inductive invariant.
Parts(r) == /\ Configured(r)
            /\ r.blocked # Port
            /\ RetainedIsLast(r)
            /\ StateOfRetained(r)
            /\ ForcedPart(r)
            /\ FailPart(r)
            /\ TimerPart(r)
            /\ AnnouncePart(r)
            /\ IdlePart(r)

\* A ring that ring_process_request may be called with.
Sound(r) == r \in Ring /\ Parts(r)

-----------------------------------------------------------------------------
\* A ring with a local switch in force is sound.
LEMMA LocalSwitchIsSound ==
    ASSUME NEW r, Sound(r), NEW req \in Switch, NEW port \in Port,
           NEW t, TakenFrom(t, r, req, port),
           NEW s \in Ring, Kept(s, t),
           s.state = CASE req = "FS" -> "FORCED_SWITCH"
                       [] req = "SF" -> "PROTECTION"
                       [] req = "MS" -> "MANUAL_SWITCH",
           s.blocked = {port}, Announces(s, req), "RB" \notin s.raps.flags,
           ~Waits(s)
    PROVE  Sound(s)
  BY DEF Sound, Switch, TakenFrom, Kept, Waits, Announces, Retained, Port,
         PortRequest, Parts, Configured, RetainedIsLast, StateOfRetained,
         ForcedPart, FailPart, TimerPart, RestoreTimer, AnnouncePart, IdlePart

\* A silent ring in a remote switch is sound.
LEMMA RemoteSwitchIsSound ==
    ASSUME NEW r, Sound(r), NEW req \in RemoteRequest, NEW port,
           NEW t, TakenFrom(t, r, req, port),
           NEW s \in Ring, Kept(s, t),
           s.state \in {"FORCED_SWITCH", "PROTECTION", "MANUAL_SWITCH"},
           s.state = "FORCED_SWITCH" => s.blocked = {},
           s.blocked \subseteq r.blocked, ~s.is_sending_raps, ~Waits(s)
    PROVE  Sound(s)
<1>1. r.blocked \in SUBSET Port /\ r.blocked # Port
  BY DEF Sound, Parts, Ring
<1>2. s.blocked # Port
  BY <1>1
<1> QED BY <1>2
    DEF Sound, TakenFrom, Kept, Waits, Announces, Retained, RemoteRequest,
         Parts, Configured, RetainedIsLast, StateOfRetained,
         ForcedPart, FailPart, TimerPart, RestoreTimer, AnnouncePart, IdlePart

\* A ring that has just entered or stayed in PENDING is sound.
LEMMA PendingIsSound ==
    ASSUME NEW r, Sound(r), NEW req \in Request \ Switch, NEW port,
           NEW t, TakenFrom(t, r, req, port),
           NEW s \in Ring, Kept(s, t),
           s.state = "PENDING",
           s.blocked \subseteq r.blocked,
           s.is_sending_raps => /\ s.raps.request \notin {"FS", "SF"}
                                /\ "RB" \notin s.raps.flags,
           Waits(s) => s.is_rpl_owner,
           req # "WTR_EXPIRES"
    PROVE  Sound(s)
<1>1. r.blocked \in SUBSET Port /\ r.blocked # Port
  BY DEF Sound, Parts, Ring
<1>2. s.blocked # Port
  BY <1>1
<1> QED BY <1>2
    DEF Sound, Switch, TakenFrom, Kept, Waits, Announces, Retained,
         Parts, Configured, RetainedIsLast, StateOfRetained,
         ForcedPart, FailPart, TimerPart, RestoreTimer, AnnouncePart, IdlePart

\* A ring that has just entered or stayed in IDLE is sound.
LEMMA IdleIsSound ==
    ASSUME NEW r, Sound(r), NEW req \in Request \ Switch, NEW port,
           NEW t, TakenFrom(t, r, req, port),
           NEW s \in Ring, Kept(s, t),
           s.state = "IDLE",
           s.blocked # Port,
           ~Waits(s),
           IF s.is_rpl_owner
           THEN s.is_sending_raps => s.raps.request \notin {"FS", "SF"}
           ELSE /\ ~s.is_sending_raps
                /\ s.blocked = IF s.is_rpl_neighbour THEN {s.rpl_port} ELSE {}
    PROVE  Sound(s)
  BY DEF Sound, Switch, TakenFrom, Kept, Waits, Announces, Retained,
         Parts, Configured, RetainedIsLast, StateOfRetained,
         ForcedPart, FailPart, TimerPart, RestoreTimer, AnnouncePart, IdlePart

\* A request that has no row leaves a sound ring.
LEMMA IgnoredIsSound ==
    ASSUME NEW r, Sound(r), NEW req \in Request \ {"FS", "SF", "WTR_EXPIRES"}, NEW port,
           NEW t, TakenFrom(t, r, req, port),
           r.local_request \notin {"FS", "SF"},
           r.state \in {"IDLE", "PENDING"} => req # "MS"
    PROVE  Sound(t)
  BY DEF Sound, TakenFrom, Kept, Waits, Announces, Retained,
         Parts, Configured, RetainedIsLast, StateOfRetained,
         ForcedPart, FailPart, TimerPart, RestoreTimer, AnnouncePart, IdlePart

-----------------------------------------------------------------------------
\* Rows that set up a local switch while no restore timer runs.
LEMMA IsolateStep ==
    ASSUME NEW r, Sound(r), ~Waits(r), NEW req \in Switch, NEW port \in Port,
           NEW t, TakenFrom(t, r, req, port),
           NEW state,
           state = CASE req = "FS" -> "FORCED_SWITCH"
                     [] req = "SF" -> "PROTECTION"
                     [] req = "MS" -> "MANUAL_SWITCH"
    PROVE  /\ Sound(Enter(Isolate(t, port, req, {}), state))
           /\ r.state = state => Sound(Isolate(t, port, req, {}))
<1> DEFINE u == Isolate(t, port, req, {})
<1>1. req \in RapsRequest /\ {} \in SUBSET Flag
  BY DEF Switch, RapsRequest
<1>2. /\ u \in Ring
      /\ Kept(u, t)
      /\ u.state = r.state
      /\ u.blocked = {port}
      /\ Announces(u, req)
      /\ "RB" \notin u.raps.flags
      /\ u.timers = r.timers
  BY <1>1, IsolateEffect DEF TakenFrom
<1>3. state \in RingState
  BY DEF Switch, RingState
<1> HIDE DEF u
<1> DEFINE v == Enter(u, state)
<1>4. /\ v \in Ring
      /\ Kept(v, t)
      /\ v.state = state
      /\ v.blocked = {port}
      /\ Announces(v, req)
      /\ "RB" \notin v.raps.flags
      /\ ~Waits(v)
  BY <1>2, <1>3 DEF Enter, Ring, Kept, Announces, Waits
<1> HIDE DEF v
<1>5. Sound(v)
  BY <1>4, LocalSwitchIsSound
<1>6. r.state = state => Sound(u)
  BY <1>2, LocalSwitchIsSound DEF Waits
<1> QED BY <1>5, <1>6 DEF u, v

\* Rows that give way to a remote switch while no restore timer runs.
LEMMA YieldStep ==
    ASSUME NEW r, Sound(r), ~Waits(r), NEW req \in RemoteRequest, NEW port,
           NEW t, TakenFrom(t, r, req, port),
           NEW s, \/ s = YieldTo(t, "PROTECTION")
                  \/ s = YieldTo(t, "MANUAL_SWITCH")
                  \/ s = YieldToForced(t)
    PROVE  Sound(s)
<1>1. t \in Ring /\ t.blocked = r.blocked /\ t.timers = r.timers
  BY DEF TakenFrom
<1>2. /\ s \in Ring
      /\ Kept(s, t)
      /\ s.state \in {"FORCED_SWITCH", "PROTECTION", "MANUAL_SWITCH"}
      /\ s.state = "FORCED_SWITCH" => s.blocked = {}
      /\ s.blocked \subseteq t.blocked
      /\ s.timers = t.timers
      /\ ~s.is_sending_raps
  <2>1. CASE s = YieldTo(t, "PROTECTION")
    BY <1>1, <2>1, YieldToEffect DEF RingState
  <2>2. CASE s = YieldTo(t, "MANUAL_SWITCH")
    BY <1>1, <2>2, YieldToEffect DEF RingState
  <2>3. CASE s = YieldToForced(t)
    BY <1>1, <2>3, YieldToForcedEffect
  <2> QED BY <2>1, <2>2, <2>3
<1>3. ~Waits(s)
  BY <1>1, <1>2 DEF Waits
<1> QED BY <1>1, <1>2, <1>3, RemoteSwitchIsSound

\* Rows 02 to 15 keep a ring sound.
LEMMA IdleStep ==
    ASSUME NEW r, Sound(r), r.state = "IDLE",
           NEW req \in Raised, Accepted(r, req),
           NEW port, NEW node, Arguments(req, port, node),
           NEW t, TakenFrom(t, r, req, port)
    PROVE  Sound(IdleRows(t, req, port, node))
<1> DEFINE s == IdleRows(t, req, port, node)
<1>1. /\ r \in Ring
      /\ ~Waits(r)
      /\ r.blocked # Port
      /\ r.local_request = "INVALID"
      /\ r.is_sending_raps => r.raps.request \notin {"FS", "SF"}
      /\ ~r.is_rpl_owner =>
             /\ ~r.is_sending_raps
             /\ r.blocked = IF r.is_rpl_neighbour THEN {r.rpl_port} ELSE {}
      /\ r.is_rpl_neighbour => r.rpl_port \in Port
      /\ ~r.is_rpl_neighbour /\ ~r.is_rpl_owner => r.rpl_port = NoPort
  BY DEF Sound, Parts, TimerPart, Waits, StateOfRetained, Ring, AnnouncePart,
         IdlePart, Configured
<1>2. req \in Request /\ req # "WTR_EXPIRES"
  BY RaisedRequest
<1>3. CASE req \in Switch
  <2>1. port \in Port
    BY <1>3 DEF Arguments, Switch, PortRequest
  <2> QED BY <1>1, <1>3, <2>1, IsolateStep DEF IdleRows, Switch
<1>4. CASE req \in {"RAPS_FS", "RAPS_SF", "RAPS_MS"}
  BY <1>1, <1>4, YieldStep DEF IdleRows, RemoteRequest
<1>5. CASE req = "RAPS_NR_RB"
  <2> DEFINE o == OtherPort(t.rpl_port)
             u == UnblockPort(t, o)
  <2>1. s = IF t.is_rpl_owner THEN u ELSE StopTx(u)
    BY <1>5 DEF IdleRows
  <2>2. t.is_rpl_neighbour => o # t.rpl_port
    BY <1>1, OtherPortType DEF TakenFrom
  <2> HIDE DEF o, s
  <2>3. /\ s \in Ring
        /\ Kept(s, t)
        /\ s.state = "IDLE"
        /\ s.blocked = r.blocked \ {o}
        /\ s.timers = r.timers
        /\ s.raps = r.raps
        /\ s.is_sending_raps = (r.is_sending_raps /\ r.is_rpl_owner)
    BY <2>1 DEF TakenFrom, UnblockPort, StopTx, Ring, Kept
  <2>4. s.blocked # Port
    BY <1>1, <2>3 DEF Ring
  <2>5. IF s.is_rpl_owner
        THEN s.is_sending_raps => s.raps.request \notin {"FS", "SF"}
        ELSE /\ ~s.is_sending_raps
             /\ s.blocked = IF s.is_rpl_neighbour THEN {s.rpl_port} ELSE {}
    BY <1>1, <2>2, <2>3 DEF Kept, TakenFrom
  <2>6. ~Waits(s) /\ req \in Request \ Switch
    BY <1>1, <1>2, <1>5, <2>3 DEF Waits, Switch
  <2>7. Sound(s)
    BY <2>3, <2>4, <2>5, <2>6, IdleIsSound
  <2> QED BY <2>7 DEF s
<1>6. CASE req = "RAPS_NR" /\ IdleLosesTo(t, node)
  <2>1. s = YieldTo(t, "IDLE") /\ t \in Ring
    BY <1>6 DEF IdleRows, TakenFrom
  <2> HIDE DEF s
  <2>2. /\ s \in Ring
        /\ Kept(s, t)
        /\ s.state = "IDLE"
        /\ s.blocked \subseteq r.blocked
        /\ s.timers = r.timers
        /\ ~s.is_sending_raps
    BY <2>1, YieldToEffect DEF TakenFrom, RingState
  <2>3. s.blocked # Port
    BY <1>1, <2>2 DEF Ring
  <2>4. s.blocked = {} /\ ~s.is_rpl_owner /\ ~s.is_rpl_neighbour
    BY <1>1, <1>6, <2>2 DEF Kept, TakenFrom, IdleLosesTo
  <2>5. ~Waits(s) /\ req \in Request \ Switch
    BY <1>1, <1>2, <1>6, <2>2 DEF Waits, Switch
  <2>6. Sound(s)
    BY <2>2, <2>3, <2>4, <2>5, IdleIsSound
  <2> QED BY <2>6 DEF s
<1>7. CASE /\ req \in {"CLEAR", "CLEAR_SF", "RAPS_NR"}
           /\ ~(req = "RAPS_NR" /\ IdleLosesTo(t, node))
  <2>1. s = t
    BY <1>7 DEF IdleRows
  <2> QED BY <1>1, <1>2, <1>7, <2>1, IgnoredIsSound
<1> QED BY <1>3, <1>4, <1>5, <1>6, <1>7
        DEF Raised, RemoteRequest, PortRequest, Switch

\* Rows that end a switch of the node itself.
LEMMA AnnounceStep ==
    ASSUME NEW r, Sound(r), ~Waits(r), NEW req \in Raised \ Switch, NEW port,
           NEW t, TakenFrom(t, r, req, port),
           NEW timer \in RestoreTimer
    PROVE  Sound(Enter(AnnounceNR(t, timer), "PENDING"))
<1> DEFINE u == AnnounceNR(t, timer)
           s == Enter(u, "PENDING")
<1>1. /\ u \in Ring
      /\ Kept(u, t)
      /\ u.blocked = t.blocked
      /\ Waits(u) => t.is_rpl_owner \/ Waits(t)
      /\ Announces(u, "NR")
      /\ "RB" \notin u.raps.flags
  BY AnnounceNREffect DEF TakenFrom
<1> HIDE DEF u
<1>2. /\ s \in Ring
      /\ Kept(s, t)
      /\ s.state = "PENDING"
      /\ s.blocked = r.blocked
      /\ s.raps.request = "NR" /\ "RB" \notin s.raps.flags
      /\ s.timers = u.timers
  BY <1>1 DEF Enter, Ring, RingState, TakenFrom, Announces, Kept
<1> HIDE DEF s
<1>3. Waits(s) => s.is_rpl_owner
  BY <1>1, <1>2 DEF Waits, TakenFrom, Kept
<1>4. req \in Request \ Switch /\ req # "WTR_EXPIRES"
  BY RaisedRequest
<1>5. Sound(s)
  BY <1>2, <1>3, <1>4, PendingIsSound
<1> QED BY <1>5 DEF s, u

\* Rows that end a switch the node has nothing to say about.
LEMMA EndStep ==
    ASSUME NEW r, Sound(r), ~Waits(r), NEW req \in Raised \ Switch, NEW port,
           NEW t, TakenFrom(t, r, req, port),
           r.is_sending_raps => /\ r.raps.request \notin {"FS", "SF"}
                                /\ "RB" \notin r.raps.flags,
           NEW timer \in RestoreTimer
    PROVE  /\ Sound(Enter(t, "PENDING"))
           /\ Sound(Enter(OwnerStarts(t, timer), "PENDING"))
<1>1. ASSUME NEW u, u \in {t, OwnerStarts(t, timer)}
      PROVE  Sound(Enter(u, "PENDING"))
  <2> DEFINE s == Enter(u, "PENDING")
  <2>1. /\ u \in Ring
        /\ Kept(u, t)
        /\ u.blocked = t.blocked
        /\ u.raps = t.raps
        /\ u.is_sending_raps = t.is_sending_raps
        /\ Waits(u) => u.is_rpl_owner
    BY <1>1 DEF OwnerStarts, StartTimer, TakenFrom, Ring, Timer, RestoreTimer,
           Kept, Waits
  <2>2. /\ s \in Ring
        /\ Kept(s, t)
        /\ s.state = "PENDING"
        /\ s.blocked = r.blocked
        /\ s.raps = r.raps
        /\ s.is_sending_raps = r.is_sending_raps
        /\ Waits(s) => s.is_rpl_owner
    BY <2>1 DEF Enter, Ring, RingState, TakenFrom, Kept, Waits
  <2> HIDE DEF s
  <2>3. req \in Request \ Switch /\ req # "WTR_EXPIRES"
    BY RaisedRequest
  <2>4. Sound(s)
    BY <2>2, <2>3, PendingIsSound
  <2> QED BY <2>4 DEF s
<1> QED BY <1>1

\* Rows 16 to 29 keep a ring sound.
LEMMA ProtectionStep ==
    ASSUME NEW r, Sound(r), r.state = "PROTECTION",
           NEW req \in Raised, Accepted(r, req),
           NEW port, NEW node, Arguments(req, port, node),
           NEW t, TakenFrom(t, r, req, port)
    PROVE  Sound(ProtectionRows(t, req, port))
<1> DEFINE s == ProtectionRows(t, req, port)
<1>1. /\ ~Waits(r)
      /\ r.local_request # "FS"
      /\ r.local_request # "SF" => ~r.is_sending_raps
  BY DEF Sound, Parts, TimerPart, Waits, ForcedPart, FailPart
<1>2. req \in Request /\ req # "WTR_EXPIRES"
  BY RaisedRequest
<1>3. /\ r.local_request = "SF" => req \in {"CLEAR", "FS", "RAPS_FS", "CLEAR_SF"}
      /\ req = "CLEAR" => r.local_request # "SF"
  BY <1>2, AcceptedOver
<1>4. CASE req \in {"FS", "SF"}
  <2>1. port \in Port /\ req \in Switch
    BY <1>4 DEF Arguments, Switch, PortRequest
  <2> QED BY <1>1, <1>4, <2>1, IsolateStep DEF ProtectionRows
<1>5. CASE req = "RAPS_FS"
  BY <1>1, <1>5, YieldStep DEF ProtectionRows, RemoteRequest
<1>6. CASE req = "CLEAR_SF"
  BY <1>1, <1>6, AnnounceStep
    DEF ProtectionRows, Switch, RestoreTimer
<1>7. CASE req \in {"RAPS_NR_RB", "RAPS_NR"}
  <2>1. ~r.is_sending_raps
    BY <1>1, <1>3, <1>7
  <2> QED BY <1>1, <1>7, <2>1, EndStep
    DEF ProtectionRows, Switch, RestoreTimer
<1>8. CASE req \in {"CLEAR", "MS", "RAPS_SF", "RAPS_MS"}
  <2>1. s = t
    BY <1>8 DEF ProtectionRows
  <2> QED BY <1>1, <1>2, <1>3, <1>8, <2>1, IgnoredIsSound
<1> QED BY <1>4, <1>5, <1>6, <1>7, <1>8 DEF Raised, RemoteRequest, PortRequest

\* Rows 30 to 43 keep a ring sound.
LEMMA ManualSwitchStep ==
    ASSUME NEW r, Sound(r), r.state = "MANUAL_SWITCH",
           NEW req \in Raised, Accepted(r, req),
           NEW port, NEW node, Arguments(req, port, node),
           NEW t, TakenFrom(t, r, req, port)
    PROVE  Sound(ManualSwitchRows(t, req, port))
<1> DEFINE s == ManualSwitchRows(t, req, port)
<1>1. /\ ~Waits(r)
      /\ r.local_request \notin {"FS", "SF"}
      /\ r.is_sending_raps => /\ r.raps.request \notin {"FS", "SF"}
                              /\ "RB" \notin r.raps.flags
  BY DEF Sound, Parts, TimerPart, Waits, ForcedPart, FailPart, AnnouncePart
<1>2. req \in Request /\ req # "WTR_EXPIRES"
  BY RaisedRequest
<1>3. CASE req \in {"FS", "SF"}
  <2>1. port \in Port /\ req \in Switch
    BY <1>3 DEF Arguments, Switch, PortRequest
  <2> QED BY <1>1, <1>3, <2>1, IsolateStep DEF ManualSwitchRows
<1>4. CASE req \in {"RAPS_FS", "RAPS_SF"}
  BY <1>1, <1>4, YieldStep DEF ManualSwitchRows, RemoteRequest
<1>5. CASE req \in {"CLEAR", "RAPS_MS"} /\ t.blocked # {}
  BY <1>1, <1>5, AnnounceStep
    DEF ManualSwitchRows, Switch, RestoreTimer
<1>6. CASE req = "CLEAR" /\ t.blocked = {}
  BY <1>1, <1>6, EndStep
    DEF ManualSwitchRows, Switch, RestoreTimer
<1>7. CASE req \in {"RAPS_NR_RB", "RAPS_NR"}
  BY <1>1, <1>7, EndStep
    DEF ManualSwitchRows, Switch, RestoreTimer
<1>8. CASE \/ req \in {"CLEAR_SF", "MS"}
           \/ req = "RAPS_MS" /\ t.blocked = {}
  <2>1. s = t
    BY <1>8 DEF ManualSwitchRows
  <2> QED BY <1>1, <1>2, <1>8, <2>1, IgnoredIsSound
<1> QED BY <1>3, <1>4, <1>5, <1>6, <1>7, <1>8
        DEF Raised, RemoteRequest, PortRequest

\* Rows 44 to 57 keep a ring sound.
LEMMA ForcedSwitchStep ==
    ASSUME NEW r, Sound(r), r.state = "FORCED_SWITCH",
           NEW req \in Raised, Accepted(r, req),
           NEW port, NEW node, Arguments(req, port, node),
           NEW t, TakenFrom(t, r, req, port)
    PROVE  Sound(ForcedSwitchRows(t, req, port))
<1> DEFINE s == ForcedSwitchRows(t, req, port)
<1>1. /\ ~Waits(r)
      /\ r.local_request # "SF"
      /\ r.local_request = "FS" => r.blocked # {}
      /\ r.local_request # "FS" => r.blocked = {} /\ ~r.is_sending_raps
  BY DEF Sound, Parts, TimerPart, Waits, ForcedPart, FailPart
<1>2. req \in Request /\ req # "WTR_EXPIRES"
  BY RaisedRequest
<1>3. /\ r.local_request = "FS" => req = "CLEAR"
      /\ req # "SF"
  BY <1>2, AcceptedOver
<1>4. CASE req = "FS"
  <2> DEFINE u == BlockPort(t, port)
  <2>1. port \in Port /\ req \in Switch
    BY <1>4 DEF Arguments, Switch, PortRequest
  <2>2. /\ u \in Ring
        /\ Kept(u, t)
        /\ u.state = "FORCED_SWITCH"
        /\ u.blocked = {port}
        /\ u.timers = r.timers
    BY <1>1, <1>3, <1>4, <2>1 DEF BlockPort, TakenFrom, Ring, Kept
  <2>3. s = StartTx(u, "FS", {})
    BY <1>4 DEF ForcedSwitchRows
  <2> HIDE DEF u, s
  <2>4. "FS" \in RapsRequest /\ {} \in SUBSET Flag
    BY DEF RapsRequest
  <2>5. /\ s \in Ring
        /\ Kept(s, u)
        /\ s.state = u.state
        /\ s.blocked = u.blocked
        /\ s.timers = u.timers
        /\ Announces(s, "FS")
        /\ s.raps.flags = {}
    BY <2>2, <2>3, <2>4, StartTxEffect
  <2>6. Kept(s, t) /\ ~Waits(s)
    BY <1>1, <2>2, <2>5 DEF Kept, Waits
  <2>7. Sound(s)
    BY <1>4, <2>1, <2>2, <2>5, <2>6, LocalSwitchIsSound
  <2> QED BY <2>7 DEF s
<1>5. CASE req = "CLEAR" /\ t.blocked # {}
  BY <1>1, <1>5, AnnounceStep
    DEF ForcedSwitchRows, Switch, RestoreTimer
<1>6. CASE \/ req = "CLEAR" /\ t.blocked = {}
           \/ req \in {"RAPS_NR_RB", "RAPS_NR"}
  <2>1. ~r.is_sending_raps
    BY <1>1, <1>3, <1>6 DEF TakenFrom
  <2> QED BY <1>1, <1>6, <2>1, EndStep
    DEF ForcedSwitchRows, Switch, RestoreTimer
<1>7. CASE req \in {"CLEAR_SF", "MS", "RAPS_SF", "RAPS_MS", "RAPS_FS"}
  <2>1. s = t
    BY <1>7 DEF ForcedSwitchRows
  <2> QED BY <1>1, <1>2, <1>3, <1>7, <2>1, IgnoredIsSound
<1> QED BY <1>3, <1>4, <1>5, <1>6, <1>7
        DEF Raised, RemoteRequest, PortRequest

-----------------------------------------------------------------------------
\* What a sound ring is like in PENDING.
LEMMA PendingFacts ==
    ASSUME NEW r, Sound(r), r.state = "PENDING"
    PROVE  /\ r \in Ring
           /\ r.blocked # Port
           /\ r.local_request = "INVALID"
           /\ r.is_sending_raps => /\ r.raps.request \notin {"FS", "SF"}
                                   /\ "RB" \notin r.raps.flags
           /\ Waits(r) => r.is_rpl_owner
           /\ r.is_rpl_owner \/ r.is_rpl_neighbour => r.rpl_port \in Port
  BY DEF Sound, Parts, TimerPart, Waits, StateOfRetained, Ring, AnnouncePart,
         Configured

\* Rows 58 to 71 keep a ring sound, the expiry of a timer left aside.
LEMMA PendingStep ==
    ASSUME NEW r, Sound(r), r.state = "PENDING",
           NEW req \in Raised, Accepted(r, req),
           NEW port, NEW node, Arguments(req, port, node),
           NEW t, TakenFrom(t, r, req, port)
    PROVE  Sound(PendingRows(t, req, port, node))
<1> DEFINE s == PendingRows(t, req, port, node)
<1>1. /\ t \in Ring
      /\ t.blocked # Port
      /\ Waits(t) => t.is_rpl_owner
      /\ t.is_rpl_owner \/ t.is_rpl_neighbour => t.rpl_port \in Port
      /\ t.is_sending_raps => /\ t.raps.request \notin {"FS", "SF"}
                              /\ "RB" \notin t.raps.flags
  BY PendingFacts DEF TakenFrom, Waits
<1>2. req \in Request /\ req # "WTR_EXPIRES" /\ r.local_request = "INVALID"
  BY RaisedRequest, PendingFacts
<1>3. CASE req = "CLEAR"
  <2>1. t.is_rpl_owner
    BY <1>2, <1>3, AcceptedOver DEF TakenFrom
  <2>2. s = Revert(t, {"wtr", "wtb"})
    BY <1>3 DEF PendingRows
  <2> HIDE DEF s
  <2>3. /\ s \in Ring
        /\ Kept(s, t)
        /\ s.state = "IDLE"
        /\ s.blocked = {t.rpl_port}
        /\ s.timers = t.timers \ {"wtr", "wtb"}
        /\ Announces(s, "NR")
    BY <1>1, <2>1, <2>2, RevertEffect DEF Timer
  <2>4. ~Waits(s) /\ s.blocked # Port
    BY <2>3 DEF Waits, RestoreTimer, Port
  <2>5. s.is_rpl_owner /\ (s.is_sending_raps => s.raps.request \notin {"FS", "SF"})
    BY <2>1, <2>3 DEF Kept, Announces
  <2>6. req \in Request \ Switch
    BY <1>2, <1>3 DEF Switch
  <2>7. Sound(s)
    BY <2>3, <2>4, <2>5, <2>6, IdleIsSound
  <2> QED BY <2>7 DEF s
<1>4. CASE req \in Switch
  <2> DEFINE state == CASE req = "FS" -> "FORCED_SWITCH"
                        [] req = "SF" -> "PROTECTION"
                        [] req = "MS" -> "MANUAL_SWITCH"
             u == Isolate(t, port, req, {})
             v == OwnerStopsTimers(u)
  <2>1. port \in Port
    BY <1>4 DEF Arguments, Switch, PortRequest
  <2>2. req \in RapsRequest /\ {} \in SUBSET Flag
    BY <1>4 DEF Switch, RapsRequest
  <2>3. s = Enter(v, state)
    BY <1>4 DEF PendingRows, Switch
  <2>4. /\ u \in Ring
        /\ Kept(u, t)
        /\ u.blocked = {port}
        /\ Announces(u, req)
        /\ "RB" \notin u.raps.flags
        /\ u.timers = t.timers
    BY <1>1, <2>1, <2>2, IsolateEffect
  <2> HIDE DEF u, s
  <2>5. Waits(u) => u.is_rpl_owner
    BY <1>1, <2>4 DEF Waits, Kept
  <2>6. /\ v \in Ring
        /\ Kept(v, u)
        /\ v.blocked = u.blocked
        /\ v.raps = u.raps
        /\ v.is_sending_raps = u.is_sending_raps
        /\ ~Waits(v)
    BY <2>4, <2>5, OwnerStopsTimersEffect
  <2>7. state \in RingState
    BY <1>4 DEF Switch, RingState
  <2> HIDE DEF v, state
  <2>8. /\ s \in Ring
        /\ Kept(s, t)
        /\ s.state = state
        /\ s.blocked = {port}
        /\ Announces(s, req)
        /\ "RB" \notin s.raps.flags
        /\ ~Waits(s)
    BY <2>3, <2>4, <2>6, <2>7 DEF Enter, Ring, Kept, Waits, Announces
  <2>9. Sound(s)
    BY <1>4, <2>1, <2>8, LocalSwitchIsSound DEF state
  <2> QED BY <2>9 DEF s
<1>5. CASE req \in {"RAPS_FS", "RAPS_SF", "RAPS_MS"}
  <2>1. PICK u : /\ \/ u = YieldTo(t, "PROTECTION")
                    \/ u = YieldTo(t, "MANUAL_SWITCH")
                    \/ u = YieldToForced(t)
                 /\ s = OwnerStopsTimers(u)
    BY <1>5 DEF PendingRows
  <2> HIDE DEF s
  <2>2. /\ u \in Ring
        /\ Kept(u, t)
        /\ u.timers = t.timers
        /\ u.state \in {"FORCED_SWITCH", "PROTECTION", "MANUAL_SWITCH"}
        /\ u.state = "FORCED_SWITCH" => u.blocked = {}
        /\ u.blocked \subseteq t.blocked
        /\ ~u.is_sending_raps
    BY <1>1, <2>1, YieldToEffect, YieldToForcedEffect DEF RingState
  <2>3. Waits(u) => u.is_rpl_owner
    BY <1>1, <2>2 DEF Waits, Kept
  <2>4. /\ s \in Ring
        /\ Kept(s, u)
        /\ s.state = u.state
        /\ s.blocked = u.blocked
        /\ s.is_sending_raps = u.is_sending_raps
        /\ ~Waits(s)
    BY <2>1, <2>2, <2>3, OwnerStopsTimersEffect
  <2>5. Kept(s, t) /\ s.blocked \subseteq r.blocked
    BY <2>2, <2>4 DEF Kept, TakenFrom
  <2>6. Sound(s)
    BY <1>5, <2>2, <2>4, <2>5, RemoteSwitchIsSound DEF RemoteRequest
  <2> QED BY <2>6 DEF s
<1>6. CASE req = "RAPS_NR_RB"
  <2>1. s = ObeyRplBlocked(t)
    BY <1>6 DEF PendingRows
  <2> HIDE DEF s
  <2>2. /\ s \in Ring
        /\ Kept(s, t)
        /\ s.state = "IDLE"
        /\ s.blocked # Port
        /\ ~Waits(s)
        /\ IF t.is_rpl_owner
           THEN s.raps = t.raps /\ s.is_sending_raps = t.is_sending_raps
           ELSE /\ ~s.is_sending_raps
                /\ s.blocked = IF t.is_rpl_neighbour THEN {t.rpl_port} ELSE {}
    BY <1>1, <2>1, ObeyRplBlockedEffect
  <2>3. IF s.is_rpl_owner
        THEN s.is_sending_raps => s.raps.request \notin {"FS", "SF"}
        ELSE /\ ~s.is_sending_raps
             /\ s.blocked = IF s.is_rpl_neighbour THEN {s.rpl_port} ELSE {}
    BY <1>1, <2>2 DEF Kept
  <2>4. req \in Request \ Switch
    BY <1>2, <1>6 DEF Switch
  <2>5. Sound(s)
    BY <2>2, <2>3, <2>4, IdleIsSound
  <2> QED BY <2>5 DEF s
<1>7. CASE req = "RAPS_NR" /\ LosesTo(t, node)
  <2>1. s = YieldTo(t, "PENDING")
    BY <1>7 DEF PendingRows
  <2> HIDE DEF s
  <2>2. /\ s \in Ring
        /\ Kept(s, t)
        /\ s.state = "PENDING"
        /\ s.blocked \subseteq t.blocked
        /\ s.timers = t.timers
        /\ ~s.is_sending_raps
    BY <1>1, <2>1, YieldToEffect DEF RingState
  <2>3. s.blocked \subseteq r.blocked /\ (Waits(s) => s.is_rpl_owner)
    BY <1>1, <2>2 DEF Waits, Kept, TakenFrom
  <2>4. req \in Request \ Switch
    BY <1>2, <1>7 DEF Switch
  <2>5. Sound(s)
    BY <1>2, <2>2, <2>3, <2>4, PendingIsSound
  <2> QED BY <2>5 DEF s
<1>8. CASE \/ req = "CLEAR_SF"
           \/ req = "RAPS_NR" /\ ~LosesTo(t, node)
  <2>1. s = t
    BY <1>8 DEF PendingRows
  <2> QED BY <1>2, <1>8, <2>1, IgnoredIsSound
<1> QED BY <1>3, <1>4, <1>5, <1>6, <1>7, <1>8
        DEF Raised, RemoteRequest, PortRequest, Switch

-----------------------------------------------------------------------------
\* Stopping timers keeps a ring sound.
LEMMA StopTimersKeepsSound ==
    ASSUME NEW r, Sound(r), NEW timers \in SUBSET Timer
    PROVE  Sound(StopTimers(r, timers))
<1> DEFINE s == StopTimers(r, timers)
<1>1. r \in Ring /\ Parts(r)
  BY DEF Sound
<1>2. /\ s \in Ring
      /\ Kept(s, r)
      /\ s.state = r.state
      /\ s.blocked = r.blocked
      /\ s.raps = r.raps
      /\ s.is_sending_raps = r.is_sending_raps
      /\ s.timers = r.timers \ timers
  BY <1>1 DEF StopTimers, Ring, Kept
<1> HIDE DEF s
<1>3. Waits(s) => Waits(r)
  BY <1>2 DEF Waits
<1>4. Parts(s)
  BY <1>1, <1>2, <1>3
  DEF Kept, Announces, Parts, Configured, RetainedIsLast, StateOfRetained,
      ForcedPart, FailPart, TimerPart, AnnouncePart, IdlePart
<1> QED BY <1>2, <1>4 DEF Sound, s

\* The failure flags and the burst counter are outside the invariant.
LEMMA UnseenFieldsKeepSound ==
    ASSUME NEW r, Sound(r), NEW failed \in SUBSET Port, NEW n \in 0 .. RAPS_BURSTS
    PROVE  /\ Sound([r EXCEPT !.failed = failed])
           /\ Sound([r EXCEPT !.bursts_remain = n])
<1>1. r \in Ring /\ Parts(r)
  BY DEF Sound
<1>2. ASSUME NEW s, s \in {[r EXCEPT !.failed = failed], [r EXCEPT !.bursts_remain = n]}
      PROVE  Sound(s)
  <2>1. /\ s \in Ring
        /\ Kept(s, r)
        /\ s.state = r.state
        /\ s.blocked = r.blocked
        /\ s.raps = r.raps
        /\ s.is_sending_raps = r.is_sending_raps
        /\ s.timers = r.timers
    BY <1>1, <1>2 DEF Ring, Kept
  <2>2. Parts(s)
    BY <1>1, <2>1
    DEF Kept, Announces, Waits, Parts, Configured, RetainedIsLast, StateOfRetained,
        ForcedPart, FailPart, TimerPart, AnnouncePart, IdlePart
  <2> QED BY <2>1, <2>2 DEF Sound
<1> QED BY <1>2

-----------------------------------------------------------------------------
\* The deduplication of ring_fsm: the request accepted last changes nothing,
\* not even local_request, when it comes again.
LEMMA RepeatedRequestIgnored ==
    ASSUME NEW r, Sound(r), NEW req \in Request, NEW port, NEW node,
           req # "INVALID", PrevOf(req, port, node) = r.prev
    PROVE  ProcessRequest(r, req, port, node) = r
<1> DEFINE q == [r EXCEPT !.local_request = Retained(req)]
<1>1. r.prev.req = req
  BY DEF PrevOf
<1>2. r \in Ring /\ r.local_request = Retained(req)
  BY <1>1 DEF Sound, Parts, RetainedIsLast
<1>3. q = r
  BY <1>2 DEF Ring
<1> HIDE DEF q
<1>4. RingFsm(q, req, port, node) = r
  BY <1>3 DEF RingFsm
<1> QED BY <1>4 DEF ProcessRequest, q

\* ring_process_request keeps a ring sound.
LEMMA ProcessRequestKeepsSound ==
    ASSUME NEW r, Sound(r), NEW req \in Raised, NEW port, NEW node,
           Arguments(req, port, node)
    PROVE  Sound(ProcessRequest(r, req, port, node))
<1> DEFINE t == Taken(r, req, port, node)
<1>1. req \in Request /\ req # "INVALID"
  BY RaisedRequest
<1>2. r \in Ring /\ r.state \in RingState \ {"INIT"}
  BY DEF Sound, Parts, StateOfRetained, Ring
<1>3. CASE ~Accepted(r, req)
  BY <1>3 DEF ProcessRequest
<1>4. CASE PrevOf(req, port, node) = r.prev
  BY <1>1, <1>4, RepeatedRequestIgnored
<1>5. CASE Accepted(r, req) /\ PrevOf(req, port, node) # r.prev
  <2>1. ProcessRequest(r, req, port, node) = FsmRows(t, req, port, node)
    BY <1>1, <1>2, <1>5, NewRequestTaken
  <2>2. TakenFrom(t, r, req, port)
    BY <1>1, <1>2, TakenEffect
  <2>3. t.state = r.state
    BY <2>2 DEF TakenFrom
  <2> HIDE DEF t
  <2>4. CASE r.state = "IDLE"
    BY <1>5, <2>1, <2>2, <2>3, <2>4, IdleStep DEF FsmRows
  <2>5. CASE r.state = "PROTECTION"
    BY <1>5, <2>1, <2>2, <2>3, <2>5, ProtectionStep DEF FsmRows
  <2>6. CASE r.state = "MANUAL_SWITCH"
    BY <1>5, <2>1, <2>2, <2>3, <2>6, ManualSwitchStep DEF FsmRows
  <2>7. CASE r.state = "FORCED_SWITCH"
    BY <1>5, <2>1, <2>2, <2>3, <2>7, ForcedSwitchStep DEF FsmRows
  <2>8. CASE r.state = "PENDING"
    BY <1>5, <2>1, <2>2, <2>3, <2>8, PendingStep DEF FsmRows
  <2> QED BY <1>2, <2>4, <2>5, <2>6, <2>7, <2>8 DEF RingState
<1> QED BY <1>3, <1>4, <1>5

\* ring_timer on an expired wait-to-restore timer keeps a ring sound: the owner
\* reverts, and the timer is cleared after the request.
LEMMA WtrStep ==
    ASSUME NEW r, Sound(r), "wtr" \in r.timers
    PROVE  LET u == ProcessRequest(r, "WTR_EXPIRES", NoPort, NoNode)
           IN  u \in Ring /\ Sound(StopTimers(u, {"wtr"}))
<1> DEFINE t == Taken(r, "WTR_EXPIRES", NoPort, NoNode)
           u == ProcessRequest(r, "WTR_EXPIRES", NoPort, NoNode)
           s == StopTimers(u, {"wtr"})
<1>1. /\ r \in Ring
      /\ r.is_rpl_owner /\ r.rpl_port \in Port
      /\ r.state = "PENDING"
      /\ r.prev.req # "WTR_EXPIRES"
  BY DEF Sound, Parts, TimerPart, Waits, RestoreTimer, Configured, Ring
<1>2. "WTR_EXPIRES" \in Request \ Switch /\ Arguments("WTR_EXPIRES", NoPort, NoNode)
  BY DEF Request, Severity, Switch, Arguments, PortRequest, RemoteRequest
<1>3. CASE ~Accepted(r, "WTR_EXPIRES")
  BY <1>1, <1>3, StopTimersKeepsSound DEF ProcessRequest, Timer
<1>4. CASE Accepted(r, "WTR_EXPIRES")
  <2>1. PrevOf("WTR_EXPIRES", NoPort, NoNode) # r.prev
    BY <1>1 DEF PrevOf
  <2>2. TakenFrom(t, r, "WTR_EXPIRES", NoPort)
    BY <1>1, <1>2, TakenEffect
  <2>3. u = FsmRows(t, "WTR_EXPIRES", NoPort, NoNode)
    BY <1>1, <1>2, <1>4, <2>1, NewRequestTaken
  <2>4. t \in Ring /\ t.is_rpl_owner /\ t.rpl_port \in Port /\ t.state = "PENDING"
    BY <1>1, <2>2 DEF TakenFrom
  <2> HIDE DEF t, u
  <2>5. u = Revert(t, {"wtb"})
    BY <2>3, <2>4 DEF FsmRows, PendingRows
  <2>6. /\ u \in Ring
        /\ Kept(u, t)
        /\ u.state = "IDLE"
        /\ u.blocked = {t.rpl_port}
        /\ u.timers = t.timers \ {"wtb"}
        /\ Announces(u, "NR")
    BY <2>4, <2>5, RevertEffect DEF Timer
  <2>7. /\ s \in Ring
        /\ Kept(s, t)
        /\ s.state = "IDLE"
        /\ s.blocked = {t.rpl_port}
        /\ Announces(s, "NR")
        /\ s.timers = t.timers \ {"wtr", "wtb"}
    BY <2>6 DEF StopTimers, Ring, Kept, Announces
  <2> HIDE DEF s
  <2>8. ~Waits(s) /\ s.blocked # Port
    BY <2>7 DEF Waits, RestoreTimer, Port
  <2>9. s.is_rpl_owner /\ (s.is_sending_raps => s.raps.request \notin {"FS", "SF"})
    BY <2>4, <2>7 DEF Kept, Announces
  <2>10. Sound(s)
    BY <1>2, <2>2, <2>7, <2>8, <2>9, IdleIsSound
  <2> QED BY <2>6, <2>10 DEF s, u
<1> QED BY <1>3, <1>4

\* process_raps_frame keeps a ring sound.
LEMMA ProcessRapsKeepsSound ==
    ASSUME NEW r, Sound(r), NEW frame \in Frame, NEW port \in Port, NEW expired
    PROVE  Sound(ProcessRaps(r, frame, port, expired))
<1>1. Sound(StopTimers(r, {"guard"}))
  BY StopTimersKeepsSound DEF Timer
<1> QED BY <1>1, RequestOfFrame, ProcessRequestKeepsSound DEF ProcessRaps

\* er_ring_create makes a sound ring.
LEMMA CreateRingSound ==
    ASSUME NEW c \in Config
    PROVE  /\ Sound(CreateRing(c))
           /\ CreateRing(c).prev.req = "INVALID"
           /\ CreateRing(c).blocked # {}
           /\ CreateRing(c).rpl_port = c.rpl_port
           /\ CreateRing(c).blocked =
                  {IF c.rpl_port = NoPort THEN "port0" ELSE c.rpl_port}
           /\ Announces(CreateRing(c), "NR")
<1> DEFINE new == PrevOf("INVALID", NoPort, NoNode)
           r   == NewRing(c)
           p   == IF c.is_rpl_owner \/ c.is_rpl_neighbour THEN c.rpl_port ELSE "port0"
           u   == StopTimers(r, Timer)
           t   == UnblockPort(BlockPort(u, p), OtherPort(p))
           v   == StartTx(t, "NR", {})
           w   == OwnerStarts(v, "wtr")
           s   == Enter(w, "PENDING")
<1>1. p \in Port /\ "NR" \in RapsRequest /\ {} \in SUBSET Flag
  BY DEF Config, Port, RapsRequest
<1>2. /\ new \in Prev
      /\ new.req = "INVALID"
      /\ new.port = NoPort
      /\ new.node = NoNode
  BY DEF PrevOf, Prev, Request, Severity, PortRequest, RemoteRequest
<1>3. 0 \in 0 .. RAPS_BURSTS
  BY DEF RAPS_BURSTS
<1> HIDE DEF new
<1>4. /\ r \in Ring
      /\ r.is_rpl_owner = c.is_rpl_owner
      /\ r.is_rpl_neighbour = c.is_rpl_neighbour
      /\ r.rpl_port = c.rpl_port
      /\ r.prev = new
      /\ r.local_request = "INVALID"
      /\ r.state = "INIT"
      /\ Configured(r)
  BY <1>1, <1>2, <1>3
  DEF NewRing, Config, Ring, RingState, LocalRequest, RapsRequest, Configured, new
<1>5. CreateRing(c) = s
  <2>1. [r EXCEPT !.prev = new] = r
    BY <1>4 DEF Ring
  <2>2. CreateRing(c) = FsmRows(r, "INVALID", NoPort, NoNode)
    BY <2>1 DEF CreateRing, RingFsm, new
  <2>3. CreateRing(c) = InitRows(r)
    BY <1>4, <2>2 DEF FsmRows
  <2>4. OtherPort("port0") = "port1"
    BY DEF OtherPort
  <2>5. u.rpl_port = c.rpl_port
    BY <1>4 DEF StopTimers, Ring
  <2> HIDE DEF r, u
  <2> QED BY <1>4, <2>3, <2>4, <2>5 DEF InitRows, u
<1> HIDE DEF p, r
<1>6. /\ u \in Ring
      /\ Kept(u, r)
      /\ u.timers = {}
  BY <1>4 DEF StopTimers, Ring, Kept
<1> HIDE DEF u
<1>7. t = [u EXCEPT !.blocked = {p}]
  BY <1>1, <1>6, BlockPairEffect
<1>8. /\ t \in Ring
      /\ Kept(t, u)
      /\ t.timers = {}
      /\ t.blocked = {p}
  BY <1>1, <1>6, <1>7 DEF Ring, Kept
<1> HIDE DEF t
<1>9. /\ v \in Ring
      /\ Kept(v, t)
      /\ v.timers = {}
      /\ v.blocked = {p}
      /\ Announces(v, "NR")
      /\ v.raps.flags = {}
  BY <1>1, <1>8, StartTxEffect
<1> HIDE DEF v
<1>10. /\ s \in Ring
       /\ Kept(s, v)
       /\ s.state = "PENDING"
       /\ s.blocked = {p}
       /\ Announces(s, "NR")
       /\ s.raps.flags = {}
       /\ Waits(s) => s.is_rpl_owner
  BY <1>9 DEF OwnerStarts, StartTimer, Enter, Ring, RingState, Timer, Waits,
              RestoreTimer, Kept, Announces
<1> HIDE DEF s
<1>11. Kept(s, r)
  BY <1>6, <1>8, <1>9, <1>10 DEF Kept
<1>12. /\ Configured(s)
       /\ s.prev.req = "INVALID"
       /\ s.prev.port = NoPort
       /\ s.prev.node = NoNode
       /\ s.local_request = "INVALID"
  BY <1>2, <1>4, <1>11 DEF Kept, Configured
<1>13. {p} # Port
  BY DEF Port
<1>14. Parts(s)
  BY <1>10, <1>12, <1>13
  DEF Announces, Retained, Parts, RetainedIsLast, StateOfRetained, ForcedPart,
      FailPart, TimerPart, AnnouncePart, IdlePart
<1>15. s.rpl_port = c.rpl_port /\ p = IF c.rpl_port = NoPort THEN "port0" ELSE c.rpl_port
  BY <1>4, <1>11 DEF Kept, Config, p
<1> QED BY <1>5, <1>10, <1>12, <1>14, <1>15 DEF Sound

-----------------------------------------------------------------------------
\* Over a retained forced switch only CLEAR gets through.
LEMMA ForcedSwitchYields ==
    ASSUME NEW r, Sound(r), r.local_request = "FS",
           NEW req \in Raised, NEW port, NEW node,
           Arguments(req, port, node),
           NEW s, s = ProcessRequest(r, req, port, node)
    PROVE  s.prev.req = "CLEAR" \/ s = r
<1>1. req \in Request /\ req # "INVALID"
  BY RaisedRequest
<1>2. /\ r \in Ring
      /\ r.prev.req = "FS"
      /\ r.state = "FORCED_SWITCH"
  BY DEF Sound, Parts, RetainedIsLast, Retained, ForcedPart
<1>3. CASE ~Accepted(r, req)
  BY <1>3 DEF ProcessRequest
<1>4. CASE Accepted(r, req)
  <2> DEFINE t == Taken(r, req, port, node)
  <2>1. req = "CLEAR"
    BY <1>1, <1>4, AcceptedOver
  <2>2. s = FsmRows(t, req, port, node)
    <3>1. PrevOf(req, port, node) # r.prev
      BY <1>2, <2>1 DEF PrevOf
    <3> QED BY <1>1, <1>2, <1>4, <3>1, NewRequestTaken
  <2>3. t \in Ring /\ t.state = "FORCED_SWITCH" /\ t.prev.req = "CLEAR"
    BY <1>1, <1>2, <2>1, TakenEffect DEF TakenFrom
  <2> HIDE DEF t
  <2>4. s = Enter(IF t.blocked # {} THEN AnnounceNR(t, "wtb") ELSE t, "PENDING")
    BY <2>1, <2>2, <2>3 DEF FsmRows, ForcedSwitchRows
  <2> DEFINE u == AnnounceNR(t, "wtb")
  <2>5. u \in Ring /\ u.prev.req = "CLEAR"
    BY <2>3, AnnounceNREffect DEF RestoreTimer, Kept
  <2> HIDE DEF u
  <2>6. s = Enter(u, "PENDING") \/ s = Enter(t, "PENDING")
    BY <2>4 DEF u
  <2> QED BY <2>3, <2>5, <2>6 DEF Enter, Ring
<1> QED BY <1>3, <1>4

\* Over a retained signal failure only a recovery and a forced switch get through.
LEMMA SignalFailYields ==
    ASSUME NEW r, Sound(r), r.local_request = "SF",
           NEW req \in Raised, NEW port, NEW node,
           Arguments(req, port, node),
           NEW s, s = ProcessRequest(r, req, port, node)
    PROVE  s.prev.req \in {"CLEAR_SF", "FS", "RAPS_FS"} \/ s = r
<1>1. req \in Request /\ req # "INVALID"
  BY RaisedRequest
<1>2. /\ r \in Ring
      /\ r.prev.req = "SF"
      /\ r.state = "PROTECTION"
  BY DEF Sound, Parts, RetainedIsLast, Retained, FailPart
<1>3. CASE ~Accepted(r, req)
  BY <1>3 DEF ProcessRequest
<1>4. CASE Accepted(r, req)
  <2> DEFINE t == Taken(r, req, port, node)
  <2>1. req \in {"FS", "RAPS_FS", "CLEAR_SF"}
    BY <1>1, <1>2, <1>4, AcceptedOver
  <2>2. s = FsmRows(t, req, port, node)
    <3>1. PrevOf(req, port, node) # r.prev
      BY <1>2, <2>1 DEF PrevOf
    <3> QED BY <1>1, <1>2, <1>4, <3>1, NewRequestTaken
  <2>3. t \in Ring /\ t.state = "PROTECTION" /\ t.prev.req = req
    BY <1>1, <1>2, TakenEffect DEF TakenFrom
  <2> HIDE DEF t
  <2>4. s = ProtectionRows(t, req, port)
    BY <2>2, <2>3 DEF FsmRows
  <2>5. CASE req = "FS"
    <3> DEFINE u == Isolate(t, port, "FS", {})
    <3>1. port \in Port /\ "FS" \in RapsRequest /\ {} \in SUBSET Flag
      BY <2>5 DEF Arguments, PortRequest, RapsRequest
    <3>2. u \in Ring /\ u.prev.req = "FS"
      BY <2>3, <2>5, <3>1, IsolateEffect DEF Kept
    <3>3. s = Enter(u, "FORCED_SWITCH")
      BY <2>4, <2>5 DEF ProtectionRows
    <3> HIDE DEF u
    <3> QED BY <3>2, <3>3 DEF Enter, Ring
  <2>6. CASE req = "RAPS_FS"
    <3>1. s = YieldToForced(t)
      BY <2>4, <2>6 DEF ProtectionRows
    <3> QED BY <2>3, <2>6, <3>1, YieldToForcedEffect DEF Kept
  <2>7. CASE req = "CLEAR_SF"
    <3> DEFINE u == AnnounceNR(t, "wtr")
    <3>1. u \in Ring /\ u.prev.req = "CLEAR_SF"
      BY <2>3, <2>7, AnnounceNREffect DEF RestoreTimer, Kept
    <3>2. s = Enter(u, "PENDING")
      BY <2>4, <2>7 DEF ProtectionRows
    <3> HIDE DEF u
    <3> QED BY <3>1, <3>2 DEF Enter, Ring
  <2> QED BY <2>1, <2>5, <2>6, <2>7
<1> QED BY <1>3, <1>4

=============================================================================
