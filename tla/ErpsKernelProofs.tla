--------------------------- MODULE ErpsKernelProofs ---------------------------
(***************************************************************************)
(* Theorems about the kernel module, for every set of interfaces, callers, *)
(* requests and frames, and any number of rings and callbacks.             *)
(***************************************************************************)
EXTENDS ErpsKernel, RingFSMProofs

-----------------------------------------------------------------------------
(***************************************************************************)
(* The inductive invariant.                                                *)
(***************************************************************************)

\* The steps of INIT between the allocation of a ring and its publication: the
\* caller owns a ring that nobody else can find.
Building == {"port0", "port1", "regops", "prepare", "publish"}

\* The steps of INIT on a ring that everybody can find.
Finishing == {"configure", "activate"}

Memory == [ mem    : {"unused", "live", "freed"},
            active : BOOLEAN,
            fsm    : Ring \cup {NoFsm},
            link   : [Port -> Interface \cup {None}],
            idx    : [Port -> 0 .. NOPORT] ]

Call == [ step : {"idle", "status", "alloc"} \cup Building \cup Finishing,
          slot : Slot \cup {NoSlot},
          req  : Requests \cup {NoRequest} ]

\* The steps without an argument in the rows that a message executes, and those of
\* the frame around the rows.
PlainStep  == {"burst", "sending", "silent"} \cup FrameStore \cup FrameLoad
AroundStep == {"filter?", "enter", "dupe?", "remember", "switch", "store"}

\* The steps of a message that has been parsed: of the ports they block home alone.
MessageStep(home) ==
    {<<"block", home>>, <<"any_blocked?", "PENDING">>}
    \cup ({"unblock", "nonfailed?"} \X Port)
    \cup ({"start", "stop"} \X Timer)
    \cup ({"differs?"} \X RapsRequest \X SUBSET Flag)
    \cup ({"request"} \X RapsRequest)
    \cup ({"flags"} \X SUBSET Flag)
    \cup { <<name>> : name \in PlainStep \cup AroundStep }

AnyStep == MessageStep("port0") \cup MessageStep("port1") \cup
           {<<"guard?">>, <<"accept?">>}

Reception == [ step   : {"idle", "active?", "lookup", "process", "relay", "learn"},
               slot   : Slot \cup {NoSlot},
               frame  : Traffic \cup {NoFrame},
               new    : RingState,
               todo   : Seq(AnyStep),
               before : Ring \cup {NoFsm} ]

Module == [ step : {"loaded", "deactivate", "port0", "port1", "free", "forget",
                    "device", "gone", "panicked"},
            slot : Slot \cup {NoSlot} ]

Types == /\ er_global \in Slot \cup {NoSlot}
         /\ er_ring \in [Slot -> Memory]
         /\ index \in [Interface -> 0 .. NOPORT]
         /\ ops \in BOOLEAN /\ (ops => Attached # {})
         /\ caller \in [Caller -> Call]
         /\ rx \in [Interface -> Reception]
         /\ module \in Module
         /\ others \subseteq Attached
         /\ upset \subseteq {"overlap", "failed"}

\* Caller c owns ring s, which is not published yet.
Builds(c, s) == caller[c].step \in Building /\ caller[c].slot = s

Live(s) == er_ring[s].mem = "live"

\* A state machine that messages can be handed to, however their rows interleave.
Usable(r) == /\ r \in Ring /\ Configured(r)
             /\ r.state # "INIT"
             /\ r.blocked \subseteq {HomePort(r)}

\* A slot that somebody holds is the null pointer or a ring that was allocated.
Held(s) == s # NoSlot => s \in Slot /\ er_ring[s].mem # "unused"

\* Memory that was never allocated is as it was; a ring in use is live.
MemoryPart == \A s \in Slot : /\ er_ring[s].mem = "unused" => er_ring[s] = Unused
                              /\ er_ring[s].active => Live(s)

\* No pointer is wild, and a callback has a ring and a frame.
HeldPart == /\ Held(er_global) /\ Held(module.slot)
            /\ \A c \in Caller : Held(caller[c].slot)
            /\ \A i \in Interface :
                   /\ Held(rx[i].slot)
                   /\ rx[i].step # "idle" =>
                          rx[i].slot \in Slot /\ rx[i].frame \in Traffic

\* What a caller has, step by step.
CallPart ==
    \A c \in Caller :
        LET step == caller[c].step
            slot == caller[c].slot
        IN  /\ step \in {"idle", "alloc"} => slot = NoSlot
            /\ step \notin {"idle", "alloc"} => slot \in Slot
            /\ step \notin {"idle", "status"} =>
                   caller[c].req \in Requests /\ ValidRpl(caller[c].req)

\* A ring that is being built is its builder's alone, and as far as the builder has
\* come.
BuildPart ==
    \A c \in Caller :
        LET step == caller[c].step
            s    == caller[c].slot
        IN  step \in Building =>
                /\ Live(s) /\ ~er_ring[s].active
                /\ s # er_global /\ s # module.slot
                /\ \A d \in Caller \ {c} : caller[d].slot # s
                /\ \A i \in Interface : rx[i].slot # s
                /\ er_ring[s].link["port0"] =
                       IF step = "port0" THEN None ELSE caller[c].req.link["port0"]
                /\ er_ring[s].link["port1"] =
                       IF step \in {"port0", "port1"} THEN None
                                                      ELSE caller[c].req.link["port1"]
                /\ step = "publish" => Usable(er_ring[s].fsm)

\* A live ring that nobody is building is whole, until unloading takes its links.
WholePart ==
    \A s \in Slot : Live(s) /\ (\A c \in Caller : ~Builds(c, s)) =>
        /\ Usable(er_ring[s].fsm)
        /\ \/ \A p \in Port : er_ring[s].link[p] # None
           \/ s = module.slot /\ module.step \notin {"loaded", "deactivate", "port0"}

\* The lists of a callback before its frame has been parsed, and from then on before
\* the state of the ring has been read.
Unread    == {FrameSteps, Tail(FrameSteps), Stop("guard") \o Tail(FrameSteps)}
Unentered == {Tail(Tail(FrameSteps)), Tail(Tail(Tail(FrameSteps)))}

\* A callback in the middle of the control process: what it has still to do blocks
\* home alone; what it will store in the end is a state that it has read or chosen.
Underway(c, home) ==
    \/ c.todo \in Unread
    \/ /\ Parses(c.frame)
       /\ c.todo \in Seq(MessageStep(home)) /\ c.todo # <<>>
       /\ c.new = "INIT" => c.todo \in Unentered

ReceptionPart ==
    \A i \in Interface :
        rx[i].step = "process" =>
            /\ er_is_raps_frame(rx[i].frame)
            /\ Live(rx[i].slot) => Underway(rx[i], HomePort(er_ring[rx[i].slot].fsm))

\* How far the unloading has come.
ModulePart ==
    /\ module.step = "loaded" => module.slot = NoSlot
    /\ module.step \in {"deactivate", "port0", "port1", "free", "forget"} =>
           module.slot \in Slot
    /\ module.step \in {"port1", "free"} => er_ring[module.slot].link["port0"] = None
    /\ module.step = "free" => er_ring[module.slot].link["port1"] = None
    /\ module.step = "forget" => ~Live(module.slot)
    /\ module.step \in {"loaded", "deactivate", "port0", "port1", "free"} =>
           (er_global # NoSlot => Live(er_global))

\* One INIT at a time, not during the unload, and no published ring beside the one
\* that is being built.
OneInit ==
    /\ \A c, d \in Caller : Initialising(c) /\ Initialising(d) => c = d
    /\ \A c \in Caller :
           /\ Initialising(c) => module.step \in {"loaded", "panicked"}
           /\ caller[c].step \in {"alloc"} \cup Building => er_global = NoSlot
           /\ caller[c].step \in Finishing => caller[c].slot = er_global

\* The links of the ring, as far as it is built and unless it is taken down, are on
\* the bridge.
LinksAttached ==
    /\ \A c \in Caller, p \in Port :
           caller[c].step \in Building =>
               LET i == er_ring[caller[c].slot].link[p]
               IN  i # None => i \in Attached
    /\ module.step = "loaded" /\ er_global # NoSlot =>
           \A p \in Port : er_ring[er_global].link[p] \in Attached

\* What goes is what was published.
OneRing ==
    /\ module.step \in {"deactivate", "port0", "port1", "free", "forget"} =>
           er_global = module.slot
    /\ module.step \in {"device", "gone"} => er_global = NoSlot

\* As long as INITs have not overlapped each other or the unload.
AlonePart == "overlap" \notin upset => OneInit /\ LinksAttached /\ OneRing

\* The only live ring is the one published or built.
OneLive == \A s \in Slot : Live(s) => s = er_global \/ \E c \in Caller : Builds(c, s)

\* An interface on the bridge is a link of a live ring or the operator's.
NothingLeft == \A i \in Attached \ others :
                   \E s \in Slot, p \in Port : Live(s) /\ er_ring[s].link[p] = i

\* The ring that goes is inactive before it loses a link.
InactiveFirst == \A s \in Slot : er_ring[s].active =>
                     s # module.slot \/ module.step \in {"deactivate", "panicked"}

\* A callback on a link has a live ring and one past the test of active a whole one;
\* the ring is freed when there are callbacks on other interfaces only.
CallbackSafe ==
    \A i \in Interface :
        /\ rx[i].step # "idle" /\ i \notin others => Live(rx[i].slot)
        /\ rx[i].step # "idle" /\ module.step = "free" => i \in others
        /\ rx[i].step \in {"lookup", "process", "relay"} => Readable(rx[i].slot)

\* As long as no INIT has failed half-way either, nothing is left behind.
CleanPart == upset = {} => OneLive /\ NothingLeft /\ InactiveFirst /\ CallbackSafe

IInv == /\ Types
        /\ MemoryPart
        /\ HeldPart
        /\ CallPart
        /\ BuildPart
        /\ WholePart
        /\ ReceptionPart
        /\ ModulePart
        /\ AlonePart
        /\ CleanPart

-----------------------------------------------------------------------------
(***************************************************************************)
(* The order of the steps of INIT and of unloading.                        *)
(***************************************************************************)

\* ERIOCINIT from the allocation to the activation.
LEMMA InitOrder ==
    /\ NextStep(InitSteps, "alloc")     = "port0"
    /\ NextStep(InitSteps, "port0")     = "port1"
    /\ NextStep(InitSteps, "port1")     = "regops"
    /\ NextStep(InitSteps, "regops")    = "prepare"
    /\ NextStep(InitSteps, "prepare")   = "publish"
    /\ NextStep(InitSteps, "publish")   = "configure"
    /\ NextStep(InitSteps, "configure") = "activate"
<1>1. Len(InitSteps) = 9
  BY DEF InitSteps
<1>2. ASSUME NEW step, NEW k \in 1 .. 8, InitSteps[k] = step,
             \A m \in 1 .. 8 : InitSteps[m] = step => m = k
      PROVE  NextStep(InitSteps, step) = InitSteps[1 + k]
  BY <1>1, <1>2 DEF NextStep
<1> QED BY <1>2 DEF InitSteps

\* MOD_UNLOAD, when there is a ring.
LEMMA UnloadOrder ==
    /\ Head(UnloadSteps) = "deactivate"
    /\ NextStep(UnloadSteps, "deactivate") = "port0"
    /\ NextStep(UnloadSteps, "port0")      = "port1"
    /\ NextStep(UnloadSteps, "port1")      = "free"
    /\ NextStep(UnloadSteps, "free")       = "forget"
    /\ NextStep(UnloadSteps, "forget")     = "device"
    /\ NextStep(UnloadSteps, "device")     = "gone"
<1>1. Len(UnloadSteps) = 7 /\ Head(UnloadSteps) = "deactivate"
  BY DEF UnloadSteps
<1>2. ASSUME NEW step, NEW k \in 1 .. 6, UnloadSteps[k] = step,
             \A m \in 1 .. 6 : UnloadSteps[m] = step => m = k
      PROVE  NextStep(UnloadSteps, step) = UnloadSteps[1 + k]
  BY <1>1, <1>2 DEF NextStep
<1> QED BY <1>1, <1>2 DEF UnloadSteps

\* A step that leaves the callbacks alone, and of the rings they work on those that
\* stay live the state machine's configuration.
LEMMA ReceptionStays ==
    ASSUME ReceptionPart, rx' = rx,
           \A i \in Interface : rx[i].step = "process" /\ Live(rx[i].slot)' =>
               /\ Live(rx[i].slot)
               /\ HomePort(er_ring'[rx[i].slot].fsm) = HomePort(er_ring[rx[i].slot].fsm)
    PROVE  ReceptionPart'
<1> SUFFICES ASSUME NEW i \in Interface, rx[i].step = "process"
             PROVE  ReceptionPart!(i)'
  BY DEF ReceptionPart
<1>1. ReceptionPart!(i)
  BY DEF ReceptionPart
<1> QED BY <1>1

-----------------------------------------------------------------------------
(***************************************************************************)
(* The steps of ERIOCINIT.                                                 *)
(***************************************************************************)
\* Caller c is at a step, with a ring and the same request; the others stay.
Moved(c, step, slot) ==
    /\ caller' \in [Caller -> Call]
    /\ caller'[c].step = step /\ caller'[c].slot = slot
    /\ caller'[c].req = caller[c].req
    /\ \A d \in Caller \ {c} : caller'[d] = caller[d]

\* A step of er_ring_init takes its caller to the next one.
LEMMA GoesOn ==
    ASSUME Types, NEW c \in Caller, NEW slot \in Slot,
           NEW step \in Building \cup Finishing,
           step = NextStep(InitSteps, caller[c].step), Goes(c, slot)
    PROVE  Moved(c, step, slot)
  BY DEF Types, Goes, Moved, Call

\* Both links of a request are interfaces.
LEMMA RequestLinks ==
    ASSUME NEW req \in Requests, NEW p \in Port
    PROVE  req.link[p] \in Interface /\ req.link[p] # None
  BY KernelAssumption DEF InitRequest

\* The new ring is published before it is configured and activated.
LEMMA PublishStep ==
    ASSUME IInv, NEW c \in Caller, PublishRing(c)
    PROVE  IInv'
<1> DEFINE s == caller[c].slot
<1>1. /\ caller[c].step = "publish" /\ module.step # "panicked"
      /\ s \in Slot /\ caller[c].req \in Requests
  BY DEF PublishRing, At, IInv, CallPart
<1>2. /\ er_global' = s
      /\ UNCHANGED <<er_ring, index, ops, rx, module, others, upset>>
      /\ Moved(c, "configure", s)
  BY <1>1, InitOrder, GoesOn DEF PublishRing, netmap, IInv, Finishing
<1>3. /\ Live(s) /\ Usable(er_ring[s].fsm) /\ ~er_ring[s].active
      /\ s # module.slot
      /\ er_ring[s].link["port0"] = caller[c].req.link["port0"]
      /\ er_ring[s].link["port1"] = caller[c].req.link["port1"]
      /\ \A d \in Caller \ {c} : caller[d].slot # s
  BY <1>1 DEF IInv, BuildPart, Building
<1>4. \A p \in Port : er_ring[s].link[p] \in Interface /\ er_ring[s].link[p] # None
  BY <1>1, <1>3, RequestLinks DEF Port
<1>5. /\ \A d \in Caller : ~Builds(d, s)'
      /\ \A d \in Caller, t \in Slot \ {s} : Builds(d, t)' <=> Builds(d, t)
  BY <1>1, <1>2, <1>3 DEF Builds, Moved, Building
<1>6. \A t \in Slot : Live(t)' <=> Live(t)
  BY <1>2 DEF Live
<1> HIDE DEF s
<1>7. Types'
  BY <1>1, <1>2 DEF IInv, Types, Moved, Attached
<1>8. MemoryPart'
  BY <1>2 DEF IInv, MemoryPart, Live
<1>9. HeldPart' /\ CallPart'
  BY <1>1, <1>2, <1>3 DEF IInv, HeldPart, Held, CallPart, Moved, Live
<1>10. BuildPart'
  BY <1>1, <1>2, <1>3 DEF IInv, BuildPart, Building, Live, Moved
<1>11. WholePart'
  BY <1>2, <1>3, <1>4, <1>5, <1>6 DEF IInv, WholePart
<1>12. ModulePart'
  BY <1>2, <1>3 DEF IInv, ModulePart, Live
<1>13. ASSUME "overlap" \notin upset
       PROVE  /\ module.step = "loaded"
              /\ \A d \in Caller \ {c} : ~Initialising(d)
              /\ er_global = NoSlot
              /\ \A p \in Port : er_ring[s].link[p] \in Attached
  BY <1>1, <1>4, <1>13 DEF IInv, AlonePart, OneInit, LinksAttached, Initialising,
     Building, s
<1>14. AlonePart'
  <2> SUFFICES ASSUME "overlap" \notin upset
               PROVE  OneInit' /\ LinksAttached' /\ OneRing'
    BY <1>2 DEF AlonePart
  <2>1. \A d \in Caller \ {c} : ~Initialising(d)'
    BY <1>2, <1>13 DEF Moved, Initialising
  <2>2. OneInit' /\ LinksAttached' /\ OneRing'
    BY <1>2, <1>13, <2>1 DEF OneInit, LinksAttached, OneRing, Initialising, Moved,
       Building, Attached, Finishing
  <2> QED BY <2>2
<1>15. CleanPart'
  <2> SUFFICES ASSUME upset = {}
               PROVE  OneLive' /\ NothingLeft' /\ InactiveFirst' /\ CallbackSafe'
    BY <1>2 DEF CleanPart
  <2>1. OneLive'
    BY <1>1, <1>2, <1>5, <1>6, <1>13 DEF IInv, CleanPart, OneLive, NoSlot, Slot, Builds,
       Initialising, Building
  <2>2. NothingLeft'
    BY <1>2, <1>6 DEF IInv, CleanPart, NothingLeft, Attached
  <2>3. InactiveFirst' /\ CallbackSafe'
    BY <1>2, <1>6 DEF IInv, CleanPart, InactiveFirst, CallbackSafe, HeldPart,
       Readable, Live
  <2> QED BY <2>1, <2>2, <2>3
<1>16. ReceptionPart'
  BY <1>2, <1>6, ReceptionStays DEF IInv, Live
<1> QED BY <1>16, <1>7, <1>8, <1>9, <1>10, <1>11, <1>12, <1>14, <1>15 DEF IInv

\* Caller c starts or ends a call, or reads: it builds no ring before and none
\* after, and looks at the published one at most.  An INIT that starts tells that it
\* overlaps.
LEMMA CallStep ==
    ASSUME IInv, NEW c \in Caller,
           caller' \in [Caller -> Call],
           \A d \in Caller \ {c} : caller'[d] = caller[d],
           caller[c].step \notin Building,
           caller'[c].step \in {"idle", "alloc", "status"},
           caller'[c].slot = IF caller'[c].step = "status" THEN er_global ELSE NoSlot,
           caller'[c].step = "status" => er_global # NoSlot,
           caller'[c].step = "alloc" =>
               /\ caller'[c].req \in Requests /\ ValidRpl(caller'[c].req)
               /\ er_global = NoSlot
               /\ "overlap" \notin upset' =>
                      module.step = "loaded" /\ \A d \in Caller : ~Initialising(d),
           upset \subseteq upset', upset' \subseteq {"overlap", "failed"},
           module' = module \/ (module' = [module EXCEPT !.step = "panicked"]),
           UNCHANGED <<er_global, er_ring, index, ops, rx, others>>
    PROVE  IInv'
<1>1. /\ \A d \in Caller, s \in Slot : Builds(d, s)' <=> Builds(d, s)
      /\ \A s \in Slot : Live(s)' <=> Live(s)
  BY DEF Builds, Building, Live
<1>2. module'.slot = module.slot /\ module'.step \in {module.step, "panicked"}
      /\ module' \in Module
  BY DEF IInv, Types, Module
<1>3. Types' /\ MemoryPart'
  BY <1>2 DEF IInv, Types, MemoryPart, Attached, Live
<1>4. HeldPart'
  BY <1>2 DEF IInv, HeldPart, Held
<1>5. CallPart'
  BY DEF IInv, Types, CallPart, Call, NoSlot
<1>6. BuildPart'
  <2> SUFFICES ASSUME NEW d \in Caller \ {c}, caller[d].step \in Building
               PROVE  BuildPart!(d)'
    BY DEF BuildPart, Building
  <2>1. caller'[d] = caller[d] /\ caller[d].slot \in Slot /\ NoSlot \notin Slot
    BY DEF IInv, CallPart, Building, NoSlot, Slot
  <2>2. BuildPart!(d)
    BY DEF IInv, BuildPart
  <2>3. \A e \in Caller : caller'[e].slot \in {caller[e].slot, er_global, NoSlot}
    OBVIOUS
  <2>4. caller[d].slot # er_global /\ caller[d].slot # NoSlot
        /\ \A e \in Caller \ {d} : caller[e].slot # caller[d].slot
    BY <2>1, <2>2
  <2> QED BY <1>2, <2>1, <2>2, <2>3, <2>4 DEF Live
<1>7. WholePart'
  BY <1>1, <1>2 DEF IInv, WholePart
<1>8. ModulePart'
  BY <1>2 DEF IInv, ModulePart, Live
<1>9. AlonePart'
  <2> SUFFICES ASSUME "overlap" \notin upset'
               PROVE  OneInit' /\ LinksAttached' /\ OneRing'
    BY DEF AlonePart
  <2>1. OneInit /\ LinksAttached /\ OneRing
    BY DEF IInv, AlonePart
  <2>2. OneInit'
    BY <1>2, <2>1 DEF OneInit, Initialising, Building, Finishing
  <2>3. LinksAttached' /\ OneRing'
    BY <1>2, <2>1 DEF LinksAttached, OneRing, Building, Attached
  <2> QED BY <2>2, <2>3
<1>10. CleanPart'
  <2> SUFFICES ASSUME upset' = {}
               PROVE  OneLive' /\ NothingLeft' /\ InactiveFirst' /\ CallbackSafe'
    BY DEF CleanPart
  <2>1. OneLive /\ NothingLeft /\ InactiveFirst /\ CallbackSafe
    BY DEF IInv, CleanPart
  <2>2. OneLive' /\ NothingLeft'
    BY <1>1, <2>1 DEF OneLive, NothingLeft, Attached
  <2>3. InactiveFirst' /\ CallbackSafe'
    BY <1>1, <1>2, <2>1 DEF InactiveFirst, CallbackSafe, Readable, IInv, HeldPart
  <2> QED BY <2>2, <2>3
<1>11. ReceptionPart'
  BY ReceptionStays DEF IInv, Live
<1> QED BY <1>11, <1>3, <1>4, <1>5, <1>6, <1>7, <1>8, <1>9, <1>10 DEF IInv

\* er_lookup_ring of ERIOCINIT, and the calls that leave the rings alone.
LEMMA LookupStep ==
    ASSUME IInv, NEW c \in Caller,
           \/ \E req \in Requests : InitLookup(c, req)
           \/ StatusLookup(c)
           \/ StatusRead(c)
           \/ At(c, "alloc") /\ Returns(c) /\
              UNCHANGED <<er_global, er_ring, netmap, rx, module, others, upset>>
    PROVE  IInv'
<1>1. caller \in [Caller -> Call] /\ upset \subseteq {"overlap", "failed"}
  BY DEF IInv, Types
<1>2. ASSUME NEW req \in Requests, InitLookup(c, req)
      PROVE  IInv'
  <2>1. caller' = [caller EXCEPT ![c] =
                      [step |-> "alloc", slot |-> NoSlot, req |-> req]]
    BY <1>2 DEF InitLookup
  <2>2. UNCHANGED <<er_global, er_ring, index, ops, rx, module, others>>
    BY <1>2 DEF InitLookup, netmap
  <2>3. /\ caller[c].step = "idle" /\ ValidRpl(req) /\ er_global = NoSlot
        /\ upset \subseteq upset' /\ upset' \subseteq {"overlap", "failed"}
        /\ "overlap" \notin upset' =>
               module.step = "loaded" /\ \A d \in Caller : ~Initialising(d)
    BY <1>1, <1>2 DEF InitLookup, At, RingExists
  <2>4. /\ caller' \in [Caller -> Call]
        /\ caller'[c] = [step |-> "alloc", slot |-> NoSlot, req |-> req]
        /\ \A d \in Caller \ {c} : caller'[d] = caller[d]
    BY <1>1, <2>1 DEF Call
  <2> QED BY <2>2, <2>3, <2>4, CallStep DEF Building
<1>3. CASE StatusLookup(c)
  <2>1. /\ caller' \in [Caller -> Call]
        /\ caller'[c].step = "status" /\ caller'[c].slot = er_global
        /\ \A d \in Caller \ {c} : caller'[d] = caller[d]
    BY <1>1, <1>3 DEF StatusLookup, Call, IInv, Types
  <2>2. UNCHANGED <<er_global, er_ring, index, ops, rx, module, others, upset>>
    BY <1>3 DEF StatusLookup, netmap
  <2>3. caller[c].step = "idle" /\ er_global # NoSlot
    BY <1>3 DEF StatusLookup, At
  <2> QED BY <1>1, <2>1, <2>2, <2>3, CallStep DEF Building
<1>4. ASSUME caller[c].step \in {"alloc", "status"}, Returns(c),
             UNCHANGED <<er_global, er_ring, netmap, rx, others, upset>>,
             UNCHANGED module \/ Panic
      PROVE  IInv'
  <2>1. /\ caller' \in [Caller -> Call]
        /\ caller'[c].step = "idle" /\ caller'[c].slot = NoSlot
        /\ \A d \in Caller \ {c} : caller'[d] = caller[d]
    BY <1>1, <1>4 DEF Returns, NoCall, Call
  <2> QED BY <1>1, <1>4, <2>1, CallStep DEF Building, Panic, netmap
<1> QED BY <1>2, <1>3, <1>4 DEF StatusRead, At

\* A null pointer or freed memory is used: nothing but the module stops.
LEMMA PanicStep ==
    ASSUME IInv, Panic,
           UNCHANGED <<er_global, er_ring, index, ops, caller, rx, others, upset>>
    PROVE  IInv'
<1>1. module' \in Module /\ module'.step = "panicked" /\ module'.slot = module.slot
  BY DEF Panic, IInv, Types, Module
<1>2. /\ \A s \in Slot : Live(s)' <=> Live(s)
      /\ \A c \in Caller, s \in Slot : Builds(c, s)' <=> Builds(c, s)
      /\ \A c \in Caller : Initialising(c)' <=> Initialising(c)
  BY DEF Live, Builds, Initialising
<1>3. Types' /\ MemoryPart' /\ CallPart'
  BY <1>1 DEF IInv, Types, Attached, MemoryPart, Live, CallPart
<1>4. HeldPart' /\ BuildPart'
  BY <1>1 DEF IInv, HeldPart, Held, BuildPart, Live
<1>5. WholePart' /\ ModulePart'
  BY <1>1, <1>2 DEF IInv, WholePart, ModulePart
<1>6. AlonePart'
  BY <1>1, <1>2 DEF IInv, AlonePart, OneInit, LinksAttached, OneRing, Attached
<1>7. CleanPart'
  BY <1>1, <1>2
  DEF IInv, CleanPart, OneLive, NothingLeft, Attached, InactiveFirst, CallbackSafe,
      Readable, HeldPart
<1>8. ReceptionPart'
  BY ReceptionStays DEF IInv, Live
<1> QED BY <1>8, <1>3, <1>4, <1>5, <1>6, <1>7 DEF IInv

\* A ring that is allocated is nobody's, whole memory, and the caller's from now on.
LEMMA AllocateStep ==
    ASSUME IInv, NEW c \in Caller, NEW s \in Slot,
           At(c, "alloc"), ~RingExists, er_ring[s].mem = "unused",
           er_ring' = [er_ring EXCEPT ![s].mem = "live"], Goes(c, s),
           UNCHANGED <<er_global, index, ops, rx, module, others, upset>>
    PROVE  IInv'
<1>1. /\ caller[c].step = "alloc" /\ module.step # "panicked" /\ er_global = NoSlot
      /\ caller[c].req \in Requests /\ ValidRpl(caller[c].req) /\ NoSlot \notin Slot
  BY DEF At, RingExists, IInv, CallPart, NoSlot, Slot
<1>2. Moved(c, "port0", s)
  BY <1>1, InitOrder, GoesOn DEF IInv, Building
<1>0. er_ring \in [Slot -> Memory] /\ er_ring[s] = Unused
  BY DEF IInv, Types, MemoryPart
<1>3. /\ er_ring' \in [Slot -> Memory]
      /\ \A t \in Slot \ {s} : er_ring'[t] = er_ring[t]
      /\ er_ring'[s].mem = "live" /\ ~er_ring'[s].active
      /\ \A p \in Port : er_ring'[s].link[p] = None
  <2>1. ~Unused.active /\ \A p \in Port : Unused.link[p] = None
    BY DEF Unused
  <2>2. /\ er_ring' \in [Slot -> Memory]
        /\ \A t \in Slot \ {s} : er_ring'[t] = er_ring[t]
        /\ er_ring'[s].mem = "live"
        /\ er_ring'[s].active = er_ring[s].active
        /\ er_ring'[s].link = er_ring[s].link
    BY <1>0 DEF Memory
  <2> QED BY <1>0, <2>1, <2>2
<1>4. /\ module.slot # s
      /\ \A d \in Caller : caller[d].slot # s
      /\ \A i \in Interface : rx[i].slot # s
  BY <1>1 DEF IInv, HeldPart, Held
<1>5. /\ \A t \in Slot \ {s} : Live(t)' <=> Live(t)
      /\ Live(s)' /\ ~Live(s)
      /\ Builds(c, s)'
      /\ \A d \in Caller, t \in Slot \ {s} : Builds(d, t)' <=> Builds(d, t)
  BY <1>1, <1>2, <1>3, <1>4 DEF Live, Builds, Moved, Building
<1>6. Types'
  BY <1>2, <1>3 DEF IInv, Types, Moved, Attached
<1>7. MemoryPart' /\ HeldPart' /\ CallPart'
  BY <1>1, <1>2, <1>3 DEF IInv, MemoryPart, HeldPart, Held, CallPart, Moved, Live
<1>8. BuildPart'
  <2> SUFFICES ASSUME NEW d \in Caller, caller'[d].step \in Building
               PROVE  BuildPart!(d)'
    BY DEF BuildPart
  <2>1. CASE d = c
    BY <1>1, <1>2, <1>3, <1>4, <1>5, <2>1 DEF Moved, Port
  <2>2. CASE d # c
    <3>1. caller'[d] = caller[d] /\ caller[d].slot \in Slot \ {s}
          /\ caller[d].step \in Building
      BY <1>2, <1>4, <2>2 DEF Moved, IInv, CallPart, Building
    <3>2. BuildPart!(d)
      BY <3>1 DEF IInv, BuildPart
    <3>3. \A e \in Caller \ {d} : caller'[e].slot # caller[d].slot
      BY <1>2, <3>1, <3>2 DEF Moved
    <3> QED BY <1>3, <1>5, <3>1, <3>2, <3>3
  <2> QED BY <2>1, <2>2
<1>9. WholePart'
  BY <1>3, <1>5 DEF IInv, WholePart
<1>10. ModulePart'
  BY <1>1, <1>3, <1>4, <1>5 DEF IInv, ModulePart
<1>11. AlonePart'
  <2> SUFFICES ASSUME "overlap" \notin upset
               PROVE  OneInit' /\ LinksAttached' /\ OneRing'
    BY DEF AlonePart
  <2>1. OneInit /\ LinksAttached /\ OneRing
    BY DEF IInv, AlonePart
  <2>2. \A d \in Caller \ {c} : ~Initialising(d) /\ ~Initialising(d)'
    BY <1>1, <1>2, <2>1 DEF OneInit, Initialising, Moved
  <2>3. OneInit'
    BY <1>1, <1>2, <2>1, <2>2 DEF OneInit, Initialising, Building, Finishing, Moved
  <2>4. LinksAttached' /\ OneRing'
    BY <1>1, <1>2, <1>3, <2>1, <2>2
    DEF LinksAttached, OneRing, Building, Attached, Initialising, Moved
  <2> QED BY <2>3, <2>4
<1>12. CleanPart'
  <2> SUFFICES ASSUME upset = {}
               PROVE  OneLive' /\ NothingLeft' /\ InactiveFirst' /\ CallbackSafe'
    BY DEF CleanPart
  <2>1. OneLive /\ NothingLeft /\ InactiveFirst /\ CallbackSafe
    BY DEF IInv, CleanPart
  <2>2. OneLive'
    BY <1>5, <2>1 DEF OneLive
  <2>3. NothingLeft'
    BY <1>3, <1>5, <2>1 DEF NothingLeft, Attached
  <2>4. InactiveFirst'
    BY <1>3, <2>1 DEF InactiveFirst
  <2>5. CallbackSafe'
    BY <1>3, <1>4, <1>5, <2>1
    DEF CallbackSafe, Readable, Live, IInv, HeldPart
  <2> QED BY <2>2, <2>3, <2>4, <2>5
<1>13. ReceptionPart'
  BY <1>3, <1>4, <1>5, ReceptionStays DEF IInv, HeldPart
<1> QED BY <1>13, <1>6, <1>7, <1>8, <1>9, <1>10, <1>11, <1>12 DEF IInv

\* INIT gets one step further with the ring that it is building: it writes to that
\* ring alone, and what it puts on the bridge are links of that ring.
LEMMA BuildStep ==
    ASSUME IInv, NEW c \in Caller, NEW s, s = caller[c].slot,
           NEW step \in Building \ {"port0"}, caller[c].step \in Building,
           Moved(c, step, s),
           er_ring' \in [Slot -> Memory],
           \A t \in Slot \ {s} : er_ring'[t] = er_ring[t],
           er_ring'[s].mem = "live", ~er_ring'[s].active,
           er_ring'[s].link["port0"] = caller[c].req.link["port0"],
           er_ring'[s].link["port1"] =
               (IF step = "port1" THEN None ELSE caller[c].req.link["port1"]),
           step = "publish" => Usable(er_ring'[s].fsm),
           index' \in [Interface -> 0 .. NOPORT], Attached \subseteq Attached',
           ops' \in BOOLEAN, ops' => Attached' # {},
           \A p \in Port :
               \/ er_ring'[s].link[p] = er_ring[s].link[p]
               \/ er_ring[s].link[p] = None /\ er_ring'[s].link[p] \in Attached',
           \A i \in Attached' \ Attached : \E p \in Port : er_ring'[s].link[p] = i,
           UNCHANGED <<er_global, rx, module, others, upset>>
    PROVE  IInv'
<1>1. /\ s \in Slot /\ NoSlot \notin Slot
      /\ Live(s) /\ ~er_ring[s].active
      /\ s # er_global /\ s # module.slot
      /\ \A d \in Caller \ {c} : caller[d].slot # s
      /\ \A i \in Interface : rx[i].slot # s
      /\ caller[c].req \in Requests /\ ValidRpl(caller[c].req)
  BY DEF IInv, CallPart, BuildPart, Building, NoSlot, Slot
<1>2. /\ \A t \in Slot : Live(t)' <=> Live(t)
      /\ \A d \in Caller, t \in Slot : Builds(d, t)' <=> Builds(d, t)
      /\ Builds(c, s)'
  BY <1>1 DEF Live, Builds, Moved
<1>3. Types'
  BY DEF IInv, Types, Moved
<1>4. MemoryPart' /\ HeldPart' /\ CallPart'
  BY <1>1 DEF IInv, MemoryPart, HeldPart, Held, CallPart, Moved, Live, Building
<1>5. BuildPart'
  <2> SUFFICES ASSUME NEW d \in Caller, caller'[d].step \in Building
               PROVE  BuildPart!(d)'
    BY DEF BuildPart
  <2>1. CASE d = c
    BY <1>1, <1>2, <2>1 DEF Moved
  <2>2. CASE d # c
    <3>1. caller'[d] = caller[d] /\ caller[d].slot \in Slot \ {s}
          /\ caller[d].step \in Building
      BY <1>1, <2>2 DEF Moved, IInv, CallPart, Building
    <3>2. BuildPart!(d)
      BY <3>1 DEF IInv, BuildPart
    <3>3. \A e \in Caller \ {d} : caller'[e].slot # caller[d].slot
      BY <3>1, <3>2 DEF Moved
    <3> QED BY <1>2, <3>1, <3>2, <3>3
  <2> QED BY <2>1, <2>2
<1>6. WholePart'
  BY <1>2 DEF IInv, WholePart
<1>7. ModulePart'
  BY <1>1, <1>2 DEF IInv, ModulePart, Types, Module
<1>8. AlonePart'
  <2> SUFFICES ASSUME "overlap" \notin upset
               PROVE  OneInit' /\ LinksAttached' /\ OneRing'
    BY DEF AlonePart
  <2>1. OneInit /\ LinksAttached /\ OneRing
    BY DEF IInv, AlonePart
  <2>2. /\ \A d \in Caller \ {c} : ~Initialising(d) /\ ~Initialising(d)'
        /\ er_global = NoSlot /\ module.step \in {"loaded", "panicked"}
    BY <2>1 DEF OneInit, Initialising, Moved, Building
  <2>3. OneInit'
    BY <2>1, <2>2 DEF OneInit, Initialising, Building, Finishing, Moved
  <2>4. \A p \in Port : er_ring'[s].link[p] # None => er_ring'[s].link[p] \in Attached'
    BY <2>1 DEF LinksAttached
  <2>5. LinksAttached' /\ OneRing'
    BY <2>1, <2>2, <2>4 DEF LinksAttached, OneRing, Building, Initialising, Moved
  <2> QED BY <2>3, <2>5
<1>9. CleanPart'
  <2> SUFFICES ASSUME upset = {}
               PROVE  OneLive' /\ NothingLeft' /\ InactiveFirst' /\ CallbackSafe'
    BY DEF CleanPart
  <2>1. OneLive /\ NothingLeft /\ InactiveFirst /\ CallbackSafe
    BY DEF IInv, CleanPart
  <2>2. OneLive'
    BY <1>2, <2>1 DEF OneLive
  <2>3. NothingLeft'
    <3> SUFFICES ASSUME NEW i \in (Attached \ others)' 
                 PROVE  \E t \in Slot, p \in Port : Live(t)' /\ er_ring'[t].link[p] = i
      BY DEF NothingLeft
    <3>1. CASE i \notin Attached
      BY <1>1, <1>2, <3>1
    <3>2. CASE i \in Attached
      <4>1. PICK t \in Slot, p \in Port : Live(t) /\ er_ring[t].link[p] = i
        BY <2>1, <3>2 DEF NothingLeft
      <4>2. i # None
        BY KernelAssumption, <3>2 DEF Attached
      <4> QED BY <1>2, <4>1, <4>2
    <3> QED BY <3>1, <3>2
  <2>4. InactiveFirst'
    BY <2>1, SMTT(30) DEF InactiveFirst
  <2>5. CallbackSafe'
    BY <1>1, <1>2, <2>1
    DEF CallbackSafe, Readable, Live, IInv, HeldPart
  <2> QED BY <2>2, <2>3, <2>4, <2>5
<1>10. ReceptionPart'
  BY <1>1, <1>2, ReceptionStays DEF IInv, HeldPart
<1> QED BY <1>10, <1>3, <1>4, <1>5, <1>6, <1>7, <1>8, <1>9 DEF IInv

\* The memory of a ring that is freed.
LEMMA FreedMemory ==
    LET r == [Unused EXCEPT !.mem = "freed"]
    IN  r \in Memory /\ r.mem = "freed" /\ ~r.active
<1>1. Unused \in Memory /\ ~Unused.active
  BY DEF Unused, Memory, NOPORT
<1> QED BY <1>1 DEF Memory

\* INIT gives up the ring that it is building.  Whatever it takes off the bridge, and
\* unless the first port could not be attached, the unloading will not be clean.
LEMMA GiveUpStep ==
    ASSUME IInv, NEW c \in Caller, NEW s, s = caller[c].slot,
           caller[c].step \in Building, GiveUp(c),
           index' \in [Interface -> 0 .. NOPORT], Attached' \subseteq Attached,
           ops' \in BOOLEAN, ops' => Attached' # {}, others' \subseteq Attached',
           \/ upset' = upset \cup {"failed"}
           \/ /\ upset' = upset /\ caller[c].step = "port0"
              /\ Attached' = Attached /\ others' = others,
           UNCHANGED <<er_global, rx, module>>
    PROVE  IInv'
<1>1. /\ s \in Slot /\ NoSlot \notin Slot
      /\ Live(s)
      /\ s # er_global /\ s # module.slot
      /\ \A d \in Caller \ {c} : caller[d].slot # s
      /\ \A i \in Interface : rx[i].slot # s
  BY DEF IInv, CallPart, BuildPart, Building, NoSlot, Slot
<1>2. /\ caller' \in [Caller -> Call]
      /\ caller'[c].step = "idle" /\ caller'[c].slot = NoSlot
      /\ \A d \in Caller \ {c} : caller'[d] = caller[d]
  BY DEF GiveUp, Returns, NoCall, IInv, Types, Call
<1>3. /\ er_ring' \in [Slot -> Memory]
      /\ \A t \in Slot \ {s} : er_ring'[t] = er_ring[t]
      /\ er_ring'[s].mem = "freed" /\ ~er_ring'[s].active
  BY <1>1, FreedMemory DEF GiveUp, Freed, IInv, Types
<1>4. /\ \A t \in Slot \ {s} : Live(t)' <=> Live(t)
      /\ ~Live(s)'
      /\ \A d \in Caller, t \in Slot \ {s} : Builds(d, t)' <=> Builds(d, t)
  <2>1. \A t : ~Builds(c, t)'
    BY <1>2 DEF Builds, Building
  <2> QED BY <1>1, <1>2, <1>3, <2>1 DEF Live, Builds
<1>5. Types'
  BY <1>2, <1>3 DEF IInv, Types
<1>6. MemoryPart' /\ HeldPart' /\ CallPart'
  BY <1>1, <1>2, <1>3 DEF IInv, MemoryPart, HeldPart, Held, CallPart, Live
<1>7. BuildPart'
  <2> SUFFICES ASSUME NEW d \in Caller, caller'[d].step \in Building
               PROVE  BuildPart!(d)'
    BY DEF BuildPart
  <2>1. d # c /\ caller'[d] = caller[d] /\ caller[d].slot \in Slot \ {s}
        /\ caller[d].step \in Building
    BY <1>1, <1>2 DEF IInv, CallPart, Building
  <2>2. BuildPart!(d)
    BY <2>1 DEF IInv, BuildPart
  <2>3. \A e \in Caller \ {d} : caller'[e].slot # caller[d].slot
    BY <1>1, <1>2, <2>1, <2>2
  <2> QED BY <1>3, <1>4, <2>1, <2>2, <2>3
<1>8. WholePart'
  BY <1>3, <1>4 DEF IInv, WholePart
<1>9. ModulePart'
  BY <1>1, <1>3, <1>4 DEF IInv, ModulePart, Types, Module
<1>10. AlonePart'
  <2> SUFFICES ASSUME "overlap" \notin upset
               PROVE  OneInit' /\ LinksAttached' /\ OneRing'
    BY DEF AlonePart
  <2>1. OneInit /\ OneRing
    BY DEF IInv, AlonePart
  <2>2. /\ \A d \in Caller : ~Initialising(d)'
        /\ er_global = NoSlot /\ module.step \in {"loaded", "panicked"}
    BY <1>2, <2>1 DEF OneInit, Initialising, Building
  <2>3. OneInit' /\ LinksAttached' /\ OneRing'
    BY <2>2 DEF OneInit, LinksAttached, OneRing, Initialising, Building, Finishing
  <2> QED BY <2>3
<1>11. CleanPart'
  <2> SUFFICES ASSUME upset' = {}
               PROVE  OneLive' /\ NothingLeft' /\ InactiveFirst' /\ CallbackSafe'
    BY DEF CleanPart
  <2>1. /\ OneLive /\ NothingLeft /\ InactiveFirst /\ CallbackSafe
        /\ caller[c].step = "port0" /\ Attached' = Attached /\ others' = others
    BY DEF IInv, CleanPart
  <2>2. \A p \in Port : er_ring[s].link[p] = None
    BY <2>1 DEF IInv, BuildPart, Building, Port
  <2>3. OneLive'
    BY <1>4, <2>1 DEF OneLive
  <2>4. None \notin Attached
    BY KernelAssumption DEF Attached
  <2>5. NothingLeft'
    BY <1>1, <1>3, <1>4, <2>1, <2>2, <2>4 DEF NothingLeft
  <2>6. InactiveFirst'
    BY <1>3, <2>1 DEF InactiveFirst
  <2>7. CallbackSafe'
    BY <1>1, <1>3, <1>4, <2>1
    DEF CallbackSafe, Readable, Live, IInv, HeldPart
  <2> QED BY <2>3, <2>5, <2>6, <2>7
<1>12. ReceptionPart'
  BY <1>1, <1>3, <1>4, ReceptionStays DEF IInv, HeldPart
<1> QED BY <1>12, <1>5, <1>6, <1>7, <1>8, <1>9, <1>10, <1>11 DEF IInv

\* A request that passed the test of ERIOCINIT makes a ring that is usable.
LEMMA CreatedRingIsUsable ==
    ASSUME NEW req \in Requests, ValidRpl(req)
    PROVE  Usable(CreatedRing(req))
<1> DEFINE conf == [ node_id          |-> ZeroNodeId,
                     is_rpl_owner     |-> req.is_rpl_owner,
                     is_rpl_neighbour |-> req.is_rpl_neighbour,
                     rpl_port         |-> req.rpl_port,
                     is_revertive     |-> FALSE,
                     version          |-> 0 ]
<1>1. conf \in Config
  BY KernelAssumption DEF InitRequest, ValidRpl, Config
<1>2. CreatedRing(req) = CreateRing(conf)
  BY DEF CreatedRing
<1> HIDE DEF conf
<1>3. /\ Sound(CreateRing(conf)) /\ CreateRing(conf).rpl_port = conf.rpl_port
      /\ CreateRing(conf).blocked =
             {IF conf.rpl_port = NoPort THEN "port0" ELSE conf.rpl_port}
  BY <1>1, CreateRingSound
<1> QED BY <1>2, <1>3 DEF Usable, HomePort, Sound, Parts, StateOfRetained

\* An interface is taken off the bridge, and out of the operator's.
LEMMA Detached ==
    ASSUME index \in [Interface -> 0 .. NOPORT], NEW i, Detach(i),
           others \subseteq Attached, others' = others \ {i}
    PROVE  /\ index' \in [Interface -> 0 .. NOPORT]
           /\ Attached' = Attached \ {i}
           /\ others' \subseteq Attached'
<1>1. /\ index' \in [Interface -> 0 .. NOPORT]
      /\ i \in Interface => index'[i] = NOPORT
      /\ \A j \in Interface \ {i} : index'[j] = index[j]
  <2>1. CASE i \in Interface
    BY <2>1 DEF Detach, NOPORT
  <2>2. CASE i \notin Interface
    <3>1. index' = index
      BY <2>2 DEF Detach
    <3> QED BY <2>2, <3>1
  <2> QED BY <2>1, <2>2
<1> QED BY <1>1 DEF Attached

\* The number an interface gets is one of the bridge.
LEMMA FreeIndexIsANumber ==
    ASSUME index \in [Interface -> 0 .. NOPORT], NEW n \in FreeIndex
    PROVE  n \in 0 .. NOPORT - 1
<1>1. n = 0 \/ \E i \in Interface : n = index[i] + 1
  BY DEF FreeIndex
<1>2. n \in Nat
  BY <1>1, SMTT(30) DEF NOPORT
<1>3. n < NOPORT
  BY SMTT(30) DEF FreeIndex
<1> QED BY <1>2, <1>3 DEF NOPORT

\* er_port_create.
LEMMA CreatePortStep ==
    ASSUME IInv, NEW c \in Caller, NEW p \in Port, CreatePort(c, p)
    PROVE  IInv'
<1> DEFINE s == caller[c].slot
           i == caller[c].req.link[p]
<1>0. caller[c].step = p /\ caller[c].step \in Building
  BY DEF CreatePort, At, Port, Building
<1>1. /\ caller[c].step = p /\ caller[c].step \in Building /\ s \in Slot
      /\ caller[c].req \in Requests
      /\ i \in Interface /\ i # None
  <2>1. s \in Slot /\ caller[c].req \in Requests
    BY <1>0 DEF IInv, CallPart, Building
  <2> QED BY <1>0, <2>1, RequestLinks
<1>2. /\ er_ring \in [Slot -> Memory] /\ index \in [Interface -> 0 .. NOPORT]
      /\ ops \in BOOLEAN /\ others \subseteq Attached /\ NOPORT \in Nat
      /\ upset \subseteq {"overlap", "failed"}
  BY SMTT(30) DEF IInv, Types, NOPORT
<1>3. /\ er_ring[s].mem = "live" /\ ~er_ring[s].active
      /\ er_ring[s].link["port0"] =
             (IF p = "port0" THEN None ELSE caller[c].req.link["port0"])
      /\ er_ring[s].link["port1"] = None
  BY <1>1, SMTT(30) DEF IInv, BuildPart, Live, Port
<1>4. ASSUME NEW n \in 0 .. NOPORT - 1, NEW known \in BOOLEAN,
             index[i] = NOPORT, Attach(i, n), Goes(c, s),
             NEW r, r = [er_ring[s] EXCEPT !.link[p] = i,
                                           !.idx[p] = IF known THEN n ELSE NOPORT],
             er_ring' = [er_ring EXCEPT ![s] = r],
             UNCHANGED <<others, upset, er_global, rx, module>>
      PROVE  IInv'
  <2> DEFINE step == IF p = "port0" THEN "port1" ELSE "regops"
  <2>1. Moved(c, step, s) /\ step \in Building \ {"port0"}
    BY <1>1, <1>4, InitOrder, GoesOn DEF IInv, Building, Port
  <2>2. /\ er_ring' \in [Slot -> Memory]
        /\ \A t \in Slot \ {s} : er_ring'[t] = er_ring[t]
        /\ er_ring'[s].mem = "live" /\ ~er_ring'[s].active
        /\ er_ring'[s].link[p] = i
        /\ \A q \in Port \ {p} : er_ring'[s].link[q] = er_ring[s].link[q]
    <3> DEFINE m == IF known THEN n ELSE NOPORT
    <3>2. m \in 0 .. NOPORT /\ er_ring[s] \in Memory
      BY <1>1, <1>2
    <3>3. r = [er_ring[s] EXCEPT !.link[p] = i, !.idx[p] = m]
      BY <1>4
    <3> HIDE DEF m, s, i
    <3>1. /\ r \in Memory /\ r.mem = "live" /\ ~r.active
          /\ r.link[p] = i /\ \A q \in Port \ {p} : r.link[q] = er_ring[s].link[q]
      BY <1>1, <1>3, <3>2, <3>3 DEF Memory
    <3> QED BY <1>1, <1>2, <1>4, <3>1
  <2>3. /\ index' \in [Interface -> 0 .. NOPORT]
        /\ Attached' = Attached \cup {i} /\ i \notin Attached /\ ops' = ops
    BY <1>1, <1>2, <1>4 DEF Attach, Attached
  <2>4. /\ er_ring'[s].link["port0"] = caller[c].req.link["port0"]
        /\ er_ring'[s].link["port1"] =
               (IF step = "port1" THEN None ELSE caller[c].req.link["port1"])
    BY <1>1, <1>3, <2>2, SMTT(30) DEF Port
  <2>5. /\ \A q \in Port :
               \/ er_ring'[s].link[q] = er_ring[s].link[q]
               \/ er_ring[s].link[q] = None /\ er_ring'[s].link[q] \in Attached'
        /\ \A j \in Attached' \ Attached : \E q \in Port : er_ring'[s].link[q] = j
    BY <1>3, <2>2, <2>3 DEF Port
  <2>6. step # "publish" /\ UNCHANGED <<er_global, rx, module, others, upset>>
        /\ (ops' => Attached' # {})
    BY <1>4, <2>3, SMTT(30)
  <2> HIDE DEF s, step
  <2> QED BY <1>1, <1>2, <2>1, <2>2, <2>3, <2>4, <2>5, <2>6, BuildStep, ZenonT(60) DEF s
<1>5. ASSUME Detach(i), others' = others \ {i}, GiveUp(c),
             upset' = IF p = "port1" \/ index[i] # NOPORT
                      THEN upset \cup {"failed"} ELSE upset,
             UNCHANGED <<er_global, rx, module>>
      PROVE  IInv'
  <2>1. /\ index' \in [Interface -> 0 .. NOPORT]
        /\ Attached' = Attached \ {i} /\ others' \subseteq Attached'
    BY <1>1, <1>2, <1>5, Detached
  <2>3. ops' \in BOOLEAN /\ (ops' => Attached' # {})
    BY <1>5, <2>1 DEF Detach
  <2>2. \/ upset' = upset \cup {"failed"}
        \/ /\ upset' = upset /\ caller[c].step = "port0"
           /\ Attached' = Attached /\ others' = others
    BY <1>1, <1>2, <1>5, <2>1 DEF Attached, Port
  <2> QED BY <1>1, <1>5, <2>1, <2>2, <2>3, GiveUpStep
<1>6. ASSUME GiveUp(c), UNCHANGED <<netmap, others>>,
             upset' = IF p = "port1" THEN upset \cup {"failed"} ELSE upset,
             UNCHANGED <<er_global, rx, module>>
      PROVE  IInv'
  <2>1. /\ index' \in [Interface -> 0 .. NOPORT] /\ Attached' = Attached
        /\ ops' \in BOOLEAN /\ (ops' => Attached' # {}) /\ others' \subseteq Attached'
    BY <1>6 DEF netmap, IInv, Types, Attached
  <2>2. \/ upset' = upset \cup {"failed"}
        \/ upset' = upset /\ caller[c].step = "port0"
    BY <1>1, <1>6 DEF Port
  <2> QED BY <1>1, <1>6, <2>1, <2>2, GiveUpStep
<1> QED BY <1>2, <1>4, <1>5, <1>6, FreeIndexIsANumber, ZenonT(60) DEF CreatePort

\* er_netmap_regops.
LEMMA RegisterOpsStep ==
    ASSUME IInv, NEW c \in Caller, RegisterOps(c)
    PROVE  IInv'
<1> DEFINE s == caller[c].slot
<1>1. /\ caller[c].step = "regops" /\ caller[c].step \in Building /\ s \in Slot
      /\ UNCHANGED <<er_global, er_ring, index, rx, module, others, upset>>
      /\ ops' \in {ops, Attached # {}} /\ Goes(c, s)
  BY DEF RegisterOps, At, IInv, CallPart, Building
<1>2. Moved(c, "prepare", s)
  BY <1>1, InitOrder, GoesOn DEF IInv, Building
<1>3. /\ er_ring[s].mem = "live" /\ ~er_ring[s].active
      /\ er_ring[s].link["port0"] = caller[c].req.link["port0"]
      /\ er_ring[s].link["port1"] = caller[c].req.link["port1"]
  BY <1>1 DEF IInv, BuildPart, Live
<1>4. /\ er_ring' \in [Slot -> Memory] /\ index' \in [Interface -> 0 .. NOPORT]
      /\ Attached' = Attached /\ ops' \in BOOLEAN /\ (ops' => Attached' # {})
  BY <1>1 DEF IInv, Types, Attached
<1>5. "prepare" \in Building \ {"port0"}
  BY DEF Building
<1> HIDE DEF s
<1> QED BY <1>1, <1>2, <1>3, <1>4, <1>5, BuildStep DEF s

\* The message of the ring and row 01.
LEMMA PrepareStep ==
    ASSUME IInv, NEW c \in Caller, PrepareRing(c)
    PROVE  IInv'
<1> DEFINE s == caller[c].slot
<1>1. /\ caller[c].step = "prepare" /\ caller[c].step \in Building /\ s \in Slot
      /\ caller[c].req \in Requests /\ ValidRpl(caller[c].req)
      /\ UNCHANGED <<er_global, index, ops, rx, others>>
  BY DEF PrepareRing, At, IInv, CallPart, Building, netmap
<1>2. /\ er_ring \in [Slot -> Memory] /\ index \in [Interface -> 0 .. NOPORT]
      /\ Attached' = Attached /\ ops' \in BOOLEAN /\ (ops' => Attached' # {})
      /\ others' \subseteq Attached'
  BY <1>1, SMTT(30) DEF IInv, Types, Attached
<1>3. ASSUME er_ring' = [er_ring EXCEPT ![s].fsm = CreatedRing(caller[c].req)],
             Goes(c, s), UNCHANGED <<upset, module>>
      PROVE  IInv'
  <2>1. Moved(c, "publish", s) /\ "publish" \in Building \ {"port0"}
    BY <1>1, <1>3, InitOrder, GoesOn DEF IInv, Building
  <2>2. /\ er_ring[s].mem = "live" /\ ~er_ring[s].active
        /\ er_ring[s].link["port0"] = caller[c].req.link["port0"]
        /\ er_ring[s].link["port1"] = caller[c].req.link["port1"]
    BY <1>1 DEF IInv, BuildPart, Live
  <2>3. /\ er_ring' \in [Slot -> Memory]
        /\ \A t \in Slot \ {s} : er_ring'[t] = er_ring[t]
        /\ er_ring'[s].mem = "live" /\ ~er_ring'[s].active
        /\ er_ring'[s].link = er_ring[s].link
        /\ Usable(er_ring'[s].fsm)
    <3> DEFINE fsm == CreatedRing(caller[c].req)
    <3>1. Usable(fsm) /\ fsm \in Ring
      BY <1>1, CreatedRingIsUsable DEF Usable
    <3>2. er_ring' = [er_ring EXCEPT ![s].fsm = fsm] /\ er_ring \in [Slot -> Memory]
      BY <1>1, <1>2, <1>3
    <3> HIDE DEF fsm, s
    <3> QED BY <1>1, <1>2, <2>2, <3>1, <3>2 DEF Memory
  <2> HIDE DEF s
  <2> QED BY <1>1, <1>2, <1>3, <2>1, <2>2, <2>3, BuildStep DEF s
<1>4. ASSUME GiveUp(c), upset' = upset \cup {"failed"}, UNCHANGED module
      PROVE  IInv'
  BY <1>1, <1>2, <1>4, GiveUpStep
<1>5. ASSUME Panic, UNCHANGED <<er_ring, caller, upset>>
      PROVE  IInv'
  BY <1>1, <1>5, PanicStep
<1> QED BY <1>3, <1>4, <1>5 DEF PrepareRing

\* What INIT writes to the ring after row 01.
LEMMA ConfigureKeepsUsable ==
    ASSUME NEW r, Usable(r), NEW revertive \in BOOLEAN,
           NEW s, s = [r EXCEPT !.version = 2, !.is_revertive = revertive]
    PROVE  Usable(s) /\ HomePort(s) = HomePort(r)
<1>1. PICK u : u = [r EXCEPT !.version = 2]
  OBVIOUS
<1>2. u \in Ring /\ s = [u EXCEPT !.is_revertive = revertive]
  BY <1>1 DEF Usable, Ring
<1>3. s \in Ring
  BY <1>2 DEF Ring
<1>4. /\ s.is_rpl_owner = r.is_rpl_owner /\ s.is_rpl_neighbour = r.is_rpl_neighbour
      /\ s.rpl_port = r.rpl_port /\ s.state = r.state /\ s.blocked = r.blocked
  BY DEF Usable, Ring
<1> QED BY <1>3, <1>4 DEF Usable, HomePort, Configured

\* INIT writes to the ring that it has published, or finds that it is gone.
LEMMA FinishStep ==
    ASSUME IInv, NEW c \in Caller, NEW s, s = caller[c].slot,
           caller[c].step \in Finishing,
           Moved(c, "activate", s) \/ Returns(c),
           er_ring' \in [Slot -> Memory],
           \A t \in Slot \ {s} : er_ring'[t] = er_ring[t],
           er_ring'[s].mem = er_ring[s].mem, er_ring'[s].link = er_ring[s].link,
           Live(s) \/ er_ring'[s] = er_ring[s],
           Usable(er_ring[s].fsm) => Usable(er_ring'[s].fsm),
           HomePort(er_ring'[s].fsm) = HomePort(er_ring[s].fsm),
           UNCHANGED module \/ Panic,
           UNCHANGED <<er_global, index, ops, rx, others, upset>>
    PROVE  IInv'
<1>1. /\ s \in Slot /\ NoSlot \notin Slot
      /\ \A d \in Caller : ~Builds(d, s)
      /\ caller[c].req \in Requests /\ ValidRpl(caller[c].req)
      /\ caller[c].step \notin {"idle", "status", "alloc"} \cup Building
  BY DEF IInv, CallPart, BuildPart, Building, Finishing, NoSlot, Slot, Builds
<1>2. /\ caller' \in [Caller -> Call]
      /\ \/ caller'[c].step = "activate" /\ caller'[c].slot = s
            /\ caller'[c].req = caller[c].req
         \/ caller'[c].step = "idle" /\ caller'[c].slot = NoSlot
      /\ \A d \in Caller \ {c} : caller'[d] = caller[d]
  BY DEF Moved, Returns, NoCall, IInv, Types, Call
<1>3. /\ module' \in Module /\ module'.slot = module.slot
      /\ module'.step \in {module.step, "panicked"}
  BY DEF Panic, IInv, Types, Module
<1>4. /\ \A t \in Slot : Live(t)' <=> Live(t)
      /\ \A d \in Caller, t \in Slot : Builds(d, t)' <=> Builds(d, t)
      /\ \A t \in Slot : er_ring'[t].link = er_ring[t].link
  BY <1>1, <1>2 DEF Live, Builds, Building
<1>5. Types'
  BY <1>2, <1>3 DEF IInv, Types, Attached
<1>6. MemoryPart' /\ HeldPart' /\ CallPart'
  BY <1>1, <1>2, <1>3, <1>4
  DEF IInv, MemoryPart, HeldPart, Held, CallPart, Live, Building, Finishing
<1>7. BuildPart'
  <2> SUFFICES ASSUME NEW d \in Caller, caller'[d].step \in Building
               PROVE  BuildPart!(d)'
    BY DEF BuildPart
  <2>1. d # c /\ caller'[d] = caller[d] /\ caller[d].slot \in Slot
        /\ caller[d].step \in Building
    BY <1>1, <1>2 DEF IInv, CallPart, Building
  <2>2. BuildPart!(d) /\ caller[d].slot # s
    BY <1>1, <2>1 DEF IInv, BuildPart, Builds
  <2>3. \A e \in Caller \ {d} : caller'[e].slot # caller[d].slot
    BY <1>1, <1>2, <2>1, <2>2
  <2> QED BY <1>3, <1>4, <2>1, <2>2, <2>3
<1>8. WholePart'
  BY <1>1, <1>3, <1>4 DEF IInv, WholePart
<1>9. ModulePart'
  BY <1>3, <1>4 DEF IInv, ModulePart, Types, Module
<1>10. AlonePart'
  <2> SUFFICES ASSUME "overlap" \notin upset
               PROVE  OneInit' /\ LinksAttached' /\ OneRing'
    BY DEF AlonePart
  <2>1. OneInit /\ LinksAttached /\ OneRing
    BY DEF IInv, AlonePart
  <2>2. /\ s = er_global /\ module.step \in {"loaded", "panicked"}
        /\ \A d \in Caller \ {c} : ~Initialising(d) /\ ~Initialising(d)'
    BY <1>1, <1>2, <2>1 DEF OneInit, Initialising, Finishing
  <2>3. OneInit'
    BY <1>2, <1>3, <2>2 DEF OneInit, Initialising, Building, Finishing
  <2>4. LinksAttached' /\ OneRing'
    BY <1>2, <1>3, <1>4, <2>1, <2>2
    DEF LinksAttached, OneRing, Building, Initialising, Attached, IInv, Types
  <2> QED BY <2>3, <2>4
<1>11. CleanPart'
  <2> SUFFICES ASSUME upset = {}
               PROVE  OneLive' /\ NothingLeft' /\ InactiveFirst' /\ CallbackSafe'
    BY DEF CleanPart
  <2>1. OneLive /\ NothingLeft /\ InactiveFirst /\ CallbackSafe
    BY DEF IInv, CleanPart
  <2>2. OneLive' /\ NothingLeft'
    BY <1>4, <2>1 DEF OneLive, NothingLeft, Attached
  <2>3. module.step \in {"loaded", "panicked"}
    BY DEF IInv, AlonePart, OneInit, Initialising, Finishing
  <2>4. module.step = "loaded" => module.slot = NoSlot
    BY DEF IInv, ModulePart
  <2>5. InactiveFirst'
    BY <1>1, <1>3, <2>1, <2>3, <2>4 DEF InactiveFirst
  <2>6. CallbackSafe'
    BY <1>3, <1>4, <2>1
    DEF CallbackSafe, Readable, Live, IInv, HeldPart
  <2> QED BY <2>2, <2>5, <2>6
<1>12. ReceptionPart'
  BY <1>1, <1>4, ReceptionStays DEF IInv, HeldPart
<1> QED BY <1>12, <1>5, <1>6, <1>7, <1>8, <1>9, <1>10, <1>11 DEF IInv

\* Version, revertive operation and activation.
LEMMA ConfigureStep ==
    ASSUME IInv, NEW c \in Caller, ConfigureRing(c) \/ er_activate_ring(c)
    PROVE  IInv'
<1> DEFINE s == caller[c].slot
<1>1. /\ caller[c].step \in Finishing /\ s \in Slot /\ caller[c].req \in Requests
      /\ er_ring \in [Slot -> Memory]
  BY DEF IInv, Types, CallPart, ConfigureRing, er_activate_ring, At, Finishing
<1>2. Moved(c, "activate", s) \/ Returns(c)
  BY <1>1, InitOrder, GoesOn DEF ConfigureRing, er_activate_ring, At, IInv, Finishing
<1>3. Live(s) => Usable(er_ring[s].fsm)
  BY <1>1 DEF IInv, BuildPart, WholePart, Builds, Building, Finishing
<1>4. PICK r : /\ Writes(c, r)
               /\ Live(s) => /\ r \in Memory
                             /\ r.mem = er_ring[s].mem /\ r.link = er_ring[s].link
                             /\ Usable(r.fsm)
                             /\ HomePort(r.fsm) = HomePort(er_ring[s].fsm)
  <2> DEFINE fsm == [er_ring[s].fsm EXCEPT !.version = 2,
                                           !.is_revertive = caller[c].req.is_revertive]
  <2>1. caller[c].req.is_revertive \in BOOLEAN
    BY <1>1, KernelAssumption DEF InitRequest
  <2>2. Live(s) => Usable(fsm) /\ HomePort(fsm) = HomePort(er_ring[s].fsm)
    BY <1>3, <2>1, ConfigureKeepsUsable
  <2> HIDE DEF fsm
  <2>3. CASE ConfigureRing(c)
    <3>1. Writes(c, [er_ring[s] EXCEPT !.fsm = fsm])
      BY <2>3 DEF ConfigureRing, fsm
    <3>2. Live(s) => [er_ring[s] EXCEPT !.fsm = fsm] \in Memory
      BY <1>1, <2>2 DEF Memory, Usable
    <3> QED BY <1>1, <2>2, <3>1, <3>2 DEF Memory
  <2>4. CASE er_activate_ring(c)
    <3>1. Writes(c, [er_ring[s] EXCEPT !.active = TRUE])
      BY <2>4 DEF er_activate_ring
    <3>2. LET r == [er_ring[s] EXCEPT !.active = TRUE]
          IN  /\ r \in Memory
              /\ r.mem = er_ring[s].mem /\ r.link = er_ring[s].link
              /\ r.fsm = er_ring[s].fsm
      BY <1>1 DEF Memory
    <3> QED BY <1>3, <3>1, <3>2
  <2> QED BY <2>3, <2>4
<1>5. /\ er_ring' \in [Slot -> Memory]
      /\ \A t \in Slot \ {s} : er_ring'[t] = er_ring[t]
      /\ er_ring'[s].mem = er_ring[s].mem /\ er_ring'[s].link = er_ring[s].link
      /\ Live(s) \/ er_ring'[s] = er_ring[s]
      /\ Usable(er_ring[s].fsm) => Usable(er_ring'[s].fsm)
      /\ HomePort(er_ring'[s].fsm) = HomePort(er_ring[s].fsm)
      /\ UNCHANGED module \/ Panic
  BY <1>1, <1>4 DEF Writes, Live
<1>6. UNCHANGED <<er_global, index, ops, rx, others, upset>>
  BY DEF ConfigureRing, er_activate_ring, netmap
<1> HIDE DEF s
<1> QED BY <1>1, <1>2, <1>5, <1>6, FinishStep DEF s

-----------------------------------------------------------------------------
(***************************************************************************)
(* The statements of a message.                                            *)
(***************************************************************************)

\* The arguments of the steps.
LEMMA MessageStepFields ==
    ASSUME NEW home \in Port, NEW s \in MessageStep(home)
    PROVE  /\ s[1] = "block" => s[2] = home
           /\ s[1] \in {"unblock", "nonfailed?"} => s[2] \in Port
           /\ s[1] \in {"start", "stop"} => s[2] \in Timer
           /\ s[1] = "differs?" => s[2] \in RapsRequest /\ s[3] \in SUBSET Flag
           /\ s[1] = "request" => s[2] \in RapsRequest
           /\ s[1] = "flags" => s[2] \in SUBSET Flag
           /\ s[1] = "any_blocked?" => s[2] = "PENDING"
           /\ s[1] \notin {"fail", "recover", "blocked?"}
  BY DEF MessageStep, PlainStep, AroundStep, FrameStore, FrameLoad

\* The lists that the rows of a message are made of.
LEMMA MessageLists ==
    ASSUME NEW home \in Port, NEW S, S = MessageStep(home)
    PROVE  /\ <<>> \in Seq(S) /\ Block(home) \in Seq(S)
           /\ \A p \in Port : Unblock(p) \in Seq(S)
           /\ \A timer \in Timer : Start(timer) \in Seq(S) /\ Stop(timer) \in Seq(S)
           /\ \A request \in RapsRequest, flags \in SUBSET Flag :
                  /\ TxStart(request, flags) \in Seq(S)
                  /\ BurstSteps(request, flags) \in Seq(S)
           /\ TxStop \in Seq(S) /\ UnblockBoth \in Seq(S) /\ Yielding \in Seq(S)
           /\ << <<"any_blocked?", "PENDING">> >> \in Seq(S)
<1>1. \A s \in S : <<s>> \in Seq(S)
  OBVIOUS
<1>2. \A a, b, c \in Seq(S) : a \o b \in Seq(S) /\ a \o b \o c \in Seq(S)
  OBVIOUS
<1>3. /\ <<"block", home>> \in S /\ <<"any_blocked?", "PENDING">> \in S
      /\ \A p \in Port : <<"unblock", p>> \in S /\ <<"nonfailed?", p>> \in S
      /\ \A timer \in Timer : <<"start", timer>> \in S /\ <<"stop", timer>> \in S
  BY DEF MessageStep
<1>4. /\ <<"sending">> \in S /\ <<"burst">> \in S /\ <<"silent">> \in S
      /\ <<"wipe">> \in S /\ <<"load_request">> \in S /\ <<"store_request">> \in S
      /\ <<"load_flags">> \in S /\ <<"store_flags">> \in S /\ <<"store_node_id">> \in S
  BY DEF MessageStep, PlainStep, FrameStore, FrameLoad
<1>5. ASSUME NEW request \in RapsRequest, NEW flags \in SUBSET Flag
      PROVE  TxStart(request, flags) \in Seq(S) /\ BurstSteps(request, flags) \in Seq(S)
  <2>1. /\ <<"differs?", request, flags>> \in S
        /\ <<"request", request>> \in S /\ <<"flags", flags>> \in S
    BY DEF MessageStep
  <2>2. /\ << <<"differs?", request, flags>>, <<"sending">> >> \in Seq(S)
        /\ << <<"request", request>>, <<"flags", flags>> >> \in Seq(S)
        /\ << <<"burst">> >> \in Seq(S)
    BY <1>4, <2>1
  <2>3. EncodeSteps \in Seq(S)
    BY <1>4 DEF EncodeSteps
  <2>4. BurstSteps(request, flags) \in Seq(S)
    <3> DEFINE a == << <<"request", request>>, <<"flags", flags>> >>
               b == << <<"burst">> >>
    <3>1. a \in Seq(S) /\ b \in Seq(S)
      BY <2>2
    <3>2. BurstSteps(request, flags) = a \o EncodeSteps \o b
      BY DEF BurstSteps
    <3> HIDE DEF a, b
    <3> QED BY <1>2, <2>3, <3>1, <3>2
  <2>5. TxStart(request, flags) = << <<"differs?", request, flags>>, <<"sending">> >>
    BY DEF TxStart
  <2>6. TxStart(request, flags) \in Seq(S)
    BY <2>2, <2>5
  <2> QED BY <2>4, <2>6
<1>6. ASSUME NEW p \in Port
      PROVE  Unblock(p) \in Seq(S)
  <2>1. Unblock(p) = << <<"unblock", p>> >>
    BY DEF Unblock
  <2>2. << <<"unblock", p>> >> \in Seq(S)
    BY <1>1, <1>3
  <2> QED BY <2>1, <2>2
<1>7. /\ TxStop \in Seq(S)
      /\ UnblockBoth \in Seq(S)
      /\ NonfailedBoth \in Seq(S)
  BY <1>2, <1>3, <1>4, <1>6 DEF TxStop, UnblockBoth, NonfailedBoth, Port
<1>8. Yielding \in Seq(S)
  BY <1>2, <1>7 DEF Yielding
<1> QED BY <1>1, <1>3, <1>5, <1>6, <1>7, <1>8 DEF Block, Start, Stop

\* The owner's timers, and the announcement of NR.
LEMMA MessageTimers ==
    ASSUME NEW home \in Port, NEW S, S = MessageStep(home), NEW r, NEW timer \in Timer
    PROVE  /\ OwnerStop(r) \in Seq(S) /\ OwnerStart(r, timer) \in Seq(S)
           /\ Announcing(r, timer) \in Seq(S)
<1>1. \A a, b, c \in Seq(S) : a \o b \in Seq(S) /\ a \o b \o c \in Seq(S)
  OBVIOUS
<1>2. /\ <<>> \in Seq(S) /\ Stop("wtr") \in Seq(S) /\ Stop("wtb") \in Seq(S)
      /\ Start("guard") \in Seq(S) /\ Start(timer) \in Seq(S)
      /\ TxStart("NR", {}) \in Seq(S)
  BY MessageLists DEF Timer, RapsRequest
<1>3. OwnerStop(r) \in Seq(S) /\ OwnerStart(r, timer) \in Seq(S)
  BY <1>1, <1>2 DEF OwnerStop, OwnerStart
<1> QED BY <1>1, <1>2, <1>3 DEF Announcing

\* The rows that a message may execute in a ring that is usable.
LEMMA MessageRows ==
    ASSUME NEW r, Usable(r), NEW req \in RemoteRequest, NEW port, NEW node,
           NEW row, row = RowSteps(r, req, port, node)
    PROVE  /\ row.steps \in Seq(MessageStep(HomePort(r)))
           /\ row.new \in {"same"} \cup (RingState \ {"INIT"})
<1> DEFINE home == HomePort(r)
           S    == MessageStep(home)
           New  == {"same"} \cup (RingState \ {"INIT"})
           Fits(w) == w.steps \in Seq(S) /\ w.new \in New
<1>1. /\ r \in Ring /\ Configured(r) /\ home \in Port
      /\ r.state \in {"IDLE", "PROTECTION", "MANUAL_SWITCH", "FORCED_SWITCH", "PENDING"}
  BY DEF Usable, HomePort, Ring, RingState, Port
<1>2. req \in {"RAPS_NR", "RAPS_NR_RB", "RAPS_SF", "RAPS_MS", "RAPS_FS"}
  BY DEF RemoteRequest
<1>3. \A a, b, c \in Seq(S) : a \o b \in Seq(S) /\ a \o b \o c \in Seq(S)
  OBVIOUS
<1>4. /\ <<>> \in Seq(S) /\ Block(home) \in Seq(S)
      /\ \A p \in Port : Unblock(p) \in Seq(S)
      /\ TxStop \in Seq(S) /\ UnblockBoth \in Seq(S) /\ Yielding \in Seq(S)
      /\ << <<"any_blocked?", "PENDING">> >> \in Seq(S)
  <2> HIDE DEF S
  <2> QED BY <1>1, MessageLists DEF S
<1>5. /\ OwnerStop(r) \in Seq(S)
      /\ OwnerStart(r, "wtr") \in Seq(S) /\ OwnerStart(r, "wtb") \in Seq(S)
  <2> HIDE DEF S
  <2> QED BY <1>1, MessageTimers DEF S, Timer
<1>6. \A p : OtherPort(p) \in Port
  BY DEF OtherPort, Port
<1>7. \A new \in New, a \in Seq(S) : Fits(Row(new, a))
  BY DEF Row
<1> HIDE DEF S
<1>8. /\ UnblockBoth \o TxStop \in Seq(S)
      /\ Unblock(OtherPort(r.rpl_port)) \in Seq(S)
      /\ Unblock(OtherPort(r.rpl_port)) \o <<>> \in Seq(S)
      /\ Unblock(OtherPort(r.rpl_port)) \o TxStop \in Seq(S)
      /\ UnblockBoth \o TxStop \o OwnerStop(r) \in Seq(S)
      /\ Yielding \o OwnerStop(r) \in Seq(S)
  BY <1>3, <1>4, <1>5, <1>6
<1>9. /\ {"same", "IDLE", "PROTECTION", "MANUAL_SWITCH", "FORCED_SWITCH", "PENDING"}
             \subseteq New
      /\ Fits(NoRow)
  BY <1>4, <1>7 DEF RingState, NoRow
<1>10. r.is_rpl_neighbour => home = r.rpl_port
  BY <1>1 DEF Configured, HomePort
<1> HIDE DEF New, Fits, home
<1>11. Fits(IdleSteps(r, req, port, node))
  BY <1>2, <1>4, <1>7, <1>8, <1>9 DEF IdleSteps
<1>12. Fits(ProtectionSteps(r, req, port))
  BY <1>2, <1>4, <1>5, <1>7, <1>8, <1>9 DEF ProtectionSteps
<1>13. Fits(ManualSwitchSteps(r, req, port))
  BY <1>2, <1>4, <1>5, <1>7, <1>8, <1>9 DEF ManualSwitchSteps
<1>14. Fits(ForcedSwitchSteps(r, req, port))
  BY <1>2, <1>4, <1>5, <1>7, <1>8, <1>9 DEF ForcedSwitchSteps
<1>15. Fits(ObeyingRplBlocked(r))
  <2>1. r.is_rpl_neighbour =>
            Block(r.rpl_port) \o Unblock(OtherPort(r.rpl_port)) \o TxStop \in Seq(S)
    BY <1>3, <1>4, <1>6, <1>10
  <2> QED BY <1>5, <1>7, <1>8, <1>9, <2>1 DEF ObeyingRplBlocked
<1>16. Fits(PendingSteps(r, req, port, node))
  BY <1>2, <1>4, <1>7, <1>8, <1>9, <1>15 DEF PendingSteps
<1> QED BY <1>1, <1>11, <1>12, <1>13, <1>14, <1>16 DEF RowSteps, Fits, New, S, home

\* What a condition puts in front of the list.
LEMMA MessageInserts ==
    ASSUME NEW r, NEW home \in Port, NEW s \in MessageStep(home), s[1] \in Condition
    PROVE  /\ Inserted(r, s) \in Seq(MessageStep(home))
           /\ Decides(r, s) => s[2] = "PENDING"
<1> DEFINE S == MessageStep(home)
<1>1. s[1] \in {"nonfailed?", "differs?", "any_blocked?"}
  BY MessageStepFields DEF Condition
<1>2. CASE s[1] = "nonfailed?"
  <2>1. s[2] \in Port
    BY <1>2, MessageStepFields
  <2>2. Unblock(s[2]) \in Seq(S) /\ <<>> \in Seq(S)
    BY <2>1, MessageLists
  <2> QED BY <1>2, <2>2 DEF Inserted, Decides
<1>3. CASE s[1] = "differs?"
  <2>1. s[2] \in RapsRequest /\ s[3] \in SUBSET Flag
    BY <1>3, MessageStepFields
  <2>2. BurstSteps(s[2], s[3]) \in Seq(S) /\ <<>> \in Seq(S)
    BY <2>1, MessageLists
  <2> QED BY <1>3, <2>2 DEF Inserted, Decides
<1>4. CASE s[1] = "any_blocked?"
  <2>1. Announcing(r, "wtb") \in Seq(S) /\ <<>> \in Seq(S)
    BY MessageLists, MessageTimers DEF Timer
  <2>2. s[2] = "PENDING"
    BY <1>4, MessageStepFields
  <2> QED BY <1>4, <2>1, <2>2 DEF Inserted
<1> QED BY <1>1, <1>2, <1>3, <1>4

\* What the fields that are written have to do with being usable.
LEMMA StaysUsable ==
    ASSUME NEW r, Usable(r), NEW q \in Ring,
           q.is_rpl_owner = r.is_rpl_owner, q.is_rpl_neighbour = r.is_rpl_neighbour,
           q.rpl_port = r.rpl_port, q.state # "INIT",
           q.blocked \subseteq r.blocked \cup {HomePort(r)}
    PROVE  Usable(q) /\ HomePort(q) = HomePort(r)
<1>1. HomePort(q) = HomePort(r)
  BY DEF HomePort
<1> QED BY <1>1 DEF Usable, Configured

\* An assignment leaves the ring usable, whatever the other callbacks have done to it.
LEMMA MessageAssigns ==
    ASSUME NEW r, Usable(r), NEW s \in MessageStep(HomePort(r)), s[1] \in Assignment,
           NEW q, q = Assign(r, s)
    PROVE  Usable(q) /\ HomePort(q) = HomePort(r)
<1>1. r \in Ring /\ HomePort(r) \in Port /\ r.state # "INIT"
  BY DEF Usable, HomePort, Ring, Port
<1>2. /\ s[1] \in {"block", "unblock", "start", "stop", "request", "flags", "burst",
                   "sending", "silent"}
      /\ s[1] = "block" => s[2] = HomePort(r)
      /\ s[1] = "unblock" => s[2] \in Port
      /\ s[1] \in {"start", "stop"} => s[2] \in Timer
      /\ s[1] = "request" => s[2] \in RapsRequest
      /\ s[1] = "flags" => s[2] \in SUBSET Flag
  BY <1>1, MessageStepFields DEF Assignment
<1>3. RAPS_BURSTS \in 0 .. RAPS_BURSTS
  BY DEF RAPS_BURSTS
<1>4. CASE s[1] \in {"block", "unblock"}
  <2>1. q = [r EXCEPT !.blocked = IF s[1] = "block" THEN @ \cup {s[2]} ELSE @ \ {s[2]}]
    BY <1>4 DEF Assign, BlockPort, UnblockPort
  <2>2. /\ q \in Ring /\ q.is_rpl_owner = r.is_rpl_owner
        /\ q.is_rpl_neighbour = r.is_rpl_neighbour /\ q.rpl_port = r.rpl_port
        /\ q.state = r.state /\ q.blocked \subseteq r.blocked \cup {HomePort(r)}
    BY <1>1, <1>2, <1>4, <2>1 DEF Ring
  <2> QED BY <1>1, <2>2, StaysUsable
<1>5. CASE s[1] \notin {"block", "unblock"}
  <2>1. /\ q \in Ring /\ q.is_rpl_owner = r.is_rpl_owner
        /\ q.is_rpl_neighbour = r.is_rpl_neighbour /\ q.rpl_port = r.rpl_port
        /\ q.state = r.state /\ q.blocked = r.blocked
    <3>1. CASE s[1] \in {"start", "stop"}
      BY <1>1, <1>2, <3>1 DEF Assign, StartTimer, StopTimers, Ring
    <3>2. CASE s[1] \in {"request", "flags"}
      BY <1>1, <1>2, <3>2 DEF Assign, Ring
    <3>3. CASE s[1] \in {"burst", "sending", "silent"}
      BY <1>1, <1>2, <1>3, <3>3, ZenonT(60) DEF Assign, StopTx, Ring
    <3> QED BY <1>2, <1>5, <3>1, <3>2, <3>3
  <2> QED BY <1>1, <2>1, StaysUsable
<1> QED BY <1>4, <1>5

\* What the frame of ring_fsm and the priority logic write.
LEMMA FrameAssigns ==
    ASSUME NEW r, Usable(r), NEW req \in RemoteRequest,
           NEW port \in Port \cup {NoPort}, NEW node \in NodeId,
           NEW state \in RingState \ {"INIT"},
           NEW q, q \in { [r EXCEPT !.local_request = Retained(req)],
                          [r EXCEPT !.prev = PrevOf(req, port, node)],
                          Enter(r, state) }
    PROVE  Usable(q) /\ HomePort(q) = HomePort(r)
<1>1. r \in Ring /\ r.state # "INIT"
  BY DEF Usable
<1>2. Retained(req) \in LocalRequest
  BY DEF Retained, LocalRequest
<1>3. PrevOf(req, port, node) \in Prev
  BY DEF PrevOf, Prev, RemoteRequest, PortRequest, Request, Severity
<1>4. /\ q \in Ring /\ q.is_rpl_owner = r.is_rpl_owner
      /\ q.is_rpl_neighbour = r.is_rpl_neighbour /\ q.rpl_port = r.rpl_port
      /\ q.state \in {r.state, state} /\ q.blocked = r.blocked
  BY <1>1, <1>2, <1>3 DEF Enter, Ring
<1> QED BY <1>1, <1>4, StaysUsable

\* The frame of the rows, from the test of the guard timer to the new state.
LEMMA FrameLists ==
    LET t1 == Tail(FrameSteps)
        t2 == Tail(t1)
        t3 == Tail(t2)
        g  == Stop("guard") \o t1
    IN  /\ FrameSteps \in Seq(AnyStep) /\ FrameSteps # <<>> /\ Head(FrameSteps) = <<"guard?">>
        /\ t1 \in Seq(AnyStep) /\ t1 # <<>> /\ Head(t1) = <<"accept?">>
        /\ g \in Seq(AnyStep) /\ g # <<>> /\ Head(g) = <<"stop", "guard">> /\ Tail(g) = t1
        /\ t2 # <<>> /\ Head(t2) = <<"filter?">>
        /\ t3 # <<>> /\ Head(t3) = <<"enter">>
        /\ \A home \in Port : t2 \in Seq(MessageStep(home)) /\ t3 \in Seq(MessageStep(home))
<1> DEFINE t1 == << <<"accept?">>, <<"filter?">>, <<"enter">>, <<"dupe?">>,
                    <<"remember">>, <<"switch">>, <<"store">> >>
           t2 == << <<"filter?">>, <<"enter">>, <<"dupe?">>, <<"remember">>, <<"switch">>,
                    <<"store">> >>
           t3 == << <<"enter">>, <<"dupe?">>, <<"remember">>, <<"switch">>, <<"store">> >>
<1>1. ASSUME NEW home \in Port, NEW S, S = MessageStep(home)
      PROVE  /\ <<"filter?">> \in S /\ <<"enter">> \in S /\ <<"dupe?">> \in S
             /\ <<"remember">> \in S /\ <<"switch">> \in S /\ <<"store">> \in S
             /\ <<"stop", "guard">> \in S /\ S \subseteq AnyStep
  <2>1. { <<name>> : name \in AroundStep } \subseteq S /\ <<"stop", "guard">> \in S
    BY <1>1 DEF MessageStep, Timer
  <2>2. S \subseteq AnyStep
    BY <1>1 DEF AnyStep, Port
  <2> QED BY <2>1, <2>2 DEF AroundStep
<1>2. ASSUME NEW home \in Port
      PROVE  t2 \in Seq(MessageStep(home)) /\ t3 \in Seq(MessageStep(home))
  <2> DEFINE S == MessageStep(home)
  <2>1. /\ <<"filter?">> \in S /\ <<"enter">> \in S /\ <<"dupe?">> \in S
        /\ <<"remember">> \in S /\ <<"switch">> \in S /\ <<"store">> \in S
    BY <1>1
  <2> HIDE DEF S
  <2>2. t2 \in Seq(S) /\ t3 \in Seq(S)
    BY <2>1
  <2> QED BY <2>2 DEF S
<1>3. FrameSteps \in Seq(AnyStep) /\ t1 \in Seq(AnyStep) /\ <<"stop", "guard">> \in AnyStep
  <2>1. /\ <<"filter?">> \in AnyStep /\ <<"enter">> \in AnyStep /\ <<"dupe?">> \in AnyStep
        /\ <<"remember">> \in AnyStep /\ <<"switch">> \in AnyStep
        /\ <<"store">> \in AnyStep /\ <<"stop", "guard">> \in AnyStep
    <3>1. "port0" \in Port
      BY DEF Port
    <3> QED BY <1>1, <3>1
  <2>2. <<"guard?">> \in AnyStep /\ <<"accept?">> \in AnyStep
    BY DEF AnyStep
  <2> QED BY <2>1, <2>2 DEF FrameSteps
<1>4. Tail(FrameSteps) = t1 /\ Tail(t1) = t2 /\ Tail(t2) = t3
  BY DEF FrameSteps
<1>5. /\ FrameSteps # <<>> /\ t1 # <<>> /\ t2 # <<>> /\ t3 # <<>>
      /\ Head(FrameSteps) = <<"guard?">> /\ Head(t1) = <<"accept?">>
      /\ Head(t2) = <<"filter?">> /\ Head(t3) = <<"enter">>
  BY DEF FrameSteps
<1> HIDE DEF t1, t2, t3
<1>6. LET g == Stop("guard") \o t1
      IN  /\ g \in Seq(AnyStep) /\ g # <<>>
          /\ Head(g) = <<"stop", "guard">> /\ Tail(g) = t1
  <2>1. PICK h \in AnyStep : h = <<"stop", "guard">> /\ Stop("guard") = <<h>>
    BY <1>3 DEF Stop
  <2>2. /\ <<h>> \o t1 \in Seq(AnyStep) /\ Len(<<h>> \o t1) = 1 + Len(t1)
        /\ (<<h>> \o t1)[1] = h
        /\ \A k \in 1 .. Len(t1) : (<<h>> \o t1)[1 + k] = t1[k]
    BY <1>3
  <2>3. <<h>> \o t1 # <<>> /\ Head(<<h>> \o t1) = h /\ Tail(<<h>> \o t1) = t1
    BY <1>3, <2>2
  <2> QED BY <2>1, <2>2, <2>3
<1> QED BY <1>2, <1>3, <1>4, <1>5, <1>6

\* The list of a message is a list of steps.
LEMMA MessageListType ==
    ASSUME NEW home \in Port, NEW a \in Seq(MessageStep(home))
    PROVE  a \in Seq(AnyStep)
<1>1. MessageStep(home) \subseteq AnyStep
  BY DEF AnyStep, Port
<1> DEFINE S == MessageStep(home)
<1>2. \A k \in 1 .. Len(a) : a[k] \in S
  OBVIOUS
<1>3. a = [k \in 1 .. Len(a) |-> a[k]] /\ Len(a) \in Nat
  OBVIOUS
<1> QED BY <1>1, <1>2, <1>3

\* What a callback does before its frame has been parsed.
LEMMA UnreadHead ==
    ASSUME NEW todo \in Unread
    PROVE  /\ todo \in Seq(AnyStep) /\ todo # <<>>
           /\ \/ Head(todo) = <<"guard?">> /\ Tail(todo) = Tail(FrameSteps)
              \/ Head(todo) = <<"accept?">> /\ Tail(todo) = Tail(Tail(FrameSteps))
              \/ Head(todo) = <<"stop", "guard">> /\ Tail(todo) = Tail(FrameSteps)
<1>1. CASE todo = FrameSteps
  BY <1>1, FrameLists
<1>2. CASE todo = Tail(FrameSteps)
  BY <1>2, FrameLists
<1>3. CASE todo = Stop("guard") \o Tail(FrameSteps)
  BY <1>3, FrameLists
<1> QED BY <1>1, <1>2, <1>3 DEF Unread

\* The names of the first steps are different names.
LEMMA StepNames ==
    /\ <<"guard?">>[1] = "guard?" /\ <<"accept?">>[1] = "accept?"
    /\ <<"stop", "guard">>[1] = "stop"
    /\ <<"filter?">>[1] = "filter?" /\ <<"enter">>[1] = "enter"
  OBVIOUS

\* What a callback that is underway has to do next.
LEMMA UnderwayHead ==
    ASSUME NEW c, NEW home \in Port, Underway(c, home)
    PROVE  /\ c.todo \in Seq(AnyStep) /\ c.todo # <<>>
           /\ \/ /\ c.todo \in Unread
                 /\ Head(c.todo) \in {<<"guard?">>, <<"accept?">>, <<"stop", "guard">>}
              \/ /\ Parses(c.frame) /\ Head(c.todo) \in MessageStep(home)
                 /\ Tail(c.todo) \in Seq(MessageStep(home))
                 /\ Head(c.todo)[1] \notin {"guard?", "accept?"}
                 /\ c.new = "INIT" =>
                        \/ /\ Head(c.todo) = <<"filter?">>
                           /\ Tail(c.todo) = Tail(Tail(Tail(FrameSteps)))
                        \/ Head(c.todo) = <<"enter">>
<1>1. CASE c.todo \in Unread
  BY <1>1, UnreadHead
<1>2. CASE c.todo \notin Unread
  <2> DEFINE S == MessageStep(home)
  <2>1. Parses(c.frame) /\ c.todo \in Seq(S) /\ c.todo # <<>>
    BY <1>2 DEF Underway
  <2>2. Head(c.todo) \in S /\ Tail(c.todo) \in Seq(S)
    <3> HIDE DEF S
    <3> QED BY <2>1
  <2>3. Head(c.todo)[1] \notin {"guard?", "accept?"}
    BY <2>2 DEF MessageStep, PlainStep, AroundStep, FrameStore, FrameLoad
  <2>4. c.new = "INIT" => \/ /\ Head(c.todo) = <<"filter?">>
                             /\ Tail(c.todo) = Tail(Tail(Tail(FrameSteps)))
                          \/ Head(c.todo) = <<"enter">>
    BY <1>2, FrameLists DEF Underway, Unentered
  <2> QED BY <2>1, <2>2, <2>3, <2>4, MessageListType
<1> QED BY <1>1, <1>2

-----------------------------------------------------------------------------
(***************************************************************************)
(* The callbacks.                                                          *)
(***************************************************************************)

\* A frame that parses carries a message the state machine knows.
LEMMA ParsedFrame ==
    ASSUME NEW frame \in Traffic, er_is_raps_frame(frame), Parses(frame)
    PROVE  /\ RequestOf(er_raps_parse(frame)) \in RemoteRequest
           /\ frame.node_id \in NodeId
<1>1. /\ frame \in WireFrame /\ frame.kind = "raps"
      /\ \E q \in RapsRequest : RequestCode[q] = frame.request
  BY KernelAssumption DEF er_is_raps_frame, Parses
<1>2. frame.node_id \in NodeId
  BY <1>1 DEF WireFrame
<1>3. er_raps_parse(frame) \in Frame
  BY <1>1, <1>2 DEF er_raps_parse, Frame
<1> QED BY <1>2, <1>3, RequestOfFrame DEF Port

\* Two callbacks that differ at most in the ring they remember as history.
Alike(c, d) == /\ c.step = d.step /\ c.slot = d.slot /\ c.frame = d.frame
               /\ c.new = d.new /\ c.todo = d.todo

\* The callback on interface i gets one step further or ends; of the rings it writes
\* to the state machine of one that is live and nobody's to build.
LEMMA CallbackStep ==
    ASSUME IInv, NEW i \in Interface,
           rx' \in [Interface -> Reception],
           \A j \in Interface \ {i} : Alike(rx'[j], rx[j]),
           rx'[i].slot \in {NoSlot, er_global, rx[i].slot},
           rx'[i].step # "idle" => rx'[i].slot \in Slot /\ rx'[i].frame \in Traffic,
           rx'[i].step = "process" =>
               /\ er_is_raps_frame(rx'[i].frame)
               /\ Live(rx'[i].slot) =>
                      Underway(rx'[i], HomePort(er_ring[rx'[i].slot].fsm)),
           er_ring' \in [Slot -> Memory],
           \A t \in Slot :
               /\ er_ring'[t].mem = er_ring[t].mem
               /\ er_ring'[t].link = er_ring[t].link
               /\ er_ring'[t].active = er_ring[t].active
               /\ Usable(er_ring[t].fsm) => Usable(er_ring'[t].fsm)
               /\ HomePort(er_ring'[t].fsm) = HomePort(er_ring[t].fsm)
               /\ Live(t) \/ er_ring'[t] = er_ring[t],
           upset = {} =>
               /\ rx'[i].step # "idle" /\ i \notin others => Live(rx'[i].slot)
               /\ rx'[i].step # "idle" /\ module.step = "free" => i \in others
               /\ rx'[i].step \in {"lookup", "process", "relay"} =>
                      Readable(rx'[i].slot),
           UNCHANGED module \/ Panic,
           UNCHANGED <<er_global, index, ops, caller, others, upset>>
    PROVE  IInv'
<1>1. /\ module' \in Module /\ module'.slot = module.slot
      /\ module'.step \in {module.step, "panicked"} /\ NoSlot \notin Slot
  BY DEF Panic, IInv, Types, Module, NoSlot, Slot
<1>2. /\ \A t \in Slot : Live(t)' <=> Live(t)
      /\ \A t \in Slot : Readable(t) => \A u : u = t => Readable(u)'
      /\ \A d \in Caller, t \in Slot : Builds(d, t)' <=> Builds(d, t)
      /\ \A d \in Caller : Initialising(d)' <=> Initialising(d)
  BY DEF Live, Builds, Readable, Initialising
<1>3. Types'
  BY <1>1 DEF IInv, Types, Attached
<1>4. MemoryPart' /\ CallPart'
  BY <1>2 DEF IInv, MemoryPart, CallPart, Live
<1>5. HeldPart'
  BY <1>1 DEF IInv, HeldPart, Held, Alike
<1>6. BuildPart'
  <2> SUFFICES ASSUME NEW d \in Caller, caller[d].step \in Building
               PROVE  BuildPart!(d)'
    BY DEF BuildPart
  <2>1. BuildPart!(d) /\ caller[d].slot \in Slot
    BY DEF IInv, BuildPart, CallPart, Building
  <2>2. \A j \in Interface : rx'[j].slot # caller[d].slot
    BY <1>1, <2>1 DEF Alike
  <2> QED BY <1>1, <1>2, <2>1, <2>2
<1>7. WholePart'
  BY <1>1, <1>2 DEF IInv, WholePart
<1>8. ModulePart'
  BY <1>1, <1>2 DEF IInv, ModulePart, Types, Module
<1>9. AlonePart'
  <2> SUFFICES ASSUME "overlap" \notin upset
               PROVE  OneInit' /\ LinksAttached' /\ OneRing'
    BY DEF AlonePart
  <2>1. OneInit /\ LinksAttached /\ OneRing
    BY DEF IInv, AlonePart
  <2>2. OneInit' /\ OneRing'
    BY <1>1, <1>2, <2>1 DEF OneInit, OneRing
  <2>3. \A d \in Caller : caller[d].step \in Building => caller[d].slot \in Slot
    BY DEF IInv, CallPart, Building
  <2>4. LinksAttached'
    BY <1>1, <2>1, <2>3 DEF LinksAttached, Attached, IInv, Types
  <2> QED BY <2>2, <2>4
<1>10. CleanPart'
  <2> SUFFICES ASSUME upset = {}
               PROVE  OneLive' /\ NothingLeft' /\ InactiveFirst' /\ CallbackSafe'
    BY DEF CleanPart
  <2>1. OneLive /\ NothingLeft /\ InactiveFirst /\ CallbackSafe
    BY DEF IInv, CleanPart
  <2>2. OneLive' /\ NothingLeft'
    BY <1>2, <2>1 DEF OneLive, NothingLeft, Attached
  <2>3. InactiveFirst'
    BY <1>1, <2>1 DEF InactiveFirst
  <2>4. ASSUME NEW j \in Interface
        PROVE  CallbackSafe!(j)'
    <3>1. /\ rx'[j].step # "idle" => rx'[j].slot \in Slot
          /\ rx'[j].step # "idle" /\ j \notin others => Live(rx'[j].slot)
          /\ rx'[j].step # "idle" /\ module.step = "free" => j \in others
          /\ rx'[j].step \in {"lookup", "process", "relay"} => Readable(rx'[j].slot)
      BY <2>1 DEF CallbackSafe, IInv, HeldPart, Alike
    <3> QED BY <1>1, <3>1 DEF Live, Readable
  <2> QED BY <2>2, <2>3, <2>4 DEF CallbackSafe
<1>11. ReceptionPart'
  <2> SUFFICES ASSUME NEW j \in Interface, rx'[j].step = "process"
               PROVE  ReceptionPart!(j)'
    BY DEF ReceptionPart
  <2> DEFINE s == rx'[j].slot
  <2>1. s \in Slot
    BY DEF Alike, IInv, HeldPart
  <2>2. /\ er_is_raps_frame(rx'[j].frame)
        /\ Live(s) => Underway(rx'[j], HomePort(er_ring[s].fsm))
    <3>1. CASE j = i
      BY <3>1
    <3>2. CASE j # i
      BY <3>2 DEF Alike, IInv, ReceptionPart, Underway
    <3> QED BY <3>1, <3>2
  <2>3. HomePort(er_ring'[s].fsm) = HomePort(er_ring[s].fsm)
    BY <2>1
  <2> HIDE DEF s
  <2> QED BY <1>2, <2>1, <2>2, <2>3 DEF s
<1> QED BY <1>3, <1>4, <1>5, <1>6, <1>7, <1>8, <1>9, <1>10, <1>11 DEF IInv

\* The list without a step.
LEMMA EmptyList == <<>> \in Seq(AnyStep)
  OBVIOUS

\* A callback that does not run is a reception without a ring and without a step.
LEMMA NoRecvType ==
    /\ NoRecv \in Reception /\ NoRecv.step = "idle" /\ NoRecv.slot = NoSlot
    /\ NoRecv.todo = <<>>
  BY EmptyList DEF NoRecv, Reception, RingState

\* er_netmap_on_recv hands the frame to the ring that is published.
LEMMA ReceiveStep ==
    ASSUME IInv, NEW i \in Interface, NEW frame \in Traffic, er_netmap_on_recv(i, frame)
    PROVE  IInv'
<1>1. /\ UNCHANGED <<er_global, er_ring, index, ops, caller, others, upset>>
      /\ i \in Attached /\ module.step # "panicked"
  BY DEF er_netmap_on_recv, Handles, netmap
<1>2. CASE ~DeviceExists
  BY <1>1, <1>2, PanicStep DEF er_netmap_on_recv
<1>3. CASE DeviceExists
  <2>1. /\ er_global \in Slot /\ module.step # "gone" /\ UNCHANGED module
        /\ Recv(i, "active?", er_global, frame, <<>>)
    BY <1>3 DEF er_netmap_on_recv, DeviceExists, IInv, Types
  <2>2. /\ rx' \in [Interface -> Reception]
        /\ \A j \in Interface \ {i} : rx'[j] = rx[j]
        /\ rx'[i].step = "active?" /\ rx'[i].slot = er_global /\ rx'[i].frame = frame
    BY <2>1, NoRecvType, EmptyList DEF Recv, IInv, Types, Reception
  <2>3. ASSUME upset = {}
        PROVE  /\ i \notin others => Live(er_global)
               /\ module.step = "free" => i \in others
    <3>1. /\ OneRing /\ OneInit /\ OneLive /\ NothingLeft
      BY <2>3 DEF IInv, AlonePart, CleanPart
    <3>2. module.step \in {"loaded", "deactivate", "port0", "port1", "free", "forget"}
      BY <1>1, <2>1, <3>1 DEF OneRing, IInv, Types, Module, NoSlot, Slot
    <3>3. module.step \in {"free", "forget"} =>
              /\ er_global = module.slot
              /\ ~Live(er_global) \/ \A p \in Port : er_ring[er_global].link[p] = None
              /\ \A c \in Caller, s \in Slot : ~Builds(c, s)
      BY <3>1
      DEF OneRing, OneInit, Initialising, Builds, Building, IInv, ModulePart, Port
    <3>4. i \in Interface /\ i # None
      BY KernelAssumption
    <3>5. module.step \in {"free", "forget"} => i \in others
      BY <1>1, <3>1, <3>3, <3>4 DEF NothingLeft, OneLive
    <3>6. module.step \in {"loaded", "deactivate", "port0", "port1"} => Live(er_global)
      BY <2>1 DEF IInv, ModulePart, NoSlot, Slot
    <3> QED BY <3>2, <3>5, <3>6
  <2>4. er_ring' \in [Slot -> Memory]
    BY <1>1 DEF IInv, Types
  <2> QED BY <1>1, <2>1, <2>2, <2>3, <2>4, CallbackStep DEF Alike
<1> QED BY <1>2, <1>3

\* A callback that has a ring ends.
LEMMA DropsType ==
    ASSUME IInv, NEW i \in Interface, Drops(i)
    PROVE  /\ rx' \in [Interface -> Reception]
           /\ \A j \in Interface \ {i} : rx'[j] = rx[j]
           /\ rx'[i].step = "idle" /\ rx'[i].slot = NoSlot
  BY NoRecvType DEF Drops, IInv, Types

\* A callback goes on with the ring and the frame that it has.
LEMMA RecvType ==
    ASSUME IInv, NEW i \in Interface, rx[i].step # "idle",
           NEW step \in {"lookup", "process", "relay", "learn"},
           NEW todo \in Seq(AnyStep),
           Recv(i, step, rx[i].slot, rx[i].frame, todo)
    PROVE  /\ rx' \in [Interface -> Reception]
           /\ \A j \in Interface \ {i} : rx'[j] = rx[j]
           /\ rx'[i].step = step /\ rx'[i].slot = rx[i].slot
           /\ rx'[i].frame = rx[i].frame /\ rx'[i].todo = todo
  BY NoRecvType DEF Recv, IInv, Types, Reception

\* The test of active.
LEMMA TestActiveStep ==
    ASSUME IInv, NEW i \in Interface, TestActive(i)
    PROVE  IInv'
<1> DEFINE s == rx[i].slot
<1>1. /\ UNCHANGED <<er_global, er_ring, index, ops, caller, others, upset>>
      /\ rx[i].step = "active?" /\ module.step # "panicked"
      /\ s \in Slot /\ rx[i].frame \in Traffic /\ er_ring' \in [Slot -> Memory]
  BY DEF TestActive, Handles, netmap, IInv, HeldPart, Types
<1>2. CASE er_ring[s].mem # "live"
  BY <1>1, <1>2, PanicStep DEF TestActive
<1>3. CASE er_ring[s].mem = "live" /\ er_ring[s].active
  <2>1. Recv(i, "lookup", s, rx[i].frame, <<>>) /\ UNCHANGED module
    BY <1>3 DEF TestActive
  <2>2. /\ rx' \in [Interface -> Reception]
        /\ \A j \in Interface \ {i} : rx'[j] = rx[j]
        /\ rx'[i].step = "lookup" /\ rx'[i].slot = s /\ rx'[i].frame = rx[i].frame
    BY <1>1, <2>1, RecvType, EmptyList
  <2>3. ASSUME upset = {}
        PROVE  /\ Live(s) /\ Readable(s)
               /\ module.step = "free" => i \in others
    <3>1. s # module.slot \/ module.step = "deactivate"
      BY <1>1, <1>3, <2>3 DEF IInv, CleanPart, InactiveFirst
    <3>2. \A c \in Caller : ~Builds(c, s)
      BY <1>3 DEF IInv, BuildPart, Builds
    <3>3. \A p \in Port : er_ring[s].link[p] # None
      BY <1>1, <1>3, <3>1, <3>2 DEF IInv, WholePart, Live
    <3> QED BY <1>1, <1>3, <2>3, <3>3 DEF Live, Readable, IInv, CleanPart, CallbackSafe
  <2> HIDE DEF s
  <2> QED BY <1>1, <2>1, <2>2, <2>3, CallbackStep DEF s, Alike
<1>4. CASE er_ring[s].mem = "live" /\ ~er_ring[s].active
  <2>1. Drops(i) /\ UNCHANGED module
    BY <1>4 DEF TestActive
  <2> QED BY <1>1, <2>1, DropsType, CallbackStep DEF Alike
<1> QED BY <1>2, <1>3, <1>4

\* A callback that is at work reads a ring whose state machine is usable.
LEMMA ReaderFacts ==
    ASSUME IInv, NEW i \in Interface, rx[i].step # "idle", Readable(rx[i].slot)
    PROVE  /\ rx[i].slot \in Slot /\ Live(rx[i].slot) /\ rx[i].frame \in Traffic
           /\ er_ring[rx[i].slot] \in Memory /\ Usable(Fsm(i))
           /\ HomePort(Fsm(i)) \in Port
           /\ upset = {} => (module.step = "free" => i \in others)
           /\ rx[i].step = "process" =>
                  /\ er_is_raps_frame(rx[i].frame)
                  /\ Underway(rx[i], HomePort(Fsm(i)))
<1> DEFINE s == rx[i].slot
<1>1. /\ s \in Slot /\ rx[i].frame \in Traffic /\ Live(s) /\ er_ring[s] \in Memory
  BY DEF IInv, HeldPart, Readable, Live, Types
<1>2. \A c \in Caller : ~Builds(c, s)
  BY DEF IInv, BuildPart, Builds
<1>3. Usable(er_ring[s].fsm)
  BY <1>1, <1>2 DEF IInv, WholePart
<1>4. HomePort(er_ring[s].fsm) \in Port
  BY <1>3 DEF Usable, HomePort, Ring, Port
<1>5. upset = {} => (module.step = "free" => i \in others)
  BY DEF IInv, CleanPart, CallbackSafe
<1>6. rx[i].step = "process" =>
          /\ er_is_raps_frame(rx[i].frame)
          /\ Underway(rx[i], HomePort(er_ring[s].fsm))
  BY <1>1 DEF IInv, ReceptionPart
<1> QED BY <1>1, <1>3, <1>4, <1>5, <1>6 DEF Fsm

\* er_forward_lookup drops the frame, or begins with it.
LEMMA ForwardStep ==
    ASSUME IInv, NEW i \in Interface, er_forward_lookup(i)
    PROVE  IInv'
<1> DEFINE s == rx[i].slot
           frame == rx[i].frame
<1>1. /\ UNCHANGED <<er_global, er_ring, index, ops, caller, others, upset>>
      /\ rx[i].step = "lookup" /\ s \in Slot /\ frame \in Traffic
      /\ er_ring' \in [Slot -> Memory]
  BY DEF er_forward_lookup, Handles, netmap, IInv, HeldPart, Types
<1>2. CASE ~Readable(s)
  BY <1>1, <1>2, PanicStep DEF er_forward_lookup
<1>3. CASE Drops(i) /\ UNCHANGED module
  BY <1>1, <1>3, DropsType, CallbackStep DEF Alike
<1>4. CASE /\ Readable(s) /\ er_is_raps_frame(frame) /\ UNCHANGED module
           /\ Recv(i, "process", s, frame, FrameSteps)
  <2>1. /\ Live(s) /\ HomePort(Fsm(i)) \in Port
        /\ upset = {} => (module.step = "free" => i \in others)
    BY <1>1, <1>4, ReaderFacts
  <2>3. FrameSteps \in Seq(AnyStep)
    BY FrameLists
  <2>4. /\ rx' \in [Interface -> Reception]
        /\ \A j \in Interface \ {i} : rx'[j] = rx[j]
        /\ rx'[i].step = "process" /\ rx'[i].slot = s /\ rx'[i].frame = frame
        /\ rx'[i].todo = FrameSteps
    BY <1>1, <1>4, <2>3, RecvType
  <2>5. Underway(rx'[i], HomePort(er_ring[s].fsm))
    BY <2>4 DEF Underway, Unread
  <2> HIDE DEF s, frame
  <2> QED BY <1>1, <1>4, <2>1, <2>4, <2>5, CallbackStep DEF s, frame, Alike
<1>5. CASE Readable(s) /\ Recv(i, "learn", s, frame, <<>>) /\ UNCHANGED module
  <2>1. /\ rx' \in [Interface -> Reception]
        /\ \A j \in Interface \ {i} : rx'[j] = rx[j]
        /\ rx'[i].step = "learn" /\ rx'[i].slot = s /\ rx'[i].frame = frame
    BY <1>1, <1>5, RecvType, EmptyList
  <2>2. /\ Live(s)
        /\ upset = {} => (module.step = "free" => i \in others)
    BY <1>1, <1>5, ReaderFacts
  <2> HIDE DEF s, frame
  <2> QED BY <1>1, <1>5, <2>1, <2>2, CallbackStep DEF s, frame, Alike
<1> QED BY <1>2, <1>3, <1>4, <1>5 DEF er_forward_lookup

\* A callback goes on with what is left of its list, or is done with it; the ring is
\* usable and its first port the same.
LEMMA ContinueStep ==
    ASSUME IInv, NEW i \in Interface, rx[i].step = "process", Readable(rx[i].slot),
           NEW new \in RingState, NEW todo, NEW r,
           Usable(r), HomePort(r) = HomePort(Fsm(i)),
           todo # <<>> => Underway([rx[i] EXCEPT !.new = new, !.todo = todo],
                                   HomePort(Fsm(i))),
           Continue(i, new, todo, r),
           UNCHANGED <<er_global, index, ops, caller, others, upset, module>>
    PROVE  IInv'
<1> DEFINE s == rx[i].slot
           home == HomePort(Fsm(i))
           c == [rx[i] EXCEPT !.new = new, !.todo = todo]
           done == [NoRecv EXCEPT !.step = "relay", !.slot = s, !.frame = rx[i].frame]
<1>1. /\ s \in Slot /\ Live(s) /\ rx[i].frame \in Traffic /\ er_ring[s] \in Memory
      /\ Usable(er_ring[s].fsm) /\ home \in Port /\ rx[i] \in Reception
      /\ upset = {} => (module.step = "free" => i \in others)
      /\ er_is_raps_frame(rx[i].frame)
      /\ er_ring \in [Slot -> Memory] /\ rx \in [Interface -> Reception]
  BY ReaderFacts DEF IInv, Types, Fsm
<1>2. /\ er_ring' = [er_ring EXCEPT ![s].fsm = r]
      /\ rx'[i] = IF todo = <<>> THEN done ELSE c
      /\ \A j \in Interface \ {i} :
             rx'[j] \in {rx[j], [rx[j] EXCEPT !.before = NoFsm]}
      /\ DOMAIN rx' = Interface
      /\ rx' = [j \in Interface |-> rx'[j]]
  BY DEF Continue
<1>3. todo # <<>> =>
          /\ c \in Reception /\ c.step = "process" /\ c.slot = s
          /\ c.frame = rx[i].frame /\ Underway(c, home)
  <2> SUFFICES ASSUME todo # <<>>
               PROVE  /\ c \in Reception /\ c.step = "process" /\ c.slot = s
                      /\ c.frame = rx[i].frame /\ Underway(c, home)
    OBVIOUS
  <2>1. Underway(c, home) /\ c.todo = todo
    BY <1>1 DEF Reception
  <2>2. todo \in Seq(AnyStep)
    BY <1>1, <2>1, UnderwayHead
  <2> QED BY <1>1, <2>1, <2>2 DEF Reception
<1>4. /\ done \in Reception /\ done.step = "relay" /\ done.slot = s
      /\ done.frame = rx[i].frame
  <2>1. NoRecv \in Reception
    BY NoRecvType
  <2> QED BY <1>1, <2>1 DEF Reception
<1>5. \A j \in Interface \ {i} : rx'[j] \in Reception /\ Alike(rx'[j], rx[j])
  <2> SUFFICES ASSUME NEW j \in Interface \ {i}
               PROVE  rx'[j] \in Reception /\ Alike(rx'[j], rx[j])
    OBVIOUS
  <2>1. rx[j] \in Reception
    BY <1>1
  <2>2. [rx[j] EXCEPT !.before = NoFsm] \in Reception
        /\ Alike([rx[j] EXCEPT !.before = NoFsm], rx[j])
    BY <2>1 DEF Reception, Alike
  <2> QED BY <1>2, <2>1, <2>2 DEF Alike
<1>6. rx' \in [Interface -> Reception]
  BY <1>2, <1>3, <1>4, <1>5
<1>7. /\ er_ring' \in [Slot -> Memory]
      /\ \A t \in Slot :
             /\ er_ring'[t].mem = er_ring[t].mem
             /\ er_ring'[t].link = er_ring[t].link
             /\ er_ring'[t].active = er_ring[t].active
             /\ Usable(er_ring[t].fsm) => Usable(er_ring'[t].fsm)
             /\ HomePort(er_ring'[t].fsm) = HomePort(er_ring[t].fsm)
             /\ Live(t) \/ er_ring'[t] = er_ring[t]
  <2> DEFINE m == [er_ring[s] EXCEPT !.fsm = r]
  <2>1. /\ m \in Memory /\ m.mem = er_ring[s].mem /\ m.link = er_ring[s].link
        /\ m.active = er_ring[s].active /\ m.fsm = r
    BY <1>1 DEF Memory, Usable
  <2>2. er_ring' = [er_ring EXCEPT ![s] = m]
    BY <1>1, <1>2
  <2>3. HomePort(r) = HomePort(er_ring[s].fsm)
    BY DEF Fsm
  <2> HIDE DEF m, s
  <2> QED BY <1>1, <2>1, <2>2, <2>3
<1>8. /\ rx'[i].slot = s /\ rx'[i].frame = rx[i].frame
      /\ rx'[i].step \in {"process", "relay"}
      /\ rx'[i].step = "process" => Underway(rx'[i], HomePort(er_ring[s].fsm))
  BY <1>2, <1>3, <1>4 DEF Fsm
<1> HIDE DEF s, c, done, home
<1> QED BY <1>1, <1>5, <1>6, <1>7, <1>8, CallbackStep DEF s

\* The guard timer.
LEMMA TestGuardStep ==
    ASSUME IInv, NEW i \in Interface, rx[i].step = "process", Readable(rx[i].slot),
           NEW expired \in BOOLEAN, TestGuard(i, expired),
           UNCHANGED <<er_global, index, ops, caller, others, upset>>
    PROVE  IInv'
<1>1. /\ Usable(Fsm(i)) /\ HomePort(Fsm(i)) \in Port
      /\ Underway(rx[i], HomePort(Fsm(i))) /\ rx[i] \in Reception
      /\ rx[i].new \in RingState
  BY ReaderFacts DEF IInv, Types, Reception
<1>2. Head(rx[i].todo)[1] = "guard?" /\ UNCHANGED module
  BY DEF TestGuard, NextIs
<1>3. Rest(i) = Tail(FrameSteps)
  <2>1. rx[i].todo \in Unread
    BY <1>1, <1>2, UnderwayHead
  <2> QED BY <1>2, <2>1, UnreadHead, StepNames DEF Rest
<1>4. ASSUME NEW todo \in {Rest(i), Stop("guard") \o Rest(i), <<>>}
      PROVE  todo # <<>> => Underway([rx[i] EXCEPT !.new = rx[i].new, !.todo = todo],
                                     HomePort(Fsm(i)))
  <2> DEFINE d == [rx[i] EXCEPT !.new = rx[i].new, !.todo = todo]
  <2>1. d.todo = todo
    BY <1>1 DEF Reception
  <2> HIDE DEF d
  <2> QED BY <1>3, <1>4, <2>1 DEF Underway, Unread, d
<1>5. PICK todo \in {Rest(i), Stop("guard") \o Rest(i), <<>>} :
          Continue(i, rx[i].new, todo, Fsm(i))
  BY DEF TestGuard, Advance, Leave
<1> QED BY <1>1, <1>2, <1>4, <1>5, ContinueStep

\* The frame is parsed, or there is no memory for its message.
LEMMA AcceptFrameStep ==
    ASSUME IInv, NEW i \in Interface, rx[i].step = "process", Readable(rx[i].slot),
           AcceptFrame(i),
           UNCHANGED <<er_global, index, ops, caller, others, upset>>
    PROVE  IInv'
<1> DEFINE s == rx[i].slot
           c == rx[i]
           home == HomePort(Fsm(i))
           d == [[c EXCEPT !.todo = Rest(i)] EXCEPT !.before = Fsm(i)]
<1>1. /\ Usable(Fsm(i)) /\ home \in Port /\ Underway(c, home) /\ c \in Reception
      /\ c.new \in RingState /\ s \in Slot /\ c.frame \in Traffic /\ Live(s)
      /\ er_is_raps_frame(c.frame) /\ rx \in [Interface -> Reception]
      /\ upset = {} => (module.step = "free" => i \in others)
      /\ er_ring \in [Slot -> Memory]
  BY ReaderFacts DEF IInv, Types, Reception
<1>2. Head(c.todo)[1] = "accept?"
  BY DEF AcceptFrame, NextIs
<1>3. CASE Leave(i) /\ UNCHANGED module
  BY <1>1, <1>3, ContinueStep DEF Leave
<1>4. CASE Panic /\ UNCHANGED <<er_ring, rx>>
  BY <1>4, PanicStep
<1>5. CASE /\ Parses(c.frame) /\ er_ring' = er_ring
           /\ rx' = [rx EXCEPT ![i].todo = Rest(i), ![i].before = Fsm(i)]
           /\ UNCHANGED module
  <2>1. Rest(i) = Tail(Tail(FrameSteps))
    <3>1. c.todo \in Unread
      BY <1>1, <1>2, UnderwayHead
    <3> QED BY <1>2, <3>1, UnreadHead, StepNames DEF Rest
  <2>2. /\ Rest(i) # <<>> /\ Rest(i) \in Seq(MessageStep(home)) /\ Rest(i) \in Unentered
        /\ Rest(i) \in Seq(AnyStep)
    BY <1>1, <2>1, FrameLists, MessageListType DEF Unentered
  <2>3. /\ d \in Reception /\ d.step = "process" /\ d.slot = s /\ d.frame = c.frame
        /\ d.new = c.new /\ d.todo = Rest(i)
    BY <1>1, <2>2 DEF Reception, Usable
  <2>4. Underway(d, home)
    BY <1>5, <2>2, <2>3 DEF Underway
  <2>5. rx' = [rx EXCEPT ![i] = d]
    BY <1>1, <1>5
  <2>6. home = HomePort(er_ring[s].fsm)
    BY DEF Fsm
  <2> HIDE DEF d, home, s
  <2>7. /\ rx' \in [Interface -> Reception] /\ rx'[i] = d
        /\ \A j \in Interface \ {i} : Alike(rx'[j], rx[j])
    BY <1>1, <2>3, <2>5 DEF Alike
  <2> QED BY <1>1, <1>5, <2>3, <2>4, <2>6, <2>7, CallbackStep DEF s
<1> QED BY <1>3, <1>4, <1>5 DEF AcceptFrame

\* A callback with a message goes on with what is left of its list, or with a row's or
\* a condition's steps in front of it, and knows the state it will store.
LEMMA MessageGoesOn ==
    ASSUME IInv, NEW i \in Interface, rx[i].step = "process", Readable(rx[i].slot),
           Head(rx[i].todo) \in MessageStep(HomePort(Fsm(i))), Parses(rx[i].frame),
           Rest(i) \in Seq(MessageStep(HomePort(Fsm(i)))),
           NEW new \in RingState \ {"INIT"}, NEW a \in Seq(MessageStep(HomePort(Fsm(i)))),
           NEW r, Usable(r), HomePort(r) = HomePort(Fsm(i)),
           NEW todo \in {Rest(i), a \o Rest(i)},
           Continue(i, new, todo, r), UNCHANGED module,
           UNCHANGED <<er_global, index, ops, caller, others, upset>>
    PROVE  IInv'
<1> DEFINE S == MessageStep(HomePort(Fsm(i)))
           d == [rx[i] EXCEPT !.new = new, !.todo = todo]
<1>1. todo \in Seq(S)
  <2>1. Rest(i) \in Seq(S) /\ a \in Seq(S) /\ todo \in {Rest(i), a \o Rest(i)}
    OBVIOUS
  <2> HIDE DEF S
  <2>2. a \o Rest(i) \in Seq(S)
    BY <2>1
  <2> QED BY <2>1, <2>2, ZenonT(60)
<1>2. d.new = new /\ d.todo = todo /\ d.frame = rx[i].frame
  BY DEF IInv, Types, Reception
<1> HIDE DEF d
<1>3. todo # <<>> => Underway(d, HomePort(Fsm(i)))
  BY <1>1, <1>2 DEF Underway
<1> QED BY <1>3, ContinueStep DEF d

\* A statement of the control process, whatever the other callbacks have done since the
\* one before.
LEMMA RunFsmStep ==
    ASSUME IInv, NEW i \in Interface, rx[i].step = "process", Readable(rx[i].slot),
           RunFsm(i),
           UNCHANGED <<er_global, index, ops, caller, others, upset>>
    PROVE  IInv'
<1> DEFINE c == rx[i]
           r == Fsm(i)
           home == HomePort(r)
           S == MessageStep(home)
           step == Head(c.todo)
           req  == RemoteReq(i)
           node == c.frame.node_id
           port == RecvPort(er_ring[c.slot], i)
<1>1. /\ Usable(r) /\ home \in Port /\ Underway(c, home) /\ c \in Reception
      /\ c.new \in RingState /\ c.frame \in Traffic /\ er_is_raps_frame(c.frame)
      /\ port \in Port \cup {NoPort} /\ UNCHANGED module
  BY ReaderFacts DEF IInv, Types, Reception, RecvPort, Port, RunFsm
<1>2. r \in Ring /\ r.state \in RingState \ {"INIT"}
  BY <1>1 DEF Usable, Ring
<1>3. CASE Leave(i)
  BY <1>1, <1>3, ContinueStep DEF Leave
<1>4. CASE c.todo \in Unread /\ ~Leave(i)
  <2>1. /\ step \in {<<"guard?">>, <<"accept?">>, <<"stop", "guard">>}
        /\ step[1] \in {"guard?", "accept?", "stop"}
        /\ step[1] = "stop" =>
               step = <<"stop", "guard">> /\ Rest(i) = Tail(FrameSteps)
    BY <1>4, UnreadHead, StepNames DEF Rest
  <2>2. step[1] \in Assignment \cup FrameStore \cup FrameLoad
        /\ Advance(i, IF step[1] \in Assignment THEN Assign(r, step) ELSE r)
    BY <1>4, <2>1 DEF RunFsm, NextIs, Condition
  <2>3. step = <<"stop", "guard">> /\ Rest(i) = Tail(FrameSteps)
    <3>1. step[1] = "stop"
      BY <2>1, <2>2 DEF Assignment, FrameStore, FrameLoad
    <3> QED BY <2>1, <3>1
  <2>4. step \in S
    <3>1. <<"stop", "guard">> \in {"start", "stop"} \X Timer
      BY DEF Timer
    <3> QED BY <2>3, <3>1 DEF MessageStep
  <2>5. Usable(Assign(r, step)) /\ HomePort(Assign(r, step)) = home
    BY <1>1, <2>3, <2>4, MessageAssigns DEF Assignment
  <2>6. Continue(i, c.new, Rest(i), Assign(r, step))
    BY <2>2, <2>3 DEF Advance, Assignment
  <2>7. Underway([c EXCEPT !.new = c.new, !.todo = Rest(i)], home)
    <3> DEFINE d == [c EXCEPT !.new = c.new, !.todo = Rest(i)]
    <3>1. d.todo = Rest(i)
      BY <1>1 DEF Reception
    <3> HIDE DEF d
    <3> QED BY <2>3, <3>1 DEF Underway, Unread, d
  <2> HIDE DEF S, step, home
  <2> QED BY <1>1, <2>5, <2>6, <2>7, ContinueStep DEF home
<1>5. CASE c.todo \notin Unread /\ ~Leave(i)
  <2>1. /\ step \in S /\ Rest(i) \in Seq(S) /\ Parses(c.frame)
        /\ c.new = "INIT" =>
               \/ step = <<"filter?">> /\ Rest(i) = Tail(Tail(Tail(FrameSteps)))
               \/ step = <<"enter">>
    BY <1>1, <1>5, UnderwayHead DEF Rest
  <2>2. req \in RemoteRequest /\ node \in NodeId
    BY <1>1, <2>1, ParsedFrame DEF RemoteReq
  <2>3. ASSUME NEW new \in RingState \ {"INIT"}, NEW a \in Seq(S), NEW q,
               Usable(q), HomePort(q) = home,
               NEW todo \in {Rest(i), a \o Rest(i)}, Continue(i, new, todo, q)
        PROVE  IInv'
    BY <1>1, <2>1, <2>3, MessageGoesOn
  <2>4. <<>> \in Seq(S)
    OBVIOUS
  <2>5. ASSUME NEW q, Usable(q), HomePort(q) = home, Advance(i, q), c.new # "INIT"
        PROVE  IInv'
    BY <1>1, <2>3, <2>4, <2>5 DEF Advance
  <2>6. CASE NextIs(i, "filter?")
    <3> DEFINE q == [r EXCEPT !.local_request = Retained(req)]
    <3>1. Advance(i, q)
      BY <1>5, <2>6 DEF RunFsm, NextIs, Assignment, FrameStore, FrameLoad, Condition
    <3>2. Usable(q) /\ HomePort(q) = home
      BY <1>1, <1>2, <2>2, FrameAssigns
    <3> HIDE DEF q
    <3>3. CASE c.new # "INIT"
      BY <2>5, <3>1, <3>2, <3>3
    <3>4. CASE c.new = "INIT"
      <4>1. Rest(i) = Tail(Tail(Tail(FrameSteps)))
        BY <2>1, <2>6, <3>4, StepNames DEF NextIs
      <4>2. Underway([c EXCEPT !.new = c.new, !.todo = Rest(i)], home)
        <5> DEFINE d == [c EXCEPT !.new = c.new, !.todo = Rest(i)]
        <5>1. d.todo = Rest(i) /\ d.frame = c.frame
          BY <1>1 DEF Reception
        <5>2. Rest(i) # <<>>
          BY <4>1, FrameLists
        <5> HIDE DEF d, S, home
        <5> QED BY <2>1, <4>1, <5>1, <5>2 DEF Underway, Unentered, d, S
      <4>3. Continue(i, c.new, Rest(i), q)
        BY <3>1 DEF Advance
      <4> QED BY <1>1, <3>2, <4>2, <4>3, ContinueStep
    <3> QED BY <3>3, <3>4
  <2>7. CASE NextIs(i, "enter")
    <3>1. Continue(i, r.state, Rest(i), r)
      BY <1>5, <2>7 DEF RunFsm, NextIs, Assignment, FrameStore, FrameLoad, Condition
    <3> QED BY <1>1, <1>2, <2>3, <2>4, <3>1
  <2>8. CASE ~NextIs(i, "filter?") /\ ~NextIs(i, "enter")
    <3>1. c.new \in RingState \ {"INIT"}
      BY <1>1, <2>1, <2>8 DEF NextIs
    <3>2. CASE NextIs(i, "dupe?")
      <4>1. Advance(i, r)
        BY <1>5, <3>2 DEF RunFsm, NextIs, Assignment, FrameStore, FrameLoad, Condition
      <4> QED BY <1>1, <2>5, <3>1, <4>1
    <3>3. CASE NextIs(i, "remember")
      <4> DEFINE q == [r EXCEPT !.prev = PrevOf(req, port, node)]
      <4>1. Advance(i, q)
        BY <3>3 DEF RunFsm, NextIs, Assignment, FrameStore, FrameLoad, Condition
      <4>2. Usable(q) /\ HomePort(q) = home
        BY <1>1, <1>2, <2>2, FrameAssigns
      <4> HIDE DEF q
      <4> QED BY <2>5, <3>1, <4>1, <4>2
    <3>4. CASE NextIs(i, "switch")
      <4> DEFINE row == RowSteps(r, req, port, node)
                 new == IF row.new = "same" THEN c.new ELSE row.new
      <4>1. Continue(i, new, row.steps \o Rest(i), r)
        BY <3>4 DEF RunFsm, NextIs, Assignment, FrameStore, FrameLoad, Condition
      <4>2. row.steps \in Seq(S) /\ row.new \in {"same"} \cup (RingState \ {"INIT"})
        BY <1>1, <2>2, MessageRows
      <4> HIDE DEF row
      <4>3. new \in RingState \ {"INIT"}
        BY <3>1, <4>2
      <4> QED BY <1>1, <2>3, <4>1, <4>2, <4>3
    <3>5. CASE NextIs(i, "store")
      <4>1. Advance(i, Enter(r, c.new))
        BY <3>5 DEF RunFsm, NextIs, Assignment, FrameStore, FrameLoad, Condition
      <4>2. Usable(Enter(r, c.new)) /\ HomePort(Enter(r, c.new)) = home
        BY <1>1, <2>2, <3>1, FrameAssigns
      <4> QED BY <2>5, <3>1, <4>1, <4>2
    <3>6. CASE step[1] \in Assignment \cup FrameStore \cup FrameLoad
      <4>1. Advance(i, IF step[1] \in Assignment THEN Assign(r, step) ELSE r)
        BY <3>6 DEF RunFsm, NextIs, Assignment, FrameStore, FrameLoad, Condition
      <4>2. step[1] \in Assignment =>
                Usable(Assign(r, step)) /\ HomePort(Assign(r, step)) = home
        BY <1>1, <2>1, MessageAssigns
      <4> QED BY <1>1, <2>5, <3>1, <4>1, <4>2
    <3>7. CASE step[1] \in Condition
      <4> DEFINE new == IF Decides(r, step) THEN step[2] ELSE c.new
                 a == Inserted(r, step)
      <4>1. Continue(i, new, a \o Rest(i), r)
        BY <3>7 DEF RunFsm, NextIs, Assignment, FrameStore, FrameLoad, Condition
      <4>2. a \in Seq(S) /\ (Decides(r, step) => step[2] = "PENDING")
        BY <1>1, <2>1, <3>7, MessageInserts
      <4>3. new \in RingState \ {"INIT"}
        BY <3>1, <4>2 DEF RingState
      <4> HIDE DEF new, a
      <4> QED BY <1>1, <2>3, <4>1, <4>2, <4>3
    <3> QED BY <2>8, <3>2, <3>3, <3>4, <3>5, <3>6, <3>7 DEF RunFsm
  <2> QED BY <2>6, <2>7, <2>8
<1> QED BY <1>3, <1>4, <1>5, SMTT(30)

\* A statement of a frame that is processed.
LEMMA ProcessStep ==
    ASSUME IInv, NEW i \in Interface, ProcessFrame(i)
    PROVE  IInv'
<1>1. /\ rx[i].step = "process"
      /\ UNCHANGED <<er_global, index, ops, caller, others, upset>>
  BY DEF ProcessFrame, Handles, netmap
<1>2. CASE ~Readable(rx[i].slot)
  BY <1>1, <1>2, PanicStep DEF ProcessFrame
<1>3. CASE Readable(rx[i].slot)
  BY <1>1, <1>3, TestGuardStep, AcceptFrameStep, RunFsmStep DEF ProcessFrame
<1> QED BY <1>2, <1>3

\* The index of the other port, and the learning switch.
LEMMA RelayStep ==
    ASSUME IInv, NEW i \in Interface, RelayRaps(i) \/ Learn(i)
    PROVE  IInv'
<1> DEFINE s == rx[i].slot
<1>1. /\ UNCHANGED <<er_global, er_ring, index, ops, caller, others, upset>>
      /\ rx[i].step \in {"relay", "learn"} /\ s \in Slot /\ rx[i].frame \in Traffic
      /\ er_ring' \in [Slot -> Memory]
  BY DEF RelayRaps, Learn, Handles, netmap, IInv, HeldPart, Types
<1>2. CASE RelayRaps(i) /\ ~Readable(s)
  BY <1>1, <1>2, PanicStep DEF RelayRaps
<1>3. CASE Drops(i) /\ UNCHANGED module
  BY <1>1, <1>3, DropsType, CallbackStep DEF Alike
<1>4. CASE Readable(s) /\ Recv(i, "learn", s, rx[i].frame, <<>>) /\ UNCHANGED module
  <2>1. /\ rx' \in [Interface -> Reception]
        /\ \A j \in Interface \ {i} : rx'[j] = rx[j]
        /\ rx'[i].step = "learn" /\ rx'[i].slot = s /\ rx'[i].frame = rx[i].frame
    BY <1>1, <1>4, RecvType, EmptyList
  <2>2. /\ Live(s)
        /\ upset = {} => (module.step = "free" => i \in others)
    BY <1>1, <1>4 DEF IInv, CleanPart, CallbackSafe, Readable, Live
  <2> HIDE DEF s
  <2> QED BY <1>1, <1>4, <2>1, <2>2, CallbackStep DEF s, Alike
<1> QED BY <1>2, <1>3, <1>4 DEF RelayRaps, Learn

-----------------------------------------------------------------------------
(***************************************************************************)
(* Unloading, and the operator.                                            *)
(***************************************************************************)

\* Unless an INIT overlaps, nobody builds a ring while the module is unloaded.
LEMMA NobodyBuilds ==
    ASSUME IInv, "overlap" \notin upset, module.step \notin {"loaded", "panicked"}
    PROVE  /\ \A c \in Caller : ~Initialising(c)
           /\ \A c \in Caller, s \in Slot : ~Builds(c, s)
  BY DEF IInv, AlonePart, OneInit, Initialising, Builds, Building

\* As long as no INIT is under way, AlonePart says where er_global points.
LEMMA QuietModuleIsAlone ==
    ASSUME \A c \in Caller : ~Initialising(c), module.step # "loaded", OneRing
    PROVE  AlonePart
  BY DEF AlonePart, OneInit, LinksAttached, Initialising, Building, Finishing

\* The next step of the unloading is taken with the same ring.
LEMMA NextUnloadType ==
    ASSUME IInv, NextUnload,
           module.step \in {"deactivate", "port0", "port1", "free", "forget", "device"}
    PROVE  /\ module' \in Module /\ module'.slot = module.slot
           /\ module'.step = NextStep(UnloadSteps, module.step)
<1>1. NextStep(UnloadSteps, module.step)
          \in {"port0", "port1", "free", "forget", "device", "gone"}
  BY UnloadOrder
<1> QED BY <1>1 DEF NextUnload, IInv, Types, Module

\* MOD_UNLOAD looks for a ring.
LEMMA UnloadStep ==
    ASSUME IInv, Unload
    PROVE  IInv'
<1>1. /\ UNCHANGED <<er_global, er_ring, index, ops, caller, rx, others>>
      /\ module.step = "loaded" /\ module.slot = NoSlot
      /\ module'.step = (IF er_global # NoSlot THEN "deactivate" ELSE "device")
      /\ module'.slot = er_global
      /\ NoSlot \notin Slot
  BY UnloadOrder DEF Unload, netmap, IInv, ModulePart, NoSlot, Slot
<1>2. /\ upset' \in SUBSET {"overlap", "failed"} /\ upset \subseteq upset'
      /\ "overlap" \notin upset' => \A c \in Caller : ~Initialising(c)
  BY DEF Unload, IInv, Types
<1>3. /\ \A t \in Slot : Live(t)' <=> Live(t)
      /\ \A c \in Caller, t \in Slot : Builds(c, t)' <=> Builds(c, t)
      /\ \A c \in Caller : Initialising(c)' <=> Initialising(c)
  BY <1>1 DEF Live, Builds, Initialising
<1>4. Types'
  <2>1. module' \in Module
    BY UnloadOrder DEF Unload, Module, IInv, Types
  <2> QED BY <1>1, <1>2, <2>1 DEF IInv, Types, Attached
<1>5. MemoryPart' /\ CallPart' /\ HeldPart'
  BY <1>1 DEF IInv, MemoryPart, CallPart, HeldPart, Held, Live
<1>6. BuildPart'
  BY <1>1 DEF IInv, BuildPart, Live
<1>7. WholePart'
  BY <1>1, <1>3 DEF IInv, WholePart
<1>8. ModulePart'
  BY <1>1 DEF IInv, ModulePart, Live, Types
<1>9. AlonePart'
  <2>1. OneRing'
    BY <1>1 DEF OneRing
  <2>2. "overlap" \notin upset' => \A c \in Caller : ~Initialising(c)'
    BY <1>2, <1>3
  <2> QED BY <1>1, <2>1, <2>2
    DEF AlonePart, OneInit, LinksAttached, Initialising, Building, Finishing
<1>10. CleanPart'
  <2> SUFFICES ASSUME upset' = {}
               PROVE  OneLive' /\ NothingLeft' /\ InactiveFirst' /\ CallbackSafe'
    BY DEF CleanPart
  <2>1. OneLive /\ NothingLeft /\ InactiveFirst /\ CallbackSafe
    BY <1>2 DEF IInv, CleanPart
  <2>2. OneLive' /\ NothingLeft'
    BY <1>1, <1>3, <2>1 DEF OneLive, NothingLeft, Attached
  <2>3. InactiveFirst' /\ CallbackSafe'
    BY <1>1, <1>3, <2>1 DEF InactiveFirst, CallbackSafe, Readable, Live
  <2> QED BY <2>2, <2>3
<1>11. ReceptionPart'
  BY <1>1, <1>3, ReceptionStays DEF IInv, HeldPart
<1> QED BY <1>11, <1>4, <1>5, <1>6, <1>7, <1>8, <1>9, <1>10 DEF IInv

\* The ring is inactive from now on.
LEMMA DeactivateStep ==
    ASSUME IInv, er_deactivate_ring
    PROVE  IInv'
<1> DEFINE s == module.slot
<1>1. /\ UNCHANGED <<er_global, index, ops, caller, rx, others, upset>>
      /\ module.step = "deactivate" /\ s \in Slot /\ er_ring[s].mem # "unused"
      /\ module' \in Module /\ module'.step = "port0" /\ module'.slot = s
      /\ NoSlot \notin Slot
  BY NextUnloadType, UnloadOrder
  DEF er_deactivate_ring, netmap, IInv, ModulePart, HeldPart, Held, NoSlot, Slot
<1>2. /\ er_ring' \in [Slot -> Memory]
      /\ \A t \in Slot \ {s} : er_ring'[t] = er_ring[t]
      /\ \A t \in Slot : /\ er_ring'[t].mem = er_ring[t].mem
                         /\ er_ring'[t].link = er_ring[t].link
                         /\ er_ring'[t].fsm = er_ring[t].fsm
      /\ ~er_ring'[s].active
  BY <1>1, ZenonT(60) DEF er_deactivate_ring, IInv, Types, Memory
<1>3. /\ \A t \in Slot : Live(t)' <=> Live(t)
      /\ \A c \in Caller, t \in Slot : Builds(c, t)' <=> Builds(c, t)
      /\ \A c \in Caller : Initialising(c)' <=> Initialising(c)
  BY <1>1, <1>2 DEF Live, Builds, Initialising
<1> HIDE DEF s
<1>4. Types'
  BY <1>1, <1>2 DEF IInv, Types, Attached
<1>5. MemoryPart' /\ CallPart' /\ HeldPart'
  BY <1>1, <1>2, <1>3 DEF IInv, MemoryPart, CallPart, HeldPart, Held, s
<1>6. BuildPart'
  <2> SUFFICES ASSUME NEW d \in Caller, caller[d].step \in Building
               PROVE  BuildPart!(d)'
    BY <1>1 DEF BuildPart
  <2>1. BuildPart!(d) /\ caller[d].slot \in Slot
    BY DEF IInv, BuildPart, CallPart, Building
  <2> QED BY <1>1, <1>2, <1>3, <2>1 DEF s
<1>7. WholePart'
  BY <1>1, <1>2, <1>3 DEF IInv, WholePart
<1>8. ModulePart'
  BY <1>1, <1>2, <1>3 DEF IInv, ModulePart, Types
<1>9. AlonePart'
  <2> SUFFICES ASSUME "overlap" \notin upset
               PROVE  AlonePart'
    BY <1>1 DEF AlonePart
  <2>1. OneRing'
    BY <1>1 DEF IInv, AlonePart, OneRing, s
  <2>2. \A c \in Caller : ~Initialising(c)'
    BY <1>1, <1>3, NobodyBuilds
  <2> QED BY <1>1, <2>1, <2>2
    DEF AlonePart, OneInit, LinksAttached, Initialising, Building, Finishing
<1>10. CleanPart'
  <2> SUFFICES ASSUME upset = {}
               PROVE  OneLive' /\ NothingLeft' /\ InactiveFirst' /\ CallbackSafe'
    BY <1>1 DEF CleanPart
  <2>1. OneLive /\ NothingLeft /\ InactiveFirst /\ CallbackSafe
    BY DEF IInv, CleanPart
  <2>2. OneLive' /\ NothingLeft'
    BY <1>1, <1>2, <1>3, <2>1 DEF OneLive, NothingLeft, Attached
  <2>3. InactiveFirst'
    BY <1>1, <1>2, <2>1 DEF InactiveFirst, s
  <2>4. CallbackSafe'
    BY <1>1, <1>2, <1>3, <2>1 DEF CallbackSafe, Readable, Live, IInv, HeldPart
  <2> QED BY <2>2, <2>3, <2>4
<1>11. ReceptionPart'
  BY <1>1, <1>2, <1>3, ReceptionStays DEF IInv, HeldPart
<1> QED BY <1>11, <1>4, <1>5, <1>6, <1>7, <1>8, <1>9, <1>10 DEF IInv

\* A port is detached and freed.
LEMMA DestroyPortStep ==
    ASSUME IInv, NEW p \in Port, er_port_destroy(p)
    PROVE  IInv'
<1> DEFINE s == module.slot
           i == er_ring[s].link[p]
<1>1. /\ UNCHANGED <<er_global, caller, rx, upset>>
      /\ module.step = p /\ module.step \in {"port0", "port1"}
      /\ s \in Slot /\ er_ring[s].mem # "unused"
      /\ module' \in Module /\ module'.slot = s
      /\ module'.step = (IF p = "port0" THEN "port1" ELSE "free")
      /\ NoSlot \notin Slot
      /\ Quiet
  BY NextUnloadType, UnloadOrder
  DEF er_port_destroy, IInv, ModulePart, HeldPart, Held, NoSlot, Slot, Port
<1>2. /\ er_ring' \in [Slot -> Memory]
      /\ \A t \in Slot \ {s} : er_ring'[t] = er_ring[t]
      /\ \A t \in Slot : /\ er_ring'[t].mem = er_ring[t].mem
                         /\ er_ring'[t].active = er_ring[t].active
                         /\ er_ring'[t].fsm = er_ring[t].fsm
      /\ er_ring'[s].link[p] = None
      /\ \A q \in Port \ {p} : er_ring'[s].link[q] = er_ring[s].link[q]
  BY <1>1, ZenonT(60) DEF er_port_destroy, IInv, Types, Memory
<1>3. /\ index' \in [Interface -> 0 .. NOPORT]
      /\ Attached' = Attached \ {i} /\ others' = others \ {i}
      /\ others' \subseteq Attached'
  BY Detached DEF er_port_destroy, IInv, Types
<1>4. ops' \in BOOLEAN /\ (ops' => Attached' # {})
  BY <1>3 DEF er_port_destroy, Detach
<1>5. /\ \A t \in Slot : Live(t)' <=> Live(t)
      /\ \A c \in Caller, t \in Slot : Builds(c, t)' <=> Builds(c, t)
      /\ \A c \in Caller : Initialising(c)' <=> Initialising(c)
  BY <1>1, <1>2 DEF Live, Builds, Initialising
<1> HIDE DEF s, i
<1>6. Types'
  BY <1>1, <1>2, <1>3, <1>4 DEF IInv, Types
<1>7. MemoryPart' /\ CallPart' /\ HeldPart'
  BY <1>1, <1>2, <1>5 DEF IInv, MemoryPart, CallPart, HeldPart, Held, s
<1>8. BuildPart'
  <2> SUFFICES ASSUME NEW d \in Caller, caller[d].step \in Building
               PROVE  BuildPart!(d)'
    BY <1>1 DEF BuildPart
  <2>1. BuildPart!(d) /\ caller[d].slot \in Slot
    BY DEF IInv, BuildPart, CallPart, Building
  <2> QED BY <1>1, <1>2, <1>5, <2>1 DEF s
<1>9. WholePart'
  BY <1>1, <1>2, <1>5 DEF IInv, WholePart, s
<1>10. ModulePart'
  BY <1>1, <1>2, <1>5 DEF IInv, ModulePart, Types, Port, s
<1>11. AlonePart'
  <2> SUFFICES ASSUME "overlap" \notin upset
               PROVE  AlonePart'
    BY <1>1 DEF AlonePart
  <2>1. OneRing'
    BY <1>1 DEF IInv, AlonePart, OneRing, s
  <2>2. \A c \in Caller : ~Initialising(c)'
    BY <1>1, <1>5, NobodyBuilds
  <2> QED BY <1>1, <2>1, <2>2
    DEF AlonePart, OneInit, LinksAttached, Initialising, Building, Finishing
<1>12. CleanPart'
  <2> SUFFICES ASSUME upset = {}
               PROVE  OneLive' /\ NothingLeft' /\ InactiveFirst' /\ CallbackSafe'
    BY <1>1 DEF CleanPart
  <2>1. OneLive /\ NothingLeft /\ InactiveFirst
    BY DEF IInv, CleanPart
  <2>2. OneLive'
    BY <1>1, <1>5, <2>1 DEF OneLive
  <2>3. NothingLeft'
    <3> SUFFICES ASSUME NEW j \in (Attached \ others)'
                 PROVE  \E t \in Slot, q \in Port : Live(t)' /\ er_ring'[t].link[q] = j
      BY DEF NothingLeft
    <3>1. j \in Attached \ others /\ j # i
      BY <1>3
    <3>2. PICK t \in Slot, q \in Port : Live(t) /\ er_ring[t].link[q] = j
      BY <2>1, <3>1 DEF NothingLeft
    <3>3. t # s \/ q # p
      BY <3>1, <3>2 DEF i
    <3> QED BY <1>2, <1>5, <3>2, <3>3
  <2>4. InactiveFirst'
    BY <1>1, <1>2, <2>1 DEF InactiveFirst, s
  <2>5. CallbackSafe'
    BY <1>1 DEF CallbackSafe, Quiet
  <2> QED BY <2>2, <2>3, <2>4, <2>5
<1>13. ReceptionPart'
  BY <1>1, <1>2, <1>5, ReceptionStays DEF IInv, HeldPart
<1> QED BY <1>13, <1>6, <1>7, <1>8, <1>9, <1>10, <1>11, <1>12 DEF IInv

\* The ring is freed.
LEMMA FreeStep ==
    ASSUME IInv, FreeRing
    PROVE  IInv'
<1> DEFINE s == module.slot
<1>1. /\ UNCHANGED <<er_global, index, ops, caller, rx, others, upset>>
      /\ module.step = "free" /\ s \in Slot
      /\ \A p \in Port : er_ring[s].link[p] = None
      /\ module' \in Module /\ module'.step = "forget" /\ module'.slot = s
      /\ NoSlot \notin Slot
  BY NextUnloadType, UnloadOrder
  DEF FreeRing, netmap, IInv, ModulePart, NoSlot, Slot, Port
<1>2. /\ er_ring' \in [Slot -> Memory]
      /\ \A t \in Slot \ {s} : er_ring'[t] = er_ring[t]
      /\ er_ring'[s].mem = "freed" /\ ~er_ring'[s].active
  BY <1>1, FreedMemory DEF FreeRing, Freed, IInv, Types
<1>3. /\ \A t \in Slot : Live(t)' <=> Live(t) /\ t # s
      /\ \A c \in Caller, t \in Slot : Builds(c, t)' <=> Builds(c, t)
      /\ \A c \in Caller : Initialising(c)' <=> Initialising(c)
  BY <1>1, <1>2 DEF Live, Builds, Initialising
<1> HIDE DEF s
<1>4. Types'
  BY <1>1, <1>2 DEF IInv, Types, Attached
<1>5. MemoryPart' /\ CallPart' /\ HeldPart'
  BY <1>1, <1>2, <1>3 DEF IInv, MemoryPart, CallPart, HeldPart, Held, s
<1>6. BuildPart'
  <2> SUFFICES ASSUME NEW d \in Caller, caller[d].step \in Building
               PROVE  BuildPart!(d)'
    BY <1>1 DEF BuildPart
  <2>1. BuildPart!(d) /\ caller[d].slot \in Slot
    BY DEF IInv, BuildPart, CallPart, Building
  <2> QED BY <1>1, <1>2, <1>3, <2>1 DEF s
<1>7. WholePart'
  BY <1>1, <1>2, <1>3 DEF IInv, WholePart, s
<1>8. ModulePart'
  BY <1>1, <1>3 DEF ModulePart
<1>9. AlonePart'
  <2> SUFFICES ASSUME "overlap" \notin upset
               PROVE  AlonePart'
    BY <1>1 DEF AlonePart
  <2>1. OneRing'
    BY <1>1 DEF IInv, AlonePart, OneRing, s
  <2>2. \A c \in Caller : ~Initialising(c)'
    BY <1>1, <1>3, NobodyBuilds
  <2> QED BY <1>1, <2>1, <2>2
    DEF AlonePart, OneInit, LinksAttached, Initialising, Building, Finishing
<1>10. CleanPart'
  <2> SUFFICES ASSUME upset = {}
               PROVE  OneLive' /\ NothingLeft' /\ InactiveFirst' /\ CallbackSafe'
    BY <1>1 DEF CleanPart
  <2>1. OneLive /\ NothingLeft /\ InactiveFirst /\ CallbackSafe
    BY DEF IInv, CleanPart
  <2>2. OneLive'
    BY <1>1, <1>3, <2>1 DEF OneLive
  <2>3. None \notin Attached /\ Attached' = Attached
    BY <1>1, KernelAssumption DEF Attached
  <2>4. NothingLeft'
    BY <1>1, <1>2, <1>3, <2>1, <2>3 DEF NothingLeft
  <2>5. InactiveFirst'
    BY <1>1, <1>2, <2>1 DEF InactiveFirst, s
  <2>6. CallbackSafe'
    <3>1. \A j \in Interface : rx[j].step # "idle" =>
              j \in others /\ rx[j].slot \in Slot
      BY <1>1, <2>1 DEF CallbackSafe, IInv, HeldPart
    <3>2. \A t \in Slot : Readable(t) => t # s /\ er_ring'[t] = er_ring[t]
      BY <1>1, <1>2 DEF Readable, Port
    <3>3. \A j \in Interface : rx[j].step \in {"lookup", "process", "relay"} =>
              Readable(rx[j].slot)'
      BY <1>1, <2>1, <3>1, <3>2 DEF CallbackSafe, Readable
    <3> QED BY <1>1, <3>1, <3>3 DEF CallbackSafe
  <2> QED BY <2>2, <2>4, <2>5, <2>6
<1>11. ReceptionPart'
  BY <1>1, <1>2, <1>3, ReceptionStays DEF IInv, HeldPart
<1> QED BY <1>11, <1>4, <1>5, <1>6, <1>7, <1>8, <1>9, <1>10 DEF IInv

\* er_global is cleared, and later the device goes.
LEMMA LeaveStep ==
    ASSUME IInv, ForgetRing \/ DestroyDevice
    PROVE  IInv'
<1>1. /\ UNCHANGED <<er_ring, index, ops, caller, rx, others, upset>>
      /\ \/ module.step = "forget" /\ module'.step = "device" /\ er_global' = NoSlot
         \/ module.step = "device" /\ module'.step = "gone" /\ er_global' = er_global
      /\ module' \in Module /\ module'.slot = module.slot
      /\ NoSlot \notin Slot
  BY NextUnloadType, UnloadOrder DEF ForgetRing, DestroyDevice, netmap, NoSlot, Slot
<1>2. /\ \A t \in Slot : Live(t)' <=> Live(t)
      /\ \A c \in Caller, t \in Slot : Builds(c, t)' <=> Builds(c, t)
      /\ \A c \in Caller : Initialising(c)' <=> Initialising(c)
  BY <1>1 DEF Live, Builds, Initialising
<1>3. Types'
  BY <1>1 DEF IInv, Types, Attached
<1>4. MemoryPart' /\ CallPart' /\ HeldPart'
  BY <1>1 DEF IInv, MemoryPart, CallPart, HeldPart, Held, Live
<1>5. BuildPart'
  <2>1. \A c \in Caller : caller[c].step \in Building => caller[c].slot \in Slot
    BY DEF IInv, CallPart, Building
  <2> QED BY <1>1, <2>1 DEF IInv, BuildPart, Live
<1>6. WholePart' /\ ModulePart'
  BY <1>1, <1>2 DEF IInv, WholePart, ModulePart
<1>7. AlonePart'
  <2> SUFFICES ASSUME "overlap" \notin upset
               PROVE  AlonePart'
    BY <1>1 DEF AlonePart
  <2>1. OneRing'
    BY <1>1 DEF IInv, AlonePart, OneRing
  <2>2. \A c \in Caller : ~Initialising(c)'
    BY <1>1, <1>2, NobodyBuilds
  <2> QED BY <1>1, <2>1, <2>2
    DEF AlonePart, OneInit, LinksAttached, Initialising, Building, Finishing
<1>8. CleanPart'
  <2> SUFFICES ASSUME upset = {}
               PROVE  OneLive' /\ NothingLeft' /\ InactiveFirst' /\ CallbackSafe'
    BY <1>1 DEF CleanPart
  <2>1. OneLive /\ NothingLeft /\ InactiveFirst /\ CallbackSafe /\ OneRing
    BY DEF IInv, CleanPart, AlonePart
  <2>2. module.step = "forget" => er_global = module.slot /\ ~Live(module.slot)
    BY <2>1 DEF OneRing, IInv, ModulePart
  <2>3. OneLive'
    BY <1>1, <1>2, <2>1, <2>2 DEF OneLive
  <2>4. NothingLeft'
    BY <1>1, <1>2, <2>1 DEF NothingLeft, Attached
  <2>5. InactiveFirst' /\ CallbackSafe'
    BY <1>1, <1>2, <2>1 DEF InactiveFirst, CallbackSafe, Readable, Live
  <2> QED BY <2>3, <2>4, <2>5
<1>9. ReceptionPart'
  BY <1>1, <1>2, ReceptionStays DEF IInv, HeldPart
<1> QED BY <1>9, <1>3, <1>4, <1>5, <1>6, <1>7, <1>8 DEF IInv

\* An operator adds an interface.
LEMMA AttachOtherStep ==
    ASSUME IInv, NEW i \in Spare, AttachOther(i)
    PROVE  IInv'
<1>1. /\ UNCHANGED <<er_global, er_ring, caller, rx, module, upset, ops>>
      /\ i \in Interface /\ i \notin Attached /\ Quiet /\ others' = others \cup {i}
  BY KernelAssumption DEF AttachOther, Attach, Attached
<1>2. index' \in [Interface -> 0 .. NOPORT] /\ Attached' = Attached \cup {i}
  <2>1. PICK n \in 0 .. NOPORT - 1 : index' = [index EXCEPT ![i] = n]
    BY FreeIndexIsANumber DEF AttachOther, Attach, IInv, Types
  <2>2. index \in [Interface -> 0 .. NOPORT] /\ n \in 0 .. NOPORT /\ n # NOPORT
    BY <2>1 DEF IInv, Types, NOPORT
  <2> QED BY <1>1, <2>1, <2>2 DEF Attached
<1>3. /\ \A t \in Slot : Live(t)' <=> Live(t)
      /\ \A c \in Caller, t \in Slot : Builds(c, t)' <=> Builds(c, t)
      /\ \A c \in Caller : Initialising(c)' <=> Initialising(c)
  BY <1>1 DEF Live, Builds, Initialising
<1>4. Types'
  BY <1>1, <1>2 DEF IInv, Types
<1>5. MemoryPart' /\ CallPart' /\ HeldPart'
  BY <1>1 DEF IInv, MemoryPart, CallPart, HeldPart, Held, Live
<1>6. BuildPart' /\ ModulePart'
  BY <1>1 DEF IInv, BuildPart, ModulePart, Live
<1>7. WholePart'
  BY <1>1, <1>3 DEF IInv, WholePart
<1>8. AlonePart'
  BY <1>1, <1>2, <1>3 DEF IInv, AlonePart, OneInit, LinksAttached, OneRing
<1>9. CleanPart'
  <2> SUFFICES ASSUME upset = {}
               PROVE  OneLive' /\ NothingLeft' /\ InactiveFirst' /\ CallbackSafe'
    BY <1>1 DEF CleanPart
  <2>1. OneLive /\ NothingLeft /\ InactiveFirst
    BY DEF IInv, CleanPart
  <2>2. OneLive' /\ NothingLeft'
    BY <1>1, <1>2, <1>3, <2>1 DEF OneLive, NothingLeft
  <2>3. InactiveFirst' /\ CallbackSafe'
    BY <1>1, <2>1 DEF InactiveFirst, CallbackSafe, Quiet
  <2> QED BY <2>2, <2>3
<1>10. ReceptionPart'
  BY <1>1, <1>3, ReceptionStays DEF IInv, HeldPart
<1> QED BY <1>10, <1>4, <1>5, <1>6, <1>7, <1>8, <1>9 DEF IInv

-----------------------------------------------------------------------------
(***************************************************************************)
(* The theorems.                                                           *)
(***************************************************************************)

\* er_module_init: no ring, no call, no callback, an empty bridge.
LEMMA InitIsSound == Init => IInv
<1> SUFFICES ASSUME Init
             PROVE  IInv
  OBVIOUS
<1>1. /\ Unused \in Memory /\ Unused.mem = "unused" /\ ~Unused.active
      /\ NoCall \in Call /\ NoCall.step = "idle" /\ NoCall.slot = NoSlot
      /\ NoRecv \in Reception /\ NoRecv.step = "idle" /\ NoRecv.slot = NoSlot
      /\ NoSlot \notin Slot
  BY NoRecvType DEF Unused, Memory, NOPORT, NoCall, Call, NoSlot, Slot
<1>2. /\ Attached = {}
      /\ \A s \in Slot : er_ring[s] = Unused
      /\ \A c \in Caller : caller[c] = NoCall
      /\ \A i \in Interface : rx[i] = NoRecv
  BY DEF Init, Attached
<1>3. Types
  <2>1. er_ring \in [Slot -> Memory] /\ caller \in [Caller -> Call]
        /\ rx \in [Interface -> Reception]
    BY <1>1 DEF Init
  <2>2. index \in [Interface -> 0 .. NOPORT] /\ module \in Module
    BY DEF Init, Module, NOPORT
  <2> QED BY <2>1, <2>2 DEF Init, Types
<1>4. MemoryPart /\ HeldPart /\ CallPart /\ BuildPart /\ WholePart /\ ReceptionPart
  BY <1>1, <1>2
  DEF Init, MemoryPart, HeldPart, Held, CallPart, BuildPart, Building, WholePart, Live,
      ReceptionPart
<1>5. ModulePart /\ AlonePart
  BY <1>1, <1>2
  DEF Init, ModulePart, AlonePart, OneInit, LinksAttached, OneRing, Initialising,
      Building, Finishing
<1>6. CleanPart
  BY <1>1, <1>2
  DEF Init, CleanPart, OneLive, NothingLeft, InactiveFirst, CallbackSafe, Live
<1> QED BY <1>3, <1>4, <1>5, <1>6 DEF IInv

\* No step of an ioctl, of a callback, of the unloading or of the operator leaves the
\* invariant.
LEMMA StepKeepsInvariant == IInv /\ [Next]_vars => IInv'
<1> SUFFICES ASSUME IInv, [Next]_vars
             PROVE  IInv'
  OBVIOUS
<1>1. ASSUME NEW c \in Caller, Ioctl(c)
      PROVE  IInv'
  <2>1. CASE \E req \in Requests : InitLookup(c, req)
    BY <2>1, LookupStep
  <2>2. CASE AllocateRing(c)
    BY <2>2, AllocateStep, LookupStep DEF AllocateRing, netmap
  <2>3. CASE \E p \in Port : CreatePort(c, p)
    BY <2>3, CreatePortStep
  <2>4. CASE RegisterOps(c)
    BY <2>4, RegisterOpsStep
  <2>5. CASE PrepareRing(c)
    BY <2>5, PrepareStep
  <2>6. CASE PublishRing(c)
    BY <2>6, PublishStep
  <2>7. CASE ConfigureRing(c) \/ er_activate_ring(c)
    BY <2>7, ConfigureStep
  <2>8. CASE StatusLookup(c) \/ StatusRead(c)
    BY <2>8, LookupStep
  <2> QED BY <1>1, <2>1, <2>2, <2>3, <2>4, <2>5, <2>6, <2>7, <2>8 DEF Ioctl
<1>2. ASSUME NEW i \in Interface, Callback(i)
      PROVE  IInv'
  <2>1. CASE \E frame \in Traffic : er_netmap_on_recv(i, frame)
    BY <2>1, ReceiveStep
  <2>2. CASE TestActive(i)
    BY <2>2, TestActiveStep
  <2>3. CASE er_forward_lookup(i)
    BY <2>3, ForwardStep
  <2>4. CASE ProcessFrame(i)
    BY <2>4, ProcessStep
  <2>5. CASE RelayRaps(i) \/ Learn(i)
    BY <2>5, RelayStep
  <2> QED BY <1>2, <2>1, <2>2, <2>3, <2>4, <2>5 DEF Callback
<1>3. ASSUME NEW i \in Spare, AttachOther(i)
      PROVE  IInv'
  BY <1>3, AttachOtherStep
<1>4. CASE Unloading
  <2>1. CASE Unload
    BY <2>1, UnloadStep
  <2>2. CASE er_deactivate_ring
    BY <2>2, DeactivateStep
  <2>3. CASE \E p \in Port : er_port_destroy(p)
    BY <2>3, DestroyPortStep
  <2>4. CASE FreeRing
    BY <2>4, FreeStep
  <2>5. CASE ForgetRing \/ DestroyDevice
    BY <2>5, LeaveStep
  <2> QED BY <1>4, <2>1, <2>2, <2>3, <2>4, <2>5 DEF Unloading
<1>5. CASE UNCHANGED vars
  BY <1>5
  DEF vars, IInv, Types, Attached, MemoryPart, HeldPart, Held, CallPart, BuildPart,
      WholePart, ReceptionPart, Builds, Live, ModulePart, AlonePart, OneInit,
      LinksAttached, OneRing, Initialising, CleanPart, OneLive, NothingLeft,
      InactiveFirst, CallbackSafe,
      Readable
<1> QED BY <1>1, <1>2, <1>3, <1>4, <1>5 DEF Next

\* The inductive invariant, whatever the callers ask for and the bridge hands over.
THEOREM KernelInductive == Spec => []IInv
  BY InitIsSound, StepKeepsInvariant, PTL DEF Spec

\* The type invariant: no pointer, index or state machine leaves its type, and only a
\* live ring is active.
THEOREM KernelTypes == Spec => []TypeOK
<1>1. IInv => TypeOK
  BY DEF IInv, Types, Memory, MemoryPart, Live, TypeOK
<1> QED BY <1>1, KernelInductive, PTL

\* er_lookup_ring finds no ring that is half-made, whatever INITs overlap.
THEOREM FoundRingIsWhole == Spec => []PublishedRingIsWhole
<1>1. IInv => PublishedRingIsWhole
  <2> SUFFICES ASSUME IInv, module.step = "loaded", er_global # NoSlot
               PROVE  LET r == er_ring[er_global]
                      IN  /\ Readable(er_global)
                          /\ r.fsm # NoFsm /\ r.fsm.state # "INIT"
                          /\ (r.fsm.rpl_port = NoPort)
                                 = ~(r.fsm.is_rpl_owner \/ r.fsm.is_rpl_neighbour)
    BY DEF PublishedRingIsWhole
  <2> DEFINE fsm == er_ring[er_global].fsm
  <2>1. /\ er_global \in Slot /\ Live(er_global) /\ module.slot = NoSlot
        /\ \A c \in Caller : ~Builds(c, er_global)
    BY DEF IInv, Types, ModulePart, BuildPart, Builds
  <2>2. Readable(er_global) /\ Usable(fsm)
    BY <2>1 DEF IInv, WholePart, Readable, Live
  <2>3. fsm \in Ring /\ Configured(fsm) /\ fsm.state # "INIT"
    BY <2>2 DEF Usable
  <2>4. fsm # NoFsm
    BY <2>3 DEF Ring, NoFsm
  <2>5. (fsm.rpl_port = NoPort) = ~(fsm.is_rpl_owner \/ fsm.is_rpl_neighbour)
    BY <2>3 DEF Configured
  <2> QED BY <2>2, <2>3, <2>4, <2>5
<1> QED BY <1>1, KernelInductive, PTL

\* Two links hand over frames at the same time and no lock parts their rows: of all the
\* interleavings none blocks another port than row 01 did.
THEOREM RingIsNeverCutOff == Spec => []NeverCutOff
<1>1. IInv => NeverCutOff
  BY DEF IInv, Types, ModulePart, BuildPart, WholePart, Builds, Usable, NeverCutOff
<1> QED BY <1>1, KernelInductive, PTL

\* Without a lock: the order of er_ring_destroy keeps the callbacks from a ring that
\* goes.
THEOREM CallbackOnLinkIsSafe == Spec => []LinkCallbackIsSafe
<1>1. IInv => LinkCallbackIsSafe
  BY DEF IInv, CleanPart, CallbackSafe, LinkCallbackIsSafe, Live
<1> QED BY <1>1, KernelInductive, PTL

\* No INIT takes a link of the ring that is up off the bridge.
THEOREM LinksStay == Spec => []RingKeepsItsLinks
<1>1. IInv => RingKeepsItsLinks
  BY DEF IInv, AlonePart, LinksAttached, RingKeepsItsLinks
<1> QED BY <1>1, KernelInductive, PTL

\* kldunload leaves nothing behind.
THEOREM UnloadIsClean == Spec => []CleanUnload
<1>1. IInv => CleanUnload
  <2> SUFFICES ASSUME IInv, module.step = "gone", upset = {}
               PROVE  /\ Attached \subseteq others
                      /\ \A s \in Slot : ~Live(s)
    BY DEF CleanUnload, Live
  <2>1. er_global = NoSlot /\ OneLive /\ NothingLeft
    BY DEF IInv, AlonePart, OneRing, CleanPart
  <2>2. \A c \in Caller, s \in Slot : ~Builds(c, s)
    BY NobodyBuilds
  <2>3. \A s \in Slot : ~Live(s)
    BY <2>1, <2>2 DEF OneLive, NoSlot, Slot
  <2> QED BY <2>1, <2>3 DEF NothingLeft
<1> QED BY <1>1, KernelInductive, PTL

=============================================================================
