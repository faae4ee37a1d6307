------------------------------ MODULE ErpsKernel ------------------------------
(***************************************************************************)
(* The kernel module erps.ko: the ioctls of /dev/erps, the creation and    *)
(* destruction of the ring, and the callback netmap runs for every frame   *)
(* that enters the bridge.  Callers of ioctl, callbacks on different       *)
(* interfaces and the unloading of the module run at the same time: the    *)
(* device is not under Giant, and er_global and the ring are under no lock.*)
(* Callbacks take turns at every statement of the control process, whose   *)
(* rows are RingSteps'; memory is sequentially consistent.                 *)
(*                                                                         *)
(* What netmap does is external.  An interface is attached once at most; a *)
(* bridge numbers its ports from 0 and forgets its callback with its last  *)
(* port; callbacks hold the bridge while they run, so that attaching and   *)
(* detaching wait for them.  One interface has one callback at a time.     *)
(* The build is the one of the Makefile, without FBSD12.                   *)
(***************************************************************************)
EXTENDS RingSteps, FiniteSets

CONSTANTS Interface,    \* the network interfaces of the machine
          Caller,       \* the threads that call ioctl
          Requests,     \* the ERIOCINIT requests they make
          ZeroNodeId,   \* 00:00:00:00:00:00, the least identifier
          Spare,        \* the interfaces an operator may put on the bridge
          Traffic,      \* the frames that arrive
          MaxCallbacks, \* bound: the callbacks that run at a time
          MaxRings      \* bound: the rings allocated in a run

\* struct erreq, as far as ERIOCINIT reads it.  er_node_id is not there: it is
\* handed to er_ring_create, which does not look at it.
InitRequest == [ link             : [Port -> Interface],
                 rpl_port         : Port \cup {NoPort},
                 is_rpl_owner     : BOOLEAN,
                 is_rpl_neighbour : BOOLEAN,
                 is_revertive     : BOOLEAN ]

\* What may be on the wire: data, or what goes to the R-APS address.  The fields
\* have the widths of the header; an address of a node is one of NodeId.
WireFrame == [ kind : {"data"} ] \cup
             [ kind    : {"raps"},
               version : 0 .. 31,
               opcode  : 0 .. 255,
               request : 0 .. 15,
               flags   : SUBSET Flag,
               node_id : NodeId ]

NOPORT == 254           \* NM_BDG_NOPORT
None   == "none"        \* a null port

ASSUME KernelAssumption ==
    /\ Requests \subseteq InitRequest
    /\ ZeroNodeId \in NodeId /\ \A n \in NodeId : ZeroNodeId <= n
    /\ Traffic \subseteq WireFrame
    /\ Spare \subseteq Interface /\ None \notin Interface
    /\ MaxRings \in Nat /\ MaxCallbacks \in Nat

Slot   == 1 .. MaxRings
NoSlot == 0             \* the null struct er_ring *
NoFsm  == <<>>

VARIABLES er_global,    \* the ring that er_lookup_ring finds
          er_ring,      \* the memory of the rings
          index,        \* netmap: the number of an interface on the bridge
          ops,          \* netmap: er_netmap_on_recv is the bridge's callback
          caller,       \* what the callers of ioctl are doing
          rx,           \* the callback on each interface, the statements it has
                        \* still to execute and, as history, the ring it began
                        \* with, for as long as no other callback changes it
          module,       \* how far it is unloaded, and the ring that goes with it
          others,       \* interfaces put on the bridge by an operator
          upset         \* history: what makes a clean unload impossible

vars == <<er_global, er_ring, index, ops, caller, rx, module, others, upset>>

netmap == <<index, ops>>

Unused == [ mem  |-> "unused", active |-> FALSE, fsm |-> NoFsm,
            link |-> [p \in Port |-> None], idx |-> [p \in Port |-> NOPORT] ]

NoRequest == [ link |-> [p \in Port |-> None], rpl_port |-> NoPort,
               is_rpl_owner |-> FALSE, is_rpl_neighbour |-> FALSE,
               is_revertive |-> FALSE ]
NoFrame   == [kind |-> "none"]

NoCall == [step |-> "idle", slot |-> NoSlot, req |-> NoRequest]
NoRecv == [ step |-> "idle", slot |-> NoSlot, frame |-> NoFrame,
            new |-> "INIT", todo |-> <<>>, before |-> NoFsm ]

-----------------------------------------------------------------------------
(***************************************************************************)
(* R-APS frames.  A frame is data, or it goes to the R-APS address and has *)
(* the fields er_raps_encode writes; a tag that is missing moves the rest  *)
(* and every reader allows for it.                                         *)
(***************************************************************************)
RequestCode == [NR |-> 0, MS |-> 7, SF |-> 11, FS |-> 13]

er_raps_encode(raps, node_id) ==
    [ kind    |-> "raps",
      version |-> 2,
      opcode  |-> 40,
      request |-> RequestCode[raps.request],
      flags   |-> raps.flags,
      node_id |-> node_id ]

er_is_raps_frame(frame) == frame.kind = "raps"

Parses(frame) == /\ frame.version <= 2
                 /\ frame.opcode = 40
                 /\ \E q \in RapsRequest : RequestCode[q] = frame.request

\* The message in a frame that parses.
er_raps_parse(frame) ==
    [ request |-> CHOOSE q \in RapsRequest : RequestCode[q] = frame.request,
      flags   |-> frame.flags \cap {"DNF", "RB"},
      node_id |-> frame.node_id ]

er_is_local_raps_frame(r, frame) == frame.node_id = r.fsm.node_id

-----------------------------------------------------------------------------
(***************************************************************************)
(* The bridge.                                                             *)
(***************************************************************************)
Attached == { i \in Interface : index[i] # NOPORT }

\* A null pointer, freed memory or the code of a module that is gone was used.
\* The kernel may do worse than stop; nothing is said of what follows.
Panic == module' = [module EXCEPT !.step = "panicked"]

\* The ring and both its ports can be read.
Readable(s) == er_ring[s].mem = "live" /\ \A p \in Port : er_ring[s].link[p] # None

\* No callback holds the bridge.
Quiet == \A i \in Interface : rx[i].step = "idle"

\* The least number of the bridge that no interface has: 0, or it follows one in use.
\* A full bridge has none.
FreeIndex == { n \in {0} \cup { index[i] + 1 : i \in Interface } :
                   /\ n < NOPORT
                   /\ \A i \in Interface : index[i] # n
                   /\ \A m \in 0 .. n - 1 : \E i \in Interface : index[i] = m }

Attach(i, n) == index' = [index EXCEPT ![i] = n] /\ UNCHANGED ops

\* By name, whoever attached it.
Detach(i) == /\ index' = [index EXCEPT ![i] = NOPORT]
             /\ ops'   = (ops /\ Attached \ {i} # {})

-----------------------------------------------------------------------------
(***************************************************************************)
(* ERIOCINIT.                                                              *)
(***************************************************************************)

\* Broken: nobody looks.
RingExists_Never == FALSE

\* What er_lookup_ring answers, whatever id it is asked for.
RingExists == er_global # NoSlot

\* Broken: owner and neighbour need not name a port.
ValidRpl_NoPort(req) == ~(req.is_rpl_owner /\ req.is_rpl_neighbour)

\* At most one end of the RPL, and a port if and only if an end.
ValidRpl(req) ==
    /\ ~(req.is_rpl_owner /\ req.is_rpl_neighbour)
    /\ (req.rpl_port = NoPort) = ~(req.is_rpl_owner \/ req.is_rpl_neighbour)

\* Broken: the ring can be found before it is ready.
InitSteps_EarlyPublish ==
    << "alloc", "publish", "port0", "port1", "regops", "prepare",
       "configure", "activate", "idle" >>

InitSteps == << "alloc", "port0", "port1", "regops", "prepare", "publish",
                "configure", "activate", "idle" >>

NextStep(steps, step) ==
    steps[1 + CHOOSE k \in 1 .. Len(steps) - 1 : steps[k] = step]

Initialising(c) == caller[c].step \notin {"idle", "status"}

Goes(c, slot) ==
    caller' = [caller EXCEPT ![c].step = NextStep(InitSteps, @), ![c].slot = slot]

Returns(c) == caller' = [caller EXCEPT ![c] = NoCall]

At(c, step) == module.step # "panicked" /\ caller[c].step = step

\* The device is there until destroy_dev has returned.
DeviceExists == module.step # "gone"

\* Every INIT that is under way has a ring to allocate.
InitLookup(c, req) ==
    /\ DeviceExists /\ At(c, "idle")
    /\ ~RingExists /\ ValidRpl(req)
    /\ Cardinality({ d \in Caller : Initialising(d) /\ caller[d].slot = NoSlot })
         < Cardinality({ s \in Slot : er_ring[s].mem = "unused" })
    /\ caller' = [caller EXCEPT ![c] = [step |-> "alloc", slot |-> NoSlot, req |-> req]]
    /\ upset'  = IF module.step # "loaded" \/ \E d \in Caller : Initialising(d)
                 THEN upset \cup {"overlap"} ELSE upset
    /\ UNCHANGED <<er_global, er_ring, netmap, rx, module, others>>

\* er_global is looked at again, then er_ring_create allocates; er_malloc may fail.
AllocateRing(c) ==
    /\ At(c, "alloc")
    /\ \/ \E s \in Slot :
              /\ ~RingExists
              /\ er_ring[s].mem = "unused"
              /\ \A t \in 1 .. s - 1 : er_ring[t].mem # "unused"
              /\ er_ring' = [er_ring EXCEPT ![s].mem = "live"]
              /\ Goes(c, s)
       \/ Returns(c) /\ UNCHANGED er_ring
    /\ UNCHANGED <<er_global, netmap, rx, module, others, upset>>

\* Nothing can be said of what freed memory holds.
Freed(s) == [er_ring EXCEPT ![s] = [Unused EXCEPT !.mem = "freed"]]

\* er_ring_create's cleanup: the memory and nothing else.
GiveUp(c) == er_ring' = Freed(caller[c].slot) /\ Returns(c)

\* er_port_create.  Its cleanup detaches the interface by name, whatever went wrong,
\* but does nothing if there was no memory for the port.  The index is looked up
\* after attaching and stays NOPORT if that fails.
CreatePort(c, p) ==
    LET s == caller[c].slot
        i == caller[c].req.link[p]
    IN  /\ At(c, p)
        /\ \/ /\ Quiet /\ index[i] = NOPORT
              /\ \E n \in FreeIndex, known \in BOOLEAN :
                     /\ Attach(i, n)
                     /\ er_ring' = [er_ring EXCEPT ![s] =
                            [@ EXCEPT !.link[p] = i,
                                      !.idx[p] = IF known THEN n ELSE NOPORT]]
              /\ Goes(c, s)
              /\ UNCHANGED <<others, upset>>
           \/ /\ Quiet
              /\ Detach(i)
              /\ others' = others \ {i}
              /\ upset'  = IF p = "port1" \/ index[i] # NOPORT
                           THEN upset \cup {"failed"} ELSE upset
              /\ GiveUp(c)
           \/ /\ upset' = IF p = "port1" THEN upset \cup {"failed"} ELSE upset
              /\ GiveUp(c)
              /\ UNCHANGED <<netmap, others>>
        /\ UNCHANGED <<er_global, rx, module>>

\* er_netmap_regops: its error is ignored.
RegisterOps(c) ==
    /\ At(c, "regops") /\ Quiet
    /\ ops' \in {ops, Attached # {}}
    /\ Goes(c, caller[c].slot)
    /\ UNCHANGED <<er_global, er_ring, index, rx, module, others, upset>>

\* The ring as er_ring_create makes it: not revertive, version 0, and with the
\* node_id that er_malloc left.
CreatedRing(req) ==
    CreateRing([ node_id          |-> ZeroNodeId,
                 is_rpl_owner     |-> req.is_rpl_owner,
                 is_rpl_neighbour |-> req.is_rpl_neighbour,
                 rpl_port         |-> req.rpl_port,
                 is_revertive     |-> FALSE,
                 version          |-> 0 ])

\* The message, its buffer and row 01.  Without a buffer both ports stay attached;
\* without a message a null pointer is written through.
PrepareRing(c) ==
    LET s == caller[c].slot
    IN  /\ At(c, "prepare")
        /\ \/ /\ er_ring' = [er_ring EXCEPT ![s].fsm = CreatedRing(caller[c].req)]
              /\ Goes(c, s)
              /\ UNCHANGED upset
              /\ UNCHANGED module
           \/ GiveUp(c) /\ upset' = upset \cup {"failed"} /\ UNCHANGED module
           \/ Panic /\ UNCHANGED <<er_ring, caller, upset>>
        /\ UNCHANGED <<er_global, netmap, rx, others>>

PublishRing(c) ==
    /\ At(c, "publish")
    /\ er_global' = caller[c].slot
    /\ Goes(c, caller[c].slot)
    /\ UNCHANGED <<er_ring, netmap, rx, module, others, upset>>

\* INIT writes to the ring that it has published.
Writes(c, r) ==
    LET s == caller[c].slot
    IN  IF er_ring[s].mem = "live"
        THEN er_ring' = [er_ring EXCEPT ![s] = r] /\ UNCHANGED module
        ELSE Panic /\ UNCHANGED er_ring

\* Version and revertive operation come after row 01.
ConfigureRing(c) ==
    LET r == er_ring[caller[c].slot]
    IN  /\ At(c, "configure")
        /\ Writes(c, [r EXCEPT !.fsm.version = 2,
                               !.fsm.is_revertive = caller[c].req.is_revertive])
        /\ Goes(c, caller[c].slot)
        /\ UNCHANGED <<er_global, netmap, rx, others, upset>>

er_activate_ring(c) ==
    /\ At(c, "activate")
    /\ Writes(c, [er_ring[caller[c].slot] EXCEPT !.active = TRUE])
    /\ Returns(c)
    /\ UNCHANGED <<er_global, netmap, rx, others, upset>>

\* ERIOCSTATUS finds the ring, then reads it.
StatusLookup(c) ==
    /\ DeviceExists /\ At(c, "idle") /\ er_global # NoSlot
    /\ caller' = [caller EXCEPT ![c].step = "status", ![c].slot = er_global]
    /\ UNCHANGED <<er_global, er_ring, netmap, rx, module, others, upset>>

StatusRead(c) ==
    /\ At(c, "status")
    /\ Returns(c)
    /\ IF Readable(caller[c].slot) THEN UNCHANGED module ELSE Panic
    /\ UNCHANGED <<er_global, er_ring, netmap, rx, others, upset>>

-----------------------------------------------------------------------------
(***************************************************************************)
(* er_netmap_on_recv and er_forward_lookup.                                *)
(***************************************************************************)
Recv(i, step, slot, frame, todo) ==
    rx' = [rx EXCEPT ![i] = [NoRecv EXCEPT !.step = step, !.slot = slot,
                                           !.frame = frame, !.todo = todo]]

Drops(i) == rx' = [rx EXCEPT ![i] = NoRecv]

Handles(i, step) == module.step # "panicked" /\ rx[i].step = step

\* The null pointer if the interface is not a link of the ring.
RecvPort(r, i) == CASE r.idx["port0"] = index[i] -> "port0"
                    [] r.idx["port0"] # index[i] /\ r.idx["port1"] = index[i] -> "port1"
                    [] OTHER -> NoPort

\* netmap hands over a frame; the ring is looked up.
er_netmap_on_recv(i, frame) ==
    /\ ops /\ i \in Attached
    /\ Handles(i, "idle")
    /\ Cardinality({ j \in Interface : rx[j].step # "idle" }) < MaxCallbacks
    /\ IF DeviceExists
       THEN /\ er_global # NoSlot
            /\ Recv(i, "active?", er_global, frame, <<>>)
            /\ UNCHANGED module
       ELSE Panic /\ UNCHANGED rx
    /\ UNCHANGED <<er_global, er_ring, netmap, caller, others, upset>>

TestActive(i) ==
    LET s == rx[i].slot
    IN  /\ Handles(i, "active?")
        /\ IF er_ring[s].mem # "live" THEN Panic /\ UNCHANGED rx
           ELSE /\ IF er_ring[s].active THEN Recv(i, "lookup", s, rx[i].frame, <<>>)
                                        ELSE Drops(i)
                /\ UNCHANGED module
        /\ UNCHANGED <<er_global, er_ring, netmap, caller, others, upset>>

\* What becomes of a frame before the state machine has seen it: R-APS must come
\* from the other nodes over a link, data over a link that is open.
Refused(r, port, frame) ==
    IF er_is_raps_frame(frame)
    THEN port = NoPort \/ er_is_local_raps_frame(r, frame)
    ELSE port # NoPort /\ port \in r.fsm.blocked

\* Broken: the request is not remembered.
FrameSteps_Forgets ==
    << <<"guard?">>, <<"accept?">>, <<"filter?">>, <<"enter">>, <<"dupe?">>,
       <<"switch">>, <<"store">> >>

\* process_raps_frame, ring_process_request and the frame of ring_fsm.
FrameSteps ==
    << <<"guard?">>, <<"accept?">>, <<"filter?">>, <<"enter">>, <<"dupe?">>,
       <<"remember">>, <<"switch">>, <<"store">> >>

\* What arrived is processed if it is R-APS, then it is sent on.
er_forward_lookup(i) ==
    LET s     == rx[i].slot
        frame == rx[i].frame
    IN  /\ Handles(i, "lookup")
        /\ IF ~Readable(s) THEN Panic /\ UNCHANGED rx
           ELSE /\ CASE Refused(er_ring[s], RecvPort(er_ring[s], i), frame) -> Drops(i)
                     [] er_is_raps_frame(frame) -> Recv(i, "process", s, frame, FrameSteps)
                     [] OTHER -> Recv(i, "learn", s, frame, <<>>)
                /\ UNCHANGED module
        /\ UNCHANGED <<er_global, er_ring, netmap, caller, others, upset>>

Fsm(i)  == er_ring[rx[i].slot].fsm
Rest(i) == Tail(rx[i].todo)

NextIs(i, name) == Head(rx[i].todo)[1] = name

\* Callback i goes on with list todo and local value new; the ring becomes r.  The
\* frame is sent on when nothing is left to do.
Continue(i, new, todo, r) ==
    LET s    == rx[i].slot
        done == IF todo = <<>>
                THEN [NoRecv EXCEPT !.step = "relay", !.slot = s, !.frame = rx[i].frame]
                ELSE [rx[i] EXCEPT !.new = new, !.todo = todo]
    IN  /\ er_ring' = [er_ring EXCEPT ![s].fsm = r]
        /\ rx' = [j \in Interface |->
                     CASE j = i -> done
                       [] j # i /\ rx[j].slot = s /\ r # Fsm(i) ->
                              [rx[j] EXCEPT !.before = NoFsm]
                       [] OTHER -> rx[j]]

Advance(i, r) == Continue(i, rx[i].new, Rest(i), r)
Leave(i)      == Continue(i, rx[i].new, <<>>, Fsm(i))

TestGuard(i, expired) ==
    /\ NextIs(i, "guard?")
    /\ expired \/ "guard" \in Fsm(i).timers
    /\ CASE "guard" \notin Fsm(i).timers -> Advance(i, Fsm(i))
         [] "guard" \in Fsm(i).timers /\ expired ->
                Continue(i, rx[i].new, Stop("guard") \o Rest(i), Fsm(i))
         [] OTHER -> Leave(i)
    /\ UNCHANGED module

\* er_raps_create and er_raps_parse.  A frame that does not parse is sent on all the
\* same; one that does is written through the null pointer if there is no memory.
AcceptFrame(i) ==
    /\ NextIs(i, "accept?")
    /\ \/ /\ Parses(rx[i].frame)
          /\ er_ring' = er_ring
          /\ rx' = [rx EXCEPT ![i].todo = Rest(i), ![i].before = Fsm(i)]
          /\ UNCHANGED module
       \/ ~Parses(rx[i].frame) /\ Leave(i) /\ UNCHANGED module
       \/ Parses(rx[i].frame) /\ Panic /\ UNCHANGED <<er_ring, rx>>

RemoteReq(i) == RequestOf(er_raps_parse(rx[i].frame))

\* One assignment or condition of ring_process_request and ring_fsm.  The priority
\* logic is one step: the fields that it reads and writes for a remote request never
\* change in the kernel.  The buffer of er_raps_encode is left out: nothing sends it.
RunFsm(i) ==
    LET r    == Fsm(i)
        step == Head(rx[i].todo)
        node == rx[i].frame.node_id
        port == RecvPort(er_ring[rx[i].slot], i)
        row  == RowSteps(r, RemoteReq(i), port, node)
    IN  /\ \/ /\ NextIs(i, "filter?")
              /\ IF Accepted(r, RemoteReq(i))
                 THEN Advance(i, [r EXCEPT !.local_request = Retained(RemoteReq(i))])
                 ELSE Leave(i)
           \/ NextIs(i, "enter") /\ Continue(i, r.state, Rest(i), r)
           \/ /\ NextIs(i, "dupe?")
              /\ IF PrevOf(RemoteReq(i), port, node) = r.prev THEN Leave(i)
                                                              ELSE Advance(i, r)
           \/ /\ NextIs(i, "remember")
              /\ Advance(i, [r EXCEPT !.prev = PrevOf(RemoteReq(i), port, node)])
           \/ /\ NextIs(i, "switch")
              /\ Continue(i, IF row.new = "same" THEN rx[i].new ELSE row.new,
                          row.steps \o Rest(i), r)
           \/ NextIs(i, "store") /\ Advance(i, Enter(r, rx[i].new))
           \/ /\ step[1] \in Assignment \cup FrameStore \cup FrameLoad
              /\ Advance(i, IF step[1] \in Assignment THEN Assign(r, step) ELSE r)
           \/ /\ step[1] \in Condition
              /\ Continue(i, IF Decides(r, step) THEN step[2] ELSE rx[i].new,
                          Inserted(r, step) \o Rest(i), r)
        /\ UNCHANGED module

ProcessFrame(i) ==
    /\ Handles(i, "process")
    /\ IF ~Readable(rx[i].slot) THEN Panic /\ UNCHANGED <<er_ring, rx>>
       ELSE \/ \E expired \in BOOLEAN : TestGuard(i, expired)
            \/ AcceptFrame(i)
            \/ RunFsm(i)
    /\ UNCHANGED <<er_global, netmap, caller, others, upset>>

\* The index of the other port is returned as a bool, so that the port numbered 0
\* is never forwarded to.
Relays(r, port) == r.fsm.blocked = {} /\ r.idx[OtherPort(port)] # 0

RelayRaps(i) ==
    LET s == rx[i].slot
    IN  /\ Handles(i, "relay")
        /\ IF ~Readable(s) THEN Panic /\ UNCHANGED rx
           ELSE /\ IF Relays(er_ring[s], RecvPort(er_ring[s], i))
                   THEN Recv(i, "learn", s, rx[i].frame, <<>>) ELSE Drops(i)
                /\ UNCHANGED module
        /\ UNCHANGED <<er_global, er_ring, netmap, caller, others, upset>>

\* netmap: the learning switch sends a frame to one port it has learned or to all,
\* never back.
Learned(i) == Attached \ {i}

Learn(i) == /\ Handles(i, "learn")
            /\ Drops(i)
            /\ UNCHANGED <<er_global, er_ring, netmap, caller, module, others, upset>>

-----------------------------------------------------------------------------
(***************************************************************************)
(* MOD_UNLOAD: the rings go first, the device last.                        *)
(***************************************************************************)

\* Broken: the ring stays active.
UnloadSteps_StillActive == << "port0", "port1", "free", "forget", "device", "gone" >>

\* Broken: one port is forgotten.
UnloadSteps_OnePort == << "deactivate", "port0", "free", "forget", "device", "gone" >>

UnloadSteps == << "deactivate", "port0", "port1", "free", "forget", "device", "gone" >>

NextUnload == module' = [module EXCEPT !.step = NextStep(UnloadSteps, @)]

Unload ==
    /\ module.step = "loaded"
    /\ module' = [ step |-> IF er_global # NoSlot THEN Head(UnloadSteps) ELSE "device",
                   slot |-> er_global ]
    /\ upset'  = IF \E c \in Caller : Initialising(c) THEN upset \cup {"overlap"}
                                                     ELSE upset
    /\ UNCHANGED <<er_global, er_ring, netmap, caller, rx, others>>

er_deactivate_ring ==
    /\ module.step = "deactivate"
    /\ er_ring' = [er_ring EXCEPT ![module.slot].active = FALSE]
    /\ NextUnload
    /\ UNCHANGED <<er_global, netmap, caller, rx, others, upset>>

\* er_port_destroy detaches the interface, then frees the port.
er_port_destroy(p) ==
    LET i == er_ring[module.slot].link[p]
    IN  /\ module.step = p /\ Quiet
        /\ Detach(i)
        /\ others'  = others \ {i}
        /\ er_ring' = [er_ring EXCEPT ![module.slot].link[p] = None]
        /\ NextUnload
        /\ UNCHANGED <<er_global, caller, rx, upset>>

FreeRing ==
    /\ module.step = "free"
    /\ er_ring' = Freed(module.slot)
    /\ NextUnload
    /\ UNCHANGED <<er_global, netmap, caller, rx, others, upset>>

ForgetRing ==
    /\ module.step = "forget"
    /\ er_global' = NoSlot
    /\ NextUnload
    /\ UNCHANGED <<er_ring, netmap, caller, rx, others, upset>>

\* destroy_dev waits for the threads that are in the driver.
DestroyDevice ==
    /\ module.step = "device"
    /\ \A c \in Caller : At(c, "idle")
    /\ NextUnload
    /\ UNCHANGED <<er_global, er_ring, netmap, caller, rx, others, upset>>

-----------------------------------------------------------------------------
\* An operator puts another interface on the bridge.
AttachOther(i) ==
    /\ module.step # "panicked"
    /\ index[i] = NOPORT /\ Quiet
    /\ \E n \in FreeIndex : Attach(i, n)
    /\ others' = others \cup {i}
    /\ UNCHANGED <<er_global, er_ring, caller, rx, module, upset>>

\* er_module_init
Init == /\ er_global = NoSlot
        /\ er_ring = [s \in Slot |-> Unused]
        /\ index   = [i \in Interface |-> NOPORT]
        /\ ops     = FALSE
        /\ caller  = [c \in Caller |-> NoCall]
        /\ rx      = [i \in Interface |-> NoRecv]
        /\ module  = [step |-> "loaded", slot |-> NoSlot]
        /\ others  = {}
        /\ upset   = {}

Ioctl(c) == \/ \E req \in Requests : InitLookup(c, req)
            \/ AllocateRing(c)
            \/ \E p \in Port : CreatePort(c, p)
            \/ RegisterOps(c)
            \/ PrepareRing(c)
            \/ PublishRing(c)
            \/ ConfigureRing(c)
            \/ er_activate_ring(c)
            \/ StatusLookup(c)
            \/ StatusRead(c)

Callback(i) == \/ \E frame \in Traffic : er_netmap_on_recv(i, frame)
               \/ TestActive(i)
               \/ er_forward_lookup(i)
               \/ ProcessFrame(i)
               \/ RelayRaps(i)
               \/ Learn(i)

Unloading == \/ Unload
             \/ er_deactivate_ring
             \/ \E p \in Port : er_port_destroy(p)
             \/ FreeRing
             \/ ForgetRing
             \/ DestroyDevice

Next == \/ \E c \in Caller : Ioctl(c)
        \/ \E i \in Interface : Callback(i)
        \/ \E i \in Spare : AttachOther(i)
        \/ Unloading

Spec == Init /\ [][Next]_vars

-----------------------------------------------------------------------------
(***************************************************************************)
(* What the kernel module promises.                                        *)
(***************************************************************************)

\* Every variable stays in its type; a ring that is freed is not active.
TypeOK ==
    /\ er_global \in Slot \cup {NoSlot}
    /\ \A s \in Slot :
           /\ er_ring[s].mem \in {"unused", "live", "freed"}
           /\ er_ring[s].active \in BOOLEAN
           /\ er_ring[s].active => er_ring[s].mem = "live"
           /\ er_ring[s].fsm \in Ring \cup {NoFsm}
           /\ er_ring[s].link \in [Port -> Interface \cup {None}]
           /\ er_ring[s].idx \in [Port -> 0 .. NOPORT]
    /\ index \in [Interface -> 0 .. NOPORT]
    /\ ops => Attached # {}
    /\ others \subseteq Attached

\* A ring that can be found can be used: until it is taken down, whoever looks it
\* up (ERIOCSTATUS, a callback) finds both ports, a state machine out of INIT and
\* an RPL if and only if the node is an end of it, also while ERIOCINIT is still
\* configuring it.
PublishedRingIsWhole ==
    module.step = "loaded" /\ er_global # NoSlot =>
        LET r == er_ring[er_global]
        IN  /\ Readable(er_global)
            /\ r.fsm # NoFsm /\ r.fsm.state # "INIT"
            /\ (r.fsm.rpl_port = NoPort) = ~(r.fsm.is_rpl_owner \/ r.fsm.is_rpl_neighbour)

\* No lock protects the ring from the callbacks: what does is the order of
\* er_ring_destroy (inactive first, then each port detached before it is freed,
\* the ring last).  An interface that an operator added gets as far as the test of
\* active on a freed ring; a link of the ring does not.
LinkCallbackIsSafe ==
    upset = {} =>
        \A i \in Interface :
            /\ rx[i].step \in {"lookup", "process", "relay"} => Readable(rx[i].slot)
            /\ rx[i].step # "idle" /\ i \notin others => er_ring[rx[i].slot].mem = "live"

\* Whatever INITs are asked for and however they fail, none detaches a link of
\* the ring that is up, although the cleanup of er_port_create detaches by name.
\* Two INITs at once are the exception.
RingKeepsItsLinks ==
    "overlap" \notin upset /\ module.step = "loaded" /\ er_global # NoSlot =>
        \A p \in Port : er_ring[er_global].link[p] \in Attached

\* Unloading leaves neither a ring nor a link behind, if no INIT has failed
\* half-way and none was under way.
CleanUnload ==
    module.step = "gone" /\ upset = {} =>
        /\ Attached \subseteq others
        /\ \A s \in Slot : er_ring[s].mem # "live"

\* The port that row 01 blocks.
HomePort(r) == IF r.rpl_port = NoPort THEN "port0" ELSE r.rpl_port

\* Whatever rows of whatever messages interleave, statement by statement, a ring that
\* can be found is never cut off, not for one step: one port at most is blocked, and
\* it is the one that row 01 blocked.
NeverCutOff ==
    module.step = "loaded" /\ er_global # NoSlot =>
        er_ring[er_global].fsm.blocked \subseteq {HomePort(er_ring[er_global].fsm)}

\* A frame that is processed while no other callback changes the ring has the effect
\* of RingFSM's ProcessRequest, which is what the daemon's runs and theorems are about.
UndisturbedFrameIsAtomic ==
    [][\A i \in Interface :
           rx[i].step = "process" /\ rx[i].before # NoFsm /\ rx'[i].step = "relay" =>
               er_ring'[rx[i].slot].fsm =
                   ProcessRequest(rx[i].before, RemoteReq(i),
                                  RecvPort(er_ring[rx[i].slot], i),
                                  rx[i].frame.node_id)]_vars

=============================================================================
