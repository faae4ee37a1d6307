# ERPS: a verification project

ERPS is an implementation of Ethernet Ring Protection Switching (ITU-T
G.8032): nodes joined in a ring keep one link of it blocked, the ring
protection link (RPL), and move the block to wherever a link fails or an
operator wants it. The repository holds a FreeBSD kernel module
(`src/sys/dev/erps`) and a userspace daemon with the same control process
(`extras/sim`). This directory models the control process, one daemon, the two
threads of a daemon, a ring of daemons and the kernel module in TLA+, checks
them with TLC, and proves safety properties of each of them with TLAPS. Paths
below are those of the repository.

## Inventory

| part | state | operations | properties that make it correct |
|---|---|---|---|
| ERP control process (`er_ring.c`, twin: `extras/sim/ring.c`) | `struct er_ring`: state of table 10-2, `local_request`, last accepted request, blocked and failed ports, three timers, the announced message | `ring_fsm` (rows 01 to 71), `ring_process_request` (filters, priority), `process_raps_frame` (guard timer, mapping), creation | what is retained is in force; no announcement or timer outlives its state; a node never cuts itself off; a forced switch yields to CLEAR only |
| ringd (`extras/sim/ringd.c`, `ring_io.c`) | the ring, the frame buffer, the libev watchers, the command socket's thread | `port_cb`, `ring_timer_cb`, `send_raps_cb`, `rio_client` | the process does not end by itself; the owner that waits to restore does restore; a call the other thread leaves alone is atomic |
| the ring (`port_cb`'s forwarding, `ring_send_raps`, `ring_port.c`) | frames on the links | sending on both ports, forwarding | always cut somewhere; who announces has a block; no message acts when nobody stands for it any more; open everywhere but at the RPL once idle; settles; reopens after failures |
| R-APS frames (`er_raps.c`, `ring_raps.c`) | the daemon's buffer | encode, parse | no half-written frame from a call that is left alone |
| command channel (`ring-ctl.c`, `ring_io.c`) | socket, descriptor set | connect, 5 bytes of an 8-byte request, dispatch | a command acts on the port it names or on none |
| kernel life cycle (`erps.c`, create and destroy in `er_ring.c`) | `er_global`, `active` | ioctl INIT/STATUS/COMMAND, module load and unload | a ring that can be found is whole; it keeps its links; unloading leaves nothing behind |
| kernel receive path (`er_netmap.c`, `er_forward_lookup`) | none of its own | per-frame callback, on both links at once | nobody uses a ring after it is freed; the rows of two callbacks never cut the node off; blocked ports drop |
| time (`tick.c`, `TICK_DIFF_MSEC`) | tick counts | difference | not modelled |
| `erps-ctl`, benchmarks, patches | none | argument parsing | not modelled |

**Interactions.** Frames reach the control process through `port_cb` (daemon) or
`er_netmap_on_recv` (kernel). Expiries come from a one-second poll, commands from
a second thread. The control process answers by setting the port flags the
forwarding reads and the message `send_raps_cb` repeats. In the kernel module the
sending, the timers and the commands are commented out: frames and ioctls are its
only input. So the control process is modelled once and composed twice: the way
the daemon composes it, where the protocol is, and inside the life cycle of the
kernel module, where the freed memory is. The copies differ in one branch that
matters: on an impossible duplicate the kernel logs and returns, the daemon calls
`die()`. Messages never are impossible duplicates, so that the kernel, which has
no other requests, does not reach it.

**What is hard.** Handing the block from node to node over messages that get
lost, delayed and outdated (only the guard timer separates old from new); the
priority logic that retains a request before the state machine has decided what
it does; deduplication by the last accepted request; expiries that race with
messages and commands; two threads, and in the kernel two callbacks, on one ring
without a lock; destruction of a ring that the
datapath still uses; creation that fails half-way. `PROJECT.json` lists these
hazards at their lines, each with the properties that watch it or the reason why
none does.

## Modules

| module | models | extends |
|---|---|---|
| `RingFSM` | `ring_fsm`, `ring_process_request`, `process_raps_frame`, `ring_create` as operators from a ring record to the ring record the call leaves; no variables | |
| `RingSteps` | the rows of `ring_fsm` again, as lists of assignments and conditions, and what each does to a ring record; no variables | `RingFSM` |
| `Ringd` | one daemon in an open environment: `ring`, `alive`; one action per callback and per command; the daemon's properties | `RingFSM` |
| `RingNet` | daemons joined by links: `node`, `up`, `chan`, `elapsed`, `menu`, `commands`; history `late`; the ring's properties, and `Ringd` as what every node implements | `RingFSM`, instantiates `Ringd` |
| `RingdThreads` | the two threads of a daemon, one assignment or condition at a time: `ring`, `raps_frame`, `call`, `made`; histories `before` and `row45`; and that a call nobody disturbs is the atomic call of `RingFSM` | `RingSteps` |
| `ErpsKernel` | `erps.ko`: ioctls, ring memory, bridge, callbacks statement by statement, unloading | `RingSteps` |
| `RingdClaims`, `RingNetClaims`, `RingdThreadsClaims`, `ErpsKernelClaims` | what comments and log messages say and the code does not do | |
| `MC` followed by the name of a module above | the instances TLC checks; `MCErpsKernelCallbacks` is a second one of `ErpsKernel` | |
| `RingFSMEffects` | lemmas: the fields each helper and each row may change | `RingFSM` |
| `RingFSMProofs` | `Sound`, and that every row, the priority logic and creation keep it | `RingFSMEffects` |
| `RingFSMPromises` | lemmas: what no call changes (identity, roles, which flags are announced), that the owner in IDLE keeps its block, who gives way to what, and that who goes on announcing keeps a block | `RingFSMProofs` |
| `RingdProofs` | the theorems about the daemon | `Ringd`, `RingFSMProofs` |
| `RingNetProofs` | the theorems about the ring | `RingNet`, `RingFSMPromises` |
| `RingdThreadsProofs` | the theorems about what the two threads keep, however they race | `RingdThreads`, `RingFSMProofs` |
| `RingdThreadsAtomic` | that the statement lists come to the rows of `RingFSM`, and the theorem that an undisturbed call is atomic | `RingdThreadsProofs` |
| `ErpsKernelProofs` | the theorems about the kernel module | `ErpsKernel`, `RingFSMProofs` |

**State.** The record `Ring` is `struct er_ring` without what the control process
never reads. The two ports' `is_blocked` flags are the set `blocked`, their
`is_failed` flags the set `failed`, the three `*_timer_active` flags the set
`timers`; `prev` is `prev_request` with the argument that the deduplication
compares for that request, and nothing in the place of the one it does not.
`raps` and `bursts_remain` are the announced message.

**Actions.** An operator of `RingFSM` is the whole call. The rows that the code
spells out again and again (block, announce, open the other port) are one
operator, `Isolate`; rows that do nothing fall under `OTHER`. Requests that no
code ever raises (`WTB_RUNNING`, `WTR_RUNNING`, `WTB_EXPIRES`) keep their number
and their row but no action raises them. `RingSteps` has the rows a second
time, as lists of statements in the order of the code, for the two modules in
which calls overlap; `UndisturbedCallIsAtomic` and `UndisturbedFrameIsAtomic` are
what ties the two together.

**Data.** A node_id is a natural number, `memcmp` is `<`. A frame is its request,
flags and node_id; `ErpsKernel` adds what decides whether it parses. `flush_fdb`
only logs and is left out. `version` is a field of the model because the filter
reads it; the daemon never sets it, so `RingdConfig` fixes it at 0, and
`is_revertive` at TRUE, as `ring_create` does.

**The variants.** A definition marked "Broken" is the definition below it with a
plausible slip. No module uses one; they are substituted, one at a time, to see
that a property notices.

## One daemon: `Ringd`

The environment is open: any frame of another node may arrive on either port at
any time, and any command be given. An action is one whole callback or command.
The daemon really runs the commands in a thread of their own and takes no lock
(`ring_io.c:117`); the model takes the two threads to enter
`ring_process_request` one after the other, and `RingdThreads` is about the
races.

The run `ringd` checks nine invariants, two action properties and one liveness
property of `FairSpec`.

*Bounds.* There is no bound on the length of a behaviour: the state space of one
daemon is finite. Three identifiers let a node have a lower and a higher remote
node, and two remote nodes that are not each other's duplicate; the control
process compares identifiers and does nothing else with them.

*What one daemon cannot promise.* An owner that hears another node's NR,RB goes to
IDLE (row 70) without blocking anything. That the owner in IDLE blocks the RPL is
therefore a property of the ring (`OwnerIdleHoldsRpl`): it has one owner, and
`port_cb` drops the owner's own frames.

*Fairness.* `WF(WtrExpires)` and `WF(SendRaps)`: libev repeats both timers for as
long as the process lives, so a timer that stays active is found expired. No
fairness is given to messages or commands. `WtrReverts` needs nothing more: the
expiry is never refused by the priority logic, because a daemon that waits to
restore retains no request.

*Deadlock* is not checked: a process that has called `die()` takes no step.

## A ring of daemons: `RingNet`

Each link direction holds at most one frame; each frame may be lost at sending
(the set `delivered`) or at forwarding (the disjunct of `ReceiveRaps` that only
takes the frame), and a frame is forwarded from whatever port it came in on, as
`port_cb` does. `bursts_remain` is left alone: it sets the pace of sending, and
when a daemon sends is left open altogether.

*Time.* The guard time passes only when no frame is in flight (`Quiet`): a frame
crosses a link, or a small ring, in far less than 500 ms. How long a daemon takes
to *send* is not restricted. The assumption is needed: with a guard time that may
pass while a frame is in flight, two manual switches at two nodes open the ring's
last block. It is also all that is needed. In most runs commands, and the expiry
of the wait-to-restore timer (15 s), wait for `Quiet` too; that is a bound,
`Unhurried`, which keeps the state spaces small. `ring_hasty` does without, and so
do the theorems. A guard time that passes late makes a node deaf too long, so it
matters when one starts: `GuardRestarted` says so by what the rows that start it
do, and a change of the ring for another reason leaves an elapsed guard time
elapsed.

*Commands.* All five are given at any node and on any port: like `rio_client`, the
model does not ask whether a port that fails or recovers has failed before. A
behaviour draws its commands from one member of `Menus`, chosen in the initial
state and kept in `menu`, and has at most `MaxCommands[menu]` of them.

| run | instance | shows |
|---|---|---|
| `ring_handover` | 3 nodes, owner 3, two forced switches or clears, two failures, or one manual switch | `LoopFree`, `FramesAreBacked`, `IdleRingIsOpen` |
| `ring_hasty` | 2 nodes, owner 1, two commands of any kind or three forced switches and clears, not `Unhurried` | `TypeOK`, `LoopFree`, `AnnouncerHoldsBlock`, `FramesAreBacked`, `OwnerIdleHoldsRpl`; `EveryNodeIsRingd`: refinement of `Ringd` at each node |
| `ring_reopens` | 2 nodes, owner 1, fail and recover, 4 commands, `FairSpec` | `Reopens`, `Settles` |

*Why these bounds.* In a ring of three every link has a node on either side and one
node is not an end of the RPL: it takes three for the owner, the neighbour and a
node that is neither to meet. The owner is the greatest node in `ring_handover` and
the least in the two others, so that the comparison of node_ids falls out both ways.
Two commands are enough for a switch and its end, two failures, or two switches at
two nodes; they may be given at the same node or at two, early or late, with any
frames of the first still unsent. In the ring of two every kind of command can meet
every other, two manual switches among them. A forced switch and two CLEARs, which
end a daemon, need three. Two failures and their two recoveries need four, again in
the ring of two. The safety properties of these runs are proved for rings of every
size and any number of commands, so that the runs are there to find out what holds,
and to see that the properties notice a slip. No symmetry is used: node_ids are
ordered.

*Fairness.* `[]<>Quiet`: the frames in flight are delivered or lost between two
transmissions five seconds apart. Strong fairness of `SendRaps(n, Port)`: a daemon
that goes on announcing gets a frame onto both its links now and then.
`GuardElapses` and `WtrExpires`: time passes. Commands have none.

*What does not hold.* Loop freedom after a recovery that comes late. Row 20 starts
the guard timer and announces NR when CLEAR_SF reaches a node in PROTECTION
(`ring.c:372`) and does not look whether the node has a port blocked. In a ring
where both ports of node A fail, then one of B's, a first recovery takes A to
PENDING, B's SF makes A open its ports and enter PROTECTION (silent), and the
second recovery makes A announce NR with nothing blocked; once B has recovered too
and gives way to A's NR, its node_id being the lower one, nobody cuts the ring.
The same happens when CLEAR_SF is accepted under a manual
switch, which drops the switch's retention and keeps its announcement, so that
later messages find it unprotected. No command is illegal in any of this. The one
text that says what a recovery may find is the comment on the retained request,
"if nothing is failed", with "TODO: check port state!" below it (`ring.c:951-952`):
neither port is looked at, and the second line says as much. Of row 20 and its
blocks no text speaks. `late` is the history that remembers such a recovery;
`LoopFree`, `AnnouncerHoldsBlock` and `FramesAreBacked` are stated short of it.

"Once everything works, every node is in IDLE again" is
false. A node in PROTECTION that hears NR,RB goes to PENDING (row 28) and ignores
every repetition of it as a duplicate (`er_ring.c:175`): it stays in PENDING.
`Reopens` is what remains true: the ring is connected, and cut at the RPL only.
`Settles` is about a ring that no command ever touches: there every node does end
up in IDLE.

*Deadlock* is not checked: the commands run out.

## Two threads: `RingdThreads`

The libev loop runs `port_cb`, `ring_timer_cb` and `send_raps_cb`; `rio_worker`
runs the commands; both call `ring_process_request` on the one `struct ring`
(`ring_io.c:117`). A call is a list of steps still to do: an assignment, a
condition that puts further steps in front of the list, a return. `RowSteps` (of
`RingSteps`) is `ring_fsm` as such lists, in the order of the code, and `ProcessSteps` the
function around it: the filter, the retained request (dropped, then written), the
state read on entry, the deduplication, the row, and the state stored last.

*Grain.* One assignment or one condition is one step, and memory is sequentially
consistent: a compiler or a processor could reorder more. The three `prev_*`
assignments are one step, so is a condition that reads several fields, and so is
the sending of the buffer. Forwarding reads one flag and is left to `RingNet`.
The increments of `raps_bursts_remain` are a load and a store.

*The request of ring-ctl* is a struct of eight bytes: `cmd`, three bytes of padding
and the int `param`. `rio_client` receives five and copies them over a struct on
its stack (`ring_io.c:78`), so that the low byte of `param` is the code that was
sent and the three above are what the stack held. `ParamOf` puts the int together
from the two, `stack` being the value of the upper three bytes (-1 if they are all
ones), and `PortOfParam` compares the whole int with the two codes, as the code
does. If neither matches, the port stays null and the command dereferences it
(`CrashOnNullPort`).

*Bounds* of the run `threads`: two calls of the loop and one of the worker
(`Calls`), from any configuration with the RPL at `port0`; `Stack` is -1, 0 or 1;
the daemon starts when the bursts of its first message are over. Two calls let the
first bring the ring into a state from which the second races with the command;
every interleaving of a command with a message, an expiry or a transmission is among
them. Two commands never overlap: the worker serves one request at a time.

*What is shown.* `UndisturbedCallIsAtomic`: a call during which the other thread
changes nothing does what `RingFSM` has it do in one step, and leaves in the
buffer the message it announces. This checks the statement lists against the
operators of `RingFSM` for every row that two calls can reach; the theorem below
does so for every row. `before` is the
history it needs: the ring with which a call began, until the other thread
changes the ring or the buffer. `RestIsNotIsolated`: when both threads are at rest
a port is open, even if their calls have disturbed each other, because every row
that blocks a port opens the other one after it. Row 45 is the exception: it adds
a block in FORCED_SWITCH and opens nothing. In one thread it is reached only in a
switch that another node holds, with both ports open (`RemoteForcedSwitch`); with
two that is not sure. `row45` is the history that remembers it.
`TypeOK` says, beyond the types, that the counter of bursts survives the
lost update: the worker only refills it. `CommandOnNamedPort`: whatever is in the
upper bytes, no statement that the worker executes for a command blocks a port
other than the one the operator named, opens the named one, or changes the other's
failed flag. That the command is executed at all cannot be said: unless the three bytes that
are not received happen to be zero, `port` is null and the daemon ends.

*What does not survive.* Two threads do not keep `Ringd`'s `ForcedSwitchInForce`:
`claim_retained` is the run that shows it. Nor do they keep `NeverIsolated`: with
three calls of the loop (R-APS FS, then NR, then NR,RB) against one forced switch
that takes row 45, both ports stay blocked.

*Deadlock* is not checked: the calls are counted and the process may die.

## The kernel module: `ErpsKernel`

A caller of ERIOCINIT walks through `InitSteps`: allocate, create each port
(attach its interface to the bridge, look up its index), register the callback,
encode the first message and execute row 01, publish in `er_global`, configure,
activate. Each may fail where the code has a failure branch, with the cleanup that
the code has there: `er_port_create` detaches the interface by name, unless it had
no memory for the port. ERIOCSTATUS looks the ring up and then reads it. A callback
looks it up, tests `active`, drops the frame or processes it, and for R-APS tests
both ports for a block before the learning switch sends the frame on. Unloading
walks through `UnloadSteps`. Callers, callbacks and the unload take turns at every
such step: the device is not under Giant and nothing is under a lock.

*Callbacks on both links.* The bridge lock is held by readers together, and the
ring has no lock, so that two callbacks may be in the middle of two rows. Like a call
of `RingdThreads`, a callback has a list of statements still to do (`todo`): the test
of the guard timer, the record of the message (`er_raps_create` may return null,
which `er_raps_parse` writes through: `AcceptFrame`'s third disjunct), the priority
logic, the state read on entry (`new`), the deduplication, the row of `RingSteps`,
the state stored last. The priority logic is one step, because in the kernel module
nothing it reads changes. One interface has one callback at a time. The buffer of
the announced message is left out: nothing sends it.

*What two callbacks do.* The neighbour of the RPL may hear NR,RB on one port and MS
on the other. Row 70 blocks its end of the RPL, row 64 opens both ports, and the
state stored last is either's: the node may be in IDLE with both ports open. The
guard timer, which a message alone never starts in the kernel, is started when a
row 36 that found the state MANUAL_SWITCH sees a block that another callback's row 70
has just made. No text of the module excludes either. What no interleaving does
is `NeverCutOff`: the only port that a message blocks is the neighbour's end of the
RPL, which is also the port that row 01 blocked, so that the ring never has both
ports blocked, not even between two statements. `UndisturbedFrameIsAtomic` says
that the statements, executed without interference, make the `ProcessRequest` of
`RingFSM`; `before` is its history.

*What is external.* netmap is modelled from how the module uses it: an interface
is attached once at most, a bridge gives the lowest free number and forgets its
callback with its last port, and callbacks hold the bridge while they run, so that
attaching and detaching wait for them (`Quiet`). `destroy_dev` waits for the
threads in the driver. The build is the Makefile's, without `FBSD12`.

*What ends a behaviour.* The use of a null pointer, of freed memory or of a module
that is gone is `Panic`, after which nothing is claimed. `LinkCallbackIsSafe` says
for which callbacks it cannot happen. `upset` is a history variable: two INITs, or
an INIT and the unload, have overlapped, or an INIT has failed half-way. The
properties that the code keeps only without one of these say so by it, which
states both what the code promises and when it stops promising.

*What the kernel does not do.* It never stores the node_id it is asked for
(`ZeroNodeId`), so every node takes itself for the least. It configures the ring
after row 01 has run, so that a revertive owner starts no timer; nothing polls the
timers anyway. Both are in the model and neither is a property: nothing in the
sources says what a node should do instead.

*Bounds* of the run `kernel`: three interfaces, so that two requests may share one
and an operator may add one; three requests, one of them refused; two callers
(which are symmetric); two rings in the life of the module, so that an INIT may
follow a failed one or overlap another; one callback at a time on the whole
bridge (`MaxCallbacks`), interleaved with everything else. The traffic is data, a
message of another node and a frame that does not parse. The run
`kernel_callbacks` is about two callbacks: two interfaces, one caller, one ring, the
neighbour of the RPL, and three messages of another node (NR,RB, which blocks; FS,
which opens everything; MS, whose row 36 looks at what is blocked), each on either
port any number of times. The bridge numbers its ports below
`NOPORT`, as netmap does, so that a full bridge refuses an interface; three
interfaces never fill it, the theorems are about any number.

*Deadlock* is not checked: an unloaded or panicked module does nothing.

## Disagreements between the sources and the code

Five runs expect a violation; each checks one statement of a comment or a log
message (`findings` in `PROJECT.json` quotes them).

| run | the source says | the code does |
|---|---|---|
| `claim_no_duplicate` | a duplicate CLEAR is "impossible" (`ring.c:170`) | the owner's second CLEAR after a switch ends the daemon |
| `claim_wtb` | reversion "either via WTR, WTB or manually" (`ring.c:936`) | nothing polls the WTB timer |
| `claim_forward` | forwarded "if not blocked" (`ringd.c:160`) | the port of reception is tested, not the one the frame leaves by |
| `claim_retained` | CLEAR is admitted "in MS or FS state, caused by local request" (`ring.c:932`) | a message's row that ends after a forced switch has run stores its own state over FORCED_SWITCH (`ring.c:804`) |
| `claim_blocked` | the destination is "blocked via VALE and NAF_SW_ONLY flag" (`er_ring.c:1242`) | nothing sets the flag: data leaves over the blocked port |

## Proofs

### One daemon

`RingdProofs` proves, for every set of node identifiers and every configuration,
all nine invariants and both action properties of the run `ringd`. The only
assumption is `NodeIdAssumption`: identifiers are naturals other than the null
one.

*The inductive invariant* is `IInv`: `Sound(ring)`, `alive` is Boolean, and
`OnlyClearKills`. `Sound` is the type of the record and these parts:

- `Configured`: the roles are those of a `Config`, so an end of the RPL has an RPL
  port;
- `blocked # Port`;
- `RetainedIsLast`: `local_request` is the request accepted last, or none. This is
  the part the others hang on. `ring_process_request` retains and `ring_fsm`
  remembers in the same call, so the priority logic measures a new request
  against the request whose row was executed last. A duplicate keeps it too:
  it is equal to the last request;
- `StateOfRetained`: the state is never INIT, and IDLE and PENDING retain nothing.
  Without it a retained FS or SF could find the node in a state whose row for
  the next message opens its ports;
- `ForcedPart`, `FailPart`, `TimerPart`, `AnnouncePart`, `IdlePart`: the invariants
  of `Ringd`, the first three strengthened. `TimerPart` adds that while the
  wait-to-restore timer runs, WTR_EXPIRES is not the last request: that is why the
  expiry is never the "impossible duplicate".

*Argument.* `RingFSMEffects` states for each helper which fields it may change, so
that no proof about a row opens a record update. `RingFSMProofs` shows that each
state's rows keep `Sound`, one step per row; then `RingFsm`, `ProcessRequest`,
`ProcessRaps`, creation and the expiry. `RingdProofs` lifts this to the actions of
`Ringd`. The action properties follow from `IInv` and two lemmas that say which
requests get past a retained FS or SF and what their rows do.

### The ring

`RingNetProofs` proves every safety property of the ring runs (`LoopFree`,
`AnnouncerHoldsBlock`, `FramesAreBacked`, `OwnerIdleHoldsRpl`, `IdleRingIsOpen`,
`TypeOK`) and the refinement `EveryNodeIsRingd`, for every number of nodes, every
way of joining them, every owner, every menu and any number of commands, hurried or
not. The assumptions are `NodeIdAssumption` and `RingAssumption`: a link joins two
ports, the RPL joins two nodes. Every step may lose frames, so the theorems do not
depend on delivery. Of the guards named `Quiet` the proofs use one: the guard time
does not pass while a frame is in flight.

*The inductive invariant of roles*, `IInv` again, says of every node (`InPlace`) that it is
`Sound`, that its identity and its roles are those it was started with, that it
announces no flags but DNF and RB, and that the owner in IDLE blocks its end of
the RPL (`HoldsRpl`); and of every frame on a link (`Links`) that it says "RPL
blocked" only if it is the owner's. The last is what `HoldsRpl` hangs on: row 70
takes an owner that hears NR,RB to IDLE without a block. Only the owner announces
RB (`AnnouncePart` of `Sound`), and `port_cb` drops the frames a node sent itself.

*The refinement.* `Daemon(n)` is `Ringd` with `node[n]` and `n \in up` for its
state, and has its own copy of every operator of `RingFSM`; the lemmas named
`Same...` say that the copies are equal. Then each action of the ring is, at the
node that takes it, the action of `Ringd` with the same name, and a stutter at the
others. With `EveryNodeIsRingd` every theorem about `Ringd` is one about every node
of every ring.

*The inductive invariant of the block*, `BlockInv`, is inductive together with
`IInv`. Short of a late recovery it says three things:

- every node is `Backed`: if it announces, it has a port blocked, and it announces
  what its state stands for. `Sound` says so of forced switches and signal
  failures; that a manual switch is still retained, and that NR comes from PENDING
  and NR,RB from IDLE, is new;
- while all daemons run, some node announces. With the first part this is
  `LoopFree`; a daemon that has died passes nothing on;
- every frame in flight is backed (`FramesIn`): some node announces and does not
  open its ports for this frame, because it is deaf or stands for at least as much.

The first two are not inductive by themselves. A node falls silent on the strength
of a frame, and the node that sent it may have cleared its switch and be silent
too, or be about to give way to the first. The third part is what excludes this.

*Argument.* `RingFSMPromises` looks at one node. Its `Contest` says of every row and
every request what becomes of a node that announces: it stands by it (it goes on
announcing something at least as strong, in the order of `Standing`), or it
restarts (it enters PENDING with the guard timer running: a switch has ended), or
it has been overruled by a message that is stronger than what it stood for. The
lemmas of `RingNetProofs` then go through the ring. A node that is not overruled
backs what it backed: by `StandingIsNotWeaker`, or because it is deaf from then on
(`BackingStays`). If it has been overruled by a frame, that frame was backed, not by this node,
since the node was neither deaf nor strong enough; so another node announces
(`Succession`), and that one also backs whatever the silenced node did, because it
is deaf or stands for as much as the frame (`FramesStayBacked`). A frame that is sent is
backed by its sender. An elapsing guard time takes a backing away, but no frame is
there to lose it: here `Quiet` is used, and nowhere else. Of the expiry only the
owner in PENDING is concerned, which goes to IDLE and stands for more than before.

### Two threads

`RingdThreadsProofs` proves `TypeOK`, `RestIsNotIsolated` and `CommandOnNamedPort`
for every set of identifiers, every configuration and any number of calls of each
thread, where the run has two calls and one command. The assumptions are
`NodeIdAssumption` and `ThreadsAssumption`: the daemon starts in a configuration
`ring_create` can make, and the calls are counted by naturals.

*The inductive invariant*, `Inv`, is about the lists of steps that are still to do,
because nothing else is common to the threads. `Usable(ring)`: the record has its
type, its roles are those of a configuration, and it has left INIT. `Shape(t, c)`:
the list of a busy thread is

- a rest of `ProcessSteps`, at first behind the step that comes before the call
  (`Framing`); `new_state` has been read when four steps are left;
- what is left of a row, ending in the store (`RowList`);
- the stop of the wait-to-restore timer after `ring_timer`'s call;
- what is left of `send_raps_cb`, and then the thread is the loop.

Two parts carry the theorems. In a `RowList` what is stored in the buffer has been
loaded by the step before it, and in the right type, so that two `start_tx` that
interleave leave a well-typed message, if not one that anybody wanted; and a block
is followed, somewhere in the rest of the list, by the opening of the other port
(`Paired`), short of row 45. `Opening` draws the conclusion: while both ports are
blocked some thread has yet to open one. `Counting` is what the burst counter needs:
the loop decrements only a value it has seen to be positive, and the worker never
writes anything but the maximum.

*Argument.* Each row of `RowSteps` is shown to be such a list (`FineRow`), row by row
for the five states. Then a step that shortens a list keeps its shape
(`FramingTail`, `RowListTail`), a condition that puts steps in front of it does
(`RowListGrows`), and `ContinueKeeps` covers every step that leaves the other
thread's list alone. `CommandOnNamedPort` has an invariant of its own,
`CommandInv`: the port of a command is the one that was named, and the worker's list
consists of statements that block or fail no other and open no port but the other.
It rests on arithmetic, 240 + 256 s and 241 + 256 s are never the code of the other
port (`ParamNamesPort`), and on a walk through the rows of a command.

`RingdThreadsAtomic` proves `UndisturbedCallIsAtomic` from the same assumptions: for
every row, every configuration and any number of calls. It is what allows `Ringd` and
`RingNet` to take a call for one step where calls do not overlap. The proof has
three parts.

*What a list does.* `Do` is the effect of one step, and for a condition also of
everything the condition puts in front of the list; `Leads(l, m, n)` says that the
list takes memory `m` (the ring, the buffer, what has been loaded) to `n`. Only
conditions make a list grow, and each adds a fixed number of steps, so no
induction over lists is needed. `RowsGive` is the result: the statements of every
row lead to the row of `RingFSM`, and the buffer holds the message that the ring
announces, unless it announces the one it did before. It is proved row by row from
the lists that rows share (`start_tx`, blocking a port, the owner's way to PENDING).

*Where a call is.* The inductive invariant is `Undisturbed`, together with `Inv`: a
busy thread with a history is in one of the phases that `Phase` lists.

- `Guarding`: `port_cb` has yet to look at the guard timer; nothing has happened;
- `Coming`: in `ring_process_request`, before the row. There is a ring, equal to the
  real one but for the bursts, from which what is left (`Left`) makes the atomic call;
- `InRow`: what is left of the row leads to the ring of the atomic call;
- `Ending`: `ring_timer` has yet to stop its timer;
- `Sending`: `send_raps_cb`, which changes the bursts only.

The count of bursts is left out (`Unpaced`) because the loop may count one without
disturbing a command.

*Steps.* `Progress` says of a step of the thread itself that the call goes on to a
phase or ends as the property demands; there is one lemma per phase. `MoveKeeps` adds
the other thread: either its step leaves alone all that a phase speaks of, or the
history forgets the call.

### The kernel module

`ErpsKernelProofs` proves all five invariants of the run `kernel` and `NeverCutOff`
of `kernel_callbacks`, for any number of callers, interfaces, rings and callbacks.
That the ring is `Sound`, as the daemon's is, is not among them and would be false:
`Sound` relates fields that a row writes one after the other, and two callbacks
leave them as they fall. The assumptions are
`NodeIdAssumption` and `KernelAssumption`: the requests and frames have the fields
of their types, the zero identifier is the least, and no interface has the name of
the null pointer.

*The inductive invariant*, `IInv`, says who holds which ring and how far it has come:

- `HeldPart`, `CallPart`: no pointer is wild, and a caller has a slot exactly from
  the allocation on;
- `BuildPart`: a ring between its allocation and its publication is its builder's
  alone (no other caller, callback or unload has its slot), it is inactive, and it
  has exactly the links its builder has made. This is what keeps a second INIT,
  which the code does not exclude, from spoiling the ring of the first;
- `WholePart`: a live ring that nobody is building is `Usable` and has both ports,
  unless the unload is already taking them. `Usable` is what survives any
  interleaving: the types, the roles of a configuration, a state out of INIT, and no
  block but that of row 01;
- `ReceptionPart`: a callback in the middle of the control process is `Underway`. What
  it has still to do are statements of a message that was parsed, which block that
  port alone (`MessageStep`), and what it will store in the end is a state it has
  read, so not INIT (`Unentered` says when it has not read one yet);
- `ModulePart`: how far the unload has come;
- `AlonePart`, without overlapping INITs: there is one INIT at a time, its links and
  those of the published ring are on the bridge, and what the unload takes down is
  what was published;
- `CleanPart`, without a half-failed INIT either: the published ring is the only live
  one, every interface on the bridge is a link of it or the operator's, the ring is
  inactive before it loses a link, and a callback on a link has a live ring
  (`CallbackSafe`).

Types alone are not inductive, since a caller writes to the ring its slot names.
`PublishedRingIsWhole` hangs on `BuildPart` and `WholePart` and holds also when INITs
overlap; the other three need the parts that `upset` conditions, as their statements
say. `LinkCallbackIsSafe` comes down to the bridge lock: an interface is detached
when no callback runs (`Quiet`), and `InactiveFirst` stops those that start later at
the test of `active`.

*Argument.* One lemma per action and per part that the action can disturb. The state
machine enters by its statements: `MessageRows` says of every row that a message may
execute in a usable ring that it is a list of such statements, `MessageInserts` the
same of what a condition puts in front, `MessageAssigns` that each of them keeps the
ring usable whatever the other callbacks have done to it. Since `HomePort` depends
on the configuration only, one callback's step leaves the others underway
(`CallbackStep`). Creation enters through `RingFSMProofs`. Of how the bridge numbers
its ports only that a number is below `NOPORT` is used.

### Only model-checked

Liveness: `WtrReverts` of the daemon, `Settles` and `Reopens` of the ring. It is
beyond the prover, together with ENABLED. And `UndisturbedFrameIsAtomic` of the
kernel module: the lists are those of `RingdThreadsAtomic`, whose theorem `RowsGive`
is about every row, but the frame around them is the kernel's own. Every other
invariant and action property that a passing run checks is also a theorem, and so
is the refinement.

## Not modelled

- *Time* (`tick.c`, `TICK_DIFF_MSEC`). A timer runs or not, and its expiry is an
  action. The daemon's tick counts are 64 bits wide and do not wrap. The kernel's
  product of a 32-bit difference is evaluated for the guard timer only, which one
  message does not start and two that race do (row 36); `TestGuard` takes either
  outcome of the comparison.
- *Offsets in a frame.* `ErpsKernel` encodes and parses field by field, and
  `RingdThreads` store by store. The VLAN tag, the addresses and the reserved
  bytes are left out: the tag shifts the rest, and every reader allows for it.
- *The command socket.* The select loop serves one request at a time and keeps
  nothing between two. `ring_io_init` exchanges the two ends of its pipe, which
  matters to `ring_io_destroy` only, and no code calls that.
- *Memory.* The record of a frame that does not parse is leaked
  (`er_ring.c:1125`). It is not counted; any allocation of `ErpsKernel` may fail.
- `erps-ctl` keeps no state and makes one ioctl per call. Benchmarks, patches and
  build files are no part of the ring.
