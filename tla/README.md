# Specifications of binsys / AIOS

TLA+ models of the program in this repository, the TLC runs that check them on
small instances, and theorems about them that TLAPS has proved for every
instance. Paths below are relative to the repository's root.

    tlc -workers 2 -config MessageQueue_live.cfg MCMessageQueue
    tlc -workers 2 -config Services.cfg MCServices
    tlapm MessageQueueProofs.tla

`PROJECT.json` lists, for machines, what this file explains: components, runs,
the source lines behind every definition, hazards, theorems, and for every
checked property a plausible bug (the definitions commented "A fault") that
makes TLC report it.

## 1. The system

The repository holds two programs and the boot chain between them:

* **binsys**, a Python command line that builds disk images, frugal overlay
  systems (a read-only `base.sfs` and a writable `save.img`) and runs them in
  QEMU; with the shell scripts of **FrugalOS** (plugins, network namespaces,
  init) and a **UEFI boot loader** in Rust;
* **AIOS**, an operating system in Python: processes and interrupts, a task
  scheduler, message passing, a network stack, a file system, agents with
  memory and learning, and a desktop. Its parts are threads in one process that
  share objects; this is where the program's own concurrency is.

### 1.1 Inventory

| Component | Source | State | Operations | Hard behaviour | Correct when | Module |
|---|---|---|---|---|---|---|
| Message queue | `os/core/aios_ipc.py` `MessageQueue` | bounded deque, closed flag, two condition variables on one lock | send, try_send, recv, try_recv, close; clock | notifies against timeouts, overtaking calls, eviction of expired messages, close | no lost wakeup, FIFO, only expired messages dropped, back-pressure released | `MessageQueue` |
| Channel, EventBus, Semaphore, namespace | `os/core/aios_ipc.py` | two queues per channel; subscribers and an index by id; a count; names to objects | request, reply; subscribe, unsubscribe, publish; acquire, release; create, close, get | late replies, delivery to a snapshot of subscribers, wakeups, names that outlive or replace queues | replies match, topics reach who asked, one object per name, no sleeper beside permits | `IpcServices` |
| Task scheduler | `os/scheduler/aios_scheduler.py` | one deque per worker, overflow queue with aging priorities, futures, stop flags, topology and averages | submit, cancel, start, stop, map; loops of workers, drainer, rebalancer | a task travels between four kinds of thread with no lock over two queues; cancel without a lock; stop; scores from old averages | one place at a time, run once, every future set, none dropped, aged tasks not passed | `TaskScheduler`, `TaskLifecycle`, `TaskOrder` |
| Process scheduler, system calls, timer | `os/core/aios_process.py` | PCB states, ready queue, running process, quanta, ages, sleep table; IDT, trap frames | create, schedule, block, unblock, exit, tick; SYS_*; timer interrupt; dispatch, copies | calls that act for a process that is no longer current; a handler that works between two lock sections; aging; a second interrupt table | running process in no queue, runnable process not lost, no starvation, a frame has its vector's code | `RoundRobin`, `ProcessMachine` |
| Network sentinel | `os/networking/aios_network.py` | ARP entries and waiters, pending DNS queries, receive thread, socket | resolve, query with retry and aliases, start, stop; codecs | several threads wait for one answer, time-outs against late answers, partial start, pointers in a name | an answer reaches its query, running means open, decoding ends | `AddressCache`, `NameQueries`, `Sentinel`, `FrameDecoding` |
| Virtual file system | `os/core/aios_vfs.py` | descriptor table, node trees, mount table | open, read, write, seek, truncate, close, mkdir, unlink, mount | open in five locked steps; descriptors onto unlinked nodes; longest-prefix mounts | a descriptor stays its owner's | `VirtualFiles` |
| Agent kernel, allocator, paging, screen | `os/core/aios_core.py` | kernel state, tools, pages, page table, keyboard buffer, text screen | boot, halt, syscall, attach; alloc, free, map; interrupts; write; arithmetic | two boots at once; a check before the lock; wrap-around | up means one boot, blocks share no page, buffer holds keys | `AgentKernel`, `PhysicalMemory`, `Numerics` |
| Feedback loop | `os/core/aios_feedback.py` | loop state, thread, cursor into a bounded trace registry, experience buffer | start, pause, resume, stop, ingest, train | start against an ending thread; cursor against eviction; training from two threads | traces trained in order, each ingested once | `FeedbackLoop` |
| Agent memory | `os/core/aios_memory.py` | working-memory slots and weights, episodic heap and index, facts, LSH tables | observe, attend; store, recall, evict, consolidate, save, load; draw, learn | five stores with locks of their own and no order over them | what is indexed is found, what must be evicted can be, weights are of what was attended | `EpisodicMemory`, `MemoryStores` |
| Reinforcement learning, reward | `os/core/aios_rl.py`, `aios_reward.py` | replay buffers, target network, rollouts, running statistics | push, sample, update; collect, evaluate; shape | ring and heap arithmetic, episode ends inside a rollout, an environment two threads step | samples follow priorities, no reward leaks over an episode's end | `Reinforcement` |
| Hardware layer | `os/core/aios_hardware.py` | regions and page map, layer state, NUMA placement, counters | map, unmap, read, write; probe, initialise, shutdown; measure | an access in two locked sections; initialise without a lock | a region resolves to itself, ready means regions | `Hardware` |
| Boot kernel simulation, neural kernel | `os/kernels/*.py` | boot stage, automaton, integrity chain, memory map, tables; tensors with a graph, trainer | advance, seal, verify, dispatch, match; forward, backward, fit | order of stages; seals from several agents; shared gradients | automaton keeps pace, chain verifies, gradients are derivatives | `BootSequence`, `Automata`, `Autograd` |
| Display server | `os/desktop/aios_display.py` | windows with trees of widgets, layers, damage, surfaces with a clip, key queue, the render loop and the terminal's mode | open, close, focus, raise, paint; draw, present; start, stop | agents change widgets while the loop paints them; half cells; a stop whose wait runs out; a bounded queue | what changed is repainted, the terminal shows the surface, stop gives the terminal back, text is what was typed | `Desktop`, `DisplayServer`, `KeyInput` |
| Desktop shell | `os/desktop/aios_desktop.py` | applications, menus; parser, SGR state, cell grid, pseudo terminal; the browser's listing and selection; modifiers | run, open, close; feed, apply; read, stop; keys | poll and reader threads beside the loop; sequences split anywhere; the shell's end against a full queue; directories that vanish | chunking does not matter, output arrives, the selected row is in view | `Desktop`, `Terminal`, `KeyInput`, `Automata` |
| Agent compiler and model formats | `os/custom/*.py` | artifact sections, output file, life-cycle cells; tensor file and its mapping | compile, pack, load, execute; save, open, slice | a writer beside a loader, runs that share temporary files and one automaton | load inverts pack, an open file is a whole save | `AgentImages`, `ModelFiles` |
| ASIS agent swarm | `os/asis/asis_enhanced.py` | six inboxes, blackboard, task results | inject, step, run until convergence; rewrite | messages of a step delivered at its end; several answers for one task | every task answered as its kind asks | `Swarm`, `TermRewriting` |
| Integration glue | `os/core/aios_integration.py` | – | attach all subsystems | attach of a kernel that is not up | tools of every subsystem registered | `AgentKernel` (`Attach`) |
| binsys frugal systems | `binsys/_frugal.py`, `_image.py` | image files of a system, `meta.json`, mounts | convert, mount, umount, snapshot, rollback, merge | a command that fails, is killed or loses power between two of its steps, and is tried again; mounts left behind | every edit in a complete file, the layers that mount show it, never without a base | `FrugalSystem` |
| binsys images, encryption, boot disks, menu | `binsys/_image.py`, `_crypto.py`, `_boot.py`, `_qemu.py`, `_util.py`, `_tui.py` | system directories and metadata, image files, mounts, loop devices, mappers; list and cursor | new, import, mount, delete, clone, rename, resize, encrypt, lock, boot disk, run; keys | a failing program, whose handlers run; a kill, which runs none; a delete that is stopped half way | a created system is whole until it is deleted, no loop device is left but by a lock that did not see it | `SystemImages` |
| binsys command line, ISO | `binsys/cli.py`, `_iso.py` | – | parse and call the commands above | – | – | not modelled |
| FrugalOS plugins | `custom-frugal/plugin-ctl` | active list, load order, overmount record, mounts | load, unload | failure half way, LIFO | records match mounts | not modelled |
| FrugalOS network isolation, init | `custom-frugal/netns-exec`, `netlock`, `init` | namespaces, veth pairs, rules | start, stop, lock | order of setup and teardown | no traffic before the lock | not modelled |
| UEFI boot loader | `boot/*.rs` | menu selection, countdown, partition and extent tables | key press, timeout, boot | timeout against key press, bounds | an entry that exists is booted | not modelled |
| Build scripts, wizards | see `PROJECT.json` | – | external tools one after the other | – | – | not modelled |

### 1.2 Interactions

`aios_integration.py` wires AIOS together once. From then on components call
each other: system calls of processes reach the process scheduler through
`SysCallGate`; the timer interrupt reaches it through `FullIDT.dispatch` and
`TimerDriver`; agents exchange messages through `IPCKernel` (names to
`MessageQueue`, `Channel`, `EventBus`); tasks of agents run on
`AIOSScheduler`; the feedback loop reads the traces that the agent registry
keeps. The command line and the scripts interact with everything else only
through files, mounts and processes.

Where components share state, one module has them together: `Desktop` is the
shell over the window manager and the compositor with the threads that write
terminals; `EpisodicMemory` is the memory kernel over four stores with locks of
their own; `IpcServices` has the bus, the namespace and the channels over queues;
`AgentKernel` has the kernel with the subsystems that a boot replaces;
`ProcessMachine` has the interrupt table of the processes inside a kernel that
owns another one; `Reinforcement` has two users of one environment; `KeyInput` goes
from the terminal's bytes to a text field; `TaskScheduler` implements
`TaskLifecycle`, and `TaskOrder` says what it leaves open. Components that meet
only through calls that return (a tool that allocates memory, a feedback loop
that reads traces) are modelled apart, with the other side as an input that may
come at any time.

## 2. Modules

| Module | Stands for |
|---|---|
| `MessageQueue`, `MessageQueueProofs` | `MessageQueue` of `aios_ipc.py`; seven theorems |
| `TaskScheduler`, `TaskSchedulerProofs` | `AIOSScheduler` with `TaskFuture`, `WorkStealingDeque`, `Worker`, `AdaptiveRebalancer`; five theorems |
| `TaskLifecycle` | what the scheduler promises of one task: the abstract specification that `TaskScheduler` implements |
| `TaskOrder` | `_GlobalQueue`, `PlacementScorer`, `WorkerStats`, `map` |
| `RoundRobin`, `RoundRobinProofs`, `ProcessMachine` | `RoundRobinScheduler`, `SysCallGate`, `TimerDriver` with two theorems; `FullIDT`, its attachment, the copy tiers |
| `FrugalSystem`, `FrugalSystemProofs` | `_frugal.py` and the overlay part of `_image.py`; four theorems |
| `IpcServices` | the rest of `aios_ipc.py` |
| `AddressCache`, `NameQueries`, `Sentinel`, `FrameDecoding` | `aios_network.py` |
| `ServiceProofs` | seventeen theorems: five on `IpcServices`, seven on the network modules, five on `TaskOrder` and `Swarm` |
| `VirtualFiles` | `aios_vfs.py` |
| `KernelProofs` | four theorems on the kernel side: `PhysicalMemory`, `VirtualFiles`, `AgentKernel`, `ProcessMachine` and `Hardware` |
| `AgentKernel`, `PhysicalMemory`, `Numerics` | `aios_core.py` |
| `Hardware` | `aios_hardware.py` |
| `Swarm`, `TermRewriting` | `asis_enhanced.py` |
| `FeedbackLoop`, `EpisodicMemory`, `MemoryStores`, `Reinforcement` | `aios_feedback.py`, `aios_memory.py`, `aios_rl.py`, `aios_reward.py` |
| `BootSequence`, `Automata`, `Autograd` | `aios_bootloader_kernel.py`, `aios_phase4_nn.py` (and the wallpaper) |
| `Desktop`, `DisplayServer`, `Terminal`, `KeyInput` | `aios_desktop.py`, `aios_display.py` |
| `AgentImages`, `ModelFiles` | `recu_compiler.py`, `custom_model_format.py` |
| `WorkbenchProofs` | sixteen theorems on `BootSequence`, `EpisodicMemory`, `MemoryStores`, `FeedbackLoop`, `Reinforcement`, `AgentImages`, `ModelFiles` and `KeyInput` |
| `SystemImages`, `SystemProofs` | the binsys store and menu; a theorem |
| `MCMessageQueue`, `MCTaskScheduler`, `MCRoundRobin` | the values that the `.cfg` files give to constants, and symmetry sets |
| `MCServices`, `MCWorkbench` | two runs over many components: values, the choice of the part, the invariants by subject |

The modules up to `FrugalSystem` each have a run, or several, of their own. The
others are smaller and are checked by `MCServices` and `MCWorkbench`: the
variable `part` is chosen once, every step is a step of the part, and the
variables of all other parts keep their initial values. The run is thus the union
of the runs of its parts. An invariant there is a conjunction by subject; each
conjunct is a property defined and explained in the module of its component, and
each has a fault of its own beside the definition that it mutates.

### 2.1 MessageQueue

One lock guards `_q` and both condition variables, so that the code between two
waits is one action. `Send` and `Recv` are new calls; `SendResumes` and
`RecvResumes` are threads that come back from `Condition.wait`, because they
were notified (`wokenS`, `wokenR`) or because their time ran out (`late`), and
run the loop body again. `notify` picks any waiter. A waiter whose time ran out
stays a target of `notify` until it holds the lock again, as in CPython.
`Expires` is the clock: `is_expired` becomes true of a message. `send` and
`try_send` share their body, except that `try_send` never waits.

`accepted`, `removed` and `received` are histories; their lengths are the
queue's counters. A `Message` object is sent once.

### 2.2 TaskScheduler and TaskLifecycle

Every deque and the overflow queue has a lock of its own. Whatever a thread does
between two locked sections that another thread can observe is one action, and
a task in transit is in `held[thread]`:

* clients: `Submit` (the future exists, a worker is scored), then
  `SubmitPushes` or `SubmitOverflows`; `CancelChecks`, then `CancelSets`;
* workers: `PopLocal`, or `ChoosesVictim` and then `Steal` (the victim may be
  empty by then); `SkipsDone` or `Begins`, which look at the future once; `Execute`,
  the call, after the performance counters are opened; `Finish`, or `Dies` when the
  function raises what `except Exception` does not catch; `Leaves` after stop;
* drainer: `DrainWakes`, `DrainPops`, `DrainChecks`, `DrainPlaces` or
  `DrainPutsBack`, `DrainPauses`;
* rebalancer: `RebalanceWakes`, one `RebalanceReads` per deque, `RebalanceRests`
  or `RebalanceBegins`, then `RebalanceSteals` and one of `RebalanceMoves`,
  `RebalanceSkips` (data locality) or `RebalanceGivesUp` for each task;
* `Start`, `Stop`, `StopWorker`.

Left open here (nondeterministic): which worker `PlacementScorer` picks and which
overflow task is first by aged priority, which `TaskOrder` models, and which of
several equal deques is the donor. Merged: a worker's reading of its stop flag with its next step, since
nobody else can tell; the scan of all peers for work (`Candidates`) into one
step; the launch of all threads by `start` into one step. Left out: a
scheduler without workers, statistics and what performance counters count; `submit_many` and
`map` are loops of `submit`.

`TaskLifecycle` is the view of a client: a task is new, pending, taken up by a
worker, which it is only while its event is not set, then running, then ended, with
its event set at the end or by a cancel at any time; it may be lost, but only while
pending. A cancel between the worker's look at the future and the call comes too
late, although `cancel` returns True: the task is called (section 5,
`CancelledNotCalled`). `Life(t)` in `TaskScheduler` is the refinement mapping,
and `KeepsLifecycle` says that every step of the threads is a step of
`TaskLifecycle` or leaves it alone.

### 2.3 RoundRobin

Methods of the scheduler are atomic (they hold its lock). What is not atomic is
what the code does outside it: `SysCallGate.handle` reads the current process
(`Enters`) before the handler locks (`SysExit`, `SysSleep`, `SysYield`), and
`TimerDriver._isr` walks its sleep table (`Visits`) between a call of `tick` and
calls of `unblock` (`Unblocks`, or `UnblockRaises`, which ends the handler
because `FullIDT.dispatch` swallows the exception).

Left out: trap frames and register contents, `r12`, in which `SYS_SLEEP` leaves
its argument (nothing reads it), the branch of `_schedule_next_locked` that
switches away from a running process (every caller clears `_running` first),
`ProcessTable.transition` and `remove` (nothing calls them). `wait_ticks` and
`ticks_remaining` are not counted beyond the values that the code tells apart.
`sleep_pid` and `schedule` are modelled although only self-tests call them.

### 2.4 FrugalSystem

One system directory and the commands that rewrite it. An image is the set of
edits that its filesystem holds and whether it is whole, torn (a program stopped
while it wrote it), freshly formatted (no `upper` directory yet) or gone. `at` is
the next step of the command that runs: each external program is a step, and one
that writes a file is two, with the file torn in between. `sh` raises when the
program fails, so every step may fail; `try`/`finally` of the code is the order of
`drop overlay`, `drop save`, `drop base` and `failed`, the exception on its way
out. `Killed` ends the command where it is, with its mounts left behind;
`PowerLoss` also empties the mount table. `Edit` is the user of the mounted
overlay, at any time the overlay is mounted, a snapshot included, for which
`SnapEnds` may produce a torn copy.

`written` are the edits that nobody gave up. A rollback gives up what neither the
snapshot nor the base holds; `binsys snap`, which writes to the same name each
time, gives up what only its earlier snapshot holds. A rollback or a snapshot may
be made from a torn file: the code looks at existence only.

`baseMnts` and `saveMnts` count mounts on the directories of the layers, because a
mount on a directory that a killed command left mounted goes on top of the old
one and each `umount` takes one off.

Assumed: one command at a time (there is no lock); a completed step is on the
disk (nothing calls `fsync`); a kill also reaches the program that the command
runs; an image that is rewritten while a killed command has left it mounted is
not written to through that mount. Left out: systems of type squashfs (whose
conversion moves `base.sfs` onto itself), creation, cloning, renaming, resizing,
deletion, mounts of other image types, encrypted and locked systems (refused or
handled elsewhere), the temporary directories.

### 2.5 TaskOrder and ProcessMachine

`TaskOrder` has three parts. The overflow queue rates a task with its age when it
is pushed and rates all of them again every `SortEvery` pops; pushes of
concurrent `submit` calls come in any order. `PlaceTask` is `PlacementScorer` over the
topology of `from_hardware` (distances are completed symmetrically; unknown pairs
are far) and the moving averages that `FinishTask` updates. `map` submits all its
items, then collects them in order.

`ProcessMachine` splits `FullIDT.dispatch` into `EnterGate`, which reads the
descriptor under the lock, and `Handles`, which runs the handler that was read on
a frame made by the dispatch; several threads may be between the two. `AttachTable` is
one registration of the several by which `attach` takes the table into a kernel that
has one. `GateResult` is what the gate writes, modulo the size of a register. `MemCopy` is the choice
among byte loop, word loop and `rep movsb` by size and capability.

### 2.6 IpcServices

`Publish` takes the snapshot of matching
subscribers under the lock, `Deliver` puts into one inbox at a time and
`PublishReturns` ends the call, with `Subscribe` and `Unsubscribe` between them;
`GetOrCreate`, `Get` and `CloseQueue` work on the registry while holders keep
objects; `Request` sends and then returns the next message of its side, whatever
it answers. A thread in `acquire` of the semaphore that was notified or timed out
looks again (`LooksAgain`) before it takes permits.

### 2.7 AddressCache, NameQueries, Sentinel, FrameDecoding

`AddressCache`: the steps of `arp_resolve` between two locks, with `Learns` and
`Signals` as the two halves of `set`. `NameQueries`: a caller registers its query
under a free identifier, sends it, waits and reads; `HandlesAnswer` takes the
pending entry under the lock and `DeliversAnswer` fills and signals it outside;
an alias leads to another query from the same budget. Every answer to a query
that was sent may come at any time, again or never. `Sentinel`: `start` and
`stop` hold one lock throughout and are split where the receive thread or a client
can see the difference. `FrameDecoding`: `decode_name` label by label on every
message of a small size, and the lengths that each layer adds and cuts. A name that
runs off the message without its root label is accepted, as in the code, with the
offset that the code returns for it (section 5).

### 2.8 VirtualFiles

`open` in its locked steps: resolve, look and add for O_CREAT, resolve again,
truncate, allocate a descriptor. Appending is a seek and then a write, as in the
code. Read, write, seek and close use the descriptor's node, also after `Unlink`
or `Umount` took its name away. `PicksNext` is the table's search, which steps by
three.

### 2.9 AgentKernel, PhysicalMemory, Numerics

`AgentKernel`: `BootBegins` tests the state under the lock, `BootBuilds` makes
the subsystems one by one, so two callers can build at once; `Attach` registers
the tools of a subsystem; `Syscall`, `PlanAndExecute` and `Dispatch` may meet a
reboot half way. Its last two parts are the three steps of an interrupt (mask test, handler, EOI) with the
keyboard's bounded buffer, and the text screen with wrap, tab-free control
characters and scrolling. `PhysicalMemory`: `AllocChecks` is the test before the
lock. `Numerics`: dual numbers applied along with the
polynomial they should follow, tensors along with the function from index tuples
they stand for, and the CORDIC engine: the reductions of angle and exponent, with the
rotation of `sincos` and the series of `exp` taken as exact, and `atan2` with the
vectoring loop as it is, in whole numbers (five iterations of the forty, which leave
out less than a sixteenth of a radian).

### 2.10 Hardware

On the memory bus an access is `Resolve` and later `Touches`; regions may go between
them. The layer is `probe` on a described machine (processor lists, distances, cache sizes), the
steps of `initialise` and `shutdown` (which frees the names that it read at its
start) with device mappings that threads enter meanwhile, placement by free memory,
perf counters opened and closed at the end, and the clock ratio: four readings of
two registers that wrap at `MsrSize` (2^64 in the code), each of which may fail.

### 2.11 Swarm and TermRewriting

A step runs the agents in the code's order; what they send is `Said`, it is `Delivered` at
the end of the step, and `quietSteps` is what convergence is decided on. Of a payload the
model keeps its task and the two marks that agents look at: that it is a COMPOSE term, and
that it has an atom named "error" or "failed". `TermRewriting` is the analyst's rule engine:
`Rewrite` is one pass of `normalize`, which applies the first rule that changes the term.

### 2.12 FeedbackLoop and Reinforcement

`FeedbackLoop`: `LoopReads` pulls from the cursor and `LoopRound` ingests and
trains; `ForceTrain` and `Ingests` are the same two halves in another thread,
and `StopReturns` is the end of the bounded join. `Reinforcement` has four
parts: the sum tree node by node (`Replay...`); the ring with its wrap and DQN's
periodic copy to the target (`Dqn...`); the collecting thread and `evaluate` on
one `GridWorld`, with the advantages computed backwards over a rollout that may
hold several episodes (`Rollout...`); and the shaping of rewards, whose Welford
recurrence is kept exact by scaling rewards with `Unit` (`Reward...`).

### 2.13 EpisodicMemory and MemoryStores

`remember`, `forget`, the sleep cycle and `load` change four stores under four
locks: each has a step per store, so that an episode may be in the index and gone
from the store, or the reverse. `MemoryStores` has the single stores: attention
weights read and written in two locked sections while the window moves, facts
merged by similarity with trust and capacity (the id of a fact is made of the first
dimensions of its key, so two keys may share one; a load puts in fact after fact, each
under a lock of its own, and a snapshot keeps a part of each key only, so whether a
loaded fact is found similar is open), LSH tables (every embedding in
every table), draws by importance, the projector's flat form.

### 2.14 BootSequence, Automata, Autograd

`RunStage` is a stage with its automaton cell, block and tick. After the boot,
agents seal in three steps (`DraftBlock`, `LinkBlock`, `MoveTip`) and count
interrupts in two (`Dispatch`, `CountAgain`) as the code does. `Automata` runs the
rules of the book on a torus and the wallpaper's two buffers. `Autograd` keeps the
tape, the derivative of every element by every argument element, and compares what
`backward` accumulates with `due`; its part on training has the flags of the module tree,
which parameters get gradients, the schedules, and `fit` with patience. A backward pass
is followed by others: of the same operations, of ones that are added to them, or of new
ones (`DropGraph`: the results are forgotten, the leaves keep their gradients), with
`ZeroGrad` at any time between. `due` is the sum of the derivatives of all passes
since the gradients were zeroed, each by the definition and not by the tape.

### 2.15 Desktop, Terminal, KeyInput

`Desktop`: the loop's frame is `BeginFrame`, one `PaintWindow` or `SkipClean`
per window, `ResetDirty`, `Composite`, `CloseApps`, with events between them;
the poll threads are `Output` and `Invalidate`, the taskbar's thread `DrawBar`
and `MarkBar`. `back` is what the screen shows. `Terminal` has four parts.
`Feed` parses everything read and keeps the rest; the grid's cells have
identities, since shifts move objects and writes change them; `ApplySgr` reads
the parameters of a sequence, of which 38 and 48 take those that follow; and the
reader thread of the pseudo terminal (`ReaderTests`, `ReaderReads`,
`ReaderTries`, `ReaderPuts`) runs beside `ReadPending` of the poll thread and
the five steps of `StopPty`, with the shell, and with another terminal that is
opened while `stop` has closed the descriptor and not yet forgotten its number.
The file browser, in `Desktop`: a listing that is as old as the last `Loads`, moved over by keys
while other programs remove what it lists. `KeyInput`: reader thread, bounded
queue, tick, text field and paint, and the evdev keyboard with its modifiers.

### 2.16 DisplayServer

Four parts without common variables. *Drawing*: a stroke is the sequence of the
pixel sets that the code blends one after another (`stroke.marks`), each over
the canvas and within the clip; colours are one channel and alpha. *Output*:
`Present` turns damaged rectangles into the driver's commands (cursor, colours
where they change, half blocks), which `Interpreted` carries out as a terminal
does. *Widgets*: a repaint is a walk through the tree (`RenderPaints`,
`RenderDescends`, `RenderLeaves`, `RenderEnds`, `RepaintEnds`, with `frames` as the call stack)
between whose steps agents add labels and set texts and the title, since they
hold no lock then; `unpainted` are the widgets with `_dirty`. *Life*: `start` is
three steps with the lock, `stop` is five, of which only the first needs it; the
join may return before the loop has ended, and a QUIT event ends the loop without
a stop, so that the terminal is given back by the stop that comes after it and a
start before the loop has ended counts as disturbed.

### 2.17 AgentImages and ModelFiles

`AgentImages`: a compiler writes its image block by block over the output file
(`WriteBlock`, `CompilerDies`), `Load` reads it at any time; an execution creates,
writes and unlinks its temporary file and moves the artifact's shared automaton in
unlocked read and write halves. `ModelFiles`: the saver writes cell by cell and
may be killed; the loader stats, maps, parses and then reads tensors or rows.

### 2.18 SystemImages

Commands are sequences of external programs, each of which may fail (the `...Fails`
actions run the handlers that the code has at that point) and between which the
command may be `Killed`; `Reboots` clears mounts, loop devices and mappers. A delete
removes the files of a directory one by one (`DeleteBegins`, `Removes`) and may be
stopped between any two. A lock detaches the loop device that `cryptsetup status`
names, and no other when that program fails (`LockCloses`; `leftLoops` remembers which).
An image that is flashed grows only if it is raw (`NewFlashes`). The
menu is the list read at its last reload beside the directory, which other
commands change.

## 3. Runs

Passing runs:

| Run | Instance | Question and answer |
|---|---|---|
| `queue_expiring` | 2 senders, 2 receivers, 4 messages that may all expire, 2 slots | Are order, accounting and the receivers' wakeups safe from evictions, time-outs and close? Yes; no expired message is handed out. |
| `queue_live` | the same threads, 1 slot, nothing expires, fair | Does every accepted message leave, and is every blocked sender released by receivers alone? Yes; and no sender's notify is lost, and close leaves nobody asleep. |
| `tasks_roomy` | 2 workers, 1 client, 4 tasks, deques of 4 that never fill, one pinned task, stop | Is a task ever in two places, or in none? No. |
| `tasks_lifecycle` | 2 workers, 1 client, 3 tasks, deques of 1, cancel at any time | Do the threads implement `TaskLifecycle`? Yes, and no function is called twice. |
| `tasks_live` | 2 workers, 3 tasks of which one ends its worker, deques of 2, fair | Is every other task's future set? Yes. |
| `processes` | 2 processes of two priorities, 2 callers, quantum 2, fair timer | Is the running process in no queue, is no runnable process lost, does a queued process stay at most twice in the queue (`ProcessesKept`), does the processor idle only when nobody is queued, does every queued process run? Yes to all. |
| `frugal` | 3 edits of which one is there from the start, 2 snapshots, 2 mounts per directory | Does an edit survive failures, kills, restarts and repetitions of every command, do layers that mount show it, and is the base always complete or recoverable? Yes to all. |
| `services` | 26 parts, 2 or 3 threads each, 401 thousand states | See below. |
| `workbench` | 33 parts, 370 thousand states | See below. |

`services` asks of the kernel side: does an answer find who waits for it and a
lookup end within its retries (`NoReplyMissed`, `LookupsAreAnswered`), is the socket
open while the sentinel runs (`OpenWhileRunning`), does decoding of any message
end inside it (`FramesDecode`), does nobody sleep beside the permits it needs
(`SleepersLackPermits`), do messages reach who asked for them
(`MessagesFindTheirWay`), are tasks served in their order and place
(`TasksAreServed`), are blocks, regions and descriptors apart (`StorageIsApart`),
is a kernel that is up of one boot, with its devices and copies
(`KernelIsWhole`), is what the hardware layer tells so (`HardwareIsTold`), are
binsys systems, disks and the menu whole (`SystemsAreWhole`), and does a layer
become ready only with its regions (`ReadyWithRegions`, an action property)? Yes
to all.

`workbench` asks of the rest: are dual numbers, tensors, angles and running means
exact, does training stop when its loss is stale, do LSH queries find what was entered, are
samples and draws by their weights and do the patterns of the book persist
and is a rewritten term an instance of its rule (`NumbersAreExact`), are accumulated gradients derivatives
(`GradientsAreDerivatives`), does learning use what happened (`LearnsFromItsData`),
does the boot keep pace with its automaton and its chain verify (`BootIsInStep`),
is every change on the screen repainted, does a click reach the top, is what is
drawn and put out what was asked, does a clean window show its widgets, does
stop give the terminal back and is the selected file in view (`DesktopIsShown`), is
the terminal indifferent to chunks, are its cells apart, does the last parameter
about an attribute count and does the shell's output arrive (`TerminalIsFaithful`), is
typed text in the field and each key's character that of the modifiers held
(`KeysAreTyped`), are loaded images and opened tensor files whole
(`ImagesAreWhole`)? Yes to all. `StopRestores` is about calls that do not overlap
and loops that end before `stop` gives up waiting for them; `ScreenIsOurs`, without
this condition, is false (section 5).

Runs that refute what a comment or docstring of the code says (each with a finding
in `PROJECT.json`):

| Run | Statement | What happens |
|---|---|---|
| `frugal_swap` | "4. Atomically swap base layer" | Two renames; a kill between them leaves no `base.sfs`, mount fails, and so does a repeated merge, which mounts the base first. |
| `traces_once` | "each batch of new traces is processed exactly once" | The cursor counts all traces, the registry keeps the last ones: once it wrapped, new traces lie before the cursor and are never ingested. |
| `syscall_result` | "Return values are written back into tf.rax (SysV convention)." | The call runs on the frame that the dispatch makes, and the caller reads its own, which nobody wrote. |

### 3.1 Bounds

* Messages are sent at most once each, so four messages bound a behaviour of the
  queue. Two of each role suffice for a notify to reach the wrong thread of its
  role or an overtaken one; two slots for a wakeup to be owed twice, one slot for
  senders to wait whenever anything is queued. What the bounds could hide is
  covered by the theorems, which have none.
* `tasks_lifecycle` has deques of one slot, so that overflow, the drainer's
  return and the rebalancer's refused put-back happen with three tasks;
  `tasks_roomy` has deques of four, so that a pass moves two tasks, and holds
  `NoTaskDropped` because no deque ever fills (where one does, the property is
  false, see section 5; where none can, it is a theorem). `tasks_live` is an instance in which the rebalancer's
  donor cannot fill up while it holds a task.
* `processes` needs two processes for one to be preempted, stale and overtaken
  by the other, and two callers for two stale calls on one process. Aging
  period, quantum and sleep countdown are the smallest that make the counters
  pass through every branch; `MaxSleep` bounds what is given to `sleep_pid`.
* `frugal` has one edit from before the conversion and two that users make, so that
  a merge and a snapshot can differ in what they hold; two snapshots, one of them
  the name that `snap` uses again; and two mounts per directory (`MaxMounts`), the
  fewest with a mount left behind below another. The theorems have no bound on
  edits, snapshots or mounts.
* `services` and `workbench` give every part the fewest actors that can disturb
  one another (two; three for the semaphore, where a wakeup must be able to go to the
  wrong one, and for the channel, which refuses the third) and every bounded
  structure the smallest size at which it is full, wraps and evicts within the
  run: one or two slots for queues, windows and capacities, three for rings and
  replay buffers, two bits for registers. The constants named `Max...` bound
  otherwise unbounded counters in the guards of the actions that raise them; each
  is at least what fills the structure it feeds. `UniqueIds = TRUE` says that the
  random 16-bit identifiers of DNS queries differ, which the code does not test.
  `Irqs` leaves out line 9, whose vector is the keyboard's: with it `NoPhantomKeys`
  is false (section 5). `OpenModes` of `VirtualFiles` is the one mode with every
  branch of `open`; the others are subsets of its branches. `Bytes` of the parser
  leaves out "]", with which chunks do matter (section 5). `Chars`, `Letters`,
  `KeyBytes`: the bytes that the code tests for and one or two others.
* `Autograd` records two operations before the first backward pass and one before
  the second (`MaxGraphs`, the most operations per pass): enough for an argument that is
  used twice, by one operation or by two, for a result that a later graph uses again, and
  for gradients that a second pass adds to or that were zeroed in between.
* Pure arithmetic is checked on the inputs listed in the MC modules: all operands
  of up to three dimensions with sizes up to three, polynomials up to degree four,
  every message of five octets, every copy within seven bytes, every sequence of five
  SGR parameters out of six that make and cut colours, lines and circles up to
  radius three on and beside a canvas of four by three pixels with every nesting of
  two clips. The text font is two by two cells instead of eight by sixteen, and the
  frame of a window one pixel: no code distinguishes the sizes.
* Symmetry is used only in runs without liveness properties, over threads,
  messages, tasks and edits that no constant distinguishes. In `services` and
  `workbench`, `u1` and `u2` are together in every set that contains one of them.
* Deadlock is not checked where nothing more has to happen: `tasks_roomy` and
  `tasks_lifecycle` (all tasks finished, threads ended), and `services`, `workbench` and `syscall_result`, whose bounded parts end.

### 3.2 Fairness

* `MessageQueue!FairSpec`: a notified thread gets the lock again (threads are
  scheduled), and receivers are service loops that call `recv` again, which is
  how the repository uses queues. No fairness for time-outs, expiry, senders or
  `close`.
* `TaskScheduler!FairSpec`: workers, drainer and rebalancer are `while` loops of
  threads; a client inside `submit` or `cancel` returns; `start` is called. No
  fairness for submitting, cancelling or stopping.
* `RoundRobin!FairSpec`: the timer goes on interrupting and its handler
  finishes. No process has to make a system call and nobody has to call
  `schedule`; hence `NoStarvation` speaks of times when some process runs.
* All other modules have no fairness and no liveness property. Commands
  (`FrugalSystem`, `SystemImages`) are the operator's choice, and what other
  components must eventually do depends on devices, peers or time-outs about which
  the code promises nothing.

## 4. Proofs

All theorems are for any number of threads, messages, tasks, processes and files
and any capacity, from the assumptions on constants named in the modules
(`QueueAssumption`, `SchedulerAssumption`, `FrugalAssumption` and so on). A run
checks each property below on a small instance.

* **`MessageQueueProofs!TypeCorrect`**: `TypeOK`, with the bound of the queue.
  Inductive as it stands: only `SendAppends` lengthens the queue, after its own
  test.
* **`ReceiverWakeup`**: `NoLostReceiverWakeup`. While some receiver sleeps there
  are as many notified receivers as messages. Inductive with `TypeOK`: an append
  raises both sides (a notify always finds a sleeper there), a notified receiver
  that takes a message lowers both, one that finds none has an empty queue.
  Evictions and time-outs only help. The proof counts with
  `FiniteSetTheorems`.
* **`SenderWakeup`** and **`ClosedWakesAll`**: the same for senders, and that
  nobody sleeps on a closed queue, from the premise `Mortal = {}`. The premise is
  necessary: an eviction frees slots without a notify, and a receiver woken by
  `close` that evicts waits again (section 5).
* **`Fifo`**: `FifoOrder`, from lemmas on concatenation and on what `Stale`
  splits off.
* **`DropsOnlyTheExpired`** and **`OnlyTheLiveDelivered`**: `OnlyExpiredDropped` and
  `NeverDeliversExpired`. Both rest on what `Stale` is: the longest prefix of the queue
  whose messages have expired, so that all of it may be dropped (`DropInv`) and the
  message behind it is alive. That nobody gets a message twice needs that no message is
  in the queue twice, which needs that none was sent twice (`SentOnce`).
* **`TaskSchedulerProofs!TypeCorrect`**: types, deque bounds, and what a thread
  holds at each point of its loop (a worker holds a task exactly at "check", "begin"
  and "run", the rebalancer only in the middle of a pass).
* **`OnePlaceAlways`**: `OnePlace`. Its four conjuncts are proved together, since
  each move between two kinds of place relies on the exclusion of the others;
  there is one lemma per kind of move.
* **`RunsOnceAlways`**: `RunsOnce`. It needs that a task that is queued, or that
  a worker holds before it runs it, was not called (`Uncalled`, `CalledOnce`),
  which needs `OnePlace`: with a second copy the other worker would call it
  again.
* **`LifecycleKept`**: `KeepsLifecycle`, the refinement of `TaskLifecycle`. Every
  step of a thread is shown to be a step of the life cycle for the task it is about, and to
  leave the lives of all others alone. What a life depends on is said once (`Rests`,
  `RestsKeepsLife`), and so is which places a push, a take and a drop change
  (`PushPlaces`, `TakePlaces`, `DropPlaces`); each group of steps is then a lemma of
  its own. Beyond the earlier invariants it needs that a task in its function was
  called exactly once and that nobody cancels a task which does not exist (`LifeInv`).
* **`NothingDroppedWithRoom`**: `NoTaskDropped`. *Premise*: `RoomForAll`, a deque has
  a slot for every task that is ever submitted. The premise is necessary: the rebalancer
  ignores a put-back that a full deque refuses (section 5). With it, a deque that lacks
  some task is not full (`RoomLeft`, from `OnePlace` and cardinalities), so that every push
  is taken; each step of a thread then moves a task, sets its future or leaves it alone
  (`MovesLoseNothing`, `DroppingDone`), and a done task alone may leave its place.
* **`RoundRobinProofs!ProcessesAlwaysKept`** and **`GivenUpOnlyWhenEmpty`**:
  `ProcessesKept` and `IdlesOnlyWhenEmpty`. How often a process is queued is not
  inductive by itself: a process that is queued anew must have been there at most once
  before, so `QueuedByState` gives each state its bound, and `Kept` and `Out` say who must be
  in the queue and who must not. Stale calls of `SYS_EXIT`, `SYS_SLEEP` and `SYS_YIELD` are where
  a second entry comes from. The removal from the ready queue is `Without`, with lemmas
  on order and multiplicity that rest on the least element of a set of indices.
* **`ServiceProofs!NobodyOversleeps`**: `SleepersLackPermits`, inductive with the types.
  **`NamesLeadToOne`**: `HoldersAgree`, from what the registry keeps about every object
  that was ever handed out. **`RepliesAreToTheQuestion`**: `RepliesMatch`. Its
  invariant says who wrote each message and in which mailbox it may lie, and, for
  an agent whose partner only answers and whose requests never timed out, that at most
  one message of the pair is under way and is of its last request (`OneAtATime`).
* **`ServiceProofs!TopicsAreRouted`**: `IndexFinds` and `RoutesByTopic`, for any patterns,
  topics, priorities and threads. `EventBusInv` says that the list holds every active
  subscriber, each once and in the order of priorities, that the index is the one computed
  from that list, and what each publish under way has served and has yet to serve
  (`Routed`). That `_topic_matches`, a recursion, decides whether a pattern covers a topic
  (`MatchingIsCovering`) is shown without induction over data: the recursive function exists
  by a least position at which it would not (`LeastNumber`, `MatchExists`, `MatchIsOne`), and
  `CoversFrom` unfolds covering by one segment as the code does (`CoversNext`). Removal from the list
  is `Those`, whose order is proved from the count of the positions before each (`NthExists`).
  **`MessagesAlwaysFind`** puts the event bus, the namespace and the channels together.
* **`ServiceProofs`**, the network: `AddressesTyped` and **`RepliesAreNotMissed`** (`NoReplyMissed`, which is
  inductive with the types, because `wait_for` registers under the lock in which it found
  no entry); `SentinelTyped` and **`OpenExactlyWhileRunning`** (`OpenWhileRunning`, with the
  state of socket and threads at every step of `start` and `stop`); `QueriesAreTyped` and
  **`LookupsAlwaysAnswered`** (`LookupsAreAnswered`, with the budget that is left at
  each point of a call and the identifier that is its own while its entry is there);
  **`FramesAlwaysDecode`** (`FramesDecode`, with a bound on labels by jumps and the arithmetic of the
  three layers' lengths).
* **`ServiceProofs!TasksAlwaysServed`**: `TasksAreServed`, from four theorems.
  `TasksAreAnswered`: every message that is under way owes its task a number of answers,
  read from its receiver, its type and its marks (`Owed`), and no agent drops or adds one:
  what it sends owes what it received, less the syntheses that the orchestrator has counted
  (one lemma for each agent, then `AgentPasses`). A step therefore keeps the sum of what was answered
  and what is under way (`SwarmInv`), and with empty inboxes it is what was answered. The sums are
  over six inboxes of any length (`Total`, `TotalOfAll`), and delivery in the order of sending
  only moves them (`DeliveredAll`).
  `AgedAreNeverPassed`: the queue is in order of its ratings (`IsQueue`), and a rating is of a
  time between the task's submission and now; an aged task is rated 0, so that a task which was
  submitted later can only be behind it (`OverflowInv`).
  `NeverTwoHops`: a score is the distance and a part between 0 and 15 (`ScoreIs`), as long as
  the averages stay in range (`AverageIs`), and the scan returns a least one (`BestIs`).
  `MapsInOrder`: the collected values are the first items, all of them done.
* **`KernelProofs!StorageAlwaysApart`**: `StorageIsApart`. Physical memory: what was given
  away is used, above the first megabyte and shared by no two blocks, and the counter is the
  number of free pages. Bus: every region ends below the next free address, hence the
  first region that holds an address is its own. Descriptors: a number is in one hand at
  most, `PicksNext` gives a number that is not in the table.
* **`KernelProofs!KernelAlwaysWhole`**: `KernelIsWhole`, for any screen, buffer, text, set of
  lines and length of memory. A kernel that is up is of one boot because one thread at most
  is between the start of a boot and the end of its REPL, and what that thread has built so far
  is of this boot (`KernelInv`). Keys: the keyboard's buffer is read from the presses by an
  increasing map, and a make code that its handler has still to fetch is the last press and is
  not in the buffer (`KeysInv`); a full buffer drops its oldest key, which only shifts the map.
  *Premise*: `9 \notin Irqs`. It is necessary, since `irq + (32 if irq < 8 else 24)`
  (`aios_core.py:909`) gives line 9 the vector of the keyboard, whose handler would then take the
  last code from the port twice; nothing in the code raises line 9. Screen: what is
  displayed is the end of the page that the text makes, character by character (`ScreenInv`).
  Gate: whoever registers a handler or attaches a table, a vector keeps whether it pushes a
  code (`GateInv`). Copies: `Moves` makes a copy one word or byte after the other, and no move
  reads what an earlier one wrote (`SequelIsRun`), hence any number of them is one transfer; the
  word tier onto a destination inside its source is excepted by the property, as it fails
  there (section 5).
* **`KernelProofs!HardwareAlwaysTold`**: `HardwareIsTold`, for any machines and any width of the
  registers. A tile fits by arithmetic on the rounded square root (`TileFits`), the counters of a thread
  are open in its block only, and a reading is the clock's time then modulo `MsrSize`, so that
  the masked difference of two is exact while the ticks between them fit (`ClockInv`).
* **`KernelProofs!ReadyMeansRegions`**: `ReadyWithRegions`, the action property, from
  `LifeInv`: before an owner allocates its i-th region, the earlier ones are on the bus of the
  layer. *Premise*: one owner. It is necessary: with two, one's `initialise` replaces the
  bus while the other is halfway through its regions, and then declares the layer ready.
* **`SystemProofs!SystemsAlwaysWhole`**: `SystemsAreWhole`, for any number of systems, sizes,
  commands and keys, whatever program fails and wherever a command is killed; what it
  promises has the two exceptions that the code makes: a system whose delete was stopped
  half way is no longer whole, and a loop device that a lock did not see is left.
  None of its parts is inductive: what holds when a command is over
  depends on what it owned while it ran. `StoreInv` says that for every step of every
  command: the image that `do_new` makes has no directory yet (`MadeAside`); the
  directory of a boot disk under construction is nobody's clone, has no metadata and,
  after sgdisk, the partitions of its plan (`DiskAside`); a loop device without a mapper is
  that of the running command, and of none from "meta" on, or is in `leftLoops` (`LoopsOwned`). A plan that is
  in the metadata stays the plan of the image behind it through clone, rename, resize
  and encryption (`PlanKept`); that such a table has the alignment and the
  sizes that `LayoutAsPlanned` asks for is arithmetic on quotients (`Sectors`,
  `PlannedLayout`). The cursor needs only that it is never before -1. Assumed of the
  constants: sizes that are not 0 and an alignment that is a multiple of the sector.
* **`FrugalSystemProofs`: `TypeCorrect`, `EditsAreKept`, `EditsAreShown`,
  `BaseIsRecoverable`**. None of the three safety properties is inductive, because
  what a step may destroy depends on what earlier steps of the command have
  copied. The invariant `IInv` says that for each point: before the conversion
  ends, the ext4 image or its renamed copy holds everything (`Plain`); after it,
  base and a usable save layer do together (`Layers`); from the success of
  `mksquashfs` to the swap the new base holds both (`Flattened`), which is why
  `failed` and the umounts matter; from the swap to the end of the format the base
  alone does (`Merging`); while a rollback copies, snapshot and base do
  (`Copying`). While the base has no name, `Lower` is the new one. There is one
  lemma per command or step, and a common one for each kind of step (`SameFiles`,
  `SameBase`, `BaseFrom`, `PlainFrom`).

* **`WorkbenchProofs!BootStaysInStep`**: `BootIsInStep`. While stages run the automaton's
  cell is the number of the last one and each block is of its stage; afterwards, an agent that
  holds the chain's lock has made its block and not linked it, or linked it and not moved
  the tip, and in both cases `TipIsLast` says which block the next one has to name.
* **`WorkbenchProofs!AlwaysLearnsFromItsData`**: `LearnsFromItsData`, from six theorems.
  `EvictionAlwaysFinds`: every live episode has an entry in the heap, behind whatever stale ones.
  `WeightsAreNeverNewer`: the slots increase, and what a reader copied is, slot by slot, not
  newer than what lies there now. `BatchesAlwaysRecent`: a cell of the ring has the last
  step with its residue, by arithmetic on `%` (`PushIsRecent`). `AlwaysTrainedInOrder`:
  the buffer is a suffix of what was ingested and the trained traces lie before it, with
  nothing lost below the limit. `FactsStayApart`: ids differ, keys that are kept whole are not
  similar to one another's facts, and the value of an id is of the last call that returned it,
  of the facts that a sparing and an eviction leave, each of which was there before
  (`TakenFrom`). The store keeps to its capacity until the first load only, which adds facts
  without looking at it (`aios_memory.py:1363`); the property says so.
  `AdvantagesStayEpisodic`: `gae` is a backward recursion over
  the rollout, and its sums are those of the episode in which each step lies (`GaeIsEpisodic`).
* **`WorkbenchProofs!ImagesAreAlwaysWhole`**: `ImagesAreWhole`, from three theorems.
  `LoadedIsAlwaysCompiled`: two compilers may write over one file, so that its blocks are of
  different images; the digest in the first block names all the others, and a first block is
  always of a source that was compiled (`ImageInv`). What was packed is unpacked the same for any
  bytes and any length of runs (`PackingIsLossless`). `ExecutionsAlwaysEnd`: when every
  thread is past the exit of its program the shared population is empty, and a temporary
  file belongs to a thread between its creation and its unlinking. `OpenedIsAlwaysWhole`: the
  file is a part of the last save, and a loader that saw no other save begin has the entries
  of this one (`ModelFilesInv`); hence a file as long as its header asks for is all of it, and rows
  that fill the shape lie where the tensor put them (`FileIs`, `FullRows`).
* **`WorkbenchProofs!KeysAreAlwaysTyped`**: `KeysAreTyped`, from two theorems.
  `TextIsAlwaysTyped`: `Meant` reads the whole input at once, the reader byte by byte and
  the tick in batches. The invariant `NothingMissed` speaks of the future: whatever bytes
  follow, all of the input means to an empty field what the queue, and then the keys from the
  first byte that is pending, mean to the field as it is. A byte moves it on because
  an open sequence has no end yet (`OpenHasNoEnd`) and, once it has one, is decoded to its
  meaning (`SequenceMeans`, `DecodesTheMeaning`); the tick, because events in batches make of
  a field what they make at once (`EditedInBatches`). It holds while no event was dropped and the
  reader lives, which is what the property asks of. `CharactersAlwaysMatch`: the flag of shift is whether
  a shift key is down, as long as there were never two, and the lock is its presses (`EvdevInv`).

`gae`, the coder, `FlattenSeq`, the offsets of tensors, `Edited` and `KeysFrom` are defined by recursion. What they
compute is proved without induction over data: the recursive function is built by well-founded
descent on its indices (`BackwardRecursion`, `ForwardRecursion`), so the equation
of its definition may be used, and a set of indices on which a statement holds is all of them
when no least or greatest one is missing (`DownwardInduction`, `UpwardInduction`).

Assumed of the constants, besides their types: the tasks that are composed or faulty are tasks
(`SwarmAssumption`), priorities are natural numbers (`OverflowAssumption`), samples of misses
are at most 1000 thousandths, distances are natural numbers and nobody is not a node
(`PlacementAssumption`), confidences are natural numbers
(`Confidences`), nobody is not an agent (`BootAssumption`), a run of the coder is at least two
bytes (`RunMax`; 128 in the code), slices of rows have no negative numbers (`RowSlices`), the
event queue and the text field have room for something, and a pause is not a byte
(`KeyInputAssumption`).

What remains with TLC, and why: all liveness properties (fairness);
`GradientsAreDerivatives`, `TerminalIsFaithful`,
`NumbersAreExact` and `DesktopIsShown`, whose modules compute with recursive
operators or with folds over trees, grids and bags, which the provers cannot unfold for
every size, or compare with a floating-point table's entries.

## 5. Divergences without a run

Met while modelling, besides those of section 3; the hazard list of
`PROJECT.json` names the lines.

* `MessageQueue._evict_expired` (`aios_ipc.py:196`) frees slots without a notify:
  a sender stays asleep although the queue has room, while `send` says that it
  "Blocks up to timeout seconds if the queue is full" (`:204`).
* A future may be set twice, by `cancel` and by the worker; the class says that
  its event "is set exactly once" (`aios_scheduler.py:226`).
* `submit` overflows when the one worker it scored best is full; the comment says
  "If all workers are full" (`:1145`).
* `stop` before `start` marks the scheduler stopped, then raises when it joins an
  unstarted thread; a scheduler started later cannot be stopped (`:1105`).
* A preempted process waits in the queue with state RUNNING, where the docstring
  of `tick` says "RUNNING → READY" (`aios_process.py:1194`). For this reason
  `QueueBounded` says two entries and not one.
* A preempted process is dispatched again with the quantum it had used up
  (`:1239`), hence preempted at every tick from then on.
* `_isr` tests for BLOCKED without the lock; when `unblock` raises, EOI is
  skipped, which "must be sent before returning from ISR" (`:1436`).
* The quantum grows with the number of ready processes (`:1172`), which the
  comments at `:1107` and `:1177` state differently from the formula.

* `SYS_SLEEP` blocks the process and registers it in no sleep table
  (`aios_process.py:1350`), so nothing wakes it; the comment at `:1291` says "block
  for N ticks".
* `cancel` sets the future and returns True for a task whose function is running
  (`aios_scheduler.py:265`), where its docstring says "task was still PENDING"; and
  a task whose future it set between the worker's look at it (`:517`) and the call
  (`:573`) is called, against "Mark the future cancelled before it begins execution"
  (`:256`). `TaskScheduler!CancelledNotCalled` states that no task is called once its
  future is set, and TLC refutes it.
* `merge` looks only for the overlay's mount (`_frugal.py:181`), rollback also for
  the save layer's (`:159`), which a killed mount leaves behind, writable.
* `_unique_snap_name` (`_util.py:306`) promises a name that "doesn't exist yet as a
  snapshot", but tests for a system directory: `snap` overwrites its snapshot.
* `new --type frugal` (`_image.py:212`) makes a system of type "frugal", `new --type
  overlay` one without the frugal mark; the frugal commands need type "overlay"
  with the mark (`_frugal.py:98`), which only the conversion sets, although the
  help calls frugal an "alias for overlay with frugal metadata" (`cli.py:370`).
* `do_frugal_list_snapshots` uses `os`, which `_frugal.py` does not import.
* `resize` of an overlay truncates `save.img` before `resize2fs` (`_image.py:606`),
  also when it shrinks it.
* `close` says that it "Unblocks all waiting threads" (`aios_ipc.py:269`); a woken
  receiver that finds only expired messages evicts them and waits again on the
  closed queue (`:244`).
* "No task is silently dropped" (`aios_scheduler.py:957`): the rebalancer puts a
  task back into a deque that filled up meanwhile and ignores the refusal (`:866`).
* "Every submitted task gets exactly one TaskFuture signal" (`:956`): tasks in
  deques when the workers stop are never signalled (`:1110`).
* `SYS_EXIT` is to "terminate calling process" (`aios_process.py:1288`): a process
  that exits after it was preempted stays in the queue and runs again (`:1165`).
* Deadlines do not raise a priority, although `TaskSpec` says so; an idle worker
  does not drain the overflow queue; `map` returns None for a cancelled item.

The following are stated as properties in the modules; no run lists them because
TLC refutes them:

* `AddressCache!EveryWaiterWoken`: the second waiter for an address replaces the
  first. `NameQueries!OnlyDocumentedErrors`: an alias in the last answer ends in a
  TypeError; answers with an error code are discarded (`aios_network.py:1661`).
  `FrameDecoding!TruncationIsRefused`: a name that runs off the message without its root
  label is returned, with a next offset beyond the end of the data unless a pointer came
  first, where the docstring says "Raises ValueError on truncation"
  (`aios_network.py:961`) and that the offset follows the name.
  `Sentinel!SendRaisesInterfaceError`: a send after `stop` raises AttributeError.
* `IpcServices!OneOpenQueuePerName`: `close_queue` forgets a queue that its holders
  still use (`aios_ipc.py:795`).
* `AgentKernel!RegisteredToolsRun`: tools registered by a class body lack `self`.
  `AgentKernel!NoPhantomKeys` with line 9: lines from 8 on get vector irq + 24
  (`aios_core.py:909`), and 33 is the keyboard's.
* `VirtualFiles!RefusedOnlyWhenFull`: the search for a descriptor steps by three
  through 1023 slots and sees a third of them (`aios_vfs.py:273`).
* `EpisodicMemory!CapacityKept`, `FinishedAreIndexed`: a load outgrows the
  capacity; the sleep cycle's rebuild of the index loses what was stored after its
  copy. `MemoryStores!WeightsAreTheirs`: weights computed from a copy are
  written to slots that moved (`aios_memory.py:378`); `LoadedAreApart`: load keeps
  other keys than store (`:1276`).
* `Reinforcement!ZeroSamplesToo`: the draw 0 reaches a slot that was never filled.
  `BootstrapAfterLastStep`: the value of the wrong state stands for the
  future (`aios_rl.py:1386`).
* `FeedbackLoop!NoneIngestedTwice`, `StepsCounted`, `RunningHasThread`:
  `force_train` beside the loop (`aios_feedback.py:996`), start after a stop whose
  join timed out (`:776`). `Reinforcement!RecentAreShaped`: it
  compares a count of all calls with the length of the recent ones.
* `Training!LearnedPositionsLearn`: gradients do not reach the positions
  (`aios_phase4_nn.py:1663`); `DropoutOffInEvaluation`: some modules' flag stays set
  in evaluation.
* `BootSequence!MapCoversRam`, with RAM up to 16 MiB. `Swarm!ConvergedIsFixedPoint`:
  a run that ends at its limit reports the convergence of an earlier one
  (`os/asis/README.md:61`).
* `Desktop!InvalidatedIsRepainted`: `_dirty` is reset after the paint that another
  thread's output overtook (`aios_desktop.py:457`); `NoShellLeft`.
  `Terminal!AnyChunksDoNotMatter`, with operating-system commands cut in two;
  `CutColourIsNothing`: what is left of a colour that is cut off is read as attributes
  (`aios_desktop.py:671`); `ReadsItsOwn`: a reader may take output from a terminal
  that got the number `stop` has closed (`:597`).
  `FileBrowser!BrowserNeverRaises`: ENTER in an empty directory uses a name that is not
  bound (`:1552`), and a directory that is gone raises (`:1478`); nothing between there
  and the desktop's loop catches it.
* `DisplayServer!EveryPixelBlendedOnce`: the corners of an outline and several pixels
  of a circle are blended twice, which shows with translucent colours
  (`aios_display.py:954`, `:974`). `TextsAreShown`: a text that is set after its widget
  was painted and before the walk returns from it is marked clean (`:1316`), as is
  a title (`:2286`). `ClickReachesShown`: `on_event` takes the frame off the point, and
  `absolute_origin` of the client panel adds it again, so that clicks hit what lies
  one frame and title bar further up and left (`:2293`, `:1335`). `FocusInTree`: a removed widget
  keeps the focus (`:1283`). `StackedWithGap`: a box lays its children out when one is added
  and not when one is removed (`:1557`). `ScreenIsOurs`: a start beside a stop
  loses the alternate screen or the input, and a loop that outlives the wait
  draws on the normal screen (`:2527`).
  `KeyInput!ReaderSurvives`: "ESC [" and a pause end the reader
  (`aios_display.py:1738`).
* `AgentImages!RunningSaysRunning`: the state is read back from the automaton's
  population as another one (`recu_compiler.py:1397`).
  `ModelFiles!SlicesStayInside`: rows beyond the tensor are read from its neighbour
  (`custom_model_format.py:372`).
* `SystemImages!EncryptedIsKnown`: a failure after the conversion leaves an encrypted
  image recorded as plain (`_crypto.py:80`); `MountsOwnImage`, `FilesystemFits`,
  `FailureIsShown`. A lock ignores a `cryptsetup status` that fails (`_crypto.py:169-182`)
  and removes the mapper without knowing its loop device, which then stays until the next
  reboot, as nothing else names it. A delete is a `shutil.rmtree` (`_image.py:292`): killed
  in the middle it leaves a directory without metadata or without an image.
* `Hardware!WorkloadFits`: the fallback node ignores its memory
  (`aios_hardware.py:1245`). `ReadyHasRegions`: a second `initialise` starts on a new bus
  (`:1865`) and, when an allocation fails, leaves `_ready` as the first one set it.
  `ReadyWithRegions` is only about the step that sets it. The PIC keeps the table it was made with, so after
  `attach` its interrupts reach the old one (`aios_core.py:846`).
* `Numerics!AtanInRange`: the vectoring loop of `atan2` takes the wrong sign
  (`aios_core.py:1157`) and turns away from the axis, so that `atan2(1, -1)` is about
  4.88 where the docstring says "Returns angle in [-π, π]" (`:1138`); `atan2(0, 1)` is
  1.74 and `atan2(1, 1)` is -1.74. Nothing in the repository calls it.
* `TaskOrder!SamePriorityFifo`: equal ages are taken at different times
  (`aios_scheduler.py:892`); `ChoosesRoom`: the score does not look for room
  (`:1145`).

Others, by file:

* `aios_rl.py`: `ReplayBuffer.sample` draws with replacement although its docstring
  excludes it (`:727`); the prioritized draw falls through to index 0; `evaluate`
  shares the environment with `train` without the lock (`:1895`).
* `aios_vfs.py`: O_EXCL is ignored; O_CREAT looks and adds in two locked sections;
  O_APPEND seeks and writes in two (`:232`); `mkdir("/proc")` makes a directory
  that the mount hides.
* `aios_memory.py`: nothing lowers a fact's confidence on contradiction, which the
  header promises; `recall` does not use the LSH index; a truncated snapshot loads
  short embeddings silently. `aios_feedback.py`: `ToolIndex` wraps after 64 (`:282`).
* `aios_phase4_nn.py`: `mean(dim)` reduces another dimension (`:747`); Huber and BCE
  gradients are divided by n twice (`:1214`, `:1236`); coercing a scalar tensor
  detaches it (`:951`).
* `recu_compiler.py`: markers are lower-cased (`:469`), a shebang branch is not
  reached (`:805`), a failed write leaves the temporary file (`:1968`).
  `aios_bootloader_kernel.py`: callbacks run under a lock that is not reentrant
  (`:1403`); default handlers count twice without a lock (`:1128`, `:1194`).
* `asis_enhanced.py`: all results are under "result:unknown" (`:562`).
* `aios_desktop.py`, `aios_display.py`: a raised window goes above taskbar and
  pointer (`aios_display.py:1150`); releasing one shift key clears the other (`:326`);
  a line feed below the scroll region scrolls it.
* `custom_model_format.py`: a failed open leaves the file and a second `open`
  returns at once (`:261`); a slice with stop 0 gives all rows; a tensor called
  "__metadata__" is lost.
* binsys: `do_rename` leaves the application lock under the old name,
  `do_unprotect` asks for no password, `do_delete` leaves an open mapper, a failing
  copy in `do_clone` leaves half a system, a kill between rename and `save_meta`
  leaves metadata of another name, the menu's cursor is -1 after DOWN on an empty
  list.
* `aios_process.py`: the word-wise copy corrupts overlapping regions that move
  upwards; `tick` returns a positive preempt count for ever (`:1609`).

## 6. Plan

1. *Done*: every component of AIOS and the binsys store, as listed in section 1.1.
2. *Done*: proofs of the queue, the scheduler and its refinement, processes, the frugal
   systems, the network, semaphores, names, channels and the event bus, the binsys store, the
   kernel with its memory, files and hardware, the boot, memory and learning, the
   images and tensor files, the keyboards, the order of tasks and the swarm. Left to prove: the parts of `DesktopIsShown` and `TerminalIsFaithful`
   that compute without recursion.
3. Left to model: FrugalOS plugins (load and unload with a failure at any command),
   network isolation and init (order of set-up), the UEFI menu's countdown,
   `SharedMemoryRegion`, lists and text views of the display server, REINFORCE.

## 7. Not modelled

* Floating-point values: networks, embeddings, activations and their gradients are
  modelled where whole numbers decide the control or the bookkeeping (shapes,
  accumulation, running means, schedules) and left out beyond that.
* Fonts and palettes, frame buffers, event codecs of mouse and touch, the text of `/proc`, CPUID and
  MSR decoding, dashboards, statistics: formatting of data without state.
* QEMU and ISO invocations beyond their effect on files and devices, the command
  line, the build scripts and wizards: external programs one after the other.
* FrugalOS shell scripts and the UEFI loader (Rust): see the plan.
* In modelled components, what each leaves out is said in its module's header and
  in the notes of `PROJECT.json`.
