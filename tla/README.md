# OCR-vx: TLA+ models and proofs

OCR-vx implements the Open Community Runtime: programs are graphs of tasks
(EDTs), events and data blocks, and the runtime decides when a task runs and
which data blocks it may touch.  The repository holds three runtimes:

* **distributed** (`include/distributed`, `src/distributed`): nodes exchange
  messages over a local, MPI or socket transport; a data block is cached on
  several nodes and kept coherent;
* **shared memory** (`include/shmem`, `src/ocr*.cpp`): threads of one process
  share the graph under spin mutexes (TBB);
* **one** (`include/one`, `src/one`): a single-threaded runtime.

## Inventory

### Distributed runtime

| part | state | operations | what makes it correct |
|---|---|---|---|
| data-block coherence (`struct synchro_data`, `struct db`, `CMD_db_*`) | per node: invalid / copy / master, lock counters, waiting tasks, copylist; at the owner: the current master, queue of next masters | lock and release by tasks, elevation, transfer of copies and of the master role, invalidation rounds, destruction | incompatible tasks never hold the block together on a node; writers on one node; every copy is on the copylist; no write lost; a task sees every write its dependences promise; nobody waits for ever |
| a task's blocks (`edt::try_acquire`, `release_db_early`, groups) | per task: blocks in locking order, how far it has got, what it owns, its gate | lock, read the handle, release early, give by value, end | every slot's mode is respected; a release waits for old copies; no deadlock between tasks |
| message ordering (`runner` in `communication.h`) | per stream: last sent, last confirmed, deferred messages | send, defer, confirm, forward | each sender's messages take effect in order; nothing deferred for ever |
| events, EDTs, finish scopes | pre- and post-slots, latch counters | satisfy, add dependence, finish | each slot satisfied once; a scope closes after everything created in it |
| collective events | a window of generations | contribute, subscribe | each subscriber gets its own generation, complete |
| object repository and cache, preallocated guids | tables of objects, range of guids | reserve, draw, pull, push | a guid names one object; remote use waits for creation; cached pointers stay valid |
| runtime control | barrier counter, pause and flush flags, lists of what was put aside | `CMD_barrier`, `CMD_pause`, `CMD_flush`, ... | no node leaves a round early; a flush sees quiet channels; a pause loses nothing |
| checkpoints | one file per node | save, load, resume | a loaded node is the node that was saved; the files together are one state |
| transports | sockets of every pair of processes, counters of messages | connect, send, receive, drain, exit | every port paired; the drain ends when nothing is left; every process ends |

Nodes interact only by messages; the handler of a message runs under the mutex
of the object it is for.  Hard here: messages of different streams overtake
each other, a node's state changes between a request and its answer, the master
role moves while tasks, copies and invalidations are under way; a pause, a save
or the end of the runtime may fall between any two of these steps.

### Shared-memory runtime

| part | state | operations | what makes it correct |
|---|---|---|---|
| block locks (`wait_for_graph`, `db_data`) | per block: two counters, a flag, three waiting lists; per task: sorted block list, position of its walk, held blocks | walk over the blocks, unlock, waking, early release | exclusion by mode; no lost wake-up; no deadlock of tasks or of mutexes |
| events and EDTs (`event`, `edt`) | slots, latch counters | satisfy, add dependence, finish | each post-slot satisfied exactly once |
| schedulers and thread blockers (`ocr_tbb_tasking.h`) | task queues, numbers of running and desired threads | push, steal, block, adjust | every task runs once; the number of threads converges; shutdown ends |
| allocator, metrics, guid ranges | free list, published counters, labelled guids | allocate, free, reserve | regions do not overlap; one object per label |

Threads interact through memory under one spin mutex per node and per block.
Hard here: which mutexes are held together and in which order, and decisions
made under one mutex that are acted upon under another.

### Runtime "one"

The same graph without concurrency: tasks run one after another, and a call
satisfies, spawns and deletes by recursion before it returns.  Hard here: what the
recursion deletes while calls further out still name it, and results that depend on
the order of calls.

## Modules

| module | what it is | composed with |
|---|---|---|
| `DbCoherence` | the coherence protocol of one data block (distributed) | refines `DbPromise` |
| `TaskBlocks` | how the tasks of one node acquire and release several blocks | environment: what `DbCoherence` does for one block |
| `MsgStream` | runner, confirmations and followups (distributed) | refines `StreamPromise` |
| `DistGraph` | events, EDTs, finish scopes, collective events (distributed) | uses the order `StreamPromise` promises; refines `FinishPromise` |
| `Objects` | guids, repository, cache (distributed) | streams as in `MsgStream`, one message at a time |
| `RuntimeControl` | barrier, pause, flush, resume, shutdown | |
| `Checkpoint` | saving, crash, loading | the pause of `RuntimeControl` in one step per node |
| `Transport` | connections, receivers, drain, exit | |
| `ShmLocking` | block locks of the shared-memory runtime, mutex by mutex | |
| `ShmEvents` | events, tasks, finish scopes of the shared-memory runtime, mutex by mutex | refines `FinishPromise` |
| `Scheduler` | task stealing and thread blockers of the shared-memory runtime | |
| `OneRuntime` | the single-process runtime | refines `FinishPromise` |
| `DbPromise`, `StreamPromise`, `FinishPromise` | what a block, the message layer, a graph of tasks promise | abstract specifications |
| `DbCoherence_proofs`, `ShmLocking_proofs`, `FinishPromise_proofs`, `Scheduler_proofs`, `RuntimeControl_proofs`, `Objects_proofs`, `TaskBlocks_proofs`, `Transport_proofs` | theorems for all constants | |
| `MC...` | one instance per module above for TLC, with one cfg each | |

All three runtimes implement the same `FinishPromise`.

### DbCoherence

One block, the nodes, and the tasks that use it (each task runs once on its
home node, in one access mode).  `db[n]` is the node's `synchro_data`, `owner`
the `owner_data` at the owner, `chan` the messages under way.  Each `CMD_db_*`
handler is one operator from the node's record to a *result* (new record,
messages, failed assertion), because the code holds the object's mutex over
the whole handler; it carries the source's name in capitals.  Task actions:
`Satisfy` (last dependence arrives; try_lock and, if the copy is not good
enough, a request), `Write`, `Finish`, `Release` (also the early `ocrDbRelease`)
and `Destroy`.  A failed `assert` sets `aborted` and stops the system, as in
the code.

`chan[n][s][d]` is a queue per sender, *stream* and receiver.  The stream is
the task on whose behalf the message is sent, or the node itself.  Messages of
one stream arrive in order; streams are not ordered against each other, which
is what the sending `runner` guarantees (`communication.h`, 1642-1681): it may
hold back one stream while it waits for a confirmation and send on another.

Abstractions: the block's contents are the set of writers whose modification
they include; `copylist` and the master's copy waiting list are sets; a task
has this one block (`TaskBlocks` is about tasks with several).  The history variables
`written`, `released`, `needed`, `view` record what `DbPromise` speaks about.

`DbPromise` has no nodes' states and no messages: tasks ask, hold, write and
leave; `Move` says which sets of tasks may get the block and what they find in
it.  `ImplementsPromise` is the refinement, with `phase` computed from `pc`.

### ShmLocking

A task's *walk* (`try_lock_all__locked`) locks its blocks in guid order under
the task's mutex, each in the mode combined from all its slots
(`combine_modes`), and stops in the waiting list of the first block that is
taken.  `Satisfy`, `TryLock`, `Spawn`, `LeaveMutex` are the walk; `Start`,
`Release`, `End`, `Finish` the task; `Unlock`, `Wake`, `LeaveUnlock` the
unlocking thread, which holds the block's mutex while it takes each new owner's
mutex and continues that task's walk.  `dbMutex` and `taskMutex` say who holds
each mutex; a step is what a thread does between two acquisitions, so every
order of acquisition, and every deadlock it could cause, is a behaviour.

Counters are unsigned and wrap (`Decrement`).  `left[t]` holds the calls of
`unlock` that a release or the end of a task still has to make.  Abstractions:
blocks created while the first task runs exist from the start; a program is the
constant `Slots` (which blocks, in which modes, on which pre-slots).

### ShmEvents

`mutex[n]` is the spin mutex of a node; `event[e]` the fields of `event` and its
subclasses (`triggered_`, `destroyed_`, the latch counter, the queues of a
channel); `post` and `pre` the slots; `scope[t]` is `finish_for_children_`.  A
thread's `stack` has one *frame* for each call it is in: `satisfy_event_internal`
recurses through chained events and keeps every mutex on the way, so a frame
records the mutexes it holds and the post-slots it has still to serve.

| actions | code |
|---|---|
| `SatisfyNode`, `ServeNext` | `satisfy_event_internal__locked`, from outside and for the next post-slot |
| `LockFirst`, `LockSecond` | `dual_lock` and the rest of `add_dependency` |
| `Leave`, `Eliminate`, `DestroyEvent` | release of the mutexes, `eliminate`, `ocrEventDestroy` |
| `CreateTask`, `SpawnTask` | the constructor of `edt`: its own calls (count the new task in the latch of the scope, link the output event to the latch, link the dependences) are put in front of the creator's other calls |
| `Start`, `End`, `Finished` | `edt_task::execute`, `notify_task_finished`, deletion |

A step reaches from taking one mutex to wanting the next, so all interleavings
of mutexes are there.  Abstractions: a task's program is a constant sequence of
calls; the program's events exist from the start; the blocks of a task are always
granted (`ShmLocking` is about those).  `spawns`, `sent`, `fed`, `asked` are
histories the properties speak about.

`FinishPromise` knows tasks, what they depend on and the scopes they were
created in: a task begins after what it needs has fired, and a finish task fires
after everything created in it.  It mentions no event, latch or mutex, so the
distributed runtime can be shown to implement it too.  `ImplementsPromise` maps
`pc` to `phase`, the triggered output events to `fired`, and the finish tasks
around a task in the program text to `scopes`.

### MsgStream

`queue[n]` is the queue of node n's `runner`, with the mode of each entry;
`edtq[n][s]` its `edt_queue` for the stream s, and `unconfirmed`, `unsent` its
two counters; `wire[n][d]` the transport, with `wire[n][n]` the local queue.  A
stream is a task, a node (messages sent by no task), or a message whose handler
sends others (`message_as_edt`, a fresh guid).  `guid(0, 0)` is `NULL_GUID`, so
node 0's own stream is also the one on which a confirmation without a stream is
queued.

| actions | code |
|---|---|
| `SendStandard`, `HoldBack` | `MSM_standard`: send if the last message sent on the stream is confirmed, else put it in `todo` |
| `SendAtOnce` | followups and confirmations that are sent directly |
| `Confirm` | `MSM_loopback`: a confirmation, and the loop that sends what it sets free |
| `Post` | a task sends its next message |
| `ReceiveConfirmation`, `Handle`, `Defer` | `process_command`: a confirmation, a message, a message whose object is missing |

`Confirmation` is `stop_message_processing`, `Sent` is `process_message`: between
them they decide who confirms.  A `CT_single` message is confirmed by its
handler; a `CT_forward` message that is passed on is confirmed by whoever
processes the followup; the confirmation of a `CT_task` message is itself sent as
a message behind those the handler has sent.  What handlers do is a constant, a
finite tree of messages: `Sends[m]` goes out as part of m, `SendsAfter[m]` after
`stop_message_processing`, which an event that fires and a task that becomes
runnable call in the middle of a handler.  Handlers of a node exclude each other
(`command_processor::mutex_`), so each is one step.  Left out: flush, pause, exit
and barrier messages, which the runner sends at once outside all streams
(`RuntimeControl`); the channel that fetches objects (`Objects`); the drain at
shutdown (`Transport`).

`StreamPromise` has no nodes' queues, identifiers or confirmations: a message
is processed once, after what was sent before it on its stream to the same node,
and after every earlier confirmed message of the stream *with all that follows
from it*, wherever that happens.  A message whose object is missing may be
waived in its turn.  `DbCoherence` uses the first-in first-out part of this.

### DistGraph

`todo[s]` is what is still to be processed on stream s (a task, or a node for what
handlers start): the messages of a stream are handled in order, and those a handler
sends as part of its message take its place, which is what `StreamPromise` says of
the runner.  `late[n]` is the bag of messages put off because their object does not
exist.  `event`, `post`, `pre`, `scope`, `pc` are the fields of `event`, `edt` and
their slots; `window` and `client` those of `collective_event`.

| actions | code |
|---|---|
| `PostCall`, `CreateTask`, `DestroyEvent`, `CreateCollective`, `Contribute`, `Subscribe` | the `ocr...` calls of a task; each posts messages, creation also runs the constructor of `edt` (`EdtSends`) |
| `Process` with `HandleSatisfy`, `HandleAddPreslot`, ... | `process_command`, one operator per command; several commands for slots share one, as the event's own code decides |
| `Defer`, `Retry` | a message whose object is missing |
| `Acquired`, `Complete` | the task is handed to the scheduler; its completion, on its own stream |

Handlers of a node exclude each other, so each is one step.  Blocks are values; a
reduction is the set of its contributions.  The program of the run is told in
`MCDistGraph`.

### TaskBlocks

One node, its tasks, several blocks.  `task[t]` is an `edt` (`NewTask`): the blocks
in locking order (`OrderedGuids`, `LockMode`, from `order_preslots__locked` and
`combine_modes`), how far it has got, what it owns, its group, its gate.  `Combined`
gives the mode of a set of slots at once; theorem `CombinedOneByOne` says that this is
what `combine_modes` makes of them one by one.  `block[b]` is `synchro_data` as one node
sees it (`NewBlock`), with what another node holds in `copy`.  `TryNext` locks the next
block or waits for it, `ReadHandle` is the step after the block's mutex is released;
`Start`, `GroupBegin`, `GroupEnd` (with `EndGroup`, a block at a time), `ByValue`,
`Destroy`, `Release`, `PassGate`, `CutGate` and `EndTask` are what a running task does.
At its end `UpdateData` goes through its blocks (`update_remote_data`), one at a time,
under the mutex of the task only, so that other tasks and nodes come between; a task
whose copies have to be recalled is told of each (`Tell`, after `CopyInvalidated` has let
the mutex of the block go), and after the last one `ReleaseNext` unlocks what it still
has, again one at a time.  The environment asks for copies and the master role
(`AskCopy`, `AskMaster`), answers (`Elevated`, `CopyReceived`, `CopyInvalidated`) and
pauses; the node resumes when its tasks are no longer at work (`Stopped`).

The calls of the tasks are programs; `ProgramAssumption` is what the code asserts of them:
groups are closed and not nested, and a block given by value is one the task has acquired
and has not released before, except in the same group.

### Objects

`created[h]` and `size[h]` are the repository of node h, `cache[n]` the object cache
of n, `next` and `max` the guids n has reserved at h, `channel[n][h]` the channel for
requests that are waited for, `handler[n]` who holds `mutex_` of the
`command_processor`.  The actions follow a call from one wait to the next
(`AskGuids`, `ServeGuids`, `RefillPool`, `CreateEdt`, ...); a handler that needs an
object it does not know pulls it (`Pull`, `ServePull`, `Pulled`) and keeps the mutex;
in which order it pulls several does not matter, so they are a set.  The tasks are
programs; `ProgramAssumption` is what the code relies on when it runs one: a variable is
assigned once and used for what it holds, a label names one block, and the template of a
task was made by its creator or by a task its creator depends on.  Without the last, the
template need not have arrived where the task is created.

### RuntimeControl

`queue[n]` and `flush[n]` are the runner with its three flags, `receiver[m][n]` the
thread of n that hears from m, `pauser`, `manager` and `main` the other threads.  The
program is a set of *tokens* of work, each a message, a handler, a task or something
put aside at any time.  `Answer`, `Park`, `Resume`, `Round` are the steps of
`process_command`, `add_paused_message`, `resume`, `notify_barrier`.  `overlaps`
records that two threads were where no lock keeps them apart: a message was put aside
while its node resumed, or work that no counter includes (a handler, the launcher)
went on in a paused node.  Properties are conditional on the one they name.

### Checkpoint

`memory[n]` is what node n writes: messages and tasks put aside, the streams of the
runner, objects, labelled objects, graves of labels, caches.  `file[n]` is a sequence
of items, written by `WriteMemory` and read by `ReadMemory` field by field in the
order of the templates, so that a field written and not read, or read in another
order, misreads the file as the code would.  `BeginSave` to `ResumeNode` are the
manager and the nodes during a save, `Crash` stops all processes at any point,
`JoinGroup`, `EnterBarrier`, `LoadBegin`, `LoadNode` start them again with
`--ocr:load`.  `asserts` is whether the build keeps assertions: without them a save
goes on where the code says UNIMPLEMENTED.

### Transport

Both builds of the communicator, chosen in `Init`.  `main[p]` is where the main thread
of process p is; `up` and `down` are the two directions of a connection;
`portsIn[p][i]`, `portsOut[p][i]` the sockets.  `Master`, `Slave`, `Connect`,
`Connected`, `AcceptPeer` are the start of the socket build; `TaskSends`, `Runner`,
`Receive`, `Handle` a program with one message per stream under way; `SockStop`,
`SockExit`, `SockJoin` the end with sockets; `Wait`, `ReadUnsent` ... `Reduce`,
`MpiExit`, `MpiStop`, `Finalize` the end with MPI, where the four counters are read one
after another and `Reduce` adds up what all processes have read.

### Scheduler

`pc[w]` is where worker w is in its loop (take a task from its own queue, its node's,
steal, run, block), `queue` and `shared` are the task queues, `count` the reference
count of the task that waits for all others, `current` and `desired` the numbers of
running and wanted threads of a blocker, `blocked` the flags of the other kind of
blocker.  A step is one access to an atomic or a queue, or what happens under a
blocker's mutex; condition variables wake everyone (`Woken`).  `Adjust` and `Instruct`
are the agent's orders.

### OneRuntime

`work` is the recursion: the calls in progress, innermost first, each with what its
caller has still to do.  `Begin`, `Call`, `End` run a task; `Execute` makes one step of
the recursion.  Everything the runtime does is determined, so the model leaves open what
the program does: the calls of a task come in groups, in any order within a group.
Blocks hold sequences of numbers and files what is written back, since a chunk of a
file, a copy of a block and the deletion of a file are about contents.

## Runs

One run per component, deadlock checked everywhere but in `checkpoint` (whose programs
stop when all is done, saved and loaded).  A property that is a conjunction of named
parts is one question; the parts are stated and commented where they are defined.

| run | instance | distinct states | invariants | other properties |
|---|---|---|---|---|
| `coherence` | 3 nodes, 4 tasks in the 4 modes on the 2 nodes that are not the owner, one destroys the block | 43 207 | `TypeOK`, `LocksCompatible`, `OnlyLateElevationAborts`, `Coherence` | `ImplementsPromise`, `EveryTaskCompletes` |
| `task_blocks` | 3 tasks, 2 blocks, one mastered elsewhere, one with a copy elsewhere, 1 pause | 581 675 | `BlocksSound`, `ReleaseIsSynchronous` | `EveryTaskEnds` |
| `msg_streams` | 3 nodes, 2 tasks, 12 messages of all four kinds | 8 436 | `ConfirmationsSound` | `ImplementsPromise`, `EverythingSettles` |
| `dist_graph` | 2 nodes, 6 tasks, 9 events, 1 collective event with a window of one | 200 463 | `GraphSound`, `GenerationsComplete` | `ImplementsPromise`, `EveryTaskEnds` |
| `objects` | 2 nodes, 4 tasks, guids reserved 2 at a time | 108 225 | `ObjectsSound` | `CachedStays`, `EverythingEnds` |
| `runtime_control` | 2 nodes, 2 rounds, 2 pauses, 2 tokens | 1 181 725 | `BarrierHolds`, `PauseHolds` | `EverythingEnds` |
| `checkpoint` | 2 nodes, 5 tasks, 2 saves, 1 crash, with and without assertions | 166 535 | `LoadsSound`, `WorkBalanced` | `EveryRunEnds` |
| `transport` | 3 processes and a task with sockets, 2 and 3 tasks with MPI | 426 474 | `ConnectionsSound`, `DrainFindsAllCounted` | `EveryProcessEnds` |
| `shm_locks` | 2 blocks, 5 tasks, 4 modes, a repeated block, early releases | 241 996 | `LocksExclude`, `RunningTaskHoldsItsBlocks`, `WaitersServed` | `EveryTaskFinishes` |
| `shm_events` | 5 tasks, a finish scope inside a finish scope, all five types of event | 100 951 | `EventsSound` | `ImplementsPromise`, `EveryTaskEnds` |
| `scheduler` | 3 workers on 2 NUMA nodes, 3 tasks, both blockers | 479 398 | `WaitsForAllTasks`, `BlockersSound` | `EveryThreadExits` |
| `one_runtime` | 8 tasks, 12 events, 5 blocks, a file, a map, labels, templates | 3 137 | `RunsToOneResult` | `ImplementsPromise` |

What they show: with these programs the mechanisms hold in every interleaving, *except*
where a property names an exception.  `OnlyLateElevationAborts`, `OnlyRacesLose` (in
`PauseHolds`), `OnlyEarlyUseFails` (in `ObjectsSound`), `OnlyEarlySlavesFail` (in
`ConnectionsSound`), `DrainFindsAllCounted`, `OnlyKnownGapsFail` (in `LoadsSound`) and
`OnlyUnlockedReadsAreBlank` (in `BlocksSound`) say that the one fault described under
"Met while modelling" is the only way to fail.

Bounds.  The protocols treat all nodes, tasks and blocks alike, so what matters
is that every pair of roles meets.

* `coherence`: owner, master and reader on different nodes; two tasks of one node; two
  nodes that compete for the master role (the owner's queue gets longer than one); a
  copy waiting list and a round of invalidations at once; the destruction at the end.
* `task_blocks`: two tasks that name two blocks in opposite orders; a block named twice
  with two modes; a block named after its release; what was written is released early, in
  a group, by destruction or at the end of the task, where another block is still to be
  gone through; one copy asked for and two moves of the master role (`Asks`, `Moves`),
  enough for a recall that meets an unconfirmed copy;
  one pause (`Pauses`), which falls anywhere.
* `msg_streams`: every kind; a message passed on once and one passed on as part of a
  task message, so that confirmations come back from a third node; two nested messages
  of one handler, so that the confirmation waits behind both; a message nobody confirms
  between two that are; one put off before and one after its object is created.
* `dist_graph`: two generations and a window of one (`MaxGen`), so that a slot is
  recycled under a participant that is behind; a label used before, while and after it
  is created, and satisfied twice; a task created in a scope on the other node.
* `objects`: `Count` = 2 is exhausted and refilled while another task draws; a labelled
  block is used before its creation by a task that does not wait for it.
* `runtime_control`: a token that moves on once meets every phase of a pause; the second
  pause and the second round meet what the first has left behind.
* `checkpoint`: the second save can be torn by the crash while the first is complete;
  each kind of object is in a file at some point: a task in each state, a latch, a label
  that is destroyed, a cached block without its data.
* `transport`: three processes, so that two slaves connect to each other while the
  master is connecting; a task that sends after the shutdown was asked for.
* `shm_locks`: every mode, a waiter in each of the three lists, several waiters in one
  list, a walk resumed by another thread that stops again at the next block, two tasks
  that want two blocks.  `CounterSize` = 8 exceeds the five tasks, as 2^32 exceeds any
  number of tasks.
* `shm_events`: a channel gets two blocks and two dependences from four threads in any
  order, a link is added to a sticky and to an idempotent event before, while and after
  they trigger, the latch of the outer scope counts its own task, a child, and the latch
  of the inner scope, which is created after the child has begun.
* `scheduler`: a node the agent closes altogether and one it leaves a single thread; a
  task for a given node; a thread blocked, released and another blocked; three workers
  are the fewest with both a neighbour to steal from and one on another node.
* `one_runtime`: each type of object is created, used and deleted by the recursion while
  something further out still names it.

Queues and channels are not bounded; they grow as the behaviours make them.

Fairness.  `DbCoherence!Fairness`: every ready task goes on and ends (the
scheduler runs spawned tasks, user functions return) and every channel is
served (each sender and receiver has its own thread that never stops).  Writing
is a choice of the program and gets none.  `ShmLocking!Fairness`: each task's
walk and run goes on; early releases are a choice of the program.  Spin mutexes
are not fair between threads (`ShmEvents!FairSpec` has the same weak fairness of
each task's thread), but no thread needs a mutex infinitely often
here, so weak fairness of whoever can proceed is enough.  `Scheduler!Fairness`: each
worker thread, not the agent, which need not give its orders.  `MsgStream!FairSpec`:
tasks send, runners run, and every channel, the local queue included, has a
receiving thread of its own.  `DistGraph`, `Objects` and `RuntimeControl` only assume
that the system does not stop while something can happen; since every step uses up
something, that is all the liveness there takes.  `Transport`: every main thread goes on
for itself, since it polls the counters as long as it likes, and the other threads
together.  In `Checkpoint` the manager need not begin a save and nothing need crash; in
`TaskBlocks` other nodes need not ask and nobody need pause.

## Met while modelling

The models contain the following as the code has it.  The runs keep to programs that
avoid it, or have a property that names it as the only exception.

Distributed runtime:

1. **A late elevation request trips the owner's assertion** (`ocr_distributed.h:391`).
   Every waiting reader of a node sends its own request, one copy serves them all, they
   finish, another node destroys the block, and the redundant request arrives last.
   Exception in `OnlyLateElevationAborts`.
2. **A message that is put off leaves its stream** (`command_processing.cpp:302`).
   `ocr_distributed.h:1768` relies on streams being delivered in order.  A message whose
   object does not exist yet is confirmed and goes to the end of the local queue, so the
   next message of its stream, for the same object, can be processed first.
   `StreamPromise` waives its turn.
3. **A handle is read without the mutex** (`ocr_distributed.h:1559`).  A task that has
   just locked a block reads its handle after the block's mutex is released; an
   invalidation in between leaves it null, although the comment at 253 says otherwise.
   Exception in `OnlyUnlockedReadsAreBlank`.
4. **Early release cut short** (`ocr_distributed.cpp:421`): a pause lets a task through
   the gate at which it waits for acknowledgements.  Exception in `ReleaseIsSynchronous`.
5. **`resume` and the lists of what was put aside** (`runtime.h:309-326`).  It walks over
   `paused_messages_` and clears it; a receiver appends without a lock
   (`runtime.h:267-270`), and what it appends in between is erased.  The comment at 311
   says that nobody else touches the lists.  Exception in `OnlyRacesLose`.  A handler or
   the launcher at work in a paused node makes `assert(!dirty)`
   (`communication.h:1593-1597`) fail; exception in `FlushEmptiesChannels`.
6. **A handler that pulls holds the mutex** (`command_processing.cpp:46-57`, "waiting here
   is safe").  It is safe if the object's creation needs no handler or confirmation of
   the waiting node.  A task that sends a message before it creates the labelled block
   waits for a confirmation behind that mutex: deadlock.  The run's program creates first.
7. **A labelled block used early** (`ocr_api_impl.cpp:508-510`): created away from its
   home, it is announced before it is in the cache, may come back as a pulled copy, and
   `add_object` then deletes the master.  Exception in `OnlyEarlyUseFails`.
8. **The drain of the MPI build** (`communication.cpp:473-475`, "the point past which no
   node can produce another message").  A message in the runner's queue, the local queue
   or a receiver's hands is in no counter; two rounds that both miss one end the drain
   too early.  Exception in `DrainFindsAllCounted`.
9. **A slave may be refused** (`socket_communicator.h:127-133` against 430-432): the
   master writes the boot file before it listens.  Exception in `OnlyEarlySlavesFail`.
   The socket build stops the runner before CMD_exit, so a confirmation may be stranded.
10. **What a checkpoint leaves out**: an event's self-reference, the functions of an EDT
    (written, not read: `ocr_distributed.h:2249` against 2285), its handles, collective
    clients; a cached block without data is written without its buffer and read with it
    (982 against 996-1000); streams with held-back messages and paused messages are
    UNIMPLEMENTED.  `loader_body` on a worker may run before the worker has joined its
    task group.  Exceptions in `OnlyKnownGapsFail` and `WorkBalanced`.

Shared-memory runtime:

11. **Early release of a block on two slots unlocks twice** (`ocr.cpp:195`,
    `ocr_tbb_locking.h:268`): the second call takes away another task's share of the
    counter, and an EW task can run beside an RW task, against `ocr-types.h:157-160`.
    `ReleasedOnce` in the proofs; the run's programs satisfy it.
12. **A finished task is not always its own sole owner** (`ocr_tbb_locking.h:236`).
    Whoever spawned it may still hold its mutex, as `ocr.cpp:57` says, while
    `ocr.cpp:102` deletes it.
13. **Chained events are locked in the order of the graph** (`ocr_tbb_locking.h:328`).
    `satisfy` takes the mutexes of post-slots while it holds the event's, in the order of
    the links; `dual_lock` (88) takes them in the order of the guids.  Two threads can
    wait for each other; the run's guids follow its links.
14. **`ocrEventDestroy` by the task an event has started** (`ocr_tbb_event.h:77`): the
    thread that satisfied the event may still hold its mutex, and `eliminate` asserts
    that nobody does.  `api_tests.cpp:868` is a program of this kind.
15. **An idle first thread on one NUMA node** (`ocr_tbb_tasking.h:971-980`): with nothing
    to steal from another node, `break` leaves the worker's loop, so
    `spawn_root_and_wait` can return while tasks run.  Modelled (`Quits`); it takes a
    single node and does not occur in the run's instance.

Single-process runtime: `destroy_db` on a block the task holds loses the task's writes
(`one/runtime.h:213-231`; `api_tests.cpp:1020-1028` is such a program); a chunk of a file
is read without seeking (`ocr_one.cpp:16-22`); tasks created by a map's creator escape the
finish scope (`runtime.h:594-604`).

Met while reading, part of the models without a property of their own: satisfying an
idempotent event again replaces the data that later dependences get
(`ocr_tbb_event.h:53`, against `ocr-types.h:287-288`); a latch whose counter comes back
to zero through its INCR slot does not trigger; `add_dependency` refuses the INCR slot of
a latch; in the distributed runtime a subscription that is put off can trip the window's
assertion (`ocr_distributed.h:1456`), and a finish scope may close while a satisfaction
that was put off is under way.

Met while reading, not modelled: `unlock_all` clears `held_dbs_` before `clear_dbs` reads
it (`ocr.cpp:96`); the check-and-create of `ocrEventCreate` is not atomic
(`ocr_api.cpp:248`); `db_allocator` writes no header into a rest of exactly one header
(`db_allocator.h:87`); a partial `send` repeats the start of its buffer and `recv` does
not notice the end of a connection (`socket_communicator.h:291-307`); the reuse of an EDT
after `CMD_edt_create` with GUID_PROP_CHECK (`command_processing.cpp:396-405`).

## Proofs

`DbCoherence_proofs` (assumptions: those of `DbCoherence`).  The inductive
invariant `IInv` joins `TypeOK` and `LockInv`: the lockers of a node may hold
the block together and are exactly the node's tasks between grant and release,
the tasks in its waiting list are waiting, and those that wait for
acknowledgements are finishing.  The parts about waiting tasks are what makes
it inductive: `grant_locks` lets tasks of the list in one by one, and an
acknowledgement moves the finishing ones on.  Each result operator has a lemma
on its type and one on the lock table, each handler and each action a lemma on
top.  `Without`, the erase loop, is a recursive function; its type is
proved by a least-counterexample argument.  Theorems `TypeCorrect` and
`LocksExclude`.

The second half of the module is about the protocol itself (same assumptions).  The
inductive invariant is `CohInv`, whose main part `Sound` says which role each node plays:

* every message of the protocol occupies a *slot*, one for the move of the master role and
  one per node for its copy, and a slot holds one message at a time (`Unique`); requests
  occupy none;
* either one node holds the copylist (`Held`) or one message carries it, or the block is
  destroyed (`Unheld`, `Loose`).  The holder's counters are the numbers of copies and
  invalidations under way (`Holder`), and it is at one of six points of the move of the
  master role, each with its message and the owner's record (`Role`);
* every other node keeps no books (`Bare`) and is in one of six situations towards the
  copylist (`Situation`): no copy, being sent one, having confirmed it, keeping it, asked
  to drop it, having dropped it;
* a writer is *settled* once a round, or the lack of copies, allows it to release; every
  buffer, also one under way, holds every settled write, and a write that is not settled is
  one of a task that still has its lock (`Buffers`);
* the owner asks a master for copies before it asks it to give up the role, on one stream
  (`Ordered`, `Answered`): without this the request for a copy could reach an ex-master.

None of the properties of the runs is inductive alone.  `CopiesTracked` needs that the
answers to a round are counted, which needs that each node has one message at most;
`NoLostWrites` needs that nobody holds a write lock while the role moves: then every write is
settled, and the copy that supplies the new master has them all.  A handler is proved in the order of its code:
`After` says that the records and the channels agree after what it has done so far, and
each thing it may do (providing copies, a round, releasing the copylist, granting locks,
asking the owner) has a lemma from `After` to `After`.  Theorems `RolesAgree` (the
invariant), `CoherenceHolds`, `AssertionsHold`, and `PromiseKept`: with it every step maps to a
step of `DbPromise` or to a stutter (`InstallMoves`; finishing, destruction and the
owner's steps are stutters).

`ShmLocking_proofs`.  `IInv` joins `TypeOK`; `CountInv` (the counters of a
block are the numbers of its holders by kind, the holders are pairwise
compatible); `HoldInv` (what a task holds at each point of its life, and that
each pending call of unlock gives up a lock the task has, once, in the mode it
was taken); `ListInv` and `WakeInv` (a waiting task is in exactly one list, of
the block its walk stopped at, or is about to be served by exactly one thread).
`CountInv` alone is not inductive: an unlock decrements correctly only because
`HoldInv` says the caller holds the block, and a walk that is resumed locks only
what it does not hold because `ListInv` says where it stopped.  The invariant
needs `ReleasedOnce`: no task releases early a block that several of its slots
carry; item 11 above is what happens otherwise.  Theorems `TypeCorrect` (in
particular no counter wraps), `LocksExcluded`, `RunningHolds`, and
`CombinedOneByOne`, which justifies computing the combined mode from a set.

A second invariant on top of it, `WaitInv`, is about waiting.  `QueueInv`: while nobody
unlocks a block, each task in its lists is excluded by a holder; while a thread unlocks
it, the tasks that thread has still to serve are of one kind and can have the block with
the holders there are.  `WalkInv`: a thread that walks for another task is unlocking the
block that task was woken from.  `FoundInv`: a task that waits is in the list its mode
belongs to, or in the hands of the thread that unlocks.  `NoStrandedWaiter` alone is not
inductive: it says nothing in the middle of an unlock, when the block gets its new owners
one after another, and a waiter would be missed there if it were in a list that unlock
does not look at.  Theorem `NobodyStranded`.

`FinishPromise_proofs`.  Theorems `ClosedForGood` (nothing that was created in a
fired scope is or becomes active) and `BeginsAfterScopes` (a task that has begun
finds everything it needs, and everything created in the scopes it needs,
ended).  `IInv` adds to them the types, that whatever has fired has ended, and
that what a begun task needs has fired.  `ScopeClosed` is inductive only because
a new task inherits the scopes of a *running* creator, which no fired scope
contains.  The runs `shm_events`, `dist_graph` and `one_runtime` check that the
three runtimes implement `FinishPromise` on their instances; the theorems then hold of
them.

`Scheduler_proofs`.  `IInv` has two independent parts.  `TInv`: every task that has been
spawned is in exactly one queue, or in the hands of exactly one worker, or executed once, and
the count of the barrier is the number of its references that are left; a task spawns
each of its tasks once (`ProgramAssumption`), which is what keeps the queues free of
repetitions (`Family`, `Separate`).  `BInv`: the count of a blocker is that of the
threads that run, and the threads outside the count that are not asleep are the ones
about to come back.  `NoSleeperForgotten` alone is not inductive, because it does not
say that a thread that goes to sleep has seen the count it compares.  Theorems `Waits`
and `Blockers`.  `Waits` has the hypothesis `NeighboursDiffer`: with three kinds of
stealing every NUMA node has another one to steal from; with one node a worker leaves
its loop early (`Quits`, item 15 above).

`RuntimeControl_proofs`, which begins with lemmas on how often a message is in a sequence.
`RoundInv` says in which round each node is, and where its message to the root and the root's
answer are; `BarInv` that the root's counter, which is never reset, is what all nodes
together have sent in the rounds that are complete plus those counted in the present one.
Theorem `Meets`: nobody leaves a round that somebody has not entered, for any number
of nodes and whatever pauses come between (the messages of the barrier are not put aside).

The second half of the module is about the pause (assumption: `ControlAssumption`; any
number of nodes, pauses and tokens).  `PauseHolds` speaks of three moments only; what holds
in between is in these parts, of which the first is proved on its own (`AlwaysPlaced`), then
the next two (`AlwaysPhases`), then the rest:

* *places* (`PlacesInv`): which command may be in whose queue and on which wire;
* *phases* (`Phases`): `PhasePause` has each node in one of the stages of a pause (called,
  stopping, stopped, held) by where its messages are, and `nodes_to_pause_` equal to the number of
  nodes not held; `FlushInv` has each node at one place of its flush at most, and
  `flushes_in_progress` equal to the answers it waits for; `PhaseFlush` has the manager count
  the flushes that are open;
* *order* (`OrderInv`): no `pause` is in front of a `resume`, so a node that receives a call
  to pause is running;
* *effects*: a message is put aside at a paused node, so the list that `resume` clears does
  not grow, unless `park` has overlapped (`LostInv`); while nobody works at a paused node no
  work is behind the mark of a flush on a channel (`MarkInv`), and a channel that the flush
  has gone through is empty of work (`SweepInv`).  This is where the loopback of the flush
  through the runner's own queue is needed: work posted before it is in front of it, and none
  is posted after it because every node is held.

The counts are of messages in sequences (`Way`, `Trip`), so each action has a ledger that
says which numbers it changes (`RunnerLedger`, `PostLedger`, `TakeLedger`), and the invariant
is proved from the ledgers.  Theorems `PauseStops` (`PauseHolds`), `AlwaysPhases` and
`OnlyFlushesFail`: of the assertions only that of a flush which meets work can fail.

`TaskBlocks_proofs` (assumptions: `TaskBlocksAssumption` and `ProgramAssumption`; any
tasks, blocks, slots and programs).  The inductive invariant `IInv` has these parts:

* *tasks*: which blocks a task has asked for, in which order and modes (`OrderOK`), what
  `acquired_data_count_` counts in each state (`ProgressOK`), and that the calls left to it
  keep to `ProgramAssumption`, together with what its group has noted (`CallsOK`): a call
  that `group_end` makes later must still find the block;
* *locks*: a block's counters are the numbers of its holders by mode, holders are compatible,
  and its waiting list names each waiting task once, in the task's mode (`LocksOK`,
  `BlockOK`).  So whoever is granted the block is waiting for it (`handle_block_acquired`)
  and what is unlocked was locked;
* *ends*: the count of a task that is done is the number of its blocks still to be gone
  through, plus those whose copies are being recalled or whose end it has yet to be told
  (`PendingOK`): hence its locks are released once, after the last recall;
* *handles*: a block with no data under a task between lock and handle was recalled just then
  (`ReadOK`);
* *copies*: whoever wrote a block that has an old copy outside is at its gate, registered for
  the recall, or about to be (`UnseenOK`, `GatesOK`).

Neither property is inductive alone.  `LocksAccounted` needs that a grant goes to a task
that waits, and `ReleaseIsSynchronous` that a recall ends with no old copy, which needs that
the tasks registered at a block are exactly those that count on it.  `EveryTaskEnds` remains
with TLC.  Theorems `TasksAndBlocksAgree` (the invariant), `TasksUseBlocksSoundly`
(`BlocksSound`), `ReleasesAreSynchronous` and `CombinedOneByOne`.

`Objects_proofs` (assumptions: those of `Objects`, in particular `ProgramAssumption`; any
number of nodes, any `Count`).  `ObjectsSound` says little about why it holds; the
inductive invariant `IInv` has these parts:

* *channels*: whoever waits at a channel is in the call that asks, or holds
  `preallocations_mutex`, and what comes back answers it (`ChannelInv`, `CallInv`);
* *numbers*: those a node may still give away, its reserve and what is on its way to it,
  exist at their home, are not given, and are no other node's (`PoolInv`, `MapInv` for the
  ids of maps); what was given exists (`GivenInv`, `GotInv`);
* *variables* hold what the call that assigns them made, and two variables do not hold the
  same range (`EnvInv`): that makes labels of different ranges different guids;
* *templates*: for each node, a template is known there or its message is still in the
  stream of the task that made it (`TemplateInv`), so it has arrived where a task depends
  on that one;
* *labels*: a labelled object was created by the one call that names it, and while the
  message about it is not handled, it was not (`LabelInv`, `LabelMsgInv`);
* *handlers*: the message a node handles is the first of its stream, and the objects it
  needs are there or still to be fetched (`MsgInv`, `HandlerInv`).

An assertion is one line; that `set_object` finds the item of a reserved guid needs
that the number came from the receiver's repository, through a reserve, a task and a
message.  Theorems `ObjectsAreSound` and `CachesKeep`.

`Transport_proofs` (assumption: `TransportAssumption`; any number of processes and any
program).  The inductive invariant `Inv` has three phases, and each step of the code stays in
its phase or goes on to the next:

* `Gathering`: the master has a conversation with one slave at a time, in the order of its
  address book, and every slave is at one point of the conversation (`Newcomer`, `Welcome`
  with `Numbered`, `Counted`, `Ready`), told by what is on the two directions of its socket
  and by whether the master has accepted that.  Whoever is in the book has its number and
  listens (`Ready`), and nobody has connected to anybody else.  A slave is not in
  the book twice, so when the book has as many entries as there are slaves, it has them all
  (`BookIsFull`, a pigeonhole argument): that is why everybody listens before anybody is
  told an address;
* `Connecting`: the address books are all one, the inverse of the numbers (`BookSound`); a
  process waits for its book, connects to all in the order of the book and accepts, or talks
  (`Waiting`, `Meeting`, `Talking`); and each of the two connections from p to q is
  untouched until p reaches q, then offered, then taken (`LinkSound`), with the
  type and the number of p on it until it is taken.  `accepts` is twice the number of
  processes less the connections accepted, hence a process that expects no more has all of
  them;
* `Wired`: every port is what it should be, for the rest of the run.  The MPI build starts
  here.

`ConnectionsSound` is not inductive: that the ends of a port agree says nothing of
connections that are still to be accepted, and those are accepted in any order, with
nothing but what was sent on them to tell whose they are.  No process talks before all its
connections are there, but others may be ahead of it: `NothingReceived` says that in the
second phase no message can arrive yet, since tasks begin after the barrier that follows
the start (`Started`).  Theorems `ProcessesConnect`
(`ConnectionsSound`) and `AlwaysInPhase` (`Inv`).

Only model-checked:

* the safety properties of the modules without proofs: `ShmEvents`, `MsgStream`, `DistGraph`,
  `OneRuntime`, `Checkpoint`, and that they implement their promises;
* `DrainFindsAllCounted` of `Transport`, the drain of the MPI build;
* everything about liveness: TLAPS does not handle fairness and ENABLED here;
* that a sequence of slots, which `order_preslots__locked` folds, combines to `Combined` of
  its set: that is an induction over the sequence, of which `CombinedOneByOne` is the step.

## Plan

Every subsystem that keeps state of its own and has an order to get wrong has a module.
What is left, most valuable first:

1. Proofs: the order of `StreamPromise`; the modules without proofs.
2. `TaskBlocks` over two `DbCoherence` blocks in place of its environment.
3. Events that are created and deleted while others link to them, in `ShmEvents`.
4. The local communicator's simulation of several nodes in one process.

## Not modelled

* The zmq headers and the declarations of the OCR API: no code of the runtimes.
* The allocator of the shared-memory runtime: sequential, under one mutex.  Metrics,
  logging, tracing, statistics: output only.  Guid ranges: an array of atomics.
* Hints, affinities, binding of threads: they choose where a task runs, and the models
  place tasks by constants or let any thread take them.  OpenCL and the task modeler
  (`ocr.cpp`, from 276), which measures single tasks in experiments of its own.
* The single-threaded and the TBB scheduler, `null_blocker`, the idle-time tracker:
  alternatives to the default that `Scheduler` models.
* Partitions of blocks, the contents of blocks (`OneRuntime` excepted), remote buffers.
* Failures of the transport: the code does not handle any; it relies on TCP and MPI.
* Test applications: read for what they expect of a runtime.

## Running

    tlc -config MCShmLocking_mixed.cfg MCShmLocking
    tlapm ShmLocking_proofs.tla

Each `.cfg` belongs to the module named before the underscore; the runs, the
mutants that break each property, and the map from definitions to source lines
are in `PROJECT.json`.
