------------------------------ MODULE Scheduler ------------------------------
(***************************************************************************)
(* The task-stealing scheduler of the shared-memory runtime                *)
(* (taskstealing_runtime) and the blocker that holds back worker threads   *)
(* on the orders of an external agent: threadcount_blocker, one for each   *)
(* NUMA node as in nodethreadcount_blocker, of which the agent demands a   *)
(* number of threads, or threadindex_blocker, of which it demands that a   *)
(* given thread is blocked or runs.                                        *)
(*                                                                         *)
(* What the worker threads share are atomics and concurrent queues, so a   *)
(* step here is one access to one of them, or what a thread does while it  *)
(* holds the mutex of a blocker.                                           *)
(***************************************************************************)
EXTENDS Integers, Sequences, FiniteSets, Functions

CONSTANTS
  Workers,
  First,       \* worker 0: its thread is the one that called spawn_root_and_wait
  Numa,        \* the NUMA nodes
  NodeOf,      \* NodeOf[w]: the NUMA node of worker w
  After,       \* After[n]: the node after n, in a circle
  Tasks,       \* the tasks below spawn_main
  Barrier,     \* the continuation of spawn_main, parent of all tasks
  MainTask,    \* the task spawned by spawn_main
  Program,     \* Program[t]: what t does, a sequence of calls
  Stealing,    \* SCHEDULER_INT: 2, or 3 to steal from other NUMA nodes
  Patience,    \* rounds without a task before it is stolen from another node
  Builds,      \* the blockers to start with: "count", "index"
  Desired,     \* Desired[n]: the initial desired_thread_count_
  Orders,      \* Orders[b]: what the agent demands of blocker b, in sequence:
               \* [numa, count] or [thread, block]
  None

SpawnCall(t, n) == [op |-> "spawn", task |-> t, affinity |-> n]
ShutdownCall    == [op |-> "shutdown"]

Calls == {SpawnCall(t, n) : t \in Tasks \ {MainTask}, n \in Numa \cup {None}} \cup {ShutdownCall}

Size(n) == Cardinality({w \in Workers : NodeOf[w] = n})

ASSUME SchedulerAssumption ==
  /\ IsFiniteSet(Workers) /\ First \in Workers /\ MainTask \in Tasks /\ Barrier \notin Tasks
  /\ NodeOf \in [Workers -> Numa] /\ After \in [Numa -> Numa] /\ \A n \in Numa : Size(n) > 0
  /\ Stealing \in {2, 3} /\ Patience \in Nat
  /\ Desired \in [Numa -> Nat] /\ \A n \in Numa : Desired[n] <= Size(n)
  /\ Builds \subseteq {"count", "index"}
  /\ \A b \in Builds : Orders[b] \in Seq(IF b = "count" THEN [numa : Numa, count : Nat]
                                         ELSE [thread : Workers, block : BOOLEAN])
  /\ None \notin Tasks \cup {Barrier} \cup Numa \cup Workers

(* A task object is spawned once, and ocrShutdown is called once.          *)
SameCall(c, d) == c.op = d.op /\ (c.op = "spawn" => c.task = d.task)

ASSUME ProgramAssumption ==
  /\ Program \in [Tasks -> Seq(Calls)]
  /\ \A t, u \in Tasks : \A i \in DOMAIN Program[t], j \in DOMAIN Program[u] :
       SameCall(Program[t][i], Program[u][j]) => t = u /\ i = j

VARIABLES
  pc,          \* pc[w]: where worker w is in its loop
  task,        \* task[w]: the task it executes
  calls,       \* calls[t]: what t has still to do
  executed,    \* history: executed[t], how often t has been executed
  queue,       \* queue[w]: the queue of worker w
  shared,      \* shared[n]: the queue of NUMA node n
  rounds,      \* rounds[w]: rounds_with_no_task
  count,       \* the reference count of the barrier
  shutdown,    \* shutdown_ of the runtime
  build,       \* THREAD_BLOCKER: "count" or "index"
  current,     \* current[n]: current_thread_count_ of the blocker of n, or the
               \* share of n in running_thread_count_
  blocked,     \* blocked[w]: blocked_threads_
  desired,     \* desired[n]: its desired_thread_count_
  seen,        \* seen[w]: the value of current_thread_count_ w has read
  holder,      \* holder[n]: the thread inside thread_count_mutex_
  closing,     \* closing[n]: shutdown_ of the blocker
  orders,      \* the orders the agent has not given yet
  faults       \* the assertions that have failed

taskVars    == <<task, calls, executed, queue, shared, rounds, count>>
indexVars   == <<build, blocked>>
countVars   == <<current, desired, seen, holder, closing, orders>>
blockerVars == <<indexVars, countVars>>
vars == <<pc, taskVars, shutdown, blockerVars, faults>>

Goto(w, l) == pc' = [pc EXCEPT ![w] = l]
Fault(name, test) == faults' = IF test THEN faults \cup {name} ELSE faults

-----------------------------------------------------------------------------
(***************************************************************************)
(* The blocker that is given numbers.                                      *)
(***************************************************************************)
Top(w) ==
  /\ pc[w] = "top"
  /\ Goto(w, IF shutdown THEN "exited" ELSE "check")
  /\ UNCHANGED <<taskVars, shutdown, blockerVars, faults>>

Check(w) ==
  /\ build = "count" /\ pc[w] = "check"
  /\ Goto(w, IF current[NodeOf[w]] > desired[NodeOf[w]] THEN "fix" ELSE "find")
  /\ UNCHANGED <<taskVars, shutdown, blockerVars, faults>>

(* "fix the value, so that we don't chase a moving target"                 *)
Fix(w) ==
  /\ pc[w] = "fix"
  /\ seen' = [seen EXCEPT ![w] = current[NodeOf[w]]]
  /\ Goto(w, "drop")
  /\ UNCHANGED <<taskVars, shutdown, indexVars, current, desired, holder, closing, orders, faults>>

(* The compare_and_swap that takes the thread out of the count.            *)
Drop(w) ==
  LET n == NodeOf[w]
  IN  /\ pc[w] = "drop"
      /\ IF current[n] = seen[w]
           THEN current' = [current EXCEPT ![n] = @ - 1] /\ Goto(w, "lock")
           ELSE UNCHANGED current /\ Goto(w, "find")
      /\ UNCHANGED <<taskVars, shutdown, indexVars, desired, seen, holder, closing, orders, faults>>

(* Into the mutex, for the first time or after a wait.  What comes next:   *)
Inside == [lock |-> "last", idlelock |-> "last", relock |-> "raise"]
Lock(w) ==
  LET n == NodeOf[w]
  IN  /\ pc[w] \in DOMAIN Inside /\ holder[n] = None
      /\ holder' = [holder EXCEPT ![n] = w]
      /\ Goto(w, IF pc[w] = "lock" /\ seen[w] # 1 THEN "read" ELSE Inside[pc[w]])
      /\ UNCHANGED <<taskVars, shutdown, indexVars, current, desired, seen, closing, orders, faults>>

(* "I'm the last thread": waits until some thread is desired.              *)
Last(w) ==
  LET n == NodeOf[w]
  IN  /\ pc[w] = "last"
      /\ IF desired[n] = 0
           THEN Goto(w, "idlewait") /\ holder' = [holder EXCEPT ![n] = None]
           ELSE Goto(w, "read") /\ UNCHANGED holder
      /\ UNCHANGED <<taskVars, shutdown, indexVars, current, desired, seen, closing, orders, faults>>

Read(w) ==
  LET n == NodeOf[w]
  IN  /\ pc[w] = "read"
      /\ seen' = [seen EXCEPT ![w] = current[n]]
      /\ IF current[n] >= desired[n]
           THEN Goto(w, "wait") /\ holder' = [holder EXCEPT ![n] = None]
           ELSE Goto(w, "raise") /\ UNCHANGED holder
      /\ UNCHANGED <<taskVars, shutdown, indexVars, current, desired, closing, orders, faults>>

(* The compare_and_swap that puts it back; after a wait nothing else is    *)
(* looked at.                                                              *)
Raise(w) ==
  LET n == NodeOf[w]
  IN  /\ pc[w] = "raise"
      /\ IF current[n] = seen[w]
           THEN /\ current' = [current EXCEPT ![n] = @ + 1]
                /\ holder' = [holder EXCEPT ![n] = None]
                /\ Goto(w, "resumed")
           ELSE UNCHANGED <<current, holder>> /\ Goto(w, "read")
      /\ UNCHANGED <<taskVars, shutdown, indexVars, desired, seen, closing, orders, faults>>

Resumed(w) ==
  /\ pc[w] = "resumed"
  /\ Goto(w, IF shutdown THEN "exited" ELSE "find")
  /\ UNCHANGED <<taskVars, shutdown, blockerVars, faults>>

(* Mutant: only the thread that waits for a first thread is woken.         *)
WokenLast(n) == [w \in Workers |-> IF NodeOf[w] = n /\ pc[w] = "idlewait" THEN "idlelock" ELSE pc[w]]

(* The broadcast.                                                          *)
Woken(n) == [w \in Workers |->
              CASE NodeOf[w] = n /\ pc[w] = "wait"     -> "relock"
                [] NodeOf[w] = n /\ pc[w] = "idlewait" -> "idlelock"
                [] OTHER                               -> pc[w]]

(* Mutant: the check for a shutdown is left out.                           *)
AdjustedAnyway(n, k) == k

(* "if (shutdown_) num_threads = worker_count_"                            *)
Adjusted(n, k) == IF closing[n] THEN Size(n) ELSE k

(* adjust_number_of_threads, on the order of the agent.                    *)
Adjust ==
  /\ build = "count" /\ orders # <<>>
  /\ LET n == Head(orders).numa
     IN  /\ holder[n] = None
         /\ desired' = [desired EXCEPT ![n] = Adjusted(n, Head(orders).count)]
         /\ pc' = Woken(n)
  /\ orders' = Tail(orders)
  /\ UNCHANGED <<taskVars, shutdown, indexVars, current, seen, holder, closing, faults>>

-----------------------------------------------------------------------------
(***************************************************************************)
(* The blocker that is given threads.                                      *)
(***************************************************************************)
IndexCheck(w) ==
  /\ build = "index" /\ pc[w] = "check"
  /\ Goto(w, IF blocked[w] THEN "leave" ELSE "find")
  /\ UNCHANGED <<taskVars, shutdown, blockerVars, faults>>

IndexLeave(w) ==
  /\ pc[w] = "leave"
  /\ current' = [current EXCEPT ![NodeOf[w]] = @ - 1]
  /\ Goto(w, "enter")
  /\ UNCHANGED <<taskVars, shutdown, indexVars, desired, seen, holder, closing, orders, faults>>

(* Inside the mutex: "recheck, now that we hold the lock", or after a wait *)
IndexEnter(w) ==
  /\ pc[w] = "enter"
  /\ current' = IF blocked[w] THEN current ELSE [current EXCEPT ![NodeOf[w]] = @ + 1]
  /\ Goto(w, IF blocked[w] THEN "asleep" ELSE "resumed")
  /\ UNCHANGED <<taskVars, shutdown, indexVars, desired, seen, holder, closing, orders, faults>>

Unblocked == [w \in Workers |-> FALSE]
Awake == [w \in Workers |-> IF pc[w] = "asleep" THEN "enter" ELSE pc[w]]

(* An order of the agent: "if (shutdown_) return".                         *)
Instruct ==
  /\ build = "index" /\ orders # <<>>
  /\ LET o == Head(orders)
         shut == \E n \in Numa : closing[n]
     IN  /\ blocked' = IF shut THEN blocked ELSE [blocked EXCEPT ![o.thread] = o.block]
         /\ pc' = IF shut THEN pc ELSE Awake
  /\ orders' = Tail(orders)
  /\ UNCHANGED <<taskVars, shutdown, build, current, desired, seen, holder, closing, faults>>

-----------------------------------------------------------------------------
(***************************************************************************)
(* Finding a task.                                                         *)
(***************************************************************************)
Takes(w, t, q, s) ==
  /\ task' = [task EXCEPT ![w] = t]
  /\ executed' = [executed EXCEPT ![t] = @ + 1]
  /\ rounds' = [rounds EXCEPT ![w] = 0]
  /\ queue' = q /\ shared' = s
  /\ Goto(w, "execute")
  /\ UNCHANGED <<calls, count, shutdown, blockerVars, faults>>

PopOwn(w) ==
  /\ pc[w] = "find" /\ queue[w] # <<>>
  /\ Takes(w, Head(queue[w]), [queue EXCEPT ![w] = Tail(@)], shared)

PopNode(w) ==
  LET n == NodeOf[w]
  IN  /\ pc[w] = "find" /\ queue[w] = <<>> /\ shared[n] # <<>>
      /\ Takes(w, Head(shared[n]), queue, [shared EXCEPT ![n] = Tail(@)])

Unprovided(w) == pc[w] = "find" /\ queue[w] = <<>> /\ shared[NodeOf[w]] = <<>>
Roaming(w)    == Stealing = 3 /\ rounds[w] > Patience
Neighbour(w)  == After[NodeOf[w]]

(* "try stealing from shared queues of other NUMA nodes": from the next.   *)
StealShared(w) ==
  LET n == Neighbour(w)
  IN  /\ Unprovided(w) /\ Roaming(w) /\ shared[n] # <<>>
      /\ Takes(w, Head(shared[n]), queue, [shared EXCEPT ![n] = Tail(@)])

(* ... but with one NUMA node the break leaves the loop of the worker.     *)
Quits(w) == Roaming(w) /\ Neighbour(w) = NodeOf[w]

Victims(w) == {v \in Workers \ {w} : /\ queue[v] # <<>>
                                     /\ NodeOf[v] # NodeOf[w] => Stealing = 3 /\ rounds[w] >= Patience}
(* The queues are tried one after the other: the worker's own, that of the *)
(* node, that of the next node, those of other workers.                    *)
Foraging(w) == Unprovided(w) /\ ~Quits(w) /\ (Roaming(w) => shared[Neighbour(w)] = <<>>)

Steal(w) ==
  /\ Foraging(w)
  /\ \E v \in Victims(w) : Takes(w, Head(queue[v]), [queue EXCEPT ![v] = Tail(@)], shared)

(* A round without a task; the count is capped above Patience.             *)
FindNothing(w) ==
  /\ (Foraging(w) /\ Victims(w) = {}) \/ (Unprovided(w) /\ Quits(w))
  /\ rounds' = [rounds EXCEPT ![w] = IF @ > Patience THEN @ ELSE @ + 1]
  /\ Goto(w, IF Quits(w) THEN "exited" ELSE "top")
  /\ UNCHANGED <<task, calls, executed, queue, shared, count, shutdown, blockerVars, faults>>

-----------------------------------------------------------------------------
(***************************************************************************)
(* Executing a task.                                                       *)
(***************************************************************************)
(* Mutant: a task that is spawned is not counted with its parent.          *)
Uncounted(c) == count

(* task_factory::additional_child_of                                       *)
Counted(c) == count + 1

(* spawn_impl: an affinity to another NUMA node goes to that node's queue. *)
Call(w) ==
  LET t == task[w]
      c == Head(calls[t])
      here == c.affinity \in {None, NodeOf[w]}
  IN  /\ pc[w] = "execute" /\ calls[t] # <<>>
      /\ calls' = [calls EXCEPT ![t] = Tail(@)]
      /\ IF c.op = "spawn"
           THEN /\ count' = Counted(c)
                /\ queue'  = IF here THEN [queue EXCEPT ![w] = Append(@, c.task)] ELSE queue
                /\ shared' = IF here THEN shared ELSE [shared EXCEPT ![c.affinity] = Append(@, c.task)]
                /\ UNCHANGED faults
           ELSE /\ count' = count - 1     \* ocrShutdown
                /\ Fault("shutdown", count < 2)
                /\ UNCHANGED <<queue, shared>>
      /\ UNCHANGED <<pc, task, executed, rounds, shutdown, blockerVars>>

(* "tbb::task::destroy decrements the parent's counter"                    *)
Hold(w) ==
  /\ pc[w] = "execute" /\ calls[task[w]] = <<>>
  /\ count' = IF task[w] = Barrier THEN count ELSE count + 1
  /\ Goto(w, IF task[w] = Barrier THEN "stop" ELSE "destroy")
  /\ UNCHANGED <<task, calls, executed, queue, shared, rounds, shutdown, blockerVars, faults>>

Destroy(w) ==
  /\ pc[w] = "destroy"
  /\ count' = count - 1
  /\ Fault("destroy", count <= 1)
  /\ Goto(w, "release")
  /\ UNCHANGED <<task, calls, executed, queue, shared, rounds, shutdown, blockerVars>>

(* Whoever takes the count to zero starts the barrier.                     *)
Release(w) ==
  /\ pc[w] = "release"
  /\ count' = count - 1
  /\ queue' = IF count = 1 THEN [queue EXCEPT ![w] = Append(@, Barrier)] ELSE queue
  /\ task' = [task EXCEPT ![w] = None]
  /\ Goto(w, "top")
  /\ UNCHANGED <<calls, executed, shared, rounds, shutdown, blockerVars, faults>>

-----------------------------------------------------------------------------
(***************************************************************************)
(* After the barrier: the blockers are shut down one after the other, then *)
(* the runtime.                                                            *)
(***************************************************************************)
Close(w) ==
  /\ build = "count" /\ pc[w] = "stop"
  /\ \E n \in Numa : /\ ~closing[n]
                     /\ closing' = [closing EXCEPT ![n] = TRUE]
                     /\ seen' = [seen EXCEPT ![w] = n]
  /\ Goto(w, "adjust")
  /\ UNCHANGED <<taskVars, shutdown, indexVars, current, desired, holder, orders, faults>>

Open(w) ==
  LET n == seen[w]
  IN  /\ pc[w] = "adjust" /\ holder[n] = None
      /\ desired' = [desired EXCEPT ![n] = Adjusted(n, Size(n))]
      /\ pc' = [Woken(n) EXCEPT ![w] = "stop"]
      /\ UNCHANGED <<taskVars, shutdown, indexVars, current, seen, holder, closing, orders, faults>>

IndexClose(w) ==
  /\ build = "index" /\ pc[w] = "stop" /\ \E n \in Numa : ~closing[n]
  /\ closing' = [n \in Numa |-> TRUE]
  /\ blocked' = Unblocked
  /\ pc' = Awake
  /\ UNCHANGED <<taskVars, shutdown, build, current, desired, seen, holder, orders, faults>>

Halt(w) ==
  /\ pc[w] = "stop" /\ \A n \in Numa : closing[n]
  /\ shutdown' = TRUE
  /\ Goto(w, "exited")
  /\ UNCHANGED <<taskVars, blockerVars, faults>>

BlockerStep(w) ==
  \/ Top(w) \/ Check(w) \/ Fix(w) \/ Drop(w) \/ Lock(w)
  \/ Last(w) \/ Read(w) \/ Raise(w) \/ Resumed(w)
  \/ IndexCheck(w) \/ IndexLeave(w) \/ IndexEnter(w)
FindStep(w) ==
  \/ PopOwn(w) \/ PopNode(w) \/ StealShared(w) \/ Steal(w) \/ FindNothing(w)
ExecuteStep(w) ==
  \/ Call(w) \/ Hold(w) \/ Destroy(w) \/ Release(w) 
  \/ Close(w) \/ Open(w) \/ IndexClose(w) \/ Halt(w)
WorkerStep(w) == BlockerStep(w) \/ FindStep(w) \/ ExecuteStep(w)

(* After spawn_main, which worker 0 executes: a barrier with a count of    *)
(* one for the runtime, which ocrShutdown gives up, and the main task.     *)
Init ==
  /\ pc = [w \in Workers |-> "top"]
  /\ task = [w \in Workers |-> None]
  /\ calls = [t \in Tasks \cup {Barrier} |-> IF t = Barrier THEN <<>> ELSE Program[t]]
  /\ executed = [t \in Tasks \cup {Barrier} |-> 0]
  /\ queue = [w \in Workers |-> IF w = First THEN <<MainTask>> ELSE <<>>]
  /\ shared = [n \in Numa |-> <<>>]
  /\ rounds = [w \in Workers |-> 0]
  /\ count = 2
  /\ shutdown = FALSE
  /\ build \in Builds
  /\ blocked = Unblocked
  /\ current = [n \in Numa |-> Size(n)]
  /\ desired = Desired
  /\ seen = [w \in Workers |-> 0]
  /\ holder = [n \in Numa |-> None]
  /\ closing = [n \in Numa |-> FALSE]
  /\ orders = Orders[build]
  /\ faults = {}

AllExited == \A w \in Workers : pc[w] = "exited"

Terminated == AllExited /\ orders = <<>> /\ UNCHANGED vars

Next == Adjust \/ Instruct \/ Terminated \/ \E w \in Workers : WorkerStep(w)

Spec == Init /\ [][Next]_vars

(* Threads go on unless they wait; the agent need not give its orders.     *)
Fairness == \A w \in Workers : WF_vars(WorkerStep(w))
FairSpec == Spec /\ Fairness

-----------------------------------------------------------------------------
(***************************************************************************)
(* Properties.                                                             *)
(***************************************************************************)
Running(w) == pc[w] \notin {"lock", "idlelock", "relock", "last", "read", "raise", "wait", "idlewait",
                           "enter", "asleep"}
Queued == UNION ({Range(queue[w]) : w \in Workers} \cup {Range(shared[n]) : n \in Numa})

(* Every variable keeps to its domain; current_thread_count_ is the number *)
(* of threads that are not being blocked, whatever compare_and_swap races  *)
(* with it.                                                                *)
TypeOK ==
  /\ \A n \in Numa : /\ current[n] = Cardinality({w \in Workers : NodeOf[w] = n /\ Running(w)})
                     /\ desired[n] \in Nat /\ closing[n] \in BOOLEAN
                     /\ holder[n] \in {w \in Workers : NodeOf[w] = n} \cup {None}
  /\ \A w \in Workers : /\ task[w] \in Tasks \cup {Barrier, None}
                        /\ queue[w] \in Seq(Tasks \cup {Barrier}) /\ rounds[w] \in 0..Patience + 1
  /\ count \in Nat /\ shutdown \in BOOLEAN

(* The runtime shuts down, and spawn_root_and_wait returns, after every    *)
(* task that was spawned has been executed, once; the reference count of   *)
(* the barrier never reaches zero before.                                  *)
WaitsForAllTasks ==
  /\ faults = {}
  /\ \A t \in Tasks \cup {Barrier} : executed[t] <= 1
  /\ (shutdown \/ pc[First] = "exited") =>
       Queued = {} /\ executed[Barrier] = 1 /\ \A w \in Workers : task[w] \in {None, Barrier}

(* No wake-up is lost: a thread sleeps in a blocker only while at least as *)
(* many others run as desired, or another thread that has just left the    *)
(* count is about to come back; or only while the agent wants it blocked.  *)
Asleep(n)    == {w \in Workers : NodeOf[w] = n /\ pc[w] \in {"wait", "idlewait"}}
Returning(n) == {w \in Workers : NodeOf[w] = n /\ ~Running(w)} \ Asleep(n)
NoSleeperForgotten ==
  /\ \A n \in Numa : Asleep(n) # {} => current[n] >= desired[n] \/ Returning(n) # {}
  /\ \A w \in Workers : pc[w] = "asleep" => blocked[w]

(* The blockers count right and wake whom they must.                       *)
BlockersSound == TypeOK /\ NoSleeperForgotten

(* Every thread leaves its loop in the end, so that the destructor of the  *)
(* runtime can join it: an order that comes in the middle of the shutdown  *)
(* puts none to sleep for good.                                            *)
EveryThreadExits == <>AllExited
=============================================================================
