----------------------------- MODULE ShmLocking -----------------------------
(***************************************************************************)
(* The data-block locks of the shared-memory runtime (wait_for_graph).     *)
(*                                                                         *)
(* When the last pre-slot of a task (EDT) is satisfied, the thread that    *)
(* satisfied it holds the task's mutex and walks over the task's blocks in *)
(* the order of their guids, locking each in the combined mode of the      *)
(* task's slots.  The walk stops in the waiting list of the first block    *)
(* that is taken.  A task that ends, or calls ocrDbRelease, unlocks its    *)
(* blocks; unlock hands a block that became free to waiters and, holding   *)
(* the block's mutex, takes each one's mutex and continues its walk.       *)
(*                                                                         *)
(* A step is what a thread does from taking one mutex to wanting the next. *)
(* A block's mutex is held over several steps only by an unlocking thread, *)
(* a task's mutex by the thread that walks for it.                         *)
(***************************************************************************)
EXTENDS Integers, Sequences, FiniteSets

CONSTANTS
  DBs,            \* the data blocks: their guids, which order the walk
  Tasks,          \* the EDTs
  Main,           \* the task that is running first and creates the blocks
  Slots,          \* Slots[t]: the entries [db, mode] of the task's pre-slots
                  \*   that carry a block; Slots[Main]: the blocks it creates
  EarlyReleases,  \* EarlyReleases[t]: the blocks t may ocrDbRelease
  CounterSize,    \* the lock counters are unsigned: 2^32 in the code
  Free,           \* an unlocked mutex
  Satisfier       \* the thread that satisfied a task's last pre-slot

Modes     == {"RO", "RW", "CONST", "EW"}
SlotModes == Modes \cup {"NULL"}
Entries   == [db : DBs, mode : SlotModes]

ASSUME BlocksAssumption == DBs \subseteq Nat
ASSUME TasksAssumption  == IsFiniteSet(Tasks) /\ Main \in Tasks
ASSUME SlotsAssumption  == Slots \in [Tasks -> Seq(Entries)]
(* ocrDbCreate acquires a block once, in the default mode, read-write.     *)
ASSUME MainAssumption ==
  /\ \A i \in DOMAIN Slots[Main] : Slots[Main][i].mode = "RW"
  /\ \A i, j \in DOMAIN Slots[Main] : Slots[Main][i].db = Slots[Main][j].db => i = j
ASSUME ReleasesAssumption == EarlyReleases \in [Tasks -> SUBSET DBs]
ASSUME CounterAssumption  == CounterSize \in Nat /\ Cardinality(Tasks) < CounterSize
ASSUME MutexAssumption    == Free \notin Tasks /\ Satisfier \notin Tasks /\ Free # Satisfier

VARIABLES
  lock,       \* lock[d]: the db_data of block d
  dbMutex,    \* dbMutex[d]: the task whose thread holds d's mutex, or Free
  taskMutex,  \* taskMutex[t]: the thread that holds t's mutex
  pc,         \* pc[t]: progress of task t
  acquired,   \* acquired[t]: the blocks its walk has passed
  ordered,    \* ordered[t]: the non-null members of ordered_guids
  held,       \* held[t]: the indices of the non-null held_dbs_
  left,       \* left[t]: the calls of unlock it has still to make
  wake,       \* wake[t]: the waiters its unlock has still to serve
  holders     \* history: the tasks that hold d, from try_lock to unlock

vars == <<lock, dbMutex, taskMutex, pc, acquired, ordered, held, left, wake, holders>>

-----------------------------------------------------------------------------
(***************************************************************************)
(* Access modes.                                                           *)
(***************************************************************************)
ModeToOrder(m) == CASE m \in {"NULL", "RO"} -> 0 [] m = "RW" -> 1 [] m = "CONST" -> 2 [] m = "EW" -> 3
OrderToMode(i) == CASE i = 0 -> "RO" [] i = 1 -> "RW" [] i = 2 -> "CONST" [] i = 3 -> "EW"

(* combine_modes: the weakest mode that allows and excludes what both do.  *)
CombineModes(m1, m2) ==
  IF {m1, m2} = {"CONST", "RW"} THEN "EW"
  ELSE OrderToMode(IF ModeToOrder(m1) > ModeToOrder(m2) THEN ModeToOrder(m1) ELSE ModeToOrder(m2))

(* The outcome of combining the modes M one by one, starting from RO       *)
(* (theorem CombinedOneByOne of ShmLocking_proofs).                        *)
Combined(M) ==
  IF "EW" \in M \/ {"CONST", "RW"} \subseteq M THEN "EW"
  ELSE IF "CONST" \in M THEN "CONST"
  ELSE IF "RW" \in M THEN "RW" ELSE "RO"

IndicesOf(t, d) == {i \in DOMAIN Slots[t] : Slots[t][i].db = d}

(* The blocks of t, and the mode in which t locks each (lock_modes).       *)
Blocks    == [t \in Tasks |-> {Slots[t][i].db : i \in DOMAIN Slots[t]}]
LockModes == [t \in Tasks |-> [d \in DBs |->
                Combined({Slots[t][i].mode : i \in IndicesOf(t, d)})]]

BlocksOf(t)    == Blocks[t]
LockMode(t, d) == LockModes[t][d]

Shared(m) == m \in {"RO", "RW"}

-----------------------------------------------------------------------------
(***************************************************************************)
(* The lock of one block (l is its db_data).                               *)
(***************************************************************************)
(* The counters are unsigned and wrap.                                     *)
Decrement(x) == IF x = 0 THEN CounterSize - 1 ELSE x - 1

(* Mutant: a CONST lock does not look for a writer.                        *)
LockableDespiteWriter(l, m) ==
  CASE Shared(m)   -> l.exclusive = 0
    [] m = "CONST" -> l.shared = 0
    [] m = "EW"    -> l.shared = 0 /\ l.exclusive = 0

(* The counters that try_lock looks at.                                    *)
Lockable(l, m) ==
  CASE Shared(m)   -> l.exclusive = 0
    [] m = "CONST" -> l.shared = 0 /\ ~l.write
    [] m = "EW"    -> l.shared = 0 /\ l.exclusive = 0

Locked(l, m) ==
  CASE Shared(m)   -> [l EXCEPT !.shared = @ + 1]
    [] m = "CONST" -> [l EXCEPT !.exclusive = @ + 1]
    [] m = "EW"    -> [l EXCEPT !.exclusive = @ + 1, !.write = TRUE]

Enqueued(l, m, t) ==
  CASE Shared(m)   -> [l EXCEPT !.sharedQ = Append(@, t)]
    [] m = "CONST" -> [l EXCEPT !.readQ = Append(@, t)]
    [] m = "EW"    -> [l EXCEPT !.writeQ = Append(@, t)]

(* unlock, first part: the counters.                                       *)
Unlocked(l, m) ==
  CASE Shared(m)   -> [l EXCEPT !.shared = Decrement(@)]
    [] m = "CONST" -> [l EXCEPT !.exclusive = Decrement(@)]
    [] m = "EW"    -> [l EXCEPT !.exclusive = Decrement(@), !.write = FALSE]

(* Mutant: tasks that wait for a shared lock behind CONST are forgotten.   *)
ServedForgettingShared(m) ==
  CASE Shared(m)   -> {"writeQ", "readQ"}
    [] m = "CONST" -> {"writeQ"}
    [] m = "EW"    -> {"writeQ", "readQ", "sharedQ"}

(* The waiting lists that unlock looks at when the counter is zero again.  *)
Served(m) ==
  CASE Shared(m)   -> {"writeQ", "readQ"}
    [] m = "CONST" -> {"writeQ", "sharedQ"}
    [] m = "EW"    -> {"writeQ", "readQ", "sharedQ"}

(* The list that gets the block: writers first, shared waiters last.       *)
NoList == "none"
FirstWaiting(l, m) ==
  LET waiting  == {q \in Served(m) : l[q] # <<>>}
      released == IF Shared(m) THEN l.shared = 0 ELSE l.exclusive = 0
  IN  IF ~released \/ waiting = {} THEN NoList
      ELSE IF "writeQ" \in waiting THEN "writeQ"
      ELSE IF "readQ" \in waiting THEN "readQ" ELSE "sharedQ"

(* new_owner, the first waiting writer, or new_owners, a whole list.       *)
NewOwners(l, list) ==
  IF list = NoList THEN <<>>
  ELSE IF list = "writeQ" THEN <<Head(l[list])>> ELSE l[list]

WithoutOwners(l, list) ==
  IF list = NoList THEN l
  ELSE [l EXCEPT ![list] = SubSeq(@, Len(NewOwners(l, list)) + 1, Len(@))]

-----------------------------------------------------------------------------
Unlockable == [shared |-> 0, exclusive |-> 0, write |-> FALSE,
               sharedQ |-> <<>>, readQ |-> <<>>, writeQ |-> <<>>]

(* The first task runs and holds every block it has created.               *)
Init ==
  /\ lock = [d \in DBs |-> IF d \in BlocksOf(Main) THEN [Unlockable EXCEPT !.shared = 1]
                                                    ELSE Unlockable]
  /\ dbMutex = [d \in DBs |-> Free]
  /\ taskMutex = [t \in Tasks |-> Free]
  /\ pc = [t \in Tasks |-> IF t = Main THEN "running" ELSE "unsatisfied"]
  /\ acquired = [t \in Tasks |-> IF t = Main THEN BlocksOf(t) ELSE {}]
  /\ ordered = [t \in Tasks |-> {}]
  /\ held = [t \in Tasks |-> IF t = Main THEN DOMAIN Slots[t] ELSE {}]
  /\ left = [t \in Tasks |-> {}]
  /\ wake = [t \in Tasks |-> <<>>]
  /\ holders = [d \in DBs |-> IF d \in BlocksOf(Main) THEN {Main} ELSE {}]

(* The last pre-slot is satisfied: ordered_guids is built and the walk     *)
(* begins, under the task's mutex.                                         *)
Satisfy(t) ==
  /\ pc[t] = "unsatisfied" /\ taskMutex[t] = Free
  /\ pc' = [pc EXCEPT ![t] = "acquiring"]
  /\ taskMutex' = [taskMutex EXCEPT ![t] = Satisfier]
  /\ ordered' = [ordered EXCEPT ![t] = BlocksOf(t)]
  /\ UNCHANGED <<lock, dbMutex, acquired, held, left, wake, holders>>

(* Mutant: ordered_guids is not sorted.                                    *)
NextUnsorted(t) ==
  {d \in BlocksOf(t) \ acquired[t] :
     \E i \in IndicesOf(t, d) : \A j \in 1..i - 1 : Slots[t][j].db \in acquired[t]}

(* ordered_guids[acquired]: the next block of the walk, if any.            *)
NextBlock(t) ==
  {d \in BlocksOf(t) \ acquired[t] : \A e \in BlocksOf(t) \ acquired[t] : d <= e}

(* Mutant: a walk goes on after it has queued its task.                    *)
TryLockAndGoOn(t, d) ==
  LET m == LockMode(t, d)
  IN  /\ pc[t] = "acquiring" /\ d \in NextBlock(t)
      /\ dbMutex[d] \in {Free, taskMutex[t]}
      /\ lock' = [lock EXCEPT ![d] = IF Lockable(@, m) THEN Locked(@, m) ELSE Enqueued(@, m, t)]
      /\ acquired' = [acquired EXCEPT ![t] = @ \cup {d}]
      /\ holders' = [holders EXCEPT ![d] = IF Lockable(lock[d], m) THEN @ \cup {t} ELSE @]
      /\ UNCHANGED <<dbMutex, taskMutex, pc, ordered, held, left, wake>>

(* One round of try_lock_all under the mutex of the block d, which an      *)
(* unlocking thread that walks for a waiter of d holds already.            *)
TryLock(t, d) ==
  LET m == LockMode(t, d)
  IN  /\ pc[t] = "acquiring" /\ d \in NextBlock(t)
      /\ dbMutex[d] \in {Free, taskMutex[t]}
      /\ IF Lockable(lock[d], m)
           THEN /\ lock' = [lock EXCEPT ![d] = Locked(@, m)]
                /\ acquired' = [acquired EXCEPT ![t] = @ \cup {d}]
                /\ holders' = [holders EXCEPT ![d] = @ \cup {t}]
                /\ pc' = pc
           ELSE /\ lock' = [lock EXCEPT ![d] = Enqueued(@, m, t)]
                /\ pc' = [pc EXCEPT ![t] = "queued"]
                /\ UNCHANGED <<acquired, holders>>
      /\ UNCHANGED <<dbMutex, taskMutex, ordered, held, left, wake>>

(* Every block is locked: the task is handed to the scheduler.             *)
Spawn(t) ==
  /\ pc[t] = "acquiring" /\ BlocksOf(t) \subseteq acquired[t]
  /\ pc' = [pc EXCEPT ![t] = "spawned"]
  /\ UNCHANGED <<lock, dbMutex, taskMutex, acquired, ordered, held, left, wake, holders>>

(* The walking thread leaves the scope that holds the task's mutex.        *)
LeaveMutex(t) ==
  /\ taskMutex[t] # Free /\ pc[t] # "acquiring"
  /\ taskMutex' = [taskMutex EXCEPT ![t] = Free]
  /\ UNCHANGED <<lock, dbMutex, pc, acquired, ordered, held, left, wake, holders>>

(* edt_task::execute, up to the user function: add_db for every slot.      *)
Start(t) ==
  /\ pc[t] = "spawned"
  /\ pc' = [pc EXCEPT ![t] = "running"]
  /\ held' = [held EXCEPT ![t] = DOMAIN Slots[t]]
  /\ UNCHANGED <<lock, dbMutex, taskMutex, acquired, ordered, left, wake, holders>>

(* A call of unlock is <<d, 0>> if it finds d in ordered_guids, with the   *)
(* combined mode, and <<d, i>> if not: it takes the mode of held_dbs_[i].  *)
UnlockMode(t, x) == IF x[2] = 0 THEN LockMode(t, x[1]) ELSE Slots[t][x[2]].mode

(* ocrDbRelease: remove_db calls release_db for every held entry of d; the *)
(* first call clears d from ordered_guids.                                 *)
Release(t, d) ==
  LET is    == held[t] \cap IndicesOf(t, d)
      first == {i \in is : d \in ordered[t] /\ \A j \in is : i <= j}
  IN  /\ pc[t] = "running" /\ left[t] = {} /\ d \in EarlyReleases[t] /\ is # {}
      /\ left' = [left EXCEPT ![t] = {<<d, IF i \in first THEN 0 ELSE i>> : i \in is}]
      /\ ordered' = [ordered EXCEPT ![t] = @ \ {d}]
      /\ held' = [held EXCEPT ![t] = @ \ is]
      /\ UNCHANGED <<lock, dbMutex, taskMutex, pc, acquired, wake, holders>>

(* The user function returns: unlock_all unlocks what is left in           *)
(* ordered_guids and then the held blocks that were not there.             *)
End(t) ==
  LET others == {i \in held[t] : Slots[t][i].db \notin ordered[t]}
  IN  /\ pc[t] = "running" /\ left[t] = {}
      /\ pc' = [pc EXCEPT ![t] = "finishing"]
      /\ left' = [left EXCEPT ![t] = {<<d, 0>> : d \in ordered[t]}
                                       \cup {<<Slots[t][i].db, i>> : i \in others}]
      /\ held' = [held EXCEPT ![t] = others]
      /\ UNCHANGED <<lock, dbMutex, taskMutex, acquired, ordered, wake, holders>>

(* The next call of unlock: ordered_guids in guid order, then held_dbs_.   *)
Precedes(x, y) == x[2] < y[2] \/ (x[2] = y[2] /\ x[1] <= y[1])
NextCall(t)    == {x \in left[t] : \A y \in left[t] : Precedes(x, y)}

(* unlock takes the block's mutex, counts down, chooses the new owners and,*)
(* if there is none, is done.                                              *)
Unlock(t, x) ==
  LET d == x[1]
      m == UnlockMode(t, x)
      l == Unlocked(lock[d], m)
      q == FirstWaiting(l, m)
  IN  /\ x \in NextCall(t) /\ dbMutex[d] = Free
      /\ lock' = [lock EXCEPT ![d] = WithoutOwners(l, q)]
      /\ holders' = [holders EXCEPT ![d] = @ \ {t}]
      /\ wake' = [wake EXCEPT ![t] = NewOwners(l, q)]
      /\ IF q = NoList
           THEN left' = [left EXCEPT ![t] = @ \ {x}] /\ dbMutex' = dbMutex
           ELSE dbMutex' = [dbMutex EXCEPT ![d] = t] /\ left' = left
      /\ UNCHANGED <<taskMutex, pc, acquired, ordered, held>>

WalksFor(t) == {u \in Tasks : taskMutex[u] = t}

(* The unlocking thread takes the mutex of the next new owner and walks on *)
(* for it (TryLock, Spawn, LeaveMutex).                                    *)
Wake(t, d) ==
  LET u == Head(wake[t])
  IN  /\ dbMutex[d] = t /\ wake[t] # <<>> /\ WalksFor(t) = {}
      /\ taskMutex[u] = Free
      /\ taskMutex' = [taskMutex EXCEPT ![u] = t]
      /\ pc' = [pc EXCEPT ![u] = "acquiring"]
      /\ wake' = [wake EXCEPT ![t] = Tail(@)]
      /\ UNCHANGED <<lock, dbMutex, acquired, ordered, held, left, holders>>

(* All new owners are served: unlock releases the block's mutex.           *)
LeaveUnlock(t, d) ==
  /\ dbMutex[d] = t /\ wake[t] = <<>> /\ WalksFor(t) = {}
  /\ dbMutex' = [dbMutex EXCEPT ![d] = Free]
  /\ left' = [left EXCEPT ![t] = @ \ NextCall(t)]
  /\ UNCHANGED <<lock, taskMutex, pc, acquired, ordered, held, wake, holders>>

(* unlock_all is done; the task's structure is deleted.                    *)
Finish(t) ==
  /\ pc[t] = "finishing" /\ left[t] = {}
  /\ pc' = [pc EXCEPT ![t] = "finished"]
  /\ held' = [held EXCEPT ![t] = {}]
  /\ UNCHANGED <<lock, dbMutex, taskMutex, acquired, ordered, left, wake, holders>>

Terminated == (\A t \in Tasks : pc[t] = "finished" /\ taskMutex[t] = Free) /\ UNCHANGED vars

(* The steps of the thread that walks for t, and of the one that runs t.   *)
Walk(t) == (\E d \in DBs : TryLock(t, d)) \/ Spawn(t) \/ LeaveMutex(t)

Run(t) ==
  \/ Start(t) \/ End(t) \/ Finish(t)
  \/ \E x \in left[t] : Unlock(t, x)
  \/ \E d \in DBs : Wake(t, d) \/ LeaveUnlock(t, d)

Next ==
  \/ \E t \in Tasks : Satisfy(t) \/ Walk(t) \/ Run(t) \/ \E d \in DBs : Release(t, d)
  \/ Terminated

Spec == Init /\ [][Next]_vars

(* Threads keep running, the scheduler runs every spawned task and user    *)
(* functions return.                                                       *)
Fairness == \A t \in Tasks : WF_vars(Satisfy(t) \/ Walk(t) \/ Run(t))

FairSpec == Spec /\ Fairness

-----------------------------------------------------------------------------
(***************************************************************************)
(* Properties.                                                             *)
(***************************************************************************)
Counter  == 0..CounterSize - 1
DbData   == [shared : Counter, exclusive : Counter, write : BOOLEAN,
             sharedQ : Seq(Tasks), readQ : Seq(Tasks), writeQ : Seq(Tasks)]
Progress == {"unsatisfied", "acquiring", "queued", "spawned", "running", "finishing", "finished"}

(* Every variable keeps to its domain; a walk only passes the task's own   *)
(* blocks.                                                                 *)
TypeOK ==
  /\ lock \in [DBs -> DbData]
  /\ dbMutex \in [DBs -> Tasks \cup {Free}]
  /\ taskMutex \in [Tasks -> Tasks \cup {Free, Satisfier}]
  /\ pc \in [Tasks -> Progress]
  /\ acquired \in [Tasks -> SUBSET DBs] /\ \A t \in Tasks : acquired[t] \subseteq BlocksOf(t)
  /\ ordered \in [Tasks -> SUBSET DBs]
  /\ held \in [Tasks -> SUBSET Nat]
  /\ left \in [Tasks -> SUBSET (DBs \X Nat)]
  /\ wake \in [Tasks -> Seq(Tasks)]
  /\ holders \in [DBs -> SUBSET Tasks]

(* Two tasks hold a block together only in modes that allow it: an EW      *)
(* holder is alone, and a CONST holder shares with CONST holders only.     *)
MayShare(m1, m2) == (Shared(m1) /\ Shared(m2)) \/ (m1 = "CONST" /\ m2 = "CONST")

LocksExclude ==
  \A d \in DBs : \A t, u \in holders[d] : t # u => MayShare(LockMode(t, d), LockMode(u, d))

(* A running task holds every block of its slots that it has not released, *)
(* whichever threads did the walking.                                      *)
RunningTaskHoldsItsBlocks ==
  \A t \in Tasks : pc[t] = "running" => \A i \in held[t] : t \in holders[Slots[t][i].db]

Waiting(d) == {t \in Tasks : pc[t] = "queued" /\ d \in NextBlock(t)}
InLists(d) == UNION {{lock[d][q][i] : i \in DOMAIN lock[d][q]} : q \in {"sharedQ", "readQ", "writeQ"}}

(* The assertions of unlock: nobody waits for a shared lock while one is   *)
(* held, nor for a CONST lock; and a waiter's walk has stopped at the block*)
(* whose list it is in.                                                    *)
AssertionsHold ==
  /\ \A d \in DBs : /\ lock[d].shared > 0 => lock[d].sharedQ = <<>>
                    /\ lock[d].exclusive > 0 /\ ~lock[d].write => lock[d].readQ = <<>>
                    /\ InLists(d) \subseteq Waiting(d)
  /\ \A t \in Tasks : \A d \in DBs : dbMutex[d] = t =>
       \A i \in DOMAIN wake[t] : wake[t][i] \in Waiting(d)

(* No wake-up is lost: while no thread is unlocking a block, a task waits  *)
(* for it only because some holder of the block excludes it.               *)
NoStrandedWaiter ==
  \A d \in DBs : dbMutex[d] = Free =>
    \A t \in Waiting(d) : \E u \in holders[d] : ~MayShare(LockMode(t, d), LockMode(u, d))

(* Waiting for a block ends: whoever releases it finds the waiters where   *)
(* unlock expects them and wakes all it has to.                            *)
WaitersServed == AssertionsHold /\ NoStrandedWaiter

(* Every task gets its blocks and ends: the mutexes taken in two orders    *)
(* (task then block, block then waiting task) never block each other.      *)
EveryTaskFinishes == <>(\A t \in Tasks : pc[t] = "finished")
=============================================================================
