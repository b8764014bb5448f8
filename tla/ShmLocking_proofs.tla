------------------------- MODULE ShmLocking_proofs -------------------------
(***************************************************************************)
(* Proofs about ShmLocking: combining access modes slot by slot, and, for  *)
(* programs in which no task releases early a block that several of its    *)
(* slots carry, type correctness, the exclusion of incompatible tasks and  *)
(* that no task is left waiting for a block it could have.                 *)
(***************************************************************************)
EXTENDS ShmLocking, FiniteSetTheorems, TLAPS

(* A block that a task may release early is in one of its slots only.      *)
ReleasedOnce ==
  \A t \in Tasks : \A d \in EarlyReleases[t] : \A i, j \in IndicesOf(t, d) : i = j

-----------------------------------------------------------------------------
(***************************************************************************)
(* The inductive invariant.                                                *)
(***************************************************************************)
Lists      == {"sharedQ", "readQ", "writeQ"}
ListOf(m)  == IF Shared(m) THEN "sharedQ" ELSE IF m = "CONST" THEN "readQ" ELSE "writeQ"
Members(s) == {s[i] : i \in DOMAIN s}
Distinct(s) == \A i, j \in DOMAIN s : s[i] = s[j] => i = j

(* A lock l of block d counts the tasks h, which may hold it together.     *)
SharedOf(h, d)    == {t \in h : Shared(LockMode(t, d))}
ExclusiveOf(h, d) == {t \in h : ~Shared(LockMode(t, d))}
Counts(l, h, d) ==
  /\ l.shared = Cardinality(SharedOf(h, d))
  /\ l.exclusive = Cardinality(ExclusiveOf(h, d))
  /\ l.write <=> \E t \in h : LockMode(t, d) = "EW"
Excludes(h, d) == \A t, u \in h : t # u => MayShare(LockMode(t, d), LockMode(u, d))

CountInv == \A d \in DBs : Counts(lock[d], holders[d], d) /\ Excludes(holders[d], d)

(* What a task holds, by its progress.                                     *)
Before == {"unsatisfied", "acquiring", "queued", "spawned"}
BeforeInv(t) ==
  pc[t] \in Before =>
    /\ t # Main /\ left[t] = {} /\ held[t] = {}
    /\ \A d \in acquired[t] : t \in holders[d]
    /\ ordered[t] = IF pc[t] = "unsatisfied" THEN {} ELSE BlocksOf(t)
    /\ pc[t] = "spawned" => BlocksOf(t) \subseteq acquired[t]

RunningInv(t) ==
  pc[t] = "running" =>
    /\ \A d \in ordered[t] : t \in holders[d]
    /\ \A i \in held[t] : i \in DOMAIN Slots[t] /\ t \in holders[Slots[t][i].db]
    /\ t # Main => \A i \in held[t] : Slots[t][i].db \in ordered[t]
    /\ t = Main => ordered[t] = {}
    /\ \A x \in left[t] : x[1] \notin ordered[t] /\ \A i \in held[t] : Slots[t][i].db # x[1]

(* The calls of unlock to come: each gives up a lock the task holds, in    *)
(* the mode it was taken, once; the call in progress is the next one.      *)
CallInv(t) ==
  /\ \A x \in left[t] :
       /\ dbMutex[x[1]] # t => t \in holders[x[1]]
       /\ \/ x[2] = 0
          \/ t = Main /\ x[2] \in DOMAIN Slots[t] /\ Slots[t][x[2]].db = x[1]
  /\ \A x, y \in left[t] : x[1] = y[1] => x = y
  /\ \A d \in DBs : dbMutex[d] = t => \E x \in NextCall(t) : x[1] = d

HoldInv ==
  /\ \A d \in DBs : \A t \in holders[d] : d \in acquired[t]
  /\ \A t \in Tasks : BeforeInv(t) /\ RunningInv(t) /\ CallInv(t)

(* A waiting task is in one list, of the block its walk has stopped at.    *)
ListInv ==
  \A d \in DBs : \A q \in Lists :
    /\ Distinct(lock[d][q])
    /\ \A u \in Members(lock[d][q]) :
         pc[u] = "queued" /\ d \in NextBlock(u) /\ ListOf(LockMode(u, d)) = q

WakeInv ==
  \A t \in Tasks :
    /\ Distinct(wake[t])
    /\ \A u \in Members(wake[t]) :
         /\ pc[u] = "queued"
         /\ \E d \in DBs : /\ dbMutex[d] = t /\ d \in NextBlock(u)
                           /\ u \notin Members(lock[d][ListOf(LockMode(u, d))])

IInv == TypeOK /\ CountInv /\ HoldInv /\ ListInv /\ WakeInv

(***************************************************************************)
(* Waiting for a block.  A block whose mutex is free keeps a task waiting  *)
(* only behind holders that exclude it (Idle).  While a thread unlocks it, *)
(* the tasks P that the thread has still to serve are of one kind and can  *)
(* lock the block; when all have, the rest waits behind them (Serving).    *)
(***************************************************************************)
Sound(l) ==
  /\ l.shared > 0 => l.sharedQ = <<>>
  /\ l.exclusive > 0 /\ ~l.write => l.readQ = <<>>

Idle(l) ==
  /\ l.sharedQ # <<>> => l.exclusive > 0
  /\ l.readQ # <<>> => l.shared > 0 \/ l.write
  /\ l.writeQ # <<>> => l.shared > 0 \/ l.exclusive > 0

ServingWriter(l, P, d) ==
  \/ P = {} /\ l.write
  \/ l.shared = 0 /\ l.exclusive = 0 /\ \E u \in Tasks : P = {u} /\ LockMode(u, d) = "EW"
ServingReaders(l, P, d) ==
  /\ \A u \in P : LockMode(u, d) = "CONST"
  /\ l.shared = 0 /\ ~l.write /\ l.readQ = <<>> /\ l.writeQ = <<>>
  /\ P = {} => l.exclusive > 0
ServingShared(l, P, d) ==
  /\ \A u \in P : Shared(LockMode(u, d))
  /\ l.exclusive = 0 /\ l.sharedQ = <<>> /\ l.readQ = <<>> /\ l.writeQ = <<>>
Serving(l, P, d) == ServingWriter(l, P, d) \/ ServingReaders(l, P, d) \/ ServingShared(l, P, d)

(* The tasks that t, unlocking d, has still to lock d for.                 *)
Unserved(t, d) == Members(wake[t]) \cup {u \in WalksFor(t) : d \in NextBlock(u)}

BlockInv(d) ==
  /\ Sound(lock[d])
  /\ dbMutex[d] = Free => Idle(lock[d])
  /\ \A t \in Tasks : dbMutex[d] = t => Serving(lock[d], Unserved(t, d), d)

QueueInv == \A d \in DBs : BlockInv(d)

(* A thread walks for another task only while it unlocks a block, which    *)
(* the task has locked or locks next.                                      *)
WalkInv ==
  \A t \in Tasks : \A u \in WalksFor(t) :
    \E d \in DBs : dbMutex[d] = t /\ (d \in acquired[u] \/ (pc[u] = "acquiring" /\ d \in NextBlock(u)))

(* A task that waits is in a list, or an unlocking thread is to serve it.  *)
FoundInv ==
  \A u \in Tasks : \A d \in NextBlock(u) : pc[u] = "queued" =>
    \/ u \in Members(lock[d][ListOf(LockMode(u, d))])
    \/ \E t \in Tasks : dbMutex[d] = t /\ u \in Members(wake[t])

WaitInv == QueueInv /\ WalkInv /\ FoundInv

-----------------------------------------------------------------------------
(***************************************************************************)
(* Access modes, blocks and calls.                                         *)
(***************************************************************************)
LEMMA CombinedType ==
  ASSUME NEW A
  PROVE  Combined(A) \in Modes
  BY DEF Combined, Modes

(* satisfy_event combines the modes of a block's slots one after another,  *)
(* starting from RO: the result is Combined of their set, in any order.    *)
THEOREM CombinedOneByOne ==
  ASSUME NEW A \in SUBSET SlotModes, NEW m \in SlotModes
  PROVE  /\ Combined({}) = OrderToMode(0)
         /\ CombineModes(Combined(A), m) = Combined(A \cup {m})
<1>1. Combined({}) = OrderToMode(0)
  BY DEF Combined, OrderToMode
<1>2. ModeToOrder("NULL") = 0 /\ ModeToOrder("RO") = 0 /\ ModeToOrder("RW") = 1
      /\ ModeToOrder("CONST") = 2 /\ ModeToOrder("EW") = 3
  BY DEF ModeToOrder
<1>3. OrderToMode(0) = "RO" /\ OrderToMode(1) = "RW" /\ OrderToMode(2) = "CONST" /\ OrderToMode(3) = "EW"
  BY DEF OrderToMode
<1>4. ASSUME NEW c \in Modes
      PROVE  CombineModes(c, m) =
               IF c = "EW" \/ m = "EW" \/ (c = "RW" /\ m = "CONST") \/ (c = "CONST" /\ m = "RW") THEN "EW"
               ELSE IF c = "CONST" \/ m = "CONST" THEN "CONST"
               ELSE IF c = "RW" \/ m = "RW" THEN "RW" ELSE "RO"
  <2>1. {c, m} = {"CONST", "RW"} <=> (c = "RW" /\ m = "CONST") \/ (c = "CONST" /\ m = "RW")
    OBVIOUS
  <2>2. QED
    BY <2>1, <1>2, <1>3 DEF CombineModes, Modes, SlotModes
<1>5. CombineModes(Combined(A), m) = Combined(A \cup {m})
  BY <1>4, CombinedType DEF Combined
<1>6. QED
  BY <1>1, <1>5

LEMMA SlotFacts ==
  ASSUME NEW t \in Tasks
  PROVE  /\ DOMAIN Slots[t] \subseteq Nat \ {0}
         /\ \A i \in DOMAIN Slots[t] : Slots[t][i].db \in DBs /\ Slots[t][i].db \in BlocksOf(t)
         /\ BlocksOf(t) \subseteq DBs
         /\ \A d \in BlocksOf(t) : \E i \in DOMAIN Slots[t] : d = Slots[t][i].db
<1>1. Slots[t] \in Seq(Entries)
  BY SlotsAssumption
<1>2. DOMAIN Slots[t] = 1..Len(Slots[t]) /\ Len(Slots[t]) \in Nat
  BY <1>1
<1>3. \A i \in DOMAIN Slots[t] : Slots[t][i] \in Entries
  BY <1>1
<1>4. BlocksOf(t) = {Slots[t][i].db : i \in DOMAIN Slots[t]}
  BY DEF BlocksOf, Blocks
<1>5. QED
  BY <1>2, <1>3, <1>4 DEF Entries

LEMMA LockModeDef ==
  ASSUME NEW t \in Tasks, NEW d \in DBs
  PROVE  /\ LockMode(t, d) = Combined({Slots[t][i].mode : i \in IndicesOf(t, d)})
         /\ LockMode(t, d) \in Modes
  BY CombinedType DEF LockMode, LockModes

(* The first task holds the blocks it created in the mode it unlocks with. *)
LEMMA MainMode ==
  ASSUME NEW i \in DOMAIN Slots[Main]
  PROVE  LockMode(Main, Slots[Main][i].db) = "RW" /\ Slots[Main][i].mode = "RW"
<1> DEFINE d == Slots[Main][i].db
<1>1. Main \in Tasks /\ d \in DBs
  BY TasksAssumption, SlotFacts
<1>2. IndicesOf(Main, d) # {} /\ IndicesOf(Main, d) \subseteq DOMAIN Slots[Main]
  BY DEF IndicesOf
<1>3. {Slots[Main][j].mode : j \in IndicesOf(Main, d)} = {"RW"}
  BY <1>2, MainAssumption
<1>4. Combined({"RW"}) = "RW"
  BY DEF Combined
<1>5. QED
  BY <1>1, <1>3, <1>4, LockModeDef, MainAssumption

LEMMA NextBlockFacts ==
  ASSUME NEW t \in Tasks, NEW d \in NextBlock(t)
  PROVE  /\ d \in BlocksOf(t) /\ d \notin acquired[t] /\ d \in DBs
         /\ \A e \in NextBlock(t) : e = d
<1>1. BlocksOf(t) \subseteq Nat /\ BlocksOf(t) \subseteq DBs
  BY SlotFacts, BlocksAssumption
<1>2. ASSUME NEW e \in NextBlock(t) PROVE e = d
  <2>1. d \in Nat /\ e \in Nat /\ d <= e /\ e <= d
    BY <1>1 DEF NextBlock
  <2>2. QED
    BY <2>1
<1>3. QED
  BY <1>1, <1>2 DEF NextBlock

LEMMA NextCallFacts ==
  ASSUME NEW t \in Tasks, TypeOK, NEW x \in NextCall(t)
  PROVE  /\ x \in left[t] /\ x[1] \in DBs /\ x[2] \in Nat
         /\ \A y \in NextCall(t) : y = x
<1>1. left[t] \subseteq DBs \X Nat
  BY DEF TypeOK
<1>2. x \in left[t] /\ x \in DBs \X Nat
  BY <1>1 DEF NextCall
<1>3. ASSUME NEW y \in NextCall(t) PROVE y = x
  <2>1. y \in left[t] /\ y \in DBs \X Nat
    BY <1>1 DEF NextCall
  <2>2. Precedes(x, y) /\ Precedes(y, x)
    BY <1>2, <2>1 DEF NextCall
  <2>n. x[1] \in Nat /\ y[1] \in Nat /\ x[2] \in Nat /\ y[2] \in Nat
    BY <2>1, <1>2, BlocksAssumption
  <2>3. x[1] = y[1] /\ x[2] = y[2]
    BY <2>2, <2>n DEF Precedes
  <2>4. QED
    BY <2>1, <2>3, <1>2
<1>4. QED
  BY <1>2, <1>3

(* The mode of a call is the mode the block was locked in.                 *)
LEMMA CallMode ==
  ASSUME NEW t \in Tasks, TypeOK, CallInv(t), NEW x \in left[t]
  PROVE  UnlockMode(t, x) = LockMode(t, x[1])
  BY MainMode DEF CallInv, UnlockMode

-----------------------------------------------------------------------------
(***************************************************************************)
(* Locking and unlocking keep the counters right.                          *)
(***************************************************************************)
LEMMA HoldersFinite ==
  ASSUME NEW h \in SUBSET Tasks, NEW d \in DBs
  PROVE  /\ IsFiniteSet(SharedOf(h, d)) /\ IsFiniteSet(ExclusiveOf(h, d))
         /\ Cardinality(SharedOf(h, d)) \in Counter /\ Cardinality(ExclusiveOf(h, d)) \in Counter
<1>1. ASSUME NEW S \in SUBSET Tasks
      PROVE  IsFiniteSet(S) /\ Cardinality(S) \in Counter
  <2>1. IsFiniteSet(S) /\ Cardinality(S) <= Cardinality(Tasks)
    BY FS_Subset, TasksAssumption
  <2>2. Cardinality(S) \in Nat /\ Cardinality(Tasks) \in Nat
    BY <2>1, FS_CardinalityType, TasksAssumption
  <2>3. QED
    BY <2>1, <2>2, CounterAssumption DEF Counter
<1>2. QED
  BY <1>1 DEF SharedOf, ExclusiveOf

(* A zero counter means no holder of that kind.                            *)
LEMMA ZeroCount ==
  ASSUME NEW h \in SUBSET Tasks, NEW d \in DBs, NEW l, Counts(l, h, d)
  PROVE  /\ l.shared = 0 <=> \A t \in h : ~Shared(LockMode(t, d))
         /\ l.exclusive = 0 <=> \A t \in h : Shared(LockMode(t, d))
<1>1. /\ Cardinality(SharedOf(h, d)) = 0 <=> SharedOf(h, d) = {}
      /\ Cardinality(ExclusiveOf(h, d)) = 0 <=> ExclusiveOf(h, d) = {}
  BY HoldersFinite, FS_EmptySet
<1>2. QED
  BY <1>1 DEF Counts, SharedOf, ExclusiveOf

(* DbData, without its waiting lists.                                      *)
LEMMA LockStep ==
  ASSUME NEW h \in SUBSET Tasks, NEW d \in DBs, NEW t \in Tasks, t \notin h,
         NEW l \in DbData, Counts(l, h, d), Excludes(h, d),
         Lockable(l, LockMode(t, d))
  PROVE  /\ Locked(l, LockMode(t, d)) \in DbData
         /\ Counts(Locked(l, LockMode(t, d)), h \cup {t}, d)
         /\ Excludes(h \cup {t}, d)
<1> DEFINE m  == LockMode(t, d)
           l2 == Locked(l, m)
           h2 == h \cup {t}
<1>m. m \in Modes
  BY LockModeDef
<1>h. h2 \in SUBSET Tasks
  OBVIOUS
<1>f. IsFiniteSet(SharedOf(h, d)) /\ IsFiniteSet(ExclusiveOf(h, d))
  BY HoldersFinite
<1>c. Cardinality(SharedOf(h2, d)) \in Counter /\ Cardinality(ExclusiveOf(h2, d)) \in Counter
  BY <1>h, HoldersFinite
<1>1. Excludes(h2, d)
  <2>1. \A u \in h : MayShare(LockMode(u, d), m) /\ MayShare(m, LockMode(u, d))
    <3>1. \A u \in h : LockMode(u, d) \in Modes
      BY LockModeDef
    <3>2. CASE Shared(m)
      <4>1. \A u \in h : Shared(LockMode(u, d))
        BY <3>2, ZeroCount DEF Lockable, Shared
      <4>2. QED
        BY <4>1, <3>2 DEF MayShare
    <3>3. CASE m = "CONST"
      <4>1. l.shared = 0 /\ ~l.write
        BY <3>3 DEF Lockable, Shared
      <4>2. \A u \in h : ~Shared(LockMode(u, d)) /\ LockMode(u, d) # "EW"
        BY <4>1, ZeroCount DEF Counts
      <4>3. QED
        BY <4>2, <3>1, <3>3 DEF MayShare, Modes, Shared
    <3>4. CASE m = "EW"
      <4>1. l.shared = 0 /\ l.exclusive = 0
        BY <3>4 DEF Lockable, Shared
      <4>2. h = {}
        BY <4>1, ZeroCount
      <4>3. QED
        BY <4>2
    <3>5. QED
      BY <1>m, <3>2, <3>3, <3>4 DEF Modes, Shared
  <2>2. QED
    BY <2>1 DEF Excludes
<1>2. CASE Shared(m)
  <2>1. l2 = [l EXCEPT !.shared = @ + 1]
    BY <1>2 DEF Locked, Shared
  <2>2. SharedOf(h2, d) = SharedOf(h, d) \cup {t} /\ t \notin SharedOf(h, d)
        /\ ExclusiveOf(h2, d) = ExclusiveOf(h, d)
    BY <1>2 DEF SharedOf, ExclusiveOf
  <2>3. Cardinality(SharedOf(h2, d)) = Cardinality(SharedOf(h, d)) + 1
    BY <2>2, <1>f, FS_AddElement
  <2>4. l2.shared = Cardinality(SharedOf(h2, d)) /\ l2.exclusive = Cardinality(ExclusiveOf(h2, d))
    BY <2>1, <2>2, <2>3 DEF Counts, DbData
  <2>5. (\E u \in h2 : LockMode(u, d) = "EW") <=> \E u \in h : LockMode(u, d) = "EW"
    BY <1>2 DEF Shared
  <2>6. l2.write = l.write
    BY <2>1 DEF DbData
  <2>7. Counts(l2, h2, d)
    BY <2>4, <2>5, <2>6 DEF Counts
  <2>8. l2 \in DbData
    BY <2>1, <2>4, <1>c DEF DbData
  <2>9. QED
    BY <1>1, <2>7, <2>8
<1>3. CASE ~Shared(m)
  <2>1. l2.exclusive = l.exclusive + 1 /\ l2.shared = l.shared
        /\ l2.write = (l.write \/ m = "EW") /\ l2.sharedQ = l.sharedQ
        /\ l2.readQ = l.readQ /\ l2.writeQ = l.writeQ
        /\ l2 = [shared |-> l2.shared, exclusive |-> l2.exclusive, write |-> l2.write,
                 sharedQ |-> l2.sharedQ, readQ |-> l2.readQ, writeQ |-> l2.writeQ]
    <3>1. CASE m = "CONST"
      BY <3>1, <1>3 DEF Locked, DbData
    <3>2. CASE m = "EW"
      BY <3>2, <1>3 DEF Locked, DbData
    <3>3. QED
      BY <3>1, <3>2, <1>m, <1>3 DEF Modes, Shared
  <2>2. ExclusiveOf(h2, d) = ExclusiveOf(h, d) \cup {t} /\ t \notin ExclusiveOf(h, d)
        /\ SharedOf(h2, d) = SharedOf(h, d)
    BY <1>3 DEF SharedOf, ExclusiveOf
  <2>3. Cardinality(ExclusiveOf(h2, d)) = Cardinality(ExclusiveOf(h, d)) + 1
    BY <2>2, <1>f, FS_AddElement
  <2>4. l2.shared = Cardinality(SharedOf(h2, d)) /\ l2.exclusive = Cardinality(ExclusiveOf(h2, d))
    BY <2>1, <2>2, <2>3 DEF Counts
  <2>5. (\E u \in h2 : LockMode(u, d) = "EW") <=> (m = "EW" \/ \E u \in h : LockMode(u, d) = "EW")
    OBVIOUS
  <2>7. Counts(l2, h2, d)
    BY <2>1, <2>4, <2>5 DEF Counts
  <2>8. l2 \in DbData
    BY <2>1, <2>4, <1>c DEF DbData
  <2>9. QED
    BY <1>1, <2>7, <2>8
<1>4. QED
  BY <1>2, <1>3

LEMMA UnlockStep ==
  ASSUME NEW h \in SUBSET Tasks, NEW d \in DBs, NEW t \in h,
         NEW l \in DbData, Counts(l, h, d), Excludes(h, d)
  PROVE  /\ Unlocked(l, LockMode(t, d)) \in DbData
         /\ Counts(Unlocked(l, LockMode(t, d)), h \ {t}, d)
         /\ Excludes(h \ {t}, d)
         /\ \A q \in Lists : Unlocked(l, LockMode(t, d))[q] = l[q]
<1> DEFINE m  == LockMode(t, d)
           l2 == Unlocked(l, m)
           h2 == h \ {t}
<1>m. m \in Modes /\ t \in Tasks
  BY LockModeDef
<1>h. h2 \in SUBSET Tasks
  OBVIOUS
<1>f. IsFiniteSet(SharedOf(h, d)) /\ IsFiniteSet(ExclusiveOf(h, d))
  BY HoldersFinite
<1>c. Cardinality(SharedOf(h2, d)) \in Counter /\ Cardinality(ExclusiveOf(h2, d)) \in Counter
  BY <1>h, HoldersFinite
<1>1. Excludes(h2, d)
  BY DEF Excludes
<1>n. Cardinality(SharedOf(h, d)) \in Nat /\ Cardinality(ExclusiveOf(h, d)) \in Nat
  BY <1>f, FS_CardinalityType
<1>2. CASE Shared(m)
  <2>1. l2 = [l EXCEPT !.shared = Decrement(@)]
    BY <1>2 DEF Unlocked, Shared
  <2>2. SharedOf(h2, d) = SharedOf(h, d) \ {t} /\ t \in SharedOf(h, d)
        /\ ExclusiveOf(h2, d) = ExclusiveOf(h, d)
    BY <1>2 DEF SharedOf, ExclusiveOf
  <2>r. Cardinality(SharedOf(h, d) \ {t}) = Cardinality(SharedOf(h, d)) - 1
    BY <2>2, <1>f, FS_RemoveElement
  <2>3. Cardinality(SharedOf(h2, d)) = Cardinality(SharedOf(h, d)) - 1
    BY <2>2, <2>r
  <2>a. l.shared # 0
    BY <1>2, ZeroCount
  <2>4. l2.shared = Cardinality(SharedOf(h2, d)) /\ l2.exclusive = Cardinality(ExclusiveOf(h2, d))
    BY <2>1, <2>2, <2>3, <2>a DEF Counts, DbData, Decrement
  <2>5. (\E u \in h2 : LockMode(u, d) = "EW") <=> \E u \in h : LockMode(u, d) = "EW"
    BY <1>2 DEF Shared
  <2>6. l2.write = l.write /\ l2.sharedQ = l.sharedQ /\ l2.readQ = l.readQ /\ l2.writeQ = l.writeQ
    BY <2>1 DEF DbData
  <2>7. Counts(l2, h2, d)
    BY <2>4, <2>5, <2>6 DEF Counts
  <2>8. l2 \in DbData
    BY <2>1, <2>4, <1>c DEF DbData
  <2>9. QED
    BY <1>1, <2>6, <2>7, <2>8 DEF Lists
<1>3. CASE ~Shared(m)
  <2>1. l2.exclusive = Decrement(l.exclusive) /\ l2.shared = l.shared
        /\ l2.write = (l.write /\ m # "EW") /\ l2.sharedQ = l.sharedQ
        /\ l2.readQ = l.readQ /\ l2.writeQ = l.writeQ
        /\ l2 = [shared |-> l2.shared, exclusive |-> l2.exclusive, write |-> l2.write,
                 sharedQ |-> l2.sharedQ, readQ |-> l2.readQ, writeQ |-> l2.writeQ]
    <3>1. CASE m = "CONST"
      BY <3>1, <1>3 DEF Unlocked, DbData
    <3>2. CASE m = "EW"
      BY <3>2, <1>3 DEF Unlocked, DbData
    <3>3. QED
      BY <3>1, <3>2, <1>m, <1>3 DEF Modes, Shared
  <2>2. ExclusiveOf(h2, d) = ExclusiveOf(h, d) \ {t} /\ t \in ExclusiveOf(h, d)
        /\ SharedOf(h2, d) = SharedOf(h, d)
    BY <1>3 DEF SharedOf, ExclusiveOf
  <2>r. Cardinality(ExclusiveOf(h, d) \ {t}) = Cardinality(ExclusiveOf(h, d)) - 1
    BY <2>2, <1>f, FS_RemoveElement
  <2>3. Cardinality(ExclusiveOf(h2, d)) = Cardinality(ExclusiveOf(h, d)) - 1
    BY <2>2, <2>r
  <2>a. l.exclusive # 0
    BY <1>3, ZeroCount
  <2>4. l2.shared = Cardinality(SharedOf(h2, d)) /\ l2.exclusive = Cardinality(ExclusiveOf(h2, d))
    BY <2>1, <2>2, <2>3, <2>a DEF Counts, Decrement
  <2>5. (\E u \in h2 : LockMode(u, d) = "EW")
          <=> (m # "EW" /\ \E u \in h : LockMode(u, d) = "EW")
    <3>1. CASE m = "EW"
      <4>1. \A u \in h2 : LockMode(u, d) # "EW"
        BY <3>1 DEF Excludes, MayShare, Shared
      <4>2. QED
        BY <4>1, <3>1
    <3>2. CASE m # "EW"
      BY <3>2
    <3>3. QED
      BY <3>1, <3>2
  <2>7. Counts(l2, h2, d)
    BY <2>1, <2>4, <2>5 DEF Counts
  <2>8. l2 \in DbData
    BY <2>1, <2>4, <1>c DEF DbData
  <2>9. QED
    BY <1>1, <2>1, <2>7, <2>8 DEF Lists
<1>4. QED
  BY <1>2, <1>3

-----------------------------------------------------------------------------
(***************************************************************************)
(* Waiting lists.                                                          *)
(***************************************************************************)
LEMMA AppendFacts ==
  ASSUME NEW s \in Seq(Tasks), NEW t \in Tasks, Distinct(s), t \notin Members(s)
  PROVE  Append(s, t) \in Seq(Tasks) /\ Distinct(Append(s, t)) /\ Members(Append(s, t)) = Members(s) \cup {t}
<1>1. DOMAIN Append(s, t) = 1..Len(s) + 1 /\ DOMAIN s = 1..Len(s) /\ Len(s) \in Nat
  OBVIOUS
<1>2. \A i \in DOMAIN s : Append(s, t)[i] = s[i] /\ i \in DOMAIN Append(s, t) /\ i # Len(s) + 1
  BY <1>1
<1>3. Append(s, t)[Len(s) + 1] = t /\ Len(s) + 1 \in DOMAIN Append(s, t)
  BY <1>1
<1>4. \A i \in DOMAIN Append(s, t) : i \in DOMAIN s \/ i = Len(s) + 1
  BY <1>1
<1>5. QED
  BY <1>2, <1>3, <1>4 DEF Distinct, Members

LEMMA TailFacts ==
  ASSUME NEW s \in Seq(Tasks), s # <<>>, Distinct(s)
  PROVE  /\ Head(s) \in Tasks /\ Head(s) \in Members(s) /\ Tail(s) \in Seq(Tasks)
         /\ Distinct(Tail(s)) /\ Members(Tail(s)) \subseteq Members(s) \ {Head(s)}
         /\ SubSeq(s, 2, Len(s)) = Tail(s)
<1>1. Len(s) \in Nat \ {0} /\ DOMAIN s = 1..Len(s) /\ Head(s) = s[1] /\ 1 \in DOMAIN s
  OBVIOUS
<1>2. DOMAIN Tail(s) = 1..Len(s) - 1 /\ \A i \in 1..Len(s) - 1 : Tail(s)[i] = s[i + 1]
  BY <1>1
<1>3. \A i \in DOMAIN Tail(s) : i + 1 \in DOMAIN s /\ i + 1 # 1 /\ Tail(s)[i] = s[i + 1]
  BY <1>1, <1>2
<1>4. \A i, j \in DOMAIN Tail(s) : i + 1 = j + 1 => i = j
  BY <1>2
<1>5. Distinct(Tail(s))
  BY <1>3, <1>4 DEF Distinct
<1>6. Members(Tail(s)) \subseteq Members(s) \ {Head(s)}
  BY <1>1, <1>3 DEF Members, Distinct
<1>7. SubSeq(s, 2, Len(s)) = Tail(s)
  BY <1>1
<1>8. QED
  BY <1>1, <1>5, <1>6, <1>7 DEF Members

LEMMA EmptyFacts == Distinct(<<>>) /\ Members(<<>>) = {} /\ <<>> \in Seq(Tasks)
  BY DEF Distinct, Members

LEMMA FirstWaitingFacts ==
  ASSUME NEW l, NEW m \in Modes
  PROVE  /\ FirstWaiting(l, m) \in Lists \cup {NoList}
         /\ FirstWaiting(l, m) # NoList => l[FirstWaiting(l, m)] # <<>>
<1>1. Served(m) \subseteq Lists
  BY DEF Served, Modes, Lists, Shared
<1>2. QED
  BY <1>1 DEF FirstWaiting, Lists, NoList

(* Taking the new owners off their list.                                   *)
LEMMA OwnersFacts ==
  ASSUME NEW l \in DbData, NEW q \in Lists \cup {NoList}, q # NoList => l[q] # <<>>,
         \A p \in Lists : Distinct(l[p])
  PROVE  LET l2 == WithoutOwners(l, q)
             n  == NewOwners(l, q)
         IN  /\ l2 \in DbData /\ n \in Seq(Tasks) /\ Distinct(n)
             /\ l2.shared = l.shared /\ l2.exclusive = l.exclusive /\ l2.write = l.write
             /\ \A p \in Lists : Distinct(l2[p]) /\ Members(l2[p]) \subseteq Members(l[p])
             /\ q = NoList => n = <<>> /\ l2 = l
             /\ q # NoList => Members(n) \subseteq Members(l[q]) /\ Members(n) \cap Members(l2[q]) = {}
<1> DEFINE l2 == WithoutOwners(l, q)
           n  == NewOwners(l, q)
<1>t. l.sharedQ \in Seq(Tasks) /\ l.readQ \in Seq(Tasks) /\ l.writeQ \in Seq(Tasks)
  BY DEF DbData
<1>1. CASE q = NoList
  BY <1>1, EmptyFacts DEF WithoutOwners, NewOwners
<1>2. CASE q = "writeQ"
  <2>1. l.writeQ # <<>> /\ Distinct(l.writeQ)
    BY <1>2 DEF Lists, NoList
  <2>2. n = <<Head(l.writeQ)>>
    BY <1>2 DEF NewOwners, NoList
  <2>3. Len(n) = 1
    BY <2>2
  <2>4. l2 = [l EXCEPT !.writeQ = Tail(l.writeQ)]
    <3>1. l2 = [l EXCEPT !.writeQ = SubSeq(@, Len(NewOwners(l, q)) + 1, Len(@))]
      BY <1>2 DEF WithoutOwners, NoList
    <3>2. Len(NewOwners(l, q)) + 1 = 2
      BY <2>3
    <3>3. QED
      BY <3>1, <3>2, <2>1, <1>t, TailFacts
  <2>5. n \in Seq(Tasks) /\ Distinct(n) /\ Members(n) = {Head(l.writeQ)}
    <3>1. Head(l.writeQ) \in Tasks
      BY <2>1, <1>t, TailFacts
    <3>2. n \in Seq(Tasks) /\ DOMAIN n = {1} /\ n[1] = Head(l.writeQ)
      BY <2>2, <3>1
    <3>3. QED
      BY <3>2 DEF Distinct, Members
  <2>6. /\ Tail(l.writeQ) \in Seq(Tasks) /\ Distinct(Tail(l.writeQ))
        /\ Members(Tail(l.writeQ)) \subseteq Members(l.writeQ) \ {Head(l.writeQ)}
        /\ Head(l.writeQ) \in Members(l.writeQ)
    BY <2>1, <1>t, TailFacts
  <2>7. l2 \in DbData /\ l2.shared = l.shared /\ l2.exclusive = l.exclusive /\ l2.write = l.write
        /\ l2.sharedQ = l.sharedQ /\ l2.readQ = l.readQ /\ l2.writeQ = Tail(l.writeQ)
    BY <2>4, <2>6 DEF DbData
  <2>8. \A p \in Lists : Distinct(l2[p]) /\ Members(l2[p]) \subseteq Members(l[p])
    BY <2>6, <2>7 DEF Lists
  <2>9. QED
    BY <1>2, <2>5, <2>6, <2>7, <2>8 DEF NoList
<1>3. ASSUME q = "readQ" \/ q = "sharedQ" PROVE
         /\ n = l[q] /\ l[q] \in Seq(Tasks) /\ l2 = [l EXCEPT ![q] = <<>>]
  <2>1. n = l[q] /\ l[q] \in Seq(Tasks)
    BY <1>3, <1>t DEF NewOwners, NoList
  <2>2. l2 = [l EXCEPT ![q] = SubSeq(l[q], Len(l[q]) + 1, Len(l[q]))]
    BY <1>3, <2>1 DEF WithoutOwners, NoList, DbData
  <2>3. SubSeq(l[q], Len(l[q]) + 1, Len(l[q])) = <<>>
    BY <2>1
  <2>4. QED
    BY <2>1, <2>2, <2>3
<1>4. CASE q = "readQ"
  <2>1. n = l.readQ /\ l2 = [l EXCEPT !.readQ = <<>>] /\ Distinct(l.readQ)
    BY <1>3, <1>4 DEF Lists
  <2>2. l2 \in DbData /\ l2.shared = l.shared /\ l2.exclusive = l.exclusive /\ l2.write = l.write
        /\ l2.sharedQ = l.sharedQ /\ l2.readQ = <<>> /\ l2.writeQ = l.writeQ
    BY <2>1, EmptyFacts DEF DbData
  <2>3. \A p \in Lists : Distinct(l2[p]) /\ Members(l2[p]) \subseteq Members(l[p])
    BY <2>2, EmptyFacts DEF Lists
  <2>9. QED
    BY <1>4, <1>t, <2>1, <2>2, <2>3, EmptyFacts DEF NoList
<1>5. CASE q = "sharedQ"
  <2>1. n = l.sharedQ /\ l2 = [l EXCEPT !.sharedQ = <<>>] /\ Distinct(l.sharedQ)
    BY <1>3, <1>5 DEF Lists
  <2>2. l2 \in DbData /\ l2.shared = l.shared /\ l2.exclusive = l.exclusive /\ l2.write = l.write
        /\ l2.sharedQ = <<>> /\ l2.readQ = l.readQ /\ l2.writeQ = l.writeQ
    BY <2>1, EmptyFacts DEF DbData
  <2>3. \A p \in Lists : Distinct(l2[p]) /\ Members(l2[p]) \subseteq Members(l[p])
    BY <2>2, EmptyFacts DEF Lists
  <2>9. QED
    BY <1>5, <1>t, <2>1, <2>2, <2>3, EmptyFacts DEF NoList
<1>6. QED
  BY <1>1, <1>2, <1>4, <1>5 DEF Lists

(* Queueing a task changes only its own list.                              *)
LEMMA EnqueueStep ==
  ASSUME NEW l \in DbData, NEW m \in Modes, NEW t \in Tasks,
         \A p \in Lists : Distinct(l[p]) /\ t \notin Members(l[p])
  PROVE  LET l2 == Enqueued(l, m, t)
         IN  /\ l2 \in DbData
             /\ l2.shared = l.shared /\ l2.exclusive = l.exclusive /\ l2.write = l.write
             /\ \A p \in Lists : /\ Distinct(l2[p])
                                  /\ Members(l2[p]) = IF p = ListOf(m) THEN Members(l[p]) \cup {t}
                                                                      ELSE Members(l[p])
<1> DEFINE l2 == Enqueued(l, m, t)
<1>t. l.sharedQ \in Seq(Tasks) /\ l.readQ \in Seq(Tasks) /\ l.writeQ \in Seq(Tasks)
  BY DEF DbData
<1>l. /\ Distinct(l.sharedQ) /\ t \notin Members(l.sharedQ) /\ Distinct(l.readQ)
      /\ t \notin Members(l.readQ) /\ Distinct(l.writeQ) /\ t \notin Members(l.writeQ)
  BY DEF Lists
<1>1. CASE Shared(m)
  <2>1. l2 = [l EXCEPT !.sharedQ = Append(@, t)] /\ ListOf(m) = "sharedQ"
    BY <1>1 DEF Enqueued, ListOf, Shared
  <2>2. QED
    BY <2>1, <1>t, <1>l, AppendFacts DEF DbData, Lists
<1>2. CASE m = "CONST"
  <2>1. l2 = [l EXCEPT !.readQ = Append(@, t)] /\ ListOf(m) = "readQ"
    BY <1>2 DEF Enqueued, ListOf, Shared
  <2>2. QED
    BY <2>1, <1>t, <1>l, AppendFacts DEF DbData, Lists
<1>3. CASE m = "EW"
  <2>1. l2 = [l EXCEPT !.writeQ = Append(@, t)] /\ ListOf(m) = "writeQ"
    BY <1>3 DEF Enqueued, ListOf, Shared
  <2>2. QED
    BY <2>1, <1>t, <1>l, AppendFacts DEF DbData, Lists
<1>4. QED
  BY <1>1, <1>2, <1>3 DEF Modes, Shared

-----------------------------------------------------------------------------
(***************************************************************************)
(* The invariant holds initially and every action preserves it.            *)
(***************************************************************************)
LEMMA InitInv == Init => IInv
<1> SUFFICES ASSUME Init PROVE IInv
  OBVIOUS
<1>m. Main \in Tasks /\ BlocksOf(Main) \subseteq DBs
  BY TasksAssumption, SlotFacts
<1>s. 0 \in Counter /\ 1 \in Counter
  <2>1. Cardinality({Main}) = 1 /\ Cardinality({Main}) <= Cardinality(Tasks)
    BY <1>m, FS_Singleton, FS_Subset, TasksAssumption
  <2>2. Cardinality(Tasks) \in Nat
    BY FS_CardinalityType, TasksAssumption
  <2>3. QED
    BY <2>1, <2>2, CounterAssumption DEF Counter
<1>1. TypeOK
  <2>1. Unlockable \in DbData /\ [Unlockable EXCEPT !.shared = 1] \in DbData
    BY <1>s, EmptyFacts DEF Unlockable, DbData
  <2>2. lock \in [DBs -> DbData]
    BY <2>1 DEF Init
  <2>3. held \in [Tasks -> SUBSET Nat]
    BY SlotFacts DEF Init
  <2>4. acquired \in [Tasks -> SUBSET DBs] /\ \A t \in Tasks : acquired[t] \subseteq BlocksOf(t)
    BY <1>m DEF Init
  <2>5. wake \in [Tasks -> Seq(Tasks)]
    BY EmptyFacts DEF Init
  <2>6. QED
    BY <2>2, <2>3, <2>4, <2>5, <1>m DEF Init, TypeOK, Progress
<1>2. CountInv
  <2> SUFFICES ASSUME NEW d \in DBs PROVE Counts(lock[d], holders[d], d) /\ Excludes(holders[d], d)
    BY DEF CountInv
  <2>1. CASE d \in BlocksOf(Main)
    <3>1. lock[d] = [Unlockable EXCEPT !.shared = 1] /\ holders[d] = {Main}
      BY <2>1 DEF Init
    <3>2. LockMode(Main, d) = "RW"
      BY <2>1, <1>m, SlotFacts, MainMode
    <3>3. SharedOf({Main}, d) = {Main} /\ ExclusiveOf({Main}, d) = {}
      BY <3>2 DEF SharedOf, ExclusiveOf, Shared
    <3>4. Cardinality({Main}) = 1 /\ Cardinality({}) = 0
      BY FS_Singleton, FS_EmptySet
    <3>5. lock[d].shared = 1 /\ lock[d].exclusive = 0 /\ lock[d].write = FALSE
      BY <3>1 DEF Unlockable
    <3>6. QED
      BY <3>1, <3>2, <3>3, <3>4, <3>5 DEF Counts, Excludes
  <2>2. CASE d \notin BlocksOf(Main)
    <3>1. lock[d] = Unlockable /\ holders[d] = {}
      BY <2>2 DEF Init
    <3>2. SharedOf({}, d) = {} /\ ExclusiveOf({}, d) = {} /\ Cardinality({}) = 0
      BY FS_EmptySet DEF SharedOf, ExclusiveOf
    <3>3. lock[d].shared = 0 /\ lock[d].exclusive = 0 /\ lock[d].write = FALSE
      BY <3>1 DEF Unlockable
    <3>4. Counts(lock[d], holders[d], d)
      BY <3>1, <3>2, <3>3 DEF Counts
    <3>5. QED
      BY <3>1, <3>4 DEF Excludes
  <2>3. QED
    BY <2>1, <2>2
<1>3. HoldInv
  <2>1. \A d \in DBs : \A t \in holders[d] : d \in acquired[t]
    BY <1>m DEF Init
  <2>2. ASSUME NEW t \in Tasks PROVE BeforeInv(t) /\ RunningInv(t) /\ CallInv(t)
    <3>1. BeforeInv(t)
      BY DEF Init, BeforeInv, Before
    <3>2. RunningInv(t)
      BY SlotFacts DEF Init, RunningInv
    <3>3. CallInv(t)
      BY MutexAssumption DEF Init, CallInv
    <3>4. QED
      BY <3>1, <3>2, <3>3
  <2>3. QED
    BY <2>1, <2>2 DEF HoldInv
<1>4. ListInv
  <2>1. \A d \in DBs : lock[d].sharedQ = <<>> /\ lock[d].readQ = <<>> /\ lock[d].writeQ = <<>>
    BY DEF Init, Unlockable
  <2>2. QED
    BY <2>1, EmptyFacts DEF ListInv, Lists
<1>5. WakeInv
  BY EmptyFacts DEF Init, WakeInv
<1>6. QED
  BY <1>1, <1>2, <1>3, <1>4, <1>5 DEF IInv

LEMMA SatisfyInv ==
  ASSUME IInv, NEW t \in Tasks, Satisfy(t)
  PROVE  IInv'
<1>1. TypeOK'
  BY SlotFacts DEF IInv, TypeOK, Satisfy, Progress
<1>2. CountInv'
  BY DEF IInv, CountInv, Satisfy
<1>3. HoldInv'
  <2>1. ASSUME NEW u \in Tasks PROVE BeforeInv(u)' /\ RunningInv(u)' /\ CallInv(u)'
    <3>1. BeforeInv(u) /\ RunningInv(u) /\ CallInv(u)
      BY DEF IInv, HoldInv
    <3>2. BeforeInv(u)'
      BY <3>1 DEF IInv, TypeOK, Satisfy, BeforeInv, Before
    <3>3. RunningInv(u)'
      BY <3>1 DEF IInv, TypeOK, Satisfy, RunningInv
    <3>4. CallInv(u)'
      BY <3>1 DEF Satisfy, CallInv, NextCall
    <3>5. QED
      BY <3>2, <3>3, <3>4
  <2>2. QED
    BY <2>1 DEF IInv, HoldInv, Satisfy
<1>4. ListInv' /\ WakeInv'
  BY DEF IInv, TypeOK, ListInv, WakeInv, Satisfy, NextBlock
<1>5. QED
  BY <1>1, <1>2, <1>3, <1>4 DEF IInv

LEMMA TryLockInv ==
  ASSUME IInv, NEW t \in Tasks, NEW d \in DBs, TryLock(t, d)
  PROVE  IInv'
<1> DEFINE m == LockMode(t, d)
<1>0. /\ m \in Modes /\ d \in BlocksOf(t) /\ d \notin acquired[t] /\ t \notin holders[d]
      /\ pc[t] = "acquiring" /\ lock[d] \in DbData /\ holders[d] \in SUBSET Tasks
  BY LockModeDef, NextBlockFacts DEF TryLock, IInv, HoldInv, TypeOK
<1>1. CASE Lockable(lock[d], m)
  <2>0. /\ lock' = [lock EXCEPT ![d] = Locked(@, m)]
        /\ acquired' = [acquired EXCEPT ![t] = @ \cup {d}]
        /\ holders' = [holders EXCEPT ![d] = @ \cup {t}]
        /\ UNCHANGED <<pc, dbMutex, taskMutex, ordered, held, left, wake>>
    BY <1>1 DEF TryLock
  <2>1. /\ Locked(lock[d], m) \in DbData
        /\ Counts(Locked(lock[d], m), holders[d] \cup {t}, d)
        /\ Excludes(holders[d] \cup {t}, d)
    BY <1>0, <1>1, LockStep DEF IInv, CountInv
  <2>l. lock'[d] = Locked(lock[d], m) /\ holders'[d] = holders[d] \cup {t}
        /\ acquired'[t] = acquired[t] \cup {d}
    BY <2>0 DEF IInv, TypeOK
  <2>q. \A q \in Lists : Locked(lock[d], m)[q] = lock[d][q]
    BY <1>0 DEF Locked, Lists, DbData, Modes, Shared
  <2>2. TypeOK'
    BY <2>0, <2>1, <1>0 DEF IInv, TypeOK
  <2>3. CountInv'
    BY <2>0, <2>1, <2>l DEF IInv, TypeOK, CountInv
  <2>4. HoldInv'
    <3>1. ASSUME NEW u \in Tasks PROVE BeforeInv(u)' /\ RunningInv(u)' /\ CallInv(u)'
      <4>1. BeforeInv(u) /\ RunningInv(u) /\ CallInv(u)
        BY DEF IInv, HoldInv
      <4>g. \A e \in DBs : holders[e] \subseteq holders'[e]
        BY <2>0 DEF IInv, TypeOK
      <4>t. left[u] \subseteq DBs \X Nat /\ ordered[u] \subseteq DBs /\ acquired'[u] \subseteq DBs
        BY <2>2 DEF IInv, TypeOK, TryLock
      <4>2. BeforeInv(u)'
        <5>1. CASE u = t
          BY <5>1, <4>1, <4>g, <4>t, <2>0, <2>l, <1>0 DEF BeforeInv, Before
        <5>2. CASE u # t
          <6>1. acquired'[u] = acquired[u]
            BY <5>2, <2>0 DEF IInv, TypeOK
          <6>2. QED
            BY <6>1, <4>1, <4>g, <4>t, <2>0 DEF BeforeInv, Before
        <5>3. QED
          BY <5>1, <5>2
      <4>3. RunningInv(u)'
        BY <4>1, <4>g, <4>t, <2>0, SlotFacts DEF RunningInv
      <4>4. CallInv(u)'
        BY <4>1, <4>g, <4>t, <2>0 DEF CallInv, NextCall
      <4>5. QED
        BY <4>2, <4>3, <4>4
    <3>2. \A e \in DBs : \A u \in holders'[e] : e \in acquired'[u]
      BY <2>0, <2>l DEF IInv, TypeOK, HoldInv
    <3>3. QED
      BY <3>1, <3>2 DEF HoldInv
  <2>n. \A u \in Tasks : pc[u] = "queued" => \A e \in DBs : e \in NextBlock(u) => e \in NextBlock(u)'
    BY <2>0, <1>0 DEF NextBlock, IInv, TypeOK
  <2>s. \A e \in DBs : \A q \in Lists : lock'[e][q] = lock[e][q]
    BY <2>0, <2>l, <2>q DEF IInv, TypeOK
  <2>u. /\ \A e \in DBs : \A q \in Lists : Members(lock[e][q]) \subseteq Tasks
        /\ \A u \in Tasks : Members(wake[u]) \subseteq Tasks
    BY DEF IInv, TypeOK, DbData, Lists, Members
  <2>5. ListInv'
    BY <2>n, <2>s, <2>u, <2>0 DEF IInv, ListInv
  <2>6. WakeInv'
    <3>1. \A u \in Tasks : \A e \in DBs : ListOf(LockMode(u, e)) \in Lists
      BY DEF ListOf, Lists
    <3>2. QED
      BY <3>1, <2>n, <2>s, <2>u, <2>0 DEF IInv, WakeInv
  <2>7. QED
    BY <2>2, <2>3, <2>4, <2>5, <2>6 DEF IInv
<1>2. CASE ~Lockable(lock[d], m)
  <2>0. /\ lock' = [lock EXCEPT ![d] = Enqueued(@, m, t)]
        /\ pc' = [pc EXCEPT ![t] = "queued"]
        /\ UNCHANGED <<acquired, holders, dbMutex, taskMutex, ordered, held, left, wake>>
    BY <1>2 DEF TryLock
  <2>p. \A p \in Lists : Distinct(lock[d][p]) /\ t \notin Members(lock[d][p])
    BY <1>0 DEF IInv, ListInv
  <2>1. LET l2 == Enqueued(lock[d], m, t)
        IN  /\ l2 \in DbData
            /\ l2.shared = lock[d].shared /\ l2.exclusive = lock[d].exclusive /\ l2.write = lock[d].write
            /\ \A p \in Lists :
                 /\ Distinct(l2[p])
                 /\ Members(l2[p]) = IF p = ListOf(m) THEN Members(lock[d][p]) \cup {t}
                                                     ELSE Members(lock[d][p])
    BY <1>0, <2>p, EnqueueStep
  <2>l. lock'[d] = Enqueued(lock[d], m, t) /\ \A e \in DBs \ {d} : lock'[e] = lock[e]
    BY <2>0 DEF IInv, TypeOK
  <2>c. pc'[t] = "queued" /\ \A u \in Tasks \ {t} : pc'[u] = pc[u]
    BY <2>0 DEF IInv, TypeOK
  <2>2. TypeOK'
    BY <2>0, <2>1, <1>0 DEF IInv, TypeOK, Progress
  <2>3. CountInv'
    BY <2>0, <2>1, <2>l DEF IInv, CountInv, Counts
  <2>4. HoldInv'
    <3>1. ASSUME NEW u \in Tasks PROVE BeforeInv(u)' /\ RunningInv(u)' /\ CallInv(u)'
      <4>1. BeforeInv(u) /\ RunningInv(u) /\ CallInv(u)
        BY DEF IInv, HoldInv
      <4>2. BeforeInv(u)' /\ RunningInv(u)'
        BY <4>1, <2>0, <2>c, <1>0 DEF BeforeInv, RunningInv, Before
      <4>4. CallInv(u)'
        BY <4>1, <2>0 DEF CallInv, NextCall
      <4>5. QED
        BY <4>2, <4>4
    <3>2. QED
      BY <3>1, <2>0 DEF IInv, HoldInv
  <2>u. /\ \A e \in DBs : \A q \in Lists : Members(lock[e][q]) \subseteq Tasks
        /\ \A u \in Tasks : Members(wake[u]) \subseteq Tasks
    BY DEF IInv, TypeOK, DbData, Lists, Members
  <2>n. \A u \in Tasks : NextBlock(u)' = NextBlock(u)
    BY <2>0 DEF NextBlock
  <2>d. d \in NextBlock(t)
    BY DEF TryLock
  <2>5. ListInv'
    <3> SUFFICES ASSUME NEW e \in DBs, NEW q \in Lists
                 PROVE  /\ Distinct(lock'[e][q])
                        /\ \A u \in Members(lock'[e][q]) :
                             pc'[u] = "queued" /\ e \in NextBlock(u)' /\ ListOf(LockMode(u, e)) = q
      BY DEF ListInv
    <3>1. CASE e = d
      <4>1. /\ Distinct(lock'[d][q])
            /\ Members(lock'[d][q]) = IF q = ListOf(m) THEN Members(lock[d][q]) \cup {t}
                                                      ELSE Members(lock[d][q])
        BY <2>1, <2>l
      <4>2. ASSUME NEW u \in Members(lock[d][q]) PROVE
                 pc'[u] = "queued" /\ d \in NextBlock(u)' /\ ListOf(LockMode(u, d)) = q
        BY <2>u, <2>n, <2>c DEF IInv, ListInv
      <4>3. pc'[t] = "queued" /\ d \in NextBlock(t)'
        BY <2>c, <2>n, <2>d
      <4>4. QED
        BY <4>1, <4>2, <4>3, <3>1
    <3>2. CASE e # d
      BY <3>2, <2>l, <2>u, <2>n, <2>c DEF IInv, ListInv
    <3>3. QED
      BY <3>1, <3>2
  <2>6. WakeInv'
    <3> SUFFICES ASSUME NEW r \in Tasks, NEW u \in Members(wake[r])
                 PROVE  /\ pc'[u] = "queued"
                        /\ \E e \in DBs : /\ dbMutex[e] = r /\ e \in NextBlock(u)'
                                          /\ u \notin Members(lock'[e][ListOf(LockMode(u, e))])
      BY <2>0 DEF IInv, WakeInv
    <3>1. PICK e \in DBs : /\ pc[u] = "queued" /\ dbMutex[e] = r /\ e \in NextBlock(u)
                           /\ u \notin Members(lock[e][ListOf(LockMode(u, e))])
      BY DEF IInv, WakeInv
    <3>2. u \in Tasks /\ u # t /\ ListOf(LockMode(u, e)) \in Lists
      BY <3>1, <2>u, <1>0 DEF ListOf, Lists
    <3>3. u \notin Members(lock'[e][ListOf(LockMode(u, e))])
      <4>1. \A q \in Lists : Members(lock'[d][q]) \subseteq Members(lock[d][q]) \cup {t}
        BY <2>1, <2>l
      <4>2. \A q \in Lists : Members(lock'[e][q]) \subseteq Members(lock[e][q]) \cup {t}
        BY <4>1, <2>l
      <4>3. QED
        BY <4>2, <3>1, <3>2
    <3>4. QED
      BY <3>1, <3>2, <3>3, <2>n, <2>c
  <2>7. QED
    BY <2>2, <2>3, <2>4, <2>5, <2>6 DEF IInv
<1>3. QED
  BY <1>1, <1>2

LEMMA SpawnInv ==
  ASSUME IInv, NEW t \in Tasks, Spawn(t)
  PROVE  IInv'
<1>0. pc[t] = "acquiring" /\ BlocksOf(t) \subseteq acquired[t] /\ pc' = [pc EXCEPT ![t] = "spawned"]
      /\ UNCHANGED <<lock, dbMutex, taskMutex, acquired, ordered, held, left, wake, holders>>
  BY DEF Spawn
<1>1. TypeOK'
  BY <1>0 DEF IInv, TypeOK, Progress
<1>2. CountInv'
  BY <1>0 DEF IInv, CountInv
<1>3. HoldInv'
  <2>1. ASSUME NEW u \in Tasks PROVE BeforeInv(u)' /\ RunningInv(u)' /\ CallInv(u)'
    <3>1. BeforeInv(u) /\ RunningInv(u) /\ CallInv(u)
      BY DEF IInv, HoldInv
    <3>2. BeforeInv(u)' /\ RunningInv(u)'
      BY <3>1, <1>0 DEF IInv, TypeOK, BeforeInv, RunningInv, Before
    <3>3. CallInv(u)'
      BY <3>1, <1>0 DEF CallInv, NextCall
    <3>4. QED
      BY <3>2, <3>3
  <2>2. QED
    BY <2>1, <1>0 DEF IInv, HoldInv
<1>4. ListInv' /\ WakeInv'
  BY <1>0 DEF IInv, TypeOK, ListInv, WakeInv, NextBlock
<1>5. QED
  BY <1>1, <1>2, <1>3, <1>4 DEF IInv

LEMMA LeaveMutexInv ==
  ASSUME IInv, NEW t \in Tasks, LeaveMutex(t)
  PROVE  IInv'
<1>0. /\ taskMutex' = [taskMutex EXCEPT ![t] = Free]
      /\ UNCHANGED <<lock, dbMutex, pc, acquired, ordered, held, left, wake, holders>>
  BY DEF LeaveMutex
<1>1. TypeOK'
  BY <1>0 DEF IInv, TypeOK
<1>2. CountInv' /\ HoldInv' /\ ListInv' /\ WakeInv'
  BY <1>0 DEF IInv, CountInv, HoldInv, BeforeInv, RunningInv, CallInv, NextCall, ListInv, WakeInv, NextBlock
<1>3. QED
  BY <1>1, <1>2 DEF IInv

LEMMA StartInv ==
  ASSUME IInv, NEW t \in Tasks, Start(t)
  PROVE  IInv'
<1>0. /\ pc[t] = "spawned" /\ pc' = [pc EXCEPT ![t] = "running"]
      /\ held' = [held EXCEPT ![t] = DOMAIN Slots[t]]
      /\ UNCHANGED <<lock, dbMutex, taskMutex, acquired, ordered, left, wake, holders>>
  BY DEF Start
<1>1. TypeOK'
  BY <1>0, SlotFacts DEF IInv, TypeOK, Progress
<1>2. CountInv'
  BY <1>0 DEF IInv, CountInv
<1>3. HoldInv'
  <2>1. ASSUME NEW u \in Tasks PROVE BeforeInv(u)' /\ RunningInv(u)' /\ CallInv(u)'
    <3>1. BeforeInv(u) /\ RunningInv(u) /\ CallInv(u)
      BY DEF IInv, HoldInv
    <3>2. CASE u = t
      <4>1. /\ t # Main /\ left[t] = {} /\ ordered[t] = BlocksOf(t)
            /\ \A d \in BlocksOf(t) : t \in holders[d]
        BY <3>1, <3>2, <1>0 DEF BeforeInv, Before
      <4>2. pc'[t] = "running" /\ held'[t] = DOMAIN Slots[t]
        BY <1>0 DEF IInv, TypeOK
      <4>3. RunningInv(t)'
        BY <4>1, <4>2, <1>0, SlotFacts DEF RunningInv
      <4>4. BeforeInv(t)'
        BY <4>2 DEF BeforeInv, Before
      <4>5. QED
        BY <3>1, <3>2, <4>3, <4>4, <1>0 DEF CallInv, NextCall
    <3>3. CASE u # t
      <4>1. pc'[u] = pc[u] /\ held'[u] = held[u]
        BY <3>3, <1>0 DEF IInv, TypeOK
      <4>2. QED
        BY <4>1, <3>1, <1>0 DEF BeforeInv, RunningInv, CallInv, NextCall
    <3>4. QED
      BY <3>2, <3>3
  <2>2. QED
    BY <2>1, <1>0 DEF IInv, HoldInv
<1>4. ListInv' /\ WakeInv'
  BY <1>0 DEF IInv, TypeOK, ListInv, WakeInv, NextBlock
<1>5. QED
  BY <1>1, <1>2, <1>3, <1>4 DEF IInv

LEMMA ReleaseInv ==
  ASSUME IInv, ReleasedOnce, NEW t \in Tasks, NEW d \in DBs, Release(t, d)
  PROVE  IInv'
<1> DEFINE is    == held[t] \cap IndicesOf(t, d)
           first == {i \in is : d \in ordered[t] /\ \A j \in is : i <= j}
           calls == {<<d, IF i \in first THEN 0 ELSE i>> : i \in is}
<1>0. /\ pc[t] = "running" /\ left[t] = {} /\ d \in EarlyReleases[t] /\ is # {}
      /\ left' = [left EXCEPT ![t] = calls]
      /\ ordered' = [ordered EXCEPT ![t] = @ \ {d}]
      /\ held' = [held EXCEPT ![t] = @ \ is]
      /\ UNCHANGED <<lock, dbMutex, taskMutex, pc, acquired, wake, holders>>
  BY DEF Release
<1>r. RunningInv(t) /\ CallInv(t)
  BY DEF IInv, HoldInv
<1>1. PICK k \in is : TRUE
  BY <1>0
<1>2. /\ k \in held[t] /\ k \in DOMAIN Slots[t] /\ Slots[t][k].db = d /\ k \in Nat
      /\ is = {k} /\ t \in holders[d]
  <2>1. k \in held[t] /\ k \in DOMAIN Slots[t] /\ Slots[t][k].db = d
    BY DEF IndicesOf
  <2>2. is = {k}
    BY <1>0 DEF ReleasedOnce
  <2>3. QED
    BY <2>1, <2>2, <1>r, <1>0, SlotFacts DEF RunningInv
<1>3. first = IF d \in ordered[t] THEN {k} ELSE {}
  BY <1>2
<1>4. PICK x \in DBs \X Nat :
        /\ calls = {x} /\ x[1] = d
        /\ x[2] = 0 \/ (t = Main /\ x[2] \in DOMAIN Slots[t] /\ Slots[t][x[2]].db = x[1])
  <2>1. CASE d \in ordered[t]
    <3>1. calls = {<<d, 0>>}
      BY <2>1, <1>3, <1>2
    <3>2. <<d, 0>> \in DBs \X Nat /\ <<d, 0>>[1] = d /\ <<d, 0>>[2] = 0
      OBVIOUS
    <3> HIDE DEF calls
    <3>3. QED
      BY <3>1, <3>2
  <2>2. CASE d \notin ordered[t]
    <3>1. calls = {<<d, k>>}
      BY <2>2, <1>3, <1>2
    <3>2. t = Main
      BY <2>2, <1>2, <1>r, <1>0 DEF RunningInv
    <3>3. /\ <<d, k>> \in DBs \X Nat /\ <<d, k>>[1] = d /\ <<d, k>>[2] = k
          /\ k \in DOMAIN Slots[t] /\ Slots[t][k].db = d
      BY <1>2
    <3> HIDE DEF calls
    <3>4. QED
      BY <3>1, <3>2, <3>3
  <2>3. QED
    BY <2>1, <2>2
<1> HIDE DEF calls
<1>l. left'[t] = {x} /\ ordered'[t] = ordered[t] \ {d} /\ held'[t] = held[t] \ is
  BY <1>0, <1>4 DEF IInv, TypeOK
<1>o. \A u \in Tasks \ {t} : left'[u] = left[u] /\ ordered'[u] = ordered[u] /\ held'[u] = held[u]
  BY <1>0 DEF IInv, TypeOK
<1>5. TypeOK'
  <2>1. calls \in SUBSET (DBs \X Nat)
    BY <1>4
  <2>2. QED
    BY <2>1, <1>0 DEF IInv, TypeOK
<1>6. CountInv'
  BY <1>0 DEF IInv, CountInv
<1>7. HoldInv'
  <2>1. ASSUME NEW u \in Tasks PROVE BeforeInv(u)' /\ RunningInv(u)' /\ CallInv(u)'
    <3>1. BeforeInv(u) /\ RunningInv(u) /\ CallInv(u)
      BY DEF IInv, HoldInv
    <3>2. CASE u = t
      <4>1. BeforeInv(t)'
        BY <1>0 DEF BeforeInv, Before
      <4>2. RunningInv(t)'
        <5>1. \A i \in held'[t] : Slots[t][i].db # d
          BY <1>l, <1>2, <1>r, <1>0 DEF RunningInv, IndicesOf
        <5>2. QED
          BY <5>1, <1>l, <1>r, <1>0, <1>4 DEF RunningInv
      <4>3. CallInv(t)'
        <5>1. \A e \in DBs : dbMutex[e] # t
          BY <1>r, <1>0 DEF CallInv, NextCall
        <5>2. QED
          BY <5>1, <1>l, <1>0, <1>2, <1>4 DEF CallInv
      <4>4. QED
        BY <4>1, <4>2, <4>3, <3>2
    <3>3. CASE u # t
      BY <3>1, <3>3, <1>o, <1>0 DEF BeforeInv, RunningInv, CallInv, NextCall
    <3>4. QED
      BY <3>2, <3>3
  <2>2. QED
    BY <2>1, <1>0 DEF IInv, HoldInv
<1>8. ListInv' /\ WakeInv'
  BY <1>0 DEF IInv, ListInv, WakeInv, NextBlock
<1>9. QED
  BY <1>5, <1>6, <1>7, <1>8 DEF IInv

LEMMA EndInv ==
  ASSUME IInv, NEW t \in Tasks, End(t)
  PROVE  IInv'
<1> DEFINE others == {i \in held[t] : Slots[t][i].db \notin ordered[t]}
           calls  == {<<d, 0>> : d \in ordered[t]} \cup {<<Slots[t][i].db, i>> : i \in others}
<1>0. /\ pc[t] = "running" /\ left[t] = {}
      /\ pc' = [pc EXCEPT ![t] = "finishing"]
      /\ left' = [left EXCEPT ![t] = calls]
      /\ held' = [held EXCEPT ![t] = others]
      /\ UNCHANGED <<lock, dbMutex, taskMutex, acquired, ordered, wake, holders>>
  BY DEF End
<1>r. RunningInv(t) /\ CallInv(t)
  BY DEF IInv, HoldInv
<1>t. ordered[t] \subseteq DBs /\ \A i \in held[t] : i \in DOMAIN Slots[t] /\ i \in Nat /\ Slots[t][i].db \in DBs
  BY <1>r, <1>0, SlotFacts DEF RunningInv, IInv, TypeOK
<1>1. \A x \in calls : x \in DBs \X Nat /\ t \in holders[x[1]]
  BY <1>t, <1>r, <1>0 DEF RunningInv
<1>2. \A x \in calls : x[2] = 0 \/ (t = Main /\ x[2] \in DOMAIN Slots[t] /\ Slots[t][x[2]].db = x[1])
  BY <1>t, <1>r, <1>0 DEF RunningInv
<1>3. \A x, y \in calls : x[1] = y[1] => x = y
  <2>1. CASE t = Main
    <3>1. calls = {<<Slots[t][i].db, i>> : i \in others}
      BY <2>1, <1>r, <1>0 DEF RunningInv
    <3>2. \A i, j \in others : Slots[t][i].db = Slots[t][j].db => i = j
      BY <2>1, <1>t, MainAssumption
    <3>3. QED
      BY <3>1, <3>2
  <2>2. CASE t # Main
    <3>1. others = {}
      BY <2>2, <1>r, <1>0 DEF RunningInv
    <3>2. QED
      BY <3>1
  <2>3. QED
    BY <2>1, <2>2
<1>h. others \subseteq Nat
  BY <1>t
<1> HIDE DEF calls, others
<1>l. left'[t] = calls /\ pc'[t] = "finishing"
  BY <1>0 DEF IInv, TypeOK
<1>o. \A u \in Tasks \ {t} : left'[u] = left[u] /\ pc'[u] = pc[u] /\ held'[u] = held[u]
  BY <1>0 DEF IInv, TypeOK
<1>5. TypeOK'
  <2>1. calls \in SUBSET (DBs \X Nat)
    BY <1>1
  <2>2. QED
    BY <2>1, <1>h, <1>0 DEF IInv, TypeOK, Progress
<1>6. CountInv'
  BY <1>0 DEF IInv, CountInv
<1>7. HoldInv'
  <2>1. ASSUME NEW u \in Tasks PROVE BeforeInv(u)' /\ RunningInv(u)' /\ CallInv(u)'
    <3>1. BeforeInv(u) /\ RunningInv(u) /\ CallInv(u)
      BY DEF IInv, HoldInv
    <3>2. CASE u = t
      <4>1. BeforeInv(t)' /\ RunningInv(t)'
        BY <1>l DEF BeforeInv, RunningInv, Before
      <4>2. CallInv(t)'
        <5>1. \A e \in DBs : dbMutex[e] # t
          BY <1>r, <1>0 DEF CallInv, NextCall
        <5>2. QED
          BY <5>1, <1>l, <1>0, <1>1, <1>2, <1>3 DEF CallInv
      <4>3. QED
        BY <4>1, <4>2, <3>2
    <3>3. CASE u # t
      BY <3>1, <3>3, <1>o, <1>0 DEF BeforeInv, RunningInv, CallInv, NextCall
    <3>4. QED
      BY <3>2, <3>3
  <2>2. QED
    BY <2>1, <1>0 DEF IInv, HoldInv
<1>8. ListInv' /\ WakeInv'
  BY <1>0 DEF IInv, TypeOK, ListInv, WakeInv, NextBlock
<1>9. QED
  BY <1>5, <1>6, <1>7, <1>8 DEF IInv

LEMMA FinishInv ==
  ASSUME IInv, NEW t \in Tasks, Finish(t)
  PROVE  IInv'
<1>0. /\ pc[t] = "finishing" /\ pc' = [pc EXCEPT ![t] = "finished"] /\ held' = [held EXCEPT ![t] = {}]
      /\ UNCHANGED <<lock, dbMutex, taskMutex, acquired, ordered, left, wake, holders>>
  BY DEF Finish
<1>o. pc'[t] = "finished" /\ \A u \in Tasks \ {t} : pc'[u] = pc[u] /\ held'[u] = held[u]
  BY <1>0 DEF IInv, TypeOK
<1>1. TypeOK'
  BY <1>0 DEF IInv, TypeOK, Progress
<1>2. CountInv'
  BY <1>0 DEF IInv, CountInv
<1>3. HoldInv'
  <2>1. ASSUME NEW u \in Tasks PROVE BeforeInv(u)' /\ RunningInv(u)' /\ CallInv(u)'
    BY <1>0, <1>o DEF IInv, HoldInv, BeforeInv, RunningInv, CallInv, NextCall, Before
  <2>2. QED
    BY <2>1, <1>0 DEF IInv, HoldInv
<1>4. ListInv' /\ WakeInv'
  BY <1>0 DEF IInv, TypeOK, ListInv, WakeInv, NextBlock
<1>5. QED
  BY <1>1, <1>2, <1>3, <1>4 DEF IInv


LEMMA UnlockInv ==
  ASSUME IInv, NEW t \in Tasks, NEW x \in left[t], Unlock(t, x)
  PROVE  IInv'
<1> DEFINE d == x[1]
           m == UnlockMode(t, x)
           l == Unlocked(lock[d], m)
           q == FirstWaiting(l, m)
           l2 == WithoutOwners(l, q)
           n  == NewOwners(l, q)
<1>0. /\ x \in NextCall(t) /\ dbMutex[d] = Free
      /\ lock' = [lock EXCEPT ![d] = l2]
      /\ holders' = [holders EXCEPT ![d] = @ \ {t}]
      /\ wake' = [wake EXCEPT ![t] = n]
      /\ q = NoList => left' = [left EXCEPT ![t] = @ \ {x}] /\ dbMutex' = dbMutex
      /\ q # NoList => dbMutex' = [dbMutex EXCEPT ![d] = t] /\ left' = left
      /\ UNCHANGED <<taskMutex, pc, acquired, ordered, held>>
  BY DEF Unlock
<1>i. BeforeInv(t) /\ RunningInv(t) /\ CallInv(t)
  BY DEF IInv, HoldInv
<1>d. d \in DBs /\ \A y \in NextCall(t) : y = x
  BY <1>0, NextCallFacts DEF IInv
<1>f. \A u \in Tasks : u # Free
  BY MutexAssumption
<1>h. t \in holders[d] /\ pc[t] \notin Before /\ holders[d] \in SUBSET Tasks /\ lock[d] \in DbData
  BY <1>0, <1>i, <1>d, <1>f DEF CallInv, BeforeInv, IInv, TypeOK
<1>m. m = LockMode(t, d) /\ m \in Modes
  BY <1>i, <1>d, CallMode, LockModeDef DEF IInv
<1>1. /\ l \in DbData /\ Counts(l, holders[d] \ {t}, d) /\ Excludes(holders[d] \ {t}, d)
      /\ \A p \in Lists : l[p] = lock[d][p]
  <2>1. Counts(lock[d], holders[d], d) /\ Excludes(holders[d], d)
    BY <1>d DEF IInv, CountInv
  <2>2. l = Unlocked(lock[d], LockMode(t, d))
    BY <1>m
  <2> HIDE DEF d, l, m
  <2>3. QED
    BY <2>1, <2>2, <1>h, <1>d, UnlockStep
<1>2. q \in Lists \cup {NoList} /\ (q # NoList => l[q] # <<>>)
  BY <1>m, FirstWaitingFacts
<1>3. \A p \in Lists : Distinct(l[p])
  BY <1>1, <1>d DEF IInv, ListInv
<1> HIDE DEF l, q, m
<1>4. /\ l2 \in DbData /\ n \in Seq(Tasks) /\ Distinct(n)
      /\ l2.shared = l.shared /\ l2.exclusive = l.exclusive /\ l2.write = l.write
      /\ \A p \in Lists : Distinct(l2[p]) /\ Members(l2[p]) \subseteq Members(l[p])
      /\ q = NoList => n = <<>> /\ l2 = l
      /\ q # NoList => Members(n) \subseteq Members(l[q]) /\ Members(n) \cap Members(l2[q]) = {}
  BY <1>1, <1>2, <1>3, OwnersFacts
<1> HIDE DEF l2, n, d
<1>l. /\ lock'[d] = l2 /\ \A e \in DBs \ {d} : lock'[e] = lock[e]
      /\ holders'[d] = holders[d] \ {t} /\ \A e \in DBs \ {d} : holders'[e] = holders[e]
      /\ wake'[t] = n /\ \A u \in Tasks \ {t} : wake'[u] = wake[u]
      /\ dbMutex'[d] = (IF q = NoList THEN Free ELSE t)
      /\ \A e \in DBs \ {d} : dbMutex'[e] = dbMutex[e]
      /\ left'[t] = (IF q = NoList THEN left[t] \ {x} ELSE left[t])
      /\ \A u \in Tasks \ {t} : left'[u] = left[u]
  BY <1>0, <1>d DEF IInv, TypeOK
<1>5. TypeOK'
  <2>1. left' \in [Tasks -> SUBSET (DBs \X Nat)] /\ dbMutex' \in [DBs -> Tasks \cup {Free}]
    <3>1. left \in [Tasks -> SUBSET (DBs \X Nat)] /\ dbMutex \in [DBs -> Tasks \cup {Free}]
      BY DEF IInv, TypeOK
    <3>2. CASE q = NoList
      BY <3>1, <3>2, <1>0
    <3>3. CASE q # NoList
      BY <3>1, <3>3, <1>0
    <3>4. QED
      BY <3>2, <3>3
  <2>2. lock' \in [DBs -> DbData] /\ wake' \in [Tasks -> Seq(Tasks)] /\ holders' \in [DBs -> SUBSET Tasks]
    BY <1>0, <1>4, <1>d DEF IInv, TypeOK
  <2>3. QED
    BY <2>1, <2>2, <1>0 DEF IInv, TypeOK
<1>6. CountInv'
  <2>1. Counts(l2, holders[d] \ {t}, d)
    BY <1>1, <1>4 DEF Counts
  <2>2. ASSUME NEW e \in DBs PROVE Counts(lock'[e], holders'[e], e) /\ Excludes(holders'[e], e)
    <3>1. CASE e = d
      BY <3>1, <2>1, <1>1, <1>l
    <3>2. CASE e # d
      BY <3>2, <1>l DEF IInv, CountInv
    <3>3. QED
      BY <3>1, <3>2
  <2>3. QED
    BY <2>2 DEF CountInv, Counts, Excludes, SharedOf, ExclusiveOf
<1>7. HoldInv'
  <2>1. ASSUME NEW u \in Tasks PROVE BeforeInv(u)' /\ RunningInv(u)' /\ CallInv(u)'
    <3>1. BeforeInv(u) /\ RunningInv(u) /\ CallInv(u)
      BY DEF IInv, HoldInv
    <3>t. left[u] \subseteq DBs \X Nat /\ ordered[u] \subseteq DBs /\ acquired[u] \subseteq DBs
      BY DEF IInv, TypeOK
    <3>2. CASE u = t
      <4>1. BeforeInv(t)'
        BY <1>h, <1>0 DEF BeforeInv
      <4>2. RunningInv(t)'
        <5> SUFFICES ASSUME pc[t] = "running" PROVE RunningInv(t)'
          BY <1>0 DEF RunningInv
        <5>1. /\ \A e \in ordered[t] : t \in holders[e] /\ e \in DBs /\ e # d
              /\ \A i \in held[t] : i \in DOMAIN Slots[t] /\ t \in holders[Slots[t][i].db] /\ Slots[t][i].db # d
                                     /\ Slots[t][i].db \in DBs
          BY <1>i, <3>t, <3>2, SlotFacts DEF RunningInv, d
        <5>2. left'[t] \subseteq left[t]
          BY <1>l
        <5>3. QED
          BY <5>1, <5>2, <1>i, <1>l, <1>0 DEF RunningInv
      <4>3. CallInv(t)'
        <5>0. \A e \in DBs : dbMutex[e] # t
          <6> SUFFICES ASSUME NEW e \in DBs, dbMutex[e] = t PROVE FALSE
            OBVIOUS
          <6>1. PICK y \in NextCall(t) : y[1] = e
            BY <1>i DEF CallInv
          <6>2. e = d
            BY <6>1, <1>d DEF d
          <6>3. QED
            BY <6>2, <1>0, <1>f
        <5>1. ASSUME NEW y \in left'[t]
              PROVE  /\ dbMutex'[y[1]] # t => t \in holders'[y[1]]
                     /\ \/ y[2] = 0
                        \/ t = Main /\ y[2] \in DOMAIN Slots[t] /\ Slots[t][y[2]].db = y[1]
          <6>1. y \in left[t] /\ y[1] \in DBs
            BY <1>l, <3>t, <3>2
          <6>2. CASE y[1] = d
            <7>1. y = x
              BY <6>1, <6>2, <1>i DEF CallInv, d
            <7>2. q # NoList
              BY <7>1, <1>l
            <7>3. QED
              BY <7>2, <6>1, <6>2, <1>l, <1>i DEF CallInv
          <6>3. CASE y[1] # d
            BY <6>1, <6>3, <1>l, <1>i, <5>0 DEF CallInv
          <6>4. QED
            BY <6>2, <6>3
        <5>2. \A y, z \in left'[t] : y[1] = z[1] => y = z
          BY <1>l, <1>i DEF CallInv
        <5>3. ASSUME NEW e \in DBs, dbMutex'[e] = t
              PROVE  \E y \in NextCall(t)' : y[1] = e
          <6>1. e = d /\ q # NoList
            BY <5>0, <5>3, <1>l, <1>f
          <6>2. NextCall(t)' = NextCall(t)
            BY <6>1, <1>l DEF NextCall
          <6>3. QED
            BY <6>1, <6>2, <1>0 DEF d
        <5>4. QED
          BY <5>1, <5>2, <5>3 DEF CallInv
      <4>4. QED
        BY <4>1, <4>2, <4>3, <3>2
    <3>3. CASE u # t
      <4>1. left'[u] = left[u] /\ \A e \in DBs : u \in holders[e] => u \in holders'[e]
        BY <3>3, <1>l
      <4>2. BeforeInv(u)' /\ RunningInv(u)'
        BY <3>1, <3>t, <4>1, <1>0, SlotFacts DEF BeforeInv, RunningInv
      <4>3. CallInv(u)'
        <5>1. \A e \in DBs : dbMutex'[e] = u <=> dbMutex[e] = u
          BY <1>l, <1>0, <1>f, <3>3
        <5>2. NextCall(u)' = NextCall(u)
          BY <4>1 DEF NextCall
        <5>3. QED
          BY <5>1, <5>2, <4>1, <3>1, <3>t DEF CallInv
      <4>4. QED
        BY <4>2, <4>3
    <3>4. QED
      BY <3>2, <3>3
  <2>2. \A e \in DBs : \A u \in holders'[e] : e \in acquired'[u]
    BY <1>l, <1>0 DEF IInv, HoldInv
  <2>3. QED
    BY <2>1, <2>2 DEF HoldInv
<1>n. \A u \in Tasks : NextBlock(u)' = NextBlock(u)
  BY <1>0 DEF NextBlock
<1>u. /\ \A e \in DBs : \A p \in Lists : Members(lock[e][p]) \subseteq Tasks
      /\ \A u \in Tasks : Members(wake[u]) \subseteq Tasks
  BY DEF IInv, TypeOK, DbData, Lists, Members
<1>s. \A e \in DBs : \A p \in Lists : Distinct(lock'[e][p]) /\ Members(lock'[e][p]) \subseteq Members(lock[e][p])
  BY <1>1, <1>4, <1>l DEF IInv, ListInv
<1>8. ListInv'
  BY <1>n, <1>u, <1>s, <1>0 DEF IInv, ListInv
<1>9. WakeInv'
  <2>1. Distinct(wake'[t]) /\ \A u \in Tasks \ {t} : Distinct(wake'[u])
    BY <1>4, <1>l DEF IInv, WakeInv
  <2>2. ASSUME NEW r \in Tasks, NEW u \in Members(wake'[r])
        PROVE  /\ pc'[u] = "queued"
               /\ \E e \in DBs : /\ dbMutex'[e] = r /\ e \in NextBlock(u)'
                                 /\ u \notin Members(lock'[e][ListOf(LockMode(u, e))])
    <3>1. CASE r = t
      <4>1. q \in Lists /\ u \in Members(lock[d][q]) /\ u \notin Members(l2[q])
        BY <3>1, <1>l, <1>1, <1>2, <1>4, EmptyFacts
      <4>2. u \in Tasks /\ pc[u] = "queued" /\ d \in NextBlock(u) /\ ListOf(LockMode(u, d)) = q
        BY <4>1, <1>u, <1>d DEF IInv, ListInv
      <4>3. q # NoList
        BY <4>1 DEF Lists, NoList
      <4>4. QED
        BY <3>1, <4>1, <4>2, <4>3, <1>l, <1>n, <1>d, <1>0
    <3>2. CASE r # t
      <4>1. u \in Members(wake[r]) /\ u \in Tasks
        BY <3>2, <1>l, <1>u
      <4>2. PICK e \in DBs : /\ pc[u] = "queued" /\ dbMutex[e] = r /\ e \in NextBlock(u)
                             /\ u \notin Members(lock[e][ListOf(LockMode(u, e))])
        BY <4>1 DEF IInv, WakeInv
      <4>3. e # d
        BY <4>2, <1>0, <1>f
      <4>4. QED
        BY <4>1, <4>2, <4>3, <1>l, <1>n, <1>0
    <3>3. QED
      BY <3>1, <3>2
  <2>3. QED
    BY <2>1, <2>2 DEF WakeInv
<1>10. QED
  BY <1>5, <1>6, <1>7, <1>8, <1>9 DEF IInv

LEMMA WakeStepInv ==
  ASSUME IInv, NEW t \in Tasks, NEW d \in DBs, Wake(t, d)
  PROVE  IInv'
<1> DEFINE u == Head(wake[t])
<1>0. /\ dbMutex[d] = t /\ wake[t] # <<>>
      /\ taskMutex' = [taskMutex EXCEPT ![u] = t]
      /\ pc' = [pc EXCEPT ![u] = "acquiring"]
      /\ wake' = [wake EXCEPT ![t] = Tail(@)]
      /\ UNCHANGED <<lock, dbMutex, acquired, ordered, held, left, holders>>
  BY DEF Wake
<1>1. wake[t] \in Seq(Tasks) /\ Distinct(wake[t])
  BY DEF IInv, TypeOK, WakeInv
<1>2. /\ u \in Tasks /\ u \in Members(wake[t]) /\ Tail(wake[t]) \in Seq(Tasks)
      /\ Distinct(Tail(wake[t])) /\ Members(Tail(wake[t])) \subseteq Members(wake[t]) \ {u}
  BY <1>0, <1>1, TailFacts
<1> HIDE DEF u
<1>3. PICK e \in DBs : /\ pc[u] = "queued" /\ dbMutex[e] = t /\ e \in NextBlock(u)
                       /\ u \notin Members(lock[e][ListOf(LockMode(u, e))])
  BY <1>2 DEF IInv, WakeInv
<1>e. \A b \in NextBlock(u) : b = e
  BY <1>2, <1>3, NextBlockFacts
<1>l. /\ pc'[u] = "acquiring" /\ \A v \in Tasks \ {u} : pc'[v] = pc[v]
      /\ wake'[t] = Tail(wake[t]) /\ \A r \in Tasks \ {t} : wake'[r] = wake[r]
  BY <1>0, <1>2 DEF IInv, TypeOK
<1>n. \A v \in Tasks : NextBlock(v)' = NextBlock(v)
  BY <1>0 DEF NextBlock
<1>u. /\ \A b \in DBs : \A p \in Lists : Members(lock[b][p]) \subseteq Tasks
      /\ \A r \in Tasks : Members(wake[r]) \subseteq Tasks
  BY DEF IInv, TypeOK, DbData, Lists, Members
<1>5. TypeOK'
  BY <1>0, <1>2 DEF IInv, TypeOK, Progress
<1>6. CountInv'
  BY <1>0 DEF IInv, CountInv
<1>7. HoldInv'
  <2>1. ASSUME NEW v \in Tasks PROVE BeforeInv(v)' /\ RunningInv(v)' /\ CallInv(v)'
    <3>1. BeforeInv(v) /\ RunningInv(v) /\ CallInv(v)
      BY DEF IInv, HoldInv
    <3>2. BeforeInv(v)' /\ RunningInv(v)'
      <4>1. CASE v = u
        BY <4>1, <3>1, <1>0, <1>3, <1>l DEF BeforeInv, RunningInv, Before
      <4>2. CASE v # u
        BY <4>2, <3>1, <1>0, <1>l DEF BeforeInv, RunningInv
      <4>3. QED
        BY <4>1, <4>2
    <3>3. CallInv(v)'
      BY <3>1, <1>0 DEF CallInv, NextCall
    <3>4. QED
      BY <3>2, <3>3
  <2>2. QED
    BY <2>1, <1>0 DEF IInv, HoldInv
<1>8. ListInv'
  <2> SUFFICES ASSUME NEW b \in DBs, NEW q \in Lists
               PROVE  /\ Distinct(lock[b][q])
                      /\ \A v \in Members(lock[b][q]) :
                           pc'[v] = "queued" /\ b \in NextBlock(v) /\ ListOf(LockMode(v, b)) = q
    BY <1>0, <1>n, <1>u DEF ListInv
  <2>1. \A v \in Members(lock[b][q]) :
          v \in Tasks /\ pc[v] = "queued" /\ b \in NextBlock(v) /\ ListOf(LockMode(v, b)) = q
    BY <1>u DEF IInv, ListInv
  <2>2. u \notin Members(lock[b][q])
    BY <2>1, <1>3, <1>e
  <2>3. QED
    BY <2>1, <2>2, <1>l DEF IInv, ListInv
<1>9. WakeInv'
  <2>1. \A r \in Tasks : Distinct(wake'[r])
    BY <1>2, <1>l DEF IInv, WakeInv
  <2>2. ASSUME NEW r \in Tasks, NEW v \in Members(wake'[r])
        PROVE  /\ pc'[v] = "queued"
               /\ \E b \in DBs : /\ dbMutex'[b] = r /\ b \in NextBlock(v)'
                                 /\ v \notin Members(lock'[b][ListOf(LockMode(v, b))])
    <3>1. v \in Members(wake[r]) /\ v \in Tasks /\ (r = t => v # u)
      BY <1>l, <1>2, <1>u
    <3>2. PICK b \in DBs : /\ pc[v] = "queued" /\ dbMutex[b] = r /\ b \in NextBlock(v)
                           /\ v \notin Members(lock[b][ListOf(LockMode(v, b))])
      BY <3>1 DEF IInv, WakeInv
    <3>3. v # u
      BY <3>1, <3>2, <1>3, <1>e
    <3>4. QED
      BY <3>1, <3>2, <3>3, <1>l, <1>n, <1>0
  <2>3. QED
    BY <2>1, <2>2 DEF WakeInv
<1>10. QED
  BY <1>5, <1>6, <1>7, <1>8, <1>9 DEF IInv

LEMMA LeaveUnlockInv ==
  ASSUME IInv, NEW t \in Tasks, NEW d \in DBs, LeaveUnlock(t, d)
  PROVE  IInv'
<1>0. /\ dbMutex[d] = t /\ wake[t] = <<>>
      /\ dbMutex' = [dbMutex EXCEPT ![d] = Free]
      /\ left' = [left EXCEPT ![t] = @ \ NextCall(t)]
      /\ UNCHANGED <<lock, taskMutex, pc, acquired, ordered, held, wake, holders>>
  BY DEF LeaveUnlock
<1>i. BeforeInv(t) /\ RunningInv(t) /\ CallInv(t)
  BY DEF IInv, HoldInv
<1>1. PICK x \in NextCall(t) : x[1] = d
  BY <1>0, <1>i DEF CallInv
<1>2. x \in left[t] /\ NextCall(t) = {x}
  BY <1>1, NextCallFacts DEF IInv
<1>f. \A u \in Tasks : u # Free
  BY MutexAssumption
<1>l. /\ dbMutex'[d] = Free /\ \A e \in DBs \ {d} : dbMutex'[e] = dbMutex[e]
      /\ left'[t] = left[t] \ {x} /\ \A u \in Tasks \ {t} : left'[u] = left[u]
  BY <1>0, <1>2 DEF IInv, TypeOK
<1>5. TypeOK'
  BY <1>0 DEF IInv, TypeOK
<1>6. CountInv'
  BY <1>0 DEF IInv, CountInv
<1>7. HoldInv'
  <2>1. ASSUME NEW u \in Tasks PROVE BeforeInv(u)' /\ RunningInv(u)' /\ CallInv(u)'
    <3>1. BeforeInv(u) /\ RunningInv(u) /\ CallInv(u)
      BY DEF IInv, HoldInv
    <3>t. left[u] \subseteq DBs \X Nat
      BY DEF IInv, TypeOK
    <3>2. BeforeInv(u)' /\ RunningInv(u)'
      <4>1. left'[u] \subseteq left[u]
        BY <1>l
      <4>2. QED
        BY <4>1, <3>1, <1>0 DEF BeforeInv, RunningInv
    <3>3. CallInv(u)'
      <4>1. CASE u = t
        <5>1. \A y \in left'[t] : y \in left[t] /\ y[1] # d /\ y[1] \in DBs
          BY <1>1, <1>2, <1>l, <1>i, <3>t, <4>1 DEF CallInv
        <5>2. \A e \in DBs : dbMutex[e] = t => e = d
          BY <1>1, <1>2, <1>i DEF CallInv
        <5>3. \A e \in DBs : dbMutex'[e] # t
          BY <5>2, <1>l, <1>f
        <5>4. QED
          BY <5>1, <5>2, <5>3, <1>i, <1>0, <4>1 DEF CallInv
      <4>2. CASE u # t
        <5>1. left'[u] = left[u] /\ \A e \in DBs : dbMutex'[e] = u <=> dbMutex[e] = u
          BY <4>2, <1>l, <1>0, <1>f
        <5>2. NextCall(u)' = NextCall(u)
          BY <5>1 DEF NextCall
        <5>3. QED
          BY <5>1, <5>2, <3>1, <3>t, <1>0 DEF CallInv
      <4>3. QED
        BY <4>1, <4>2
    <3>4. QED
      BY <3>2, <3>3
  <2>2. QED
    BY <2>1, <1>0 DEF IInv, HoldInv
<1>8. ListInv'
  BY <1>0 DEF IInv, ListInv, NextBlock
<1>9. WakeInv'
  <2>1. ASSUME NEW r \in Tasks, NEW v \in Members(wake[r])
        PROVE  /\ pc[v] = "queued"
               /\ \E b \in DBs : /\ dbMutex'[b] = r /\ b \in NextBlock(v)
                                 /\ v \notin Members(lock[b][ListOf(LockMode(v, b))])
    <3>1. r # t
      BY <1>0, EmptyFacts
    <3>2. PICK b \in DBs : /\ pc[v] = "queued" /\ dbMutex[b] = r /\ b \in NextBlock(v)
                           /\ v \notin Members(lock[b][ListOf(LockMode(v, b))])
      BY DEF IInv, WakeInv
    <3>3. dbMutex'[b] = r
      BY <3>1, <3>2, <1>l, <1>0
    <3>4. QED
      BY <3>2, <3>3
  <2>2. \A v : NextBlock(v)' = NextBlock(v)
    BY <1>0 DEF NextBlock
  <2>3. QED
    BY <2>1, <2>2, <1>0 DEF IInv, WakeInv
<1>10. QED
  BY <1>5, <1>6, <1>7, <1>8, <1>9 DEF IInv

(* The inductive invariant, for programs that release a block early only   *)
(* if one slot carries it.                                                 *)
LEMMA StepInv ==
  ASSUME ReleasedOnce, IInv, [Next]_vars
  PROVE  IInv'
<1>1. CASE UNCHANGED vars
  BY <1>1 DEF vars, IInv, TypeOK, CountInv, HoldInv, BeforeInv, RunningInv, CallInv, NextCall,
              ListInv, WakeInv, NextBlock
<1>2. CASE Terminated
  BY <1>1, <1>2 DEF Terminated
<1>3. ASSUME NEW t \in Tasks, Satisfy(t) \/ Walk(t) \/ Run(t) \/ \E d \in DBs : Release(t, d)
      PROVE  IInv'
  <2>1. CASE Satisfy(t)
    BY <2>1, SatisfyInv
  <2>2. CASE Walk(t)
    BY <2>2, TryLockInv, SpawnInv, LeaveMutexInv DEF Walk
  <2>3. CASE Run(t)
    BY <2>3, StartInv, EndInv, FinishInv, UnlockInv, WakeStepInv, LeaveUnlockInv DEF Run
  <2>4. CASE \E d \in DBs : Release(t, d)
    BY <2>4, ReleaseInv
  <2>5. QED
    BY <1>3, <2>1, <2>2, <2>3, <2>4
<1>4. QED
  BY <1>1, <1>2, <1>3 DEF Next

LEMMA Invariance == ReleasedOnce => (Spec => []IInv)
<1>1. Init => IInv
  BY InitInv
<1>2. ReleasedOnce /\ IInv /\ [Next]_vars => IInv'
  BY StepInv
<1>3. QED
  <2> SUFFICES ASSUME ReleasedOnce PROVE Spec => []IInv
    OBVIOUS
  <2>1. IInv /\ [Next]_vars => IInv'
    BY <1>2
  <2>2. QED
    BY <1>1, <2>1, PTL DEF Spec

-----------------------------------------------------------------------------
(***************************************************************************)
(* Waiting and waking, for the lock of one block.                          *)
(***************************************************************************)
(* Shared and other holders are never together; a writer is counted.       *)
LEMMA HoldersAgree ==
  ASSUME NEW h \in SUBSET Tasks, NEW d \in DBs, NEW l \in DbData, Counts(l, h, d), Excludes(h, d)
  PROVE  /\ l.shared = 0 \/ l.exclusive = 0
         /\ l.write => l.exclusive # 0
<1>1. l.shared = 0 \/ l.exclusive = 0
  <2> SUFFICES ASSUME l.shared # 0, l.exclusive # 0 PROVE FALSE
    OBVIOUS
  <2>1. PICK t \in h : Shared(LockMode(t, d))
    BY ZeroCount
  <2>2. PICK u \in h : ~Shared(LockMode(u, d))
    BY ZeroCount
  <2>3. QED
    BY <2>1, <2>2 DEF Excludes, MayShare, Shared
<1>2. l.write => l.exclusive # 0
  BY ZeroCount DEF Counts, Shared
<1>3. QED
  BY <1>1, <1>2

LEMMA DbDataFacts ==
  ASSUME NEW l \in DbData
  PROVE  /\ l.shared \in Nat /\ l.exclusive \in Nat /\ l.write \in BOOLEAN
         /\ l.sharedQ \in Seq(Tasks) /\ l.readQ \in Seq(Tasks) /\ l.writeQ \in Seq(Tasks)
  BY CounterAssumption DEF DbData, Counter

LEMMA LockedFields ==
  ASSUME NEW l \in DbData, NEW m \in Modes
  PROVE  LET l2 == Locked(l, m)
         IN  /\ l2.sharedQ = l.sharedQ /\ l2.readQ = l.readQ /\ l2.writeQ = l.writeQ
             /\ l2.shared = (IF Shared(m) THEN l.shared + 1 ELSE l.shared)
             /\ l2.exclusive = (IF Shared(m) THEN l.exclusive ELSE l.exclusive + 1)
             /\ l2.write = (l.write \/ m = "EW")
<1>1. CASE Shared(m)
  BY <1>1 DEF Locked, DbData, Shared
<1>2. CASE m = "CONST"
  BY <1>2 DEF Locked, DbData, Shared
<1>3. CASE m = "EW"
  BY <1>3 DEF Locked, DbData, Shared
<1>4. QED
  BY <1>1, <1>2, <1>3 DEF Modes, Shared

LEMMA LockIdle ==
  ASSUME NEW l \in DbData, NEW m \in Modes, Sound(l), Idle(l), Lockable(l, m)
  PROVE  Sound(Locked(l, m)) /\ Idle(Locked(l, m))
<1> DEFINE l2 == Locked(l, m)
<1>0. /\ l2.sharedQ = l.sharedQ /\ l2.readQ = l.readQ /\ l2.writeQ = l.writeQ
      /\ l2.shared = (IF Shared(m) THEN l.shared + 1 ELSE l.shared)
      /\ l2.exclusive = (IF Shared(m) THEN l.exclusive ELSE l.exclusive + 1)
      /\ l2.write = (l.write \/ m = "EW")
  BY LockedFields
<1>t. l.shared \in Nat /\ l.exclusive \in Nat /\ l.write \in BOOLEAN
  BY DbDataFacts
<1> HIDE DEF l2
<1>1. CASE Shared(m)
  <2>1. l.exclusive = 0
    BY <1>1 DEF Lockable, Shared
  <2>2. QED
    BY <1>0, <1>1, <1>t, <2>1 DEF Sound, Idle, l2
<1>2. CASE m = "CONST"
  <2>1. l.shared = 0 /\ ~l.write /\ ~Shared(m)
    BY <1>2 DEF Lockable, Shared
  <2>2. QED
    BY <1>0, <1>2, <1>t, <2>1 DEF Sound, Idle, l2
<1>3. CASE m = "EW"
  <2>1. l.shared = 0 /\ l.exclusive = 0 /\ ~Shared(m)
    BY <1>3 DEF Lockable, Shared
  <2>2. QED
    BY <1>0, <1>3, <1>t, <2>1 DEF Sound, Idle, l2
<1>4. QED
  BY <1>1, <1>2, <1>3 DEF Modes, Shared

LEMMA EnqueueIdle ==
  ASSUME NEW l \in DbData, NEW m \in Modes, NEW u \in Tasks, Sound(l), Idle(l), ~Lockable(l, m),
         l.shared = 0 \/ l.exclusive = 0
  PROVE  Sound(Enqueued(l, m, u)) /\ Idle(Enqueued(l, m, u))
<1>t. l.shared \in Nat /\ l.exclusive \in Nat /\ l.write \in BOOLEAN
  BY DbDataFacts
<1>1. CASE Shared(m)
  <2>0. l.exclusive # 0
    BY <1>1 DEF Lockable, Shared
  <2>1. l.exclusive > 0 /\ l.shared = 0
    BY <2>0, <1>t
  <2>2. Enqueued(l, m, u) = [l EXCEPT !.sharedQ = Append(@, u)]
    BY <1>1 DEF Enqueued, Shared
  <2>3. QED
    BY <1>t, <2>1, <2>2 DEF Sound, Idle, DbData
<1>2. CASE m = "CONST"
  <2>1. l.shared > 0 \/ l.write
    BY <1>2, <1>t DEF Lockable, Shared
  <2>2. Enqueued(l, m, u) = [l EXCEPT !.readQ = Append(@, u)]
    BY <1>2 DEF Enqueued, Shared
  <2>3. QED
    BY <1>t, <2>1, <2>2 DEF Sound, Idle, DbData
<1>3. CASE m = "EW"
  <2>1. l.shared > 0 \/ l.exclusive > 0
    BY <1>3, <1>t DEF Lockable, Shared
  <2>2. Enqueued(l, m, u) = [l EXCEPT !.writeQ = Append(@, u)]
    BY <1>3 DEF Enqueued, Shared
  <2>3. QED
    BY <1>t, <2>1, <2>2 DEF Sound, Idle, DbData
<1>4. QED
  BY <1>1, <1>2, <1>3 DEF Modes, Shared

(* A waiter that is being served gets the block.                           *)
LEMMA ServeNext ==
  ASSUME NEW l \in DbData, NEW d \in DBs, NEW P, NEW u \in P, u \in Tasks, Serving(l, P, d)
  PROVE  /\ Lockable(l, LockMode(u, d))
         /\ Sound(Locked(l, LockMode(u, d)))
         /\ Serving(Locked(l, LockMode(u, d)), P \ {u}, d)
<1> DEFINE m  == LockMode(u, d)
           l2 == Locked(l, m)
<1>m. m \in Modes
  BY LockModeDef
<1>0. /\ l2.sharedQ = l.sharedQ /\ l2.readQ = l.readQ /\ l2.writeQ = l.writeQ
      /\ l2.shared = (IF Shared(m) THEN l.shared + 1 ELSE l.shared)
      /\ l2.exclusive = (IF Shared(m) THEN l.exclusive ELSE l.exclusive + 1)
      /\ l2.write = (l.write \/ m = "EW")
  BY <1>m, LockedFields
<1>t. l.shared \in Nat /\ l.exclusive \in Nat /\ l.write \in BOOLEAN
  BY DbDataFacts
<1> HIDE DEF l2, m
<1>1. CASE ServingWriter(l, P, d)
  <2>1. l.shared = 0 /\ l.exclusive = 0 /\ m = "EW" /\ P \ {u} = {}
    BY <1>1 DEF ServingWriter, m
  <2>2. l2.shared = 0 /\ l2.write
    BY <1>0, <2>1 DEF Shared
  <2>3. QED
    BY <2>1, <2>2 DEF Lockable, Shared, Sound, Serving, ServingWriter, l2, m
<1>2. CASE ServingReaders(l, P, d)
  <2>1. m = "CONST" /\ l.shared = 0 /\ ~l.write /\ l.readQ = <<>> /\ l.writeQ = <<>>
    BY <1>2 DEF ServingReaders, m
  <2>2. l2.shared = 0 /\ ~l2.write /\ l2.readQ = <<>> /\ l2.writeQ = <<>> /\ l2.exclusive > 0
    BY <1>0, <1>t, <2>1 DEF Shared
  <2>3. ServingReaders(l2, P \ {u}, d)
    BY <1>2, <2>2 DEF ServingReaders
  <2>4. QED
    BY <2>1, <2>2, <2>3 DEF Lockable, Shared, Sound, Serving, l2, m
<1>3. CASE ServingShared(l, P, d)
  <2>1. /\ Shared(m) /\ l.exclusive = 0
        /\ l.sharedQ = <<>> /\ l.readQ = <<>> /\ l.writeQ = <<>>
    BY <1>3 DEF ServingShared, m
  <2>2. l2.exclusive = 0 /\ l2.sharedQ = <<>> /\ l2.readQ = <<>> /\ l2.writeQ = <<>>
    BY <1>0, <2>1
  <2>3. ServingShared(l2, P \ {u}, d)
    BY <1>3, <2>2 DEF ServingShared
  <2>4. QED
    BY <2>1, <2>2, <2>3 DEF Lockable, Shared, Sound, Serving, l2, m
<1>4. QED
  BY <1>1, <1>2, <1>3 DEF Serving

LEMMA ServedIdle ==
  ASSUME NEW l \in DbData, NEW d \in DBs, Serving(l, {}, d), l.write => l.exclusive # 0
  PROVE  Idle(l)
<1>t. l.shared \in Nat /\ l.exclusive \in Nat /\ l.write \in BOOLEAN
  BY DbDataFacts
<1>1. CASE ServingWriter(l, {}, d)
  BY <1>1, <1>t DEF ServingWriter, Idle
<1>2. CASE ServingReaders(l, {}, d)
  BY <1>2, <1>t DEF ServingReaders, Idle
<1>3. CASE ServingShared(l, {}, d)
  BY <1>3, <1>t DEF ServingShared, Idle
<1>4. QED
  BY <1>1, <1>2, <1>3 DEF Serving

(* The lock l of a block after a holder in mode m has counted down.        *)
Released(l, m) ==
  /\ Shared(m) => l.exclusive = 0 /\ ~l.write /\ l.sharedQ = <<>>
  /\ m = "CONST" => l.shared = 0 /\ ~l.write /\ l.readQ = <<>>
  /\ m = "EW" => l.shared = 0 /\ l.exclusive = 0 /\ ~l.write

LEMMA UnlockReleases ==
  ASSUME NEW h \in SUBSET Tasks, NEW d \in DBs, NEW t \in h, NEW l \in DbData,
         Counts(l, h, d), Excludes(h, d), Sound(l)
  PROVE  Released(Unlocked(l, LockMode(t, d)), LockMode(t, d))
<1> DEFINE m  == LockMode(t, d)
           l1 == Unlocked(l, m)
<1>m. m \in Modes
  BY LockModeDef
<1>t. l.shared \in Nat /\ l.exclusive \in Nat /\ l.write \in BOOLEAN
  BY DbDataFacts
<1>a. (l.shared = 0 \/ l.exclusive = 0) /\ (l.write => l.exclusive # 0)
  BY HoldersAgree
<1>1. CASE Shared(m)
  <2>1. l.shared # 0
    BY <1>1, ZeroCount
  <2>2. l1 = [l EXCEPT !.shared = Decrement(@)]
    BY <1>1 DEF Unlocked, Shared
  <2>3. l.sharedQ = <<>> /\ l.exclusive = 0 /\ ~l.write
    BY <2>1, <1>a, <1>t DEF Sound
  <2>4. QED
    BY <2>2, <2>3, <1>1 DEF Released, DbData, Shared
<1>2. CASE m = "CONST"
  <2>1. l.exclusive # 0
    BY <1>2, ZeroCount DEF Shared
  <2>2. l1 = [l EXCEPT !.exclusive = Decrement(@)]
    BY <1>2 DEF Unlocked, Shared
  <2>3. ~l.write
    BY <1>2 DEF Counts, Excludes, MayShare, Shared
  <2>4. l.readQ = <<>> /\ l.shared = 0
    BY <2>1, <2>3, <1>a, <1>t DEF Sound
  <2>5. QED
    BY <2>2, <2>3, <2>4, <1>2 DEF Released, DbData, Shared
<1>3. CASE m = "EW"
  <2>1. h \ {t} = {}
    BY <1>3 DEF Excludes, MayShare, Shared
  <2>2. Counts(l1, h \ {t}, d)
    BY UnlockStep
  <2>3. Counts(l1, {}, d)
    BY <2>1, <2>2
  <2>4. l1.shared = 0 /\ l1.exclusive = 0
    BY <2>3, ZeroCount
  <2>5. ~l1.write
    BY <2>3 DEF Counts
  <2>6. QED
    BY <2>4, <2>5, <1>3 DEF Released, Shared
<1>4. QED
  BY <1>1, <1>2, <1>3, <1>m DEF Modes, Shared

(* unlock finds the waiters where it looks for them.                       *)
LEMMA ChooseFacts ==
  ASSUME NEW l \in DbData, NEW m \in Modes, Released(l, m)
  PROVE  /\ FirstWaiting(l, m) = NoList => Sound(l) /\ Idle(l)
         /\ FirstWaiting(l, m) # NoList => l.shared = 0 /\ l.exclusive = 0 /\ ~l.write
         /\ FirstWaiting(l, m) \in {"readQ", "sharedQ"} => l.writeQ = <<>>
         /\ FirstWaiting(l, m) = "sharedQ" => l.readQ = <<>>
<1>t. l.shared \in Nat /\ l.exclusive \in Nat /\ l.write \in BOOLEAN
  BY DbDataFacts
<1> DEFINE waiting  == {q \in Served(m) : l[q] # <<>>}
           released == IF Shared(m) THEN l.shared = 0 ELSE l.exclusive = 0
<1>w. /\ "writeQ" \in waiting <=> l.writeQ # <<>>
      /\ "readQ" \in waiting <=> l.readQ # <<>> /\ m # "CONST"
      /\ "sharedQ" \in waiting <=> l.sharedQ # <<>> /\ ~Shared(m)
  BY DEF Served, Modes, Shared
<1>f. FirstWaiting(l, m) = IF ~released \/ waiting = {} THEN NoList
                           ELSE IF "writeQ" \in waiting THEN "writeQ"
                           ELSE IF "readQ" \in waiting THEN "readQ" ELSE "sharedQ"
  BY DEF FirstWaiting
<1> HIDE DEF waiting
<1>r. released => l.shared = 0 /\ l.exclusive = 0 /\ ~l.write
  BY DEF Released, Modes, Shared
<1>1. ASSUME FirstWaiting(l, m) = NoList
      PROVE  Sound(l) /\ Idle(l)
  <2>1. ~released \/ waiting = {}
    BY <1>1, <1>f DEF NoList
  <2>2. CASE waiting = {}
    <3>1. l.sharedQ = <<>> /\ l.readQ = <<>> /\ l.writeQ = <<>>
      BY <2>2, <1>w DEF Released, Modes, Shared
    <3>2. QED
      BY <3>1 DEF Sound, Idle
  <2>3. CASE ~released
    <3>1. CASE Shared(m)
      BY <2>3, <3>1, <1>t DEF Released, Sound, Idle
    <3>2. CASE m = "CONST"
      BY <2>3, <3>2, <1>t DEF Released, Sound, Idle, Shared
    <3>3. CASE m = "EW"
      BY <2>3, <3>3 DEF Released, Shared
    <3>4. QED
      BY <3>1, <3>2, <3>3 DEF Modes, Shared
  <2>4. QED
    BY <2>1, <2>2, <2>3
<1>2. ASSUME FirstWaiting(l, m) # NoList
      PROVE  released /\ waiting # {}
  BY <1>2, <1>f
<1>3. FirstWaiting(l, m) \in {"readQ", "sharedQ"} => l.writeQ = <<>>
  BY <1>f, <1>w DEF NoList
<1>4. FirstWaiting(l, m) = "sharedQ" => l.readQ = <<>>
  BY <1>f, <1>w DEF NoList, Released, Shared
<1>5. QED
  BY <1>1, <1>2, <1>3, <1>4, <1>r

(* The list a task waits in says in which mode.                            *)
LEMMA ListMode ==
  ASSUME NEW u \in Tasks, NEW d \in DBs
  PROVE  /\ ListOf(LockMode(u, d)) = "writeQ" => LockMode(u, d) = "EW"
         /\ ListOf(LockMode(u, d)) = "readQ" => LockMode(u, d) = "CONST"
         /\ ListOf(LockMode(u, d)) = "sharedQ" => Shared(LockMode(u, d))
  BY LockModeDef DEF ListOf, Modes, Shared

LEMMA HeadTail ==
  ASSUME NEW s \in Seq(Tasks), s # <<>>
  PROVE  Members(s) = {Head(s)} \cup Members(Tail(s))
<1>1. Len(s) \in Nat \ {0} /\ DOMAIN s = 1..Len(s) /\ Head(s) = s[1] /\ 1 \in DOMAIN s
  OBVIOUS
<1>2. DOMAIN Tail(s) = 1..Len(s) - 1 /\ \A i \in 1..Len(s) - 1 : Tail(s)[i] = s[i + 1]
  BY <1>1
<1>3. ASSUME NEW i \in DOMAIN s PROVE s[i] = Head(s) \/ s[i] \in Members(Tail(s))
  <2>1. CASE i = 1
    BY <2>1, <1>1
  <2>2. CASE i # 1
    <3>1. i - 1 \in DOMAIN Tail(s) /\ Tail(s)[i - 1] = s[(i - 1) + 1] /\ (i - 1) + 1 = i
      BY <2>2, <1>1, <1>2
    <3>2. QED
      BY <3>1 DEF Members
  <2>3. QED
    BY <2>1, <2>2
<1>4. ASSUME NEW i \in DOMAIN Tail(s) PROVE Tail(s)[i] \in Members(s)
  <2>1. i + 1 \in DOMAIN s /\ Tail(s)[i] = s[i + 1]
    BY <1>1, <1>2
  <2>2. QED
    BY <2>1 DEF Members
<1>5. QED
  BY <1>1, <1>3, <1>4 DEF Members

LEMMA NonEmpty ==
  ASSUME NEW s \in Seq(Tasks), s # <<>>
  PROVE  Members(s) # {}
<1>1. 1 \in DOMAIN s
  OBVIOUS
<1>2. QED
  BY <1>1 DEF Members

(* What the chosen list leaves behind, and whom it serves.                 *)
LEMMA OwnersServed ==
  ASSUME NEW l \in DbData, NEW q \in Lists, l[q] # <<>>
  PROVE  LET l2 == WithoutOwners(l, q)
             n  == NewOwners(l, q)
         IN  /\ l2.shared = l.shared /\ l2.exclusive = l.exclusive /\ l2.write = l.write
             /\ \A p \in Lists \ {q} : l2[p] = l[p]
             /\ Members(l[q]) \subseteq Members(l2[q]) \cup Members(n)
             /\ Members(n) # {} /\ Members(n) \subseteq Members(l[q])
             /\ q # "writeQ" => l2[q] = <<>>
             /\ q = "writeQ" => \E u \in Tasks : Members(n) = {u}
<1> DEFINE l2 == WithoutOwners(l, q)
           n  == NewOwners(l, q)
<1>t. l.sharedQ \in Seq(Tasks) /\ l.readQ \in Seq(Tasks) /\ l.writeQ \in Seq(Tasks)
  BY DEF DbData
<1>q. q # NoList /\ l[q] \in Seq(Tasks)
  BY <1>t DEF Lists, NoList
<1>w. l2 = [l EXCEPT ![q] = SubSeq(l[q], Len(n) + 1, Len(l[q]))]
  BY <1>q DEF WithoutOwners, Lists, DbData
<1>1. CASE q = "writeQ"
  <2>1. n = <<Head(l[q])>>
    BY <1>1, <1>q DEF NewOwners
  <2>2. Len(n) = 1 /\ DOMAIN n = {1} /\ n[1] = Head(l[q])
    BY <2>1
  <2>3. Members(n) = {Head(l[q])}
    BY <2>2 DEF Members
  <2>4. Head(l[q]) \in Tasks /\ SubSeq(l[q], 2, Len(l[q])) = Tail(l[q])
    BY <1>q
  <2>5. l2 = [l EXCEPT !.writeQ = Tail(l.writeQ)]
    <3> HIDE DEF l2, n
    <3>0. Len(n) + 1 = 2
      BY <2>2
    <3>1. l2 = [l EXCEPT ![q] = Tail(l[q])]
      BY <1>w, <3>0, <2>4
    <3>2. QED
      BY <3>1, <1>1
  <2>6. Members(l[q]) = {Head(l[q])} \cup Members(Tail(l[q]))
    BY <1>q, HeadTail
  <2>7. l2.shared = l.shared /\ l2.exclusive = l.exclusive /\ l2.write = l.write
        /\ l2.sharedQ = l.sharedQ /\ l2.readQ = l.readQ /\ l2.writeQ = Tail(l.writeQ)
    BY <2>5 DEF DbData
  <2>8. QED
    BY <1>1, <2>3, <2>4, <2>6, <2>7 DEF Lists
<1>2. CASE q # "writeQ"
  <2>1. n = l[q]
    BY <1>2, <1>q DEF NewOwners
  <2>2. SubSeq(l[q], Len(n) + 1, Len(l[q])) = <<>>
    BY <2>1, <1>q
  <2>3. l2 = [l EXCEPT ![q] = <<>>]
    BY <1>w, <2>2
  <2>4. Members(l[q]) # {}
    BY <1>q, NonEmpty
  <2>5. l2.shared = l.shared /\ l2.exclusive = l.exclusive /\ l2.write = l.write
        /\ l2[q] = <<>> /\ \A p \in Lists \ {q} : l2[p] = l[p]
    BY <2>3 DEF DbData, Lists
  <2>6. QED
    BY <1>2, <2>1, <2>4, <2>5
<1>3. QED
  BY <1>1, <1>2

(* unlock leaves a block idle or serves waiters that can lock it.          *)
LEMMA UnlockServes ==
  ASSUME NEW d \in DBs, NEW l \in DbData, NEW m \in Modes, Released(l, m),
         \A p \in Lists : \A u \in Members(l[p]) : u \in Tasks /\ ListOf(LockMode(u, d)) = p
  PROVE  LET q  == FirstWaiting(l, m)
             l2 == WithoutOwners(l, q)
         IN  /\ Sound(l2)
             /\ q = NoList => Idle(l2)
             /\ q # NoList => Serving(l2, Members(NewOwners(l, q)), d)
<1> DEFINE q  == FirstWaiting(l, m)
           l2 == WithoutOwners(l, q)
           n  == NewOwners(l, q)
<1>1. CASE q = NoList
  <2>1. l2 = l
    BY <1>1 DEF WithoutOwners
  <2>2. QED
    BY <1>1, <2>1, ChooseFacts
<1>2. CASE q # NoList
  <2>1. q \in Lists /\ l[q] # <<>>
    BY <1>2, FirstWaitingFacts
  <2>2. /\ l.shared = 0 /\ l.exclusive = 0 /\ ~l.write
        /\ q \in {"readQ", "sharedQ"} => l.writeQ = <<>>
        /\ q = "sharedQ" => l.readQ = <<>>
    BY <1>2, ChooseFacts
  <2> HIDE DEF q
  <2>3. /\ l2.shared = l.shared /\ l2.exclusive = l.exclusive /\ l2.write = l.write
        /\ \A p \in Lists \ {q} : l2[p] = l[p]
        /\ Members(n) # {} /\ Members(n) \subseteq Members(l[q])
        /\ q # "writeQ" => l2[q] = <<>>
        /\ q = "writeQ" => \E u \in Tasks : Members(n) = {u}
    BY <2>1, OwnersServed
  <2>4. \A u \in Members(n) : u \in Tasks /\ ListOf(LockMode(u, d)) = q
    BY <2>1, <2>3
  <2> HIDE DEF l2, n
  <2>5. Sound(l2)
    BY <2>2, <2>3 DEF Sound
  <2>6. CASE q = "writeQ"
    <3>1. PICK u \in Tasks : Members(n) = {u}
      BY <2>6, <2>3
    <3>2. LockMode(u, d) = "EW"
      BY <2>4, <2>6, <3>1, ListMode
    <3>3. ServingWriter(l2, Members(n), d)
      BY <2>2, <2>3, <3>1, <3>2 DEF ServingWriter
    <3>4. QED
      BY <1>2, <2>5, <3>3 DEF Serving, l2, n, q
  <2>7. CASE q = "readQ"
    <3>1. \A u \in Members(n) : LockMode(u, d) = "CONST"
      BY <2>4, <2>7, ListMode
    <3>2. l2.readQ = <<>> /\ l2.writeQ = <<>>
      BY <2>2, <2>3, <2>7 DEF Lists
    <3>3. ServingReaders(l2, Members(n), d)
      BY <2>2, <2>3, <3>1, <3>2 DEF ServingReaders
    <3>4. QED
      BY <1>2, <2>5, <3>3 DEF Serving, l2, n, q
  <2>8. CASE q = "sharedQ"
    <3>1. \A u \in Members(n) : Shared(LockMode(u, d))
      BY <2>4, <2>8, ListMode
    <3>2. l2.sharedQ = <<>> /\ l2.readQ = <<>> /\ l2.writeQ = <<>>
      BY <2>2, <2>3, <2>8 DEF Lists
    <3>3. ServingShared(l2, Members(n), d)
      BY <2>2, <2>3, <3>1, <3>2 DEF ServingShared
    <3>4. QED
      BY <1>2, <2>5, <3>3 DEF Serving, l2, n, q
  <2>9. QED
    BY <2>1, <2>6, <2>7, <2>8 DEF Lists
<1>3. QED
  BY <1>1, <1>2

-----------------------------------------------------------------------------
(***************************************************************************)
(* Waiting and waking, step by step.                                       *)
(***************************************************************************)
(* A task unlocks one block at a time.                                     *)
LEMMA OneMutex ==
  ASSUME IInv, NEW t \in Tasks, NEW d \in DBs, NEW e \in DBs, dbMutex[d] = t, dbMutex[e] = t
  PROVE  d = e
<1>1. CallInv(t) /\ TypeOK
  BY DEF IInv, HoldInv
<1>2. PICK x \in NextCall(t) : x[1] = d
  BY <1>1 DEF CallInv
<1>3. PICK y \in NextCall(t) : y[1] = e
  BY <1>1 DEF CallInv
<1>4. QED
  BY <1>1, <1>2, <1>3, NextCallFacts

(* Whoever a thread walks for waited for the block it unlocks.             *)
LEMMA WalkFacts ==
  ASSUME IInv, WalkInv, NEW t \in Tasks, NEW d \in DBs, dbMutex[d] = t, NEW u \in WalksFor(t)
  PROVE  u \in Tasks /\ (d \in acquired[u] \/ (pc[u] = "acquiring" /\ d \in NextBlock(u)))
<1>1. PICK e \in DBs : dbMutex[e] = t /\ (e \in acquired[u] \/ (pc[u] = "acquiring" /\ e \in NextBlock(u)))
  BY DEF WalkInv
<1>2. e = d
  BY <1>1, OneMutex
<1>3. QED
  BY <1>1, <1>2 DEF WalksFor

(* Who unlocks nothing has nobody to serve.                                *)
LEMMA NoMutex ==
  ASSUME IInv, WalkInv, NEW t \in Tasks, \A d \in DBs : dbMutex[d] # t
  PROVE  Members(wake[t]) = {} /\ WalksFor(t) = {}
<1>1. Members(wake[t]) = {}
  BY DEF IInv, WakeInv
<1>2. WalksFor(t) = {}
  BY DEF WalkInv
<1>3. QED
  BY <1>1, <1>2

LEMMA MembersTasks ==
  ASSUME IInv
  PROVE  /\ \A d \in DBs : \A q \in Lists : Members(lock[d][q]) \subseteq Tasks
         /\ \A t \in Tasks : Members(wake[t]) \subseteq Tasks
         /\ \A d \in DBs : lock[d] \in DbData /\ holders[d] \in SUBSET Tasks
         /\ \A d \in DBs : Counts(lock[d], holders[d], d) /\ Excludes(holders[d], d)
  BY DEF IInv, TypeOK, DbData, Lists, Members, CountInv

LEMMA ListOfType ==
  ASSUME NEW u, NEW d
  PROVE  ListOf(LockMode(u, d)) \in Lists
  BY DEF ListOf, Lists

(* A block that a step does not touch.                                     *)
LEMMA SameBlock ==
  ASSUME NEW d \in DBs, BlockInv(d), lock'[d] = lock[d], dbMutex'[d] = dbMutex[d],
         \A t \in Tasks : dbMutex[d] = t => Unserved(t, d)' = Unserved(t, d)
  PROVE  BlockInv(d)'
  BY DEF BlockInv

(* Steps that touch no lock: tasks make progress, mutexes of tasks that    *)
(* are not walked for any more are released.                               *)
LEMMA QuietStep ==
  ASSUME IInv, WaitInv, UNCHANGED <<lock, dbMutex, acquired, wake>>,
         \A r \in Tasks : /\ WalksFor(r)' \subseteq WalksFor(r)
                          /\ \A u \in WalksFor(r) : u \in WalksFor(r)' \/ pc[u] # "acquiring",
         \A u \in Tasks : /\ pc'[u] = "queued" => pc[u] = "queued"
                          /\ pc[u] = "acquiring" => pc'[u] = "acquiring" \/ NextBlock(u) = {}
  PROVE  WaitInv'
<1>n. \A u : NextBlock(u)' = NextBlock(u)
  BY DEF NextBlock
<1>1. QueueInv'
  <2>1. ASSUME NEW d \in DBs PROVE BlockInv(d)'
    <3>1. ASSUME NEW t \in Tasks, dbMutex[d] = t
          PROVE  Unserved(t, d)' = Unserved(t, d)
      <4>1. ASSUME NEW u \in WalksFor(t), d \in NextBlock(u)
            PROVE  u \in WalksFor(t)'
        <5>1. d \notin acquired[u]
          BY <4>1, NextBlockFacts DEF WalksFor
        <5>2. pc[u] = "acquiring"
          BY <3>1, <4>1, <5>1, WalkFacts DEF WaitInv
        <5>3. QED
          BY <5>2
      <4>2. {u \in WalksFor(t)' : d \in NextBlock(u)'} = {u \in WalksFor(t) : d \in NextBlock(u)}
        BY <4>1, <1>n
      <4>3. QED
        BY <4>2 DEF Unserved
    <3>2. QED
      BY <3>1, SameBlock DEF WaitInv, QueueInv
  <2>2. QED
    BY <2>1 DEF QueueInv
<1>2. WalkInv'
  <2>1. ASSUME NEW t \in Tasks, NEW u \in WalksFor(t)'
        PROVE  \E d \in DBs : dbMutex'[d] = t
                 /\ (d \in acquired'[u] \/ (pc'[u] = "acquiring" /\ d \in NextBlock(u)'))
    <3>1. u \in WalksFor(t) /\ u \in Tasks
      BY DEF WalksFor
    <3>2. PICK d \in DBs : dbMutex[d] = t /\ (d \in acquired[u] \/ (pc[u] = "acquiring" /\ d \in NextBlock(u)))
      BY <3>1 DEF WaitInv, WalkInv
    <3>3. QED
      BY <3>1, <3>2, <1>n
  <2>2. QED
    BY <2>1 DEF WalkInv
<1>3. FoundInv'
  BY <1>n DEF WaitInv, FoundInv
<1>4. QED
  BY <1>1, <1>2, <1>3 DEF WaitInv

LEMMA QuietActions ==
  ASSUME IInv, WaitInv, NEW t \in Tasks,
         Satisfy(t) \/ Spawn(t) \/ LeaveMutex(t) \/ Start(t) \/ End(t) \/ Finish(t)
           \/ \E d \in DBs : Release(t, d)
  PROVE  WaitInv'
<1>t. TypeOK
  BY DEF IInv
<1>1. CASE Satisfy(t)
  <2>1. \A u \in Tasks : /\ pc'[u] = "queued" => pc[u] = "queued"
                         /\ pc[u] = "acquiring" => pc'[u] = "acquiring"
    BY <1>1, <1>t DEF Satisfy, TypeOK
  <2>2. \A r \in Tasks : WalksFor(r)' = WalksFor(r)
    BY <1>1, <1>t, MutexAssumption DEF Satisfy, TypeOK, WalksFor
  <2>3. QED
    BY <1>1, <2>1, <2>2, QuietStep DEF Satisfy
<1>2. CASE Spawn(t)
  <2>1. NextBlock(t) = {}
    BY <1>2 DEF Spawn, NextBlock
  <2>2. \A u \in Tasks : /\ pc'[u] = "queued" => pc[u] = "queued"
                         /\ pc[u] = "acquiring" => pc'[u] = "acquiring" \/ NextBlock(u) = {}
    BY <1>2, <1>t, <2>1 DEF Spawn, TypeOK
  <2>3. \A r \in Tasks : WalksFor(r)' = WalksFor(r)
    BY <1>2 DEF Spawn, WalksFor
  <2>4. QED
    BY <1>2, <2>2, <2>3, QuietStep DEF Spawn
<1>3. CASE LeaveMutex(t)
  <2>1. \A r \in Tasks : /\ WalksFor(r)' \subseteq WalksFor(r)
                         /\ \A u \in WalksFor(r) : u \in WalksFor(r)' \/ pc[u] # "acquiring"
    BY <1>3, <1>t, MutexAssumption DEF LeaveMutex, TypeOK, WalksFor
  <2>2. QED
    BY <1>3, <2>1, QuietStep DEF LeaveMutex
<1>4. CASE Start(t) \/ End(t) \/ Finish(t) \/ \E d \in DBs : Release(t, d)
  <2>1. UNCHANGED <<lock, dbMutex, taskMutex, acquired, wake>>
    BY <1>4 DEF Start, End, Finish, Release
  <2>2. \A u \in Tasks : /\ pc'[u] = "queued" => pc[u] = "queued"
                         /\ pc[u] = "acquiring" => pc'[u] = "acquiring"
    BY <1>4, <1>t DEF Start, End, Finish, Release, TypeOK
  <2>3. \A r \in Tasks : WalksFor(r)' = WalksFor(r)
    BY <2>1 DEF WalksFor
  <2>4. QED
    BY <2>1, <2>2, <2>3, QuietStep
<1>5. QED
  BY <1>1, <1>2, <1>3, <1>4

LEMMA TryLockWait ==
  ASSUME IInv, WaitInv, NEW t \in Tasks, NEW d \in DBs, TryLock(t, d)
  PROVE  WaitInv'
<1> DEFINE m == LockMode(t, d)
<1>0. /\ m \in Modes /\ d \in NextBlock(t) /\ pc[t] = "acquiring"
      /\ dbMutex[d] = Free \/ dbMutex[d] = taskMutex[t]
      /\ UNCHANGED <<dbMutex, taskMutex, wake>>
  BY LockModeDef DEF TryLock
<1>d. d \notin acquired[t] /\ \A e \in NextBlock(t) : e = d
  BY <1>0, NextBlockFacts
<1>t. TypeOK /\ QueueInv /\ WalkInv /\ FoundInv
  BY DEF IInv, WaitInv
<1>u. /\ \A e \in DBs : \A q \in Lists : Members(lock[e][q]) \subseteq Tasks
      /\ \A r \in Tasks : Members(wake[r]) \subseteq Tasks
      /\ lock[d] \in DbData /\ holders[d] \in SUBSET Tasks
      /\ Counts(lock[d], holders[d], d) /\ Excludes(holders[d], d)
  BY MembersTasks
<1>w. \A r : WalksFor(r)' = WalksFor(r)
  BY <1>0 DEF WalksFor
<1>q. \A r \in Tasks : \A u \in Members(wake[r]) : u # t
  BY <1>0 DEF IInv, WakeInv
<1>b. Sound(lock[d]) /\ (dbMutex[d] = Free => Idle(lock[d]))
  BY <1>t DEF QueueInv, BlockInv
(* The waiter is one of those its unlocking thread serves.                 *)
<1>s. ASSUME NEW r \in Tasks, dbMutex[d] = r
      PROVE  t \in Unserved(r, d) /\ Serving(lock[d], Unserved(r, d), d)
  <2>1. taskMutex[t] = r
    BY <1>s, <1>0, MutexAssumption
  <2>2. t \in Unserved(r, d)
    BY <2>1, <1>0 DEF Unserved, WalksFor
  <2>3. QED
    BY <2>2, <1>s, <1>t DEF QueueInv, BlockInv
(* Whoever else walks for t has passed its block.                          *)
<1>p. ASSUME NEW r \in Tasks, NEW e \in DBs, dbMutex[e] = r, t \in WalksFor(r)
      PROVE  e \in acquired[t] \/ e = d
  BY <1>p, <1>d, <1>t, WalkFacts
<1>1. CASE Lockable(lock[d], m)
  <2>0. /\ lock' = [lock EXCEPT ![d] = Locked(@, m)]
        /\ acquired' = [acquired EXCEPT ![t] = @ \cup {d}]
        /\ pc' = pc
    BY <1>1 DEF TryLock
  <2>l. /\ lock'[d] = Locked(lock[d], m) /\ \A e \in DBs \ {d} : lock'[e] = lock[e]
        /\ acquired'[t] = acquired[t] \cup {d} /\ \A u \in Tasks \ {t} : acquired'[u] = acquired[u]
    BY <2>0, <1>t DEF TypeOK
  <2>n. \A u \in Tasks \ {t} : NextBlock(u)' = NextBlock(u)
    BY <2>l DEF NextBlock
  <2>m. d \notin NextBlock(t)' /\ \A e \in acquired[t] : e \notin NextBlock(t)'
    BY <2>l DEF NextBlock
  <2>f. /\ Locked(lock[d], m).sharedQ = lock[d].sharedQ
        /\ Locked(lock[d], m).readQ = lock[d].readQ
        /\ Locked(lock[d], m).writeQ = lock[d].writeQ
    BY <1>0, <1>u, LockedFields
  <2>q. \A e \in DBs : \A q \in Lists : lock'[e][q] = lock[e][q]
    BY <2>f, <2>l DEF Lists
  <2>1. ASSUME NEW e \in DBs, e # d PROVE BlockInv(e)'
    <3>1. ASSUME NEW r \in Tasks, dbMutex[e] = r
          PROVE  Unserved(r, e)' = Unserved(r, e)
      <4>1. ASSUME NEW u \in WalksFor(r) PROVE e \in NextBlock(u)' <=> e \in NextBlock(u)
        <5>1. CASE u = t
          <6>1. e \in acquired[t]
            BY <5>1, <3>1, <2>1, <1>p
          <6>2. QED
            BY <5>1, <6>1, <2>m, NextBlockFacts
        <5>2. CASE u # t
          BY <5>2, <2>n DEF WalksFor
        <5>3. QED
          BY <5>1, <5>2
      <4>2. {u \in WalksFor(r)' : e \in NextBlock(u)'} = {u \in WalksFor(r) : e \in NextBlock(u)}
        BY <4>1, <1>w
      <4>3. QED
        BY <4>2, <1>0 DEF Unserved
    <3>2. BlockInv(e) /\ lock'[e] = lock[e] /\ dbMutex'[e] = dbMutex[e]
      BY <2>1, <2>l, <1>0, <1>t DEF QueueInv
    <3>3. QED
      BY <3>1, <3>2, SameBlock
  <2>2. BlockInv(d)'
    <3>1. CASE dbMutex[d] = Free
      <4>1. Sound(Locked(lock[d], m)) /\ Idle(Locked(lock[d], m))
        BY <3>1, <1>1, <1>0, <1>u, <1>b, LockIdle
      <4>2. \A r \in Tasks : dbMutex'[d] # r
        BY <3>1, <1>0, MutexAssumption
      <4>3. QED
        BY <4>1, <4>2, <2>l DEF BlockInv
    <3>2. ASSUME NEW r \in Tasks, dbMutex[d] = r PROVE BlockInv(d)'
      <4>1. t \in Unserved(r, d) /\ Serving(lock[d], Unserved(r, d), d)
        BY <3>2, <1>s
      <4>2. Sound(Locked(lock[d], m)) /\ Serving(Locked(lock[d], m), Unserved(r, d) \ {t}, d)
        BY <4>1, <1>u, ServeNext
      <4>3. Unserved(r, d)' = Unserved(r, d) \ {t}
        <5>1. {u \in WalksFor(r)' : d \in NextBlock(u)'} = {u \in WalksFor(r) : d \in NextBlock(u)} \ {t}
          BY <2>n, <2>m, <1>w DEF WalksFor
        <5>2. t \notin Members(wake[r])
          BY <1>q
        <5>3. QED
          BY <5>1, <5>2, <1>0 DEF Unserved
      <4>4. dbMutex'[d] = r /\ r # Free
        BY <3>2, <1>0, MutexAssumption
      <4>5. QED
        BY <4>2, <4>3, <4>4, <2>l DEF BlockInv
    <3>3. dbMutex[d] = Free \/ dbMutex[d] \in Tasks
      BY <1>t DEF TypeOK
    <3>4. QED
      BY <3>1, <3>2, <3>3
  <2>3. QueueInv'
    BY <2>1, <2>2 DEF QueueInv
  <2>4. WalkInv'
    <3>1. ASSUME NEW r \in Tasks, NEW u \in WalksFor(r)
          PROVE  \E e \in DBs : dbMutex'[e] = r
                   /\ (e \in acquired'[u] \/ (pc'[u] = "acquiring" /\ e \in NextBlock(u)'))
      <4>1. PICK e \in DBs : dbMutex[e] = r /\ (e \in acquired[u] \/ (pc[u] = "acquiring" /\ e \in NextBlock(u)))
        BY <1>t DEF WalkInv
      <4>2. u \in Tasks
        BY DEF WalksFor
      <4>3. CASE u = t
        BY <4>1, <4>3, <1>d, <2>l, <1>0
      <4>4. CASE u # t
        BY <4>1, <4>2, <4>4, <2>l, <2>n, <2>0, <1>0
      <4>5. QED
        BY <4>3, <4>4
    <3>2. QED
      BY <3>1, <1>w DEF WalkInv
  <2>5. FoundInv'
    <3>1. ASSUME NEW u \in Tasks, NEW e \in NextBlock(u)', pc'[u] = "queued"
          PROVE  \/ u \in Members(lock'[e][ListOf(LockMode(u, e))])
                 \/ \E r \in Tasks : dbMutex'[e] = r /\ u \in Members(wake'[r])
      <4>1. u # t /\ pc[u] = "queued" /\ e \in NextBlock(u) /\ e \in DBs
        BY <3>1, <2>0, <2>n, <1>0, NextBlockFacts
      <4>2. lock'[e][ListOf(LockMode(u, e))] = lock[e][ListOf(LockMode(u, e))]
        BY <4>1, <2>q, ListOfType
      <4>3. QED
        BY <4>1, <4>2, <1>0, <1>t DEF FoundInv
    <3>2. QED
      BY <3>1 DEF FoundInv
  <2>6. QED
    BY <2>3, <2>4, <2>5 DEF WaitInv
<1>2. CASE ~Lockable(lock[d], m)
  <2>0. /\ lock' = [lock EXCEPT ![d] = Enqueued(@, m, t)]
        /\ pc' = [pc EXCEPT ![t] = "queued"]
        /\ acquired' = acquired
    BY <1>2 DEF TryLock
  <2>f. dbMutex[d] = Free
    <3>1. ASSUME NEW r \in Tasks, dbMutex[d] = r PROVE FALSE
      BY <3>1, <1>s, <1>u, <1>2, ServeNext
    <3>2. QED
      BY <3>1, <1>t DEF TypeOK
  <2>l. /\ lock'[d] = Enqueued(lock[d], m, t) /\ \A e \in DBs \ {d} : lock'[e] = lock[e]
        /\ pc'[t] = "queued" /\ \A u \in Tasks \ {t} : pc'[u] = pc[u]
    BY <2>0, <1>t DEF TypeOK
  <2>n. \A u : NextBlock(u)' = NextBlock(u)
    BY <2>0 DEF NextBlock
  <2>v. \A r \in Tasks : \A e \in DBs : Unserved(r, e)' = Unserved(r, e)
    BY <2>n, <1>w, <1>0 DEF Unserved
  <2>p. \A p \in Lists : Distinct(lock[d][p]) /\ t \notin Members(lock[d][p])
    BY <1>0 DEF IInv, ListInv
  <2>q. LET l2 == Enqueued(lock[d], m, t)
        IN  \A p \in Lists :
              Members(l2[p]) = IF p = ListOf(m) THEN Members(lock[d][p]) \cup {t}
                                               ELSE Members(lock[d][p])
    BY <1>0, <1>u, <2>p, EnqueueStep
  <2>g. /\ \A e \in DBs : \A p \in Lists : Members(lock[e][p]) \subseteq Members(lock'[e][p])
        /\ t \in Members(lock'[d][ListOf(m)])
    <3>1. \A p \in Lists : Members(lock[d][p]) \subseteq Members(lock'[d][p])
      BY <2>q, <2>l
    <3>2. t \in Members(lock'[d][ListOf(m)])
      BY <2>q, <2>l, ListOfType
    <3>3. QED
      BY <3>1, <3>2, <2>l
  <2>1. ASSUME NEW e \in DBs, e # d PROVE BlockInv(e)'
    <3>1. BlockInv(e) /\ lock'[e] = lock[e] /\ dbMutex'[e] = dbMutex[e]
      BY <2>1, <2>l, <1>0, <1>t DEF QueueInv
    <3>2. QED
      BY <3>1, <2>v, SameBlock
  <2>2. BlockInv(d)'
    <3>1. lock[d].shared = 0 \/ lock[d].exclusive = 0
      BY <1>u, HoldersAgree
    <3>2. Sound(Enqueued(lock[d], m, t)) /\ Idle(Enqueued(lock[d], m, t))
      BY <3>1, <2>f, <1>2, <1>0, <1>u, <1>b, EnqueueIdle
    <3>3. \A r \in Tasks : dbMutex'[d] # r
      BY <2>f, <1>0, MutexAssumption
    <3>4. QED
      BY <3>2, <3>3, <2>l DEF BlockInv
  <2>3. QueueInv'
    BY <2>1, <2>2 DEF QueueInv
  <2>4. WalkInv'
    <3>1. ASSUME NEW r \in Tasks, NEW u \in WalksFor(r)
          PROVE  \E e \in DBs : dbMutex'[e] = r
                   /\ (e \in acquired'[u] \/ (pc'[u] = "acquiring" /\ e \in NextBlock(u)'))
      <4>1. PICK e \in DBs : dbMutex[e] = r /\ (e \in acquired[u] \/ (pc[u] = "acquiring" /\ e \in NextBlock(u)))
        BY <1>t DEF WalkInv
      <4>2. u \in Tasks /\ e # d
        BY <4>1, <2>f, MutexAssumption DEF WalksFor
      <4>3. CASE u = t
        BY <4>1, <4>2, <4>3, <1>d, <2>0, <1>0
      <4>4. CASE u # t
        BY <4>1, <4>2, <4>4, <2>l, <2>n, <2>0, <1>0
      <4>5. QED
        BY <4>3, <4>4
    <3>2. QED
      BY <3>1, <1>w DEF WalkInv
  <2>5. FoundInv'
    <3>1. ASSUME NEW u \in Tasks, NEW e \in NextBlock(u)', pc'[u] = "queued"
          PROVE  \/ u \in Members(lock'[e][ListOf(LockMode(u, e))])
                 \/ \E r \in Tasks : dbMutex'[e] = r /\ u \in Members(wake'[r])
      <4>1. e \in NextBlock(u) /\ e \in DBs
        BY <2>n, NextBlockFacts
      <4>2. CASE u = t
        BY <4>1, <4>2, <1>d, <2>g
      <4>3. CASE u # t
        <5>1. pc[u] = "queued"
          BY <3>1, <4>3, <2>l
        <5>2. \/ u \in Members(lock[e][ListOf(LockMode(u, e))])
              \/ \E r \in Tasks : dbMutex[e] = r /\ u \in Members(wake[r])
          BY <5>1, <4>1, <1>t DEF FoundInv
        <5>3. QED
          BY <5>2, <4>1, <2>g, <1>0, ListOfType
      <4>4. QED
        BY <4>2, <4>3
    <3>2. QED
      BY <3>1 DEF FoundInv
  <2>6. QED
    BY <2>3, <2>4, <2>5 DEF WaitInv
<1>3. QED
  BY <1>1, <1>2

LEMMA UnlockWait ==
  ASSUME IInv, WaitInv, NEW t \in Tasks, NEW x \in left[t], Unlock(t, x)
  PROVE  WaitInv'
<1> DEFINE d == x[1]
           m == UnlockMode(t, x)
           l == Unlocked(lock[d], m)
           q == FirstWaiting(l, m)
           l2 == WithoutOwners(l, q)
           n  == NewOwners(l, q)
<1>0. /\ x \in NextCall(t) /\ dbMutex[d] = Free
      /\ lock' = [lock EXCEPT ![d] = l2]
      /\ wake' = [wake EXCEPT ![t] = n]
      /\ q = NoList => dbMutex' = dbMutex
      /\ q # NoList => dbMutex' = [dbMutex EXCEPT ![d] = t]
      /\ UNCHANGED <<taskMutex, pc, acquired>>
  BY DEF Unlock
<1>i. CallInv(t) /\ TypeOK /\ QueueInv /\ WalkInv /\ FoundInv
  BY DEF IInv, HoldInv, WaitInv
<1>d. d \in DBs /\ \A y \in NextCall(t) : y = x
  BY <1>0, <1>i, NextCallFacts
<1>f. \A u \in Tasks : u # Free
  BY MutexAssumption
<1>u. /\ \A e \in DBs : \A p \in Lists : Members(lock[e][p]) \subseteq Tasks
      /\ lock[d] \in DbData /\ holders[d] \in SUBSET Tasks
      /\ Counts(lock[d], holders[d], d) /\ Excludes(holders[d], d)
  BY <1>d, MembersTasks
<1>h. t \in holders[d]
  BY <1>0, <1>i, <1>f DEF CallInv
<1>m. m = LockMode(t, d) /\ m \in Modes
  BY <1>i, <1>d, CallMode, LockModeDef
<1>1. Released(l, m) /\ l \in DbData /\ \A p \in Lists : l[p] = lock[d][p]
  <2>1. Sound(lock[d])
    BY <1>i, <1>d DEF QueueInv, BlockInv
  <2>2. l = Unlocked(lock[d], LockMode(t, d))
    BY <1>m
  <2> HIDE DEF d, l, m
  <2>3. QED
    BY <2>1, <2>2, <1>m, <1>u, <1>h, <1>d, UnlockReleases, UnlockStep
<1>2. \A p \in Lists : \A u \in Members(l[p]) : u \in Tasks /\ ListOf(LockMode(u, d)) = p
  BY <1>1, <1>u, <1>d DEF IInv, ListInv
<1>3. /\ Sound(l2)
      /\ q = NoList => Idle(l2)
      /\ q # NoList => Serving(l2, Members(n), d)
  <2> HIDE DEF l, m, d
  <2>1. QED
    BY <1>1, <1>2, <1>d, <1>m, UnlockServes
<1>4. \A p \in Lists : \A u \in Members(l[p]) : u \in Members(l2[p]) \/ (q # NoList /\ u \in Members(n))
  <2>1. CASE q = NoList
    BY <2>1 DEF WithoutOwners
  <2>2. CASE q # NoList
    <3>1. q \in Lists /\ l[q] # <<>>
      BY <2>2, <1>m, FirstWaitingFacts
    <3> HIDE DEF l, q
    <3>2. /\ \A p \in Lists \ {q} : l2[p] = l[p]
          /\ Members(l[q]) \subseteq Members(l2[q]) \cup Members(n)
      BY <3>1, <1>1, OwnersServed
    <3>3. QED
      BY <3>2, <2>2
  <2>3. QED
    BY <2>1, <2>2
<1>e. q = NoList => Members(n) = {}
  BY EmptyFacts DEF NewOwners
<1> HIDE DEF l2, n, d, l, q, m
(* Before, t unlocked nothing and served nobody.                           *)
<1>5. \A e \in DBs : dbMutex[e] # t
  <2> SUFFICES ASSUME NEW e \in DBs, dbMutex[e] = t PROVE FALSE
    OBVIOUS
  <2>1. PICK y \in NextCall(t) : y[1] = e
    BY <1>i DEF CallInv
  <2>2. e = d
    BY <2>1, <1>d DEF d
  <2>3. QED
    BY <2>2, <1>0, <1>f
<1>6. Members(wake[t]) = {} /\ WalksFor(t) = {}
  BY <1>5, <1>i, NoMutex
<1>l. /\ lock'[d] = l2 /\ \A e \in DBs \ {d} : lock'[e] = lock[e]
      /\ wake'[t] = n /\ \A u \in Tasks \ {t} : wake'[u] = wake[u]
      /\ dbMutex'[d] = (IF q = NoList THEN Free ELSE t)
      /\ \A e \in DBs \ {d} : dbMutex'[e] = dbMutex[e]
  BY <1>0, <1>d, <1>i DEF TypeOK
<1>n. \A u : NextBlock(u)' = NextBlock(u)
  BY <1>0 DEF NextBlock
<1>w. \A r : WalksFor(r)' = WalksFor(r)
  BY <1>0 DEF WalksFor
<1>7. ASSUME NEW e \in DBs PROVE BlockInv(e)'
  <2>1. CASE e = d
    <3>1. CASE q = NoList
      <4>1. Sound(lock'[e]) /\ Idle(lock'[e]) /\ dbMutex'[e] = Free
        BY <2>1, <3>1, <1>3, <1>l
      <4>2. QED
        BY <4>1, <1>f DEF BlockInv
    <3>2. CASE q # NoList
      <4>1. Unserved(t, d)' = Members(n)
        BY <1>6, <1>l, <1>w DEF Unserved
      <4>2. Sound(lock'[e]) /\ Serving(lock'[e], Unserved(t, e)', e) /\ dbMutex'[e] = t
        BY <2>1, <3>2, <4>1, <1>3, <1>l
      <4>3. QED
        BY <4>2, <1>f DEF BlockInv
    <3>3. QED
      BY <3>1, <3>2
  <2>2. CASE e # d
    <3>1. ASSUME NEW r \in Tasks, dbMutex[e] = r
          PROVE  Unserved(r, e)' = Unserved(r, e)
      BY <3>1, <1>5, <1>l, <1>n, <1>w DEF Unserved
    <3>2. BlockInv(e) /\ lock'[e] = lock[e] /\ dbMutex'[e] = dbMutex[e]
      BY <2>2, <1>l, <1>i DEF QueueInv
    <3>3. QED
      BY <3>1, <3>2, SameBlock
  <2>3. QED
    BY <2>1, <2>2
<1>8. WalkInv'
  <2>1. ASSUME NEW r \in Tasks, NEW u \in WalksFor(r)
        PROVE  \E e \in DBs : dbMutex'[e] = r
                 /\ (e \in acquired'[u] \/ (pc'[u] = "acquiring" /\ e \in NextBlock(u)'))
    <3>1. PICK e \in DBs : dbMutex[e] = r /\ (e \in acquired[u] \/ (pc[u] = "acquiring" /\ e \in NextBlock(u)))
      BY <1>i DEF WalkInv
    <3>2. e # d
      BY <3>1, <1>0, <1>f DEF d
    <3>3. QED
      BY <3>1, <3>2, <1>l, <1>n, <1>0
  <2>2. QED
    BY <2>1, <1>w DEF WalkInv
<1>9. FoundInv'
  <2>1. ASSUME NEW u \in Tasks, NEW e \in NextBlock(u), pc[u] = "queued"
        PROVE  \/ u \in Members(lock'[e][ListOf(LockMode(u, e))])
               \/ \E r \in Tasks : dbMutex'[e] = r /\ u \in Members(wake'[r])
    <3>0. e \in DBs
      BY NextBlockFacts
    <3>1. \/ u \in Members(lock[e][ListOf(LockMode(u, e))])
          \/ \E r \in Tasks : dbMutex[e] = r /\ u \in Members(wake[r])
      BY <2>1, <1>i DEF FoundInv
    <3>2. CASE \E r \in Tasks : dbMutex[e] = r /\ u \in Members(wake[r])
      <4>1. PICK r \in Tasks : dbMutex[e] = r /\ u \in Members(wake[r])
        BY <3>2
      <4>2. r # t /\ e # d
        BY <4>1, <3>0, <1>5, <1>0, <1>f DEF d
      <4>3. QED
        BY <4>1, <4>2, <3>0, <1>l
    <3>3. CASE u \in Members(lock[e][ListOf(LockMode(u, e))])
      <4>1. CASE e = d
        <5>1. u \in Members(l[ListOf(LockMode(u, d))])
          BY <4>1, <3>3, <1>1, ListOfType
        <5>2. u \in Members(l2[ListOf(LockMode(u, d))]) \/ (q # NoList /\ u \in Members(n))
          BY <5>1, <1>4, ListOfType
        <5>3. QED
          BY <5>2, <4>1, <1>l
      <4>2. CASE e # d
        BY <4>2, <3>0, <3>3, <1>l
      <4>3. QED
        BY <4>1, <4>2
    <3>4. QED
      BY <3>1, <3>2, <3>3
  <2>2. QED
    BY <2>1, <1>n, <1>0 DEF FoundInv
<1>10. QED
  BY <1>7, <1>8, <1>9 DEF WaitInv, QueueInv

LEMMA WakeStepWait ==
  ASSUME IInv, WaitInv, NEW t \in Tasks, NEW d \in DBs, Wake(t, d)
  PROVE  WaitInv'
<1> DEFINE u == Head(wake[t])
<1>0. /\ dbMutex[d] = t /\ wake[t] # <<>> /\ WalksFor(t) = {}
      /\ taskMutex[u] = Free
      /\ taskMutex' = [taskMutex EXCEPT ![u] = t]
      /\ pc' = [pc EXCEPT ![u] = "acquiring"]
      /\ wake' = [wake EXCEPT ![t] = Tail(@)]
      /\ UNCHANGED <<lock, dbMutex, acquired>>
  BY DEF Wake
<1>t. TypeOK /\ QueueInv /\ WalkInv /\ FoundInv
  BY DEF IInv, WaitInv
<1>1. wake[t] \in Seq(Tasks) /\ Distinct(wake[t])
  BY DEF IInv, TypeOK, WakeInv
<1>2. /\ u \in Tasks /\ u \in Members(wake[t])
      /\ Members(wake[t]) = {u} \cup Members(Tail(wake[t]))
  BY <1>0, <1>1, TailFacts, HeadTail
<1> HIDE DEF u
<1>3. pc[u] = "queued" /\ d \in NextBlock(u)
  <2>1. PICK e \in DBs : pc[u] = "queued" /\ dbMutex[e] = t /\ e \in NextBlock(u)
    BY <1>2 DEF IInv, WakeInv
  <2>2. QED
    BY <2>1, <1>0, OneMutex
<1>l. /\ pc'[u] = "acquiring" /\ \A v \in Tasks \ {u} : pc'[v] = pc[v]
      /\ wake'[t] = Tail(wake[t]) /\ \A r \in Tasks \ {t} : wake'[r] = wake[r]
      /\ taskMutex'[u] = t /\ \A v \in Tasks \ {u} : taskMutex'[v] = taskMutex[v]
  BY <1>0, <1>2, <1>t DEF TypeOK
<1>n. \A v : NextBlock(v)' = NextBlock(v)
  BY <1>0 DEF NextBlock
<1>w. WalksFor(t)' = {u} /\ \A r \in Tasks \ {t} : WalksFor(r)' = WalksFor(r)
  BY <1>0, <1>2, <1>l, MutexAssumption DEF WalksFor
<1>4. ASSUME NEW e \in DBs PROVE BlockInv(e)'
  <2>1. ASSUME NEW r \in Tasks, dbMutex[e] = r
        PROVE  Unserved(r, e)' = Unserved(r, e)
    <3>1. CASE r = t
      <4>1. e = d
        BY <2>1, <3>1, <1>0, OneMutex
      <4>2. Unserved(t, d)' = {u} \cup Members(Tail(wake[t]))
        BY <1>3, <1>l, <1>n, <1>w DEF Unserved
      <4>3. Unserved(t, d) = Members(wake[t])
        BY <1>0 DEF Unserved
      <4>4. QED
        BY <3>1, <4>1, <4>2, <4>3, <1>2
    <3>2. CASE r # t
      BY <3>2, <1>l, <1>n, <1>w DEF Unserved
    <3>3. QED
      BY <3>1, <3>2
  <2>2. QED
    BY <2>1, <1>0, <1>t, SameBlock DEF QueueInv
<1>5. WalkInv'
  <2>1. ASSUME NEW r \in Tasks, NEW v \in WalksFor(r)'
        PROVE  \E e \in DBs : dbMutex'[e] = r
                 /\ (e \in acquired'[v] \/ (pc'[v] = "acquiring" /\ e \in NextBlock(v)'))
    <3>1. CASE r = t
      BY <3>1, <1>w, <1>0, <1>3, <1>l, <1>n
    <3>2. CASE r # t
      <4>1. v \in WalksFor(r) /\ v \in Tasks /\ v # u
        BY <3>2, <1>w, <1>0, MutexAssumption DEF WalksFor
      <4>2. PICK e \in DBs : dbMutex[e] = r /\ (e \in acquired[v] \/ (pc[v] = "acquiring" /\ e \in NextBlock(v)))
        BY <4>1, <1>t DEF WalkInv
      <4>3. QED
        BY <4>1, <4>2, <1>l, <1>n, <1>0
    <3>3. QED
      BY <3>1, <3>2
  <2>2. QED
    BY <2>1 DEF WalkInv
<1>6. FoundInv'
  <2>1. ASSUME NEW v \in Tasks, NEW e \in NextBlock(v), pc'[v] = "queued"
        PROVE  \/ v \in Members(lock[e][ListOf(LockMode(v, e))])
               \/ \E r \in Tasks : dbMutex[e] = r /\ v \in Members(wake'[r])
    <3>1. v # u /\ pc[v] = "queued"
      BY <2>1, <1>l
    <3>2. ASSUME NEW r \in Tasks, v \in Members(wake[r]) PROVE v \in Members(wake'[r])
      BY <3>1, <3>2, <1>2, <1>l
    <3>3. QED
      BY <3>1, <3>2, <1>t DEF FoundInv
  <2>2. QED
    BY <2>1, <1>n, <1>0 DEF FoundInv
<1>7. QED
  BY <1>4, <1>5, <1>6 DEF WaitInv, QueueInv

LEMMA LeaveUnlockWait ==
  ASSUME IInv, WaitInv, NEW t \in Tasks, NEW d \in DBs, LeaveUnlock(t, d)
  PROVE  WaitInv'
<1>0. /\ dbMutex[d] = t /\ wake[t] = <<>> /\ WalksFor(t) = {}
      /\ dbMutex' = [dbMutex EXCEPT ![d] = Free]
      /\ UNCHANGED <<lock, taskMutex, pc, acquired, wake>>
  BY DEF LeaveUnlock
<1>t. TypeOK /\ QueueInv /\ WalkInv /\ FoundInv
  BY DEF IInv, WaitInv
<1>f. \A u \in Tasks : u # Free
  BY MutexAssumption
<1>l. dbMutex'[d] = Free /\ \A e \in DBs \ {d} : dbMutex'[e] = dbMutex[e]
  BY <1>0, <1>t DEF TypeOK
<1>n. \A v : NextBlock(v)' = NextBlock(v)
  BY <1>0 DEF NextBlock
<1>w. \A r : WalksFor(r)' = WalksFor(r)
  BY <1>0 DEF WalksFor
<1>1. ASSUME NEW e \in DBs PROVE BlockInv(e)'
  <2>1. CASE e = d
    <3>1. Unserved(t, d) = {}
      BY <1>0, EmptyFacts DEF Unserved
    <3>2. Sound(lock[d]) /\ Serving(lock[d], {}, d)
      BY <3>1, <1>0, <1>t DEF QueueInv, BlockInv
    <3>3. lock[d] \in DbData /\ (lock[d].write => lock[d].exclusive # 0)
      BY MembersTasks, HoldersAgree
    <3>4. Idle(lock[d])
      BY <3>2, <3>3, ServedIdle
    <3>5. QED
      BY <2>1, <3>2, <3>4, <1>0, <1>l, <1>f DEF BlockInv
  <2>2. CASE e # d
    <3>1. ASSUME NEW r \in Tasks PROVE Unserved(r, e)' = Unserved(r, e)
      BY <1>0, <1>n, <1>w DEF Unserved
    <3>2. QED
      BY <2>2, <3>1, <1>0, <1>l, <1>t, SameBlock DEF QueueInv
  <2>3. QED
    BY <2>1, <2>2
<1>2. WalkInv'
  <2>1. ASSUME NEW r \in Tasks, NEW v \in WalksFor(r)
        PROVE  \E e \in DBs : dbMutex'[e] = r
                 /\ (e \in acquired[v] \/ (pc[v] = "acquiring" /\ e \in NextBlock(v)))
    <3>1. PICK e \in DBs : dbMutex[e] = r /\ (e \in acquired[v] \/ (pc[v] = "acquiring" /\ e \in NextBlock(v)))
      BY <1>t DEF WalkInv
    <3>2. e # d
      BY <3>1, <1>0
    <3>3. QED
      BY <3>1, <3>2, <1>l
  <2>2. QED
    BY <2>1, <1>0, <1>n, <1>w DEF WalkInv
<1>3. FoundInv'
  <2>1. ASSUME NEW v \in Tasks, NEW e \in NextBlock(v), pc[v] = "queued"
        PROVE  \/ v \in Members(lock[e][ListOf(LockMode(v, e))])
               \/ \E r \in Tasks : dbMutex'[e] = r /\ v \in Members(wake[r])
    <3>0. e \in DBs
      BY NextBlockFacts
    <3>1. ASSUME NEW r \in Tasks, dbMutex[e] = r, v \in Members(wake[r]) PROVE dbMutex'[e] = r
      <4>1. r # t
        BY <3>1, <1>0, EmptyFacts
      <4>2. e # d
        BY <3>1, <4>1, <1>0
      <4>3. QED
        BY <3>0, <3>1, <4>2, <1>l
    <3>2. QED
      BY <2>1, <3>1, <1>t DEF FoundInv
  <2>2. QED
    BY <2>1, <1>n, <1>0 DEF FoundInv
<1>4. QED
  BY <1>1, <1>2, <1>3 DEF WaitInv, QueueInv

LEMMA InitWait == Init => WaitInv
<1> SUFFICES ASSUME Init PROVE WaitInv
  OBVIOUS
<1>1. QueueInv
  <2> SUFFICES ASSUME NEW d \in DBs PROVE BlockInv(d)
    BY DEF QueueInv
  <2>1. /\ lock[d].sharedQ = <<>> /\ lock[d].readQ = <<>> /\ lock[d].writeQ = <<>>
        /\ dbMutex[d] = Free
    BY DEF Init, Unlockable
  <2>2. QED
    BY <2>1, MutexAssumption DEF BlockInv, Sound, Idle
<1>2. WalkInv
  BY MutexAssumption DEF Init, WalkInv, WalksFor
<1>3. FoundInv
  BY DEF Init, FoundInv
<1>4. QED
  BY <1>1, <1>2, <1>3 DEF WaitInv

LEMMA StepWait ==
  ASSUME IInv, WaitInv, [Next]_vars
  PROVE  WaitInv'
<1>1. CASE UNCHANGED vars
  <2>1. UNCHANGED <<lock, dbMutex, taskMutex, pc, acquired, wake>>
    BY <1>1 DEF vars
  <2>2. \A r \in Tasks : WalksFor(r)' = WalksFor(r)
    BY <2>1 DEF WalksFor
  <2>3. QED
    BY <2>1, <2>2, QuietStep
<1>2. CASE Terminated
  BY <1>1, <1>2 DEF Terminated
<1>3. ASSUME NEW t \in Tasks, Satisfy(t) \/ Walk(t) \/ Run(t) \/ \E d \in DBs : Release(t, d)
      PROVE  WaitInv'
  <2>1. CASE Satisfy(t) \/ Spawn(t) \/ LeaveMutex(t) \/ Start(t) \/ End(t) \/ Finish(t)
               \/ \E d \in DBs : Release(t, d)
    BY <2>1, QuietActions
  <2>2. CASE \E d \in DBs : TryLock(t, d)
    BY <2>2, TryLockWait
  <2>3. CASE \E x \in left[t] : Unlock(t, x)
    BY <2>3, UnlockWait
  <2>4. CASE \E d \in DBs : Wake(t, d) \/ LeaveUnlock(t, d)
    BY <2>4, WakeStepWait, LeaveUnlockWait
  <2>5. QED
    BY <1>3, <2>1, <2>2, <2>3, <2>4 DEF Walk, Run
<1>4. QED
  BY <1>1, <1>2, <1>3 DEF Next

LEMMA WaitServed ==
  ASSUME IInv, WaitInv
  PROVE  WaitersServed
<1>t. TypeOK /\ QueueInv /\ FoundInv
  BY DEF IInv, WaitInv
<1>1. ASSUME NEW d \in DBs
      PROVE  /\ lock[d].shared > 0 => lock[d].sharedQ = <<>>
             /\ lock[d].exclusive > 0 /\ ~lock[d].write => lock[d].readQ = <<>>
  BY <1>t DEF QueueInv, BlockInv, Sound
<1>2. ASSUME NEW d \in DBs PROVE InLists(d) \subseteq Waiting(d)
  <2>1. ASSUME NEW u \in InLists(d) PROVE u \in Waiting(d)
    <3>1. PICK q \in Lists : u \in Members(lock[d][q])
      BY DEF InLists, Lists, Members
    <3>2. u \in Tasks
      BY <3>1, MembersTasks
    <3>3. QED
      BY <3>1, <3>2 DEF IInv, ListInv, Waiting
  <2>2. QED
    BY <2>1
<1>3. ASSUME NEW t \in Tasks, NEW d \in DBs, dbMutex[d] = t, NEW i \in DOMAIN wake[t]
      PROVE  wake[t][i] \in Waiting(d)
  <2>1. wake[t][i] \in Members(wake[t])
    BY DEF Members
  <2>2. PICK e \in DBs : pc[wake[t][i]] = "queued" /\ dbMutex[e] = t /\ e \in NextBlock(wake[t][i])
    BY <2>1 DEF IInv, WakeInv
  <2>3. e = d
    BY <2>2, <1>3, OneMutex
  <2>4. wake[t][i] \in Tasks
    BY <2>1, MembersTasks
  <2>5. QED
    BY <2>2, <2>3, <2>4 DEF Waiting
<1>4. NoStrandedWaiter
  <2> SUFFICES ASSUME NEW d \in DBs, dbMutex[d] = Free, NEW t \in Waiting(d)
               PROVE  \E u \in holders[d] : ~MayShare(LockMode(t, d), LockMode(u, d))
    BY DEF NoStrandedWaiter
  <2> DEFINE l == lock[d]
             h == holders[d]
  <2>0. t \in Tasks /\ pc[t] = "queued" /\ d \in NextBlock(t)
    BY DEF Waiting
  <2>1. t \in Members(l[ListOf(LockMode(t, d))])
    BY <2>0, <1>t, MutexAssumption DEF FoundInv
  <2>2. l[ListOf(LockMode(t, d))] # <<>>
    BY <2>1, EmptyFacts
  <2>3. Idle(l)
    BY <1>t DEF QueueInv, BlockInv
  <2>4. l \in DbData /\ h \in SUBSET Tasks /\ Counts(l, h, d) /\ Excludes(h, d)
    BY MembersTasks
  <2> HIDE DEF l, h
  <2>5. /\ l.shared > 0 => \E u \in h : Shared(LockMode(u, d))
        /\ l.exclusive > 0 => \E u \in h : ~Shared(LockMode(u, d))
        /\ l.write => \E u \in h : LockMode(u, d) = "EW"
    <3>1. l.shared > 0 => l.shared # 0
      BY <2>4, DbDataFacts
    <3>2. l.exclusive > 0 => l.exclusive # 0
      BY <2>4, DbDataFacts
    <3>3. QED
      BY <3>1, <3>2, <2>4, ZeroCount DEF Counts
  <2>6. CASE Shared(LockMode(t, d))
    <3>1. l.exclusive > 0
      BY <2>2, <2>3, <2>6 DEF Idle, ListOf
    <3>2. QED
      BY <3>1, <2>5, <2>6 DEF MayShare, Shared, h
  <2>7. CASE LockMode(t, d) = "CONST"
    <3>1. l.shared > 0 \/ l.write
      BY <2>2, <2>3, <2>7 DEF Idle, ListOf, Shared
    <3>2. QED
      BY <3>1, <2>5, <2>7 DEF MayShare, Shared, h
  <2>8. CASE LockMode(t, d) = "EW"
    <3>1. l.shared > 0 \/ l.exclusive > 0
      BY <2>2, <2>3, <2>8 DEF Idle, ListOf, Shared
    <3>2. QED
      BY <3>1, <2>5, <2>8 DEF MayShare, Shared, h
  <2>9. QED
    BY <2>0, <2>6, <2>7, <2>8, LockModeDef DEF Modes, Shared
<1>5. AssertionsHold
  BY <1>1, <1>2, <1>3 DEF AssertionsHold
<1>6. QED
  BY <1>4, <1>5 DEF WaitersServed

-----------------------------------------------------------------------------
(***************************************************************************)
(* The theorems.                                                           *)
(***************************************************************************)
(* Every variable keeps to its domain: in particular no counter of a lock  *)
(* wraps, and no walk passes a block of another task.                      *)
THEOREM TypeCorrect == ReleasedOnce => (Spec => []TypeOK)
<1>1. IInv => TypeOK
  BY DEF IInv
<1>2. QED
  BY <1>1, Invariance, PTL

(* Tasks that hold a block together have modes that allow it, however many *)
(* there are and however their lists and walks interleave.                 *)
THEOREM LocksExcluded == ReleasedOnce => (Spec => []LocksExclude)
<1>1. IInv => LocksExclude
  BY DEF IInv, CountInv, Excludes, LocksExclude
<1>2. QED
  BY <1>1, Invariance, PTL

(* A task never runs on a block it does not hold.                          *)
THEOREM RunningHolds == ReleasedOnce => (Spec => []RunningTaskHoldsItsBlocks)
<1>1. IInv => RunningTaskHoldsItsBlocks
  BY DEF IInv, HoldInv, RunningInv, RunningTaskHoldsItsBlocks
<1>2. QED
  BY <1>1, Invariance, PTL

(* No wake-up is lost: whoever releases a block finds the waiters where    *)
(* unlock looks for them, and nobody waits for a block that no holder      *)
(* denies it, whatever walks and unlocks interleave.                       *)
THEOREM NobodyStranded == ReleasedOnce => (Spec => []WaitersServed)
<1>1. Init => WaitInv
  BY InitWait
<1>2. IInv /\ WaitInv /\ [Next]_vars => WaitInv'
  BY StepWait
<1>3. IInv /\ WaitInv => WaitersServed
  BY WaitServed
<1>4. QED
  BY <1>1, <1>2, <1>3, Invariance, PTL DEF Spec
=============================================================================
