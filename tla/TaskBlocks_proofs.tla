-------------------------- MODULE TaskBlocks_proofs --------------------------
(***************************************************************************)
(* Proofs about TaskBlocks: what a task takes for a block is as strong as  *)
(* its slots on the block together; no assertion of the code fails, the    *)
(* locks are counted as long as they are held, the modes are respected,    *)
(* and a release waits for the copies of what was written.                 *)
(***************************************************************************)
EXTENDS TaskBlocks, FiniteSetTheorems, TLAPS

-----------------------------------------------------------------------------
(***************************************************************************)
(* The inductive invariant.  Types:                                        *)
(***************************************************************************)
States  == {"created", "locking", "spawned", "aside", "running", "done", "releasing", "ended"}
Groups  == [values : Nat, ends : {"none", "release", "destroy"}]
Entries == [task : Tasks, mode : Modes]
TaskType ==
  [state : States, ordered : Seq(Blocks \cup {Null}), modes : Seq(Modes), acquired : Int,
   trying : BOOLEAN, reading : BOOLEAN, rest : SUBSET Nat, blank : SUBSET Blocks, torn : SUBSET Blocks,
   todo : Seq(Calls), gate : {"none", "shut", "open"}, cut : BOOLEAN, grouped : BOOLEAN,
   groups : [Blocks -> Groups]]
BlockType ==
  [read : Int, write : Int, excl : Int, exwrite : BOOLEAN, waitlist : Seq(Entries),
   valid : {"invalid", "copy", "master"}, asked : SUBSET {"copy", "master"}, listed : BOOLEAN,
   copy : {"none", "sent", "held", "recalled"}, wanted : BOOLEAN,
   waiters : SUBSET Tasks, gates : SUBSET Tasks, told : SUBSET Tasks]
TypeOK ==
  /\ task \in [Tasks -> TaskType] /\ block \in [Blocks -> BlockType]
  /\ unseen \in [Blocks -> SUBSET Tasks]

(***************************************************************************)
(* A task o: the blocks it has asked for, and how far it is.               *)
(***************************************************************************)
Asking       == {"locking", "spawned", "aside"}
WaitsOf(o, b) == o.state = "locking" /\ ~o.trying /\ ~o.reading /\ Awaits(o, b)
Left(o, b)    == \E i \in o.rest : o.ordered[i] = b

OrderOK(t, o) ==
  IF o.state = "created" THEN o.ordered = <<>> /\ o.modes = <<>>
  ELSE LET bs == OrderedGuids(t) IN
       /\ DOMAIN o.ordered = DOMAIN bs /\ DOMAIN o.modes = DOMAIN bs
       /\ \A i \in DOMAIN bs : o.modes[i] = LockMode(t, bs[i]) /\ o.ordered[i] \in {bs[i], Null}
       /\ o.state \in Asking => Kept(o) = DOMAIN bs
ProgressOK(o) ==
  /\ o.state = "created" => o.acquired = 0
  /\ o.state = "locking" => /\ o.acquired \in 0..Len(o.ordered) /\ ~(o.trying /\ o.reading)
                            /\ ~o.trying => o.acquired < Len(o.ordered)
  /\ o.state # "locking" => ~o.trying /\ ~o.reading
  /\ o.state \in {"spawned", "aside"} => o.acquired = Len(o.ordered)
  /\ o.state = "running" => o.acquired = Cardinality(Kept(o)) + 1
  /\ o.state = "done" => o.acquired > 0
  /\ o.state \in {"releasing", "ended"} => o.acquired = 0
  /\ o.state \in {"done", "releasing"} => o.rest \subseteq Kept(o)
  /\ o.state \notin {"done", "releasing"} => o.rest = {}

(***************************************************************************)
(* The calls it has still to make.                                         *)
(***************************************************************************)
NotEnding(s) == \A i \in DOMAIN s : s[i].op # "ending"
Grouping(s, g, gs) ==
  /\ Bracketed(s, g) /\ DroppedLast(s, g)
  /\ \A b \in Blocks : \A j \in DOMAIN s : gs[b].ends # "none" /\ Gives(s[j], b) =>
       g /\ \A k \in 1..(j - 1) : s[k].op # "end"
  /\ \A i \in DOMAIN s : s[i].op = "ending" =>
       /\ ~g /\ NoneIn(s, 1, i - 1) /\ \A j \in DOMAIN s : s[j].op = "ending" => j = i
       /\ \A j \in 1..(i - 1) : \A b \in Blocks : s[j].db = b => gs[b] = NoGroup
  /\ ~g /\ NotEnding(s) => \A b \in Blocks : gs[b] = NoGroup
CallsOK(o) ==
  LET s == o.todo IN
  /\ o.state # "running" => s = <<>> /\ o.gate = "none" /\ ~o.grouped
  /\ Grouping(s, o.grouped, o.groups)
  /\ \A i \in DOMAIN s : s[i].op \in {"value", "release", "destroy"} => s[i].db \in Blocks
  /\ \A i \in DOMAIN s : s[i].op = "value" => Owns(o, s[i].db)
  /\ \A b \in Blocks : o.groups[b].values > 0 => Owns(o, b)
  /\ o.gate # "none" => s # <<>> /\ Head(s).op = "release" /\ ~o.grouped /\ Owns(o, Head(s).db)

TaskOK(t, o) == OrderOK(t, o) /\ ProgressOK(o) /\ CallsOK(o)

(***************************************************************************)
(* A block k: its locks, and the tasks that wait for one.                  *)
(***************************************************************************)
Queue(k)      == {k.waitlist[i].task : i \in DOMAIN k.waitlist}
QueueOK(k, b) ==
  /\ \A i \in DOMAIN k.waitlist : k.waitlist[i].mode = LockMode(k.waitlist[i].task, b)
  /\ \A i, j \in DOMAIN k.waitlist : k.waitlist[i].task = k.waitlist[j].task => i = j
In(h, b, S)   == {u \in h : LockMode(u, b) \in S}
Counts(k, h, b) ==
  /\ k.read  = Cardinality(In(h, b, {"RO"}))
  /\ k.write = Cardinality(In(h, b, {"RW"}))
  /\ k.excl  = Cardinality(In(h, b, {"CONST", "EW"}))
  /\ k.exwrite <=> In(h, b, {"EW"}) # {}
Compatible(k) == (k.excl > 0 => k.read = 0 /\ k.write = 0) /\ (k.exwrite => k.excl = 1)
LocksOK(k, h, b) == QueueOK(k, b) /\ Counts(k, h, b) /\ Compatible(k)

HoldersOf(tasks, b) == {t \in Tasks : HoldsOf(tasks[t], b)}
WaitersOf(tasks, b) == {t \in Tasks : WaitsOf(tasks[t], b)}
BlockOK(k, tasks, b) ==
  /\ LocksOK(k, HoldersOf(tasks, b), b)
  /\ Queue(k) = WaitersOf(tasks, b)
  /\ ~k.listed => k.copy = "none"

(***************************************************************************)
(* Tasks and blocks: what a task that is done waits for, the handles that  *)
(* are read late, and the copies a release waits for.                      *)
(***************************************************************************)
Unconfirmed(blocks, t) == {b \in Blocks : t \in blocks[b].waiters \cup blocks[b].told}
PendingOK(blocks, t, o) ==
  /\ o.state = "done" => o.acquired = Cardinality(o.rest) + Cardinality(Unconfirmed(blocks, t))
  /\ \A b \in Unconfirmed(blocks, t) :
       /\ o.state = "done" /\ Owns(o, b) /\ ~Left(o, b)
       /\ ~(t \in blocks[b].waiters /\ t \in blocks[b].told)
ReadOK(blocks, o) ==
  /\ o.blank \subseteq o.torn
  /\ \A b \in Blocks : o.reading /\ Awaits(o, b) /\ blocks[b].valid = "invalid" => b \in o.torn
Shut(o, b) == o.state = "running" /\ o.gate = "shut" /\ Head(o.todo).db = b
UnseenOK(k, t, o, b) ==
  o.cut \/ /\ k.copy # "none" /\ Owns(o, b) /\ Writes(LockMode(t, b))
           /\ Shut(o, b) \/ (o.state = "done" /\ (t \in k.waiters \/ Left(o, b)))
GatesOK(k, t, o, b) == t \in k.gates => o.cut \/ Shut(o, b)
CopyOK(k, u, tasks, b) ==
  /\ \A t \in u : UnseenOK(k, t, tasks[t], b)
  /\ \A t \in Tasks : GatesOK(k, t, tasks[t], b)

IInv ==
  /\ TypeOK
  /\ \A t \in Tasks : TaskOK(t, task[t]) /\ PendingOK(block, t, task[t]) /\ ReadOK(block, task[t])
  /\ \A b \in Blocks : BlockOK(block[b], task, b) /\ CopyOK(block[b], unseen[b], task, b)
  /\ faults = {}

-----------------------------------------------------------------------------
(***************************************************************************)
(* Modes.                                                                  *)
(***************************************************************************)
LEMMA Ranks ==
  /\ Rank("NULL") = 1 /\ Rank("RO") = 2 /\ Rank("RW") = 3 /\ Rank("CONST") = 4 /\ Rank("EW") = 5
<1>1. /\ DOMAIN ModeOrder = 1..5
      /\ ModeOrder[1] = "NULL" /\ ModeOrder[2] = "RO" /\ ModeOrder[3] = "RW"
      /\ ModeOrder[4] = "CONST" /\ ModeOrder[5] = "EW"
  BY DEF ModeOrder
<1>2. \A m : \A i \in 1..5 :
        ModeOrder[i] = m /\ (\A j \in 1..5 : ModeOrder[j] = m => j = i) => Rank(m) = i
  BY <1>1 DEF Rank
<1>3. \A i, j \in 1..5 : ModeOrder[i] = ModeOrder[j] => i = j
  BY <1>1
<1>4. QED
  BY <1>1, <1>2, <1>3

(* The lock a task takes for all its slots on a block is as strong as each *)
(* of them, and excludes writers if it reads what must not change.         *)
LEMMA CombinedFacts ==
  ASSUME NEW M \in SUBSET Modes
  PROVE  Combined(M) = IF "EW" \in M \/ ("RW" \in M /\ "CONST" \in M) THEN "EW"
                       ELSE IF "CONST" \in M THEN "CONST"
                       ELSE IF "RW" \in M THEN "RW"
                       ELSE IF "RO" \in M THEN "RO" ELSE "NULL"
<1> DEFINE Top(m) == \A n \in M : Rank(n) <= Rank(m)
           top    == CHOOSE m \in M : Top(m)
<1>1. CASE "RW" \in M /\ "CONST" \in M
  BY <1>1 DEF Combined
<1>2. CASE M = {}
  BY <1>2 DEF Combined
<1>3. CASE M # {} /\ ~("RW" \in M /\ "CONST" \in M)
  <2>1. Combined(M) = top
    BY <1>3 DEF Combined
  <2>2. \A m \in M : Top(m) /\ (\A n \in M : Top(n) => n = m) => top = m
    OBVIOUS
  <2>3. \A m, n \in Modes : Rank(m) \in Int /\ (Rank(m) = Rank(n) => m = n)
    BY Ranks DEF Modes
  <2>4. \A m \in M : Top(m) => top = m
    <3> TAKE m \in M
    <3> HAVE Top(m)
    <3>1. \A n \in M : Top(n) => n = m
      BY <2>3
    <3>2. QED
      BY <3>1, <2>2
  <2> HIDE DEF top
  <2>5. CASE "EW" \in M
    BY <2>5, <2>1, <2>4, Ranks DEF Modes
  <2>6. CASE "EW" \notin M /\ "CONST" \in M
    BY <2>6, <1>3, <2>1, <2>4, Ranks DEF Modes
  <2>7. CASE "EW" \notin M /\ "CONST" \notin M /\ "RW" \in M
    BY <2>7, <2>1, <2>4, Ranks DEF Modes
  <2>8. CASE "EW" \notin M /\ "CONST" \notin M /\ "RW" \notin M /\ "RO" \in M
    BY <2>8, <2>1, <2>4, Ranks DEF Modes
  <2>9. CASE "EW" \notin M /\ "CONST" \notin M /\ "RW" \notin M /\ "RO" \notin M
    <3>1. M = {"NULL"}
      BY <2>9, <1>3 DEF Modes
    <3>2. QED
      BY <3>1, <2>1, <2>4, <2>9, Ranks
  <2>10. QED
    BY <2>5, <2>6, <2>7, <2>8, <2>9
<1>4. QED
  BY <1>1, <1>2, <1>3

(* order_preslots combines the modes of the slots on a block one after     *)
(* another, in the order of the slots: whatever the order, the result is   *)
(* Combined of their set.                                                  *)
THEOREM CombinedOneByOne ==
  ASSUME NEW M \in SUBSET Modes, NEW m \in Modes
  PROVE  /\ Combined({}) = "NULL"
         /\ CombineModes(Combined(M), m) = Combined(M \cup {m})
<1> DEFINE N == M \cup {m}
           c == Combined(M)
<1>1. Combined({}) = "NULL"
  BY DEF Combined
<1>2. c = IF "EW" \in M \/ ("RW" \in M /\ "CONST" \in M) THEN "EW"
          ELSE IF "CONST" \in M THEN "CONST" ELSE IF "RW" \in M THEN "RW"
          ELSE IF "RO" \in M THEN "RO" ELSE "NULL"
  BY CombinedFacts
<1>3. Combined(N) = IF "EW" \in N \/ ("RW" \in N /\ "CONST" \in N) THEN "EW"
                    ELSE IF "CONST" \in N THEN "CONST" ELSE IF "RW" \in N THEN "RW"
                    ELSE IF "RO" \in N THEN "RO" ELSE "NULL"
  <2>1. N \in SUBSET Modes
    OBVIOUS
  <2> HIDE DEF N
  <2>2. QED
    BY <2>1, CombinedFacts
<1>4. \A x : x \in N <=> x \in M \/ x = m
  OBVIOUS
<1>5. {c, m} = {"RW", "CONST"} <=> (c = "RW" /\ m = "CONST") \/ (c = "CONST" /\ m = "RW")
  OBVIOUS
<1>6. CombineModes(c, m) =
        IF (c = "RW" /\ m = "CONST") \/ (c = "CONST" /\ m = "RW") THEN "EW"
        ELSE IF Rank(c) > Rank(m) THEN c ELSE m
  BY <1>5 DEF CombineModes
<1> HIDE DEF c, N
<1>7. CombineModes(c, m) = Combined(N)
  BY <1>2, <1>3, <1>4, <1>6, Ranks DEF Modes
<1>8. QED
  BY <1>1, <1>7 DEF c, N

-----------------------------------------------------------------------------
(***************************************************************************)
(* Sorting a finite set of numbers.                                        *)
(***************************************************************************)
LEMMA SortedFacts ==
  ASSUME NEW I, \A x \in I : x \in Int, IsFiniteSet(I)
  PROVE  /\ Cardinality(I) \in Nat
         /\ Sorted(I) \in [1..Cardinality(I) -> I]
         /\ \A i, j \in 1..Cardinality(I) : i < j => Sorted(I)[i] < Sorted(I)[j]
         /\ \A x \in I : \E i \in 1..Cardinality(I) : Sorted(I)[i] = x
<1> DEFINE n      == Cardinality(I)
           To(x)  == {y \in I : y <= x}
           pos    == [x \in I |-> Cardinality(To(x))]
           Up(s)  == \A i, j \in DOMAIN s : i < j => s[i] < s[j]
<1>1. n \in Nat
  BY FS_CardinalityType
<1>2. \A x \in I : IsFiniteSet(To(x)) /\ pos[x] \in Nat /\ pos[x] <= n
  <2> TAKE x \in I
  <2>1. IsFiniteSet(To(x)) /\ Cardinality(To(x)) <= Cardinality(I)
    BY FS_Subset
  <2>2. Cardinality(To(x)) \in Nat
    BY <2>1, FS_CardinalityType
  <2>3. QED
    BY <2>1, <2>2
<1>3. \A x, y \in I : x < y => pos[x] < pos[y]
  <2> SUFFICES ASSUME NEW x \in I, NEW y \in I, x < y PROVE Cardinality(To(x)) < Cardinality(To(y))
    OBVIOUS
  <2>0. x \in Int /\ y \in Int
    OBVIOUS
  <2>a. ASSUME NEW z \in I, z <= x PROVE z <= y
    <3>1. z \in Int
      OBVIOUS
    <3>2. QED
      BY <3>1, <2>0, <2>a
  <2>b. To(x) \subseteq To(y)
    BY <2>a
  <2>c. y \in To(y) /\ y \notin To(x)
    BY <2>0
  <2>1. To(x) \subseteq To(y) /\ y \in To(y) /\ y \notin To(x)
    BY <2>b, <2>c
  <2>2. Cardinality(To(x)) <= Cardinality(To(y)) /\ Cardinality(To(x)) # Cardinality(To(y))
    BY <2>1, <1>2, FS_Subset
  <2>3. QED
    BY <2>2, <1>2
<1>4. \A x \in I : pos[x] \in 1..n
  <2> TAKE x \in I
  <2>1. To(x) # {}
    OBVIOUS
  <2>2. Cardinality(To(x)) # 0
    BY <2>1, <1>2, FS_EmptySet
  <2>3. QED
    BY <2>2, <1>2, <1>1
<1> HIDE DEF pos
<1>5. pos \in Injection(I, 1..n)
  <2>1. pos \in [I -> 1..n]
    BY <1>4 DEF pos
  <2>2. \A x, y \in I : pos[x] = pos[y] => x = y
    BY <1>3, <1>4
  <2>3. QED
    BY <2>1, <2>2 DEF Injection, IsInjective
<1>6. IsFiniteSet(1..n) /\ Cardinality(1..n) = n
  BY <1>1, FS_Interval
<1>7. \A i \in 1..n : \E x \in I : pos[x] = i
  <2>1. pos \in Surjection(I, 1..n)
    BY <1>5, <1>6, FS_Injection
  <2>2. QED
    BY <2>1 DEF Surjection
<1>8. \E s \in [1..n -> I] : Up(s)
  <2> DEFINE s == [i \in 1..n |-> CHOOSE x \in I : pos[x] = i]
  <2>1. \A i \in 1..n : s[i] \in I /\ pos[s[i]] = i
    BY <1>7
  <2>2. s \in [1..n -> I]
    BY <2>1
  <2> HIDE DEF s
  <2>3. ASSUME NEW i \in 1..n, NEW j \in 1..n, i < j PROVE s[i] < s[j]
    <3>1. s[i] \in Int /\ s[j] \in Int /\ pos[s[i]] < pos[s[j]]
      BY <2>1, <2>3
    <3>2. ~(s[j] < s[i]) /\ s[i] # s[j]
      BY <3>1, <2>1, <2>3, <1>3
    <3>3. QED
      BY <3>1, <3>2
  <2>4. Up(s)
    BY <2>2, <2>3
  <2>5. QED
    BY <2>2, <2>4
<1>9. Sorted(I) \in [1..n -> I] /\ Up(Sorted(I))
  BY <1>8 DEF Sorted
<1>10. \A i, j \in 1..n : i < j => Sorted(I)[i] < Sorted(I)[j]
  BY <1>9
<1> DEFINE t == Sorted(I)
<1> HIDE DEF t
<1>11. \A x \in I : \E i \in 1..n : t[i] = x
  <2>0. t \in [1..n -> I] /\ \A i, j \in 1..n : i < j => t[i] < t[j]
    BY <1>9, <1>10 DEF t
  <2>1. \A i, j \in 1..n : t[i] = t[j] => i = j
    <3> TAKE i, j \in 1..n
    <3>0. t[i] \in I /\ t[j] \in I
      BY <2>0
    <3>1. t[i] \in Int /\ t[j] \in Int /\ i \in Int /\ j \in Int
      BY <3>0, <1>1
    <3>2. QED
      BY <3>1, <2>0
  <2>2. t \in Injection(1..n, I)
    BY <2>0, <2>1 DEF Injection, IsInjective
  <2>3. t \in Surjection(1..n, I)
    BY <2>2, <1>6, FS_Injection
  <2>4. QED
    BY <2>3 DEF Surjection
<1>12. QED
  BY <1>1, <1>9, <1>10, <1>11 DEF t

(* The blocks of a task, in the order of the guids.                        *)
LockModes == {"RO", "RW", "CONST", "EW"}

LEMMA SlotModesFacts ==
  ASSUME NEW t \in Tasks, NEW b
  PROVE  SlotModes(t, b) \in SUBSET Modes /\ LockMode(t, b) \in Modes
         /\ (b \in Needed(t) => LockMode(t, b) \in LockModes)
<1> DEFINE Slot == [data : Blocks \cup {Null}, mode : Modes]
<1>1. Slots[t] \in Seq(Slot)
  BY TaskBlocksAssumption
<1>2. \A i \in DOMAIN Slots[t] : Slots[t][i] \in Slot
  <2> HIDE DEF Slot
  <2>1. QED
    BY <1>1
<1>3. SlotModes(t, b) \in SUBSET Modes
  BY <1>2 DEF SlotModes, SlotsOn
<1>4. Combined(SlotModes(t, b)) \in Modes
  BY <1>3, CombinedFacts DEF Modes
<1>5. ASSUME b \in Needed(t) PROVE Combined(SlotModes(t, b)) # "NULL"
  <2>1. PICK m \in SlotModes(t, b) : m # "NULL"
    BY <1>5 DEF Needed
  <2>2. m \in {"RO", "RW", "CONST", "EW"}
    BY <2>1, <1>3 DEF Modes
  <2>3. QED
    <3> DEFINE M == SlotModes(t, b)
    <3>1. M \in SUBSET Modes /\ m \in M
      BY <1>3, <2>1
    <3> HIDE DEF M
    <3>2. Combined(M) # "NULL"
      BY <3>1, <2>2, CombinedFacts
    <3>3. QED
      BY <3>2 DEF M
<1>6. QED
  BY <1>3, <1>4, <1>5 DEF LockMode, LockModes, Modes

LEMMA OrderedFacts ==
  ASSUME NEW t \in Tasks
  PROVE  LET bs == OrderedGuids(t) IN
         /\ bs \in Seq(Blocks) /\ Len(bs) = Cardinality(Needed(t))
         /\ \A i \in DOMAIN bs : bs[i] \in Needed(t) /\ bs[i] # Null
         /\ \A i, j \in DOMAIN bs : bs[i] = bs[j] => i = j
         /\ \A b \in Needed(t) : \E i \in DOMAIN bs : bs[i] = b
<1> DEFINE bs == OrderedGuids(t)
           n  == Cardinality(Needed(t))
<1>1. (\A x \in Needed(t) : x \in Int) /\ IsFiniteSet(Needed(t)) /\ Needed(t) \subseteq Blocks
  <2>1. Needed(t) \subseteq Blocks
    BY DEF Needed
  <2>2. IsFiniteSet(Needed(t))
    BY <2>1, FS_Subset, TaskBlocksAssumption
  <2>3. \A x \in Blocks : x \in Int
    BY TaskBlocksAssumption
  <2>4. QED
    BY <2>1, <2>2, <2>3
<1>2. /\ n \in Nat /\ bs \in [1..n -> Needed(t)]
      /\ \A i, j \in 1..n : i < j => bs[i] < bs[j]
      /\ \A x \in Needed(t) : \E i \in 1..n : bs[i] = x
  BY <1>1, SortedFacts DEF OrderedGuids
<1> HIDE DEF bs, n
<1>3. bs \in Seq(Blocks) /\ Len(bs) = n /\ DOMAIN bs = 1..n
  <2>1. bs \in [1..n -> Blocks]
    BY <1>1, <1>2
  <2>2. QED
    BY <2>1, <1>2
<1>4. \A i \in 1..n : bs[i] \in Needed(t) /\ bs[i] # Null /\ bs[i] \in Int
  BY <1>1, <1>2, TaskBlocksAssumption
<1>5. \A i, j \in 1..n : bs[i] = bs[j] => i = j
  <2> TAKE i, j \in 1..n
  <2>1. i \in Int /\ j \in Int
    BY <1>2
  <2>2. QED
    BY <2>1, <1>2, <1>4
<1>6. QED
  BY <1>2, <1>3, <1>4, <1>5 DEF bs, n

-----------------------------------------------------------------------------
(***************************************************************************)
(* A block: what its owner does about the copies outside leaves its locks, *)
(* and while it is written the copies, alone.                              *)
(***************************************************************************)
SameLocks(k, l) ==
  /\ l.read = k.read /\ l.write = k.write /\ l.excl = k.excl /\ (l.exwrite <=> k.exwrite)
  /\ l.waitlist = k.waitlist
SameWaits(k, l) == l.waiters = k.waiters /\ l.gates = k.gates /\ l.told = k.told
SameCopy(k, l)  == l.listed = k.listed /\ l.copy = k.copy /\ l.valid = k.valid
Listed(k)       == ~k.listed => k.copy = "none"

LEMMA UpdatedFacts ==
  ASSUME NEW k \in BlockType, Listed(k)
  PROVE  /\ Updated(k) \in BlockType /\ SameLocks(k, Updated(k)) /\ SameWaits(k, Updated(k))
         /\ Updated(k).valid = k.valid /\ Listed(Updated(k))
         /\ Writing(k) => Updated(k) = k
<1> DEFINE k1 == [k EXCEPT !.wanted = FALSE, !.copy = IF @ = "none" THEN "sent" ELSE @]
           k2 == [k EXCEPT !.listed = FALSE, !.copy = "none"]
           k3 == [k1 EXCEPT !.listed = FALSE, !.copy = "none"]
<1>1. Updated(k) \in {k, k1, k2, k3} /\ (Writing(k) => Updated(k) = k) /\ (Updated(k) = k1 => k1 = k \/ k.listed)
  BY DEF Updated
<1>2. k1 \in BlockType /\ SameLocks(k, k1) /\ SameWaits(k, k1) /\ k1.valid = k.valid /\ k1.listed = k.listed
  BY DEF BlockType, SameLocks, SameWaits
<1>3. k2 \in BlockType /\ SameLocks(k, k2) /\ SameWaits(k, k2) /\ k2.valid = k.valid /\ Listed(k2)
  BY DEF BlockType, SameLocks, SameWaits, Listed
<1>4. k3 \in BlockType /\ SameLocks(k, k3) /\ SameWaits(k, k3) /\ k3.valid = k.valid /\ Listed(k3)
  BY DEF BlockType, SameLocks, SameWaits, Listed
<1>5. SameLocks(k, k) /\ SameWaits(k, k)
  BY DEF SameLocks, SameWaits
<1> HIDE DEF k1, k2, k3
<1>6. Listed(k1) \/ Updated(k) # k1 \/ k1 = k
  BY <1>1, <1>2 DEF Listed
<1>7. QED
  BY <1>1, <1>2, <1>3, <1>4, <1>5, <1>6

LEMMA TryRoundFacts ==
  ASSUME NEW k \in BlockType, Listed(k)
  PROVE  /\ TryRound(k) \in BlockType /\ SameLocks(k, TryRound(k)) /\ SameWaits(k, TryRound(k))
         /\ TryRound(k).valid = k.valid /\ TryRound(k).listed = k.listed
         /\ TryRound(k).copy = "none" <=> k.copy = "none"
         /\ Listed(TryRound(k))
<1>1. CASE TryRound(k) = k
  BY <1>1 DEF SameLocks, SameWaits
<1>2. CASE TryRound(k) = [k EXCEPT !.copy = "recalled"] /\ k.copy = "held"
  BY <1>2 DEF BlockType, SameLocks, SameWaits, Listed
<1>3. QED
  BY <1>1, <1>2 DEF TryRound

(* A writer waits for the copies outside: none of them is dropped.         *)
LEMMA RegisteredFacts ==
  ASSUME NEW k \in BlockType, Listed(k), Writing(k), NEW t \in Tasks, NEW gate \in BOOLEAN
  PROVE  LET l == Registered(k, t, gate) IN
         /\ l \in BlockType /\ SameLocks(k, l) /\ Listed(l)
         /\ l.valid = k.valid /\ (l.copy = "none" <=> k.copy = "none") /\ l.told = k.told
         /\ l.gates = (IF gate THEN k.gates \cup {t} ELSE k.gates)
         /\ l.waiters = (IF gate THEN k.waiters ELSE k.waiters \cup {t})
<1> DEFINE k1 == IF gate THEN [k EXCEPT !.gates = @ \cup {t}] ELSE [k EXCEPT !.waiters = @ \cup {t}]
<1>1. /\ k1 \in BlockType /\ SameLocks(k, k1) /\ Listed(k1) /\ SameCopy(k, k1) /\ k1.told = k.told
      /\ k1.gates = (IF gate THEN k.gates \cup {t} ELSE k.gates)
      /\ k1.waiters = (IF gate THEN k.waiters ELSE k.waiters \cup {t})
  <2>1. CASE gate
    BY <2>1 DEF BlockType, SameLocks, Listed, SameCopy
  <2>2. CASE ~gate
    BY <2>2 DEF BlockType, SameLocks, Listed, SameCopy
  <2>3. QED
    BY <2>1, <2>2
<1>2. Registered(k, t, gate) = Updated(TryRound(k1))
  BY DEF Registered
<1> HIDE DEF k1
<1> DEFINE k2 == TryRound(k1)
<1>3. /\ k2 \in BlockType /\ SameLocks(k1, k2) /\ SameWaits(k1, k2) /\ k2.valid = k1.valid
      /\ k2.listed = k1.listed /\ (k2.copy = "none" <=> k1.copy = "none") /\ Listed(k2)
  BY <1>1, TryRoundFacts
<1> HIDE DEF k2
<1>4. Writing(k2)
  BY <1>1, <1>3 DEF Writing, SameLocks
<1>5. Updated(k2) = k2
  BY <1>3, <1>4, UpdatedFacts
<1>6. Registered(k, t, gate) = k2
  BY <1>2, <1>5 DEF k2
<1>7. QED
  BY <1>1, <1>3, <1>6 DEF SameLocks, SameWaits, SameCopy

-----------------------------------------------------------------------------
(***************************************************************************)
(* Counting the tasks that hold a lock.                                    *)
(***************************************************************************)
LEMMA InFacts ==
  ASSUME NEW h \in SUBSET Tasks, NEW b, NEW S
  PROVE  /\ In(h, b, S) \subseteq h /\ IsFiniteSet(In(h, b, S)) /\ Cardinality(In(h, b, S)) \in Nat
         /\ Cardinality(In(h, b, S)) = 0 <=> \A u \in h : LockMode(u, b) \notin S
<1>1. In(h, b, S) \subseteq h /\ In(h, b, S) \subseteq Tasks
  BY DEF In
<1>2. IsFiniteSet(In(h, b, S))
  BY <1>1, FS_Subset, TaskBlocksAssumption
<1>3. Cardinality(In(h, b, S)) \in Nat
  BY <1>2, FS_CardinalityType
<1>4. Cardinality(In(h, b, S)) = 0 <=> In(h, b, S) = {}
  BY <1>2, FS_EmptySet
<1>5. QED
  BY <1>1, <1>2, <1>3, <1>4 DEF In

LEMMA InUnion ==
  ASSUME NEW g \in SUBSET Tasks, NEW h \in SUBSET Tasks, g \cap h = {}, NEW b, NEW S
  PROVE  Cardinality(In(h \cup g, b, S)) = Cardinality(In(h, b, S)) + Cardinality(In(g, b, S))
<1>1. In(h \cup g, b, S) = In(h, b, S) \cup In(g, b, S) /\ In(h, b, S) \cap In(g, b, S) = {}
  BY DEF In
<1>2. IsFiniteSet(In(h, b, S)) /\ IsFiniteSet(In(g, b, S))
  BY InFacts
<1>3. Cardinality(In(h, b, S) \cup In(g, b, S)) =
        Cardinality(In(h, b, S)) + Cardinality(In(g, b, S)) - Cardinality(In(h, b, S) \cap In(g, b, S))
  BY <1>2, FS_Union
<1>4. Cardinality(In(h, b, S) \cap In(g, b, S)) = 0
  BY <1>1, FS_EmptySet
<1>5. Cardinality(In(h, b, S)) \in Nat /\ Cardinality(In(g, b, S)) \in Nat
  BY InFacts
<1> DEFINE x == Cardinality(In(h, b, S))
           y == Cardinality(In(g, b, S))
           z == Cardinality(In(h, b, S) \cap In(g, b, S))
           w == Cardinality(In(h, b, S) \cup In(g, b, S))
<1>6. w = x + y - z /\ z = 0 /\ x \in Nat /\ y \in Nat
  BY <1>3, <1>4, <1>5
<1>7. Cardinality(In(h \cup g, b, S)) = w
  BY <1>1
<1> HIDE DEF w, x, y, z
<1>8. w = x + y
  BY <1>6
<1>9. QED
  BY <1>7, <1>8 DEF w, x, y

LEMMA InSingle ==
  ASSUME NEW t \in Tasks, NEW b, NEW S
  PROVE  Cardinality(In({t}, b, S)) = IF LockMode(t, b) \in S THEN 1 ELSE 0
<1>1. CASE LockMode(t, b) \in S
  <2>1. In({t}, b, S) = {t}
    BY <1>1 DEF In
  <2>2. QED
    BY <2>1, <1>1, FS_Singleton
<1>2. CASE LockMode(t, b) \notin S
  <2>1. In({t}, b, S) = {}
    BY <1>2 DEF In
  <2>2. QED
    BY <2>1, <1>2, FS_EmptySet
<1>3. QED
  BY <1>1, <1>2

(* One holder more, one less.                                              *)
LEMMA InMore ==
  ASSUME NEW h \in SUBSET Tasks, NEW t \in Tasks, t \notin h, NEW b, NEW S
  PROVE  Cardinality(In(h \cup {t}, b, S)) =
           Cardinality(In(h, b, S)) + (IF LockMode(t, b) \in S THEN 1 ELSE 0)
<1> DEFINE g == {t}
<1>1. g \in SUBSET Tasks /\ g \cap h = {}
  OBVIOUS
<1>2. Cardinality(In(g, b, S)) = IF LockMode(t, b) \in S THEN 1 ELSE 0
  BY InSingle
<1> HIDE DEF g
<1>3. Cardinality(In(h \cup g, b, S)) = Cardinality(In(h, b, S)) + Cardinality(In(g, b, S))
  BY <1>1, InUnion
<1>4. QED
  BY <1>2, <1>3 DEF g

LEMMA InLess ==
  ASSUME NEW h \in SUBSET Tasks, NEW t \in h, NEW b, NEW S
  PROVE  Cardinality(In(h \ {t}, b, S)) =
           Cardinality(In(h, b, S)) - (IF LockMode(t, b) \in S THEN 1 ELSE 0)
<1> DEFINE g == h \ {t}
<1>1. g \in SUBSET Tasks /\ t \in Tasks /\ t \notin g /\ g \cup {t} = h
  OBVIOUS
<1> HIDE DEF g
<1>2. Cardinality(In(g \cup {t}, b, S)) = Cardinality(In(g, b, S)) + (IF LockMode(t, b) \in S THEN 1 ELSE 0)
  BY <1>1, InMore
<1>3. Cardinality(In(g, b, S)) \in Nat
  BY <1>1, InFacts
<1>4. Cardinality(In(h, b, S)) = Cardinality(In(g, b, S)) + (IF LockMode(t, b) \in S THEN 1 ELSE 0)
  BY <1>1, <1>2
<1>5. Cardinality(In(g, b, S)) = Cardinality(In(h, b, S)) - (IF LockMode(t, b) \in S THEN 1 ELSE 0)
  BY <1>3, <1>4
<1>6. QED
  BY <1>5 DEF g

LEMMA LockedFields ==
  ASSUME NEW k \in BlockType, NEW m \in LockModes
  PROVE  LET l == Locked(k, m) IN
         /\ l.read = k.read + (IF m = "RO" THEN 1 ELSE 0) /\ l.write = k.write + (IF m = "RW" THEN 1 ELSE 0)
         /\ l.excl = k.excl + (IF m \in {"CONST", "EW"} THEN 1 ELSE 0) /\ (l.exwrite <=> k.exwrite \/ m = "EW")
         /\ l.waitlist = k.waitlist /\ SameWaits(k, l) /\ SameCopy(k, l) /\ l \in BlockType
<1>1. CASE m = "RO"
  BY <1>1 DEF Locked, BlockType, SameWaits, SameCopy
<1>2. CASE m = "RW"
  BY <1>2 DEF Locked, BlockType, SameWaits, SameCopy
<1>3. CASE m = "CONST"
  BY <1>3 DEF Locked, BlockType, SameWaits, SameCopy
<1>4. CASE m = "EW"
  <2> DEFINE k1 == [k EXCEPT !.excl = @ + 1]
             k2 == [k1 EXCEPT !.exwrite = TRUE]
  <2>1. Locked(k, m) = k2
    BY <1>4 DEF Locked, BlockType
  <2>2. /\ k1 \in BlockType /\ SameWaits(k, k1) /\ SameCopy(k, k1) /\ k1.waitlist = k.waitlist
        /\ k1.excl = k.excl + 1 /\ k1.read = k.read /\ k1.write = k.write
    BY DEF BlockType, SameWaits, SameCopy
  <2> HIDE DEF k1
  <2>3. /\ k2 \in BlockType /\ SameWaits(k1, k2) /\ SameCopy(k1, k2) /\ k2.waitlist = k1.waitlist
        /\ k2.excl = k1.excl /\ k2.read = k1.read /\ k2.write = k1.write /\ k2.exwrite = TRUE
    BY <2>2 DEF BlockType, SameWaits, SameCopy
  <2> HIDE DEF k2
  <2>4. k.read \in Int /\ k.write \in Int
    BY DEF BlockType
  <2>5. QED
    BY <1>4, <2>1, <2>2, <2>3, <2>4 DEF SameWaits, SameCopy
<1>5. QED
  BY <1>1, <1>2, <1>3, <1>4 DEF LockModes

LEMMA UnlockedFields ==
  ASSUME NEW k \in BlockType, NEW m \in LockModes
  PROVE  LET l == Unlocked(k, m) IN
         /\ l.read = k.read - (IF m = "RO" THEN 1 ELSE 0) /\ l.write = k.write - (IF m = "RW" THEN 1 ELSE 0)
         /\ l.excl = k.excl - (IF m \in {"CONST", "EW"} THEN 1 ELSE 0) /\ (l.exwrite <=> k.exwrite /\ m # "EW")
         /\ l.waitlist = k.waitlist /\ SameWaits(k, l) /\ SameCopy(k, l) /\ l \in BlockType
<1>1. CASE m = "RO"
  BY <1>1 DEF Unlocked, BlockType, SameWaits, SameCopy
<1>2. CASE m = "RW"
  BY <1>2 DEF Unlocked, BlockType, SameWaits, SameCopy
<1>3. CASE m = "CONST"
  BY <1>3 DEF Unlocked, BlockType, SameWaits, SameCopy
<1>4. CASE m = "EW"
  <2> DEFINE k1 == [k EXCEPT !.excl = @ - 1]
             k2 == [k1 EXCEPT !.exwrite = FALSE]
  <2>1. Unlocked(k, m) = k2
    BY <1>4 DEF Unlocked, BlockType
  <2>2. /\ k1 \in BlockType /\ SameWaits(k, k1) /\ SameCopy(k, k1) /\ k1.waitlist = k.waitlist
        /\ k1.excl = k.excl - 1 /\ k1.read = k.read /\ k1.write = k.write
    BY DEF BlockType, SameWaits, SameCopy
  <2> HIDE DEF k1
  <2>3. /\ k2 \in BlockType /\ SameWaits(k1, k2) /\ SameCopy(k1, k2) /\ k2.waitlist = k1.waitlist
        /\ k2.excl = k1.excl /\ k2.read = k1.read /\ k2.write = k1.write /\ k2.exwrite = FALSE
    BY <2>2 DEF BlockType, SameWaits, SameCopy
  <2> HIDE DEF k2
  <2>4. k.read \in Int /\ k.write \in Int
    BY DEF BlockType
  <2>5. QED
    BY <1>4, <2>1, <2>2, <2>3, <2>4 DEF SameWaits, SameCopy
<1>5. QED
  BY <1>1, <1>2, <1>3, <1>4 DEF LockModes

(* A lock as a task takes it, and gives it back.                           *)
LEMMA LockStep ==
  ASSUME NEW b, NEW k \in BlockType, NEW h \in SUBSET Tasks, LocksOK(k, h, b),
         NEW t \in Tasks, t \notin h, LockMode(t, b) \in LockModes, Admits(k, LockMode(t, b))
  PROVE  LET l == Locked(k, LockMode(t, b)) IN
         /\ l \in BlockType /\ LocksOK(l, h \cup {t}, b)
         /\ l.waitlist = k.waitlist /\ SameWaits(k, l) /\ SameCopy(k, l)
<1> DEFINE m == LockMode(t, b)
           l == Locked(k, m)
           h2 == h \cup {t}
<1>a. \A S : Cardinality(In(h2, b, S)) = Cardinality(In(h, b, S)) + (IF m \in S THEN 1 ELSE 0)
  BY InMore
<1> HIDE DEF h2
<1>1. /\ Cardinality(In(h2, b, {"RO"})) = Cardinality(In(h, b, {"RO"})) + (IF m \in {"RO"} THEN 1 ELSE 0)
      /\ Cardinality(In(h2, b, {"RW"})) = Cardinality(In(h, b, {"RW"})) + (IF m \in {"RW"} THEN 1 ELSE 0)
      /\ Cardinality(In(h2, b, {"CONST", "EW"})) =
           Cardinality(In(h, b, {"CONST", "EW"})) + (IF m \in {"CONST", "EW"} THEN 1 ELSE 0)
  BY <1>a
<1>2. In(h2, b, {"EW"}) # {} <=> In(h, b, {"EW"}) # {} \/ m = "EW"
  BY DEF In, h2
<1>3. /\ Cardinality(In(h, b, {"RO"})) \in Nat /\ Cardinality(In(h, b, {"RW"})) \in Nat
      /\ Cardinality(In(h, b, {"CONST", "EW"})) \in Nat
  BY InFacts
<1>4. /\ l.read = k.read + (IF m = "RO" THEN 1 ELSE 0) /\ l.write = k.write + (IF m = "RW" THEN 1 ELSE 0)
      /\ l.excl = k.excl + (IF m \in {"CONST", "EW"} THEN 1 ELSE 0) /\ (l.exwrite <=> k.exwrite \/ m = "EW")
      /\ l.waitlist = k.waitlist /\ SameWaits(k, l) /\ SameCopy(k, l) /\ l \in BlockType
  BY LockedFields
<1>5. /\ m \in {"RW", "RO"} => k.excl = 0
      /\ m = "CONST" => k.read = 0 /\ k.write = 0 /\ ~k.exwrite
      /\ m = "EW" => k.read = 0 /\ k.write = 0 /\ k.excl = 0
  BY DEF Admits, LockModes, Free
<1> HIDE DEF m, l, h2
<1>6. Counts(l, h2, b)
  BY <1>1, <1>2, <1>3, <1>4 DEF LocksOK, Counts
<1>7. Compatible(l)
  <2>1. k.read \in Nat /\ k.write \in Nat /\ k.excl \in Nat
    BY <1>3 DEF LocksOK, Counts
  <2>2. m \in LockModes
    BY DEF m
  <2>3. QED
    BY <2>1, <2>2, <1>4, <1>5 DEF LocksOK, Compatible, LockModes
<1>8. QueueOK(l, b)
  BY <1>4 DEF LocksOK, QueueOK
<1>9. QED
  BY <1>4, <1>6, <1>7, <1>8 DEF LocksOK, m, l, h2

LEMMA UnlockStep ==
  ASSUME NEW b, NEW k \in BlockType, NEW h \in SUBSET Tasks, LocksOK(k, h, b),
         NEW t \in h, LockMode(t, b) \in LockModes
  PROVE  LET l == Unlocked(k, LockMode(t, b)) IN
         /\ Held(k, LockMode(t, b))
         /\ l \in BlockType /\ LocksOK(l, h \ {t}, b)
         /\ l.waitlist = k.waitlist /\ SameWaits(k, l) /\ SameCopy(k, l)
<1> DEFINE m == LockMode(t, b)
           l == Unlocked(k, m)
           h2 == h \ {t}
<1>a. \A S : Cardinality(In(h2, b, S)) = Cardinality(In(h, b, S)) - (IF m \in S THEN 1 ELSE 0)
  BY InLess
<1>0. h2 \in SUBSET Tasks
  OBVIOUS
<1>h. \A u : u \in h2 <=> u \in h /\ u # t
  OBVIOUS
<1> HIDE DEF h2
<1>1. /\ Cardinality(In(h2, b, {"RO"})) = Cardinality(In(h, b, {"RO"})) - (IF m \in {"RO"} THEN 1 ELSE 0)
      /\ Cardinality(In(h2, b, {"RW"})) = Cardinality(In(h, b, {"RW"})) - (IF m \in {"RW"} THEN 1 ELSE 0)
      /\ Cardinality(In(h2, b, {"CONST", "EW"})) =
           Cardinality(In(h, b, {"CONST", "EW"})) - (IF m \in {"CONST", "EW"} THEN 1 ELSE 0)
  BY <1>a
<1>3. /\ Cardinality(In(h, b, {"RO"})) \in Nat /\ Cardinality(In(h, b, {"RW"})) \in Nat
      /\ Cardinality(In(h, b, {"CONST", "EW"})) \in Nat
      /\ Cardinality(In(h2, b, {"RO"})) \in Nat /\ Cardinality(In(h2, b, {"RW"})) \in Nat
      /\ Cardinality(In(h2, b, {"CONST", "EW"})) \in Nat
  BY <1>0, InFacts
<1>4. /\ l.read = k.read - (IF m = "RO" THEN 1 ELSE 0) /\ l.write = k.write - (IF m = "RW" THEN 1 ELSE 0)
      /\ l.excl = k.excl - (IF m \in {"CONST", "EW"} THEN 1 ELSE 0) /\ (l.exwrite <=> k.exwrite /\ m # "EW")
      /\ l.waitlist = k.waitlist /\ SameWaits(k, l) /\ SameCopy(k, l) /\ l \in BlockType
  BY UnlockedFields
<1>5. In(h2, b, {"EW"}) # {} <=> k.exwrite /\ m # "EW"
  <2>1. CASE m = "EW"
    <3>1. k.exwrite
      BY <2>1 DEF LocksOK, Counts, In
    <3>2. k.excl = 1
      BY <3>1 DEF LocksOK, Compatible
    <3>c. Cardinality(In(h, b, {"CONST", "EW"})) = 1
      BY <3>2 DEF LocksOK, Counts
    <3>3. Cardinality(In(h2, b, {"CONST", "EW"})) = 0
      BY <3>c, <2>1, <1>1
    <3>4. \A u \in h2 : LockMode(u, b) \notin {"CONST", "EW"}
      BY <3>3, <1>0, InFacts
    <3>5. QED
      BY <3>4, <2>1 DEF In
  <2>2. CASE m # "EW"
    <3>1. In(h2, b, {"EW"}) = In(h, b, {"EW"})
      BY <2>2, <1>h DEF In
    <3>2. QED
      BY <3>1, <2>2 DEF LocksOK, Counts
  <2>3. QED
    BY <2>1, <2>2
<1>m. m \in LockModes
  OBVIOUS
<1>6. Held(k, m)
  <2>1. m = "EW" => k.exwrite
    BY DEF LocksOK, Counts, In
  <2> HIDE DEF m
  <2>2. /\ m = "RO" => k.read > 0
        /\ m = "RW" => k.write > 0
        /\ m \in {"CONST", "EW"} => k.excl > 0
    BY <1>1, <1>3 DEF LocksOK, Counts
  <2>3. QED
    BY <2>1, <2>2, <1>m DEF Held, LockModes
<1> HIDE DEF l, h2
<1>7. Counts(l, h2, b)
  <2> HIDE DEF m
  <2>1. QED
    BY <1>1, <1>3, <1>4, <1>5 DEF LocksOK, Counts
<1>8. Compatible(l)
  <2>1. k.read \in Nat /\ k.write \in Nat /\ k.excl \in Nat
    BY <1>3 DEF LocksOK, Counts
  <2>2. l.read \in Nat /\ l.write \in Nat /\ l.excl \in Nat
    BY <1>3, <1>7 DEF Counts
  <2> HIDE DEF m
  <2>3. l.read <= k.read /\ l.write <= k.write /\ l.excl <= k.excl
    BY <2>1, <1>4
  <2>4. l.excl > 0 => l.read = 0 /\ l.write = 0
    BY <2>1, <2>2, <2>3 DEF LocksOK, Compatible
  <2>5. l.exwrite => l.excl = 1
    <3> HAVE l.exwrite
    <3>1. k.excl = 1
      BY <1>4 DEF LocksOK, Compatible
    <3>2. \E u \in h2 : LockMode(u, b) \in {"CONST", "EW"}
      BY <1>7 DEF Counts, In
    <3>3. Cardinality(In(h2, b, {"CONST", "EW"})) # 0
      <4>1. \A S : Cardinality(In(h2, b, S)) = 0 <=> \A u \in h2 : LockMode(u, b) \notin S
        BY <1>0, InFacts
      <4>2. QED
        BY <3>2, <4>1
    <3>4. l.excl # 0
      BY <3>3, <1>7 DEF Counts
    <3>5. l.excl <= 1
      BY <3>1, <2>3
    <3>6. QED
      BY <3>4, <3>5, <2>2
  <2>6. QED
    BY <2>4, <2>5 DEF Compatible
<1>9. QueueOK(l, b)
  BY <1>4 DEF LocksOK, QueueOK
<1>10. QED
  BY <1>4, <1>6, <1>7, <1>8, <1>9 DEF LocksOK, l, h2

-----------------------------------------------------------------------------
(***************************************************************************)
(* The tasks that wait for a lock.                                         *)
(***************************************************************************)
SameCounts(k, l) == l.read = k.read /\ l.write = k.write /\ l.excl = k.excl /\ (l.exwrite <=> k.exwrite)

LEMMA WaitlistType ==
  ASSUME NEW k \in BlockType
  PROVE  /\ k.waitlist \in Seq(Entries) /\ Len(k.waitlist) \in Nat /\ DOMAIN k.waitlist = 1..Len(k.waitlist)
         /\ \A i \in DOMAIN k.waitlist : k.waitlist[i] \in Entries /\ k.waitlist[i].task \in Tasks
         /\ Queue(k) \subseteq Tasks
<1>1. k.waitlist \in Seq(Entries)
  BY DEF BlockType
<1>2. Len(k.waitlist) \in Nat /\ DOMAIN k.waitlist = 1..Len(k.waitlist)
  BY <1>1
<1>3. \A i \in DOMAIN k.waitlist : k.waitlist[i] \in Entries
  BY <1>1, <1>2
<1>4. \A i \in DOMAIN k.waitlist : k.waitlist[i].task \in Tasks
  BY <1>3 DEF Entries
<1>5. QED
  BY <1>1, <1>2, <1>3, <1>4 DEF Queue

LEMMA FirstFacts ==
  ASSUME NEW I \in SUBSET Nat
  PROVE  First(I) \subseteq I /\ \A i, j \in First(I) : i = j
<1>1. ASSUME NEW i \in First(I), NEW j \in First(I) PROVE i = j
  <2>1. i \in I /\ j \in I /\ i <= j /\ j <= i
    BY DEF First
  <2>2. i \in Nat /\ j \in Nat
    BY <2>1
  <2>3. QED
    BY <2>1, <2>2
<1>2. QED
  BY <1>1 DEF First

(* The waitlist without the entries I.                                     *)
LEMMA WithoutFacts ==
  ASSUME NEW k \in BlockType, NEW b, QueueOK(k, b), NEW I \in SUBSET DOMAIN k.waitlist
  PROVE  LET l == Without(k, I) IN
         /\ l \in BlockType /\ SameCounts(k, l) /\ SameWaits(k, l) /\ SameCopy(k, l)
         /\ QueueOK(l, b)
         /\ Queue(l) = {k.waitlist[i].task : i \in DOMAIN k.waitlist \ I}
<1> DEFINE w    == k.waitlist
           J    == DOMAIN w \ I
           rest == Sorted(J)
           n    == Cardinality(J)
           v    == [i \in DOMAIN rest |-> w[rest[i]]]
           l    == [k EXCEPT !.waitlist = v]
<1>1. DOMAIN w = 1..Len(w) /\ Len(w) \in Nat /\ \A i \in DOMAIN w : w[i] \in Entries /\ w[i].task \in Tasks
  BY WaitlistType
<1>2. (\A x \in J : x \in Int) /\ IsFiniteSet(J)
  <2>1. IsFiniteSet(DOMAIN w)
    BY <1>1, FS_Interval
  <2>2. IsFiniteSet(J)
    BY <2>1, FS_Subset
  <2>3. \A x \in J : x \in Int
    BY <1>1
  <2>4. QED
    BY <2>2, <2>3
<1>j. \A x : x \in J <=> x \in DOMAIN w /\ x \notin I
  OBVIOUS
<1>s. Without(k, I) = l
  BY DEF Without
<1> HIDE DEF J
<1>3. /\ n \in Nat /\ rest \in [1..n -> J]
      /\ \A i, j \in 1..n : i < j => rest[i] < rest[j]
      /\ \A x \in J : \E i \in 1..n : rest[i] = x
  BY <1>2, SortedFacts
<1> HIDE DEF rest, n
<1>4. DOMAIN rest = 1..n /\ \A i \in 1..n : rest[i] \in J /\ rest[i] \in DOMAIN w
  BY <1>3, <1>j
<1>5. \A i, j \in 1..n : rest[i] = rest[j] => i = j
  <2> TAKE i, j \in 1..n
  <2>1. i \in Int /\ j \in Int /\ rest[i] \in Int /\ rest[j] \in Int
    BY <1>2, <1>3, <1>4
  <2>2. QED
    BY <2>1, <1>3
<1>6. v \in Seq(Entries) /\ DOMAIN v = 1..n /\ \A i \in 1..n : v[i] = w[rest[i]]
  <2>1. \A i \in 1..n : w[rest[i]] \in Entries
    BY <1>1, <1>4
  <2>2. DOMAIN v = 1..n /\ \A i \in 1..n : v[i] = w[rest[i]]
    BY <1>4
  <2>3. v \in [1..n -> Entries]
    BY <2>1, <1>4
  <2>4. QED
    BY <2>2, <2>3, <1>3
<1> HIDE DEF v
<1>7. l \in BlockType /\ SameCounts(k, l) /\ SameWaits(k, l) /\ SameCopy(k, l) /\ l.waitlist = v
  BY <1>6 DEF BlockType, SameCounts, SameWaits, SameCopy
<1> HIDE DEF l
<1>8. QueueOK(l, b)
  <2>1. ASSUME NEW i \in 1..n PROVE v[i].mode = LockMode(v[i].task, b)
    BY <1>4, <1>6 DEF QueueOK
  <2>2. ASSUME NEW i \in 1..n, NEW j \in 1..n, v[i].task = v[j].task PROVE i = j
    <3>1. rest[i] = rest[j]
      BY <2>2, <1>4, <1>6 DEF QueueOK
    <3>2. QED
      BY <3>1, <1>5
  <2>3. QED
    BY <2>1, <2>2, <1>6, <1>7 DEF QueueOK
<1>9. Queue(l) = {w[i].task : i \in J}
  <2>1. \A i \in 1..n : v[i].task \in {w[j].task : j \in J}
    BY <1>4, <1>6
  <2>2. \A j \in J : \E i \in 1..n : v[i].task = w[j].task
    BY <1>3, <1>6
  <2>3. QED
    BY <2>1, <2>2, <1>6, <1>7 DEF Queue
<1>10. QED
  BY <1>s, <1>7, <1>8, <1>9 DEF J

LEMMA QueuedFacts ==
  ASSUME NEW k \in BlockType, NEW b, QueueOK(k, b),
         NEW t \in Tasks, NEW m \in Modes, m = LockMode(t, b), t \notin Queue(k)
  PROVE  LET l == Queued(k, [task |-> t, mode |-> m]) IN
         /\ l \in BlockType /\ SameCounts(k, l) /\ SameWaits(k, l) /\ SameCopy(k, l)
         /\ QueueOK(l, b) /\ Queue(l) = Queue(k) \cup {t}
<1> DEFINE x == [task |-> t, mode |-> m]
           w == k.waitlist
           v == Append(w, x)
           l == [k EXCEPT !.waitlist = v]
           n == Len(w)
<1>1. w \in Seq(Entries) /\ n \in Nat /\ DOMAIN w = 1..n
  BY WaitlistType
<1>2. x \in Entries /\ x.task = t /\ x.mode = m
  BY DEF Entries
<1> HIDE DEF x
<1>3. v \in Seq(Entries) /\ DOMAIN v = 1..(n + 1) /\ v[n + 1] = x /\ \A i \in 1..n : v[i] = w[i]
  BY <1>1, <1>2
<1>s. Queued(k, x) = l
  BY DEF Queued
<1> HIDE DEF v, n
<1>4. l \in BlockType /\ SameCounts(k, l) /\ SameWaits(k, l) /\ SameCopy(k, l) /\ l.waitlist = v
  BY <1>3 DEF BlockType, SameCounts, SameWaits, SameCopy
<1> HIDE DEF l
<1>5. \A i \in 1..(n + 1) : i \in 1..n \/ i = n + 1
  BY <1>1 DEF n
<1>6. \A i \in 1..n : w[i].task # t
  BY <1>1 DEF Queue
<1>7. QueueOK(l, b)
  <2>1. ASSUME NEW i \in 1..(n + 1) PROVE v[i].mode = LockMode(v[i].task, b)
    BY <1>1, <1>2, <1>3, <1>5 DEF QueueOK
  <2>2. ASSUME NEW i \in 1..(n + 1), NEW j \in 1..(n + 1), v[i].task = v[j].task PROVE i = j
    <3>1. CASE i \in 1..n /\ j \in 1..n
      BY <3>1, <2>2, <1>1, <1>3 DEF QueueOK
    <3>2. CASE i = n + 1 \/ j = n + 1
      BY <3>2, <2>2, <1>2, <1>3, <1>5, <1>6
    <3>3. QED
      BY <3>1, <3>2, <1>5
  <2>3. QED
    BY <2>1, <2>2, <1>3, <1>4 DEF QueueOK
<1>8. Queue(l) = Queue(k) \cup {t}
  <2>1. \A i \in 1..(n + 1) : v[i].task \in Queue(k) \cup {t}
    BY <1>1, <1>2, <1>3, <1>5 DEF Queue
  <2>2. \A u \in Queue(k) : \E i \in 1..(n + 1) : v[i].task = u
    <3> TAKE u \in Queue(k)
    <3>1. PICK i \in 1..n : w[i].task = u
      BY <1>1 DEF Queue
    <3>2. i \in 1..(n + 1)
      BY <1>1 DEF n
    <3>3. QED
      BY <3>1, <3>2, <1>3
  <2>3. n + 1 \in 1..(n + 1)
    BY <1>1 DEF n
  <2>4. QED
    <3>1. Queue(l) = {v[i].task : i \in 1..(n + 1)}
      BY <1>3, <1>4 DEF Queue
    <3>2. v[n + 1].task = t
      BY <1>2, <1>3
    <3> HIDE DEF x
    <3>3. QED
      BY <3>1, <3>2, <2>1, <2>2, <2>3
<1>9. QED
  BY <1>s, <1>4, <1>7, <1>8 DEF x

LEMMA RequestFacts ==
  ASSUME NEW k \in BlockType, NEW m
  PROVE  LET l == Request(k, m) IN
         /\ l \in BlockType /\ SameCounts(k, l) /\ SameWaits(k, l) /\ SameCopy(k, l)
         /\ l.waitlist = k.waitlist
  BY DEF Request, BlockType, SameCounts, SameWaits, SameCopy

(* The entries of a waitlist in some modes are as many as their tasks.     *)
LEMMA WaitingCount ==
  ASSUME NEW k \in BlockType, NEW b, QueueOK(k, b), NEW I \in SUBSET DOMAIN k.waitlist, NEW S
  PROVE  Cardinality(I \cap Waiting(k, S)) = Cardinality(In({k.waitlist[i].task : i \in I}, b, S))
<1> DEFINE w == k.waitlist
           A == I \cap Waiting(k, S)
           g == {w[i].task : i \in I}
           T == In(g, b, S)
           f == [i \in A |-> w[i].task]
<1>1. DOMAIN w = 1..Len(w) /\ Len(w) \in Nat
  BY WaitlistType
<1>2. IsFiniteSet(A)
  <2>1. IsFiniteSet(DOMAIN w)
    BY <1>1, FS_Interval
  <2>2. A \in SUBSET DOMAIN w
    OBVIOUS
  <2>3. QED
    BY <2>1, <2>2, FS_Subset
<1>3. \A i \in A : i \in DOMAIN w /\ i \in I /\ w[i].mode \in S /\ w[i].mode = LockMode(w[i].task, b)
  BY DEF Waiting, QueueOK
<1>4. \A i \in I : LockMode(w[i].task, b) \in S => i \in A
  BY DEF Waiting, QueueOK
<1> HIDE DEF A
<1>5. \A i \in A : w[i].task \in T
  BY <1>3 DEF In
<1>6. \A t \in T : \E i \in A : w[i].task = t
  BY <1>4 DEF In
<1> HIDE DEF T
<1>7. f \in Bijection(A, T)
  <2>1. f \in [A -> T]
    BY <1>5
  <2>2. \A i, j \in A : f[i] = f[j] => i = j
    BY <1>3 DEF QueueOK
  <2>3. \A t \in T : \E i \in A : f[i] = t
    BY <1>6
  <2>4. QED
    BY <2>1, <2>2, <2>3 DEF Bijection, Injection, Surjection, IsInjective
<1>8. Cardinality(T) = Cardinality(A)
  <2>1. ExistsBijection(A, T)
    BY <1>7 DEF ExistsBijection
  <2>2. QED
    BY <2>1, <1>2, FS_Bijection
<1>9. QED
  BY <1>8 DEF A, T

LEMMA LockedAllFacts ==
  ASSUME NEW k \in BlockType, NEW b, QueueOK(k, b), NEW I \in SUBSET DOMAIN k.waitlist
  PROVE  LET l == LockedAll(k, I)
             g == {k.waitlist[i].task : i \in I}
         IN
         /\ l \in BlockType /\ SameWaits(k, l) /\ SameCopy(k, l) /\ l.waitlist = k.waitlist
         /\ l.read = k.read + Cardinality(In(g, b, {"RO"}))
         /\ l.write = k.write + Cardinality(In(g, b, {"RW"}))
         /\ l.excl = k.excl + Cardinality(In(g, b, {"CONST", "EW"}))
         /\ l.exwrite <=> k.exwrite \/ In(g, b, {"EW"}) # {}
<1> DEFINE g  == {k.waitlist[i].task : i \in I}
           c1 == Cardinality(I \cap Waiting(k, {"RO"}))
           c2 == Cardinality(I \cap Waiting(k, {"RW"}))
           c3 == Cardinality(I \cap Waiting(k, {"CONST", "EW"}))
           ew == I \cap Waiting(k, {"EW"}) # {}
           l  == [k EXCEPT !.read = @ + c1, !.write = @ + c2, !.excl = @ + c3, !.exwrite = @ \/ ew]
<1>1. /\ c1 = Cardinality(In(g, b, {"RO"})) /\ c2 = Cardinality(In(g, b, {"RW"}))
      /\ c3 = Cardinality(In(g, b, {"CONST", "EW"}))
  BY WaitingCount
<1>2. ew <=> In(g, b, {"EW"}) # {}
  BY DEF In, Waiting, QueueOK
<1>g. g \in SUBSET Tasks
  BY WaitlistType
<1>s. LockedAll(k, I) = l
  BY DEF LockedAll
<1> HIDE DEF g
<1>i. \A S : Cardinality(In(g, b, S)) \in Nat
  BY <1>g, InFacts
<1>3. c1 \in Nat /\ c2 \in Nat /\ c3 \in Nat
  BY <1>1, <1>i
<1>4. ew \in BOOLEAN
  OBVIOUS
<1> HIDE DEF c1, c2, c3, ew
<1>5. c1 \in Int /\ c2 \in Int /\ c3 \in Int
  BY <1>3
<1>6. k.read \in Int /\ k.write \in Int /\ k.excl \in Int /\ k.exwrite \in BOOLEAN
  BY DEF BlockType
<1>7. /\ k.read + c1 \in Int /\ k.write + c2 \in Int /\ k.excl + c3 \in Int
      /\ (k.exwrite \/ ew) \in BOOLEAN
  BY <1>4, <1>5, <1>6
<1>8. l \in BlockType
  <2> DEFINE l1 == [k EXCEPT !.read = k.read + c1]
             l2 == [l1 EXCEPT !.write = k.write + c2]
             l3 == [l2 EXCEPT !.excl = k.excl + c3]
             l4 == [l3 EXCEPT !.exwrite = k.exwrite \/ ew]
  <2>1. l = l4
    BY DEF BlockType
  <2>2. l1 \in BlockType
    BY <1>7 DEF BlockType
  <2> HIDE DEF l1
  <2>3. l2 \in BlockType
    BY <2>2, <1>7 DEF BlockType
  <2> HIDE DEF l2
  <2>4. l3 \in BlockType
    BY <2>3, <1>7 DEF BlockType
  <2> HIDE DEF l3
  <2>5. l4 \in BlockType
    BY <2>4, <1>7 DEF BlockType
  <2>6. QED
    BY <2>1, <2>5
<1>9. SameWaits(k, l) /\ SameCopy(k, l) /\ l.waitlist = k.waitlist
  BY DEF BlockType, SameWaits, SameCopy
<1>10. l.read = k.read + c1 /\ l.write = k.write + c2 /\ l.excl = k.excl + c3
  BY DEF BlockType
<1>11. l.exwrite <=> k.exwrite \/ ew
  BY DEF BlockType
<1>12. QED
  BY <1>s, <1>1, <1>2, <1>8, <1>9, <1>10, <1>11 DEF g

(* Granting a part of the waitlist.                                        *)
LEMMA GrantingFacts ==
  ASSUME NEW k \in BlockType, NEW b, QueueOK(k, b), NEW I \in SUBSET DOMAIN k.waitlist
  PROVE  LET r == Granting(k, I) IN
         /\ r.block \in BlockType /\ SameWaits(k, r.block) /\ SameCopy(k, r.block)
         /\ QueueOK(r.block, b) /\ Queue(r.block) = Queue(k) \ r.to
         /\ r.to \subseteq {k.waitlist[i].task : i \in I}
         /\ r.block.read = k.read + Cardinality(In(r.to, b, {"RO"}))
         /\ r.block.write = k.write + Cardinality(In(r.to, b, {"RW"}))
         /\ r.block.excl = k.excl + Cardinality(In(r.to, b, {"CONST", "EW"}))
         /\ r.block.exwrite <=> k.exwrite \/ In(r.to, b, {"EW"}) # {}
         /\ r.to # {} => k.valid # "invalid"
<1> DEFINE w    == k.waitlist
           bad  == First({i \in I : ~Valid(k, w[i].mode)})
           good == {i \in I : \A j \in bad : i < j}
           g    == {w[i].task : i \in good}
           k1   == LockedAll(k, good)
           kk   == Without(k1, good \cup bad)
           x    == w[CHOOSE i \in bad : TRUE]
           kq   == Queued(Request(kk, x.mode), x)
           blk  == IF bad = {} THEN kk ELSE kq
<1>0. DOMAIN w = 1..Len(w) /\ Len(w) \in Nat /\ \A i \in DOMAIN w : w[i] \in Entries /\ w[i].task \in Tasks
  BY WaitlistType
<1>1. bad \subseteq I /\ (\A i \in bad : ~Valid(k, w[i].mode)) /\ \A i, j \in bad : i = j
  <2> DEFINE J == {i \in I : ~Valid(k, w[i].mode)}
  <2>1. J \in SUBSET Nat
    BY <1>0
  <2> HIDE DEF J
  <2>2. First(J) \subseteq J /\ \A i, j \in First(J) : i = j
    BY <2>1, FirstFacts
  <2>3. QED
    BY <2>2 DEF J
<1>2. good \subseteq I /\ good \subseteq DOMAIN w /\ good \cap bad = {} /\ bad \subseteq DOMAIN w
  <2>1. \A i \in I : i \in Int
    BY <1>0
  <2>2. \A i \in bad : i \notin good
    BY <1>1, <2>1
  <2>3. QED
    BY <1>1, <2>2
<1>3. \A i \in good : Valid(k, w[i].mode)
  <2> SUFFICES ASSUME NEW i \in good, ~Valid(k, w[i].mode) PROVE FALSE
    OBVIOUS
  <2> DEFINE J    == {j \in I : ~Valid(k, w[j].mode)}
             U    == {j \in J : j < i}
  <2>i. i \in J /\ i \in Int /\ (\A j \in J : j \in Int) /\ bad = First(J)
    BY <1>0
  <2> HIDE DEF J, bad
  <2>1. J \subseteq 1..Len(w)
    BY <1>0 DEF J
  <2>2. J \in SUBSET Nat /\ J # {} /\ IsFiniteSet(J)
    <3>0. \A n \in Nat : IsFiniteSet(1..n)
      BY FS_Interval
    <3>1. IsFiniteSet(1..Len(w))
      BY ONLY <1>0, <3>0
    <3>2. IsFiniteSet(J)
      BY <2>1, <3>1, FS_Subset
    <3>3. J \in SUBSET Nat
      BY <2>1, <1>0
    <3>4. QED
      BY <3>2, <3>3, <2>i
  <2>3. \E j \in J : \A n \in J : j <= n
    <3>1. /\ Cardinality(J) \in Nat /\ Sorted(J) \in [1..Cardinality(J) -> J]
          /\ \A m, n \in 1..Cardinality(J) : m < n => Sorted(J)[m] < Sorted(J)[n]
          /\ \A y \in J : \E m \in 1..Cardinality(J) : Sorted(J)[m] = y
      BY <2>i, <2>2, SortedFacts
    <3>2. Cardinality(J) # 0
      BY <2>2, FS_EmptySet
    <3>3. 1 \in 1..Cardinality(J)
      BY <3>1, <3>2
    <3> DEFINE s == Sorted(J)
    <3> HIDE DEF s
    <3>4. s[1] \in J
      BY <3>1, <3>3 DEF s
    <3>5. ASSUME NEW y \in J PROVE s[1] <= y
      <4>1. PICK m \in 1..Cardinality(J) : s[m] = y
        BY <3>1 DEF s
      <4>2. m = 1 \/ 1 < m
        BY <3>1
      <4>3. s[1] \in Int /\ y \in Int
        BY <3>4, <2>i
      <4>4. CASE m = 1
        BY <4>4, <4>1, <4>3
      <4>5. CASE 1 < m
        <5>1. s[1] < s[m]
          BY <4>5, <3>1, <3>3 DEF s
        <5>2. QED
          BY <5>1, <4>1, <4>3
      <4>6. QED
        BY <4>2, <4>4, <4>5
    <3>6. QED
      BY <3>4, <3>5
  <2>4. PICK j \in J : \A n \in J : j <= n
    BY <2>3
  <2>5. j \in bad
    BY <2>4, <2>i DEF First
  <2>6. i < j /\ j <= i
    BY <2>5, <2>4, <2>i
  <2>7. QED
    BY <2>6, <2>i
<1> HIDE DEF bad, good
<1>4. /\ k1 \in BlockType /\ SameWaits(k, k1) /\ SameCopy(k, k1) /\ k1.waitlist = w
      /\ k1.read = k.read + Cardinality(In(g, b, {"RO"}))
      /\ k1.write = k.write + Cardinality(In(g, b, {"RW"}))
      /\ k1.excl = k.excl + Cardinality(In(g, b, {"CONST", "EW"}))
      /\ k1.exwrite <=> k.exwrite \/ In(g, b, {"EW"}) # {}
  BY <1>2, LockedAllFacts
<1> HIDE DEF k1
<1>5. QueueOK(k1, b)
  BY <1>4 DEF QueueOK
<1>6. /\ kk \in BlockType /\ SameCounts(k1, kk) /\ SameWaits(k1, kk) /\ SameCopy(k1, kk)
      /\ QueueOK(kk, b) /\ Queue(kk) = {w[i].task : i \in DOMAIN w \ (good \cup bad)}
  <2>1. good \cup bad \in SUBSET DOMAIN k1.waitlist
    BY <1>2, <1>4
  <2>2. QED
    BY <2>1, <1>4, <1>5, WithoutFacts
<1> HIDE DEF kk
<1>q. Queue(k) = {w[i].task : i \in DOMAIN w}
  BY DEF Queue
<1>d. \A i, j \in DOMAIN w : w[i].task = w[j].task => i = j
  BY DEF QueueOK
<1>7. /\ blk \in BlockType /\ SameCounts(kk, blk) /\ SameWaits(kk, blk) /\ SameCopy(kk, blk)
      /\ QueueOK(blk, b) /\ Queue(blk) = {w[i].task : i \in DOMAIN w \ good}
  <2>1. CASE bad = {}
    <3>1. blk = kk /\ good \cup bad = good
      BY <2>1
    <3>2. SameCounts(kk, kk) /\ SameWaits(kk, kk) /\ SameCopy(kk, kk)
      BY DEF SameCounts, SameWaits, SameCopy
    <3>3. QED
      BY <3>1, <3>2, <1>6
  <2>2. CASE bad # {}
    <3> DEFINE j  == CHOOSE i \in bad : TRUE
               k2 == Request(kk, x.mode)
    <3>1. j \in bad /\ j \in DOMAIN w /\ bad = {j} /\ x = w[j] /\ j \notin good
      BY <2>2, <1>1, <1>2
    <3> HIDE DEF j, x
    <3>2. x \in Entries /\ x.task \in Tasks /\ x.mode \in Modes /\ x = [task |-> x.task, mode |-> x.mode]
      BY <3>1, <1>0 DEF Entries
    <3>3. x.mode = LockMode(x.task, b)
      BY <3>1 DEF QueueOK
    <3>4. /\ k2 \in BlockType /\ SameCounts(kk, k2) /\ SameWaits(kk, k2) /\ SameCopy(kk, k2)
          /\ k2.waitlist = kk.waitlist
      BY <1>6, RequestFacts
    <3> HIDE DEF k2
    <3>5. QueueOK(k2, b) /\ Queue(k2) = Queue(kk)
      BY <3>4, <1>6 DEF QueueOK, Queue
    <3>6. x.task \notin Queue(k2)
      <4>1. ASSUME NEW i \in DOMAIN w \ (good \cup bad), w[i].task = w[j].task PROVE FALSE
        BY <4>1, <3>1, <1>d
      <4>2. QED
        BY <4>1, <3>1, <3>5, <1>6
    <3>7. LET l == Queued(k2, [task |-> x.task, mode |-> x.mode]) IN
          /\ l \in BlockType /\ SameCounts(k2, l) /\ SameWaits(k2, l) /\ SameCopy(k2, l)
          /\ QueueOK(l, b) /\ Queue(l) = Queue(k2) \cup {x.task}
      BY <3>2, <3>3, <3>4, <3>5, <3>6, QueuedFacts
    <3>8. blk = Queued(k2, x)
      BY <2>2 DEF k2
    <3> HIDE DEF blk
    <3>9. /\ blk \in BlockType /\ SameCounts(k2, blk) /\ SameWaits(k2, blk) /\ SameCopy(k2, blk)
          /\ QueueOK(blk, b) /\ Queue(blk) = Queue(k2) \cup {x.task}
      BY <3>2, <3>7, <3>8
    <3>10. Queue(blk) = {w[i].task : i \in DOMAIN w \ good}
      <4>1. Queue(blk) = {w[i].task : i \in DOMAIN w \ (good \cup bad)} \cup {w[j].task}
        BY <3>9, <3>5, <3>1, <1>6
      <4>2. \A i : i \in DOMAIN w \ good <=> i \in DOMAIN w \ (good \cup bad) \/ i = j
        BY <3>1
      <4>3. QED
        BY <4>1, <4>2
    <3>11. SameCounts(kk, blk) /\ SameWaits(kk, blk) /\ SameCopy(kk, blk)
      BY <3>4, <3>9 DEF SameCounts, SameWaits, SameCopy
    <3>12. QED
      BY <3>9, <3>10, <3>11
  <2>3. QED
    BY <2>1, <2>2
<1>8. Granting(k, I).block = blk /\ Granting(k, I).to = g
  BY DEF Granting, bad, good, k1, kk
<1> HIDE DEF blk
<1>9. Queue(blk) = Queue(k) \ g
  <2>1. ASSUME NEW i \in DOMAIN w PROVE i \in good <=> w[i].task \in g
    BY <1>2, <1>d
  <2>2. QED
    BY <2>1, <1>7, <1>q
<1>10. g # {} => k.valid # "invalid"
  <2> HAVE g # {}
  <2>1. PICK i \in good : TRUE
    OBVIOUS
  <2>2. Valid(k, w[i].mode)
    BY <1>3
  <2>3. QED
    BY <2>2 DEF Valid
<1>11. g \subseteq {w[i].task : i \in I}
  BY <1>2
<1> HIDE DEF g
<1>12. /\ blk.read = k.read + Cardinality(In(g, b, {"RO"}))
       /\ blk.write = k.write + Cardinality(In(g, b, {"RW"}))
       /\ blk.excl = k.excl + Cardinality(In(g, b, {"CONST", "EW"}))
       /\ blk.exwrite <=> k.exwrite \/ In(g, b, {"EW"}) # {}
       /\ SameWaits(k, blk) /\ SameCopy(k, blk)
  BY <1>4, <1>6, <1>7 DEF SameCounts, SameWaits, SameCopy
<1>13. QED
  BY <1>7, <1>8, <1>9, <1>10, <1>11, <1>12

(* grant_locks: the tasks that wait for a block it is granted to hold it.  *)
LEMMA GrantFacts ==
  ASSUME NEW b, NEW k \in BlockType, NEW h \in SUBSET Tasks, LocksOK(k, h, b), Queue(k) \cap h = {}
  PROVE  LET r == Grant(k) IN
         /\ r.block \in BlockType /\ SameWaits(k, r.block) /\ SameCopy(k, r.block)
         /\ LocksOK(r.block, h \cup r.to, b)
         /\ r.to \subseteq Queue(k) /\ Queue(r.block) = Queue(k) \ r.to
         /\ r.to # {} => k.valid # "invalid"
<1> DEFINE r  == Grant(k)
           ew == Waiting(k, {"EW"})
           co == Waiting(k, {"CONST"})
           sh == Waiting(k, {"RW", "RO"})
           Now(I) == r = Granting(k, I)
<1>1. QueueOK(k, b) /\ Counts(k, h, b) /\ Compatible(k)
  BY DEF LocksOK
<1>2. \A S : /\ Cardinality(In(h, b, S)) \in Nat
             /\ Cardinality(In(h, b, S)) = 0 <=> \A u \in h : LockMode(u, b) \notin S
  BY InFacts
<1>3. k.read \in Nat /\ k.write \in Nat /\ k.excl \in Nat
  BY <1>1, <1>2 DEF Counts
<1>w. /\ ew \in SUBSET DOMAIN k.waitlist /\ co \in SUBSET DOMAIN k.waitlist /\ sh \in SUBSET DOMAIN k.waitlist
      /\ \A i \in DOMAIN k.waitlist : k.waitlist[i].mode = LockMode(k.waitlist[i].task, b)
  BY <1>1 DEF Waiting, QueueOK
(* Whatever part I of the waitlist is granted: the counts stay right.      *)
<1>4. ASSUME NEW I \in SUBSET DOMAIN k.waitlist, Now(I)
      PROVE  /\ r.block \in BlockType /\ SameWaits(k, r.block) /\ SameCopy(k, r.block)
             /\ QueueOK(r.block, b) /\ Counts(r.block, h \cup r.to, b)
             /\ r.to \subseteq Queue(k) /\ Queue(r.block) = Queue(k) \ r.to
             /\ r.to \subseteq {k.waitlist[i].task : i \in I}
             /\ r.to # {} => k.valid # "invalid"
             /\ r.block.read = k.read + Cardinality(In(r.to, b, {"RO"}))
             /\ r.block.write = k.write + Cardinality(In(r.to, b, {"RW"}))
             /\ r.block.excl = k.excl + Cardinality(In(r.to, b, {"CONST", "EW"}))
             /\ r.block.exwrite <=> k.exwrite \/ In(r.to, b, {"EW"}) # {}
  <2>1. /\ r.block \in BlockType /\ SameWaits(k, r.block) /\ SameCopy(k, r.block)
        /\ QueueOK(r.block, b) /\ Queue(r.block) = Queue(k) \ r.to
        /\ r.to \subseteq {k.waitlist[i].task : i \in I}
        /\ r.block.read = k.read + Cardinality(In(r.to, b, {"RO"}))
        /\ r.block.write = k.write + Cardinality(In(r.to, b, {"RW"}))
        /\ r.block.excl = k.excl + Cardinality(In(r.to, b, {"CONST", "EW"}))
        /\ r.block.exwrite <=> k.exwrite \/ In(r.to, b, {"EW"}) # {}
        /\ r.to # {} => k.valid # "invalid"
    BY <1>1, <1>4, GrantingFacts
  <2> HIDE DEF r
  <2>2. r.to \subseteq Queue(k)
    BY <2>1 DEF Queue
  <2>3. r.to \in SUBSET Tasks /\ r.to \cap h = {}
    BY <2>2, WaitlistType
  <2>4. \A S : Cardinality(In(h \cup r.to, b, S)) = Cardinality(In(h, b, S)) + Cardinality(In(r.to, b, S))
    BY <2>3, InUnion
  <2>5. In(h \cup r.to, b, {"EW"}) # {} <=> In(h, b, {"EW"}) # {} \/ In(r.to, b, {"EW"}) # {}
    BY DEF In
  <2>6. Counts(r.block, h \cup r.to, b)
    BY <2>1, <2>4, <2>5, <1>1 DEF Counts
  <2>7. QED
    BY <2>1, <2>2, <2>6
<1>5. ASSUME NEW I \in SUBSET DOMAIN k.waitlist, Now(I)
      PROVE  \A S : /\ Cardinality(In(r.to, b, S)) \in Nat
                    /\ (\A i \in I : k.waitlist[i].mode \notin S) => Cardinality(In(r.to, b, S)) = 0
  <2>1. r.to \in SUBSET Tasks /\ r.to \subseteq {k.waitlist[i].task : i \in I}
    BY <1>4, <1>5, WaitlistType
  <2> HIDE DEF r
  <2>2. \A S : /\ Cardinality(In(r.to, b, S)) \in Nat
               /\ Cardinality(In(r.to, b, S)) = 0 <=> \A u \in r.to : LockMode(u, b) \notin S
    BY <2>1, InFacts
  <2>3. QED
    BY <2>1, <2>2, <1>w
<1>6. CASE Free(k) /\ ew # {}
  <2> DEFINE I == First(ew)
  <2>1. I \subseteq ew /\ (\A i, j \in I : i = j) /\ I \in SUBSET DOMAIN k.waitlist
    <3>1. ew \in SUBSET Nat
      BY <1>w, WaitlistType
    <3>2. QED
      BY <3>1, <1>w, FirstFacts
  <2>2. Now(I)
    BY <1>6 DEF Grant
  <2> HIDE DEF I
  <2>3. \A i \in I : k.waitlist[i].mode = "EW"
    BY <2>1 DEF Waiting
  <2>4. k.read = 0 /\ k.write = 0 /\ k.excl = 0 /\ ~k.exwrite
    BY <1>6, <1>1 DEF Free, Compatible
  <2>5. Cardinality(In(r.to, b, {"RO"})) = 0 /\ Cardinality(In(r.to, b, {"RW"})) = 0
    BY <2>1, <2>2, <2>3, <1>5
  <2>6. r.block.excl \in {0, 1} /\ (r.block.exwrite => r.block.excl = 1)
    <3>a. /\ r.block.excl = Cardinality(In(r.to, b, {"CONST", "EW"}))
          /\ Cardinality(In(r.to, b, {"CONST", "EW"})) \in Nat
          /\ r.block.exwrite <=> In(r.to, b, {"EW"}) # {}
      BY <2>1, <2>2, <2>4, <1>4, <1>5
    <3>1. r.to \subseteq {k.waitlist[i].task : i \in I} /\ r.to \in SUBSET Tasks
      BY <2>1, <2>2, <1>4, WaitlistType
    <3> HIDE DEF r
    <3>2. CASE r.to = {}
      <4>1. In(r.to, b, {"CONST", "EW"}) = {} /\ In(r.to, b, {"EW"}) = {}
        BY <3>2 DEF In
      <4>2. QED
        BY <4>1, <3>a, FS_EmptySet
    <3>3. CASE r.to # {}
      <4>1. PICK u \in r.to : TRUE
        BY <3>3
      <4>2. r.to = {u} /\ LockMode(u, b) = "EW" /\ u \in Tasks
        BY <4>1, <3>1, <2>1, <2>3, <1>w
      <4>3. In(r.to, b, {"CONST", "EW"}) = {u}
        BY <4>2 DEF In
      <4>4. Cardinality({u}) = 1
        BY FS_Singleton
      <4>5. QED
        BY <3>a, <4>3, <4>4
    <3>4. QED
      BY <3>2, <3>3
  <2>7. Compatible(r.block)
    BY <2>1, <2>2, <2>4, <2>5, <2>6, <1>4 DEF Compatible
  <2>8. QED
    BY <2>1, <2>2, <2>7, <1>4 DEF LocksOK
<1>7. CASE ~(Free(k) /\ ew # {}) /\ k.read = 0 /\ k.write = 0 /\ ~k.exwrite /\ co # {}
  <2>1. Now(co)
    BY <1>7 DEF Grant
  <2>2. \A i \in co : k.waitlist[i].mode = "CONST"
    BY DEF Waiting
  <2>3. /\ Cardinality(In(r.to, b, {"RO"})) = 0 /\ Cardinality(In(r.to, b, {"RW"})) = 0
        /\ Cardinality(In(r.to, b, {"EW"})) = 0
    BY <2>1, <2>2, <1>5, <1>w
  <2>4. In(r.to, b, {"EW"}) = {}
    <3>1. r.to \in SUBSET Tasks
      BY <2>1, <1>4, <1>w, WaitlistType
    <3> HIDE DEF r
    <3>2. IsFiniteSet(In(r.to, b, {"EW"}))
      BY <3>1, InFacts
    <3>3. QED
      BY <3>2, <2>3, FS_EmptySet
  <2>5. r.block.read = 0 /\ r.block.write = 0 /\ ~r.block.exwrite
    BY <2>1, <2>3, <2>4, <1>4, <1>7, <1>w
  <2>6. QED
    BY <2>1, <2>5, <1>4, <1>w DEF LocksOK, Compatible
<1>8. CASE /\ ~(Free(k) /\ ew # {}) /\ ~(k.read = 0 /\ k.write = 0 /\ ~k.exwrite /\ co # {})
           /\ k.excl = 0
  <2>1. Now(sh)
    BY <1>8 DEF Grant
  <2>2. \A i \in sh : k.waitlist[i].mode \in {"RW", "RO"}
    BY DEF Waiting
  <2>3. /\ Cardinality(In(r.to, b, {"CONST", "EW"})) = 0
        /\ Cardinality(In(r.to, b, {"EW"})) = 0
    BY <2>1, <2>2, <1>5, <1>w
  <2>4. In(r.to, b, {"EW"}) = {}
    <3>1. r.to \in SUBSET Tasks
      BY <2>1, <1>4, <1>w, WaitlistType
    <3> HIDE DEF r
    <3>2. IsFiniteSet(In(r.to, b, {"EW"}))
      BY <3>1, InFacts
    <3>3. QED
      BY <3>2, <2>3, FS_EmptySet
  <2>5. ~k.exwrite
    BY <1>8, <1>1 DEF Compatible
  <2>6. r.block.excl = 0 /\ ~r.block.exwrite
    BY <2>1, <2>3, <2>4, <2>5, <1>4, <1>8, <1>w
  <2>7. Compatible(r.block)
    BY <2>6 DEF Compatible
  <2>8. QED
    BY <2>1, <2>7, <1>4, <1>w DEF LocksOK
<1>9. CASE /\ ~(Free(k) /\ ew # {}) /\ ~(k.read = 0 /\ k.write = 0 /\ ~k.exwrite /\ co # {})
           /\ k.excl # 0
  <2>1. r = [block |-> k, to |-> {}]
    BY <1>9 DEF Grant
  <2>2. r.block = k /\ r.to = {}
    BY <2>1
  <2>3. SameWaits(k, k) /\ SameCopy(k, k)
    BY DEF SameWaits, SameCopy
  <2> HIDE DEF r
  <2>4. h \cup r.to = h /\ Queue(k) \ r.to = Queue(k)
    BY <2>2
  <2>5. QED
    BY <2>2, <2>3, <2>4 DEF r
<1>10. QED
  BY <1>6, <1>7, <1>8, <1>9

-----------------------------------------------------------------------------
(***************************************************************************)
(* Locking and unlocking.                                                  *)
(***************************************************************************)
LEMMA TryLockFacts ==
  ASSUME NEW b, NEW k \in BlockType, NEW h \in SUBSET Tasks, LocksOK(k, h, b),
         NEW t \in Tasks, t \notin h, t \notin Queue(k), LockMode(t, b) \in LockModes
  PROVE  LET r == TryLock(k, t, LockMode(t, b)) IN
         /\ r.block \in BlockType /\ SameWaits(k, r.block) /\ SameCopy(k, r.block)
         /\ LocksOK(r.block, h \cup r.to, b)
         /\ \/ r.to = {t} /\ Queue(r.block) = Queue(k) /\ k.valid # "invalid"
            \/ r.to = {} /\ Queue(r.block) = Queue(k) \cup {t}
<1> DEFINE m  == LockMode(t, b)
           x  == [task |-> t, mode |-> m]
           k1 == Request(k, m)
           q  == Queued(k, x)
           q1 == Queued(k1, x)
           r  == TryLock(k, t, m)
<1>m. m \in Modes /\ m \in LockModes
  BY DEF Modes, LockModes
<1>1. QueueOK(k, b) /\ Counts(k, h, b) /\ Compatible(k)
  BY DEF LocksOK
<1>2. /\ k1 \in BlockType /\ SameCounts(k, k1) /\ SameWaits(k, k1) /\ SameCopy(k, k1)
      /\ k1.waitlist = k.waitlist
  BY RequestFacts
<1> HIDE DEF k1
<1>3. QueueOK(k1, b) /\ Queue(k1) = Queue(k)
  BY <1>1, <1>2 DEF QueueOK, Queue
<1>4. /\ q \in BlockType /\ SameCounts(k, q) /\ SameWaits(k, q) /\ SameCopy(k, q)
      /\ QueueOK(q, b) /\ Queue(q) = Queue(k) \cup {t}
  BY <1>1, <1>m, QueuedFacts
<1>5. /\ q1 \in BlockType /\ SameCounts(k1, q1) /\ SameWaits(k1, q1) /\ SameCopy(k1, q1)
      /\ QueueOK(q1, b) /\ Queue(q1) = Queue(k1) \cup {t}
  BY <1>2, <1>3, <1>m, QueuedFacts
<1> HIDE DEF q, q1
<1>6. LocksOK(q, h, b) /\ LocksOK(q1, h, b)
  BY <1>1, <1>2, <1>4, <1>5 DEF LocksOK, SameCounts, Counts, Compatible
<1>7. SameWaits(k, q1) /\ SameCopy(k, q1)
  BY <1>2, <1>5 DEF SameWaits, SameCopy
<1>8. h \cup {} = h
  OBVIOUS
<1>9. CASE ~Valid(k, m)
  <2>1. r.block = q1 /\ r.to = {}
    BY <1>9 DEF TryLock, q1, k1
  <2> HIDE DEF r
  <2>2. Queue(r.block) = Queue(k) \cup {t} /\ LocksOK(r.block, h \cup r.to, b)
    BY <2>1, <1>3, <1>5, <1>6, <1>8
  <2>3. r.block \in BlockType /\ SameWaits(k, r.block) /\ SameCopy(k, r.block)
    BY <2>1, <1>5, <1>7
  <2>4. QED
    BY <2>1, <2>2, <2>3 DEF r
<1>10. CASE Valid(k, m) /\ Admits(k, m)
  <2>1. r.block = Locked(k, m) /\ r.to = {t}
    BY <1>10 DEF TryLock
  <2>2. k.valid # "invalid"
    BY <1>10 DEF Valid
  <2>3. /\ Locked(k, m) \in BlockType /\ LocksOK(Locked(k, m), h \cup {t}, b)
        /\ Locked(k, m).waitlist = k.waitlist /\ SameWaits(k, Locked(k, m)) /\ SameCopy(k, Locked(k, m))
    BY <1>10, <1>m, LockStep
  <2> HIDE DEF r
  <2>4. Queue(r.block) = Queue(k)
    BY <2>1, <2>3 DEF Queue
  <2>5. QED
    BY <2>1, <2>2, <2>3, <2>4 DEF r
<1>11. CASE Valid(k, m) /\ ~Admits(k, m)
  <2>1. r.block = q /\ r.to = {}
    BY <1>11 DEF TryLock, q
  <2> HIDE DEF r
  <2>2. QED
    BY <2>1, <1>4, <1>6, <1>8 DEF r
<1>12. QED
  BY <1>9, <1>10, <1>11

(* unlock: the copies outside are dropped only if no task still writes.    *)
WrittenBy(h, b) == \E u \in h : Writes(LockMode(u, b))
SameValid(k, l) == l.valid = k.valid

LEMMA UnlockFacts ==
  ASSUME NEW b, NEW k \in BlockType, NEW h \in SUBSET Tasks, LocksOK(k, h, b), Listed(k),
         Queue(k) \cap h = {}, NEW t, t \in h, LockMode(t, b) \in LockModes
  PROVE  LET r == Grant(Updated(Unlocked(k, LockMode(t, b)))) IN
         /\ Held(k, LockMode(t, b))
         /\ r.block \in BlockType /\ SameWaits(k, r.block) /\ SameValid(k, r.block) /\ Listed(r.block)
         /\ LocksOK(r.block, (h \ {t}) \cup r.to, b)
         /\ r.to \subseteq Queue(k) /\ Queue(r.block) = Queue(k) \ r.to
         /\ r.to # {} => k.valid # "invalid"
         /\ WrittenBy(h \ {t}, b) => SameCopy(k, r.block)
<1> DEFINE m  == LockMode(t, b)
           k1 == Unlocked(k, m)
           k2 == Updated(k1)
           r  == Grant(k2)
           g  == h \ {t}
<1>g. g \in SUBSET Tasks
  OBVIOUS
<1>1. /\ Held(k, m) /\ k1 \in BlockType /\ LocksOK(k1, g, b)
      /\ k1.waitlist = k.waitlist /\ SameWaits(k, k1) /\ SameCopy(k, k1)
  BY UnlockStep
<1> HIDE DEF k1
<1>2. Listed(k1)
  BY <1>1 DEF Listed, SameCopy
<1>3. /\ k2 \in BlockType /\ SameLocks(k1, k2) /\ SameWaits(k1, k2) /\ k2.valid = k1.valid /\ Listed(k2)
      /\ Writing(k1) => k2 = k1
  BY <1>1, <1>2, UpdatedFacts
<1> HIDE DEF k2
<1>4. LocksOK(k2, g, b) /\ Queue(k2) = Queue(k)
  <2>1. QueueOK(k2, b) /\ Queue(k2) = Queue(k)
    BY <1>1, <1>3 DEF LocksOK, SameLocks, QueueOK, Queue
  <2> HIDE DEF g
  <2>2. Counts(k2, g, b) /\ Compatible(k2)
    BY <1>1, <1>3 DEF LocksOK, SameLocks, Counts, Compatible
  <2>3. QED
    BY <2>1, <2>2 DEF LocksOK
<1>5. Queue(k2) \cap g = {}
  BY <1>4
<1> HIDE DEF g
<1>6. /\ r.block \in BlockType /\ SameWaits(k2, r.block) /\ SameCopy(k2, r.block)
      /\ LocksOK(r.block, g \cup r.to, b)
      /\ r.to \subseteq Queue(k2) /\ Queue(r.block) = Queue(k2) \ r.to
      /\ r.to # {} => k2.valid # "invalid"
  BY <1>g, <1>3, <1>4, <1>5, GrantFacts
<1> HIDE DEF r
<1>7. SameWaits(k, r.block) /\ SameValid(k, r.block) /\ Listed(r.block)
  BY <1>1, <1>3, <1>6 DEF SameWaits, SameCopy, SameValid, Listed
<1>8. ASSUME NEW u \in g, Writes(LockMode(u, b)) PROVE SameCopy(k, r.block)
  <2>1. Counts(k1, g, b)
    BY <1>1 DEF LocksOK
  <2>2. Writing(k1)
    <3>1. CASE LockMode(u, b) = "EW"
      BY <3>1, <2>1 DEF Counts, In, Writing
    <3>2. CASE LockMode(u, b) = "RW"
      <4>1. \A S : /\ Cardinality(In(g, b, S)) \in Nat
                   /\ Cardinality(In(g, b, S)) = 0 <=> \A v \in g : LockMode(v, b) \notin S
        BY <1>g, InFacts
      <4>2. Cardinality(In(g, b, {"RW"})) # 0
        BY <4>1, <3>2
      <4>3. QED
        BY <4>1, <4>2, <2>1 DEF Counts, Writing
    <3>3. QED
      BY <3>1, <3>2, <1>8 DEF Writes
  <2>3. QED
    BY <2>2, <1>1, <1>3, <1>6 DEF SameCopy
<1>9. WrittenBy(g, b) => SameCopy(k, r.block)
  BY <1>8 DEF WrittenBy
<1>10. r.to # {} => k.valid # "invalid"
  BY <1>1, <1>3, <1>6 DEF SameCopy
<1>11. r.to \subseteq Queue(k) /\ Queue(r.block) = Queue(k) \ r.to
  BY <1>4, <1>6
<1>12. /\ Held(k, m) /\ r.block \in BlockType /\ SameWaits(k, r.block) /\ SameValid(k, r.block)
       /\ Listed(r.block) /\ LocksOK(r.block, g \cup r.to, b)
  BY <1>1, <1>6, <1>7
<1>13. Grant(Updated(Unlocked(k, LockMode(t, b)))) = r
  BY DEF r, k2, k1
<1>14. QED
  BY <1>9, <1>10, <1>11, <1>12, <1>13 DEF g

-----------------------------------------------------------------------------
(***************************************************************************)
(* Tasks: the blocks they have asked for.                                  *)
(***************************************************************************)
LEMMA OrderFacts ==
  ASSUME NEW t \in Tasks, NEW o \in TaskType, OrderOK(t, o)
  PROVE  /\ Len(o.ordered) \in Nat /\ DOMAIN o.ordered = 1..Len(o.ordered) /\ DOMAIN o.modes = DOMAIN o.ordered
         /\ Kept(o) \subseteq DOMAIN o.ordered /\ Kept(o) \subseteq Nat
         /\ \A i, j \in Kept(o) : o.ordered[i] = o.ordered[j] => i = j
         /\ \A i \in Kept(o) : /\ o.ordered[i] \in Needed(t) /\ o.ordered[i] \in Blocks
                               /\ o.modes[i] = LockMode(t, o.ordered[i]) /\ o.modes[i] \in LockModes
         /\ \A b \in Blocks : Owns(o, b) <=> \E i \in Kept(o) : o.ordered[i] = b
<1> DEFINE bs == OrderedGuids(t)
<1>1. o.ordered \in Seq(Blocks \cup {Null}) /\ o.modes \in Seq(Modes)
  BY DEF TaskType
<1>2. Len(o.ordered) \in Nat /\ DOMAIN o.ordered = 1..Len(o.ordered)
  BY <1>1
<1>3. CASE o.state = "created"
  <2>1. o.ordered = <<>> /\ o.modes = <<>>
    BY <1>3 DEF OrderOK
  <2>2. DOMAIN o.ordered = {} /\ DOMAIN o.modes = {} /\ Len(o.ordered) = 0
    BY <2>1
  <2>3. Kept(o) = {}
    BY <2>2 DEF Kept
  <2>4. \A b \in Blocks : ~Owns(o, b)
    BY <2>2 DEF Owns
  <2>5. DOMAIN o.ordered = 1..Len(o.ordered)
    BY <1>2
  <2>6. QED
    BY <2>2, <2>3, <2>4, <2>5
<1>4. CASE o.state # "created"
  <2>1. /\ DOMAIN o.ordered = DOMAIN bs /\ DOMAIN o.modes = DOMAIN bs
        /\ \A i \in DOMAIN bs : o.modes[i] = LockMode(t, bs[i]) /\ o.ordered[i] \in {bs[i], Null}
    BY <1>4 DEF OrderOK
  <2>2. /\ \A i \in DOMAIN bs : bs[i] \in Needed(t) /\ bs[i] # Null
        /\ \A i, j \in DOMAIN bs : bs[i] = bs[j] => i = j
    BY OrderedFacts
  <2> HIDE DEF bs
  <2>3. Kept(o) \subseteq DOMAIN bs /\ \A i \in Kept(o) : o.ordered[i] = bs[i]
    BY <2>1 DEF Kept
  <2>4. Kept(o) \subseteq Nat
    BY <2>3, <2>1, <1>2
  <2>5. \A i, j \in Kept(o) : o.ordered[i] = o.ordered[j] => i = j
    BY <2>2, <2>3
  <2>6. \A i \in Kept(o) : /\ o.ordered[i] \in Needed(t) /\ o.ordered[i] \in Blocks
                           /\ o.modes[i] = LockMode(t, o.ordered[i]) /\ o.modes[i] \in LockModes
    <3> TAKE i \in Kept(o)
    <3>1. o.ordered[i] = bs[i] /\ bs[i] \in Needed(t) /\ o.modes[i] = LockMode(t, bs[i])
      BY <2>1, <2>2, <2>3
    <3>2. bs[i] \in Blocks
      BY <3>1 DEF Needed
    <3>3. LockMode(t, bs[i]) \in LockModes
      BY <3>1, SlotModesFacts
    <3>4. QED
      BY <3>1, <3>2, <3>3
  <2>7. \A b \in Blocks : Owns(o, b) <=> \E i \in Kept(o) : o.ordered[i] = b
    <3>1. Null \notin Blocks
      BY TaskBlocksAssumption
    <3>2. QED
      BY <3>1 DEF Owns, Kept
  <2>8. QED
    BY <1>2, <2>1, <2>3, <2>4, <2>5, <2>6, <2>7
<1>5. QED
  BY <1>3, <1>4

LEMMA OwnsFacts ==
  ASSUME NEW t \in Tasks, NEW o \in TaskType, OrderOK(t, o), NEW b \in Blocks, Owns(o, b)
  PROVE  /\ Index(o, b) \in Kept(o) /\ o.ordered[Index(o, b)] = b
         /\ Mode(o, b) = LockMode(t, b) /\ LockMode(t, b) \in LockModes /\ b \in Needed(t)
         /\ \A i \in DOMAIN o.ordered : o.ordered[i] = b => i = Index(o, b)
<1> DEFINE n == Index(o, b)
<1>1. n \in DOMAIN o.ordered /\ o.ordered[n] = b
  BY DEF Owns, Index
<1> HIDE DEF n
<1>2. Null \notin Blocks
  BY TaskBlocksAssumption
<1>3. n \in Kept(o) /\ \A i \in DOMAIN o.ordered : o.ordered[i] = b => i \in Kept(o)
  BY <1>1, <1>2 DEF Kept
<1>4. /\ \A i, j \in Kept(o) : o.ordered[i] = o.ordered[j] => i = j
      /\ o.ordered[n] \in Needed(t) /\ o.modes[n] = LockMode(t, o.ordered[n]) /\ o.modes[n] \in LockModes
  BY <1>3, OrderFacts
<1>5. \A i \in DOMAIN o.ordered : o.ordered[i] = b => i = n
  BY <1>1, <1>3, <1>4
<1>6. QED
  BY <1>1, <1>3, <1>4, <1>5 DEF n, Mode

LEMMA KeptFinite ==
  ASSUME NEW t \in Tasks, NEW o \in TaskType, OrderOK(t, o), NEW I \in SUBSET Kept(o)
  PROVE  IsFiniteSet(I) /\ Cardinality(I) \in Nat
<1>1. IsFiniteSet(1..Len(o.ordered)) /\ I \subseteq 1..Len(o.ordered)
  <2>1. Len(o.ordered) \in Nat /\ I \subseteq 1..Len(o.ordered)
    BY OrderFacts
  <2>2. QED
    BY <2>1, FS_Interval
<1>2. IsFiniteSet(I)
  BY <1>1, FS_Subset
<1>3. QED
  BY <1>2, FS_CardinalityType

(* What a task holds or waits for it owns; it does not wait for what it    *)
(* holds, and for one block at most.                                       *)
LEMMA HoldsFacts ==
  ASSUME NEW t \in Tasks, NEW o \in TaskType, OrderOK(t, o), ProgressOK(o), NEW b \in Blocks
  PROVE  /\ HoldsOf(o, b) => Owns(o, b) /\ b \in Needed(t)
         /\ WaitsOf(o, b) => /\ Owns(o, b) /\ b \in Needed(t) /\ ~HoldsOf(o, b)
                             /\ \A c \in Blocks : WaitsOf(o, c) => c = b
<1>0. /\ Len(o.ordered) \in Nat /\ DOMAIN o.ordered = 1..Len(o.ordered) /\ Kept(o) \subseteq DOMAIN o.ordered
      /\ \A i, j \in Kept(o) : o.ordered[i] = o.ordered[j] => i = j
      /\ o.state \in Asking => Kept(o) = DOMAIN o.ordered
  BY OrderFacts DEF OrderOK, Asking
<1>a. o.acquired \in Int /\ o.state \in States
  BY DEF TaskType
<1>1. ASSUME HoldsOf(o, b) PROVE Owns(o, b)
  <2>1. CASE o.state \in {"locking", "spawned", "aside"}
    <3> DEFINE n == IF o.reading THEN o.acquired + 1 ELSE o.acquired
    <3>1. PICK i \in 1..n : o.ordered[i] = b
      BY <1>1, <2>1 DEF HoldsOf
    <3>2. n \in Int /\ n <= Len(o.ordered)
      BY <2>1, <1>0, <1>a DEF ProgressOK
    <3> HIDE DEF n
    <3>3. i \in DOMAIN o.ordered
      BY <3>2, <1>0
    <3>4. QED
      BY <3>1, <3>3 DEF Owns
  <2>2. CASE o.state \in {"running", "done"}
    BY <1>1, <2>2 DEF HoldsOf
  <2>3. CASE o.state = "releasing"
    <3>1. PICK i \in o.rest : o.ordered[i] = b
      BY <1>1, <2>3 DEF HoldsOf
    <3>2. i \in DOMAIN o.ordered
      BY <2>3, <1>0 DEF ProgressOK
    <3>3. QED
      BY <3>1, <3>2 DEF Owns
  <2>4. CASE o.state \in {"created", "ended"}
    BY <1>1, <2>4 DEF HoldsOf
  <2>5. QED
    BY <2>1, <2>2, <2>3, <2>4, <1>a DEF States
<1>2. ASSUME WaitsOf(o, b) PROVE Owns(o, b) /\ ~HoldsOf(o, b) /\ \A c \in Blocks : WaitsOf(o, c) => c = b
  <2>1. /\ o.state = "locking" /\ ~o.reading /\ o.acquired < Len(o.ordered) /\ o.ordered[o.acquired + 1] = b
        /\ o.acquired \in 0..Len(o.ordered)
    BY <1>2 DEF WaitsOf, Awaits, ProgressOK
  <2>2. o.acquired + 1 \in DOMAIN o.ordered
    BY <2>1, <1>0, <1>a
  <2>3. ~HoldsOf(o, b)
    <3>1. \A i \in 1..o.acquired : o.ordered[i] # b
      <4> SUFFICES ASSUME NEW i \in 1..o.acquired, o.ordered[i] = b PROVE FALSE
        OBVIOUS
      <4>1. i \in DOMAIN o.ordered /\ i # o.acquired + 1
        BY <2>1, <1>0, <1>a
      <4>2. QED
        BY <4>1, <2>1, <2>2, <1>0 DEF Asking
    <3>2. QED
      BY <3>1, <2>1 DEF HoldsOf
  <2>4. Owns(o, b)
    BY <2>1, <2>2 DEF Owns
  <2>5. QED
    BY <2>1, <2>3, <2>4 DEF WaitsOf, Awaits
<1>3. Owns(o, b) => b \in Needed(t)
  BY OwnsFacts
<1>4. QED
  BY <1>1, <1>2, <1>3

(* A task is granted the block it waits for.                               *)
LEMMA GivenFields ==
  ASSUME NEW o \in TaskType, NEW b \in Blocks, NEW k
  PROVE  LET p == Given(o, b, k) IN
         /\ p \in TaskType /\ p.acquired = o.acquired + 1 /\ p.trying = TRUE /\ p.reading = FALSE
         /\ p.state = o.state /\ p.ordered = o.ordered /\ p.modes = o.modes /\ p.rest = o.rest
         /\ p.torn = o.torn /\ p.todo = o.todo /\ p.gate = o.gate /\ p.cut = o.cut
         /\ p.grouped = o.grouped /\ p.groups = o.groups
         /\ k.valid # "invalid" => p.blank = o.blank
         /\ k.valid = "invalid" => p.blank = o.blank \cup {b}
<1> DEFINE p1 == [o EXCEPT !.acquired = @ + 1]
           p2 == [p1 EXCEPT !.trying = TRUE]
           p3 == [p2 EXCEPT !.reading = FALSE]
           bl == IF k.valid = "invalid" THEN o.blank \cup {b} ELSE o.blank
           p4 == [p3 EXCEPT !.blank = bl]
<1>1. Given(o, b, k) = p4
  BY DEF Given, TaskType
<1>2. bl \in SUBSET Blocks
  BY DEF TaskType
<1> HIDE DEF bl
<1>3. p1 \in TaskType
  <2>1. o.acquired + 1 \in Int
    BY DEF TaskType
  <2>2. QED
    BY <2>1 DEF TaskType
<1>4. p2 \in TaskType
  BY <1>3 DEF TaskType
<1>5. p3 \in TaskType
  BY <1>4 DEF TaskType
<1>6. p4 \in TaskType
  BY <1>5, <1>2 DEF TaskType
<1>7. /\ p4.acquired = o.acquired + 1 /\ p4.trying = TRUE /\ p4.reading = FALSE
      /\ p4.state = o.state /\ p4.ordered = o.ordered /\ p4.modes = o.modes /\ p4.rest = o.rest
      /\ p4.torn = o.torn /\ p4.todo = o.todo /\ p4.gate = o.gate /\ p4.cut = o.cut
      /\ p4.grouped = o.grouped /\ p4.groups = o.groups /\ p4.blank = bl
  BY DEF TaskType
<1> HIDE DEF p4
<1>8. /\ k.valid # "invalid" => p4.blank = o.blank
      /\ k.valid = "invalid" => p4.blank = o.blank \cup {b}
  BY <1>7 DEF bl
<1> DEFINE p == Given(o, b, k)
<1>9. p = p4
  BY <1>1
<1> HIDE DEF p
<1>10. p \in TaskType
  BY <1>6, <1>9
<1>11. /\ p.acquired = o.acquired + 1 /\ p.trying = TRUE /\ p.reading = FALSE
       /\ p.state = o.state /\ p.ordered = o.ordered /\ p.modes = o.modes /\ p.rest = o.rest
       /\ p.torn = o.torn /\ p.todo = o.todo /\ p.gate = o.gate /\ p.cut = o.cut
       /\ p.grouped = o.grouped /\ p.groups = o.groups
  BY <1>7, <1>9
<1>12. QED
  BY <1>8, <1>9, <1>10, <1>11 DEF p

LEMMA GivenStep ==
  ASSUME NEW t \in Tasks, NEW o \in TaskType, TaskOK(t, o), NEW b \in Blocks, NEW k,
         o.state = "locking", ~o.trying, Awaits(o, b)
  PROVE  LET p == Given(o, b, k) IN
         /\ p \in TaskType /\ TaskOK(t, p)
         /\ \A c \in Blocks : /\ HoldsOf(p, c) <=> HoldsOf(o, c) \/ c = b
                              /\ ~WaitsOf(p, c)
<1> DEFINE p == Given(o, b, k)
<1>1. /\ p \in TaskType /\ p.acquired = o.acquired + 1 /\ p.trying = TRUE /\ p.reading = FALSE
      /\ p.state = o.state /\ p.ordered = o.ordered /\ p.modes = o.modes /\ p.rest = o.rest
      /\ p.torn = o.torn /\ p.todo = o.todo /\ p.gate = o.gate /\ p.cut = o.cut
      /\ p.grouped = o.grouped /\ p.groups = o.groups
  <2>1. LET q == Given(o, b, k) IN
         /\ q \in TaskType /\ q.acquired = o.acquired + 1 /\ q.trying = TRUE /\ q.reading = FALSE
         /\ q.state = o.state /\ q.ordered = o.ordered /\ q.modes = o.modes /\ q.rest = o.rest
         /\ q.torn = o.torn /\ q.todo = o.todo /\ q.gate = o.gate /\ q.cut = o.cut
         /\ q.grouped = o.grouped /\ q.groups = o.groups
         /\ k.valid # "invalid" => q.blank = o.blank
         /\ k.valid = "invalid" => q.blank = o.blank \cup {b}
    BY GivenFields
  <2>2. QED
    BY <2>1
<1> HIDE DEF p
<1>2. OrderOK(t, p)
  BY <1>1 DEF TaskOK, OrderOK, Kept
<1>3. o.acquired \in Int /\ Len(o.ordered) \in Nat
  BY OrderFacts DEF TaskType, TaskOK
<1>4. o.acquired \in 0..Len(o.ordered) /\ o.acquired < Len(o.ordered) /\ o.ordered[o.acquired + 1] = b
  BY DEF TaskOK, ProgressOK, Awaits
<1>5. p.acquired \in 0..Len(p.ordered)
  BY <1>1, <1>3, <1>4
<1>6. ProgressOK(p)
  BY <1>1, <1>5 DEF TaskOK, ProgressOK
<1>7. CallsOK(p)
  BY <1>1 DEF TaskOK, CallsOK, Owns
<1>8. ASSUME NEW c \in Blocks PROVE (HoldsOf(p, c) <=> HoldsOf(o, c) \/ c = b) /\ ~WaitsOf(p, c)
  <2>1. HoldsOf(p, c) <=> \E i \in 1..(o.acquired + 1) : o.ordered[i] = c
    BY <1>1 DEF HoldsOf
  <2>2. CASE o.reading
    <3>1. HoldsOf(o, c) <=> \E i \in 1..(o.acquired + 1) : o.ordered[i] = c
      BY <2>2 DEF HoldsOf
    <3>2. o.acquired + 1 \in 1..(o.acquired + 1)
      BY <1>3, <1>4
    <3>3. QED
      BY <2>1, <3>1, <3>2, <1>1, <1>4 DEF WaitsOf
  <2>3. CASE ~o.reading
    <3>1. HoldsOf(o, c) <=> \E i \in 1..o.acquired : o.ordered[i] = c
      BY <2>3 DEF HoldsOf
    <3>2. \A i : i \in 1..(o.acquired + 1) <=> i \in 1..o.acquired \/ i = o.acquired + 1
      BY <1>3, <1>4
    <3>3. QED
      BY <2>1, <3>1, <3>2, <1>1, <1>4 DEF WaitsOf
  <2>4. QED
    BY <2>2, <2>3
<1>9. p \in TaskType /\ TaskOK(t, p)
  BY <1>1, <1>2, <1>6, <1>7 DEF TaskOK
<1>10. QED
  BY <1>8, <1>9 DEF p

-----------------------------------------------------------------------------
(***************************************************************************)
(* What a step leaves alone.                                               *)
(***************************************************************************)
Alike(o, p) ==      \* p is o, but for what it has acquired before it runs
  /\ p.state = o.state /\ p.ordered = o.ordered /\ p.rest = o.rest /\ p.cut = o.cut
  /\ p.todo = o.todo /\ p.gate = o.gate
  /\ o.state = "done" => p.acquired = o.acquired

LEMMA PendingFrame ==
  ASSUME NEW t, NEW o, NEW p, NEW bs, NEW cs, PendingOK(bs, t, o), Alike(o, p),
         \A c \in Blocks : /\ t \in cs[c].waiters <=> t \in bs[c].waiters
                           /\ t \in cs[c].told <=> t \in bs[c].told
  PROVE  PendingOK(cs, t, p)
<1>1. Unconfirmed(cs, t) = Unconfirmed(bs, t)
  BY DEF Unconfirmed
<1>2. \A b \in Unconfirmed(bs, t) : b \in Blocks
  BY DEF Unconfirmed
<1>3. p.state = "done" => p.acquired = Cardinality(p.rest) + Cardinality(Unconfirmed(cs, t))
  BY <1>1 DEF PendingOK, Alike
<1>4. ASSUME NEW b \in Unconfirmed(cs, t)
      PROVE  /\ p.state = "done" /\ Owns(p, b) /\ ~Left(p, b)
             /\ ~(t \in cs[b].waiters /\ t \in cs[b].told)
  <2>1. b \in Blocks /\ o.state = "done" /\ Owns(o, b) /\ ~Left(o, b) /\ ~(t \in bs[b].waiters /\ t \in bs[b].told)
    BY <1>1, <1>2, <1>4 DEF PendingOK
  <2>2. Owns(p, b) /\ ~Left(p, b)
    BY <2>1 DEF Alike, Owns, Left
  <2>3. QED
    BY <2>1, <2>2 DEF Alike
<1>5. QED
  BY <1>3, <1>4 DEF PendingOK

(* A task that does not wait for copies outside.                           *)
LEMMA PendingIdle ==
  ASSUME NEW t, NEW o, NEW p, NEW bs, PendingOK(bs, t, o), o.state # "done", p.state # "done"
  PROVE  PendingOK(bs, t, p)
  BY DEF PendingOK

LEMMA UnseenFrame ==
  ASSUME NEW t, NEW o, NEW p, NEW b, NEW k, NEW l, UnseenOK(k, t, o, b), Alike(o, p),
         l.copy = "none" => o.cut \/ k.copy = "none", t \in k.waiters => t \in l.waiters
  PROVE  UnseenOK(l, t, p, b)
<1>1. CASE o.cut
  BY <1>1 DEF UnseenOK, Alike
<1>2. CASE ~o.cut
  <2>1. /\ k.copy # "none" /\ Owns(o, b) /\ Writes(LockMode(t, b))
        /\ Shut(o, b) \/ (o.state = "done" /\ (t \in k.waiters \/ Left(o, b)))
    BY <1>2 DEF UnseenOK
  <2>2. l.copy # "none" /\ Owns(p, b)
    BY <2>1, <1>2 DEF Alike, Owns
  <2>3. Shut(o, b) => Shut(p, b)
    BY DEF Alike, Shut
  <2>4. o.state = "done" /\ (t \in k.waiters \/ Left(o, b)) => p.state = "done" /\ (t \in l.waiters \/ Left(p, b))
    BY DEF Alike, Left
  <2>5. QED
    BY <2>1, <2>2, <2>3, <2>4 DEF UnseenOK
<1>3. QED
  BY <1>1, <1>2

LEMMA GatesFrame ==
  ASSUME NEW t, NEW o, NEW p, NEW b, NEW k, NEW l, GatesOK(k, t, o, b), Alike(o, p),
         t \in l.gates => t \in k.gates
  PROVE  GatesOK(l, t, p, b)
  BY DEF GatesOK, Alike, Shut

(* Steps that change tasks alone, those of T.                              *)
LEMMA TasksStep ==
  ASSUME IInv, block' = block, faults' = {}, task' \in [Tasks -> TaskType], NEW T \in SUBSET Tasks,
         \A u \in Tasks \ T : task'[u] = task[u],
         \A u \in T :
           /\ TaskOK(u, task'[u]) /\ PendingOK(block, u, task'[u]) /\ ReadOK(block, task'[u])
           /\ \A c \in Blocks : /\ HoldsOf(task'[u], c) <=> HoldsOf(task[u], c)
                                /\ WaitsOf(task'[u], c) <=> WaitsOf(task[u], c)
                                /\ GatesOK(block[c], u, task'[u], c)
                                /\ u \in unseen'[c] => UnseenOK(block[c], u, task'[u], c),
         unseen' \in [Blocks -> SUBSET Tasks],
         \A c \in Blocks : unseen'[c] \subseteq unseen[c] \cup T
  PROVE  IInv'
<1>1. \A t \in Tasks : TaskOK(t, task'[t]) /\ PendingOK(block, t, task'[t]) /\ ReadOK(block, task'[t])
  <2> TAKE t \in Tasks
  <2>1. CASE t \in T
    BY <2>1
  <2>2. CASE t \notin T
    BY <2>2 DEF IInv
  <2>3. QED
    BY <2>1, <2>2
<1>2. \A b \in Blocks : HoldersOf(task', b) = HoldersOf(task, b) /\ WaitersOf(task', b) = WaitersOf(task, b)
  <2> TAKE b \in Blocks
  <2>1. \A t \in Tasks : /\ HoldsOf(task'[t], b) <=> HoldsOf(task[t], b)
                         /\ WaitsOf(task'[t], b) <=> WaitsOf(task[t], b)
    OBVIOUS
  <2>2. QED
    BY <2>1 DEF HoldersOf, WaitersOf
<1>3. \A b \in Blocks : BlockOK(block[b], task', b)
  BY <1>2 DEF IInv, BlockOK
<1>4. \A b \in Blocks : unseen'[b] \subseteq Tasks
  OBVIOUS
<1>5. \A b \in Blocks : CopyOK(block[b], unseen'[b], task', b)
  <2> TAKE b \in Blocks
  <2>0. CopyOK(block[b], unseen[b], task, b)
    BY DEF IInv
  <2>1. ASSUME NEW t \in unseen'[b] PROVE UnseenOK(block[b], t, task'[t], b)
    <3>1. CASE t \in T
      BY <3>1, <2>1
    <3>2. CASE t \notin T
      <4>1. t \in unseen[b] /\ task'[t] = task[t]
        BY <3>2, <2>1, <1>4
      <4>2. QED
        BY <4>1, <2>0 DEF CopyOK
    <3>3. QED
      BY <3>1, <3>2
  <2>2. ASSUME NEW t \in Tasks PROVE GatesOK(block[b], t, task'[t], b)
    <3>1. CASE t \in T
      BY <3>1
    <3>2. CASE t \notin T
      BY <3>2, <2>0 DEF CopyOK
    <3>3. QED
      BY <3>1, <3>2
  <2>3. QED
    BY <2>1, <2>2 DEF CopyOK
<1>6. TypeOK'
  BY DEF IInv, TypeOK
<1>7. QED
  BY <1>1, <1>3, <1>5, <1>6 DEF IInv

(* What the invariant says of a task and a block.                          *)
LEMMA TaskFacts ==
  ASSUME IInv, NEW t \in Tasks
  PROVE  /\ task[t] \in TaskType /\ TaskOK(t, task[t]) /\ PendingOK(block, t, task[t]) /\ ReadOK(block, task[t])
         /\ \A c \in Blocks : /\ GatesOK(block[c], t, task[t], c)
                              /\ t \in unseen[c] => UnseenOK(block[c], t, task[t], c)
         /\ faults = {}
         /\ task \in [Tasks -> TaskType]
         /\ unseen \in [Blocks -> SUBSET Tasks]
<1>1. task \in [Tasks -> TaskType] /\ unseen \in [Blocks -> SUBSET Tasks] /\ faults = {}
  BY DEF IInv, TypeOK
<1>2. \A c \in Blocks : CopyOK(block[c], unseen[c], task, c)
  BY DEF IInv
<1>3. \A c \in Blocks : /\ GatesOK(block[c], t, task[t], c)
                        /\ t \in unseen[c] => UnseenOK(block[c], t, task[t], c)
  BY <1>2 DEF CopyOK
<1>4. TaskOK(t, task[t]) /\ PendingOK(block, t, task[t]) /\ ReadOK(block, task[t])
  BY DEF IInv
<1>5. task[t] \in TaskType
  BY <1>1
<1>6. QED
  BY <1>1, <1>3, <1>4, <1>5

LEMMA BlockFacts ==
  ASSUME IInv, NEW b \in Blocks
  PROVE  /\ block[b] \in BlockType /\ block \in [Blocks -> BlockType] /\ Listed(block[b])
         /\ LocksOK(block[b], HoldersOf(task, b), b) /\ Queue(block[b]) = WaitersOf(task, b)
         /\ HoldersOf(task, b) \in SUBSET Tasks /\ Queue(block[b]) \cap HoldersOf(task, b) = {}
         /\ \A u \in HoldersOf(task, b) \cup WaitersOf(task, b) : LockMode(u, b) \in LockModes
<1>1. block \in [Blocks -> BlockType] /\ BlockOK(block[b], task, b)
  BY DEF IInv, TypeOK
<1>2. LocksOK(block[b], HoldersOf(task, b), b) /\ Queue(block[b]) = WaitersOf(task, b) /\ Listed(block[b])
  BY <1>1 DEF BlockOK, Listed
<1>3. ASSUME NEW u \in Tasks
      PROVE  /\ HoldsOf(task[u], b) => b \in Needed(u)
             /\ WaitsOf(task[u], b) => b \in Needed(u) /\ ~HoldsOf(task[u], b)
  <2>1. task[u] \in TaskType /\ OrderOK(u, task[u]) /\ ProgressOK(task[u])
    BY TaskFacts DEF TaskOK
  <2>2. QED
    BY <2>1, HoldsFacts
<1>4. WaitersOf(task, b) \cap HoldersOf(task, b) = {}
  BY <1>3 DEF WaitersOf, HoldersOf
<1>5. \A u \in HoldersOf(task, b) \cup WaitersOf(task, b) : u \in Tasks /\ b \in Needed(u)
  BY <1>3 DEF WaitersOf, HoldersOf
<1>6. \A u \in HoldersOf(task, b) \cup WaitersOf(task, b) : LockMode(u, b) \in LockModes
  BY <1>5, SlotModesFacts
<1>7. HoldersOf(task, b) \in SUBSET Tasks
  BY DEF HoldersOf
<1>8. QED
  BY <1>1, <1>2, <1>4, <1>6, <1>7

(* A block that a task has locked to write to is written.                  *)
LEMMA WriterFacts ==
  ASSUME NEW b, NEW k, NEW h \in SUBSET Tasks, Counts(k, h, b), NEW u \in h, Writes(LockMode(u, b))
  PROVE  Writing(k)
<1>1. CASE LockMode(u, b) = "EW"
  BY <1>1 DEF Counts, In, Writing
<1>2. CASE LockMode(u, b) = "RW"
  <2>1. \A S : /\ Cardinality(In(h, b, S)) \in Nat
               /\ Cardinality(In(h, b, S)) = 0 <=> \A v \in h : LockMode(v, b) \notin S
    BY InFacts
  <2>2. Cardinality(In(h, b, {"RW"})) # 0
    BY <2>1, <1>2
  <2>3. QED
    BY <2>1, <2>2 DEF Counts, Writing
<1>3. QED
  BY <1>1, <1>2 DEF Writes

(* The tasks a copy outside is recalled for: unless one has left its gate, *)
(* the block is still written.                                             *)
LEMMA UnseenHolds ==
  ASSUME IInv, NEW b \in Blocks, NEW t \in unseen[b], ~task[t].cut
  PROVE  /\ t \in HoldersOf(task, b) /\ Writes(LockMode(t, b)) /\ block[b].copy # "none"
         /\ Writing(block[b])
<1>0. t \in Tasks
  BY DEF IInv, TypeOK
<1>1. UnseenOK(block[b], t, task[t], b)
  BY <1>0, TaskFacts
<1>2. /\ block[b].copy # "none" /\ Owns(task[t], b) /\ Writes(LockMode(t, b))
      /\ task[t].state \in {"running", "done"}
  BY <1>1 DEF UnseenOK, Shut
<1>3. t \in HoldersOf(task, b)
  BY <1>0, <1>2 DEF HoldersOf, HoldsOf
<1>4. Writing(block[b])
  BY <1>2, <1>3, BlockFacts, WriterFacts DEF LocksOK
<1>5. QED
  BY <1>2, <1>3, <1>4

(* Steps that change the block b: the tasks of T may change with it, those *)
(* of g are granted it.                                                    *)
LEMMA BlockStep ==
  ASSUME IInv, NEW b \in Blocks, NEW k \in BlockType, block' = [block EXCEPT ![b] = k],
         NEW T \in SUBSET Tasks, NEW g \in SUBSET Tasks, g \cap T = {},
         task' \in [Tasks -> TaskType],
         \A u \in Tasks \ T : task'[u] = IF u \in g THEN Given(task[u], b, k) ELSE task[u],
         \A u \in g : WaitsOf(task[u], b) /\ k.valid # "invalid",
         \A u \in T : /\ TaskOK(u, task'[u]) /\ PendingOK(block', u, task'[u]) /\ ReadOK(block', task'[u])
                      /\ \A c \in Blocks : /\ GatesOK(block'[c], u, task'[u], c)
                                           /\ u \in unseen'[c] => UnseenOK(block'[c], u, task'[u], c)
                      /\ \A c \in Blocks \ {b} : /\ HoldsOf(task'[u], c) <=> HoldsOf(task[u], c)
                                                 /\ WaitsOf(task'[u], c) <=> WaitsOf(task[u], c),
         LocksOK(k, {u \in T : HoldsOf(task'[u], b)} \cup (HoldersOf(task, b) \ T) \cup g, b),
         Queue(k) = {u \in T : WaitsOf(task'[u], b)} \cup (WaitersOf(task, b) \ (T \cup g)),
         Listed(k),
         \A u \in Tasks \ T : /\ u \in k.waiters <=> u \in block[b].waiters
                              /\ u \in k.told <=> u \in block[b].told
                              /\ u \in k.gates => u \in block[b].gates
                              /\ k.valid = "invalid" => block[b].valid = "invalid"
                              /\ u \in unseen[b] /\ k.copy = "none" => task[u].cut \/ block[b].copy = "none",
         unseen' \in [Blocks -> SUBSET Tasks],
         \A c \in Blocks : unseen'[c] \subseteq unseen[c] \cup T,
         faults' = {}
  PROVE  IInv'
<1>1. /\ block \in [Blocks -> BlockType] /\ task \in [Tasks -> TaskType]
      /\ \A u \in Tasks : TaskOK(u, task[u]) /\ PendingOK(block, u, task[u]) /\ ReadOK(block, task[u])
      /\ \A c \in Blocks : BlockOK(block[c], task, c) /\ CopyOK(block[c], unseen[c], task, c)
  BY DEF IInv, TypeOK
<1>2. block' \in [Blocks -> BlockType] /\ block'[b] = k /\ \A c \in Blocks \ {b} : block'[c] = block[c]
  BY <1>1
<1>3. ASSUME NEW u \in g
      PROVE  /\ TaskOK(u, task'[u]) /\ Alike(task[u], task'[u])
             /\ \A c \in Blocks : /\ HoldsOf(task'[u], c) <=> HoldsOf(task[u], c) \/ c = b
                                  /\ ~WaitsOf(task'[u], c)
             /\ \A c \in Blocks : WaitsOf(task[u], c) => c = b
             /\ task'[u].blank = task[u].blank /\ task'[u].torn = task[u].torn /\ ~task'[u].reading
  <2> DEFINE o == task[u]
             p == Given(o, b, k)
  <2>1. u \in Tasks /\ o \in TaskType /\ TaskOK(u, o) /\ WaitsOf(o, b) /\ task'[u] = p /\ k.valid # "invalid"
    BY <1>1
  <2> HIDE DEF o
  <2>2. o.state = "locking" /\ ~o.trying /\ ~o.reading /\ Awaits(o, b)
    BY <2>1 DEF WaitsOf
  <2>3. /\ p \in TaskType /\ TaskOK(u, p)
        /\ \A c \in Blocks : /\ HoldsOf(p, c) <=> HoldsOf(o, c) \/ c = b
                             /\ ~WaitsOf(p, c)
    BY <2>1, <2>2, GivenStep
  <2>4. /\ p.state = o.state /\ p.ordered = o.ordered /\ p.rest = o.rest /\ p.cut = o.cut
        /\ p.todo = o.todo /\ p.gate = o.gate /\ p.torn = o.torn /\ p.blank = o.blank /\ p.reading = FALSE
    <3>1. LET q == Given(o, b, k) IN
         /\ q \in TaskType /\ q.acquired = o.acquired + 1 /\ q.trying = TRUE /\ q.reading = FALSE
         /\ q.state = o.state /\ q.ordered = o.ordered /\ q.modes = o.modes /\ q.rest = o.rest
         /\ q.torn = o.torn /\ q.todo = o.todo /\ q.gate = o.gate /\ q.cut = o.cut
         /\ q.grouped = o.grouped /\ q.groups = o.groups
         /\ k.valid # "invalid" => q.blank = o.blank
         /\ k.valid = "invalid" => q.blank = o.blank \cup {b}
      BY <2>1, GivenFields
    <3>2. QED
      BY <3>1, <2>1
  <2> HIDE DEF p
  <2>5. Alike(o, p)
    BY <2>2, <2>4 DEF Alike
  <2>6. \A c \in Blocks : WaitsOf(o, c) => c = b
    BY <2>1, <2>2 DEF WaitsOf, Awaits
  <2>7. QED
    BY <2>1, <2>3, <2>4, <2>5, <2>6 DEF o
<1>4. ASSUME NEW u \in Tasks \ (T \cup g)
      PROVE  task'[u] = task[u] /\ TaskOK(u, task'[u]) /\ Alike(task[u], task'[u])
  <2>1. task'[u] = task[u]
    OBVIOUS
  <2>2. QED
    BY <2>1, <1>1 DEF Alike
<1>5. ASSUME NEW u \in Tasks, u \notin T
      PROVE  /\ TaskOK(u, task'[u]) /\ PendingOK(block', u, task'[u]) /\ ReadOK(block', task'[u])
             /\ \A c \in Blocks : /\ GatesOK(block'[c], u, task'[u], c)
                                  /\ u \in unseen'[c] => UnseenOK(block'[c], u, task'[u], c)
  <2>1. Alike(task[u], task'[u]) /\ TaskOK(u, task'[u])
    BY <1>3, <1>4, <1>5
  <2>2. \A c \in Blocks : /\ u \in block'[c].waiters <=> u \in block[c].waiters
                          /\ u \in block'[c].told <=> u \in block[c].told
                          /\ u \in block'[c].gates => u \in block[c].gates
    BY <1>2, <1>5
  <2>3. PendingOK(block', u, task'[u])
    BY <2>1, <2>2, <1>1, PendingFrame
  <2>4. ReadOK(block', task'[u])
    <3>0. ReadOK(block, task[u])
      BY <1>1
    <3>1. CASE u \in g
      BY <3>0, <3>1, <1>3 DEF ReadOK
    <3>2. CASE u \notin g
      <4>1. task'[u] = task[u]
        BY <3>2, <1>5, <1>4
      <4>2. \A c \in Blocks : block'[c].valid = "invalid" => block[c].valid = "invalid"
        BY <1>2, <1>5
      <4>3. QED
        BY <3>0, <4>1, <4>2 DEF ReadOK
    <3>3. QED
      BY <3>1, <3>2
  <2>5. ASSUME NEW c \in Blocks
        PROVE  /\ GatesOK(block'[c], u, task'[u], c)
               /\ u \in unseen'[c] => UnseenOK(block'[c], u, task'[u], c)
    <3>0. CopyOK(block[c], unseen[c], task, c)
      BY <1>1
    <3>1. GatesOK(block'[c], u, task'[u], c)
      <4>1. GatesOK(block[c], u, task[u], c)
        BY <3>0 DEF CopyOK
      <4>2. QED
        BY <4>1, <2>1, <2>2, GatesFrame
    <3>2. ASSUME u \in unseen'[c] PROVE UnseenOK(block'[c], u, task'[u], c)
      <4>1. u \in unseen[c]
        BY <3>2, <1>5
      <4>2. UnseenOK(block[c], u, task[u], c)
        BY <3>0, <4>1 DEF CopyOK
      <4>3. block'[c].copy = "none" => task[u].cut \/ block[c].copy = "none"
        BY <4>1, <1>2, <1>5
      <4>4. QED
        BY <4>2, <4>3, <2>1, <2>2, UnseenFrame
    <3>3. QED
      BY <3>1, <3>2
  <2>6. QED
    BY <2>1, <2>3, <2>4, <2>5
<1>6. ASSUME NEW c \in Blocks PROVE BlockOK(block'[c], task', c)
  <2>1. CASE c = b
    <3>1. HoldersOf(task', b) = {u \in T : HoldsOf(task'[u], b)} \cup (HoldersOf(task, b) \ T) \cup g
      BY <1>3, <1>4 DEF HoldersOf
    <3>2. WaitersOf(task', b) = {u \in T : WaitsOf(task'[u], b)} \cup (WaitersOf(task, b) \ (T \cup g))
      BY <1>3, <1>4 DEF WaitersOf
    <3>3. QED
      BY <2>1, <3>1, <3>2, <1>2 DEF BlockOK, Listed
  <2>2. CASE c # b
    <3>1. \A u \in Tasks : /\ HoldsOf(task'[u], c) <=> HoldsOf(task[u], c)
                           /\ WaitsOf(task'[u], c) <=> WaitsOf(task[u], c)
      <4> TAKE u \in Tasks
      <4>1. CASE u \in T
        BY <4>1, <2>2
      <4>2. CASE u \in g
        BY <4>2, <2>2, <1>3
      <4>3. CASE u \notin T /\ u \notin g
        BY <4>3, <1>4
      <4>4. QED
        BY <4>1, <4>2, <4>3
    <3>2. HoldersOf(task', c) = HoldersOf(task, c) /\ WaitersOf(task', c) = WaitersOf(task, c)
      BY <3>1 DEF HoldersOf, WaitersOf
    <3>3. QED
      BY <3>2, <2>2, <1>1, <1>2 DEF BlockOK
  <2>3. QED
    BY <2>1, <2>2
<1>7. \A u \in Tasks : /\ TaskOK(u, task'[u]) /\ PendingOK(block', u, task'[u]) /\ ReadOK(block', task'[u])
                       /\ \A c \in Blocks : /\ GatesOK(block'[c], u, task'[u], c)
                                            /\ u \in unseen'[c] => UnseenOK(block'[c], u, task'[u], c)
  BY <1>5
<1>8. \A c \in Blocks : unseen'[c] \subseteq Tasks
  OBVIOUS
<1>9. \A c \in Blocks : CopyOK(block'[c], unseen'[c], task', c)
  BY <1>7, <1>8 DEF CopyOK
<1>10. TypeOK'
  BY <1>2 DEF TypeOK
<1>11. QED
  BY <1>6, <1>7, <1>9, <1>10 DEF IInv

(* Steps about the copies of a block: its locks stay.                      *)
LEMMA CopyStep ==
  ASSUME IInv, NEW b \in Blocks, NEW k \in BlockType, block' = [block EXCEPT ![b] = k],
         SameLocks(block[b], k), Listed(k), NEW T \in SUBSET Tasks, task' \in [Tasks -> TaskType],
         \A u \in Tasks \ T : task'[u] = task[u],
         \A u \in T : /\ TaskOK(u, task'[u]) /\ PendingOK(block', u, task'[u]) /\ ReadOK(block', task'[u])
                      /\ \A c \in Blocks : /\ GatesOK(block'[c], u, task'[u], c)
                                           /\ u \in unseen'[c] => UnseenOK(block'[c], u, task'[u], c)
                                           /\ HoldsOf(task'[u], c) <=> HoldsOf(task[u], c)
                                           /\ WaitsOf(task'[u], c) <=> WaitsOf(task[u], c),
         \A u \in Tasks \ T : /\ u \in k.waiters <=> u \in block[b].waiters
                              /\ u \in k.told <=> u \in block[b].told
                              /\ u \in k.gates => u \in block[b].gates
                              /\ k.valid = "invalid" => block[b].valid = "invalid"
                              /\ u \in unseen[b] /\ k.copy = "none" => task[u].cut \/ block[b].copy = "none",
         unseen' \in [Blocks -> SUBSET Tasks],
         \A c \in Blocks : unseen'[c] \subseteq unseen[c] \cup T,
         faults' = {}
  PROVE  IInv'
<1> DEFINE g == {}
           h == {u \in T : HoldsOf(task'[u], b)} \cup (HoldersOf(task, b) \ T) \cup g
           w == {u \in T : WaitsOf(task'[u], b)} \cup (WaitersOf(task, b) \ (T \cup g))
<1>1. LocksOK(block[b], HoldersOf(task, b), b) /\ Queue(block[b]) = WaitersOf(task, b)
  BY BlockFacts
<1>2. h = HoldersOf(task, b) /\ w = WaitersOf(task, b)
  BY DEF HoldersOf, WaitersOf
<1> HIDE DEF h, w
<1>3. QueueOK(k, b) /\ Queue(k) = w
  BY <1>1, <1>2 DEF SameLocks, LocksOK, QueueOK, Queue
<1>4. Counts(k, h, b) /\ Compatible(k)
  BY <1>1, <1>2 DEF SameLocks, LocksOK, Counts, Compatible
<1>5. LocksOK(k, h, b)
  BY <1>3, <1>4 DEF LocksOK
<1>6. g \in SUBSET Tasks /\ g \cap T = {}
  OBVIOUS
<1>7. \A u \in Tasks \ T : task'[u] = IF u \in g THEN Given(task[u], b, k) ELSE task[u]
  OBVIOUS
<1>8. \A u \in g : WaitsOf(task[u], b) /\ k.valid # "invalid"
  OBVIOUS
<1> HIDE DEF g
<1>9. LocksOK(k, {u \in T : HoldsOf(task'[u], b)} \cup (HoldersOf(task, b) \ T) \cup g, b)
  BY <1>5 DEF h
<1>10. Queue(k) = {u \in T : WaitsOf(task'[u], b)} \cup (WaitersOf(task, b) \ (T \cup g))
  BY <1>3 DEF w
<1>11. \A u \in T :
         /\ TaskOK(u, task'[u]) /\ PendingOK(block', u, task'[u]) /\ ReadOK(block', task'[u])
         /\ \A c \in Blocks : /\ GatesOK(block'[c], u, task'[u], c)
                              /\ u \in unseen'[c] => UnseenOK(block'[c], u, task'[u], c)
         /\ \A c \in Blocks \ {b} : /\ HoldsOf(task'[u], c) <=> HoldsOf(task[u], c)
                                    /\ WaitsOf(task'[u], c) <=> WaitsOf(task[u], c)
  OBVIOUS
<1>12. QED
  BY <1>6, <1>7, <1>8, <1>9, <1>10, <1>11, BlockStep

-----------------------------------------------------------------------------
(***************************************************************************)
(* The calls of a task: r is s without its first d calls.                  *)
(***************************************************************************)
Suffix(s, r, d) ==
  /\ d \in Nat /\ Len(r) \in Nat /\ DOMAIN r = 1..Len(r) /\ DOMAIN s = 1..(Len(r) + d)
  /\ \A i \in 1..Len(r) : r[i] = s[i + d]

LEMMA ShiftNone ==
  ASSUME NEW s, NEW r, NEW d, Suffix(s, r, d), NEW i \in Nat \ {0}, NEW j \in Int, j <= Len(r)
  PROVE  NoneIn(r, i, j) <=> NoneIn(s, i + d, j + d)
<1>0. d \in Nat /\ Len(r) \in Nat /\ \A k \in 1..Len(r) : r[k] = s[k + d]
  BY DEF Suffix
<1>1. ASSUME NoneIn(r, i, j), NEW k \in (i + d)..(j + d) PROVE ~Bracket(s[k])
  <2>1. k - d \in i..j /\ k - d \in 1..Len(r) /\ (k - d) + d = k
    BY <1>0
  <2>2. ~Bracket(r[k - d])
    BY <2>1, <1>1 DEF NoneIn
  <2>3. r[k - d] = s[k]
    BY <2>1, <1>0
  <2>4. QED
    BY <2>2, <2>3
<1>2. ASSUME NoneIn(s, i + d, j + d), NEW k \in i..j PROVE ~Bracket(r[k])
  <2>1. k + d \in (i + d)..(j + d) /\ k \in 1..Len(r)
    BY <1>0
  <2>2. ~Bracket(s[k + d])
    BY <2>1, <1>2 DEF NoneIn
  <2>3. QED
    BY <2>1, <2>2, <1>0
<1>3. QED
  BY <1>1, <1>2 DEF NoneIn

LEMMA NoneSplit ==
  ASSUME NEW s, NEW i \in Int, NEW m \in Int, NEW j \in Int, i <= m + 1, m <= j
  PROVE  NoneIn(s, i, j) <=> NoneIn(s, i, m) /\ NoneIn(s, m + 1, j)
<1>1. \A k : k \in i..j <=> k \in i..m \/ k \in (m + 1)..j
  OBVIOUS
<1>2. QED
  BY <1>1 DEF NoneIn

(* Whether a call is in a group: the rest of the calls begins in one if    *)
(* its first call is in one.                                               *)
LEMMA ShiftInside ==
  ASSUME NEW s, NEW r, NEW d, Suffix(s, r, d), NEW g, NEW i \in 1..(Len(r) + 1)
  PROVE  Inside(r, Inside(s, g, d + 1), i) <=> Inside(s, g, i + d)
<1> DEFINE n  == Len(r)
           G  == Inside(s, g, d + 1)
           j  == i + d - 1
<1>0. d \in Nat /\ n \in Nat /\ (\A k \in 1..n : r[k] = s[k + d]) /\ i \in Nat /\ i - 1 <= n /\ j \in Int /\ d <= j
  BY DEF Suffix
<1>j. (i - 1) + d = j /\ (i + d) - 1 = j /\ (d + 1) - 1 = d /\ 1 + d = d + 1
  BY <1>0
<1>1. NoneIn(r, 1, i - 1) <=> NoneIn(s, d + 1, j)
  <2>1. 1 \in Nat \ {0} /\ i - 1 \in Int /\ i - 1 <= n
    BY <1>0
  <2> HIDE DEF j, n
  <2>2. NoneIn(r, 1, i - 1) <=> NoneIn(s, 1 + d, (i - 1) + d)
    BY <2>1, ShiftNone DEF n
  <2>3. QED
    BY <2>2, <1>j
<1>2. NoneIn(s, 1, j) <=> NoneIn(s, 1, d) /\ NoneIn(s, d + 1, j)
  BY <1>0, NoneSplit
<1>3. ASSUME NEW k \in 1..d
      PROVE  NoneIn(s, k + 1, j) <=> NoneIn(s, k + 1, d) /\ NoneIn(s, d + 1, j)
  <2>1. k + 1 \in Int /\ d \in Int /\ j \in Int /\ k + 1 <= d + 1 /\ d <= j
    BY <1>0
  <2>2. QED
    BY <2>1, NoneSplit
<1>4. ASSUME NEW k \in 1..(i - 1)
      PROVE  /\ k + d \in 1..j /\ r[k] = s[k + d]
             /\ NoneIn(r, k + 1, i - 1) <=> NoneIn(s, (k + d) + 1, j)
  <2>1. k \in 1..n /\ k + 1 \in Nat \ {0} /\ i - 1 \in Int /\ i - 1 <= n /\ (k + 1) + d = (k + d) + 1 /\ k + d \in 1..j
    BY <1>0
  <2> HIDE DEF j, n
  <2>2. NoneIn(r, k + 1, i - 1) <=> NoneIn(s, (k + 1) + d, (i - 1) + d)
    BY <2>1, ShiftNone DEF n
  <2>3. QED
    BY <2>1, <2>2, <1>0, <1>j
<1>5. G <=> \/ g /\ NoneIn(s, 1, d)
            \/ \E k \in 1..d : s[k].op = "begin" /\ NoneIn(s, k + 1, d)
  BY <1>j DEF Inside
<1>6. Inside(s, g, i + d) <=> \/ g /\ NoneIn(s, 1, j)
                              \/ \E k \in 1..j : s[k].op = "begin" /\ NoneIn(s, k + 1, j)
  BY <1>j DEF Inside
<1>7. Inside(r, G, i) <=> \/ G /\ NoneIn(r, 1, i - 1)
                          \/ \E k \in 1..(i - 1) : r[k].op = "begin" /\ NoneIn(r, k + 1, i - 1)
  BY DEF Inside
<1>k. \A k \in 1..j : k \in 1..d \/ (k - d \in 1..(i - 1) /\ (k - d) + d = k)
  BY <1>0
<1>l. \A k \in 1..d : k \in 1..j
  BY <1>0
<1> HIDE DEF G, j, n
<1>8. ASSUME Inside(s, g, i + d) PROVE Inside(r, G, i)
  <2>1. CASE g /\ NoneIn(s, 1, j)
    BY <2>1, <1>1, <1>2, <1>5, <1>7
  <2>2. ASSUME NEW k \in 1..j, s[k].op = "begin", NoneIn(s, k + 1, j) PROVE Inside(r, G, i)
    <3>1. CASE k \in 1..d
      <4>1. NoneIn(s, k + 1, d) /\ NoneIn(s, d + 1, j)
        BY <3>1, <2>2, <1>3
      <4>2. G
        BY <4>1, <3>1, <2>2, <1>5
      <4>3. QED
        BY <4>1, <4>2, <1>1, <1>7
    <3>2. CASE k - d \in 1..(i - 1) /\ (k - d) + d = k
      <4> DEFINE q == k - d
      <4>1. q \in 1..(i - 1) /\ q + d = k
        BY <3>2
      <4> HIDE DEF q
      <4>2. r[q].op = "begin" /\ NoneIn(r, q + 1, i - 1)
        BY <4>1, <2>2, <1>4
      <4>3. QED
        BY <4>1, <4>2, <1>7
    <3>3. QED
      BY <3>1, <3>2, <1>k
  <2>3. QED
    BY <2>1, <2>2, <1>6, <1>8
<1>9. ASSUME Inside(r, G, i) PROVE Inside(s, g, i + d)
  <2>1. ASSUME G, NoneIn(r, 1, i - 1) PROVE Inside(s, g, i + d)
    <3>1. NoneIn(s, d + 1, j)
      BY <2>1, <1>1
    <3>2. CASE g /\ NoneIn(s, 1, d)
      BY <3>1, <3>2, <1>2, <1>6
    <3>3. ASSUME NEW k \in 1..d, s[k].op = "begin", NoneIn(s, k + 1, d) PROVE Inside(s, g, i + d)
      <4>1. NoneIn(s, k + 1, j) /\ k \in 1..j
        BY <3>1, <3>3, <1>3, <1>l
      <4>2. QED
        BY <4>1, <3>3, <1>6
    <3>4. QED
      BY <3>2, <3>3, <2>1, <1>5
  <2>2. ASSUME NEW k \in 1..(i - 1), r[k].op = "begin", NoneIn(r, k + 1, i - 1) PROVE Inside(s, g, i + d)
    <3>1. k + d \in 1..j /\ s[k + d].op = "begin" /\ NoneIn(s, (k + d) + 1, j)
      BY <2>2, <1>4
    <3>2. QED
      BY <3>1, <1>6
  <2>3. QED
    BY <2>1, <2>2, <1>7, <1>9
<1>10. QED
  BY <1>8, <1>9 DEF G

(* What the rest of the calls keeps of the shape of all.                   *)
LEMMA SuffixShape ==
  ASSUME NEW s, NEW r, NEW d, Suffix(s, r, d), NEW g, Bracketed(s, g), DroppedLast(s, g)
  PROVE  LET G == Inside(s, g, d + 1) IN Bracketed(r, G) /\ DroppedLast(r, G)
<1> DEFINE n == Len(r)
           G == Inside(s, g, d + 1)
<1>0. /\ d \in Nat /\ n \in Nat /\ DOMAIN r = 1..n /\ DOMAIN s = 1..(n + d)
      /\ \A i \in 1..n : r[i] = s[i + d]
  BY DEF Suffix
<1>1. \A i \in 1..n : i + d \in DOMAIN s /\ i \in 1..(n + 1)
  BY <1>0
<1>2. \A i \in 1..n : Inside(r, G, i) <=> Inside(s, g, i + d)
  BY <1>1, ShiftInside
<1>3. ASSUME NEW j \in DOMAIN s, d < j
      PROVE  /\ j - d \in 1..n /\ (j - d) + d = j /\ r[j - d] = s[j]
             /\ \A i \in Nat \ {0} : NoneIn(s, i + d, j - 1) <=> NoneIn(r, i, (j - d) - 1)
  <2>1. j - d \in 1..n /\ (j - d) + d = j
    BY <1>0, <1>3
  <2>2. (j - d) - 1 \in Int /\ (j - d) - 1 <= n /\ ((j - d) - 1) + d = j - 1
    BY <1>0, <1>3
  <2> DEFINE q == (j - d) - 1
  <2> HIDE DEF q
  <2>3. \A i \in Nat \ {0} : NoneIn(r, i, q) <=> NoneIn(s, i + d, q + d)
    <3>1. q \in Int /\ q <= Len(r)
      BY <2>2 DEF q
    <3>2. QED
      BY <3>1, ShiftNone
  <2>4. \A i \in Nat \ {0} : NoneIn(s, i + d, j - 1) <=> NoneIn(r, i, (j - d) - 1)
    BY <2>2, <2>3 DEF q
  <2>5. QED
    BY <2>1, <2>4, <1>0
<1>4. ASSUME NEW i \in DOMAIN r, r[i].op = "begin"
      PROVE  \E j \in DOMAIN r : i < j /\ r[j].op = "end" /\ NoneIn(r, i + 1, j - 1)
  <2>1. i + d \in DOMAIN s /\ s[i + d].op = "begin" /\ i \in Nat /\ i + 1 \in Nat \ {0}
    BY <1>0, <1>1, <1>4
  <2>2. PICK j \in DOMAIN s : i + d < j /\ s[j].op = "end" /\ NoneIn(s, (i + d) + 1, j - 1)
    BY <2>1 DEF Bracketed
  <2>3. d < j /\ (i + d) + 1 = (i + 1) + d /\ i < j - d
    BY <2>1, <2>2, <1>0
  <2>4. NoneIn(s, (i + 1) + d, j - 1)
    BY <2>2, <2>3
  <2>5. j - d \in DOMAIN r /\ r[j - d].op = "end" /\ NoneIn(r, i + 1, (j - d) - 1)
    BY <2>1, <2>2, <2>3, <2>4, <1>0, <1>3
  <2>6. QED
    BY <2>3, <2>5
<1>5. ASSUME NEW j \in DOMAIN r, r[j].op = "end" PROVE Inside(r, G, j)
  BY <1>0, <1>1, <1>2, <1>5 DEF Bracketed
<1>6. ASSUME G PROVE \E j \in DOMAIN r : r[j].op = "end" /\ NoneIn(r, 1, j - 1)
  <2>d. (d + 1) - 1 = d /\ 1 + d = d + 1
    BY <1>0
  <2>1. G <=> \/ g /\ NoneIn(s, 1, d)
              \/ \E k \in 1..d : s[k].op = "begin" /\ NoneIn(s, k + 1, d)
    BY <2>d DEF Inside
  (* The first call after those that ends a group.                         *)
  <2>2. ASSUME NEW k \in 0..d, NoneIn(s, k + 1, d), NEW j \in DOMAIN s, k < j, s[j].op = "end",
               NoneIn(s, k + 1, j - 1)
        PROVE  \E i \in DOMAIN r : r[i].op = "end" /\ NoneIn(r, 1, i - 1)
    <3>1. d < j
      <4>1. j \notin (k + 1)..d
        BY <2>2 DEF NoneIn, Bracket
      <4>2. j \in Int
        BY <1>0
      <4>3. QED
        BY <4>1, <4>2, <2>2, <1>0
    <3>2. NoneIn(s, 1 + d, j - 1)
      <4>1. \A i \in (1 + d)..(j - 1) : i \in (k + 1)..(j - 1)
        BY <1>0
      <4>2. QED
        BY <4>1, <2>2 DEF NoneIn
    <3>3. j - d \in 1..n /\ r[j - d].op = "end" /\ NoneIn(r, 1, (j - d) - 1)
      <4>1. 1 \in Nat \ {0}
        OBVIOUS
      <4>2. QED
        BY <4>1, <3>1, <3>2, <2>2, <1>3
    <3>4. QED
      BY <3>3, <1>0
  <2> HIDE DEF G
  <2>3. CASE g /\ NoneIn(s, 1, d)
    <3>1. PICK j \in DOMAIN s : s[j].op = "end" /\ NoneIn(s, 1, j - 1)
      BY <2>3 DEF Bracketed
    <3>2. 0 \in 0..d /\ 0 + 1 = 1 /\ 0 < j
      BY <1>0
    <3>3. QED
      BY <3>1, <3>2, <2>2, <2>3
  <2>4. CASE \E k \in 1..d : s[k].op = "begin" /\ NoneIn(s, k + 1, d)
    <3>1. PICK k \in 1..d : s[k].op = "begin" /\ NoneIn(s, k + 1, d)
      BY <2>4
    <3>2. k \in 0..d /\ k \in DOMAIN s
      BY <1>0
    <3>3. PICK j \in DOMAIN s : k < j /\ s[j].op = "end" /\ NoneIn(s, k + 1, j - 1)
      BY <3>1, <3>2 DEF Bracketed
    <3>4. QED
      BY <3>1, <3>2, <3>3, <2>2
  <2>5. QED
    BY <2>1, <2>3, <2>4, <1>6
<1>7. ASSUME NEW b \in Blocks, NEW i \in DOMAIN r, NEW j \in DOMAIN r, i < j, Drops(r[i], b), Gives(r[j], b)
      PROVE  Inside(r, G, i) /\ \A k \in i..j : r[k].op # "end"
  <2>1. i + d \in DOMAIN s /\ j + d \in DOMAIN s /\ i + d < j + d /\ i \in 1..n /\ j \in 1..n
    BY <1>0, <1>1, <1>7
  <2>2. Drops(s[i + d], b) /\ Gives(s[j + d], b)
    BY <2>1, <1>0, <1>7
  <2>3. Inside(s, g, i + d) /\ \A k \in (i + d)..(j + d) : s[k].op # "end"
    BY <2>1, <2>2 DEF DroppedLast
  <2>4. ASSUME NEW k \in i..j PROVE r[k].op # "end"
    <3>1. k \in 1..n /\ k + d \in (i + d)..(j + d)
      BY <2>1, <1>0
    <3>2. QED
      BY <3>1, <2>3, <1>0
  <2>5. QED
    BY <2>1, <2>3, <2>4, <1>2
<1> HIDE DEF G
<1>8. Bracketed(r, G)
  BY <1>4, <1>5, <1>6 DEF Bracketed
<1>9. DroppedLast(r, G)
  BY <1>7 DEF DroppedLast
<1>10. QED
  BY <1>8, <1>9 DEF G

(* Calls without brackets put before others that begin outside a group.    *)
LEMMA PrefixShape ==
  ASSUME NEW s, NEW r, NEW d, Suffix(s, r, d), Bracketed(r, FALSE), DroppedLast(r, FALSE),
         NoneIn(s, 1, d),
         \A b \in Blocks : \A i \in 1..d : \A j \in DOMAIN s : i < j /\ Drops(s[i], b) => ~Gives(s[j], b)
  PROVE  Bracketed(s, FALSE) /\ DroppedLast(s, FALSE)
<1> DEFINE n == Len(r)
<1>0. /\ d \in Nat /\ n \in Nat /\ DOMAIN r = 1..n /\ DOMAIN s = 1..(n + d)
      /\ \A i \in 1..n : r[i] = s[i + d]
  BY DEF Suffix
<1>1. \A i \in DOMAIN s : (i \in 1..d /\ ~Bracket(s[i])) \/ (d < i /\ i - d \in 1..n /\ (i - d) + d = i /\ r[i - d] = s[i])
  <2> TAKE i \in DOMAIN s
  <2>1. i \in 1..d \/ (d < i /\ i - d \in 1..n /\ (i - d) + d = i)
    BY <1>0
  <2>2. i \in 1..d => ~Bracket(s[i])
    BY DEF NoneIn
  <2>3. QED
    BY <2>1, <2>2, <1>0
<1>2. ~Inside(s, FALSE, d + 1)
  <2>1. (d + 1) - 1 = d
    BY <1>0
  <2>2. \A k \in 1..d : ~Bracket(s[k])
    BY DEF NoneIn
  <2>3. QED
    BY <2>1, <2>2 DEF Inside, Bracket
<1>3. \A i \in 1..n : Inside(r, FALSE, i) <=> Inside(s, FALSE, i + d)
  <2> TAKE i \in 1..n
  <2>1. i \in 1..(n + 1)
    BY <1>0
  <2>2. Inside(r, Inside(s, FALSE, d + 1), i) <=> Inside(s, FALSE, i + d)
    BY <2>1, ShiftInside
  <2>3. QED
    BY <2>2, <1>2 DEF Inside
<1>4. ASSUME NEW i \in DOMAIN s, s[i].op = "begin"
      PROVE  \E j \in DOMAIN s : i < j /\ s[j].op = "end" /\ NoneIn(s, i + 1, j - 1)
  <2> DEFINE q == i - d
  <2>1. q \in 1..n /\ q + d = i /\ r[q] = s[i] /\ (q + 1) + d = i + 1 /\ q + 1 \in Nat \ {0}
    <3>1. d < i /\ q \in 1..n /\ q + d = i /\ r[q] = s[i]
      BY <1>1, <1>4 DEF Bracket
    <3>2. (q + 1) + d = i + 1 /\ q + 1 \in Nat \ {0}
      BY <3>1, <1>0
    <3>3. QED
      BY <3>1, <3>2
  <2> HIDE DEF q
  <2>2. PICK j \in DOMAIN r : q < j /\ r[j].op = "end" /\ NoneIn(r, q + 1, j - 1)
    BY <2>1, <1>0, <1>4 DEF Bracketed
  <2>3. j \in 1..n /\ j + d \in DOMAIN s /\ s[j + d].op = "end" /\ i < j + d /\ j - 1 \in Int /\ j - 1 <= n
        /\ (j - 1) + d = (j + d) - 1
    BY <2>1, <2>2, <1>0
  <2>4. NoneIn(s, (q + 1) + d, (j - 1) + d)
    BY <2>1, <2>2, <2>3, ShiftNone
  <2>5. NoneIn(s, i + 1, (j + d) - 1)
    BY <2>1, <2>3, <2>4
  <2>6. QED
    BY <2>3, <2>5
<1>5. ASSUME NEW j \in DOMAIN s, s[j].op = "end" PROVE Inside(s, FALSE, j)
  <2> DEFINE q == j - d
  <2>1. q \in 1..n /\ q + d = j /\ r[q] = s[j]
    BY <1>1, <1>5 DEF Bracket
  <2> HIDE DEF q
  <2>2. Inside(r, FALSE, q)
    BY <2>1, <1>0, <1>5 DEF Bracketed
  <2>3. QED
    BY <2>1, <2>2, <1>3
<1>6. ASSUME NEW b \in Blocks, NEW i \in DOMAIN s, NEW j \in DOMAIN s, i < j, Drops(s[i], b), Gives(s[j], b)
      PROVE  Inside(s, FALSE, i) /\ \A k \in i..j : s[k].op # "end"
  <2> DEFINE p == i - d
             q == j - d
  <2>1. i \notin 1..d
    BY <1>6
  <2>2. d < i /\ p \in 1..n /\ p + d = i /\ r[p] = s[i]
    BY <2>1, <1>1
  <2>3. d < j
    BY <2>2, <1>0, <1>6
  <2>4. q \in 1..n /\ q + d = j /\ r[q] = s[j]
    BY <2>3, <1>0, <1>1
  <2>5. p < q
    BY <1>0, <1>6
  <2> HIDE DEF p, q
  <2>6. Inside(r, FALSE, p) /\ \A k \in p..q : r[k].op # "end"
    BY <2>2, <2>4, <2>5, <1>0, <1>6 DEF DroppedLast
  <2>7. ASSUME NEW k \in i..j PROVE s[k].op # "end"
    <3>1. k - d \in p..q /\ k - d \in 1..n /\ (k - d) + d = k
      BY <2>2, <2>4, <1>0
    <3>2. QED
      BY <3>1, <2>6, <1>0
  <2>8. QED
    BY <2>2, <2>6, <2>7, <1>3
<1>7. QED
  BY <1>4, <1>5, <1>6 DEF Bracketed, DroppedLast

-----------------------------------------------------------------------------
(***************************************************************************)
(* The first call, and the rest.                                           *)
(***************************************************************************)
LEMMA TailFacts ==
  ASSUME NEW s \in Seq(Calls), s # <<>>
  PROVE  /\ Tail(s) \in Seq(Calls) /\ Suffix(s, Tail(s), 1) /\ Head(s) = s[1] /\ s[1] \in Calls
         /\ 1 \in DOMAIN s /\ DOMAIN Tail(s) = 1..Len(Tail(s)) /\ Len(Tail(s)) \in Nat
         /\ \A i \in DOMAIN Tail(s) : Tail(s)[i] = s[i + 1] /\ i + 1 \in DOMAIN s /\ i + 1 # 1 /\ i \in Nat
         /\ \A i \in DOMAIN s : i = 1 \/ (i - 1 \in DOMAIN Tail(s) /\ (i - 1) + 1 = i)
<1> DEFINE n == Len(s)
           r == Tail(s)
<1>1. n \in Nat /\ n # 0 /\ DOMAIN s = 1..n
  OBVIOUS
<1>2. r \in Seq(Calls) /\ Len(r) = n - 1
  BY <1>1
<1>3. \A i \in 1..(n - 1) : r[i] = s[i + 1]
  BY <1>1
<1>4. Len(r) \in Nat /\ DOMAIN r = 1..Len(r) /\ Len(r) + 1 = n
  BY <1>1, <1>2
<1>5. Head(s) = s[1] /\ 1 \in DOMAIN s /\ s[1] \in Calls
  BY <1>1
<1> HIDE DEF n, r
<1>6. \A i \in DOMAIN r : r[i] = s[i + 1] /\ i + 1 \in DOMAIN s /\ i + 1 # 1 /\ i \in Nat
  BY <1>1, <1>2, <1>3, <1>4
<1>7. \A i \in DOMAIN s : i = 1 \/ (i - 1 \in DOMAIN r /\ (i - 1) + 1 = i)
  BY <1>1, <1>2, <1>4
<1>8. Suffix(s, r, 1)
  BY <1>1, <1>4, <1>6 DEF Suffix
<1>9. QED
  BY <1>2, <1>4, <1>5, <1>6, <1>7, <1>8 DEF r

LEMMA TailShape ==
  ASSUME NEW s \in Seq(Calls), s # <<>>, NEW g \in BOOLEAN, Bracketed(s, g), DroppedLast(s, g)
  PROVE  LET r == Tail(s) IN
         /\ Head(s).op = "begin" => ~g /\ Bracketed(r, TRUE) /\ DroppedLast(r, TRUE)
         /\ Head(s).op = "end" => g /\ Bracketed(r, FALSE) /\ DroppedLast(r, FALSE)
         /\ ~Bracket(Head(s)) => Bracketed(r, g) /\ DroppedLast(r, g)
<1> DEFINE r == Tail(s)
           G == Inside(s, g, 2)
<1>1. Suffix(s, r, 1) /\ Head(s) = s[1] /\ 1 \in DOMAIN s
  BY TailFacts
<1> HIDE DEF r
<1>2. Bracketed(r, G) /\ DroppedLast(r, G)
  <2>1. 1 + 1 = 2
    OBVIOUS
  <2>2. Bracketed(r, Inside(s, g, 1 + 1)) /\ DroppedLast(r, Inside(s, g, 1 + 1))
    BY <1>1, SuffixShape
  <2>3. QED
    BY <2>1, <2>2
<1>3. G <=> (g /\ ~Bracket(s[1])) \/ s[1].op = "begin"
  <2>1. G <=> \/ g /\ NoneIn(s, 1, 1)
              \/ \E k \in 1..1 : s[k].op = "begin" /\ NoneIn(s, k + 1, 1)
    BY DEF Inside
  <2>2. NoneIn(s, 1, 1) <=> ~Bracket(s[1])
    BY DEF NoneIn
  <2>3. \A k \in 1..1 : k = 1 /\ NoneIn(s, k + 1, 1)
    BY DEF NoneIn
  <2>4. 1 \in 1..1
    OBVIOUS
  <2> HIDE DEF G
  <2>5. QED
    BY <2>1, <2>2, <2>3, <2>4
<1>4. G \in BOOLEAN
  BY DEF Inside
<1> HIDE DEF G
<1>5. ASSUME s[1].op = "begin" PROVE ~g /\ G = TRUE
  <2>1. g => \E j \in DOMAIN s : s[j].op = "end" /\ NoneIn(s, 1, j - 1)
    BY DEF Bracketed
  <2>2. ASSUME NEW j \in DOMAIN s, s[j].op = "end", NoneIn(s, 1, j - 1) PROVE FALSE
    <3>1. j # 1 /\ j \in Nat \ {0}
      BY <2>2, <1>5
    <3>2. 1 \in 1..(j - 1)
      BY <3>1
    <3>3. QED
      BY <3>2, <2>2, <1>5 DEF NoneIn, Bracket
  <2>3. QED
    BY <2>1, <2>2, <1>3, <1>4, <1>5
<1>6. ASSUME s[1].op = "end" PROVE g /\ G = FALSE
  <2>1. Inside(s, g, 1)
    BY <1>1, <1>6 DEF Bracketed
  <2>2. \A k \in 1..(1 - 1) : FALSE
    OBVIOUS
  <2>3. g
    BY <2>1, <2>2 DEF Inside
  <2>4. QED
    BY <2>3, <1>3, <1>4, <1>6 DEF Bracket
<1>7. ASSUME ~Bracket(s[1]) PROVE G = g
  BY <1>3, <1>4, <1>7 DEF Bracket
<1>8. Head(s).op = "begin" => ~g /\ Bracketed(r, TRUE) /\ DroppedLast(r, TRUE)
  BY <1>1, <1>2, <1>5
<1>9. Head(s).op = "end" => g /\ Bracketed(r, FALSE) /\ DroppedLast(r, FALSE)
  BY <1>1, <1>2, <1>6
<1>10. ~Bracket(Head(s)) => Bracketed(r, g) /\ DroppedLast(r, g)
  BY <1>1, <1>2, <1>7
<1>11. QED
  BY <1>8, <1>9, <1>10 DEF r

(* group_begin: no group is open.                                          *)
LEMMA BeginCalls ==
  ASSUME NEW s \in Seq(Calls), s # <<>>, NEW g \in BOOLEAN, NEW gs, Grouping(s, g, gs),
         Head(s).op = "begin"
  PROVE  ~g /\ Grouping(Tail(s), TRUE, gs)
<1> DEFINE r == Tail(s)
<1>1. /\ Head(s) = s[1] /\ DOMAIN r = 1..Len(r) /\ 1 \in DOMAIN s
      /\ \A i \in DOMAIN r : r[i] = s[i + 1] /\ i + 1 \in DOMAIN s /\ i \in Nat
  BY TailFacts
<1>2. ~g /\ Bracketed(r, TRUE) /\ DroppedLast(r, TRUE)
  BY TailShape DEF Grouping
<1> HIDE DEF r
<1>3. ASSUME NEW b \in Blocks, NEW j \in DOMAIN r, gs[b].ends # "none", Gives(r[j], b) PROVE FALSE
  BY <1>1, <1>2, <1>3 DEF Grouping
<1>4. ASSUME NEW i \in DOMAIN r, r[i].op = "ending" PROVE FALSE
  <2>1. i + 1 \in DOMAIN s /\ s[i + 1].op = "ending" /\ 1 \in 1..((i + 1) - 1)
    BY <1>1, <1>4
  <2>2. NoneIn(s, 1, (i + 1) - 1)
    BY <2>1 DEF Grouping
  <2>3. QED
    BY <2>1, <2>2, <1>1 DEF NoneIn, Bracket
<1>5. Grouping(r, TRUE, gs)
  BY <1>2, <1>3, <1>4 DEF Grouping
<1>6. QED
  BY <1>2, <1>5 DEF r

(* A call that is no bracket, and not the rest of a group_end: what it     *)
(* groups, it groups in a group.                                           *)
LEMMA PlainCalls ==
  ASSUME NEW s \in Seq(Calls), s # <<>>, NEW g \in BOOLEAN, NEW gs, NEW hs, Grouping(s, g, gs),
         Head(s).op \notin {"begin", "end", "ending"},
         ~g => hs = gs,
         \A b \in Blocks : hs[b].ends # "none" => gs[b].ends # "none" \/ Drops(Head(s), b)
  PROVE  Grouping(Tail(s), g, hs)
<1> DEFINE r == Tail(s)
<1>1. /\ Head(s) = s[1] /\ DOMAIN r = 1..Len(r) /\ Len(r) \in Nat /\ 1 \in DOMAIN s /\ Suffix(s, r, 1)
      /\ \A i \in DOMAIN r : r[i] = s[i + 1] /\ i + 1 \in DOMAIN s /\ i \in Nat
      /\ \A i \in DOMAIN s : i = 1 \/ (i - 1 \in DOMAIN r /\ (i - 1) + 1 = i)
  BY TailFacts
<1>2. Bracketed(r, g) /\ DroppedLast(r, g)
  BY TailShape DEF Grouping, Bracket
<1> HIDE DEF r
<1>3. ASSUME NEW b \in Blocks, NEW j \in DOMAIN r, hs[b].ends # "none", Gives(r[j], b)
      PROVE  g /\ \A k \in 1..(j - 1) : r[k].op # "end"
  <2>1. j + 1 \in DOMAIN s /\ Gives(s[j + 1], b) /\ j \in Nat /\ (j + 1) - 1 = j /\ 1 < j + 1
    BY <1>1, <1>3
  <2>2. \A k \in 1..(j - 1) : k + 1 \in 1..j /\ k + 1 \in 1..(j + 1) /\ k \in DOMAIN r /\ r[k] = s[k + 1]
    <3> TAKE k \in 1..(j - 1)
    <3>1. k + 1 \in 1..j /\ k + 1 \in 1..(j + 1)
      BY <2>1, SMTT(30)
    <3>2. j \in 1..Len(r) /\ Len(r) \in Nat
      BY <1>1
    <3>3. k \in 1..Len(r)
      BY <3>2
    <3>4. QED
      BY <3>1, <3>3, <1>1
  <2>3. CASE gs[b].ends # "none"
    <3>1. g /\ \A k \in 1..((j + 1) - 1) : s[k].op # "end"
      BY <2>1, <2>3 DEF Grouping
    <3>2. QED
      BY <3>1, <2>1, <2>2
  <2>4. CASE gs[b].ends = "none"
    <3>1. Drops(s[1], b) /\ g
      BY <2>4, <1>1, <1>3
    <3>2. \A k \in 1..(j + 1) : s[k].op # "end"
      BY <3>1, <2>1, <1>1, ZenonT(60) DEF Grouping, DroppedLast
    <3>3. QED
      BY <3>1, <3>2, <2>2
  <2>5. QED
    BY <2>3, <2>4
<1>4. ASSUME NEW i \in DOMAIN r, r[i].op = "ending"
      PROVE  /\ ~g /\ NoneIn(r, 1, i - 1) /\ \A j \in DOMAIN r : r[j].op = "ending" => j = i
             /\ \A j \in 1..(i - 1) : \A b \in Blocks : r[j].db = b => hs[b] = NoGroup
  <2>1. i + 1 \in DOMAIN s /\ s[i + 1].op = "ending" /\ i \in Nat /\ (i + 1) - 1 = i /\ i \in 1..Len(r)
    BY <1>1, <1>4
  <2>2. /\ ~g /\ NoneIn(s, 1, (i + 1) - 1) /\ \A j \in DOMAIN s : s[j].op = "ending" => j = i + 1
        /\ \A j \in 1..((i + 1) - 1) : \A b \in Blocks : s[j].db = b => gs[b] = NoGroup
    BY <2>1 DEF Grouping
  <2>3. \A k \in 1..(i - 1) : k \in DOMAIN r /\ r[k] = s[k + 1] /\ k + 1 \in 1..i
    BY <1>1, <2>1
  <2>4. NoneIn(r, 1, i - 1)
    BY <2>1, <2>2, <2>3 DEF NoneIn
  <2>5. \A j \in DOMAIN r : r[j].op = "ending" => j = i
    <3> TAKE j \in DOMAIN r
    <3> HAVE r[j].op = "ending"
    <3>1. j + 1 = i + 1 /\ j \in Nat
      BY <1>1, <2>2
    <3>2. QED
      BY <3>1, <2>1
  <2>6. \A j \in 1..(i - 1) : \A b \in Blocks : r[j].db = b => hs[b] = NoGroup
    BY <2>1, <2>2, <2>3, SMTT(30)
  <2>7. QED
    BY <2>2, <2>4, <2>5, <2>6
<1>5. ASSUME ~g, NotEnding(r) PROVE \A b \in Blocks : hs[b] = NoGroup
  <2>1. NotEnding(s)
    <3> SUFFICES ASSUME NEW i \in DOMAIN s, s[i].op = "ending" PROVE FALSE
      BY DEF NotEnding
    <3>1. i # 1
      BY <1>1
    <3>2. i - 1 \in DOMAIN r /\ (i - 1) + 1 = i
      BY <3>1, <1>1
    <3> DEFINE q == i - 1
    <3>3. q \in DOMAIN r /\ q + 1 = i
      BY <3>2
    <3> HIDE DEF q
    <3>4. r[q].op = "ending"
      BY <3>3, <1>1
    <3>5. QED
      BY <3>3, <3>4, <1>5 DEF NotEnding
  <2>2. QED
    BY <2>1, <1>5 DEF Grouping
<1>6. QED
  BY <1>2, <1>3, <1>4, <1>5 DEF Grouping, r

(* group_end: what was grouped is still to be done.                        *)
LEMMA EndCalls ==
  ASSUME NEW s \in Seq(Calls), s # <<>>, NEW g \in BOOLEAN, NEW gs, Grouping(s, g, gs),
         Head(s).op = "end", NEW q, q.op = "ending", q.db \notin Blocks, q \in Calls
  PROVE  LET r == <<q>> \o Tail(s) IN
         /\ g /\ r \in Seq(Calls) /\ Grouping(r, FALSE, gs)
         /\ DOMAIN r = DOMAIN s /\ \A i \in DOMAIN r : r[i] = IF i = 1 THEN q ELSE s[i]
<1> DEFINE r == Tail(s)
           p == <<q>> \o r
<1>1. /\ Head(s) = s[1] /\ DOMAIN r = 1..Len(r) /\ Len(r) \in Nat /\ 1 \in DOMAIN s /\ Suffix(s, r, 1)
      /\ r \in Seq(Calls)
      /\ \A i \in DOMAIN r : r[i] = s[i + 1] /\ i + 1 \in DOMAIN s /\ i + 1 # 1 /\ i \in Nat
      /\ \A i \in DOMAIN s : i = 1 \/ (i - 1 \in DOMAIN r /\ (i - 1) + 1 = i)
  BY TailFacts
<1>2. g /\ Bracketed(r, FALSE) /\ DroppedLast(r, FALSE)
  BY TailShape DEF Grouping
<1> HIDE DEF r
<1>3. /\ p \in Seq(Calls) /\ DOMAIN p = 1..(Len(r) + 1) /\ p[1] = q
      /\ \A i \in DOMAIN r : p[i + 1] = r[i]
  BY <1>1
<1> HIDE DEF p
<1>4. Suffix(p, r, 1) /\ DOMAIN p = DOMAIN s
  BY <1>1, <1>3 DEF Suffix
<1>5. \A i \in DOMAIN p : p[i] = IF i = 1 THEN q ELSE s[i]
  <2> SUFFICES ASSUME NEW i \in DOMAIN p, i # 1 PROVE p[i] = s[i]
    BY <1>3
  <2> DEFINE j == i - 1
  <2>1. j \in DOMAIN r /\ j + 1 = i
    BY <1>1, <1>4
  <2> HIDE DEF j
  <2>2. QED
    BY <2>1, <1>1, <1>3
<1>6. Bracketed(p, FALSE) /\ DroppedLast(p, FALSE)
  <2>1. \A i \in 1..1 : p[i] = q
    BY <1>3
  <2>2. NoneIn(p, 1, 1)
    BY <2>1 DEF NoneIn, Bracket
  <2>3. \A b \in Blocks : \A i \in 1..1 : \A j \in DOMAIN p : i < j /\ Drops(p[i], b) => ~Gives(p[j], b)
    BY <2>1 DEF Drops
  <2>4. QED
    BY <2>2, <2>3, <1>2, <1>4, PrefixShape
<1>7. ASSUME NEW b \in Blocks, NEW j \in DOMAIN p, gs[b].ends # "none", Gives(p[j], b) PROVE FALSE
  <2>1. j # 1
    BY <1>3, <1>7 DEF Gives
  <2>2. j \in DOMAIN s /\ Gives(s[j], b) /\ 1 \in 1..(j - 1)
    <3>1. j \in DOMAIN s /\ p[j] = s[j]
      BY <2>1, <1>4, <1>5
    <3>2. j \in Int /\ 1 <= j
      BY <1>3
    <3>3. QED
      BY <3>1, <3>2, <2>1, <1>7
  <2>3. QED
    BY <2>2, <1>1, <1>7 DEF Grouping
<1>8. \A j \in DOMAIN p : p[j].op = "ending" => j = 1
  BY <1>2, <1>4, <1>5 DEF Grouping
<1>9. ASSUME NEW i \in DOMAIN p, p[i].op = "ending"
      PROVE  /\ NoneIn(p, 1, i - 1) /\ \A j \in DOMAIN p : p[j].op = "ending" => j = i
             /\ \A j \in 1..(i - 1) : \A b \in Blocks : p[j].db = b => gs[b] = NoGroup
  <2>1. i = 1 /\ \A j \in 1..(i - 1) : FALSE
    BY <1>8, <1>9
  <2>2. QED
    BY <2>1, <1>8 DEF NoneIn
<1>10. ~NotEnding(p)
  BY <1>1, <1>3, <1>4 DEF NotEnding
<1>11. Grouping(p, FALSE, gs)
  BY <1>6, <1>7, <1>9, <1>10 DEF Grouping
<1>12. QED
  BY <1>2, <1>3, <1>4, <1>5, <1>11 DEF p, r

LEMMA EndingDone ==
  ASSUME NEW s \in Seq(Calls), s # <<>>, NEW g \in BOOLEAN, NEW gs, Grouping(s, g, gs),
         Head(s).op = "ending", \A b \in Blocks : gs[b] = NoGroup
  PROVE  ~g /\ Grouping(Tail(s), g, gs)
<1> DEFINE r == Tail(s)
<1>1. /\ Head(s) = s[1] /\ DOMAIN r = 1..Len(r) /\ 1 \in DOMAIN s
      /\ \A i \in DOMAIN r : r[i] = s[i + 1] /\ i + 1 \in DOMAIN s /\ i + 1 # 1 /\ i \in Nat
  BY TailFacts
<1>2. Bracketed(r, g) /\ DroppedLast(r, g)
  BY TailShape DEF Grouping, Bracket
<1> HIDE DEF r
<1>3. ~g /\ \A j \in DOMAIN s : s[j].op = "ending" => j = 1
  BY <1>1 DEF Grouping
<1>4. \A i \in DOMAIN r : r[i].op # "ending"
  BY <1>1, <1>3
<1>5. \A b \in Blocks : gs[b].ends = "none"
  BY DEF NoGroup
<1>6. Grouping(r, g, gs)
  BY <1>2, <1>3, <1>4, <1>5 DEF Grouping
<1>7. QED
  BY <1>3, <1>6 DEF r

LEMMA GroupCallsFacts ==
  ASSUME NEW x \in Groups, NEW b \in Blocks
  PROVE  LET q == GroupCalls(x, b) IN
         /\ q \in Seq(Calls) /\ Len(q) \in Nat /\ DOMAIN q = 1..Len(q)
         /\ \A i \in 1..Len(q) : /\ q[i].db = b /\ q[i].op \in {"value", "release", "destroy"}
                                 /\ q[i].op = "value" => x.values > 0
                                 /\ q[i].op # "value" => i = Len(q) /\ x.ends # "none"
<1> DEFINE v == x.values
           n == IF x.ends = "none" THEN v ELSE v + 1
           q == GroupCalls(x, b)
<1>1. v \in Nat /\ x.ends \in {"none", "release", "destroy"}
  BY DEF Groups
<1>2. n \in Nat
  BY <1>1
<1>3. q = [i \in 1..n |-> IF i <= v THEN Op("value", b) ELSE Op(x.ends, b)]
  BY DEF GroupCalls
<1>4. ASSUME NEW i \in 1..n
      PROVE  \/ q[i] = Op("value", b) /\ v > 0
             \/ q[i] = Op(x.ends, b) /\ i = n /\ x.ends # "none"
  <2>1. q[i] = IF i <= v THEN Op("value", b) ELSE Op(x.ends, b)
    BY <1>3
  <2>2. i \in Nat /\ i # 0 /\ i <= n
    BY <1>2
  <2>3. CASE i <= v
    BY <2>1, <2>2, <2>3, <1>1
  <2>4. CASE ~(i <= v)
    <3>1. x.ends # "none" /\ i = n
      BY <2>2, <2>4, <1>1
    <3>2. QED
      BY <3>1, <2>1, <2>4
  <2>5. QED
    BY <2>3, <2>4
<1> HIDE DEF q, n
<1>5. \A y \in {"value", "release", "destroy"} : Op(y, b) \in Calls /\ Op(y, b).op = y /\ Op(y, b).db = b
  BY DEF Op, Calls
<1>6. \A i \in 1..n : /\ q[i] \in Calls /\ q[i].db = b /\ q[i].op \in {"value", "release", "destroy"}
                      /\ q[i].op = "value" => v > 0
                      /\ q[i].op # "value" => i = n /\ x.ends # "none"
  <2> TAKE i \in 1..n
  <2>1. CASE q[i] = Op("value", b) /\ v > 0
    BY <2>1, <1>5
  <2>2. CASE q[i] = Op(x.ends, b) /\ i = n /\ x.ends # "none"
    <3>1. x.ends \in {"release", "destroy"}
      BY <2>2, <1>1
    <3>2. q[i] \in Calls /\ q[i].db = b /\ q[i].op = x.ends
      BY <3>1, <2>2, <1>5
    <3>3. QED
      BY <3>1, <3>2, <2>2
  <2>3. QED
    BY <2>1, <2>2, <1>4
<1>7. q \in Seq(Calls) /\ Len(q) = n /\ DOMAIN q = 1..n
  <2>1. DOMAIN q = 1..n /\ q \in [1..n -> Calls]
    BY <1>3, <1>6
  <2>2. QED
    BY <2>1, <1>2
<1>8. QED
  BY <1>2, <1>6, <1>7 DEF q

Joined(p, q, s) == p = q \o s

LEMMA ConcatFacts ==
  ASSUME NEW S, NEW q \in Seq(S), NEW s \in Seq(S)
  PROVE  LET p == q \o s IN
         /\ p \in Seq(S) /\ DOMAIN p = 1..(Len(s) + Len(q))
         /\ \A i \in 1..Len(q) : p[i] = q[i]
         /\ \A i \in 1..Len(s) : p[i + Len(q)] = s[i]
<1>1. q \o s \in Seq(S) /\ Len(q \o s) = Len(q) + Len(s)
  OBVIOUS
<1>2. Len(q) \in Nat /\ Len(s) \in Nat /\ Len(q) + Len(s) = Len(s) + Len(q)
  OBVIOUS
<1>3. DOMAIN (q \o s) = 1..(Len(s) + Len(q))
  BY <1>1, <1>2
<1>4. \A i \in 1..Len(q) : (q \o s)[i] = q[i]
  BY <1>2
<1>5. \A i \in 1..Len(s) : (q \o s)[i + Len(q)] = s[i]
  BY <1>2
<1>6. QED
  BY <1>1, <1>3, <1>4, <1>5

(* What was grouped for one block is done.                                 *)
LEMMA EndingNext ==
  ASSUME NEW s \in Seq(Calls), s # <<>>, NEW g \in BOOLEAN, NEW gs \in [Blocks -> Groups], Grouping(s, g, gs),
         Head(s).op = "ending", NEW b \in Blocks, NEW p, Joined(p, GroupCalls(gs[b], b), s),
         NEW hs \in [Blocks -> Groups], hs[b] = NoGroup, \A c \in Blocks \ {b} : hs[c] = gs[c]
  PROVE  /\ ~g /\ p \in Seq(Calls) /\ Grouping(p, g, hs)
         /\ \A i \in DOMAIN p : \/ p[i].db = b /\ (p[i].op = "value" => gs[b].values > 0)
                                \/ \E j \in DOMAIN s : p[i] = s[j]
<1> DEFINE q  == GroupCalls(gs[b], b)
           n  == Len(q)
           m  == Len(s)
<1>x. gs[b] \in Groups /\ p = q \o s
  BY DEF Joined
<1>1. /\ q \in Seq(Calls) /\ n \in Nat /\ DOMAIN q = 1..n
      /\ \A i \in 1..n : /\ q[i].db = b /\ q[i].op \in {"value", "release", "destroy"}
                         /\ q[i].op = "value" => gs[b].values > 0
                         /\ q[i].op # "value" => i = n /\ gs[b].ends # "none"
  BY <1>x, GroupCallsFacts
<1>2. Head(s) = s[1] /\ 1 \in DOMAIN s /\ DOMAIN s = 1..m /\ m \in Nat
  BY TailFacts
<1> HIDE DEF q
<1>3. p \in Seq(Calls) /\ DOMAIN p = 1..(m + n) /\ (\A i \in 1..n : p[i] = q[i]) /\ (\A i \in 1..m : p[i + n] = s[i])
  <2>1. q \in Seq(Calls) /\ s \in Seq(Calls)
    BY <1>1
  <2>2. QED
    BY <1>x, <2>1, ConcatFacts
<1> HIDE DEF n, m
<1>4. Suffix(p, s, n)
  BY <1>1, <1>2, <1>3 DEF Suffix, m
<1>5. hs \in [Blocks -> Groups] /\ hs[b] = NoGroup /\ \A c \in Blocks \ {b} : hs[c] = gs[c]
  OBVIOUS
<1>6. ~g /\ \A j \in DOMAIN s : s[j].op = "ending" => j = 1
  BY <1>2 DEF Grouping
<1>7. \A i \in DOMAIN p : \/ i \in 1..n /\ p[i] = q[i]
                          \/ n < i /\ i - n \in 1..m /\ (i - n) + n = i /\ p[i] = s[i - n]
  <2> TAKE i \in DOMAIN p
  <2>1. i \in 1..n \/ (n < i /\ i - n \in 1..m /\ (i - n) + n = i)
    BY <1>1, <1>2, <1>3
  <2> DEFINE j == i - n
  <2>2. ASSUME n < i, j \in 1..m, j + n = i PROVE p[i] = s[j]
    <3> HIDE DEF j
    <3>1. QED
      BY <2>2, <1>3
  <2>3. QED
    BY <2>1, <2>2, <1>3
<1>8. \A i \in DOMAIN p : \/ i \in 1..n /\ p[i].db = b /\ (p[i].op = "value" => gs[b].values > 0)
                          \/ \E j \in DOMAIN s : p[i] = s[j]
  BY <1>1, <1>2, <1>7
(* What is given later has not been grouped to be dropped.                 *)
<1>9. ASSUME NEW c \in Blocks, NEW j \in DOMAIN s, gs[c].ends # "none", Gives(s[j], c) PROVE FALSE
  BY <1>6, <1>9 DEF Grouping
<1>10. Bracketed(p, FALSE) /\ DroppedLast(p, FALSE)
  <2>1. NoneIn(p, 1, n)
    BY <1>1, <1>3 DEF NoneIn, Bracket
  <2>2. ASSUME NEW c \in Blocks, NEW i \in 1..n, NEW j \in DOMAIN p, i < j, Drops(p[i], c), Gives(p[j], c)
        PROVE  FALSE
    <3>1. c = b /\ i = n /\ gs[b].ends # "none"
      BY <2>2, <1>1, <1>3 DEF Drops
    <3>2. j \notin 1..n
      BY <3>1, <2>2, <1>1
    <3>3. j - n \in DOMAIN s /\ p[j] = s[j - n]
      BY <3>2, <1>2, <1>7
    <3>4. QED
      BY <3>1, <3>3, <2>2, <1>9
  <2>3. \A c \in Blocks : \A i \in 1..n : \A j \in DOMAIN p : i < j /\ Drops(p[i], c) => ~Gives(p[j], c)
    BY <2>2
  <2>4. Bracketed(s, FALSE) /\ DroppedLast(s, FALSE)
    <3>1. g = FALSE
      BY <1>6
    <3>2. QED
      BY <3>1 DEF Grouping
  <2>5. QED
    BY <2>1, <2>3, <2>4, <1>4, PrefixShape
<1>11. ASSUME NEW c \in Blocks, NEW j \in DOMAIN p, hs[c].ends # "none", Gives(p[j], c) PROVE FALSE
  <2>1. c # b
    BY <1>5, <1>11 DEF NoGroup
  <2>2. gs[c].ends # "none"
    BY <2>1, <1>5, <1>11
  <2>3. p[j].db = c
    BY <1>11 DEF Gives
  <2>4. \E i \in DOMAIN s : p[j] = s[i]
    BY <2>1, <2>3, <1>8
  <2>5. QED
    BY <2>2, <2>4, <1>9, <1>11
<1>12. \A j \in DOMAIN p : p[j].op = "ending" => j = n + 1
  <2> SUFFICES ASSUME NEW j \in DOMAIN p, p[j].op = "ending" PROVE j = n + 1
    OBVIOUS
  <2>1. ~(j \in 1..n /\ p[j] = q[j])
    BY <1>1
  <2>2. n < j /\ j - n \in 1..m /\ (j - n) + n = j /\ p[j] = s[j - n]
    BY <2>1, <1>7
  <2> DEFINE i == j - n
  <2>3. i \in DOMAIN s /\ i + n = j /\ s[i].op = "ending"
    BY <2>2, <1>2
  <2> HIDE DEF i
  <2>4. i = 1
    BY <2>3, <1>6
  <2>5. QED
    BY <2>3, <2>4, <1>1
<1>13. ASSUME NEW i \in DOMAIN p, p[i].op = "ending"
       PROVE  /\ NoneIn(p, 1, i - 1) /\ \A j \in DOMAIN p : p[j].op = "ending" => j = i
              /\ \A j \in 1..(i - 1) : \A c \in Blocks : p[j].db = c => hs[c] = NoGroup
  <2>1. i = n + 1 /\ i - 1 = n
    BY <1>12, <1>13, <1>1
  <2>2. \A j \in 1..n : p[j].db = b /\ ~Bracket(p[j])
    BY <1>1, <1>3 DEF Bracket
  <2>3. NoneIn(p, 1, i - 1)
    BY <2>1, <2>2 DEF NoneIn
  <2>4. \A j \in 1..(i - 1) : \A c \in Blocks : p[j].db = c => hs[c] = NoGroup
    BY <2>1, <2>2, <1>5
  <2>5. QED
    BY <2>1, <2>3, <2>4, <1>12
<1>14. ~NotEnding(p)
  <2>1. 1 + n \in DOMAIN p /\ p[1 + n] = s[1]
    BY <1>1, <1>2, <1>3
  <2>2. QED
    BY <2>1, <1>2 DEF NotEnding
<1>15. Grouping(p, g, hs)
  <2>1. g = FALSE
    BY <1>6
  <2>2. QED
    BY <2>1, <1>10, <1>11, <1>13, <1>14 DEF Grouping
<1>16. QED
  BY <1>3, <1>6, <1>8, <1>15

(* The calls of the body of a task: no group is open.                      *)
LEMMA BodyCalls ==
  ASSUME NEW t \in Tasks, NEW gs, \A b \in Blocks : gs[b] = NoGroup
  PROVE  /\ Body[t] \in Seq(Calls) /\ Grouping(Body[t], FALSE, gs)
         /\ \A i \in DOMAIN Body[t] :
              /\ Body[t][i].op \in {"value", "release", "destroy"} => Body[t][i].db \in Blocks
              /\ Body[t][i].op = "value" => Body[t][i].db \in Needed(t)
<1> DEFINE s == Body[t]
<1>1. s \in Seq(Calls)
  BY TaskBlocksAssumption
<1>2. /\ Bracketed(s, FALSE) /\ DroppedLast(s, FALSE)
      /\ \A i \in DOMAIN s : /\ s[i].op # "ending"
                             /\ s[i].op \in {"value", "release", "destroy"} => s[i].db \in Blocks
                             /\ s[i].op = "value" => s[i].db \in Needed(t)
  BY ProgramAssumption
<1> HIDE DEF s
<1>3. \A b \in Blocks : gs[b].ends = "none"
  BY DEF NoGroup
<1>4. Grouping(s, FALSE, gs)
  BY <1>2, <1>3 DEF Grouping
<1>5. QED
  BY <1>1, <1>2, <1>4 DEF s

-----------------------------------------------------------------------------
(***************************************************************************)
(* Steps of one task that leave the blocks alone.                          *)
(***************************************************************************)
LEMMA OneTask ==
  ASSUME IInv, NEW t \in Tasks, NEW o \in TaskType, task' = [task EXCEPT ![t] = o],
         block' = block, faults' = {}, unseen' = unseen,
         TaskOK(t, o), PendingOK(block, t, o), ReadOK(block, o),
         \A c \in Blocks : /\ HoldsOf(o, c) <=> HoldsOf(task[t], c)
                           /\ WaitsOf(o, c) <=> WaitsOf(task[t], c)
                           /\ GatesOK(block[c], t, o, c)
                           /\ t \in unseen[c] => UnseenOK(block[c], t, o, c)
  PROVE  IInv'
<1> DEFINE T == {t}
<1>1. task \in [Tasks -> TaskType] /\ unseen \in [Blocks -> SUBSET Tasks]
  BY TaskFacts
<1>2. task' \in [Tasks -> TaskType] /\ task'[t] = o /\ \A u \in Tasks \ T : task'[u] = task[u]
  BY <1>1
<1>3. T \in SUBSET Tasks /\ \A u \in T : u = t
  OBVIOUS
<1>4. unseen' \in [Blocks -> SUBSET Tasks] /\ \A c \in Blocks : unseen'[c] \subseteq unseen[c] \cup T
  BY <1>1
<1> HIDE DEF T
<1>5. \A u \in T :
         /\ TaskOK(u, task'[u]) /\ PendingOK(block, u, task'[u]) /\ ReadOK(block, task'[u])
         /\ \A c \in Blocks : /\ HoldsOf(task'[u], c) <=> HoldsOf(task[u], c)
                              /\ WaitsOf(task'[u], c) <=> WaitsOf(task[u], c)
                              /\ GatesOK(block[c], u, task'[u], c)
                              /\ u \in unseen'[c] => UnseenOK(block[c], u, task'[u], c)
  BY <1>2, <1>3
<1>6. QED
  BY <1>2, <1>3, <1>4, <1>5, TasksStep

(* A task no release of which waits: the copies outside are none of its    *)
(* concern, unless it has left its gate.                                   *)
LEMMA NoRelease ==
  ASSUME IInv, NEW t \in Tasks, task[t].state # "done", task[t].gate # "shut" \/ task[t].state # "running"
  PROVE  \A c \in Blocks : (t \in unseen[c] \/ t \in block[c].gates) => task[t].cut
<1>1. \A c \in Blocks : /\ GatesOK(block[c], t, task[t], c)
                        /\ t \in unseen[c] => UnseenOK(block[c], t, task[t], c)
  BY TaskFacts
<1>2. \A c \in Blocks : ~Shut(task[t], c)
  BY DEF Shut
<1>3. QED
  BY <1>1, <1>2 DEF GatesOK, UnseenOK

LEMMA CutCopies ==
  ASSUME NEW o, o.cut
  PROVE  \A t, c, k : UnseenOK(k, t, o, c) /\ GatesOK(k, t, o, c)
  BY DEF UnseenOK, GatesOK

LEMMA QuietTask ==
  ASSUME IInv, NEW t \in Tasks, NEW o \in TaskType, task' = [task EXCEPT ![t] = o],
         block' = block, faults' = {}, unseen' = unseen,
         task[t].state # "done", task[t].gate # "shut" \/ task[t].state # "running",
         TaskOK(t, o), PendingOK(block, t, o), ReadOK(block, o), task[t].cut => o.cut,
         \A c \in Blocks : /\ HoldsOf(o, c) <=> HoldsOf(task[t], c)
                           /\ WaitsOf(o, c) <=> WaitsOf(task[t], c)
  PROVE  IInv'
<1>1. \A c \in Blocks : (t \in unseen[c] \/ t \in block[c].gates) => o.cut
  BY NoRelease
<1>2. \A c \in Blocks : /\ GatesOK(block[c], t, o, c)
                        /\ t \in unseen[c] => UnseenOK(block[c], t, o, c)
  BY <1>1 DEF GatesOK, UnseenOK
<1>3. QED
  BY <1>2, OneTask

(* The calls that do not touch the blocks.                                 *)
LEMMA CallStep ==
  ASSUME IInv, NEW t \in Tasks, NEW o \in TaskType, task' = [task EXCEPT ![t] = o],
         block' = block, faults' = {}, unseen' = unseen,
         task[t].state = "running", task[t].gate = "none",
         o.state = "running", o.gate = "none", o.ordered = task[t].ordered, o.modes = task[t].modes,
         o.acquired = task[t].acquired, o.trying = task[t].trying, o.reading = task[t].reading,
         o.rest = task[t].rest, o.blank = task[t].blank, o.torn = task[t].torn, o.cut = task[t].cut,
         Grouping(o.todo, o.grouped, o.groups),
         \A i \in DOMAIN o.todo : /\ o.todo[i].op \in {"value", "release", "destroy"} => o.todo[i].db \in Blocks
                                  /\ o.todo[i].op = "value" => Owns(task[t], o.todo[i].db),
         \A b \in Blocks : o.groups[b].values > 0 => Owns(task[t], b)
  PROVE  IInv'
<1> DEFINE x == task[t]
<1>1. x \in TaskType /\ OrderOK(t, x) /\ ProgressOK(x) /\ PendingOK(block, t, x) /\ ReadOK(block, x)
  BY TaskFacts DEF TaskOK
<1>2. \A b : Owns(o, b) <=> Owns(x, b)
  BY DEF Owns
<1>3. OrderOK(t, o)
  BY <1>1 DEF OrderOK, Kept
<1>4. ProgressOK(o)
  BY <1>1 DEF ProgressOK, Kept
<1>5. CallsOK(o)
  BY <1>2 DEF CallsOK
<1>6. PendingOK(block, t, o)
  BY <1>1, PendingIdle
<1>7. ReadOK(block, o)
  BY <1>1 DEF ReadOK, Awaits
<1>8. \A c \in Blocks : /\ HoldsOf(o, c) <=> HoldsOf(x, c)
                        /\ WaitsOf(o, c) <=> WaitsOf(x, c)
  BY <1>2 DEF HoldsOf, WaitsOf
<1>9. TaskOK(t, o)
  BY <1>3, <1>4, <1>5 DEF TaskOK
<1>10. QED
  BY <1>6, <1>7, <1>8, <1>9, QuietTask

(* A running task at a call, and the calls after it.                       *)
LEMMA RunningFacts ==
  ASSUME IInv, NEW t \in Tasks, task[t].state = "running", task[t].todo # <<>>
  PROVE  LET o == task[t]
             s == o.todo
             r == Tail(s)
         IN
         /\ o \in TaskType /\ CallsOK(o) /\ s \in Seq(Calls) /\ r \in Seq(Calls)
         /\ o.grouped \in BOOLEAN /\ o.groups \in [Blocks -> Groups]
         /\ Grouping(s, o.grouped, o.groups)
         /\ Head(s) = s[1] /\ 1 \in DOMAIN s
         /\ Head(s).op # "release" => o.gate = "none"
         /\ Head(s).op \in {"value", "release", "destroy"} => Head(s).db \in Blocks
         /\ \A i \in DOMAIN s : /\ s[i].op \in {"value", "release", "destroy"} => s[i].db \in Blocks
                                /\ s[i].op = "value" => Owns(o, s[i].db)
         /\ \A i \in DOMAIN r : /\ r[i].op \in {"value", "release", "destroy"} => r[i].db \in Blocks
                                /\ r[i].op = "value" => Owns(o, r[i].db)
         /\ \A b \in Blocks : o.groups[b].values > 0 => Owns(o, b)
<1> DEFINE o == task[t]
           s == o.todo
           r == Tail(s)
<1>1. o \in TaskType /\ CallsOK(o)
  BY TaskFacts DEF TaskOK
<1>2. s \in Seq(Calls) /\ o.grouped \in BOOLEAN /\ o.groups \in [Blocks -> Groups]
  BY <1>1 DEF TaskType
<1>3. /\ Grouping(s, o.grouped, o.groups)
      /\ \A i \in DOMAIN s : /\ s[i].op \in {"value", "release", "destroy"} => s[i].db \in Blocks
                             /\ s[i].op = "value" => Owns(o, s[i].db)
      /\ \A b \in Blocks : o.groups[b].values > 0 => Owns(o, b)
      /\ Head(s).op # "release" => o.gate = "none"
  BY <1>1 DEF CallsOK
<1>4. s # <<>>
  OBVIOUS
<1> HIDE DEF s
<1>5. /\ r \in Seq(Calls) /\ Head(s) = s[1] /\ 1 \in DOMAIN s
      /\ \A i \in DOMAIN r : r[i] = s[i + 1] /\ i + 1 \in DOMAIN s
  BY <1>2, <1>4, TailFacts
<1> HIDE DEF r
<1>6. \A i \in DOMAIN r : /\ r[i].op \in {"value", "release", "destroy"} => r[i].db \in Blocks
                          /\ r[i].op = "value" => Owns(o, r[i].db)
  BY <1>3, <1>5
<1>7. Head(s).op \in {"value", "release", "destroy"} => Head(s).db \in Blocks
  BY <1>3, <1>5
<1>8. QED
  BY <1>1, <1>2, <1>3, <1>5, <1>6, <1>7 DEF s, r

-----------------------------------------------------------------------------
(***************************************************************************)
(* The steps before a task runs.                                           *)
(***************************************************************************)
LEMMA SatisfiedStep ==
  ASSUME IInv, NEW t \in Tasks, Satisfied(t)
  PROVE  IInv'
<1> DEFINE x  == task[t]
           bs == OrderedGuids(t)
           ms == [i \in DOMAIN bs |-> LockMode(t, bs[i])]
           o1 == [x EXCEPT !.state = "locking"]
           o2 == [o1 EXCEPT !.ordered = bs]
           o3 == [o2 EXCEPT !.trying = TRUE]
           o  == [o3 EXCEPT !.modes = ms]
<1>1. /\ x.state = "created" /\ task' = [task EXCEPT ![t] = o]
      /\ block' = block /\ unseen' = unseen /\ faults' = faults
  BY TaskFacts DEF Satisfied
<1>2. /\ x \in TaskType /\ OrderOK(t, x) /\ ProgressOK(x) /\ CallsOK(x)
      /\ PendingOK(block, t, x) /\ ReadOK(block, x) /\ faults = {}
  BY TaskFacts DEF TaskOK
<1>3. /\ bs \in Seq(Blocks) /\ DOMAIN bs = 1..Len(bs) /\ Len(bs) \in Nat
      /\ \A i \in DOMAIN bs : bs[i] # Null
  BY OrderedFacts
<1>4. ms \in Seq(Modes)
  <2>1. \A i \in DOMAIN bs : LockMode(t, bs[i]) \in Modes
    BY SlotModesFacts
  <2> HIDE DEF bs
  <2>2. QED
    BY <1>3, <2>1
<1>5. bs \in Seq(Blocks \cup {Null})
  BY <1>3
<1>6. \A i \in DOMAIN ms : ms[i] = LockMode(t, bs[i])
  OBVIOUS
<1>7. DOMAIN ms = DOMAIN bs
  OBVIOUS
<1> HIDE DEF bs, ms
<1>8. o1 \in TaskType
  BY <1>2 DEF TaskType, States
<1> HIDE DEF o1
<1>9. o2 \in TaskType
  BY <1>5, <1>8 DEF TaskType
<1> HIDE DEF o2
<1>10. o3 \in TaskType
  BY <1>9 DEF TaskType
<1> HIDE DEF o3
<1>11. o \in TaskType
  BY <1>4, <1>10 DEF TaskType
<1>12. /\ o.state = "locking" /\ o.ordered = bs /\ o.trying = TRUE /\ o.modes = ms /\ o.acquired = x.acquired
       /\ o.reading = x.reading /\ o.rest = x.rest /\ o.blank = x.blank /\ o.torn = x.torn /\ o.todo = x.todo
       /\ o.gate = x.gate /\ o.cut = x.cut /\ o.grouped = x.grouped /\ o.groups = x.groups
  BY <1>2, <1>8, <1>9, <1>10 DEF o1, o2, o3, TaskType
<1> HIDE DEF o
<1>13. x.ordered = <<>> /\ x.acquired = 0 /\ x.rest = {} /\ ~x.reading /\ ~x.trying
  BY <1>1, <1>2 DEF OrderOK, ProgressOK
<1>14. OrderOK(t, o)
  <2>1. Kept(o) = DOMAIN bs
    BY <1>3, <1>12 DEF Kept
  <2>2. QED
    BY <1>6, <1>7, <1>12, <2>1 DEF OrderOK, bs
<1>15. ProgressOK(o)
  BY <1>3, <1>12, <1>13 DEF ProgressOK
<1>16. CallsOK(o)
  <2>1. \A b : ~Owns(x, b)
    BY <1>13 DEF Owns
  <2>2. x.todo = <<>> /\ x.gate = "none" /\ ~x.grouped
    BY <1>1, <1>2 DEF CallsOK
  <2>3. QED
    BY <1>2, <1>12, <2>1, <2>2 DEF CallsOK
<1>17. PendingOK(block, t, o)
  BY <1>1, <1>2, <1>12, PendingIdle
<1>18. ReadOK(block, o)
  BY <1>2, <1>12, <1>13 DEF ReadOK
<1>19. \A c \in Blocks : (HoldsOf(o, c) <=> HoldsOf(x, c)) /\ (WaitsOf(o, c) <=> WaitsOf(x, c))
  <2> TAKE c \in Blocks
  <2>1. ~HoldsOf(x, c) /\ ~WaitsOf(x, c)
    BY <1>1 DEF HoldsOf, WaitsOf
  <2>2. ~HoldsOf(o, c) /\ ~WaitsOf(o, c)
    BY <1>12, <1>13 DEF HoldsOf, WaitsOf
  <2>3. QED
    BY <2>1, <2>2
<1>20. TaskOK(t, o)
  BY <1>14, <1>15, <1>16 DEF TaskOK
<1>21. QED
  BY <1>1, <1>2, <1>11, <1>12, <1>17, <1>18, <1>19, <1>20, QuietTask

LEMMA ReadHandleStep ==
  ASSUME IInv, NEW t \in Tasks, ReadHandle(t)
  PROVE  IInv'
<1> DEFINE x == task[t]
           b == x.ordered[x.acquired + 1]
           o == Given(x, b, block[b])
<1>1. /\ x.reading /\ task' = [task EXCEPT ![t] = o]
      /\ block' = block /\ unseen' = unseen /\ faults' = faults
  BY TaskFacts DEF ReadHandle
<1>2. /\ x \in TaskType /\ TaskOK(t, x) /\ OrderOK(t, x) /\ ProgressOK(x)
      /\ PendingOK(block, t, x) /\ ReadOK(block, x) /\ faults = {}
  BY TaskFacts DEF TaskOK
<1>3. x.reading \in BOOLEAN /\ x.trying \in BOOLEAN /\ x.acquired \in Int
  BY <1>2 DEF TaskType
<1>4. x.state = "locking" /\ ~x.trying /\ x.acquired \in 0..Len(x.ordered) /\ x.acquired < Len(x.ordered)
  BY <1>1, <1>2, <1>3 DEF ProgressOK
<1>5. Awaits(x, b)
  BY <1>4 DEF Awaits
<1>6. b \in Blocks
  <2>1. Kept(x) = DOMAIN x.ordered
    BY <1>2, <1>4 DEF OrderOK, Asking
  <2>2. x.acquired + 1 \in DOMAIN x.ordered
    BY <1>2, <1>4, OrderFacts
  <2>3. QED
    BY <1>2, <2>1, <2>2, OrderFacts
<1> HIDE DEF b
<1>7. /\ o \in TaskType /\ TaskOK(t, o)
      /\ \A c \in Blocks : (HoldsOf(o, c) <=> HoldsOf(x, c) \/ c = b) /\ ~WaitsOf(o, c)
  BY <1>2, <1>4, <1>5, <1>6, GivenStep
<1>8. /\ o.reading = FALSE /\ o.state = x.state /\ o.torn = x.torn /\ o.cut = x.cut
      /\ block[b].valid # "invalid" => o.blank = x.blank
      /\ block[b].valid = "invalid" => o.blank = x.blank \cup {b}
  <2>1. \A k : LET p == Given(x, b, k) IN
               /\ p.reading = FALSE /\ p.state = x.state /\ p.torn = x.torn /\ p.cut = x.cut
               /\ k.valid # "invalid" => p.blank = x.blank
               /\ k.valid = "invalid" => p.blank = x.blank \cup {b}
    <3> DEFINE p(k) == Given(x, b, k)
    <3>1. \A k : /\ p(k).reading = FALSE /\ p(k).state = x.state /\ p(k).torn = x.torn /\ p(k).cut = x.cut
                 /\ k.valid # "invalid" => p(k).blank = x.blank
                 /\ k.valid = "invalid" => p(k).blank = x.blank \cup {b}
      BY <1>2, <1>6 DEF Given, TaskType
    <3>2. QED
      BY <3>1
  <2>2. QED
    BY <2>1
<1> HIDE DEF o
<1>9. ReadOK(block, o)
  BY <1>1, <1>2, <1>5, <1>6, <1>8 DEF ReadOK
<1>10. PendingOK(block, t, o)
  <2>1. o.state # "done" /\ x.state # "done"
    BY <1>4, <1>8
  <2>2. QED
    BY <1>2, <2>1 DEF PendingOK
<1>11. HoldsOf(x, b) /\ \A c \in Blocks : ~WaitsOf(x, c)
  <2>1. x.acquired + 1 \in 1..(x.acquired + 1)
    <3>1. Len(x.ordered) \in Nat
      BY <1>2, OrderFacts
    <3>2. QED
      BY <1>3, <1>4, <3>1
  <2>2. QED
    BY <1>1, <1>3, <1>4, <2>1 DEF HoldsOf, WaitsOf, b
<1>12. \A c \in Blocks : (HoldsOf(o, c) <=> HoldsOf(x, c)) /\ (WaitsOf(o, c) <=> WaitsOf(x, c))
  BY <1>7, <1>11
<1>13. x.state # "done" /\ x.state # "running"
  BY <1>4
<1>14. QED
  BY <1>1, <1>2, <1>7, <1>8, <1>9, <1>10, <1>12, <1>13, QuietTask

LEMMA SpawnStep ==
  ASSUME IInv, NEW t \in Tasks, Spawn(t)
  PROVE  IInv'
<1> DEFINE x  == task[t]
           s  == IF paused THEN "aside" ELSE "spawned"
           o1 == [x EXCEPT !.trying = FALSE]
           o  == [o1 EXCEPT !.state = s]
<1>1. /\ x.trying /\ x.acquired = Len(x.ordered) /\ task' = [task EXCEPT ![t] = o]
      /\ block' = block /\ unseen' = unseen /\ faults' = faults
  BY TaskFacts DEF Spawn
<1>2. /\ x \in TaskType /\ OrderOK(t, x) /\ ProgressOK(x) /\ CallsOK(x)
      /\ PendingOK(block, t, x) /\ ReadOK(block, x) /\ faults = {}
  BY TaskFacts DEF TaskOK
<1>3. s \in {"spawned", "aside"} /\ s \in States
  BY DEF States
<1> HIDE DEF s
<1>4. o1 \in TaskType
  BY <1>2 DEF TaskType
<1> HIDE DEF o1
<1>5. o \in TaskType
  BY <1>3, <1>4 DEF TaskType
<1>6. /\ o.state = s /\ o.ordered = x.ordered /\ o.trying = FALSE /\ o.modes = x.modes /\ o.acquired = x.acquired
      /\ o.reading = x.reading /\ o.rest = x.rest /\ o.blank = x.blank /\ o.torn = x.torn /\ o.todo = x.todo
      /\ o.gate = x.gate /\ o.cut = x.cut /\ o.grouped = x.grouped /\ o.groups = x.groups
  BY <1>2, <1>4 DEF o1, TaskType
<1> HIDE DEF o
<1>7. x.reading \in BOOLEAN /\ x.trying \in BOOLEAN /\ x.acquired \in Int
  BY <1>2 DEF TaskType
<1>8. x.state = "locking" /\ ~x.reading
  BY <1>1, <1>2, <1>7 DEF ProgressOK
<1>9. OrderOK(t, o)
  BY <1>2, <1>3, <1>6, <1>8 DEF OrderOK, Kept, Asking
<1>10. ProgressOK(o)
  BY <1>1, <1>2, <1>3, <1>6, <1>8 DEF ProgressOK
<1>11. CallsOK(o)
  <2>1. \A c : Owns(o, c) <=> Owns(x, c)
    BY <1>6 DEF Owns
  <2>2. x.todo = <<>> /\ x.gate = "none" /\ ~x.grouped
    BY <1>2, <1>8 DEF CallsOK
  <2>3. QED
    BY <1>2, <1>6, <2>1, <2>2 DEF CallsOK
<1>12. PendingOK(block, t, o)
  BY <1>2, <1>3, <1>6, <1>8, PendingIdle
<1>13. ReadOK(block, o)
  BY <1>2, <1>6, <1>8 DEF ReadOK
<1>14. \A c \in Blocks : (HoldsOf(o, c) <=> HoldsOf(x, c)) /\ (WaitsOf(o, c) <=> WaitsOf(x, c))
  <2>1. \A c \in Blocks : HoldsOf(o, c) <=> HoldsOf(x, c)
    BY <1>3, <1>6, <1>8 DEF HoldsOf
  <2>2. \A c \in Blocks : ~WaitsOf(o, c) /\ ~WaitsOf(x, c)
    BY <1>1, <1>3, <1>6 DEF WaitsOf
  <2>3. QED
    BY <2>1, <2>2
<1>15. TaskOK(t, o)
  BY <1>9, <1>10, <1>11 DEF TaskOK
<1>16. x.state # "done" /\ x.state # "running"
  BY <1>8
<1>17. QED
  BY <1>1, <1>2, <1>5, <1>6, <1>12, <1>13, <1>14, <1>15, <1>16, QuietTask

LEMMA StartStep ==
  ASSUME IInv, NEW t \in Tasks, Start(t)
  PROVE  IInv'
<1> DEFINE x  == task[t]
           s  == Body[t]
           n  == Len(x.ordered) + 1
           o1 == [x EXCEPT !.state = "running"]
           o2 == [o1 EXCEPT !.todo = s]
           o  == [o2 EXCEPT !.acquired = n]
<1>1. /\ x.state = "spawned" /\ task' = [task EXCEPT ![t] = o]
      /\ block' = block /\ unseen' = unseen /\ faults' = faults
  BY TaskFacts DEF Start
<1>2. /\ x \in TaskType /\ OrderOK(t, x) /\ ProgressOK(x) /\ CallsOK(x)
      /\ PendingOK(block, t, x) /\ ReadOK(block, x) /\ faults = {}
  BY TaskFacts DEF TaskOK
<1>3. /\ Len(x.ordered) \in Nat /\ DOMAIN x.ordered = 1..Len(x.ordered)
      /\ \A c \in Blocks : Owns(x, c) <=> \E i \in Kept(x) : x.ordered[i] = c
  BY <1>2, OrderFacts
<1>4. Kept(x) = DOMAIN OrderedGuids(t) /\ DOMAIN x.ordered = DOMAIN OrderedGuids(t)
      /\ \A i \in DOMAIN x.ordered : x.ordered[i] \in {OrderedGuids(t)[i], Null}
  BY <1>1, <1>2 DEF OrderOK, Asking
<1>5. n \in Int /\ x.acquired = Len(x.ordered) /\ n = Cardinality(Kept(x)) + 1 /\ x.rest = {} /\ ~x.reading /\ ~x.trying
  <2>1. Cardinality(1..Len(x.ordered)) = Len(x.ordered)
    BY <1>3, FS_Interval
  <2>2. QED
    BY <1>1, <1>2, <1>3, <1>4, <2>1 DEF ProgressOK
<1>6. \A c \in Needed(t) : Owns(x, c)
  <2>1. \A c \in Needed(t) : \E i \in DOMAIN OrderedGuids(t) : OrderedGuids(t)[i] = c
    BY OrderedFacts
  <2>2. QED
    BY <1>4, <2>1 DEF Owns, Kept
<1>7. \A b \in Blocks : x.groups[b] = NoGroup
  BY <1>1, <1>2 DEF CallsOK, Grouping, NotEnding
<1>8. /\ s \in Seq(Calls) /\ Grouping(s, FALSE, x.groups)
      /\ \A i \in DOMAIN s : /\ s[i].op \in {"value", "release", "destroy"} => s[i].db \in Blocks
                             /\ s[i].op = "value" => s[i].db \in Needed(t)
  BY <1>7, BodyCalls
<1> HIDE DEF s, n
<1>9. o1 \in TaskType
  BY <1>2 DEF TaskType, States
<1> HIDE DEF o1
<1>10. o2 \in TaskType
  BY <1>8, <1>9 DEF TaskType
<1> HIDE DEF o2
<1>11. o \in TaskType
  BY <1>5, <1>10 DEF TaskType
<1>12. /\ o.state = "running" /\ o.ordered = x.ordered /\ o.trying = x.trying /\ o.modes = x.modes /\ o.acquired = n
       /\ o.reading = x.reading /\ o.rest = x.rest /\ o.blank = x.blank /\ o.torn = x.torn /\ o.todo = s
       /\ o.gate = x.gate /\ o.cut = x.cut /\ o.grouped = x.grouped /\ o.groups = x.groups
  BY <1>2, <1>9, <1>10 DEF o1, o2, TaskType
<1> HIDE DEF o
<1>13. Kept(o) = Kept(x) /\ \A c : Owns(o, c) <=> Owns(x, c)
  BY <1>12 DEF Kept, Owns
<1>14. OrderOK(t, o)
  BY <1>1, <1>2, <1>12 DEF OrderOK, Asking
<1>15. ProgressOK(o)
  BY <1>5, <1>12, <1>13 DEF ProgressOK
<1>16. CallsOK(o)
  <2>1. x.gate = "none" /\ ~x.grouped /\ x.grouped \in BOOLEAN
    BY <1>1, <1>2 DEF CallsOK, TaskType
  <2>2. Grouping(o.todo, o.grouped, o.groups)
    <3>1. o.grouped = FALSE
      BY <1>12, <2>1
    <3>2. QED
      BY <1>8, <1>12, <3>1
  <2>3. \A b \in Blocks : o.groups[b].values > 0 => Owns(o, b)
    BY <1>2, <1>12, <1>13 DEF CallsOK
  <2>4. \A i \in DOMAIN s : /\ s[i].op \in {"value", "release", "destroy"} => s[i].db \in Blocks
                            /\ s[i].op = "value" => Owns(o, s[i].db)
    BY <1>6, <1>8, <1>13
  <2>5. QED
    BY <1>12, <2>1, <2>2, <2>3, <2>4 DEF CallsOK
<1>17. PendingOK(block, t, o)
  BY <1>1, <1>2, <1>12, PendingIdle
<1>18. ReadOK(block, o)
  BY <1>2, <1>5, <1>12 DEF ReadOK
<1>19. \A c \in Blocks : (HoldsOf(o, c) <=> HoldsOf(x, c)) /\ (WaitsOf(o, c) <=> WaitsOf(x, c))
  <2>1. \A c \in Blocks : HoldsOf(o, c) <=> Owns(x, c)
    BY <1>12, <1>13 DEF HoldsOf
  <2>2. \A c \in Blocks : HoldsOf(x, c) <=> \E i \in 1..x.acquired : x.ordered[i] = c
    BY <1>1, <1>5 DEF HoldsOf
  <2>3. \A c \in Blocks : HoldsOf(x, c) <=> Owns(x, c)
    BY <1>3, <1>5, <2>2 DEF Owns
  <2>4. \A c \in Blocks : ~WaitsOf(o, c) /\ ~WaitsOf(x, c)
    BY <1>1, <1>12 DEF WaitsOf
  <2>5. QED
    BY <2>1, <2>3, <2>4
<1>20. TaskOK(t, o)
  BY <1>14, <1>15, <1>16 DEF TaskOK
<1>21. x.state # "done" /\ x.state # "running"
  BY <1>1
<1>22. QED
  BY <1>1, <1>2, <1>11, <1>12, <1>17, <1>18, <1>19, <1>20, <1>21, QuietTask

-----------------------------------------------------------------------------
(***************************************************************************)
(* The calls that leave the blocks alone.                                  *)
(***************************************************************************)
With(x, g, hs, r) == [[[x EXCEPT !.grouped = g] EXCEPT !.groups = hs] EXCEPT !.todo = r]

LEMMA WithFields ==
  ASSUME NEW x \in TaskType, NEW r \in Seq(Calls), NEW g \in BOOLEAN, NEW hs \in [Blocks -> Groups]
  PROVE  LET o == With(x, g, hs, r) IN
         /\ o \in TaskType /\ o.todo = r
         /\ o.state = x.state /\ o.gate = x.gate /\ o.ordered = x.ordered /\ o.modes = x.modes
         /\ o.acquired = x.acquired /\ o.trying = x.trying /\ o.reading = x.reading
         /\ o.rest = x.rest /\ o.blank = x.blank /\ o.torn = x.torn /\ o.cut = x.cut
         /\ o.grouped = g /\ o.groups = hs
<1> DEFINE o1 == [x EXCEPT !.grouped = g]
           o2 == [o1 EXCEPT !.groups = hs]
           o  == [o2 EXCEPT !.todo = r]
<1>1. /\ o1 \in TaskType
      /\ o1.state = x.state /\ o1.gate = x.gate /\ o1.ordered = x.ordered /\ o1.modes = x.modes
      /\ o1.acquired = x.acquired /\ o1.trying = x.trying /\ o1.reading = x.reading
      /\ o1.rest = x.rest /\ o1.blank = x.blank /\ o1.torn = x.torn /\ o1.cut = x.cut /\ o1.grouped = g
  BY DEF TaskType
<1> HIDE DEF o1
<1>2. /\ o2 \in TaskType
      /\ o2.state = o1.state /\ o2.gate = o1.gate /\ o2.ordered = o1.ordered /\ o2.modes = o1.modes
      /\ o2.acquired = o1.acquired /\ o2.trying = o1.trying /\ o2.reading = o1.reading
      /\ o2.rest = o1.rest /\ o2.blank = o1.blank /\ o2.torn = o1.torn /\ o2.cut = o1.cut
      /\ o2.grouped = o1.grouped /\ o2.groups = hs
  BY <1>1 DEF TaskType
<1> HIDE DEF o2
<1>3. /\ o \in TaskType /\ o.todo = r
      /\ o.state = o2.state /\ o.gate = o2.gate /\ o.ordered = o2.ordered /\ o.modes = o2.modes
      /\ o.acquired = o2.acquired /\ o.trying = o2.trying /\ o.reading = o2.reading
      /\ o.rest = o2.rest /\ o.blank = o2.blank /\ o.torn = o2.torn /\ o.cut = o2.cut
      /\ o.grouped = o2.grouped /\ o.groups = o2.groups
  BY <1>2 DEF TaskType
<1>4. o = With(x, g, hs, r)
  BY DEF With, o1, o2
<1> HIDE DEF o
<1>5. QED
  BY <1>1, <1>2, <1>3, <1>4

LEMMA WithCalls ==
  ASSUME NEW x \in TaskType, NEW r, NEW g, g = x.grouped, NEW gs, gs = x.groups
  PROVE  With(x, g, gs, r) = [x EXCEPT !.todo = r]
<1>1. [x EXCEPT !.grouped = g] = x /\ [x EXCEPT !.groups = gs] = x
  BY DEF TaskType
<1>2. QED
  BY <1>1 DEF With

LEMMA Called ==
  ASSUME IInv, NEW t \in Tasks, NEW g \in BOOLEAN, NEW hs \in [Blocks -> Groups], NEW r \in Seq(Calls),
         task' = [task EXCEPT ![t] = With(task[t], g, hs, r)],
         block' = block, faults' = {}, unseen' = unseen,
         task[t].state = "running", task[t].gate = "none", Grouping(r, g, hs),
         \A i \in DOMAIN r : /\ r[i].op \in {"value", "release", "destroy"} => r[i].db \in Blocks
                             /\ r[i].op = "value" => Owns(task[t], r[i].db),
         \A b \in Blocks : hs[b].values > 0 => Owns(task[t], b)
  PROVE  IInv'
<1> DEFINE x == task[t]
           o == With(x, g, hs, r)
<1>1. x \in TaskType
  BY TaskFacts
<1>2. /\ o \in TaskType /\ o.todo = r
      /\ o.state = x.state /\ o.gate = x.gate /\ o.ordered = x.ordered /\ o.modes = x.modes
      /\ o.acquired = x.acquired /\ o.trying = x.trying /\ o.reading = x.reading
      /\ o.rest = x.rest /\ o.blank = x.blank /\ o.torn = x.torn /\ o.cut = x.cut
      /\ o.grouped = g /\ o.groups = hs
  BY <1>1, WithFields
<1> HIDE DEF o
<1>3. Grouping(o.todo, o.grouped, o.groups) /\ o.state = "running" /\ o.gate = "none"
  BY <1>2
<1>4. task' = [task EXCEPT ![t] = o]
  BY DEF o
<1>5. \A i \in DOMAIN o.todo : /\ o.todo[i].op \in {"value", "release", "destroy"} => o.todo[i].db \in Blocks
                               /\ o.todo[i].op = "value" => Owns(x, o.todo[i].db)
  BY <1>2
<1>6. \A b \in Blocks : o.groups[b].values > 0 => Owns(x, b)
  BY <1>2
<1>7. QED
  BY <1>2, <1>3, <1>4, <1>5, <1>6, CallStep

LEMMA GroupBeginStep ==
  ASSUME IInv, NEW t \in Tasks, GroupBegin(t)
  PROVE  IInv'
<1> DEFINE x == task[t]
           r == Tail(x.todo)
<1>1. x.state = "running" /\ x.todo # <<>> /\ Head(x.todo).op = "begin"
  BY DEF GroupBegin, CallIs
<1>2. /\ x \in TaskType /\ x.todo \in Seq(Calls) /\ r \in Seq(Calls) /\ x.gate = "none"
      /\ x.grouped \in BOOLEAN /\ x.groups \in [Blocks -> Groups] /\ Grouping(x.todo, x.grouped, x.groups)
      /\ \A i \in DOMAIN r : /\ r[i].op \in {"value", "release", "destroy"} => r[i].db \in Blocks
                             /\ r[i].op = "value" => Owns(x, r[i].db)
      /\ \A b \in Blocks : x.groups[b].values > 0 => Owns(x, b)
  BY <1>1, RunningFacts
<1>3. ~x.grouped /\ Grouping(r, TRUE, x.groups)
  BY <1>1, <1>2, BeginCalls
<1>4. task' = [task EXCEPT ![t] = With(x, TRUE, x.groups, r)] /\ block' = block /\ unseen' = unseen /\ faults' = {}
  <2>1. [x EXCEPT !.grouped = TRUE].todo = x.todo
    BY <1>2 DEF TaskType
  <2>2. task' = [task EXCEPT ![t] = [[x EXCEPT !.grouped = TRUE] EXCEPT !.todo = r]]
    BY <2>1 DEF GroupBegin, Proceed, Advanced
  <2>3. faults' = {} /\ block' = block /\ unseen' = unseen
    BY <1>3, TaskFacts DEF GroupBegin, Proceed, Failed
  <2>4. QED
    <3>1. With(x, TRUE, x.groups, r) = [[x EXCEPT !.grouped = TRUE] EXCEPT !.todo = r]
      <4>1. [[x EXCEPT !.grouped = TRUE] EXCEPT !.groups = x.groups] = [x EXCEPT !.grouped = TRUE]
        BY <1>2 DEF TaskType
      <4>2. QED
        BY <4>1 DEF With
    <3>2. QED
      BY <2>2, <2>3, <3>1
<1> HIDE DEF r
<1>5. QED
  BY <1>1, <1>2, <1>3, <1>4, Called

LEMMA GroupEndStep ==
  ASSUME IInv, NEW t \in Tasks, GroupEnd(t)
  PROVE  IInv'
<1> DEFINE x == task[t]
           q == Op("ending", Null)
           r == <<q>> \o Tail(x.todo)
<1>1. x.state = "running" /\ x.todo # <<>> /\ Head(x.todo).op = "end"
  BY DEF GroupEnd, CallIs
<1>2. /\ x \in TaskType /\ x.todo \in Seq(Calls) /\ x.gate = "none"
      /\ x.grouped \in BOOLEAN /\ x.groups \in [Blocks -> Groups] /\ Grouping(x.todo, x.grouped, x.groups)
      /\ \A i \in DOMAIN x.todo : /\ x.todo[i].op \in {"value", "release", "destroy"} => x.todo[i].db \in Blocks
                                  /\ x.todo[i].op = "value" => Owns(x, x.todo[i].db)
      /\ \A b \in Blocks : x.groups[b].values > 0 => Owns(x, b)
  BY <1>1, RunningFacts
<1>3. q.op = "ending" /\ q.db \notin Blocks /\ q \in Calls
  BY TaskBlocksAssumption DEF Op, Calls
<1> HIDE DEF q
<1>4. /\ x.grouped /\ r \in Seq(Calls) /\ Grouping(r, FALSE, x.groups)
      /\ DOMAIN r = DOMAIN x.todo /\ \A i \in DOMAIN r : r[i] = IF i = 1 THEN q ELSE x.todo[i]
  BY <1>1, <1>2, <1>3, EndCalls, ZenonT(60)
<1>5. task' = [task EXCEPT ![t] = With(x, FALSE, x.groups, r)] /\ block' = block /\ unseen' = unseen /\ faults' = {}
  <2>1. [x EXCEPT !.grouped = FALSE].todo = x.todo
    BY <1>2 DEF TaskType
  <2>2. task' = [task EXCEPT ![t] = [[x EXCEPT !.grouped = FALSE] EXCEPT !.todo = r]]
    BY <2>1, TaskFacts DEF GroupEnd, q
  <2>3. faults' = {} /\ block' = block /\ unseen' = unseen
    BY <1>4, TaskFacts DEF GroupEnd, Failed
  <2>4. QED
    <3>1. With(x, FALSE, x.groups, r) = [[x EXCEPT !.grouped = FALSE] EXCEPT !.todo = r]
      <4>1. [[x EXCEPT !.grouped = FALSE] EXCEPT !.groups = x.groups] = [x EXCEPT !.grouped = FALSE]
        BY <1>2 DEF TaskType
      <4>2. QED
        BY <4>1 DEF With
    <3>2. QED
      BY <2>2, <2>3, <3>1
<1> HIDE DEF r
<1>6. \A i \in DOMAIN r : /\ r[i].op \in {"value", "release", "destroy"} => r[i].db \in Blocks
                          /\ r[i].op = "value" => Owns(x, r[i].db)
  BY <1>2, <1>3, <1>4
<1>7. QED
  BY <1>1, <1>2, <1>4, <1>5, <1>6, Called

LEMMA EndGroupStep ==
  ASSUME IInv, NEW t \in Tasks, EndGroup(t)
  PROVE  IInv'
<1> DEFINE x  == task[t]
           gs == x.groups
<1>1. x.state = "running" /\ x.todo # <<>> /\ Head(x.todo).op = "ending"
  BY DEF EndGroup, CallIs
<1>2. /\ x \in TaskType /\ x.todo \in Seq(Calls) /\ Tail(x.todo) \in Seq(Calls) /\ x.gate = "none"
      /\ x.grouped \in BOOLEAN /\ gs \in [Blocks -> Groups] /\ Grouping(x.todo, x.grouped, gs)
      /\ \A i \in DOMAIN x.todo : /\ x.todo[i].op \in {"value", "release", "destroy"} => x.todo[i].db \in Blocks
                                  /\ x.todo[i].op = "value" => Owns(x, x.todo[i].db)
      /\ \A i \in DOMAIN Tail(x.todo) :
           /\ Tail(x.todo)[i].op \in {"value", "release", "destroy"} => Tail(x.todo)[i].db \in Blocks
           /\ Tail(x.todo)[i].op = "value" => Owns(x, Tail(x.todo)[i].db)
      /\ \A b \in Blocks : gs[b].values > 0 => Owns(x, b)
  BY <1>1, RunningFacts
<1>3. block' = block /\ unseen' = unseen /\ faults' = {}
  BY TaskFacts DEF EndGroup
<1>4. ASSUME \A b \in Blocks : gs[b] = NoGroup, task' = [task EXCEPT ![t] = Advanced(@)]
      PROVE  IInv'
  <2> DEFINE r == Tail(x.todo)
  <2>1. Grouping(r, x.grouped, gs)
    BY <1>1, <1>2, <1>4, EndingDone
  <2>2. task' = [task EXCEPT ![t] = With(x, x.grouped, gs, r)]
    <3>1. task' = [task EXCEPT ![t] = [x EXCEPT !.todo = r]]
      BY <1>4, TaskFacts DEF Advanced
    <3>2. With(x, x.grouped, gs, r) = [x EXCEPT !.todo = r]
      BY <1>2, WithCalls, ZenonT(60)
    <3>3. QED
      BY <3>1, <3>2
  <2> HIDE DEF r
  <2>3. r \in Seq(Calls) /\ \A i \in DOMAIN r : /\ r[i].op \in {"value", "release", "destroy"} => r[i].db \in Blocks
                                                /\ r[i].op = "value" => Owns(x, r[i].db)
    BY <1>2 DEF r
  <2>4. QED
    BY <1>1, <1>2, <1>3, <2>1, <2>2, <2>3, Called
<1>5. ASSUME NEW b \in Blocks,
             task' = [task EXCEPT ![t].groups[b] = NoGroup, ![t].todo = GroupCalls(gs[b], b) \o @]
      PROVE  IInv'
  <2> DEFINE r  == GroupCalls(gs[b], b) \o x.todo
             hs == [gs EXCEPT ![b] = NoGroup]
  <2>1. /\ r \in Seq(Calls) /\ hs \in [Blocks -> Groups] /\ Grouping(r, x.grouped, hs)
        /\ \A i \in DOMAIN r : \/ r[i].db = b /\ (r[i].op = "value" => gs[b].values > 0)
                               \/ \E j \in DOMAIN x.todo : r[i] = x.todo[j]
    <3> HIDE DEF r, hs
    <3>1. Joined(r, GroupCalls(gs[b], b), x.todo)
      BY DEF r, Joined
    <3>2. hs \in [Blocks -> Groups] /\ hs[b] = NoGroup /\ \A c \in Blocks \ {b} : hs[c] = gs[c]
      BY <1>2 DEF hs, NoGroup, Groups
    <3> DEFINE s == x.todo
               g == x.grouped
               fs == gs
    <3>3. /\ s \in Seq(Calls) /\ s # <<>> /\ g \in BOOLEAN /\ fs \in [Blocks -> Groups] /\ Grouping(s, g, fs)
          /\ Head(s).op = "ending" /\ Joined(r, GroupCalls(fs[b], b), s)
          /\ hs \in [Blocks -> Groups] /\ hs[b] = NoGroup /\ \A c \in Blocks \ {b} : hs[c] = fs[c]
      BY <1>1, <1>2, <3>1, <3>2
    <3> HIDE DEF s, g, fs
    <3>4. r \in Seq(Calls)
      BY <3>3, EndingNext
    <3>5. Grouping(r, g, hs)
      BY <3>3, EndingNext
    <3>6. \A i \in DOMAIN r : \/ r[i].db = b /\ (r[i].op = "value" => fs[b].values > 0)
                             \/ \E j \in DOMAIN s : r[i] = s[j]
      BY <3>3, EndingNext
    <3>7. QED
      BY <3>2, <3>4, <3>5, <3>6 DEF s, g, fs
  <2>2. task' = [task EXCEPT ![t] = With(x, x.grouped, hs, r)]
    <3>1. task' = [task EXCEPT ![t] = [[x EXCEPT !.groups = hs] EXCEPT !.todo = r]]
      BY <1>2, <1>5, TaskFacts DEF TaskType
    <3>2. With(x, x.grouped, hs, r) = [[x EXCEPT !.groups = hs] EXCEPT !.todo = r]
      <4>1. [x EXCEPT !.grouped = x.grouped] = x
        BY <1>2 DEF TaskType
      <4>2. QED
        BY <4>1 DEF With
    <3>3. QED
      BY <3>1, <3>2
  <2>3. \A i \in DOMAIN r : /\ r[i].op \in {"value", "release", "destroy"} => r[i].db \in Blocks
                            /\ r[i].op = "value" => Owns(x, r[i].db)
    BY <1>2, <2>1
  <2>4. \A c \in Blocks : hs[c].values > 0 => Owns(x, c)
    BY <1>2 DEF NoGroup
  <2> HIDE DEF hs, r
  <2>5. QED
    BY <1>1, <1>2, <1>3, <2>1, <2>2, <2>3, <2>4, Called
<1>6. QED
  BY <1>4, <1>5 DEF EndGroup

LEMMA ByValueStep ==
  ASSUME IInv, NEW t \in Tasks, ByValue(t)
  PROVE  IInv'
<1> DEFINE x  == task[t]
           s  == x.todo
           r  == Tail(s)
           b  == Head(s).db
           hs == IF x.grouped THEN [x.groups EXCEPT ![b].values = @ + 1] ELSE x.groups
<1>1. x.state = "running" /\ s # <<>> /\ Head(s).op = "value"
  BY DEF ByValue, CallIs
<1>2. /\ x \in TaskType /\ s \in Seq(Calls) /\ r \in Seq(Calls) /\ x.gate = "none"
      /\ x.grouped \in BOOLEAN /\ x.groups \in [Blocks -> Groups] /\ Grouping(s, x.grouped, x.groups)
      /\ Head(s) = s[1] /\ 1 \in DOMAIN s
      /\ \A i \in DOMAIN s : /\ s[i].op \in {"value", "release", "destroy"} => s[i].db \in Blocks
                             /\ s[i].op = "value" => Owns(x, s[i].db)
      /\ \A i \in DOMAIN r : /\ r[i].op \in {"value", "release", "destroy"} => r[i].db \in Blocks
                             /\ r[i].op = "value" => Owns(x, r[i].db)
      /\ \A c \in Blocks : x.groups[c].values > 0 => Owns(x, c)
  BY <1>1, RunningFacts
<1>3. b \in Blocks /\ Owns(x, b)
  BY <1>1, <1>2
<1> HIDE DEF b
<1>4. /\ hs \in [Blocks -> Groups]
      /\ \A c \in Blocks : hs[c].ends = x.groups[c].ends /\ (hs[c].values > 0 => c = b \/ x.groups[c].values > 0)
      /\ ~x.grouped => hs = x.groups
  <2>1. CASE x.grouped
    <3> DEFINE y == x.groups[b]
               z == [y EXCEPT !.values = @ + 1]
    <3>1. y \in Groups
      BY <1>2, <1>3
    <3>2. z \in Groups /\ z.ends = y.ends
      BY <3>1 DEF Groups
    <3>3. hs = [x.groups EXCEPT ![b] = z]
      BY <2>1
    <3> HIDE DEF y, z, hs
    <3>4. y = x.groups[b]
      BY DEF y
    <3>5. QED
      BY <1>2, <1>3, <2>1, <3>2, <3>3, <3>4
  <2>2. CASE ~x.grouped
    BY <1>2, <2>2
  <2>3. QED
    BY <2>1, <2>2
<1>5. Grouping(r, x.grouped, hs)
  <2>1. \A c \in Blocks : hs[c].ends # "none" => x.groups[c].ends # "none" \/ Drops(Head(s), c)
    BY <1>4
  <2> DEFINE g  == x.grouped
             gs == x.groups
  <2>2. /\ s \in Seq(Calls) /\ s # <<>> /\ g \in BOOLEAN /\ Grouping(s, g, gs)
        /\ Head(s).op \notin {"begin", "end", "ending"} /\ (~g => hs = gs)
        /\ \A c \in Blocks : hs[c].ends # "none" => gs[c].ends # "none" \/ Drops(Head(s), c)
    BY <1>1, <1>2, <1>4, <2>1
  <2> HIDE DEF hs, s, g, gs
  <2>3. Grouping(Tail(s), g, hs)
    BY <2>2, PlainCalls
  <2>4. QED
    BY <2>3 DEF g
<1>6. task' = [task EXCEPT ![t] = With(x, x.grouped, hs, r)] /\ block' = block /\ unseen' = unseen /\ faults' = {}
  <2>1. task' = [task EXCEPT ![t] = [[x EXCEPT !.groups = hs] EXCEPT !.todo = r]]
    <3>1. CASE x.grouped
      <4>1. [x EXCEPT !.groups = hs].todo = s
        BY <1>2 DEF TaskType
      <4>2. [x EXCEPT !.groups[b].values = @ + 1] = [x EXCEPT !.groups = hs]
        BY <3>1
      <4>3. task' = [task EXCEPT ![t] = Advanced([x EXCEPT !.groups = hs])]
        BY <3>1, <4>2 DEF ByValue, Proceed, Db, b
      <4>4. QED
        BY <4>1, <4>3 DEF Advanced
    <3>2. CASE ~x.grouped
      <4>1. [x EXCEPT !.groups = hs] = x
        BY <1>2, <3>2 DEF TaskType
      <4>2. task' = [task EXCEPT ![t] = Advanced(x)]
        BY <3>2 DEF ByValue, Proceed
      <4>3. QED
        BY <4>1, <4>2 DEF Advanced
    <3>3. QED
      BY <3>1, <3>2
  <2>2. With(x, x.grouped, hs, r) = [[x EXCEPT !.groups = hs] EXCEPT !.todo = r]
    <3>1. [x EXCEPT !.grouped = x.grouped] = x
      BY <1>2 DEF TaskType
    <3>2. QED
      BY <3>1 DEF With
  <2>3. faults' = {} /\ block' = block /\ unseen' = unseen
    BY <1>3, TaskFacts DEF ByValue, Proceed, Failed, Db, b
  <2>4. QED
    BY <2>1, <2>2, <2>3
<1>7. \A c \in Blocks : hs[c].values > 0 => Owns(x, c)
  BY <1>2, <1>3, <1>4
<1> HIDE DEF hs, r
<1>8. QED
  BY <1>1, <1>2, <1>4, <1>5, <1>6, <1>7, Called

(* A call that ends, in a group, the use of a block.                       *)
LEMMA GroupedEnd ==
  ASSUME IInv, NEW t \in Tasks, task[t].state = "running", task[t].todo # <<>>, task[t].gate = "none",
         NEW g \in BOOLEAN, g = task[t].grouped, g, NEW b \in Blocks, Drops(Head(task[t].todo), b),
         NEW hs \in [Blocks -> Groups], \A c \in Blocks : hs[c].values = task[t].groups[c].values,
         \A c \in Blocks : c # b => hs[c].ends = task[t].groups[c].ends,
         task' = [task EXCEPT ![t] = With(task[t], g, hs, Tail(task[t].todo))],
         block' = block, faults' = {}, unseen' = unseen
  PROVE  IInv'
<1> DEFINE x == task[t]
           s == x.todo
           r == Tail(s)
<1>1. /\ x \in TaskType /\ s \in Seq(Calls) /\ r \in Seq(Calls)
      /\ Grouping(s, g, x.groups)
      /\ \A i \in DOMAIN r : /\ r[i].op \in {"value", "release", "destroy"} => r[i].db \in Blocks
                             /\ r[i].op = "value" => Owns(x, r[i].db)
      /\ \A c \in Blocks : x.groups[c].values > 0 => Owns(x, c)
  BY RunningFacts
<1>2. Grouping(r, g, hs)
  <2>1. \A c \in Blocks : hs[c].ends # "none" => x.groups[c].ends # "none" \/ Drops(Head(s), c)
    OBVIOUS
  <2>2. Head(s).op \notin {"begin", "end", "ending"}
    BY DEF Drops
  <2>3. QED
    BY <1>1, <2>1, <2>2, PlainCalls
<1>3. \A c \in Blocks : hs[c].values > 0 => Owns(x, c)
  BY <1>1
<1> HIDE DEF r
<1>4. task' = [task EXCEPT ![t] = With(x, g, hs, r)]
  BY DEF r
<1>5. QED
  BY <1>1, <1>2, <1>3, <1>4, Called

(* What kind of end a call is does not matter.                             *)
LEMMA SameShape ==
  ASSUME NEW s \in Seq(Calls), NEW r \in Seq(Calls), DOMAIN r = DOMAIN s, NEW g, NEW gs, Grouping(s, g, gs),
         \A i \in DOMAIN s : /\ r[i].db = s[i].db
                             /\ r[i].op = s[i].op \/ {r[i].op, s[i].op} \subseteq {"release", "destroy"}
  PROVE  Grouping(r, g, gs)
<1> DEFINE n == Len(s)
<1>1. n \in Nat /\ DOMAIN s = 1..n
  OBVIOUS
<1> HIDE DEF n
<1>2. \A i \in DOMAIN s :
        /\ Bracket(r[i]) <=> Bracket(s[i])
        /\ \A w \in {"begin", "end", "ending"} : r[i].op = w <=> s[i].op = w
        /\ \A b : (Gives(r[i], b) <=> Gives(s[i], b)) /\ (Drops(r[i], b) <=> Drops(s[i], b))
  BY DEF Bracket, Gives, Drops
<1>3. \A i, j \in Int : i > 0 /\ j <= n => (NoneIn(r, i, j) <=> NoneIn(s, i, j))
  <2> SUFFICES ASSUME NEW i \in Int, NEW j \in Int, i > 0, j <= n PROVE NoneIn(r, i, j) <=> NoneIn(s, i, j)
    OBVIOUS
  <2>1. \A k \in i..j : k \in DOMAIN s
    BY <1>1
  <2>2. QED
    BY <1>2, <2>1 DEF NoneIn
<1>4. \A i \in DOMAIN s : Inside(r, g, i) <=> Inside(s, g, i)
  <2> TAKE i \in DOMAIN s
  <2>1. NoneIn(r, 1, i - 1) <=> NoneIn(s, 1, i - 1)
    BY <1>1, <1>3
  <2>2. \A k \in 1..(i - 1) : /\ NoneIn(r, k + 1, i - 1) <=> NoneIn(s, k + 1, i - 1)
                              /\ r[k].op = "begin" <=> s[k].op = "begin"
    <3> TAKE k \in 1..(i - 1)
    <3>1. k \in DOMAIN s /\ k + 1 \in Int /\ k + 1 > 0 /\ i - 1 \in Int /\ i - 1 <= n
      BY <1>1
    <3>2. QED
      BY <1>2, <1>3, <3>1
  <2>3. QED
    BY <2>1, <2>2 DEF Inside
<1>5. Bracketed(s, g) /\ DroppedLast(s, g)
  BY DEF Grouping
<1>6. \A i, j \in DOMAIN s : NoneIn(r, i + 1, j - 1) <=> NoneIn(s, i + 1, j - 1)
  BY <1>1, <1>3
<1>7. \A j \in DOMAIN s : NoneIn(r, 1, j - 1) <=> NoneIn(s, 1, j - 1)
  BY <1>1, <1>3
<1>8. Bracketed(r, g)
  <2>1. \A i \in DOMAIN r : r[i].op = "begin" => \E j \in DOMAIN r : i < j /\ r[j].op = "end" /\ NoneIn(r, i + 1, j - 1)
    BY <1>2, <1>5, <1>6 DEF Bracketed
  <2>2. \A j \in DOMAIN r : r[j].op = "end" => Inside(r, g, j)
    BY <1>2, <1>4, <1>5 DEF Bracketed
  <2>3. g => \E j \in DOMAIN r : r[j].op = "end" /\ NoneIn(r, 1, j - 1)
    BY <1>2, <1>5, <1>7 DEF Bracketed
  <2>4. QED
    BY <2>1, <2>2, <2>3 DEF Bracketed
<1>9. \A i, j \in DOMAIN s : \A k \in i..j : k \in DOMAIN s
  BY <1>1
<1>10. DroppedLast(r, g)
  <2> SUFFICES ASSUME NEW b \in Blocks, NEW i \in DOMAIN r, NEW j \in DOMAIN r, i < j, Drops(r[i], b), Gives(r[j], b)
               PROVE  Inside(r, g, i) /\ \A k \in i..j : r[k].op # "end"
    BY DEF DroppedLast
  <2>1. Drops(s[i], b) /\ Gives(s[j], b)
    BY <1>2
  <2>2. Inside(s, g, i) /\ \A k \in i..j : s[k].op # "end"
    BY <1>5, <2>1 DEF DroppedLast
  <2>3. QED
    BY <1>2, <1>4, <1>9, <2>2
<1>11. \A j \in DOMAIN s : \A k \in 1..(j - 1) : k \in DOMAIN s
  BY <1>1
<1>12. \A b \in Blocks : \A j \in DOMAIN r : gs[b].ends # "none" /\ Gives(r[j], b) =>
         g /\ \A k \in 1..(j - 1) : r[k].op # "end"
  BY <1>2, <1>11 DEF Grouping
<1>13. \A i \in DOMAIN r : r[i].op = "ending" =>
         /\ ~g /\ NoneIn(r, 1, i - 1) /\ \A j \in DOMAIN r : r[j].op = "ending" => j = i
         /\ \A j \in 1..(i - 1) : \A b \in Blocks : r[j].db = b => gs[b] = NoGroup
  <2> SUFFICES ASSUME NEW i \in DOMAIN r, r[i].op = "ending"
               PROVE  /\ ~g /\ NoneIn(r, 1, i - 1) /\ \A j \in DOMAIN r : r[j].op = "ending" => j = i
                      /\ \A j \in 1..(i - 1) : \A b \in Blocks : r[j].db = b => gs[b] = NoGroup
    OBVIOUS
  <2>1. s[i].op = "ending"
    BY <1>2
  <2>2. /\ ~g /\ NoneIn(s, 1, i - 1) /\ \A j \in DOMAIN s : s[j].op = "ending" => j = i
        /\ \A j \in 1..(i - 1) : \A b \in Blocks : s[j].db = b => gs[b] = NoGroup
    BY <2>1 DEF Grouping
  <2>3. \A j \in 1..(i - 1) : r[j].db = s[j].db
    BY <1>11
  <2>4. QED
    BY <1>2, <1>7, <2>2, <2>3
<1>14. ~g /\ NotEnding(r) => \A b \in Blocks : gs[b] = NoGroup
  BY <1>2 DEF Grouping, NotEnding
<1>15. QED
  BY <1>8, <1>10, <1>12, <1>13, <1>14 DEF Grouping

LEMMA DestroyStep ==
  ASSUME IInv, NEW t \in Tasks, Destroy(t)
  PROVE  IInv'
<1> DEFINE x == task[t]
           s == x.todo
           b == Head(s).db
           g == x.grouped
<1>1. x.state = "running" /\ s # <<>> /\ Head(s).op = "destroy"
  BY DEF Destroy, CallIs
<1>2. /\ x \in TaskType /\ s \in Seq(Calls) /\ Tail(s) \in Seq(Calls) /\ x.gate = "none"
      /\ g \in BOOLEAN /\ x.groups \in [Blocks -> Groups] /\ Grouping(s, g, x.groups)
      /\ Head(s) = s[1] /\ 1 \in DOMAIN s
      /\ \A i \in DOMAIN s : /\ s[i].op \in {"value", "release", "destroy"} => s[i].db \in Blocks
                             /\ s[i].op = "value" => Owns(x, s[i].db)
      /\ \A c \in Blocks : x.groups[c].values > 0 => Owns(x, c)
  BY <1>1, RunningFacts
<1>3. b \in Blocks /\ Drops(Head(s), b)
  BY <1>1, <1>2 DEF Drops
<1>4. block' = block /\ unseen' = unseen /\ faults' = {}
  BY TaskFacts DEF Destroy
<1>5. CASE g
  <2> DEFINE hs == [x.groups EXCEPT ![b].ends = "destroy"]
  <2>1. /\ hs \in [Blocks -> Groups] /\ \A c \in Blocks : hs[c].values = x.groups[c].values
        /\ \A c \in Blocks : c # b => hs[c].ends = x.groups[c].ends
    <3> DEFINE y == x.groups[b]
               z == [y EXCEPT !.ends = "destroy"]
    <3> HIDE DEF b
    <3>1. y \in Groups
      BY <1>2, <1>3
    <3>2. z \in Groups /\ z.values = y.values
      BY <3>1 DEF Groups
    <3>3. hs = [x.groups EXCEPT ![b] = z]
      OBVIOUS
    <3> HIDE DEF z, hs
    <3>4. QED
      BY <1>2, <1>3, <3>2, <3>3
  <2>2. task' = [task EXCEPT ![t] = With(x, g, hs, Tail(s))]
    <3>1. task' = [task EXCEPT ![t] = [Advanced(x) EXCEPT !.groups[b].ends = "destroy"]]
      BY <1>5 DEF Destroy, Db
    <3>2. [Advanced(x) EXCEPT !.groups[b].ends = "destroy"] = [[x EXCEPT !.groups = hs] EXCEPT !.todo = Tail(s)]
      <4> HIDE DEF b
      <4>1. QED
        BY <1>2 DEF Advanced, TaskType
    <3>3. [x EXCEPT !.grouped = g] = x
      BY <1>2 DEF TaskType
    <3>4. QED
      BY <3>1, <3>2, <3>3 DEF With
  <2> HIDE DEF hs, b
  <2>3. \E f \in BOOLEAN : f = g /\ f
    BY <1>2, <1>5
  <2>4. PICK f \in BOOLEAN : f = g /\ f
    BY <2>3
  <2>5. task' = [task EXCEPT ![t] = With(x, f, hs, Tail(s))]
    BY <2>2, <2>4
  <2>6. QED
    BY <1>1, <1>2, <1>3, <1>4, <2>1, <2>4, <2>5, GroupedEnd, ZenonT(60)
<1>6. CASE ~g
  <2> DEFINE q == Op("release", b)
             r == <<q>> \o Tail(s)
  <2>1. q.op = "release" /\ q.db = b /\ q \in Calls
    BY <1>3 DEF Op, Calls
  <2> HIDE DEF q
  <2>2. r \in Seq(Calls) /\ DOMAIN r = DOMAIN s /\ \A i \in DOMAIN s : r[i] = IF i = 1 THEN q ELSE s[i]
    BY <1>1, <1>2, <2>1
  <2>3. Grouping(r, g, x.groups)
    <3>1. \A i \in DOMAIN s : /\ r[i].db = s[i].db
                              /\ r[i].op = s[i].op \/ {r[i].op, s[i].op} \subseteq {"release", "destroy"}
      BY <1>1, <1>2, <2>1, <2>2
    <3> HIDE DEF r, g
    <3>2. QED
      BY <1>2, <2>2, <3>1, SameShape
  <2>4. \A i \in DOMAIN r : /\ r[i].op \in {"value", "release", "destroy"} => r[i].db \in Blocks
                            /\ r[i].op = "value" => Owns(x, r[i].db)
    BY <1>2, <1>3, <2>1, <2>2
  <2>5. task' = [task EXCEPT ![t] = With(x, g, x.groups, r)]
    <3>1. task' = [task EXCEPT ![t] = [x EXCEPT !.todo = r]]
      BY <1>6, TaskFacts DEF Destroy, Db, q
    <3>2. With(x, g, x.groups, r) = [x EXCEPT !.todo = r]
      BY <1>2, WithCalls
    <3>3. QED
      BY <3>1, <3>2
  <2> HIDE DEF r, g
  <2>6. QED
    BY <1>1, <1>2, <1>4, <2>2, <2>3, <2>4, <2>5, Called
<1>7. QED
  BY <1>2, <1>5, <1>6

(* A release in a group, and one of a block that the task does not own.    *)
ReleaseLater(t) ==
  LET o == task[t]
      b == Db(t)
  IN
  /\ CallIs(t, "release") /\ o.gate = "none" /\ o.grouped
  /\ task' = [task EXCEPT ![t] = [Advanced(o) EXCEPT !.groups[b].ends = IF @ = "none" THEN "release" ELSE @]]
  /\ block' = block /\ faults' = faults /\ unseen' = unseen

LEMMA ReleaseLaterStep ==
  ASSUME IInv, NEW t \in Tasks, ReleaseLater(t)
  PROVE  IInv'
<1> DEFINE x  == task[t]
           s  == x.todo
           b  == Head(s).db
           g  == x.grouped
           e  == IF x.groups[b].ends = "none" THEN "release" ELSE x.groups[b].ends
           hs == [x.groups EXCEPT ![b].ends = e]
<1>1. x.state = "running" /\ s # <<>> /\ Head(s).op = "release" /\ x.gate = "none" /\ g
  BY DEF ReleaseLater, CallIs
<1>2. /\ x \in TaskType /\ s \in Seq(Calls) /\ Tail(s) \in Seq(Calls)
      /\ g \in BOOLEAN /\ x.groups \in [Blocks -> Groups] /\ Head(s).db \in Blocks
  BY <1>1, RunningFacts
<1>3. b \in Blocks /\ Drops(Head(s), b)
  BY <1>1, <1>2 DEF Drops
<1>4. faults' = {} /\ block' = block /\ unseen' = unseen
  BY TaskFacts DEF ReleaseLater
<1>5. task' = [task EXCEPT ![t] = With(x, g, hs, Tail(s))]
  <2>1. task' = [task EXCEPT ![t] = [Advanced(x) EXCEPT !.groups[b].ends = IF @ = "none" THEN "release" ELSE @]]
    BY DEF ReleaseLater, Db
  <2>2. [Advanced(x) EXCEPT !.groups[b].ends = IF @ = "none" THEN "release" ELSE @]
          = [[x EXCEPT !.groups = hs] EXCEPT !.todo = Tail(s)]
    <3> HIDE DEF b
    <3>1. QED
      BY <1>2 DEF Advanced, TaskType
  <2>3. [x EXCEPT !.grouped = g] = x
    BY <1>2 DEF TaskType
  <2>4. QED
    BY <2>1, <2>2, <2>3 DEF With
<1>6. /\ hs \in [Blocks -> Groups] /\ \A c \in Blocks : hs[c].values = x.groups[c].values
      /\ \A c \in Blocks : c # b => hs[c].ends = x.groups[c].ends
  <2> DEFINE y == x.groups[b]
             z == [y EXCEPT !.ends = e]
  <2> HIDE DEF b
  <2>1. y \in Groups
    BY <1>2, <1>3
  <2>2. e \in {"none", "release", "destroy"}
    BY <2>1 DEF Groups
  <2> HIDE DEF e
  <2>3. z \in Groups /\ z.values = y.values
    BY <2>1, <2>2 DEF Groups
  <2>4. hs = [x.groups EXCEPT ![b] = z]
    OBVIOUS
  <2> HIDE DEF z, hs
  <2>5. QED
    BY <1>2, <1>3, <2>3, <2>4
<1> HIDE DEF hs, b, e
<1>7. \E f \in BOOLEAN : f = g /\ f
  BY <1>1, <1>2
<1>8. PICK f \in BOOLEAN : f = g /\ f
  BY <1>7
<1>9. task' = [task EXCEPT ![t] = With(x, f, hs, Tail(s))]
  BY <1>5, <1>8
<1>10. QED
  BY <1>1, <1>2, <1>3, <1>4, <1>6, <1>8, <1>9, GroupedEnd, ZenonT(60)

LEMMA ReleaseNothing ==
  ASSUME IInv, NEW t \in Tasks, CallIs(t, "release"), task[t].gate = "none",
         task' = [task EXCEPT ![t] = Advanced(@)], block' = block, faults' = faults, unseen' = unseen
  PROVE  IInv'
<1> DEFINE x == task[t]
           s == x.todo
           r == Tail(s)
           g == x.grouped
           gs == x.groups
<1>1. x.state = "running" /\ s # <<>> /\ Head(s).op = "release"
  BY DEF CallIs
<1>2. /\ x \in TaskType /\ s \in Seq(Calls) /\ r \in Seq(Calls)
      /\ g \in BOOLEAN /\ gs \in [Blocks -> Groups] /\ Grouping(s, g, gs)
      /\ \A i \in DOMAIN r : /\ r[i].op \in {"value", "release", "destroy"} => r[i].db \in Blocks
                             /\ r[i].op = "value" => Owns(x, r[i].db)
      /\ \A c \in Blocks : gs[c].values > 0 => Owns(x, c)
  BY <1>1, RunningFacts
<1>3. faults' = {}
  BY TaskFacts
<1>4. Grouping(r, g, gs)
  <2>1. Head(s).op \notin {"begin", "end", "ending"}
    BY <1>1
  <2> HIDE DEF s, g, gs
  <2>2. s \in Seq(Calls) /\ s # <<>> /\ g \in BOOLEAN /\ Grouping(s, g, gs)
    BY <1>1, <1>2
  <2>3. QED
    BY <2>1, <2>2, PlainCalls
<1>5. task' = [task EXCEPT ![t] = With(x, g, gs, r)]
  <2>1. task' = [task EXCEPT ![t] = [x EXCEPT !.todo = r]]
    BY TaskFacts DEF Advanced
  <2>2. With(x, g, gs, r) = [x EXCEPT !.todo = r]
    BY <1>2, WithCalls, ZenonT(60)
  <2>3. QED
    BY <2>1, <2>2
<1> HIDE DEF r, g, gs
<1>6. QED
  BY <1>1, <1>2, <1>3, <1>4, <1>5, Called

(* The wait at a gate is cut short.                                        *)
LEMMA CutGateStep ==
  ASSUME IInv, NEW t \in Tasks, CutGate(t)
  PROVE  IInv'
<1> DEFINE x  == task[t]
           o1 == [x EXCEPT !.gate = "open"]
           o  == [o1 EXCEPT !.cut = TRUE]
<1>1. x.state = "running" /\ x.todo # <<>> /\ x.gate = "shut" /\ task' = [task EXCEPT ![t] = o]
      /\ block' = block /\ unseen' = unseen /\ faults' = {}
  BY TaskFacts DEF CutGate, CallIs
<1>2. /\ x \in TaskType /\ OrderOK(t, x) /\ ProgressOK(x) /\ CallsOK(x)
      /\ PendingOK(block, t, x) /\ ReadOK(block, x)
  BY TaskFacts DEF TaskOK
<1>3. o1 \in TaskType
  BY <1>2 DEF TaskType
<1> HIDE DEF o1
<1>4. o \in TaskType
  BY <1>3 DEF TaskType
<1>5. /\ o.state = x.state /\ o.ordered = x.ordered /\ o.trying = x.trying /\ o.modes = x.modes
      /\ o.acquired = x.acquired /\ o.reading = x.reading /\ o.rest = x.rest /\ o.blank = x.blank
      /\ o.torn = x.torn /\ o.todo = x.todo /\ o.gate = "open" /\ o.cut = TRUE /\ o.grouped = x.grouped
      /\ o.groups = x.groups
  BY <1>2, <1>3 DEF o1, TaskType
<1> HIDE DEF o
<1>6. Kept(o) = Kept(x) /\ \A c : Owns(o, c) <=> Owns(x, c)
  BY <1>5 DEF Kept, Owns
<1>7. OrderOK(t, o) /\ ProgressOK(o)
  <2>1. OrderOK(t, o)
    BY <1>2, <1>5, <1>6 DEF OrderOK
  <2>2. ProgressOK(o)
    BY <1>2, <1>5, <1>6 DEF ProgressOK
  <2>3. QED
    BY <2>1, <2>2
<1>8. CallsOK(o)
  BY <1>1, <1>2, <1>5, <1>6 DEF CallsOK
<1>9. PendingOK(block, t, o)
  BY <1>1, <1>2, <1>5, PendingIdle
<1>10. ReadOK(block, o)
  BY <1>2, <1>5 DEF ReadOK, Awaits
<1>11. \A c \in Blocks : (HoldsOf(o, c) <=> HoldsOf(x, c)) /\ (WaitsOf(o, c) <=> WaitsOf(x, c))
  BY <1>5, <1>6 DEF HoldsOf, WaitsOf, Awaits
<1>12. o.cut
  BY <1>5
<1>13. \A c \in Blocks : /\ GatesOK(block[c], t, o, c)
                         /\ t \in unseen[c] => UnseenOK(block[c], t, o, c)
  BY <1>12, CutCopies
<1>14. TaskOK(t, o)
  BY <1>7, <1>8 DEF TaskOK
<1>15. QED
  BY <1>1, <1>4, <1>9, <1>10, <1>11, <1>13, <1>14, OneTask

-----------------------------------------------------------------------------
(***************************************************************************)
(* The end of a task, and the steps of the runtime.                        *)
(***************************************************************************)
LEMMA EndTaskStep ==
  ASSUME IInv, NEW t \in Tasks, EndTask(t)
  PROVE  IInv'
<1> DEFINE x    == task[t]
           last == x.acquired = 1
           s    == IF last THEN "ended" ELSE "done"
           n    == x.acquired - 1
           I    == IF last THEN {} ELSE Kept(x)
           o1   == [x EXCEPT !.state = s]
           o2   == [o1 EXCEPT !.acquired = n]
           o    == [o2 EXCEPT !.rest = I]
           T    == {t}
<1>1. x.state = "running" /\ x.todo = <<>> /\ task' = [task EXCEPT ![t] = o]
  BY TaskFacts DEF EndTask
<1>2. /\ x \in TaskType /\ OrderOK(t, x) /\ ProgressOK(x) /\ CallsOK(x)
      /\ PendingOK(block, t, x) /\ ReadOK(block, x)
      /\ task \in [Tasks -> TaskType] /\ unseen \in [Blocks -> SUBSET Tasks]
  BY TaskFacts DEF TaskOK
<1>3. x.gate = "none" /\ ~x.grouped
  <2>1. x.gate = "none"
    BY <1>1, <1>2 DEF CallsOK
  <2>2. Bracketed(x.todo, x.grouped)
    BY <1>2 DEF CallsOK, Grouping
  <2>3. QED
    BY <1>1, <2>1, <2>2 DEF Bracketed
<1>4. block' = block /\ faults' = {}
  BY <1>3, TaskFacts DEF EndTask, Failed
<1>5. /\ Kept(x) \subseteq Nat /\ IsFiniteSet(Kept(x)) /\ Cardinality(Kept(x)) \in Nat
      /\ n = Cardinality(Kept(x)) /\ n \in Int
  BY <1>1, <1>2, OrderFacts, KeptFinite DEF ProgressOK
<1>6. last <=> Kept(x) = {}
  <2>1. Cardinality(Kept(x)) = 0 <=> Kept(x) = {}
    BY <1>5, FS_EmptySet
  <2>2. last <=> Cardinality(Kept(x)) = 0
    BY <1>1, <1>2, <1>5 DEF ProgressOK
  <2>3. QED
    BY <2>1, <2>2
<1>7. I = Kept(x) /\ s \in States /\ s = (IF Kept(x) = {} THEN "ended" ELSE "done")
  BY <1>6 DEF States
<1> HIDE DEF s, n, I, last
<1>8. o1 \in TaskType
  BY <1>2, <1>7 DEF TaskType
<1> HIDE DEF o1
<1>9. o2 \in TaskType
  BY <1>5, <1>8 DEF TaskType
<1> HIDE DEF o2
<1>10. o \in TaskType
  BY <1>5, <1>7, <1>9 DEF TaskType
<1>11. /\ o.state = s /\ o.ordered = x.ordered /\ o.trying = x.trying /\ o.modes = x.modes
       /\ o.acquired = n /\ o.reading = x.reading /\ o.rest = I /\ o.blank = x.blank
       /\ o.torn = x.torn /\ o.todo = x.todo /\ o.gate = x.gate /\ o.cut = x.cut /\ o.grouped = x.grouped
       /\ o.groups = x.groups
  BY <1>2, <1>8, <1>9 DEF o1, o2, TaskType
<1> HIDE DEF o
<1>12. Kept(o) = Kept(x) /\ \A c : Owns(o, c) <=> Owns(x, c)
  BY <1>11 DEF Kept, Owns
<1>13. x.rest = {} /\ ~x.trying /\ ~x.reading
  BY <1>1, <1>2 DEF ProgressOK
<1>14. TaskOK(t, o)
  <2>1. OrderOK(t, o)
    BY <1>1, <1>2, <1>7, <1>11, <1>12 DEF OrderOK, Asking
  <2>2. ProgressOK(o)
    <3>1. Kept(x) # {} => n > 0
      <4>1. Cardinality(Kept(x)) = 0 <=> Kept(x) = {}
        BY <1>5, FS_EmptySet
      <4>2. QED
        BY <1>5, <4>1
    <3>2. Kept(x) = {} => n = 0
      BY <1>5, FS_EmptySet
    <3>3. QED
      BY <1>7, <1>11, <1>12, <1>13, <3>1, <3>2 DEF ProgressOK
  <2>3. CallsOK(o)
    BY <1>1, <1>2, <1>3, <1>11, <1>12 DEF CallsOK
  <2>4. QED
    BY <2>1, <2>2, <2>3 DEF TaskOK
<1>15. Unconfirmed(block, t) = {}
  BY <1>1, <1>2 DEF PendingOK
<1>16. PendingOK(block, t, o)
  <2>1. Cardinality(Unconfirmed(block, t)) = 0
    BY <1>15, FS_EmptySet
  <2>2. n = Cardinality(I) + Cardinality(Unconfirmed(block, t))
    BY <1>5, <1>7, <2>1
  <2>3. QED
    BY <1>11, <1>15, <2>2 DEF PendingOK
<1>17. ReadOK(block, o)
  BY <1>2, <1>11, <1>13 DEF ReadOK
<1>18. \A c \in Blocks : (HoldsOf(o, c) <=> HoldsOf(x, c)) /\ (WaitsOf(o, c) <=> WaitsOf(x, c))
  <2> TAKE c \in Blocks
  <2>1. HoldsOf(x, c) <=> Owns(x, c)
    BY <1>1 DEF HoldsOf
  <2>2. HoldsOf(o, c) <=> Owns(x, c)
    <3>1. CASE Kept(x) = {}
      <4>1. ~Owns(x, c)
        BY <1>2, <3>1, OrderFacts
      <4>2. ~HoldsOf(o, c)
        BY <1>7, <1>11, <3>1 DEF HoldsOf
      <4>3. QED
        BY <4>1, <4>2
    <3>2. CASE Kept(x) # {}
      BY <1>7, <1>11, <1>12, <3>2 DEF HoldsOf
    <3>3. QED
      BY <3>1, <3>2
  <2>3. ~WaitsOf(x, c) /\ ~WaitsOf(o, c)
    BY <1>1, <1>7, <1>11 DEF WaitsOf
  <2>4. QED
    BY <2>1, <2>2, <2>3
<1>19. \A c \in Blocks : (t \in unseen[c] \/ t \in block[c].gates) => o.cut
  <2>1. \A c \in Blocks : (t \in unseen[c] \/ t \in block[c].gates) => x.cut
    BY <1>1, <1>3, NoRelease
  <2>2. QED
    BY <1>11, <2>1
<1>20. \A c \in Blocks : unseen'[c] =
         IF c \in {x.ordered[i] : i \in Kept(x)} /\ Writes(Mode(x, c)) /\ block[c].copy # "none"
         THEN unseen[c] \cup {t} ELSE unseen[c]
  BY DEF EndTask, Seen
<1>21. unseen' \in [Blocks -> SUBSET Tasks] /\ \A c \in Blocks : unseen'[c] \subseteq unseen[c] \cup {t}
  <2>1. \A c \in Blocks : unseen[c] \in SUBSET Tasks
    BY <1>2
  <2>2. \A c \in Blocks : unseen'[c] \in SUBSET Tasks /\ unseen'[c] \subseteq unseen[c] \cup {t}
    BY <1>20, <2>1
  <2>3. unseen' = [c \in Blocks |-> unseen'[c]]
    BY DEF EndTask, Seen
  <2>4. QED
    BY <2>2, <2>3
<1>22. \A c \in Blocks : GatesOK(block[c], t, o, c)
  BY <1>19 DEF GatesOK
<1>23. \A c \in Blocks : t \in unseen'[c] => UnseenOK(block[c], t, o, c)
  <2> SUFFICES ASSUME NEW c \in Blocks, t \in unseen'[c], ~o.cut PROVE UnseenOK(block[c], t, o, c)
    BY DEF UnseenOK
  <2>1. t \notin unseen[c]
    BY <1>19
  <2>2. c \in {x.ordered[i] : i \in Kept(x)} /\ Writes(Mode(x, c)) /\ block[c].copy # "none"
    BY <1>20, <2>1
  <2>3. PICK i \in Kept(x) : x.ordered[i] = c
    BY <2>2
  <2>4. Owns(x, c)
    BY <1>2, <2>3, OrderFacts
  <2>5. Mode(x, c) = LockMode(t, c)
    BY <1>2, <2>4, OwnsFacts
  <2>6. Left(o, c) /\ o.state = "done"
    BY <1>7, <1>11, <2>3 DEF Left
  <2>7. QED
    BY <1>12, <2>2, <2>4, <2>5, <2>6 DEF UnseenOK
<1>24. task' \in [Tasks -> TaskType] /\ task'[t] = o /\ \A u \in Tasks \ T : task'[u] = task[u]
  BY <1>1, <1>2, <1>10
<1>25. T \in SUBSET Tasks /\ \A u \in T : u = t
  OBVIOUS
<1>26. \A c \in Blocks : unseen'[c] \subseteq unseen[c] \cup T
  BY <1>21
<1> HIDE DEF T
<1>27. \A u \in T :
         /\ TaskOK(u, task'[u]) /\ PendingOK(block, u, task'[u]) /\ ReadOK(block, task'[u])
         /\ \A c \in Blocks : /\ HoldsOf(task'[u], c) <=> HoldsOf(task[u], c)
                              /\ WaitsOf(task'[u], c) <=> WaitsOf(task[u], c)
                              /\ GatesOK(block[c], u, task'[u], c)
                              /\ u \in unseen'[c] => UnseenOK(block[c], u, task'[u], c)
  BY <1>14, <1>16, <1>17, <1>18, <1>22, <1>23, <1>24, <1>25
<1>28. QED
  BY <1>4, <1>21, <1>24, <1>25, <1>26, <1>27, TasksStep

LEMMA ResumeStep ==
  ASSUME IInv, Resume
  PROVE  IInv'
<1> DEFINE T == {u \in Tasks : task[u].state = "aside"}
<1>1. /\ task \in [Tasks -> TaskType] /\ unseen \in [Blocks -> SUBSET Tasks] /\ faults = {}
      /\ block' = block /\ unseen' = unseen /\ faults' = {}
  BY DEF IInv, TypeOK, Resume
<1>2. \A u \in Tasks : task'[u] = IF task[u].state = "aside" THEN [task[u] EXCEPT !.state = "spawned"] ELSE task[u]
  BY DEF Resume
<1>3. ASSUME NEW u \in Tasks, task[u].state = "aside"
      PROVE  /\ task'[u] \in TaskType
             /\ TaskOK(u, task'[u]) /\ PendingOK(block, u, task'[u]) /\ ReadOK(block, task'[u])
             /\ \A c \in Blocks : /\ HoldsOf(task'[u], c) <=> HoldsOf(task[u], c)
                                  /\ WaitsOf(task'[u], c) <=> WaitsOf(task[u], c)
                                  /\ GatesOK(block[c], u, task'[u], c)
                                  /\ u \in unseen[c] => UnseenOK(block[c], u, task'[u], c)
  <2> DEFINE x == task[u]
             o == [x EXCEPT !.state = "spawned"]
  <2>1. /\ x \in TaskType /\ OrderOK(u, x) /\ ProgressOK(x) /\ CallsOK(x)
        /\ PendingOK(block, u, x) /\ ReadOK(block, x)
    BY TaskFacts DEF TaskOK
  <2>2. o \in TaskType
    BY <2>1 DEF TaskType, States
  <2>3. /\ o.state = "spawned" /\ o.ordered = x.ordered /\ o.trying = x.trying /\ o.modes = x.modes
        /\ o.acquired = x.acquired /\ o.reading = x.reading /\ o.rest = x.rest /\ o.blank = x.blank
        /\ o.torn = x.torn /\ o.todo = x.todo /\ o.gate = x.gate /\ o.cut = x.cut /\ o.grouped = x.grouped
        /\ o.groups = x.groups
    BY <2>1 DEF TaskType
  <2>4. task'[u] = o
    BY <1>2, <1>3
  <2> HIDE DEF o
  <2>5. Kept(o) = Kept(x) /\ \A c : Owns(o, c) <=> Owns(x, c)
    BY <2>3 DEF Kept, Owns
  <2>6. OrderOK(u, o)
    BY <1>3, <2>1, <2>3, <2>5 DEF OrderOK, Asking
  <2>7. ProgressOK(o)
    BY <1>3, <2>1, <2>3, <2>5 DEF ProgressOK
  <2>8. CallsOK(o)
    BY <1>3, <2>1, <2>3, <2>5 DEF CallsOK
  <2>9. PendingOK(block, u, o)
    BY <1>3, <2>1, <2>3, PendingIdle
  <2>10. ReadOK(block, o)
    BY <2>1, <2>3 DEF ReadOK, Awaits
  <2>11. \A c \in Blocks : (HoldsOf(o, c) <=> HoldsOf(x, c)) /\ (WaitsOf(o, c) <=> WaitsOf(x, c))
    <3>1. \A c \in Blocks : HoldsOf(o, c) <=> HoldsOf(x, c)
      BY <1>3, <2>3 DEF HoldsOf
    <3>2. \A c \in Blocks : ~WaitsOf(o, c) /\ ~WaitsOf(x, c)
      BY <1>3, <2>3 DEF WaitsOf
    <3>3. QED
      BY <3>1, <3>2
  <2>12. \A c \in Blocks : (u \in unseen[c] \/ u \in block[c].gates) => o.cut
    <3>1. \A c \in Blocks : (u \in unseen[c] \/ u \in block[c].gates) => x.cut
      BY <1>3, NoRelease
    <3>2. QED
      BY <2>3, <3>1
  <2>13. TaskOK(u, o)
    BY <2>6, <2>7, <2>8 DEF TaskOK
  <2>14. \A c \in Blocks : GatesOK(block[c], u, o, c) /\ (u \in unseen[c] => UnseenOK(block[c], u, o, c))
    BY <2>12 DEF GatesOK, UnseenOK
  <2>15. QED
    BY <2>2, <2>4, <2>9, <2>10, <2>11, <2>13, <2>14
<1>4. task' \in [Tasks -> TaskType]
  <2>1. \A u \in Tasks : task'[u] \in TaskType
    BY <1>1, <1>2, <1>3
  <2>2. task' = [u \in Tasks |-> task'[u]]
    BY DEF Resume
  <2>3. QED
    BY <2>1, <2>2
<1>5. T \in SUBSET Tasks /\ \A u \in Tasks : u \in T <=> task[u].state = "aside"
  OBVIOUS
<1> HIDE DEF T
<1>6. \A u \in Tasks \ T : task'[u] = task[u]
  BY <1>2, <1>5
<1>7. \A u \in T :
         /\ TaskOK(u, task'[u]) /\ PendingOK(block, u, task'[u]) /\ ReadOK(block, task'[u])
         /\ \A c \in Blocks : /\ HoldsOf(task'[u], c) <=> HoldsOf(task[u], c)
                              /\ WaitsOf(task'[u], c) <=> WaitsOf(task[u], c)
                              /\ GatesOK(block[c], u, task'[u], c)
                              /\ u \in unseen'[c] => UnseenOK(block[c], u, task'[u], c)
  BY <1>1, <1>3, <1>5
<1>8. unseen' \in [Blocks -> SUBSET Tasks] /\ \A c \in Blocks : unseen'[c] \subseteq unseen[c] \cup T
  BY <1>1
<1>9. QED
  BY <1>1, <1>4, <1>5, <1>6, <1>7, <1>8, TasksStep

(* What the invariant is about does not change.                            *)
LEMMA SameStep ==
  ASSUME IInv, task' = task, block' = block, unseen' = unseen, faults' = faults
  PROVE  IInv'
  BY DEF IInv, TypeOK, BlockOK, HoldersOf, WaitersOf, CopyOK, PendingOK, Unconfirmed, ReadOK

-----------------------------------------------------------------------------
(***************************************************************************)
(* The copies of a block outside.                                          *)
(***************************************************************************)
BlockAlone == task' = task /\ unseen' = unseen /\ faults' = faults

LEMMA QuietCopy ==
  ASSUME IInv, NEW b \in Blocks, NEW l \in BlockType, SameLocks(block[b], l), SameWaits(block[b], l), Listed(l),
         l.valid = "invalid" => block[b].valid = "invalid",
         \A u \in unseen[b] : task[u].cut \/ l.copy # "none",
         block' = [block EXCEPT ![b] = l], BlockAlone
  PROVE  IInv'
<1> DEFINE T == {}
<1>1. /\ task \in [Tasks -> TaskType] /\ unseen \in [Blocks -> SUBSET Tasks] /\ faults' = {}
      /\ task' = task /\ unseen' = unseen
  BY DEF IInv, TypeOK, BlockAlone
<1>2. T \in SUBSET Tasks /\ (\A u : u \notin T) /\ task' \in [Tasks -> TaskType]
      /\ \A u \in Tasks \ T : task'[u] = task[u]
  BY <1>1
<1> HIDE DEF T
<1>3. \A u \in T : /\ TaskOK(u, task'[u]) /\ PendingOK(block', u, task'[u]) /\ ReadOK(block', task'[u])
                   /\ \A c \in Blocks : /\ GatesOK(block'[c], u, task'[u], c)
                                        /\ u \in unseen'[c] => UnseenOK(block'[c], u, task'[u], c)
                                        /\ HoldsOf(task'[u], c) <=> HoldsOf(task[u], c)
                                        /\ WaitsOf(task'[u], c) <=> WaitsOf(task[u], c)
  BY <1>2
<1>4. \A u \in Tasks \ T : /\ u \in l.waiters <=> u \in block[b].waiters
                           /\ u \in l.told <=> u \in block[b].told
                           /\ u \in l.gates => u \in block[b].gates
                           /\ l.valid = "invalid" => block[b].valid = "invalid"
                           /\ u \in unseen[b] /\ l.copy = "none" => task[u].cut \/ block[b].copy = "none"
  BY DEF SameWaits
<1>5. unseen' \in [Blocks -> SUBSET Tasks] /\ \A c \in Blocks : unseen'[c] \subseteq unseen[c] \cup T
  BY <1>1
<1>6. faults' = {}
  BY <1>1
<1>7. QED
  BY <1>2, <1>3, <1>4, <1>5, <1>6, CopyStep, ZenonT(60)

(* What the owner of a block does about the copies waits for its writers.  *)
LEMMA UpdatedCopy ==
  ASSUME IInv, NEW b \in Blocks, NEW k \in BlockType, SameLocks(block[b], k), SameWaits(block[b], k), Listed(k),
         k.copy = "none" => block[b].copy = "none", k.valid = "invalid" => block[b].valid = "invalid",
         block' = [block EXCEPT ![b] = Updated(k)], BlockAlone
  PROVE  IInv'
<1> DEFINE l == Updated(k)
<1>1. /\ l \in BlockType /\ SameLocks(k, l) /\ SameWaits(k, l)
      /\ l.valid = k.valid /\ Listed(l) /\ (Writing(k) => l = k)
  BY UpdatedFacts
<1> HIDE DEF l
<1>2. SameLocks(block[b], l) /\ SameWaits(block[b], l)
  BY <1>1 DEF SameLocks, SameWaits
<1>3. \A u \in unseen[b] : task[u].cut \/ l.copy # "none"
  <2> SUFFICES ASSUME NEW u \in unseen[b], ~task[u].cut PROVE l.copy # "none"
    OBVIOUS
  <2>1. block[b].copy # "none" /\ Writing(block[b])
    BY UnseenHolds
  <2>2. Writing(k)
    BY <2>1 DEF SameLocks, Writing
  <2>3. QED
    BY <1>1, <2>1, <2>2
<1>4. block' = [block EXCEPT ![b] = l]
  BY DEF l
<1>5. QED
  BY <1>1, <1>2, <1>3, <1>4, QuietCopy

LEMMA AskCopyStep ==
  ASSUME IInv, NEW b \in Blocks, AskCopy(b)
  PROVE  IInv'
<1> DEFINE x  == block[b]
           k1 == [x EXCEPT !.wanted = TRUE]
           k2 == [x EXCEPT !.copy = "sent"]
           k  == IF Writing(x) THEN k1 ELSE k2
<1>1. /\ x.listed /\ x.copy = "none" /\ block' = [block EXCEPT ![b] = Updated(k)]
      /\ BlockAlone
  BY DEF AskCopy, Changes, BlockAlone
<1>2. x \in BlockType
  BY BlockFacts
<1>3. k1 \in BlockType /\ SameLocks(x, k1) /\ SameWaits(x, k1) /\ k1.listed = x.listed /\ k1.valid = x.valid
  BY <1>2 DEF BlockType, SameLocks, SameWaits
<1>4. k2 \in BlockType /\ SameLocks(x, k2) /\ SameWaits(x, k2) /\ k2.listed = x.listed /\ k2.valid = x.valid
  BY <1>2 DEF BlockType, SameLocks, SameWaits
<1> HIDE DEF k1, k2
<1>5. k \in BlockType /\ SameLocks(x, k) /\ SameWaits(x, k) /\ k.listed = x.listed /\ k.valid = x.valid
  BY <1>3, <1>4
<1>6. Listed(k)
  BY <1>1, <1>5 DEF Listed
<1> HIDE DEF k
<1>7. QED
  BY <1>1, <1>5, <1>6, UpdatedCopy

LEMMA CopyReceivedStep ==
  ASSUME IInv, NEW b \in Blocks, CopyReceived(b)
  PROVE  IInv'
<1> DEFINE x == block[b]
           y == [x EXCEPT !.copy = "held"]
           k == TryRound(y)
<1>1. /\ x.copy = "sent" /\ block' = [block EXCEPT ![b] = Updated(k)]
      /\ BlockAlone
  BY DEF CopyReceived, Changes, BlockAlone
<1>2. x \in BlockType /\ Listed(x)
  BY BlockFacts
<1>3. /\ y \in BlockType /\ SameLocks(x, y) /\ SameWaits(x, y) /\ y.listed = x.listed /\ y.valid = x.valid
      /\ y.copy = "held"
  BY <1>2 DEF BlockType, SameLocks, SameWaits
<1> HIDE DEF y
<1>4. Listed(y)
  BY <1>1, <1>2, <1>3 DEF Listed
<1>5. k \in BlockType /\ SameLocks(y, k) /\ SameWaits(y, k) /\ k.valid = y.valid /\ k.copy # "none" /\ Listed(k)
  BY <1>3, <1>4, TryRoundFacts
<1> HIDE DEF k
<1>6. SameLocks(x, k) /\ SameWaits(x, k)
  BY <1>3, <1>5 DEF SameLocks, SameWaits
<1>7. k.valid = x.valid
  BY <1>3, <1>5
<1>8. QED
  BY <1>1, <1>5, <1>6, <1>7, UpdatedCopy

LEMMA CopyInvalidatedStep ==
  ASSUME IInv, NEW b \in Blocks, CopyInvalidated(b)
  PROVE  IInv'
<1> DEFINE x  == block[b]
           k1 == [x EXCEPT !.copy = "none"]
           k2 == [k1 EXCEPT !.waiters = {}]
           k3 == [k2 EXCEPT !.gates = {}]
           k  == [k3 EXCEPT !.told = x.told \cup x.waiters]
           l  == Updated(k)
           T  == Tasks
<1>1. x.copy = "recalled" /\ unseen' = [unseen EXCEPT ![b] = {}] /\ faults' = faults
  BY DEF CopyInvalidated
<1>2. x \in BlockType /\ Listed(x) /\ block \in [Blocks -> BlockType]
  BY BlockFacts
<1>3. /\ task \in [Tasks -> TaskType] /\ unseen \in [Blocks -> SUBSET Tasks] /\ faults' = {}
  BY <1>1 DEF IInv, TypeOK
<1>4. block' = [block EXCEPT ![b] = l]
  <2>1. block' = [block EXCEPT ![b] = Updated([x EXCEPT !.copy = "none", !.waiters = {}, !.gates = {},
                                                        !.told = @ \cup x.waiters])]
    BY DEF CopyInvalidated
  <2>2. [x EXCEPT !.copy = "none", !.waiters = {}, !.gates = {}, !.told = @ \cup x.waiters] = k
    BY <1>2 DEF BlockType
  <2>3. QED
    BY <2>1, <2>2
<1>5. k1 \in BlockType /\ SameLocks(x, k1) /\ k1.listed = x.listed /\ k1.valid = x.valid /\ k1.copy = "none"
  BY <1>2 DEF BlockType, SameLocks
<1> HIDE DEF k1
<1>6. k2 \in BlockType /\ SameLocks(k1, k2) /\ k2.listed = k1.listed /\ k2.valid = k1.valid /\ k2.copy = k1.copy /\ k2.waiters = {}
  BY <1>5 DEF BlockType, SameLocks
<1> HIDE DEF k2
<1>7. k3 \in BlockType /\ SameLocks(k2, k3) /\ k3.listed = k2.listed /\ k3.valid = k2.valid /\ k3.copy = k2.copy /\ k3.waiters = k2.waiters
      /\ k3.gates = {}
  BY <1>6 DEF BlockType, SameLocks
<1> HIDE DEF k3
<1>8. /\ k \in BlockType /\ SameLocks(k3, k) /\ k.valid = k3.valid /\ k.copy = k3.copy /\ k.waiters = k3.waiters
      /\ k.gates = k3.gates /\ k.told = x.told \cup x.waiters
  BY <1>2, <1>7 DEF BlockType, SameLocks
<1> HIDE DEF k
<1>9. /\ SameLocks(x, k) /\ k.valid = x.valid /\ k.copy = "none" /\ k.waiters = {} /\ k.gates = {}
      /\ k.told = x.told \cup x.waiters
  BY <1>5, <1>6, <1>7, <1>8 DEF SameLocks
<1>10. /\ l \in BlockType /\ SameLocks(k, l) /\ SameWaits(k, l) /\ l.valid = k.valid /\ Listed(l)
  <2>1. Listed(k)
    BY <1>9 DEF Listed
  <2>2. QED
    BY <1>8, <2>1, UpdatedFacts
<1> HIDE DEF l
<1>11. /\ SameLocks(x, l) /\ l.valid = x.valid /\ l.waiters = {} /\ l.gates = {} /\ l.told = x.told \cup x.waiters
  <2>1. SameLocks(x, l)
    BY <1>9, <1>10 DEF SameLocks
  <2>2. QED
    BY <1>9, <1>10, <2>1 DEF SameWaits
<1>12. block'[b] = l /\ \A c \in Blocks \ {b} : block'[c] = block[c]
  BY <1>2, <1>4
<1>13. unseen' \in [Blocks -> SUBSET Tasks] /\ unseen'[b] = {} /\ \A c \in Blocks \ {b} : unseen'[c] = unseen[c]
  BY <1>1, <1>3
<1>14. \A u \in Tasks : task'[u] = IF u \in x.gates /\ task[u].gate = "shut" THEN [task[u] EXCEPT !.gate = "open"]
                                   ELSE task[u]
  BY DEF CopyInvalidated
<1>15. ASSUME NEW u \in Tasks
       PROVE  /\ task'[u] \in TaskType
              /\ TaskOK(u, task'[u]) /\ PendingOK(block', u, task'[u]) /\ ReadOK(block', task'[u])
              /\ \A c \in Blocks : /\ GatesOK(block'[c], u, task'[u], c)
                                   /\ u \in unseen'[c] => UnseenOK(block'[c], u, task'[u], c)
                                   /\ HoldsOf(task'[u], c) <=> HoldsOf(task[u], c)
                                   /\ WaitsOf(task'[u], c) <=> WaitsOf(task[u], c)
  <2> DEFINE y == task[u]
             o == task'[u]
  <2>1. /\ y \in TaskType /\ OrderOK(u, y) /\ ProgressOK(y) /\ CallsOK(y)
        /\ PendingOK(block, u, y) /\ ReadOK(block, y)
        /\ \A c \in Blocks : GatesOK(block[c], u, y, c) /\ (u \in unseen[c] => UnseenOK(block[c], u, y, c))
    BY TaskFacts DEF TaskOK
  <2>2. /\ o \in TaskType
        /\ o.state = y.state /\ o.ordered = y.ordered /\ o.trying = y.trying /\ o.modes = y.modes
        /\ o.acquired = y.acquired /\ o.reading = y.reading /\ o.rest = y.rest /\ o.blank = y.blank
        /\ o.torn = y.torn /\ o.todo = y.todo /\ o.cut = y.cut /\ o.grouped = y.grouped /\ o.groups = y.groups
        /\ (o.gate = y.gate \/ (u \in x.gates /\ y.gate = "shut" /\ o.gate = "open"))
    <3> DEFINE z == [y EXCEPT !.gate = "open"]
    <3>1. /\ z \in TaskType
          /\ z.state = y.state /\ z.ordered = y.ordered /\ z.trying = y.trying /\ z.modes = y.modes
          /\ z.acquired = y.acquired /\ z.reading = y.reading /\ z.rest = y.rest /\ z.blank = y.blank
          /\ z.torn = y.torn /\ z.todo = y.todo /\ z.cut = y.cut /\ z.grouped = y.grouped /\ z.groups = y.groups
          /\ z.gate = "open"
      BY <2>1 DEF TaskType
    <3>2. o = IF u \in x.gates /\ y.gate = "shut" THEN z ELSE y
      BY <1>14
    <3> HIDE DEF z, o, y
    <3>3. CASE u \in x.gates /\ y.gate = "shut"
      BY <3>1, <3>2, <3>3
    <3>4. CASE ~(u \in x.gates /\ y.gate = "shut")
      BY <2>1, <3>2, <3>4
    <3>5. QED
      BY <3>3, <3>4
  <2> HIDE DEF o
  <2>3. Kept(o) = Kept(y) /\ \A c : Owns(o, c) <=> Owns(y, c)
    BY <2>2 DEF Kept, Owns
  <2>4. OrderOK(u, o)
    BY <2>1, <2>2, <2>3 DEF OrderOK
  <2>5. ProgressOK(o)
    BY <2>1, <2>2, <2>3 DEF ProgressOK
  <2>6. CallsOK(o)
    BY <2>1, <2>2, <2>3 DEF CallsOK
  <2>7. Unconfirmed(block', u) = Unconfirmed(block, u)
    <3>1. \A c \in Blocks : u \in block'[c].waiters \cup block'[c].told <=> u \in block[c].waiters \cup block[c].told
      BY <1>11, <1>12
    <3>2. QED
      BY <3>1 DEF Unconfirmed
  <2>8. PendingOK(block', u, o)
    <3>1. \A c : Left(o, c) <=> Left(y, c)
      BY <2>2 DEF Left
    <3>2. \A c \in Unconfirmed(block, u) : ~(u \in block'[c].waiters /\ u \in block'[c].told)
      BY <1>11, <1>12, <2>1 DEF PendingOK, Unconfirmed
    <3>3. QED
      BY <2>1, <2>2, <2>3, <2>7, <3>1, <3>2 DEF PendingOK
  <2>9. ReadOK(block', o)
    <3>1. \A c \in Blocks : block'[c].valid = block[c].valid
      BY <1>11, <1>12
    <3>2. QED
      BY <2>1, <2>2, <3>1 DEF ReadOK, Awaits
  <2>10. \A c \in Blocks : (HoldsOf(o, c) <=> HoldsOf(y, c)) /\ (WaitsOf(o, c) <=> WaitsOf(y, c))
    <3>1. \A c \in Blocks : HoldsOf(o, c) <=> HoldsOf(y, c)
      BY <2>2, <2>3 DEF HoldsOf
    <3>2. \A c \in Blocks : WaitsOf(o, c) <=> WaitsOf(y, c)
      BY <2>2 DEF WaitsOf, Awaits
    <3>3. QED
      BY <3>1, <3>2
  <2>11. ASSUME NEW c \in Blocks \ {b}
         PROVE  GatesOK(block[c], u, o, c) /\ (u \in unseen[c] => UnseenOK(block[c], u, o, c))
    <3>1. CASE o.gate = y.gate
      <4>1. Shut(o, c) <=> Shut(y, c)
        BY <2>2, <3>1 DEF Shut
      <4>2. Left(o, c) <=> Left(y, c)
        BY <2>2 DEF Left
      <4>3. QED
        BY <2>1, <2>2, <2>3, <4>1, <4>2 DEF GatesOK, UnseenOK
    <3>2. CASE u \in x.gates /\ y.gate = "shut"
      <4>1. y.cut \/ Shut(y, b)
        BY <2>1, <3>2 DEF GatesOK
      <4>2. y.cut \/ ~Shut(y, c)
        BY <4>1 DEF Shut
      <4>3. y.state = "running"
        BY <2>1, <3>2 DEF CallsOK
      <4>4. u \in block[c].gates \/ u \in unseen[c] => y.cut
        BY <2>1, <4>2, <4>3 DEF GatesOK, UnseenOK
      <4>5. QED
        BY <2>2, <4>4 DEF GatesOK, UnseenOK
    <3>3. QED
      BY <2>2, <3>1, <3>2
  <2>12. \A c \in Blocks : GatesOK(block'[c], u, o, c) /\ (u \in unseen'[c] => UnseenOK(block'[c], u, o, c))
    <3> TAKE c \in Blocks
    <3>1. CASE c = b
      BY <1>11, <1>12, <1>13, <3>1 DEF GatesOK
    <3>2. CASE c # b
      BY <1>12, <1>13, <2>11, <3>2
    <3>3. QED
      BY <3>1, <3>2
  <2>13. TaskOK(u, o)
    BY <2>4, <2>5, <2>6 DEF TaskOK
  <2>14. QED
    BY <2>2, <2>8, <2>9, <2>10, <2>12, <2>13 DEF o
<1>16. task' \in [Tasks -> TaskType]
  <2>1. task' = [u \in Tasks |-> task'[u]]
    BY DEF CopyInvalidated
  <2>2. QED
    BY <1>15, <2>1
<1>17. T \in SUBSET Tasks /\ (\A u \in Tasks \ T : FALSE) /\ \A u \in T : u \in Tasks
  OBVIOUS
<1> HIDE DEF T
<1>18. \A c \in Blocks : unseen'[c] \subseteq unseen[c] \cup T
  BY <1>13
<1>19. \A u \in T : /\ TaskOK(u, task'[u]) /\ PendingOK(block', u, task'[u]) /\ ReadOK(block', task'[u])
                    /\ \A c \in Blocks : /\ GatesOK(block'[c], u, task'[u], c)
                                         /\ u \in unseen'[c] => UnseenOK(block'[c], u, task'[u], c)
                                         /\ HoldsOf(task'[u], c) <=> HoldsOf(task[u], c)
                                         /\ WaitsOf(task'[u], c) <=> WaitsOf(task[u], c)
  BY <1>15, <1>17
<1>20. QED
  BY <1>3, <1>4, <1>10, <1>11, <1>13, <1>16, <1>17, <1>18, <1>19, CopyStep

LEMMA AskMasterStep ==
  ASSUME IInv, NEW b \in Blocks, AskMaster(b)
  PROVE  IInv'
<1> DEFINE x == block[b]
<1>1. x.valid # "invalid" /\ unseen' = unseen /\ faults' = faults
  BY DEF AskMaster
<1>2. x \in BlockType /\ Listed(x) /\ block \in [Blocks -> BlockType]
  BY BlockFacts
<1>3. CASE x.valid = "master"
  <2> DEFINE k == [x EXCEPT !.valid = "copy"]
  <2>1. block' = [block EXCEPT ![b] = Updated(k)] /\ BlockAlone
    BY <1>1, <1>3 DEF AskMaster, BlockAlone
  <2>2. /\ k \in BlockType /\ SameLocks(x, k) /\ SameWaits(x, k) /\ k.valid = "copy" /\ k.copy = x.copy
        /\ k.listed = x.listed
    BY <1>2 DEF BlockType, SameLocks, SameWaits
  <2> HIDE DEF k
  <2>3. Listed(k)
    BY <1>2, <2>2 DEF Listed
  <2>4. k.valid # "invalid"
    BY <2>2
  <2>5. QED
    BY <2>1, <2>2, <2>3, <2>4, UpdatedCopy
<1>4. CASE x.valid # "master"
  <2> DEFINE k == [x EXCEPT !.valid = "invalid"]
             T == Tasks
  <2>1. block' = [block EXCEPT ![b] = k]
    BY <1>4 DEF AskMaster
  <2>2. /\ k \in BlockType /\ SameLocks(x, k) /\ k.copy = x.copy /\ k.listed = x.listed
        /\ k.waiters = x.waiters /\ k.told = x.told /\ k.gates = x.gates
    BY <1>2 DEF BlockType, SameLocks
  <2> HIDE DEF k
  <2>3. Listed(k)
    BY <1>2, <2>2 DEF Listed
  <2>4. \A u \in Tasks : task'[u] = IF task[u].reading /\ task[u].ordered[task[u].acquired + 1] = b
                                    THEN [task[u] EXCEPT !.torn = @ \cup {b}] ELSE task[u]
    BY <1>4 DEF AskMaster
  <2>5. block'[b] = k /\ \A c \in Blocks \ {b} : block'[c] = block[c]
    BY <1>2, <2>1
  <2>6. ASSUME NEW u \in Tasks
        PROVE  /\ task'[u] \in TaskType
               /\ TaskOK(u, task'[u]) /\ PendingOK(block', u, task'[u]) /\ ReadOK(block', task'[u])
               /\ \A c \in Blocks : /\ GatesOK(block'[c], u, task'[u], c)
                                    /\ u \in unseen[c] => UnseenOK(block'[c], u, task'[u], c)
                                    /\ HoldsOf(task'[u], c) <=> HoldsOf(task[u], c)
                                    /\ WaitsOf(task'[u], c) <=> WaitsOf(task[u], c)
    <3> DEFINE y == task[u]
               o == task'[u]
    <3>1. /\ y \in TaskType /\ OrderOK(u, y) /\ ProgressOK(y) /\ CallsOK(y)
          /\ PendingOK(block, u, y) /\ ReadOK(block, y)
          /\ \A c \in Blocks : GatesOK(block[c], u, y, c) /\ (u \in unseen[c] => UnseenOK(block[c], u, y, c))
      BY TaskFacts DEF TaskOK
    <3>2. /\ o \in TaskType
          /\ o.state = y.state /\ o.ordered = y.ordered /\ o.trying = y.trying /\ o.modes = y.modes
          /\ o.acquired = y.acquired /\ o.reading = y.reading /\ o.rest = y.rest /\ o.blank = y.blank
          /\ o.gate = y.gate /\ o.todo = y.todo /\ o.cut = y.cut /\ o.grouped = y.grouped /\ o.groups = y.groups
          /\ y.torn \subseteq o.torn
          /\ y.reading /\ y.ordered[y.acquired + 1] = b => b \in o.torn
      <4> DEFINE z == [y EXCEPT !.torn = y.torn \cup {b}]
      <4>0. y.torn \cup {b} \in SUBSET Blocks
        BY <3>1 DEF TaskType
      <4>1. /\ z \in TaskType
            /\ z.state = y.state /\ z.ordered = y.ordered /\ z.trying = y.trying /\ z.modes = y.modes
            /\ z.acquired = y.acquired /\ z.reading = y.reading /\ z.rest = y.rest /\ z.blank = y.blank
            /\ z.gate = y.gate /\ z.todo = y.todo /\ z.cut = y.cut /\ z.grouped = y.grouped /\ z.groups = y.groups
            /\ z.torn = y.torn \cup {b}
        BY <3>1, <4>0 DEF TaskType
      <4>2. o = IF y.reading /\ y.ordered[y.acquired + 1] = b THEN z ELSE y
        BY <2>4
      <4> HIDE DEF z, o, y
      <4>3. CASE y.reading /\ y.ordered[y.acquired + 1] = b
        BY <4>1, <4>2, <4>3
      <4>4. CASE ~(y.reading /\ y.ordered[y.acquired + 1] = b)
        BY <3>1, <4>2, <4>4
      <4>5. QED
        BY <4>3, <4>4
    <3> HIDE DEF o
    <3>3. Kept(o) = Kept(y) /\ \A c : Owns(o, c) <=> Owns(y, c)
      BY <3>2 DEF Kept, Owns
    <3>4. Alike(y, o)
      BY <3>2 DEF Alike
    <3>5. TaskOK(u, o)
      <4>1. OrderOK(u, o)
        BY <3>1, <3>2, <3>3 DEF OrderOK
      <4>2. ProgressOK(o)
        BY <3>1, <3>2, <3>3 DEF ProgressOK
      <4>3. CallsOK(o)
        BY <3>1, <3>2, <3>3 DEF CallsOK
      <4>4. QED
        BY <4>1, <4>2, <4>3 DEF TaskOK
    <3>6. \A c \in Blocks : /\ block'[c].waiters = block[c].waiters /\ block'[c].told = block[c].told
                            /\ block'[c].gates = block[c].gates /\ block'[c].copy = block[c].copy
                            /\ c # b => block'[c].valid = block[c].valid
      BY <2>2, <2>5
    <3>7. PendingOK(block', u, o)
      BY <3>1, <3>4, <3>6, PendingFrame
    <3>8. \A c \in Blocks : GatesOK(block'[c], u, o, c) /\ (u \in unseen[c] => UnseenOK(block'[c], u, o, c))
      BY <3>1, <3>4, <3>6, GatesFrame, UnseenFrame
    <3>9. ReadOK(block', o)
      BY <3>1, <3>2, <3>6 DEF ReadOK, Awaits
    <3>10. \A c \in Blocks : (HoldsOf(o, c) <=> HoldsOf(y, c)) /\ (WaitsOf(o, c) <=> WaitsOf(y, c))
      <4>1. \A c \in Blocks : HoldsOf(o, c) <=> HoldsOf(y, c)
        BY <3>2, <3>3 DEF HoldsOf
      <4>2. \A c \in Blocks : WaitsOf(o, c) <=> WaitsOf(y, c)
        BY <3>2 DEF WaitsOf, Awaits
      <4>3. QED
        BY <4>1, <4>2
    <3>11. QED
      BY <3>2, <3>5, <3>7, <3>8, <3>9, <3>10 DEF o
  <2>7. task' \in [Tasks -> TaskType]
    <3>1. task' = [u \in Tasks |-> task'[u]]
      BY <1>4 DEF AskMaster
    <3>2. QED
      BY <2>6, <3>1
  <2>8. T \in SUBSET Tasks /\ (\A u \in Tasks \ T : FALSE) /\ \A u \in T : u \in Tasks
    OBVIOUS
  <2> HIDE DEF T
  <2>9. /\ unseen' \in [Blocks -> SUBSET Tasks] /\ \A c \in Blocks : unseen'[c] \subseteq unseen[c] \cup T
        /\ faults' = {}
    BY <1>1 DEF IInv, TypeOK
  <2>10. \A u \in T : /\ TaskOK(u, task'[u]) /\ PendingOK(block', u, task'[u]) /\ ReadOK(block', task'[u])
                      /\ \A c \in Blocks : /\ GatesOK(block'[c], u, task'[u], c)
                                           /\ u \in unseen'[c] => UnseenOK(block'[c], u, task'[u], c)
                                           /\ HoldsOf(task'[u], c) <=> HoldsOf(task[u], c)
                                           /\ WaitsOf(task'[u], c) <=> WaitsOf(task[u], c)
    BY <1>1, <2>6, <2>8
  <2>11. QED
    BY <2>1, <2>2, <2>3, <2>7, <2>8, <2>9, <2>10, CopyStep
<1>5. QED
  BY <1>3, <1>4

-----------------------------------------------------------------------------
(***************************************************************************)
(* What a task that is done waits for.                                     *)
(***************************************************************************)
LEMMA RemoteFacts ==
  ASSUME NEW t \in Tasks, NEW p \in TaskType, TaskOK(t, p), p.state = "done",
         NEW n \in Nat, p.acquired = Cardinality(p.rest) + n + 1
  PROVE  LET o == RemoteUpdated(p) IN
         /\ o \in TaskType /\ TaskOK(t, o) /\ p.acquired > 0
         /\ o.ordered = p.ordered /\ o.cut = p.cut /\ o.blank = p.blank /\ o.torn = p.torn /\ ~o.reading
         /\ o.state \in {"done", "releasing"}
         /\ o.state = "done" => o.rest = p.rest /\ o.acquired = Cardinality(p.rest) + n
         /\ o.state = "releasing" => p.rest = {} /\ n = 0
         /\ \A c \in Blocks : (HoldsOf(o, c) <=> HoldsOf(p, c)) /\ (WaitsOf(o, c) <=> WaitsOf(p, c))
<1> DEFINE o  == RemoteUpdated(p)
           q1 == [p EXCEPT !.acquired = 0]
           q2 == [q1 EXCEPT !.state = "releasing"]
           q  == [q2 EXCEPT !.rest = Kept(p)]
           m  == p.acquired - 1
           r  == [p EXCEPT !.acquired = m]
<1>1. OrderOK(t, p) /\ ProgressOK(p) /\ CallsOK(p)
  BY DEF TaskOK
<1>2. p.acquired \in Int /\ p.rest \subseteq Kept(p) /\ ~p.reading /\ ~p.trying
  BY <1>1 DEF ProgressOK, TaskType
<1>3. Cardinality(p.rest) \in Nat /\ IsFiniteSet(p.rest) /\ Kept(p) \subseteq Nat
  BY <1>1, <1>2, KeptFinite, OrderFacts
<1>4. p.acquired > 0 /\ m = Cardinality(p.rest) + n /\ m \in Int
  BY <1>3
<1>5. p.acquired = 1 => p.rest = {} /\ n = 0
  <2>1. p.acquired = 1 => Cardinality(p.rest) = 0 /\ n = 0
    BY <1>3
  <2>2. Cardinality(p.rest) = 0 => p.rest = {}
    BY <1>3, FS_EmptySet
  <2>3. QED
    BY <2>1, <2>2
<1>6. o = IF p.acquired = 1 THEN q ELSE r
  <2>1. [p EXCEPT !.acquired = 0, !.state = "releasing", !.rest = Kept(p)] = q
    BY DEF TaskType
  <2>2. [p EXCEPT !.acquired = @ - 1] = r
    OBVIOUS
  <2>3. QED
    BY <2>1, <2>2 DEF RemoteUpdated
<1> HIDE DEF o
<1>7. CASE p.acquired = 1
  <2>z. 0 \in Int
    OBVIOUS
  <2>1. q1 \in TaskType
    BY <2>z DEF TaskType
  <2> HIDE DEF q1
  <2>2. q2 \in TaskType
    BY <2>1 DEF TaskType, States
  <2> HIDE DEF q2
  <2>3. q \in TaskType
    BY <1>3, <2>2 DEF TaskType
  <2>4. /\ q.state = "releasing" /\ q.ordered = p.ordered /\ q.trying = p.trying /\ q.modes = p.modes
        /\ q.acquired = 0 /\ q.reading = p.reading /\ q.rest = Kept(p) /\ q.blank = p.blank
        /\ q.torn = p.torn /\ q.todo = p.todo /\ q.gate = p.gate /\ q.cut = p.cut /\ q.grouped = p.grouped
        /\ q.groups = p.groups
    BY <2>1, <2>2 DEF q1, q2, TaskType
  <2> HIDE DEF q
  <2>5. o = q
    BY <1>6, <1>7
  <2>6. Kept(q) = Kept(p) /\ \A c : Owns(q, c) <=> Owns(p, c)
    BY <2>4 DEF Kept, Owns
  <2>7. OrderOK(t, q)
    BY <1>1, <2>4, <2>6 DEF OrderOK, Asking
  <2>8. ProgressOK(q)
    BY <1>2, <2>4, <2>6 DEF ProgressOK
  <2>9. CallsOK(q)
    BY <1>1, <2>4, <2>6 DEF CallsOK
  <2>10. \A c \in Blocks : (HoldsOf(q, c) <=> HoldsOf(p, c)) /\ (WaitsOf(q, c) <=> WaitsOf(p, c))
    <3> TAKE c \in Blocks
    <3>1. HoldsOf(q, c) <=> \E i \in Kept(p) : p.ordered[i] = c
      BY <2>4 DEF HoldsOf
    <3>2. HoldsOf(p, c) <=> Owns(p, c)
      BY DEF HoldsOf
    <3>3. Owns(p, c) <=> \E i \in Kept(p) : p.ordered[i] = c
      BY <1>1, OrderFacts
    <3>4. ~WaitsOf(q, c) /\ ~WaitsOf(p, c)
      BY <2>4 DEF WaitsOf
    <3>5. QED
      BY <3>1, <3>2, <3>3, <3>4
  <2>11. TaskOK(t, q)
    BY <2>7, <2>8, <2>9 DEF TaskOK
  <2>12. QED
    BY <1>2, <1>4, <1>5, <1>7, <2>3, <2>4, <2>5, <2>10, <2>11 DEF o
<1>8. CASE p.acquired # 1
  <2>1. r \in TaskType
    BY <1>4 DEF TaskType
  <2>2. /\ r.state = "done" /\ r.ordered = p.ordered /\ r.trying = p.trying /\ r.modes = p.modes
        /\ r.acquired = m /\ r.reading = p.reading /\ r.rest = p.rest /\ r.blank = p.blank
        /\ r.torn = p.torn /\ r.todo = p.todo /\ r.gate = p.gate /\ r.cut = p.cut /\ r.grouped = p.grouped
        /\ r.groups = p.groups
    BY DEF TaskType
  <2>3. m > 0
    BY <1>3, <1>4, <1>8
  <2> HIDE DEF r, m
  <2>4. o = r
    BY <1>6, <1>8
  <2>5. Kept(r) = Kept(p) /\ \A c : Owns(r, c) <=> Owns(p, c)
    BY <2>2 DEF Kept, Owns
  <2>6. OrderOK(t, r)
    BY <1>1, <2>2, <2>5 DEF OrderOK
  <2>7. ProgressOK(r)
    BY <1>2, <2>2, <2>3, <2>5 DEF ProgressOK
  <2>8. CallsOK(r)
    BY <1>1, <2>2, <2>5 DEF CallsOK
  <2>9. \A c \in Blocks : (HoldsOf(r, c) <=> HoldsOf(p, c)) /\ (WaitsOf(r, c) <=> WaitsOf(p, c))
    BY <2>2, <2>5 DEF HoldsOf, WaitsOf
  <2>10. TaskOK(t, r)
    BY <2>6, <2>7, <2>8 DEF TaskOK
  <2>11. QED
    BY <1>2, <1>4, <2>1, <2>2, <2>4, <2>9, <2>10 DEF o
<1>9. QED
  BY <1>7, <1>8

LEMMA UnconfirmedFinite ==
  ASSUME NEW blocks, NEW t
  PROVE  /\ Unconfirmed(blocks, t) \subseteq Blocks /\ IsFiniteSet(Unconfirmed(blocks, t))
         /\ Cardinality(Unconfirmed(blocks, t)) \in Nat
<1>1. Unconfirmed(blocks, t) \subseteq Blocks
  BY DEF Unconfirmed
<1>2. IsFiniteSet(Unconfirmed(blocks, t))
  BY <1>1, FS_Subset, TaskBlocksAssumption
<1>3. QED
  BY <1>1, <1>2, FS_CardinalityType

LEMMA TellStep ==
  ASSUME IInv, NEW t \in Tasks, NEW b \in Blocks, Tell(t, b)
  PROVE  IInv'
<1> DEFINE x == task[t]
           y == block[b]
           k == [y EXCEPT !.told = @ \ {t}]
           o == RemoteUpdated(x)
           U == Unconfirmed(block, t)
           V == Unconfirmed(block', t)
           n == Cardinality(V)
           T == {t}
<1>1. /\ t \in y.told /\ x.rest = {} /\ block' = [block EXCEPT ![b] = k] /\ task' = [task EXCEPT ![t] = o]
      /\ faults' = faults \cup Counted(x) /\ unseen' = unseen
  BY TaskFacts DEF Tell
<1>2. y \in BlockType /\ Listed(y) /\ block \in [Blocks -> BlockType]
  BY BlockFacts
<1>3. /\ x \in TaskType /\ TaskOK(t, x) /\ PendingOK(block, t, x) /\ ReadOK(block, x) /\ faults = {}
      /\ \A c \in Blocks : GatesOK(block[c], t, x, c) /\ (t \in unseen[c] => UnseenOK(block[c], t, x, c))
      /\ task \in [Tasks -> TaskType] /\ unseen \in [Blocks -> SUBSET Tasks]
  BY TaskFacts
<1>4. /\ k \in BlockType /\ SameLocks(y, k) /\ k.copy = y.copy /\ k.listed = y.listed /\ k.valid = y.valid
      /\ k.waiters = y.waiters /\ k.gates = y.gates /\ k.told = y.told \ {t}
  BY <1>2 DEF BlockType, SameLocks
<1> HIDE DEF k
<1>5. block'[b] = k /\ \A c \in Blocks \ {b} : block'[c] = block[c]
  BY <1>1, <1>2
<1>6. b \in U /\ x.state = "done" /\ t \notin y.waiters
  <2>1. b \in U
    BY <1>1 DEF Unconfirmed
  <2>2. QED
    BY <1>1, <1>3, <2>1 DEF PendingOK
<1>7. V = U \ {b}
  <2>1. \A c \in Blocks : c \in V <=> t \in block'[c].waiters \cup block'[c].told
    BY DEF Unconfirmed
  <2>2. \A c \in Blocks : c \in U <=> t \in block[c].waiters \cup block[c].told
    BY DEF Unconfirmed
  <2>3. \A c \in Blocks : c \in V <=> c \in U /\ c # b
    BY <1>4, <1>5, <1>6, <2>1, <2>2
  <2>4. U \subseteq Blocks /\ V \subseteq Blocks
    BY UnconfirmedFinite
  <2>5. QED
    BY <2>3, <2>4
<1>8. n \in Nat /\ Cardinality(U) = n + 1 /\ (n = 0 => V = {})
  <2>1. IsFiniteSet(U) /\ IsFiniteSet(V) /\ n \in Nat /\ Cardinality(U) \in Nat
    BY UnconfirmedFinite
  <2> HIDE DEF U, V
  <2>2. Cardinality(U \ {b}) = Cardinality(U) - 1
    BY <1>6, <2>1, FS_RemoveElement
  <2>3. n = 0 => V = {}
    BY <2>1, FS_EmptySet
  <2>4. QED
    BY <1>7, <2>1, <2>2, <2>3
<1>9. x.acquired = Cardinality(x.rest) + n + 1
  <2>1. x.acquired = Cardinality(x.rest) + Cardinality(U)
    BY <1>3, <1>6 DEF PendingOK
  <2>2. Cardinality(x.rest) = 0
    BY <1>1, FS_EmptySet
  <2>3. QED
    BY <1>8, <2>1, <2>2
<1> HIDE DEF n
<1>10. /\ o \in TaskType /\ TaskOK(t, o) /\ x.acquired > 0
       /\ o.ordered = x.ordered /\ o.cut = x.cut /\ o.blank = x.blank /\ o.torn = x.torn /\ ~o.reading
       /\ o.state \in {"done", "releasing"}
       /\ o.state = "done" => o.rest = x.rest /\ o.acquired = Cardinality(x.rest) + n
       /\ o.state = "releasing" => x.rest = {} /\ n = 0
       /\ \A c \in Blocks : (HoldsOf(o, c) <=> HoldsOf(x, c)) /\ (WaitsOf(o, c) <=> WaitsOf(x, c))
  BY <1>3, <1>6, <1>8, <1>9, RemoteFacts
<1> HIDE DEF o
<1>11. faults' = {}
  BY <1>1, <1>3, <1>10 DEF Counted, Failed
<1>12. \A c : Owns(o, c) <=> Owns(x, c)
  BY <1>10 DEF Owns
<1>13. PendingOK(block', t, o)
  <2>1. ASSUME NEW c \in V
        PROVE  o.state = "done" /\ Owns(o, c) /\ ~Left(o, c) /\ ~(t \in block'[c].waiters /\ t \in block'[c].told)
    <3>1. c \in U /\ c # b /\ c \in Blocks
      BY <1>7, <2>1 DEF Unconfirmed
    <3>2. Owns(x, c) /\ ~(t \in block[c].waiters /\ t \in block[c].told)
      BY <1>3, <3>1 DEF PendingOK
    <3>3. o.state = "done"
      BY <1>8, <1>10, <2>1
    <3>4. ~Left(o, c)
      BY <1>1, <1>10, <3>3 DEF Left
    <3>5. QED
      BY <1>5, <1>12, <3>1, <3>2, <3>3, <3>4
  <2>2. o.state = "done" => o.acquired = Cardinality(o.rest) + Cardinality(V)
    BY <1>10 DEF n
  <2>3. QED
    BY <2>1, <2>2 DEF PendingOK
<1>14. ReadOK(block', o)
  BY <1>3, <1>10 DEF ReadOK
<1>15. \A c \in Blocks : GatesOK(block'[c], t, o, c)
  <2>1. \A c \in Blocks : block'[c].gates = block[c].gates
    BY <1>4, <1>5
  <2>2. \A c : ~Shut(x, c)
    BY <1>6 DEF Shut
  <2>3. QED
    BY <1>3, <1>10, <2>1, <2>2 DEF GatesOK
<1>16. \A c \in Blocks : t \in unseen[c] => UnseenOK(block'[c], t, o, c)
  <2> SUFFICES ASSUME NEW c \in Blocks, t \in unseen[c], ~o.cut PROVE UnseenOK(block'[c], t, o, c)
    BY DEF UnseenOK
  <2>1. UnseenOK(block[c], t, x, c) /\ ~x.cut
    BY <1>3, <1>10
  <2>2. ~Left(x, c) /\ ~Shut(x, c)
    BY <1>1, <1>6 DEF Left, Shut
  <2>3. block[c].copy # "none" /\ Owns(x, c) /\ Writes(LockMode(t, c)) /\ t \in block[c].waiters
    BY <2>1, <2>2 DEF UnseenOK
  <2>4. c # b
    BY <1>6, <2>3
  <2>5. c \in V
    BY <1>7, <2>3, <2>4 DEF Unconfirmed
  <2>6. o.state = "done"
    BY <1>8, <1>10, <2>5
  <2>7. QED
    BY <1>5, <1>12, <2>3, <2>4, <2>6 DEF UnseenOK
<1>17. Listed(k)
  BY <1>2, <1>4 DEF Listed
<1>18. task' \in [Tasks -> TaskType] /\ task'[t] = o /\ \A u \in Tasks \ T : task'[u] = task[u]
  BY <1>1, <1>3, <1>10
<1>19. \A u \in Tasks \ T : /\ u \in k.waiters <=> u \in block[b].waiters
                            /\ u \in k.told <=> u \in block[b].told
                            /\ u \in k.gates => u \in block[b].gates
                            /\ k.valid = "invalid" => block[b].valid = "invalid"
                            /\ u \in unseen[b] /\ k.copy = "none" => task[u].cut \/ block[b].copy = "none"
  BY <1>4
<1>20. T \in SUBSET Tasks /\ \A u \in T : u = t
  OBVIOUS
<1> HIDE DEF T, x, y
<1>21. \A u \in T : /\ TaskOK(u, task'[u]) /\ PendingOK(block', u, task'[u]) /\ ReadOK(block', task'[u])
                    /\ \A c \in Blocks : /\ GatesOK(block'[c], u, task'[u], c)
                                         /\ u \in unseen'[c] => UnseenOK(block'[c], u, task'[u], c)
                                         /\ HoldsOf(task'[u], c) <=> HoldsOf(task[u], c)
                                         /\ WaitsOf(task'[u], c) <=> WaitsOf(task[u], c)
  BY <1>1, <1>10, <1>13, <1>14, <1>15, <1>16, <1>18, <1>20 DEF x
<1>22. unseen' \in [Blocks -> SUBSET Tasks] /\ \A c \in Blocks : unseen'[c] \subseteq unseen[c] \cup T
  BY <1>1, <1>3
<1>23. SameLocks(block[b], k)
  BY <1>4 DEF y
<1>24. block' = [block EXCEPT ![b] = k] /\ k \in BlockType
  BY <1>1, <1>4
<1>25. QED
  BY <1>11, <1>17, <1>18, <1>19, <1>20, <1>21, <1>22, <1>23, <1>24, CopyStep, ZenonT(60)

(***************************************************************************)
(* The end of a task: its blocks are updated one after the other.          *)
(***************************************************************************)
LEMMA RestFacts ==
  ASSUME IInv, NEW t \in Tasks, task[t].state = "done", NEW i \in First(task[t].rest)
  PROVE  LET x == task[t]
             b == x.ordered[i]
             o == [x EXCEPT !.rest = @ \ {i}]
         IN
         /\ b \in Blocks /\ Owns(x, b) /\ Left(x, b) /\ ~Left(o, b) /\ b \notin Unconfirmed(block, t)
         /\ x.modes[i] = LockMode(t, b)
         /\ Writes(x.modes[i]) => Writing(block[b])
         /\ o \in TaskType /\ TaskOK(t, o)
         /\ o.state = "done" /\ o.ordered = x.ordered /\ o.acquired = x.acquired /\ o.reading = x.reading
         /\ o.blank = x.blank /\ o.torn = x.torn /\ o.cut = x.cut
         /\ x.acquired = Cardinality(o.rest) + Cardinality(Unconfirmed(block, t)) + 1
         /\ Cardinality(o.rest) \in Nat
         /\ \A c : c # b => (Left(o, c) <=> Left(x, c))
         /\ \A c \in Blocks : (HoldsOf(o, c) <=> HoldsOf(x, c)) /\ (WaitsOf(o, c) <=> WaitsOf(x, c))
<1> DEFINE x == task[t]
           b == x.ordered[i]
           r == x.rest \ {i}
           o == [x EXCEPT !.rest = r]
<1>1. /\ x \in TaskType /\ TaskOK(t, x) /\ PendingOK(block, t, x)
      /\ OrderOK(t, x) /\ ProgressOK(x) /\ CallsOK(x)
  BY TaskFacts DEF TaskOK
<1>2. x.rest \subseteq Kept(x) /\ x.rest \in SUBSET Nat
  BY <1>1 DEF ProgressOK, TaskType
<1>3. i \in x.rest /\ i \in Kept(x)
  BY <1>2, FirstFacts
<1>4. /\ b \in Blocks /\ x.modes[i] = LockMode(t, b)
      /\ \A j \in Kept(x) : x.ordered[j] = b => j = i
  BY <1>1, <1>3, OrderFacts
<1>5. Owns(x, b) /\ Left(x, b)
  BY <1>3 DEF Owns, Left, Kept
<1>6. b \notin Unconfirmed(block, t)
  BY <1>1, <1>5 DEF PendingOK
<1>7. r \in SUBSET Nat /\ r \subseteq x.rest
  BY <1>2
<1>8. /\ o \in TaskType
      /\ o.state = x.state /\ o.ordered = x.ordered /\ o.trying = x.trying /\ o.modes = x.modes
      /\ o.acquired = x.acquired /\ o.reading = x.reading /\ o.rest = r /\ o.blank = x.blank
      /\ o.torn = x.torn /\ o.todo = x.todo /\ o.gate = x.gate /\ o.cut = x.cut /\ o.grouped = x.grouped
      /\ o.groups = x.groups
  BY <1>1, <1>7 DEF TaskType
<1>9. o = [x EXCEPT !.rest = @ \ {i}]
  OBVIOUS
<1> HIDE DEF o
<1>10. ~Left(o, b)
  BY <1>2, <1>4, <1>8 DEF Left
<1>11. \A c : c # b => (Left(o, c) <=> Left(x, c))
  BY <1>8 DEF Left
<1>12. /\ Cardinality(r) \in Nat /\ Cardinality(x.rest) = Cardinality(r) + 1
  <2>1. IsFiniteSet(x.rest) /\ Cardinality(x.rest) \in Nat
    BY <1>1, <1>2, KeptFinite
  <2>2. IsFiniteSet(r) /\ Cardinality(r) \in Nat
    BY <1>1, <1>2, <1>7, KeptFinite
  <2>3. Cardinality(r) = Cardinality(x.rest) - 1
    BY <1>3, <2>1, FS_RemoveElement
  <2>4. QED
    BY <2>1, <2>2, <2>3
<1>13. x.acquired = Cardinality(r) + Cardinality(Unconfirmed(block, t)) + 1
  <2>1. Cardinality(Unconfirmed(block, t)) \in Nat
    BY UnconfirmedFinite
  <2>2. x.acquired = Cardinality(x.rest) + Cardinality(Unconfirmed(block, t))
    BY <1>1 DEF PendingOK
  <2>3. QED
    BY <1>12, <2>1, <2>2
<1>14. Kept(o) = Kept(x) /\ \A c : Owns(o, c) <=> Owns(x, c)
  BY <1>8 DEF Kept, Owns
<1>15. TaskOK(t, o)
  <2>1. OrderOK(t, o)
    BY <1>1, <1>8, <1>14 DEF OrderOK
  <2>2. ProgressOK(o)
    BY <1>1, <1>7, <1>8, <1>14 DEF ProgressOK
  <2>3. CallsOK(o)
    BY <1>1, <1>8, <1>14 DEF CallsOK
  <2>4. QED
    BY <2>1, <2>2, <2>3 DEF TaskOK
<1>16. \A c \in Blocks : (HoldsOf(o, c) <=> HoldsOf(x, c)) /\ (WaitsOf(o, c) <=> WaitsOf(x, c))
  <2>1. \A c \in Blocks : (HoldsOf(o, c) <=> Owns(o, c)) /\ (HoldsOf(x, c) <=> Owns(x, c))
    BY <1>8 DEF HoldsOf
  <2>2. \A c \in Blocks : ~WaitsOf(o, c) /\ ~WaitsOf(x, c)
    BY <1>8 DEF WaitsOf
  <2>3. QED
    BY <1>14, <2>1, <2>2
<1>17. ASSUME Writes(x.modes[i]) PROVE Writing(block[b])
  <2>1. HoldsOf(x, b)
    BY <1>5 DEF HoldsOf
  <2>2. t \in HoldersOf(task, b)
    BY <2>1 DEF HoldersOf
  <2>3. Writes(LockMode(t, b))
    BY <1>4, <1>17
  <2>4. Counts(block[b], HoldersOf(task, b), b) /\ HoldersOf(task, b) \in SUBSET Tasks
    BY <1>4, BlockFacts DEF LocksOK
  <2>5. QED
    BY <2>2, <2>3, <2>4, WriterFacts
<1>18. Cardinality(o.rest) = Cardinality(r)
  BY <1>8
<1>19. QED
  BY <1>4, <1>5, <1>6, <1>8, <1>9, <1>10, <1>11, <1>12, <1>13, <1>15, <1>16, <1>17, <1>18 DEF o

Visited(t, i) == [task[t] EXCEPT !.rest = @ \ {i}]
UpdateWaits(t, i) ==      \* UpdateData, when the copies of the block have to be recalled
  LET b == task[t].ordered[i] IN
  /\ task[t].state = "done" /\ Writes(task[t].modes[i])
  /\ block' = [block EXCEPT ![b] = Registered(block[b], t, FALSE)]
  /\ task' = [task EXCEPT ![t] = Visited(t, i)]
  /\ faults' = {} /\ unseen' = unseen
UpdateCounts(t, i) ==     \* UpdateData, otherwise
  LET b == task[t].ordered[i] IN
  /\ task[t].state = "done" /\ (Writes(task[t].modes[i]) => ~MustRecall(block[b]))
  /\ task' = [task EXCEPT ![t] = RemoteUpdated(Visited(t, i))] /\ block' = block
  /\ faults' = Counted(Visited(t, i)) /\ unseen' = unseen

LEMMA UpdateWait ==
  ASSUME IInv, NEW t \in Tasks, NEW i \in First(task[t].rest), UpdateWaits(t, i)
  PROVE  IInv'
<1> DEFINE x == task[t]
           b == x.ordered[i]
           o == Visited(t, i)
           y == block[b]
           k == Registered(y, t, FALSE)
           U == Unconfirmed(block, t)
           V == Unconfirmed(block', t)
           T == {t}
<1>0. x.state = "done" /\ Writes(x.modes[i])
  BY DEF UpdateWaits
<1>1. /\ b \in Blocks /\ Owns(x, b) /\ Left(x, b) /\ ~Left(o, b) /\ b \notin U
      /\ Writing(y)
      /\ o \in TaskType /\ TaskOK(t, o)
      /\ o.state = "done" /\ o.ordered = x.ordered /\ o.acquired = x.acquired /\ o.reading = x.reading
      /\ o.blank = x.blank /\ o.torn = x.torn /\ o.cut = x.cut
      /\ x.acquired = Cardinality(o.rest) + Cardinality(U) + 1
      /\ Cardinality(o.rest) \in Nat
      /\ \A c : c # b => (Left(o, c) <=> Left(x, c))
      /\ \A c \in Blocks : (HoldsOf(o, c) <=> HoldsOf(x, c)) /\ (WaitsOf(o, c) <=> WaitsOf(x, c))
  BY <1>0, RestFacts, ZenonT(60) DEF Visited
<1> HIDE DEF o
<1>2. y \in BlockType /\ Listed(y) /\ block \in [Blocks -> BlockType]
  BY <1>1, BlockFacts
<1>3. /\ PendingOK(block, t, x) /\ ReadOK(block, x) /\ task \in [Tasks -> TaskType]
      /\ \A c \in Blocks : GatesOK(block[c], t, x, c) /\ (t \in unseen[c] => UnseenOK(block[c], t, x, c))
      /\ unseen \in [Blocks -> SUBSET Tasks]
  BY TaskFacts
<1>4. /\ k \in BlockType /\ SameLocks(y, k) /\ Listed(k)
      /\ k.valid = y.valid /\ (k.copy = "none" <=> y.copy = "none") /\ k.told = y.told
      /\ k.gates = y.gates /\ k.waiters = y.waiters \cup {t}
  BY <1>1, <1>2, RegisteredFacts
<1>5. block' = [block EXCEPT ![b] = k]
  BY DEF UpdateWaits
<1> HIDE DEF k
<1>6. block'[b] = k /\ \A c \in Blocks \ {b} : block'[c] = block[c]
  BY <1>1, <1>2, <1>5
<1>7. V = U \cup {b}
  <2>1. \A c \in Blocks : c \in V <=> t \in block'[c].waiters \cup block'[c].told
    BY DEF Unconfirmed
  <2>2. \A c \in Blocks : c \in U <=> t \in block[c].waiters \cup block[c].told
    BY DEF Unconfirmed
  <2>3. \A c \in Blocks : c \in V <=> c \in U \/ c = b
    BY <1>4, <1>6, <2>1, <2>2
  <2>4. U \subseteq Blocks /\ V \subseteq Blocks
    BY UnconfirmedFinite
  <2>5. QED
    BY <1>1, <2>3, <2>4
<1>8. Cardinality(V) = Cardinality(U) + 1 /\ Cardinality(U) \in Nat
  <2>1. IsFiniteSet(U) /\ Cardinality(U) \in Nat
    BY UnconfirmedFinite
  <2> HIDE DEF U, V
  <2>2. Cardinality(U \cup {b}) = Cardinality(U) + 1
    BY <1>1, <2>1, FS_AddElement
  <2>3. QED
    BY <1>7, <2>1, <2>2
<1>9. \A c : Owns(o, c) <=> Owns(x, c)
  BY <1>1 DEF Owns
<1>10. PendingOK(block', t, o)
  <2>1. ASSUME NEW c \in V
        PROVE  Owns(o, c) /\ ~Left(o, c) /\ ~(t \in block'[c].waiters /\ t \in block'[c].told)
    <3>1. CASE c = b
      <4>1. t \notin y.told
        BY <1>1 DEF Unconfirmed
      <4>2. QED
        BY <1>1, <1>4, <1>6, <1>9, <3>1, <4>1
    <3>2. CASE c # b
      <4>1. c \in U /\ c \in Blocks
        BY <1>7, <2>1, <3>2 DEF Unconfirmed
      <4>2. Owns(x, c) /\ ~Left(x, c) /\ ~(t \in block[c].waiters /\ t \in block[c].told)
        BY <1>3, <4>1 DEF PendingOK
      <4>3. QED
        BY <1>1, <1>6, <1>9, <3>2, <4>1, <4>2
    <3>3. QED
      BY <3>1, <3>2
  <2>2. o.acquired = Cardinality(o.rest) + Cardinality(V)
    BY <1>1, <1>8
  <2>3. QED
    BY <1>1, <2>1, <2>2 DEF PendingOK
<1>11. ReadOK(block', o)
  <2>1. ~o.reading
    BY <1>1 DEF TaskOK, ProgressOK
  <2>2. QED
    BY <1>1, <1>3, <2>1 DEF ReadOK
<1>12. \A c \in Blocks : GatesOK(block'[c], t, o, c)
  <2>1. \A c \in Blocks : block'[c].gates = block[c].gates
    BY <1>4, <1>6
  <2>2. \A c : ~Shut(x, c)
    BY <1>0 DEF Shut
  <2>3. QED
    BY <1>1, <1>3, <2>1, <2>2 DEF GatesOK
<1>13. \A c \in Blocks : t \in unseen[c] => UnseenOK(block'[c], t, o, c)
  <2> SUFFICES ASSUME NEW c \in Blocks, t \in unseen[c], ~o.cut PROVE UnseenOK(block'[c], t, o, c)
    BY DEF UnseenOK
  <2>1. UnseenOK(block[c], t, x, c) /\ ~x.cut
    BY <1>1, <1>3
  <2>2. /\ block[c].copy # "none" /\ Owns(x, c) /\ Writes(LockMode(t, c))
        /\ t \in block[c].waiters \/ Left(x, c)
    BY <1>0, <2>1 DEF UnseenOK, Shut
  <2>3. block'[c].copy # "none"
    BY <1>4, <1>6, <2>2
  <2>4. t \in block'[c].waiters \/ Left(o, c)
    BY <1>1, <1>4, <1>6, <2>2
  <2>5. QED
    BY <1>1, <1>9, <2>2, <2>3, <2>4 DEF UnseenOK
<1>14. task' \in [Tasks -> TaskType] /\ task'[t] = o /\ \A u \in Tasks \ T : task'[u] = task[u]
  <2>1. task' = [task EXCEPT ![t] = o]
    BY DEF UpdateWaits, o
  <2>2. QED
    BY <1>1, <1>3, <2>1
<1>15. \A u \in Tasks \ T : /\ u \in k.waiters <=> u \in block[b].waiters
                            /\ u \in k.told <=> u \in block[b].told
                            /\ u \in k.gates => u \in block[b].gates
                            /\ k.valid = "invalid" => block[b].valid = "invalid"
                            /\ u \in unseen[b] /\ k.copy = "none" => task[u].cut \/ block[b].copy = "none"
  BY <1>4
<1>16. T \in SUBSET Tasks /\ \A u \in T : u = t
  OBVIOUS
<1>21. faults' = {} /\ unseen' = unseen
  BY DEF UpdateWaits
<1> HIDE DEF T, x, y, b
<1>17. \A u \in T : /\ TaskOK(u, task'[u]) /\ PendingOK(block', u, task'[u]) /\ ReadOK(block', task'[u])
                    /\ \A c \in Blocks : /\ GatesOK(block'[c], u, task'[u], c)
                                         /\ u \in unseen'[c] => UnseenOK(block'[c], u, task'[u], c)
                                         /\ HoldsOf(task'[u], c) <=> HoldsOf(task[u], c)
                                         /\ WaitsOf(task'[u], c) <=> WaitsOf(task[u], c)
  BY <1>1, <1>10, <1>11, <1>12, <1>13, <1>14, <1>16, <1>21 DEF x
<1>18. unseen' \in [Blocks -> SUBSET Tasks] /\ \A c \in Blocks : unseen'[c] \subseteq unseen[c] \cup T
  BY <1>3, <1>21
<1>19. SameLocks(block[b], k)
  BY <1>4 DEF y
<1>20. k \in BlockType /\ Listed(k) /\ b \in Blocks
  BY <1>1, <1>4
<1>22. faults' = {}
  BY <1>21
<1>23. QED
  BY <1>5, <1>14, <1>15, <1>16, <1>17, <1>18, <1>19, <1>20, <1>22, CopyStep, ZenonT(60)

LEMMA UpdateNow ==
  ASSUME IInv, NEW t \in Tasks, NEW i \in First(task[t].rest), UpdateCounts(t, i)
  PROVE  IInv'
<1> DEFINE x == task[t]
           b == x.ordered[i]
           p == Visited(t, i)
           U == Unconfirmed(block, t)
           n == Cardinality(U)
           o == RemoteUpdated(p)
<1>0. x.state = "done" /\ (Writes(x.modes[i]) => ~MustRecall(block[b]))
  BY DEF UpdateCounts
<1>1. /\ b \in Blocks /\ Owns(x, b) /\ Left(x, b) /\ ~Left(p, b) /\ b \notin U
      /\ x.modes[i] = LockMode(t, b)
      /\ p \in TaskType /\ TaskOK(t, p)
      /\ p.state = "done" /\ p.ordered = x.ordered /\ p.acquired = x.acquired
      /\ p.blank = x.blank /\ p.torn = x.torn /\ p.cut = x.cut
      /\ x.acquired = Cardinality(p.rest) + n + 1
      /\ \A c : c # b => (Left(p, c) <=> Left(x, c))
      /\ \A c \in Blocks : (HoldsOf(p, c) <=> HoldsOf(x, c)) /\ (WaitsOf(p, c) <=> WaitsOf(x, c))
  BY <1>0, RestFacts, ZenonT(60) DEF Visited
<1>2. block[b] \in BlockType /\ Listed(block[b])
  BY <1>1, BlockFacts
<1>3. /\ PendingOK(block, t, x) /\ ReadOK(block, x)
      /\ \A c \in Blocks : GatesOK(block[c], t, x, c) /\ (t \in unseen[c] => UnseenOK(block[c], t, x, c))
  BY TaskFacts
<1>4. n \in Nat /\ (n = 0 => U = {})
  <2>1. IsFiniteSet(U) /\ n \in Nat
    BY UnconfirmedFinite
  <2> HIDE DEF U
  <2>2. QED
    BY <2>1, FS_EmptySet
<1>5. p.acquired = Cardinality(p.rest) + n + 1
  BY <1>1
<1> HIDE DEF n, p
<1>6. /\ o \in TaskType /\ TaskOK(t, o) /\ p.acquired > 0
      /\ o.ordered = p.ordered /\ o.cut = p.cut /\ o.blank = p.blank /\ o.torn = p.torn /\ ~o.reading
      /\ o.state \in {"done", "releasing"}
      /\ o.state = "done" => o.rest = p.rest /\ o.acquired = Cardinality(p.rest) + n
      /\ o.state = "releasing" => p.rest = {} /\ n = 0
      /\ \A c \in Blocks : (HoldsOf(o, c) <=> HoldsOf(p, c)) /\ (WaitsOf(o, c) <=> WaitsOf(p, c))
  BY <1>1, <1>4, <1>5, RemoteFacts
<1>7. task' = [task EXCEPT ![t] = o] /\ block' = block /\ unseen' = unseen
  BY DEF UpdateCounts, p
<1> HIDE DEF o
<1>8. faults' = {}
  BY <1>6 DEF UpdateCounts, Counted, Failed, p
<1>9. \A c : Owns(o, c) <=> Owns(x, c)
  BY <1>1, <1>6 DEF Owns
<1>10. PendingOK(block, t, o)
  <2>1. ASSUME NEW c \in U
        PROVE  o.state = "done" /\ Owns(o, c) /\ ~Left(o, c) /\ ~(t \in block[c].waiters /\ t \in block[c].told)
    <3>1. Owns(x, c) /\ ~Left(x, c) /\ ~(t \in block[c].waiters /\ t \in block[c].told) /\ c # b
      BY <1>1, <1>3, <2>1 DEF PendingOK
    <3>2. o.state = "done" /\ o.rest = p.rest
      BY <1>4, <1>6, <2>1
    <3>3. ~Left(p, c)
      BY <1>1, <3>1
    <3>4. ~Left(o, c)
      BY <1>6, <3>2, <3>3 DEF Left
    <3>5. QED
      BY <1>9, <3>1, <3>2, <3>4
  <2>2. o.state = "done" => o.acquired = Cardinality(o.rest) + Cardinality(U)
    BY <1>6 DEF n
  <2>3. QED
    BY <2>1, <2>2 DEF PendingOK
<1>11. ReadOK(block, o)
  BY <1>1, <1>3, <1>6 DEF ReadOK
<1>12. \A c \in Blocks : GatesOK(block[c], t, o, c)
  <2>1. \A c : ~Shut(x, c)
    BY <1>0 DEF Shut
  <2>2. QED
    BY <1>1, <1>3, <1>6, <2>1 DEF GatesOK
<1>13. \A c \in Blocks : t \in unseen[c] => UnseenOK(block[c], t, o, c)
  <2> SUFFICES ASSUME NEW c \in Blocks, t \in unseen[c], ~o.cut PROVE UnseenOK(block[c], t, o, c)
    BY DEF UnseenOK
  <2>1. UnseenOK(block[c], t, x, c) /\ ~x.cut
    BY <1>1, <1>3, <1>6
  <2>2. /\ block[c].copy # "none" /\ Owns(x, c) /\ Writes(LockMode(t, c))
        /\ t \in block[c].waiters \/ Left(x, c)
    BY <1>0, <2>1 DEF UnseenOK, Shut
  <2>3. CASE t \in block[c].waiters
    <3>1. c \in U
      BY <2>3 DEF Unconfirmed
    <3>2. o.state = "done"
      BY <1>4, <1>6, <3>1
    <3>3. QED
      BY <1>9, <2>2, <2>3, <3>2 DEF UnseenOK
  <2>4. CASE t \notin block[c].waiters
    <3>1. c # b
      <4>1. c = b => MustRecall(block[b]) /\ Writes(x.modes[i])
        BY <1>1, <1>2, <2>2 DEF Listed, MustRecall
      <4>2. QED
        BY <1>0, <4>1
    <3>2. Left(p, c)
      BY <1>1, <2>2, <2>4, <3>1
    <3>3. o.state = "done" /\ Left(o, c)
      BY <1>6, <3>2 DEF Left
    <3>4. QED
      BY <1>9, <2>2, <3>3 DEF UnseenOK
  <2>5. QED
    BY <2>3, <2>4
<1>14. \A c \in Blocks : (HoldsOf(o, c) <=> HoldsOf(task[t], c)) /\ (WaitsOf(o, c) <=> WaitsOf(task[t], c))
  BY <1>1, <1>6
<1>15. QED
  BY <1>6, <1>7, <1>8, <1>10, <1>11, <1>12, <1>13, <1>14, OneTask

LEMMA UpdateDataStep ==
  ASSUME IInv, NEW t \in Tasks, UpdateData(t)
  PROVE  IInv'
<1>1. task[t].state = "done" /\ unseen' = unseen /\ faults = {}
  BY TaskFacts DEF UpdateData
<1>2. PICK i \in First(task[t].rest) :
         LET b == task[t].ordered[i]
             o == [task[t] EXCEPT !.rest = @ \ {i}]
             writer == Writes(task[t].modes[i])
         IN IF writer /\ MustRecall(block[b])
            THEN /\ block' = [block EXCEPT ![b] = Registered(@, t, FALSE)]
                 /\ task' = [task EXCEPT ![t] = o] /\ UNCHANGED faults
            ELSE /\ block' = IF writer THEN [block EXCEPT ![b] = Updated(@)] ELSE block
                 /\ task' = [task EXCEPT ![t] = RemoteUpdated(o)] /\ faults' = faults \cup Counted(o)
  BY DEF UpdateData
<1> DEFINE b == task[t].ordered[i]
           o == Visited(t, i)
<1>3. CASE Writes(task[t].modes[i]) /\ MustRecall(block[b])
  <2>1. /\ block' = [block EXCEPT ![b] = Registered(block[b], t, FALSE)]
        /\ task' = [task EXCEPT ![t] = o]
    BY <1>2, <1>3 DEF Visited
  <2>2. faults' = {}
    BY <1>1, <1>2, <1>3
  <2>3. UpdateWaits(t, i)
    BY <1>1, <1>3, <2>1, <2>2 DEF UpdateWaits
  <2>4. QED
    BY <2>3, UpdateWait
<1>4. CASE ~(Writes(task[t].modes[i]) /\ MustRecall(block[b]))
  <2>1. /\ block' = IF Writes(task[t].modes[i]) THEN [block EXCEPT ![b] = Updated(block[b])] ELSE block
        /\ task' = [task EXCEPT ![t] = RemoteUpdated(o)]
    BY <1>2, <1>4 DEF Visited
  <2>2. faults' = Counted(o)
    BY <1>1, <1>2, <1>4 DEF Visited
  <2>3. Writes(task[t].modes[i]) => Writing(block[b]) /\ b \in Blocks
    BY <1>1, RestFacts
  <2>4. block' = block
    <3>1. CASE Writes(task[t].modes[i])
      <4>1. Updated(block[b]) = block[b] /\ block \in [Blocks -> BlockType]
        BY <2>3, <3>1, UpdatedFacts, BlockFacts
      <4>2. QED
        BY <2>1, <2>3, <3>1, <4>1
    <3>2. CASE ~Writes(task[t].modes[i])
      BY <2>1, <3>2
    <3>3. QED
      BY <3>1, <3>2
  <2>5. UpdateCounts(t, i)
    BY <1>1, <1>4, <2>1, <2>2, <2>4 DEF UpdateCounts
  <2>6. QED
    BY <2>5, UpdateNow
<1>5. QED
  BY <1>3, <1>4

(***************************************************************************)
(* A release that has to wait at the gate of the task.                     *)
(***************************************************************************)
ReleaseWaits(t) ==      \* the third disjunct of Release
  LET b == Db(t) IN
  /\ CallIs(t, "release") /\ task[t].gate = "none"
  /\ ~task[t].grouped /\ Owns(task[t], b) /\ Writes(Mode(task[t], b)) /\ MustRecall(block[b])
  /\ block' = [block EXCEPT ![b] = Registered(block[b], t, TRUE)]
  /\ task' = [task EXCEPT ![t].gate = "shut"]
  /\ unseen' = Seen(t, {b}) /\ faults' = faults

LEMMA ReleaseWaitsStep ==
  ASSUME IInv, NEW t \in Tasks, ReleaseWaits(t)
  PROVE  IInv'
<1> DEFINE x == task[t]
           b == Db(t)
           y == block[b]
           k == Registered(y, t, TRUE)
           o == [x EXCEPT !.gate = "shut"]
           T == {t}
<1>1. /\ x.state = "running" /\ x.todo # <<>> /\ Head(x.todo).op = "release" /\ x.gate = "none"
      /\ ~x.grouped /\ Owns(x, b) /\ Writes(Mode(x, b)) /\ MustRecall(y)
      /\ unseen' = Seen(t, {b}) /\ faults' = faults
  BY DEF ReleaseWaits, CallIs
<1>2. b \in Blocks
  BY <1>1, RunningFacts DEF Db
<1>3. /\ x \in TaskType /\ OrderOK(t, x) /\ ProgressOK(x) /\ CallsOK(x) /\ faults = {}
      /\ PendingOK(block, t, x) /\ ReadOK(block, x) /\ task \in [Tasks -> TaskType]
      /\ unseen \in [Blocks -> SUBSET Tasks]
  BY TaskFacts DEF TaskOK
<1>4. y \in BlockType /\ Listed(y) /\ block \in [Blocks -> BlockType] /\ y.copy # "none"
  BY <1>1, <1>2, BlockFacts DEF MustRecall
<1>5. Writes(LockMode(t, b)) /\ HoldsOf(x, b)
  BY <1>1, <1>2, <1>3, OwnsFacts DEF HoldsOf
<1>6. Writing(y)
  <2>1. t \in HoldersOf(task, b)
    BY <1>5 DEF HoldersOf
  <2>2. Counts(y, HoldersOf(task, b), b) /\ HoldersOf(task, b) \in SUBSET Tasks
    BY <1>2, BlockFacts DEF LocksOK
  <2>3. QED
    BY <1>5, <2>1, <2>2, WriterFacts
<1>7. /\ k \in BlockType /\ SameLocks(y, k) /\ Listed(k)
      /\ k.valid = y.valid /\ (k.copy = "none" <=> y.copy = "none") /\ k.told = y.told
      /\ k.gates = y.gates \cup {t} /\ k.waiters = y.waiters
  BY <1>4, <1>6, RegisteredFacts
<1>8. block' = [block EXCEPT ![b] = k]
  BY DEF ReleaseWaits
<1> HIDE DEF k
<1>9. block'[b] = k /\ \A c \in Blocks \ {b} : block'[c] = block[c]
  BY <1>2, <1>4, <1>8
<1>10. /\ o \in TaskType
       /\ o.state = x.state /\ o.ordered = x.ordered /\ o.trying = x.trying /\ o.modes = x.modes
       /\ o.acquired = x.acquired /\ o.reading = x.reading /\ o.rest = x.rest /\ o.blank = x.blank
       /\ o.torn = x.torn /\ o.todo = x.todo /\ o.gate = "shut" /\ o.cut = x.cut /\ o.grouped = x.grouped
       /\ o.groups = x.groups
  BY <1>3 DEF TaskType
<1>11. task' = [task EXCEPT ![t] = o]
  BY DEF ReleaseWaits
<1> HIDE DEF o
<1>12. Kept(o) = Kept(x) /\ \A c : Owns(o, c) <=> Owns(x, c)
  BY <1>10 DEF Kept, Owns
<1>13. TaskOK(t, o)
  <2>1. OrderOK(t, o)
    BY <1>3, <1>10, <1>12 DEF OrderOK
  <2>2. ProgressOK(o)
    BY <1>3, <1>10, <1>12 DEF ProgressOK
  <2>3. CallsOK(o)
    BY <1>1, <1>3, <1>10, <1>12 DEF CallsOK, Db
  <2>4. QED
    BY <2>1, <2>2, <2>3 DEF TaskOK
<1>14. PendingOK(block', t, o)
  <2>1. \A c \in Blocks : block'[c].waiters = block[c].waiters /\ block'[c].told = block[c].told
    BY <1>7, <1>9
  <2>2. Unconfirmed(block', t) = Unconfirmed(block, t)
    BY <2>1 DEF Unconfirmed
  <2>3. Unconfirmed(block, t) = {}
    BY <1>1, <1>3 DEF PendingOK
  <2>4. QED
    BY <1>1, <1>10, <2>2, <2>3 DEF PendingOK
<1>15. ReadOK(block', o)
  <2>1. ~o.reading
    BY <1>1, <1>10, <1>13 DEF TaskOK, ProgressOK
  <2>2. QED
    BY <1>3, <1>10, <2>1 DEF ReadOK
<1>16. \A c \in Blocks : t \in unseen[c] \/ t \in block[c].gates => o.cut
  BY <1>1, <1>10, NoRelease
<1>17. Shut(o, b)
  BY <1>1, <1>10 DEF Shut, Db
<1>18. \A c \in Blocks : GatesOK(block'[c], t, o, c)
  BY <1>9, <1>16, <1>17 DEF GatesOK
<1>19. \A c \in Blocks : unseen'[c] = IF c = b THEN unseen[c] \cup {t} ELSE unseen[c]
  BY <1>1, <1>4 DEF Seen
<1>20. \A c \in Blocks : t \in unseen'[c] => UnseenOK(block'[c], t, o, c)
  <2> SUFFICES ASSUME NEW c \in Blocks, t \in unseen'[c] PROVE UnseenOK(block'[c], t, o, c)
    OBVIOUS
  <2>1. CASE c = b
    BY <1>1, <1>4, <1>5, <1>7, <1>9, <1>12, <1>17, <2>1 DEF UnseenOK
  <2>2. CASE c # b
    BY <1>16, <1>19, <2>2 DEF UnseenOK
  <2>3. QED
    BY <2>1, <2>2
<1>21. \A c \in Blocks : (HoldsOf(o, c) <=> HoldsOf(x, c)) /\ (WaitsOf(o, c) <=> WaitsOf(x, c))
  <2>1. \A c \in Blocks : HoldsOf(o, c) <=> HoldsOf(x, c)
    BY <1>10, <1>12 DEF HoldsOf
  <2>2. \A c \in Blocks : WaitsOf(o, c) <=> WaitsOf(x, c)
    BY <1>10 DEF WaitsOf, Awaits
  <2>3. QED
    BY <2>1, <2>2
<1>22. task' \in [Tasks -> TaskType] /\ task'[t] = o /\ \A u \in Tasks \ T : task'[u] = task[u]
  BY <1>3, <1>10, <1>11
<1>23. \A u \in Tasks \ T : /\ u \in k.waiters <=> u \in block[b].waiters
                            /\ u \in k.told <=> u \in block[b].told
                            /\ u \in k.gates => u \in block[b].gates
                            /\ k.valid = "invalid" => block[b].valid = "invalid"
                            /\ u \in unseen[b] /\ k.copy = "none" => task[u].cut \/ block[b].copy = "none"
  BY <1>7
<1>24. T \in SUBSET Tasks /\ \A u \in T : u = t
  OBVIOUS
<1>25. unseen' \in [Blocks -> SUBSET Tasks] /\ \A c \in Blocks : unseen'[c] \subseteq unseen[c] \cup T
  <2>1. \A c \in Blocks : unseen'[c] \subseteq unseen[c] \cup T
    BY <1>19
  <2>2. unseen' = [c \in Blocks |-> unseen'[c]]
    BY <1>1 DEF Seen
  <2>3. \A c \in Blocks : unseen'[c] \in SUBSET Tasks
    BY <1>3, <1>19
  <2>4. QED
    BY <2>1, <2>2, <2>3
<1>26. SameLocks(block[b], k)
  BY <1>7
<1> HIDE DEF T, x, y, b
<1>27. \A u \in T : /\ TaskOK(u, task'[u]) /\ PendingOK(block', u, task'[u]) /\ ReadOK(block', task'[u])
                    /\ \A c \in Blocks : /\ GatesOK(block'[c], u, task'[u], c)
                                         /\ u \in unseen'[c] => UnseenOK(block'[c], u, task'[u], c)
                                         /\ HoldsOf(task'[u], c) <=> HoldsOf(task[u], c)
                                         /\ WaitsOf(task'[u], c) <=> WaitsOf(task[u], c)
  BY <1>13, <1>14, <1>15, <1>18, <1>20, <1>21, <1>22, <1>24 DEF x
<1>28. k \in BlockType /\ Listed(k) /\ b \in Blocks
  BY <1>2, <1>7
<1>29. faults' = {}
  BY <1>1, <1>3
<1>30. QED
  BY <1>8, <1>22, <1>23, <1>24, <1>25, <1>26, <1>27, <1>28, <1>29, CopyStep, ZenonT(60)

(***************************************************************************)
(* A task asks for the next of its blocks.                                 *)
(***************************************************************************)
LEMMA TryNextStep ==
  ASSUME IInv, NEW t \in Tasks, TryNext(t)
  PROVE  IInv'
<1> DEFINE x  == task[t]
           i  == x.acquired + 1
           b  == x.ordered[i]
           y  == block[b]
           r  == TryLock(y, t, x.modes[i])
           k  == r.block
           f  == t \in r.to
           o1 == [x EXCEPT !.trying = FALSE]
           o  == [o1 EXCEPT !.reading = f]
           T  == {t}
           g  == {}
           h  == HoldersOf(task, b)
<1>1. /\ x.trying /\ x.acquired < Len(x.ordered) /\ unseen' = unseen /\ faults' = faults
  BY DEF TryNext
<1>2. block' = [block EXCEPT ![b] = k]
  BY DEF TryNext
<1>3. /\ x \in TaskType /\ OrderOK(t, x) /\ ProgressOK(x) /\ CallsOK(x) /\ faults = {}
      /\ PendingOK(block, t, x) /\ ReadOK(block, x) /\ task \in [Tasks -> TaskType]
      /\ unseen \in [Blocks -> SUBSET Tasks]
      /\ \A c \in Blocks : GatesOK(block[c], t, x, c) /\ (t \in unseen[c] => UnseenOK(block[c], t, x, c))
  BY TaskFacts DEF TaskOK
<1>4. x.reading \in BOOLEAN /\ x.trying \in BOOLEAN /\ x.acquired \in Int
  BY <1>3 DEF TaskType
<1>5. x.state = "locking" /\ ~x.reading /\ x.acquired \in 0..Len(x.ordered)
  BY <1>1, <1>3, <1>4 DEF ProgressOK
<1>6. /\ i \in Kept(x) /\ i \in DOMAIN x.ordered /\ Len(x.ordered) \in Nat /\ Kept(x) = DOMAIN x.ordered
      /\ DOMAIN x.ordered = 1..Len(x.ordered)
  <2>1. Kept(x) = DOMAIN x.ordered
    BY <1>3, <1>5 DEF OrderOK, Asking
  <2>2. DOMAIN x.ordered = 1..Len(x.ordered) /\ Len(x.ordered) \in Nat
    BY <1>3, OrderFacts
  <2>3. QED
    BY <1>1, <1>4, <1>5, <2>1, <2>2
<1>7. /\ b \in Blocks /\ x.modes[i] = LockMode(t, b) /\ LockMode(t, b) \in LockModes
      /\ \A j \in DOMAIN x.ordered : x.ordered[j] = b => j = i
  BY <1>3, <1>6, OrderFacts
<1>8. /\ y \in BlockType /\ Listed(y) /\ LocksOK(y, h, b) /\ Queue(y) = WaitersOf(task, b)
      /\ h \in SUBSET Tasks /\ block \in [Blocks -> BlockType]
  BY <1>7, BlockFacts
<1>9. ~HoldsOf(x, b) /\ ~WaitsOf(x, b)
  <2>1. HoldsOf(x, b) => \E j \in 1..x.acquired : x.ordered[j] = b
    BY <1>5 DEF HoldsOf
  <2>2. \A j \in 1..x.acquired : j \in DOMAIN x.ordered /\ j # i
    BY <1>1, <1>4, <1>5, <1>6
  <2>3. ~WaitsOf(x, b)
    BY <1>1 DEF WaitsOf
  <2>4. QED
    BY <1>7, <2>1, <2>2, <2>3
<1>10. t \notin h /\ t \notin Queue(y) /\ t \notin WaitersOf(task, b)
  BY <1>8, <1>9 DEF HoldersOf, WaitersOf
<1>11. /\ k \in BlockType /\ SameWaits(y, k) /\ SameCopy(y, k)
       /\ LocksOK(k, h \cup r.to, b)
       /\ \/ r.to = {t} /\ Queue(k) = Queue(y) /\ y.valid # "invalid"
          \/ r.to = {} /\ Queue(k) = Queue(y) \cup {t}
  <2> HIDE DEF y, h, b
  <2>1. LET q == TryLock(y, t, LockMode(t, b)) IN
         /\ q.block \in BlockType /\ SameWaits(y, q.block) /\ SameCopy(y, q.block)
         /\ LocksOK(q.block, h \cup q.to, b)
         /\ \/ q.to = {t} /\ Queue(q.block) = Queue(y) /\ y.valid # "invalid"
            \/ q.to = {} /\ Queue(q.block) = Queue(y) \cup {t}
    BY <1>7, <1>8, <1>10, TryLockFacts, SMTT(30)
  <2>2. r = TryLock(y, t, LockMode(t, b))
    BY <1>7 DEF b
  <2> HIDE DEF r
  <2>3. QED
    BY <2>1, <2>2
<1> HIDE DEF r
<1>12. f \in BOOLEAN /\ (f => r.to = {t} /\ Queue(k) = Queue(y) /\ y.valid # "invalid")
       /\ (~f => r.to = {} /\ Queue(k) = Queue(y) \cup {t})
  <2> DEFINE Q == Queue(k)
             P == Queue(y)
             v == y.valid
  <2>1. \/ r.to = {t} /\ Q = P /\ v # "invalid"
        \/ r.to = {} /\ Q = P \cup {t}
    BY <1>11
  <2> HIDE DEF Q, P, v, y, k
  <2>2. f \in BOOLEAN /\ (f => r.to = {t} /\ Q = P /\ v # "invalid") /\ (~f => r.to = {} /\ Q = P \cup {t})
    BY ONLY <2>1 DEF f
  <2>3. QED
    BY <2>2 DEF Q, P, v
<1>13. task' = [task EXCEPT ![t] = o]
  <2>1. task' = [task EXCEPT ![t].trying = FALSE, ![t].reading = f]
    BY DEF TryNext, r
  <2>2. QED
    BY <1>3, <2>1
<1> HIDE DEF r, k, f
<1>14. o1 \in TaskType
  BY <1>3 DEF TaskType
<1> HIDE DEF o1
<1>15. o \in TaskType
  BY <1>12, <1>14 DEF TaskType
<1>16. /\ o.state = x.state /\ o.ordered = x.ordered /\ o.trying = FALSE /\ o.modes = x.modes
       /\ o.acquired = x.acquired /\ (o.reading <=> f) /\ o.rest = x.rest /\ o.blank = x.blank
       /\ o.torn = x.torn /\ o.todo = x.todo /\ o.gate = x.gate /\ o.cut = x.cut /\ o.grouped = x.grouped
       /\ o.groups = x.groups
  BY <1>3, <1>12, <1>14 DEF o1, TaskType
<1> HIDE DEF o
<1>17. Kept(o) = Kept(x) /\ \A c : Owns(o, c) <=> Owns(x, c)
  BY <1>16 DEF Kept, Owns
<1>18. TaskOK(t, o)
  <2>1. OrderOK(t, o)
    BY <1>3, <1>16, <1>17 DEF OrderOK
  <2>2. ProgressOK(o)
    BY <1>1, <1>3, <1>5, <1>16, <1>17 DEF ProgressOK
  <2>3. CallsOK(o)
    BY <1>3, <1>16, <1>17 DEF CallsOK
  <2>4. QED
    BY <2>1, <2>2, <2>3 DEF TaskOK
<1>19. block'[b] = k /\ \A c \in Blocks \ {b} : block'[c] = block[c]
  BY <1>2, <1>7, <1>8
<1>20. \A c \in Blocks : /\ block'[c].waiters = block[c].waiters /\ block'[c].told = block[c].told
                         /\ block'[c].gates = block[c].gates /\ block'[c].valid = block[c].valid
  BY <1>11, <1>19 DEF SameWaits, SameCopy
<1>21. PendingOK(block', t, o)
  <2>1. Alike(x, o)
    BY <1>5, <1>16 DEF Alike
  <2>2. QED
    BY <1>3, <1>20, <2>1, PendingFrame
<1>22. ReadOK(block', o)
  <2>1. ASSUME NEW c \in Blocks, o.reading, Awaits(o, c) PROVE block'[c].valid # "invalid"
    <3>1. c = b
      BY <1>16, <2>1 DEF Awaits
    <3>2. QED
      BY <1>12, <1>16, <1>20, <2>1, <3>1
  <2>2. QED
    BY <1>3, <1>16, <2>1 DEF ReadOK
<1>23. \A c \in Blocks : t \in unseen[c] \/ t \in block[c].gates => x.cut
  BY <1>5, NoRelease
<1>24. \A c \in Blocks : GatesOK(block'[c], t, o, c) /\ (t \in unseen'[c] => UnseenOK(block'[c], t, o, c))
  BY <1>1, <1>16, <1>20, <1>23 DEF GatesOK, UnseenOK
<1>25. \A c \in Blocks : HoldsOf(o, c) <=> HoldsOf(x, c) \/ (f /\ c = b)
  <2> TAKE c \in Blocks
  <2>1. HoldsOf(x, c) <=> \E j \in 1..x.acquired : x.ordered[j] = c
    BY <1>5 DEF HoldsOf
  <2>2. CASE f
    <3>1. HoldsOf(o, c) <=> \E j \in 1..(x.acquired + 1) : x.ordered[j] = c
      BY <1>5, <1>16, <2>2 DEF HoldsOf
    <3>2. 1..(x.acquired + 1) = (1..x.acquired) \cup {i}
      BY <1>4, <1>5, <1>6
    <3>3. QED
      BY <2>1, <2>2, <3>1, <3>2
  <2>3. CASE ~f
    <3>1. HoldsOf(o, c) <=> \E j \in 1..x.acquired : x.ordered[j] = c
      BY <1>5, <1>16, <2>3 DEF HoldsOf
    <3>2. QED
      BY <2>1, <2>3, <3>1
  <2>4. QED
    BY <2>2, <2>3
<1>26. \A c \in Blocks : ~WaitsOf(x, c) /\ (WaitsOf(o, c) <=> ~f /\ c = b)
  <2> TAKE c \in Blocks
  <2>1. ~WaitsOf(x, c)
    BY <1>1 DEF WaitsOf
  <2>2. Awaits(o, c) <=> c = b
    BY <1>1, <1>16 DEF Awaits
  <2>3. QED
    BY <1>5, <1>16, <2>1, <2>2 DEF WaitsOf
<1>27. task' \in [Tasks -> TaskType] /\ task'[t] = o /\ \A u \in Tasks \ T : task'[u] = task[u]
  BY <1>3, <1>13, <1>15
<1>28. {u \in T : HoldsOf(task'[u], b)} \cup (h \ T) \cup g = h \cup r.to
  <2>1. {u \in T : HoldsOf(task'[u], b)} = IF f THEN {t} ELSE {}
    BY <1>7, <1>9, <1>25, <1>27
  <2>2. QED
    BY <1>10, <1>12, <2>1
<1>29. Queue(k) = {u \in T : WaitsOf(task'[u], b)} \cup (WaitersOf(task, b) \ (T \cup g))
  <2>1. {u \in T : WaitsOf(task'[u], b)} = IF f THEN {} ELSE {t}
    BY <1>7, <1>26, <1>27
  <2>2. QED
    BY <1>8, <1>10, <1>12, <2>1
<1>30. LocksOK(k, {u \in T : HoldsOf(task'[u], b)} \cup (HoldersOf(task, b) \ T) \cup g, b)
  BY <1>11, <1>28
<1>31. Listed(k)
  BY <1>8, <1>11 DEF Listed, SameCopy
<1>32. \A u \in Tasks \ T : /\ u \in k.waiters <=> u \in block[b].waiters
                            /\ u \in k.told <=> u \in block[b].told
                            /\ u \in k.gates => u \in block[b].gates
                            /\ k.valid = "invalid" => block[b].valid = "invalid"
                            /\ u \in unseen[b] /\ k.copy = "none" => task[u].cut \/ block[b].copy = "none"
  BY <1>11 DEF SameWaits, SameCopy
<1>33. T \in SUBSET Tasks /\ g \in SUBSET Tasks /\ g \cap T = {} /\ \A u \in T : u = t
  OBVIOUS
<1>34. \A u \in Tasks \ T : task'[u] = IF u \in g THEN Given(task[u], b, k) ELSE task[u]
  BY <1>27
<1>35. \A u \in g : WaitsOf(task[u], b) /\ k.valid # "invalid"
  OBVIOUS
<1>36. faults' = {}
  BY <1>1, <1>3
<1>37. unseen' \in [Blocks -> SUBSET Tasks] /\ \A c \in Blocks : unseen'[c] \subseteq unseen[c] \cup T
  BY <1>1, <1>3
<1> HIDE DEF T, g, x, y, h, b
<1>38. \A u \in T : /\ TaskOK(u, task'[u]) /\ PendingOK(block', u, task'[u]) /\ ReadOK(block', task'[u])
                    /\ \A c \in Blocks : /\ GatesOK(block'[c], u, task'[u], c)
                                         /\ u \in unseen'[c] => UnseenOK(block'[c], u, task'[u], c)
                    /\ \A c \in Blocks \ {b} : /\ HoldsOf(task'[u], c) <=> HoldsOf(task[u], c)
                                               /\ WaitsOf(task'[u], c) <=> WaitsOf(task[u], c)
  BY <1>18, <1>21, <1>22, <1>24, <1>25, <1>26, <1>27, <1>33 DEF x
<1>39. k \in BlockType /\ b \in Blocks
  BY <1>7, <1>11
<1>40. QED
  BY <1>2, <1>27, <1>29, <1>30, <1>31, <1>32, <1>33, <1>34, <1>35, <1>36, <1>37, <1>38, <1>39, BlockStep

(***************************************************************************)
(* Grants: when the block changes hands, and when it comes from elsewhere. *)
(***************************************************************************)
LEMMA GrantedFacts ==
  ASSUME IInv, NEW b \in Blocks, NEW r, r.to \subseteq WaitersOf(task, b)
  PROVE  /\ Granted(b, r) \in [Tasks -> TaskType] /\ InOrder(b, r) = {}
         /\ \A u \in Tasks : Granted(b, r)[u] = IF u \in r.to THEN Given(task[u], b, r.block) ELSE task[u]
         /\ \A u \in r.to : WaitsOf(task[u], b)
<1>1. \A u \in r.to : u \in Tasks /\ WaitsOf(task[u], b)
  BY DEF WaitersOf
<1>2. \A u \in r.to : Awaits(task[u], b)
  BY <1>1 DEF WaitsOf
<1>3. InOrder(b, r) = {}
  BY <1>2 DEF InOrder, Failed
<1>4. \A u \in Tasks : Granted(b, r)[u] = IF u \in r.to THEN Given(task[u], b, r.block) ELSE task[u]
  BY DEF Granted
<1>5. ASSUME NEW u \in Tasks PROVE Granted(b, r)[u] \in TaskType
  <2> DEFINE o == task[u]
  <2>1. o \in TaskType
    BY TaskFacts
  <2>2. Given(o, b, r.block) \in TaskType
    <3> HIDE DEF o
    <3>1. \A k : Given(o, b, k) \in TaskType
      BY <2>1, GivenFields
    <3>2. QED
      BY <3>1
  <2>3. QED
    BY <1>4, <2>1, <2>2
<1>6. Granted(b, r) = [u \in Tasks |-> Granted(b, r)[u]]
  BY DEF Granted
<1>7. QED
  BY <1>1, <1>3, <1>4, <1>5, <1>6

LEMMA ElevatedStep ==
  ASSUME IInv, NEW b \in Blocks, NEW s \in {"copy", "master"}, Elevated(b, s)
  PROVE  IInv'
<1> DEFINE y  == block[b]
           h  == HoldersOf(task, b)
           m1 == [y EXCEPT !.valid = "master"]
           m2 == [m1 EXCEPT !.listed = TRUE]
           m3 == [m2 EXCEPT !.copy = "held"]
           m  == [m3 EXCEPT !.asked = {}]
           a  == y.asked \ {s}
           c1 == [y EXCEPT !.valid = "copy"]
           c  == [c1 EXCEPT !.asked = a]
           l  == IF s = "master" THEN m ELSE c
           r  == Grant(l)
           k  == r.block
           T  == {}
           g  == r.to
<1>1. /\ y \in BlockType /\ Listed(y) /\ LocksOK(y, h, b) /\ Queue(y) = WaitersOf(task, b)
      /\ h \in SUBSET Tasks /\ block \in [Blocks -> BlockType] /\ Queue(y) \cap h = {}
  BY BlockFacts
<1>2. ~y.listed
  BY DEF Elevated
<1>3. /\ block' = [block EXCEPT ![b] = k] /\ task' = Granted(b, r)
      /\ faults' = faults \cup InOrder(b, r) /\ unseen' = unseen
  <2>1. m = [y EXCEPT !.valid = "master", !.listed = TRUE, !.copy = "held", !.asked = {}]
    BY <1>1 DEF BlockType
  <2>2. c = [y EXCEPT !.valid = "copy", !.asked = @ \ {s}]
    BY <1>1 DEF BlockType
  <2> HIDE DEF m, c
  <2>3. QED
    BY <2>1, <2>2 DEF Elevated
<1>4. m1 \in BlockType
  BY <1>1 DEF BlockType
<1> HIDE DEF m1
<1>5. m2 \in BlockType
  BY <1>4 DEF BlockType
<1> HIDE DEF m2
<1>6. m3 \in BlockType
  BY <1>5 DEF BlockType
<1> HIDE DEF m3
<1>7. m \in BlockType
  BY <1>6 DEF BlockType
<1>8. /\ SameLocks(y, m) /\ SameWaits(y, m) /\ m.valid = "master" /\ m.listed /\ m.copy = "held"
  BY <1>1, <1>4, <1>5, <1>6 DEF m1, m2, m3, BlockType, SameLocks, SameWaits
<1> HIDE DEF m
<1>9. c1 \in BlockType
  BY <1>1 DEF BlockType
<1> HIDE DEF c1
<1>10. a \in SUBSET {"copy", "master"}
  BY <1>1 DEF BlockType
<1> HIDE DEF a
<1>11. c \in BlockType
  BY <1>9, <1>10 DEF BlockType
<1>12. /\ SameLocks(y, c) /\ SameWaits(y, c) /\ c.valid = "copy" /\ c.listed = y.listed /\ c.copy = y.copy
  BY <1>1, <1>9 DEF c1, BlockType, SameLocks, SameWaits
<1> HIDE DEF c
<1>13. /\ l \in BlockType /\ SameLocks(y, l) /\ SameWaits(y, l) /\ l.valid # "invalid" /\ Listed(l)
       /\ l.copy = "none" => y.copy = "none"
  <2>1. CASE s = "master"
    BY <1>7, <1>8, <2>1 DEF Listed
  <2>2. CASE s # "master"
    BY <1>1, <1>11, <1>12, <2>2 DEF Listed
  <2>3. QED
    BY <2>1, <2>2
<1> HIDE DEF l
<1>14. LocksOK(l, h, b) /\ Queue(l) = Queue(y)
  BY <1>1, <1>13 DEF SameLocks, LocksOK, QueueOK, Counts, Compatible, Queue
<1>15. /\ k \in BlockType /\ SameWaits(l, k) /\ SameCopy(l, k)
       /\ LocksOK(k, h \cup g, b)
       /\ g \subseteq Queue(l) /\ Queue(k) = Queue(l) \ g
  <2> HIDE DEF y, h
  <2>1. QED
    BY <1>1, <1>13, <1>14, GrantFacts
<1> HIDE DEF r
<1>16. g \subseteq WaitersOf(task, b) /\ Queue(k) = WaitersOf(task, b) \ g
  BY <1>1, <1>14, <1>15
<1>17. /\ Granted(b, r) \in [Tasks -> TaskType] /\ InOrder(b, r) = {}
       /\ \A u \in Tasks : Granted(b, r)[u] = IF u \in r.to THEN Given(task[u], b, r.block) ELSE task[u]
       /\ \A u \in r.to : WaitsOf(task[u], b)
  BY <1>16, GrantedFacts
<1>18. faults = {} /\ unseen \in [Blocks -> SUBSET Tasks]
  BY DEF IInv, TypeOK
<1>19. faults' = {}
  BY <1>3, <1>17, <1>18
<1>20. task' \in [Tasks -> TaskType] /\ \A u \in Tasks \ T : task'[u] = IF u \in g THEN Given(task[u], b, k) ELSE task[u]
  BY <1>3, <1>17
<1>21. k.valid # "invalid" /\ Listed(k) /\ (k.copy = "none" => y.copy = "none")
       /\ k.waiters = y.waiters /\ k.gates = y.gates /\ k.told = y.told
  BY <1>13, <1>15 DEF SameCopy, SameWaits, Listed
<1>22. T \in SUBSET Tasks /\ g \in SUBSET Tasks /\ g \cap T = {} /\ \A u \in T : FALSE
  BY <1>16 DEF WaitersOf
<1>23. \A u \in g : WaitsOf(task[u], b) /\ k.valid # "invalid"
  BY <1>17, <1>21
<1>24. LocksOK(k, {u \in T : HoldsOf(task'[u], b)} \cup (HoldersOf(task, b) \ T) \cup g, b)
  <2>1. {u \in T : HoldsOf(task'[u], b)} \cup (HoldersOf(task, b) \ T) \cup g = h \cup g
    OBVIOUS
  <2>2. QED
    BY <1>15, <2>1
<1>25. Queue(k) = {u \in T : WaitsOf(task'[u], b)} \cup (WaitersOf(task, b) \ (T \cup g))
  BY <1>16
<1>26. \A u \in Tasks \ T : /\ u \in k.waiters <=> u \in block[b].waiters
                            /\ u \in k.told <=> u \in block[b].told
                            /\ u \in k.gates => u \in block[b].gates
                            /\ k.valid = "invalid" => block[b].valid = "invalid"
                            /\ u \in unseen[b] /\ k.copy = "none" => task[u].cut \/ block[b].copy = "none"
  BY <1>21
<1>27. unseen' \in [Blocks -> SUBSET Tasks] /\ \A d \in Blocks : unseen'[d] \subseteq unseen[d] \cup T
  BY <1>3, <1>18
<1> HIDE DEF T, g, k, y, h
<1>28. \A u \in T : /\ TaskOK(u, task'[u]) /\ PendingOK(block', u, task'[u]) /\ ReadOK(block', task'[u])
                    /\ \A d \in Blocks : /\ GatesOK(block'[d], u, task'[u], d)
                                         /\ u \in unseen'[d] => UnseenOK(block'[d], u, task'[u], d)
                    /\ \A d \in Blocks \ {b} : /\ HoldsOf(task'[u], d) <=> HoldsOf(task[u], d)
                                               /\ WaitsOf(task'[u], d) <=> WaitsOf(task[u], d)
  BY <1>22
<1>29. block' = [block EXCEPT ![b] = k] /\ k \in BlockType
  BY <1>3, <1>15
<1>30. QED
  BY <1>19, <1>20, <1>21, <1>22, <1>23, <1>24, <1>25, <1>26, <1>27, <1>28, <1>29, BlockStep

(***************************************************************************)
(* A task unlocks a block: early, or after its end.                        *)
(***************************************************************************)
LEMMA UnlockBlockStep ==
  ASSUME IInv, NEW t \in Tasks, NEW b \in Blocks, NEW o \in TaskType, UnlockBlock(t, b, o, {}),
         HoldsOf(task[t], b), task[t].state # "done", o.state # "done", TaskOK(t, o),
         ~o.reading, o.blank \subseteq o.torn,
         \A c \in Blocks : t \in unseen'[c] \/ t \in block[c].gates => o.cut,
         ~HoldsOf(o, b), ~WaitsOf(o, b),
         \A c \in Blocks \ {b} : (HoldsOf(o, c) <=> HoldsOf(task[t], c)) /\ (WaitsOf(o, c) <=> WaitsOf(task[t], c)),
         unseen' \in [Blocks -> SUBSET Tasks],
         \A c \in Blocks : unseen'[c] \subseteq unseen[c] \cup {t}
  PROVE  IInv'
<1> DEFINE x == task[t]
           y == block[b]
           h == HoldersOf(task, b)
           r == Grant(Updated(Unlocked(y, Mode(x, b))))
           k == r.block
           T == {t}
           g == r.to
<1>1. /\ y \in BlockType /\ Listed(y) /\ LocksOK(y, h, b) /\ Queue(y) = WaitersOf(task, b)
      /\ h \in SUBSET Tasks /\ block \in [Blocks -> BlockType] /\ Queue(y) \cap h = {}
      /\ \A u \in h : LockMode(u, b) \in LockModes
  BY BlockFacts
<1>2. /\ x \in TaskType /\ OrderOK(t, x) /\ ProgressOK(x) /\ PendingOK(block, t, x) /\ faults = {}
      /\ unseen \in [Blocks -> SUBSET Tasks]
  BY TaskFacts DEF TaskOK
<1>3. Owns(x, b)
  BY <1>2, HoldsFacts
<1>4. Mode(x, b) = LockMode(t, b)
  BY <1>2, <1>3, OwnsFacts
<1>5. t \in h
  BY DEF HoldersOf
<1>6. /\ Held(y, Mode(x, b))
      /\ k \in BlockType /\ SameWaits(y, k) /\ SameValid(y, k) /\ Listed(k)
      /\ LocksOK(k, (h \ {t}) \cup g, b)
      /\ g \subseteq Queue(y) /\ Queue(k) = Queue(y) \ g
      /\ g # {} => y.valid # "invalid"
      /\ WrittenBy(h \ {t}, b) => SameCopy(y, k)
  <2>1. LET q == Grant(Updated(Unlocked(y, LockMode(t, b)))) IN
         /\ Held(y, LockMode(t, b))
         /\ q.block \in BlockType /\ SameWaits(y, q.block) /\ SameValid(y, q.block) /\ Listed(q.block)
         /\ LocksOK(q.block, (h \ {t}) \cup q.to, b)
         /\ q.to \subseteq Queue(y) /\ Queue(q.block) = Queue(y) \ q.to
         /\ q.to # {} => y.valid # "invalid"
         /\ WrittenBy(h \ {t}, b) => SameCopy(y, q.block)
    <3> HIDE DEF y, h
    <3>1. LockMode(t, b) \in LockModes
      BY <1>1, <1>5
    <3>2. y \in BlockType /\ Listed(y) /\ LocksOK(y, h, b) /\ h \in SUBSET Tasks /\ Queue(y) \cap h = {}
      BY <1>1
    <3>3. QED
      BY <1>5, <3>1, <3>2, UnlockFacts
  <2>2. r = Grant(Updated(Unlocked(y, LockMode(t, b))))
    BY <1>4
  <2> HIDE DEF r, y, h
  <2>3. QED
    BY <1>4, <2>1, <2>2
<1>7. /\ block' = [block EXCEPT ![b] = k] /\ task' = [Granted(b, r) EXCEPT ![t] = o]
      /\ faults' = faults \cup {} \cup Failed(Held(y, Mode(x, b)), "unlock") \cup InOrder(b, r)
  BY DEF UnlockBlock
<1> HIDE DEF r
<1>8. /\ Granted(b, r) \in [Tasks -> TaskType] /\ InOrder(b, r) = {}
      /\ \A u \in Tasks : Granted(b, r)[u] = IF u \in r.to THEN Given(task[u], b, r.block) ELSE task[u]
      /\ \A u \in r.to : WaitsOf(task[u], b)
  BY <1>1, <1>6, GrantedFacts
<1>9. faults' = {}
  BY <1>2, <1>6, <1>7, <1>8 DEF Failed
<1>10. block'[b] = k /\ \A c \in Blocks \ {b} : block'[c] = block[c]
  BY <1>1, <1>7
<1>11. task' \in [Tasks -> TaskType] /\ task'[t] = o
       /\ \A u \in Tasks \ T : task'[u] = IF u \in g THEN Given(task[u], b, k) ELSE task[u]
  BY <1>7, <1>8
<1>12. t \notin g /\ t \notin WaitersOf(task, b) /\ g \subseteq Tasks
  BY <1>1, <1>5, <1>6 DEF WaitersOf
<1>13. \A c \in Blocks : /\ block'[c].waiters = block[c].waiters /\ block'[c].told = block[c].told
                         /\ block'[c].gates = block[c].gates
  BY <1>6, <1>10 DEF SameWaits
<1>14. PendingOK(block', t, o)
  <2>1. Unconfirmed(block', t) = Unconfirmed(block, t)
    BY <1>13 DEF Unconfirmed
  <2>2. Unconfirmed(block, t) = {}
    BY <1>2 DEF PendingOK
  <2>3. QED
    BY <2>1, <2>2 DEF PendingOK
<1>15. ReadOK(block', o)
  BY DEF ReadOK
<1>16. \A c \in Blocks : GatesOK(block'[c], t, o, c) /\ (t \in unseen'[c] => UnseenOK(block'[c], t, o, c))
  BY <1>13 DEF GatesOK, UnseenOK
<1>17. LocksOK(k, {u \in T : HoldsOf(task'[u], b)} \cup (HoldersOf(task, b) \ T) \cup g, b)
  <2>1. {u \in T : HoldsOf(task'[u], b)} = {}
    BY <1>11
  <2>2. {u \in T : HoldsOf(task'[u], b)} \cup (HoldersOf(task, b) \ T) \cup g = (h \ {t}) \cup g
    BY <2>1
  <2>3. QED
    BY <1>6, <2>2
<1>18. Queue(k) = {u \in T : WaitsOf(task'[u], b)} \cup (WaitersOf(task, b) \ (T \cup g))
  <2>1. {u \in T : WaitsOf(task'[u], b)} = {}
    BY <1>11
  <2>2. QED
    BY <1>1, <1>6, <1>12, <2>1
<1>19. \A u \in Tasks \ T : /\ u \in k.waiters <=> u \in block[b].waiters
                            /\ u \in k.told <=> u \in block[b].told
                            /\ u \in k.gates => u \in block[b].gates
                            /\ k.valid = "invalid" => block[b].valid = "invalid"
                            /\ u \in unseen[b] /\ k.copy = "none" => task[u].cut \/ block[b].copy = "none"
  <2> SUFFICES ASSUME NEW u \in Tasks \ T
               PROVE  /\ u \in k.waiters <=> u \in block[b].waiters
                      /\ u \in k.told <=> u \in block[b].told
                      /\ u \in k.gates => u \in block[b].gates
                      /\ k.valid = "invalid" => block[b].valid = "invalid"
                      /\ u \in unseen[b] /\ k.copy = "none" => task[u].cut \/ block[b].copy = "none"
    OBVIOUS
  <2>1. ASSUME u \in unseen[b], ~task[u].cut PROVE k.copy = y.copy
    <3>1. u \in h /\ Writes(LockMode(u, b))
      BY <2>1, UnseenHolds
    <3>2. QED
      BY <1>6, <3>1 DEF WrittenBy, SameCopy
  <2>2. QED
    BY <1>6, <2>1 DEF SameWaits, SameValid
<1>20. \A u \in g : WaitsOf(task[u], b) /\ k.valid # "invalid"
  BY <1>6, <1>8 DEF SameValid
<1>21. T \in SUBSET Tasks /\ g \in SUBSET Tasks /\ g \cap T = {} /\ \A u \in T : u = t
  BY <1>12
<1>22. unseen' \in [Blocks -> SUBSET Tasks] /\ \A c \in Blocks : unseen'[c] \subseteq unseen[c] \cup T
  OBVIOUS
<1> HIDE DEF T, g, x, y, h
<1>23. \A u \in T : /\ TaskOK(u, task'[u]) /\ PendingOK(block', u, task'[u]) /\ ReadOK(block', task'[u])
                    /\ \A c \in Blocks : /\ GatesOK(block'[c], u, task'[u], c)
                                         /\ u \in unseen'[c] => UnseenOK(block'[c], u, task'[u], c)
                    /\ \A c \in Blocks \ {b} : /\ HoldsOf(task'[u], c) <=> HoldsOf(task[u], c)
                                               /\ WaitsOf(task'[u], c) <=> WaitsOf(task[u], c)
  BY <1>11, <1>14, <1>15, <1>16, <1>21
<1>24. block' = [block EXCEPT ![b] = k] /\ k \in BlockType /\ Listed(k)
  BY <1>6, <1>7
<1> HIDE DEF k
<1>25. QED
  BY <1>9, <1>11, <1>17, <1>18, <1>19, <1>20, <1>21, <1>22, <1>23, <1>24, BlockStep

(***************************************************************************)
(* A block that a task has released is not given away any more.            *)
(***************************************************************************)
LEMMA NoLaterUse ==
  ASSUME NEW s \in Seq(Calls), s # <<>>, NEW gs, Grouping(s, FALSE, gs), Head(s).op = "release",
         NEW b \in Blocks, Head(s).db = b
  PROVE  /\ Grouping(Tail(s), FALSE, gs) /\ gs[b] = NoGroup
         /\ \A i \in DOMAIN Tail(s) : Tail(s)[i].op = "value" => Tail(s)[i].db # b
<1> DEFINE r == Tail(s)
<1>1. /\ Head(s) = s[1] /\ 1 \in DOMAIN s /\ DOMAIN s = 1..Len(s) /\ Len(s) \in Nat
      /\ \A i \in DOMAIN r : r[i] = s[i + 1] /\ i + 1 \in DOMAIN s /\ i \in Nat /\ i + 1 # 1
  BY TailFacts
<1>2. Grouping(r, FALSE, gs)
  <2>1. Head(s).op \notin {"begin", "end", "ending"}
    OBVIOUS
  <2>2. FALSE \in BOOLEAN
    OBVIOUS
  <2>3. QED
    BY <2>1, <2>2, PlainCalls
<1>3. gs[b] = NoGroup
  <2>1. CASE NotEnding(s)
    BY <2>1 DEF Grouping
  <2>2. CASE ~NotEnding(s)
    <3>1. PICK i \in DOMAIN s : s[i].op = "ending"
      BY <2>2 DEF NotEnding
    <3>2. \A j \in 1..(i - 1) : \A c \in Blocks : s[j].db = c => gs[c] = NoGroup
      BY <3>1 DEF Grouping
    <3>3. 1 \in 1..(i - 1)
      <4>1. i # 1 /\ i \in 1..Len(s)
        BY <1>1, <3>1
      <4>2. QED
        BY <1>1, <4>1
    <3>4. QED
      BY <1>1, <3>2, <3>3
  <2>3. QED
    BY <2>1, <2>2
<1>4. ASSUME NEW i \in DOMAIN r, r[i].op = "value", r[i].db = b PROVE FALSE
  <2>1. i + 1 \in DOMAIN s /\ 1 < i + 1
    BY <1>1
  <2>2. Drops(s[1], b) /\ Gives(s[i + 1], b)
    BY <1>1, <1>4 DEF Drops, Gives
  <2>3. Inside(s, FALSE, 1)
    <3>1. DroppedLast(s, FALSE)
      BY DEF Grouping
    <3>2. QED
      BY <1>1, <2>1, <2>2, <3>1 DEF DroppedLast
  <2>4. 1..(1 - 1) = {}
    OBVIOUS
  <2>5. QED
    BY <2>3, <2>4 DEF Inside
<1>5. QED
  BY <1>2, <1>3, <1>4

Leaving(x, b) == [x EXCEPT !.acquired = @ - 1, !.ordered[Index(x, b)] = Null, !.gate = "none", !.todo = Tail(@)]

LEMMA LeavingFacts ==
  ASSUME IInv, NEW t \in Tasks, CallIs(t, "release"), ~task[t].grouped, Owns(task[t], Db(t))
  PROVE  LET x == task[t]
             b == Db(t)
             o == Leaving(x, b)
         IN
         /\ b \in Blocks /\ x.state = "running" /\ x.acquired > 1 /\ HoldsOf(x, b)
         /\ o \in TaskType /\ TaskOK(t, o) /\ o.state = "running"
         /\ ~o.reading /\ o.blank \subseteq o.torn /\ o.cut = x.cut
         /\ ~HoldsOf(o, b) /\ ~WaitsOf(o, b)
         /\ \A c \in Blocks \ {b} : (HoldsOf(o, c) <=> HoldsOf(x, c)) /\ (WaitsOf(o, c) <=> WaitsOf(x, c))
<1> DEFINE x  == task[t]
           b  == Db(t)
           j  == Index(x, b)
           s  == x.todo
           a  == x.acquired - 1
           q  == [x.ordered EXCEPT ![j] = Null]
           o1 == [x EXCEPT !.acquired = a]
           o2 == [o1 EXCEPT !.ordered = q]
           o3 == [o2 EXCEPT !.gate = "none"]
           o  == [o3 EXCEPT !.todo = Tail(s)]
<1>1. x.state = "running" /\ s # <<>> /\ Head(s).op = "release" /\ Head(s).db = b
  BY DEF CallIs, Db
<1>2. /\ x \in TaskType /\ OrderOK(t, x) /\ ProgressOK(x) /\ CallsOK(x) /\ ReadOK(block, x)
  BY TaskFacts DEF TaskOK
<1>3. /\ s \in Seq(Calls) /\ Tail(s) \in Seq(Calls) /\ b \in Blocks
      /\ Grouping(s, FALSE, x.groups)
      /\ \A i \in DOMAIN Tail(s) : /\ Tail(s)[i].op \in {"value", "release", "destroy"} => Tail(s)[i].db \in Blocks
                                   /\ Tail(s)[i].op = "value" => Owns(x, Tail(s)[i].db)
      /\ \A c \in Blocks : x.groups[c].values > 0 => Owns(x, c)
  <2>1. x.grouped \in BOOLEAN /\ Grouping(s, x.grouped, x.groups)
    BY <1>1, RunningFacts
  <2>2. x.grouped = FALSE
    BY <2>1
  <2>3. QED
    BY <1>1, <2>1, <2>2, RunningFacts
<1>4. /\ Grouping(Tail(s), FALSE, x.groups) /\ x.groups[b] = NoGroup
      /\ \A i \in DOMAIN Tail(s) : Tail(s)[i].op = "value" => Tail(s)[i].db # b
  <2> HIDE DEF s, b
  <2>1. QED
    BY <1>1, <1>3, NoLaterUse, ZenonT(60)
<1>5. /\ j \in Kept(x) /\ x.ordered[j] = b
      /\ \A i \in DOMAIN x.ordered : x.ordered[i] = b => i = j
  BY <1>2, <1>3, OwnsFacts
<1>6. /\ Len(x.ordered) \in Nat /\ DOMAIN x.ordered = 1..Len(x.ordered) /\ DOMAIN x.modes = DOMAIN x.ordered
      /\ Kept(x) \subseteq DOMAIN x.ordered
  BY <1>2, OrderFacts
<1> HIDE DEF j
<1>7. /\ q \in Seq(Blocks \cup {Null}) /\ DOMAIN q = DOMAIN x.ordered
      /\ \A i \in DOMAIN x.ordered : q[i] = IF i = j THEN Null ELSE x.ordered[i]
  <2>1. x.ordered \in Seq(Blocks \cup {Null}) /\ j \in DOMAIN x.ordered
    BY <1>2, <1>5, <1>6 DEF TaskType
  <2> DEFINE z == x.ordered
  <2>2. z \in Seq(Blocks \cup {Null}) /\ DOMAIN z = 1..Len(z) /\ Len(z) \in Nat /\ j \in DOMAIN z
    BY <1>6, <2>1
  <2>3. q = [z EXCEPT ![j] = Null]
    OBVIOUS
  <2> HIDE DEF z, q
  <2>4. q \in Seq(Blocks \cup {Null}) /\ DOMAIN q = DOMAIN z
    BY <2>2, <2>3
  <2>5. \A i \in DOMAIN z : q[i] = IF i = j THEN Null ELSE z[i]
    BY <2>2, <2>3
  <2>6. QED
    BY <2>4, <2>5 DEF z
<1> HIDE DEF q
<1>8. a \in Int
  BY <1>2 DEF TaskType
<1>9. o1 \in TaskType
  BY <1>2, <1>8 DEF TaskType
<1>10. o = Leaving(x, b)
  BY <1>2 DEF Leaving, TaskType, j, q
<1> HIDE DEF o1
<1>11. o2 \in TaskType
  BY <1>7, <1>9 DEF TaskType
<1> HIDE DEF o2
<1>12. o3 \in TaskType
  BY <1>11 DEF TaskType
<1> HIDE DEF o3
<1>13. o \in TaskType
  BY <1>3, <1>12 DEF TaskType
<1>14. /\ o.state = x.state /\ o.ordered = q /\ o.trying = x.trying /\ o.modes = x.modes
       /\ o.acquired = a /\ o.reading = x.reading /\ o.rest = x.rest /\ o.blank = x.blank
       /\ o.torn = x.torn /\ o.todo = Tail(s) /\ o.gate = "none" /\ o.cut = x.cut /\ o.grouped = x.grouped
       /\ o.groups = x.groups
  BY <1>2, <1>9, <1>11, <1>12 DEF o1, o2, o3, TaskType
<1> HIDE DEF o
<1>15. Kept(o) = Kept(x) \ {j}
  BY <1>7, <1>14 DEF Kept
<1>16. \A c \in Blocks : Owns(o, c) <=> Owns(x, c) /\ c # b
  <2> TAKE c \in Blocks
  <2>1. c # Null
    BY TaskBlocksAssumption
  <2>2. Owns(o, c) <=> \E i \in DOMAIN x.ordered : i # j /\ x.ordered[i] = c
    BY <1>7, <1>14, <2>1 DEF Owns
  <2>3. QED
    BY <1>5, <2>2 DEF Owns
<1>17. a = Cardinality(Kept(o)) + 1 /\ x.acquired > 1
  <2>1. IsFiniteSet(Kept(x)) /\ Cardinality(Kept(x)) \in Nat
    BY <1>2, KeptFinite
  <2>2. Cardinality(Kept(x) \ {j}) = Cardinality(Kept(x)) - 1
    BY <1>5, <2>1, FS_RemoveElement
  <2>3. IsFiniteSet(Kept(x) \ {j}) /\ Cardinality(Kept(x) \ {j}) \in Nat
    BY <2>1, FS_Subset, FS_CardinalityType
  <2>4. x.acquired = Cardinality(Kept(x)) + 1
    BY <1>1, <1>2 DEF ProgressOK
  <2>5. QED
    BY <1>15, <2>1, <2>2, <2>3, <2>4
<1>18. OrderOK(t, o)
  <2>1. x.state # "created" /\ o.state \notin Asking /\ o.state # "created"
    BY <1>1, <1>14 DEF Asking
  <2>2. QED
    BY <1>2, <1>7, <1>14, <2>1 DEF OrderOK
<1>19. ProgressOK(o)
  BY <1>1, <1>2, <1>14, <1>17 DEF ProgressOK
<1>20. CallsOK(o)
  <2>1. Grouping(o.todo, o.grouped, o.groups)
    <3>1. o.grouped = FALSE
      BY <1>13, <1>14 DEF TaskType
    <3>2. QED
      BY <1>4, <1>14, <3>1
  <2>2. \A i \in DOMAIN o.todo : o.todo[i].op \in {"value", "release", "destroy"} => o.todo[i].db \in Blocks
    BY <1>3, <1>14
  <2>3. \A i \in DOMAIN o.todo : o.todo[i].op = "value" => Owns(o, o.todo[i].db)
    BY <1>3, <1>4, <1>14, <1>16
  <2>4. \A c \in Blocks : o.groups[c].values > 0 => Owns(o, c)
    <3>1. x.groups[b].values = 0
      BY <1>4 DEF NoGroup
    <3>2. QED
      BY <1>3, <1>14, <1>16, <3>1
  <2>5. QED
    BY <1>1, <1>14, <2>1, <2>2, <2>3, <2>4 DEF CallsOK
<1>21. \A c \in Blocks : /\ HoldsOf(x, c) <=> Owns(x, c)
                         /\ HoldsOf(o, c) <=> Owns(o, c)
                         /\ ~WaitsOf(x, c) /\ ~WaitsOf(o, c)
  <2>1. \A c \in Blocks : (HoldsOf(x, c) <=> Owns(x, c)) /\ (HoldsOf(o, c) <=> Owns(o, c))
    BY <1>1, <1>14 DEF HoldsOf
  <2>2. \A c \in Blocks : ~WaitsOf(x, c) /\ ~WaitsOf(o, c)
    BY <1>1, <1>14 DEF WaitsOf
  <2>3. QED
    BY <2>1, <2>2
<1>22. ~o.reading /\ o.blank \subseteq o.torn
  BY <1>1, <1>2, <1>14 DEF ProgressOK, ReadOK
<1>23. TaskOK(t, o)
  BY <1>18, <1>19, <1>20 DEF TaskOK
<1> HIDE DEF x, b
<1>24. \A c \in Blocks \ {b} : (HoldsOf(o, c) <=> HoldsOf(x, c)) /\ (WaitsOf(o, c) <=> WaitsOf(x, c))
  BY <1>16, <1>21
<1>25. ~HoldsOf(o, b) /\ ~WaitsOf(o, b) /\ HoldsOf(x, b)
  BY <1>3, <1>16, <1>21 DEF x, b
<1>26. /\ b \in Blocks /\ x.state = "running" /\ x.acquired > 1
       /\ o \in TaskType /\ o.state = "running" /\ o.cut = x.cut
  BY <1>1, <1>3, <1>13, <1>14, <1>17
<1>27. QED
  BY <1>10, <1>22, <1>23, <1>24, <1>25, <1>26 DEF x, b

LEMMA LeaveStep ==
  ASSUME IInv, NEW t \in Tasks, CallIs(t, "release"), ~task[t].grouped, Owns(task[t], Db(t)), Leave(t, Db(t)),
         \A c \in Blocks : t \in unseen'[c] \/ t \in block[c].gates => task[t].cut,
         unseen' \in [Blocks -> SUBSET Tasks],
         \A c \in Blocks : unseen'[c] \subseteq unseen[c] \cup {t}
  PROVE  IInv'
<1> DEFINE x == task[t]
           b == Db(t)
           o == Leaving(x, b)
<1>1. /\ b \in Blocks /\ x.state = "running" /\ x.acquired > 1 /\ HoldsOf(x, b)
      /\ o \in TaskType /\ TaskOK(t, o) /\ o.state = "running"
      /\ ~o.reading /\ o.blank \subseteq o.torn /\ o.cut = x.cut
      /\ ~HoldsOf(o, b) /\ ~WaitsOf(o, b)
      /\ \A c \in Blocks \ {b} : (HoldsOf(o, c) <=> HoldsOf(x, c)) /\ (WaitsOf(o, c) <=> WaitsOf(x, c))
  BY LeavingFacts
<1>2. UnlockBlock(t, b, o, {})
  <2>1. Failed(x.acquired > 1, "release_db_early") = {}
    BY <1>1 DEF Failed
  <2>2. UnlockBlock(t, b, o, Failed(x.acquired > 1, "release_db_early"))
    BY DEF Leave, Leaving
  <2>3. QED
    BY <2>1, <2>2
<1>3. \A c \in Blocks : t \in unseen'[c] \/ t \in block[c].gates => o.cut
  BY <1>1
<1>4. x.state # "done" /\ o.state # "done"
  BY <1>1
<1> HIDE DEF o, b
<1>5. QED
  BY <1>1, <1>2, <1>3, <1>4, UnlockBlockStep

LEMMA PassGateStep ==
  ASSUME IInv, NEW t \in Tasks, PassGate(t)
  PROVE  IInv'
<1>1. /\ CallIs(t, "release") /\ task[t].gate = "open" /\ Leave(t, Db(t)) /\ unseen' = unseen
  BY DEF PassGate
<1>2. CallsOK(task[t]) /\ unseen \in [Blocks -> SUBSET Tasks]
  BY TaskFacts DEF TaskOK
<1>3. ~task[t].grouped /\ Owns(task[t], Db(t))
  BY <1>1, <1>2 DEF CallsOK, Db
<1>4. \A c \in Blocks : t \in unseen[c] \/ t \in block[c].gates => task[t].cut
  BY <1>1, NoRelease DEF CallIs
<1>5. \A c \in Blocks : t \in unseen'[c] \/ t \in block[c].gates => task[t].cut
  BY <1>1, <1>4
<1>6. unseen' \in [Blocks -> SUBSET Tasks] /\ \A c \in Blocks : unseen'[c] \subseteq unseen[c] \cup {t}
  BY <1>1, <1>2
<1>7. CallIs(t, "release") /\ Leave(t, Db(t))
  BY <1>1
<1>8. QED
  BY <1>3, <1>5, <1>6, <1>7, LeaveStep

ReleaseNow(t) ==      \* the last disjunct of Release
  LET b == Db(t) IN
  /\ CallIs(t, "release") /\ task[t].gate = "none"
  /\ ~task[t].grouped /\ Owns(task[t], b) /\ ~(Writes(Mode(task[t], b)) /\ MustRecall(block[b]))
  /\ Leave(t, b) /\ unseen' = Seen(t, {b})

LEMMA ReleaseNowStep ==
  ASSUME IInv, NEW t \in Tasks, ReleaseNow(t)
  PROVE  IInv'
<1> DEFINE b == Db(t)
<1>1. /\ CallIs(t, "release") /\ task[t].gate = "none" /\ ~task[t].grouped /\ Owns(task[t], b)
      /\ ~(Writes(Mode(task[t], b)) /\ MustRecall(block[b])) /\ Leave(t, b) /\ unseen' = Seen(t, {b})
  BY DEF ReleaseNow
<1>2. b \in Blocks /\ unseen \in [Blocks -> SUBSET Tasks]
  BY <1>1, LeavingFacts, TaskFacts
<1>3. Listed(block[b])
  BY <1>2, BlockFacts
<1>4. \A c \in Blocks : unseen'[c] = unseen[c]
  <2>1. ASSUME Writes(Mode(task[t], b)), block[b].copy # "none" PROVE FALSE
    BY <1>1, <1>3, <2>1 DEF Listed, MustRecall
  <2>2. QED
    BY <1>1, <2>1 DEF Seen
<1>5. unseen' \in [Blocks -> SUBSET Tasks] /\ \A c \in Blocks : unseen'[c] \subseteq unseen[c] \cup {t}
  <2>1. unseen' = [c \in Blocks |-> unseen'[c]]
    BY <1>1 DEF Seen
  <2>2. \A c \in Blocks : unseen'[c] \in SUBSET Tasks
    BY <1>2, <1>4
  <2>3. QED
    BY <1>4, <2>1, <2>2
<1>6. \A c \in Blocks : t \in unseen[c] \/ t \in block[c].gates => task[t].cut
  BY <1>1, NoRelease DEF CallIs
<1>7. \A c \in Blocks : t \in unseen'[c] \/ t \in block[c].gates => task[t].cut
  BY <1>4, <1>6
<1>8. CallIs(t, "release") /\ Leave(t, Db(t)) /\ ~task[t].grouped /\ Owns(task[t], Db(t))
  BY <1>1
<1>9. QED
  BY <1>5, <1>7, <1>8, LeaveStep

LEMMA ReleaseNextStep ==
  ASSUME IInv, NEW t \in Tasks, ReleaseNext(t)
  PROVE  IInv'
<1>1. task[t].state = "releasing" /\ unseen' = unseen
  BY DEF ReleaseNext
<1>2. PICK i \in First(task[t].rest) :
         UnlockBlock(t, task[t].ordered[i],
                   [task[t] EXCEPT !.rest = @ \ {i}, !.state = IF task[t].rest = {i} THEN "ended" ELSE @], {})
  BY DEF ReleaseNext
<1> DEFINE x  == task[t]
           b  == x.ordered[i]
           r  == x.rest \ {i}
           e  == IF x.rest = {i} THEN "ended" ELSE "releasing"
           o1 == [x EXCEPT !.rest = r]
           o  == [o1 EXCEPT !.state = e]
<1>3. /\ x \in TaskType /\ OrderOK(t, x) /\ ProgressOK(x) /\ CallsOK(x) /\ ReadOK(block, x)
      /\ unseen \in [Blocks -> SUBSET Tasks]
  BY TaskFacts DEF TaskOK
<1>4. x.rest \subseteq Kept(x) /\ x.rest \in SUBSET Nat
  BY <1>1, <1>3 DEF ProgressOK, TaskType
<1>5. i \in x.rest /\ i \in Kept(x)
  BY <1>4, FirstFacts
<1>6. b \in Blocks /\ \A j \in Kept(x) : x.ordered[j] = b => j = i
  BY <1>3, <1>5, OrderFacts
<1>7. r \in SUBSET Nat /\ r \subseteq x.rest /\ i \notin r
  BY <1>4
<1>8. e \in {"releasing", "ended"} /\ e \in States /\ (e = "ended" => r = {})
  BY DEF States
<1>9. [x EXCEPT !.rest = @ \ {i}, !.state = IF x.rest = {i} THEN "ended" ELSE @] = o
  BY <1>1, <1>3 DEF TaskType
<1>10. UnlockBlock(t, b, o, {})
  BY <1>2, <1>9
<1> HIDE DEF e
<1>11. o1 \in TaskType
  BY <1>3, <1>7 DEF TaskType
<1> HIDE DEF o1
<1>12. o \in TaskType
  BY <1>8, <1>11 DEF TaskType
<1>13. /\ o.state = e /\ o.ordered = x.ordered /\ o.trying = x.trying /\ o.modes = x.modes
       /\ o.acquired = x.acquired /\ o.reading = x.reading /\ o.rest = r /\ o.blank = x.blank
       /\ o.torn = x.torn /\ o.todo = x.todo /\ o.gate = x.gate /\ o.cut = x.cut /\ o.grouped = x.grouped
       /\ o.groups = x.groups
  BY <1>3, <1>11 DEF o1, TaskType
<1> HIDE DEF o
<1>14. Kept(o) = Kept(x) /\ \A c : Owns(o, c) <=> Owns(x, c)
  BY <1>13 DEF Kept, Owns
<1>15. TaskOK(t, o)
  <2>1. OrderOK(t, o)
    BY <1>1, <1>3, <1>8, <1>13, <1>14 DEF OrderOK, Asking
  <2>2. ProgressOK(o)
    BY <1>1, <1>3, <1>4, <1>7, <1>8, <1>13, <1>14 DEF ProgressOK
  <2>3. CallsOK(o)
    BY <1>1, <1>3, <1>8, <1>13, <1>14 DEF CallsOK
  <2>4. QED
    BY <2>1, <2>2, <2>3 DEF TaskOK
<1>16. \A c \in Blocks : HoldsOf(o, c) <=> \E m \in r : x.ordered[m] = c
  <2> TAKE c \in Blocks
  <2>1. CASE e = "releasing"
    BY <1>13, <2>1 DEF HoldsOf
  <2>2. CASE e = "ended"
    <3>1. ~HoldsOf(o, c)
      BY <1>13, <2>2 DEF HoldsOf
    <3>2. QED
      BY <1>8, <2>2, <3>1
  <2>3. QED
    BY <1>8, <2>1, <2>2
<1>17. \A c \in Blocks : HoldsOf(x, c) <=> \E m \in x.rest : x.ordered[m] = c
  BY <1>1 DEF HoldsOf
<1>18. HoldsOf(x, b) /\ ~HoldsOf(o, b)
  BY <1>4, <1>5, <1>6, <1>7, <1>16, <1>17
<1>19. \A c \in Blocks \ {b} : HoldsOf(o, c) <=> HoldsOf(x, c)
  BY <1>16, <1>17
<1>20. \A c \in Blocks : ~WaitsOf(o, c) /\ ~WaitsOf(x, c)
  BY <1>1, <1>8, <1>13 DEF WaitsOf
<1>21. ~o.reading /\ o.blank \subseteq o.torn
  BY <1>1, <1>3, <1>13 DEF ProgressOK, ReadOK
<1>22. \A c \in Blocks : t \in unseen[c] \/ t \in block[c].gates => x.cut
  BY <1>1, NoRelease
<1>23. \A c \in Blocks : t \in unseen'[c] \/ t \in block[c].gates => o.cut
  BY <1>1, <1>13, <1>22
<1>24. unseen' \in [Blocks -> SUBSET Tasks] /\ \A c \in Blocks : unseen'[c] \subseteq unseen[c] \cup {t}
  BY <1>1, <1>3
<1>25. x.state # "done" /\ o.state # "done"
  BY <1>1, <1>8, <1>13
<1> HIDE DEF b
<1>26. \A c \in Blocks \ {b} : (HoldsOf(o, c) <=> HoldsOf(task[t], c)) /\ (WaitsOf(o, c) <=> WaitsOf(task[t], c))
  BY <1>19, <1>20
<1>27. ~HoldsOf(o, b) /\ ~WaitsOf(o, b) /\ b \in Blocks /\ HoldsOf(task[t], b)
  BY <1>6, <1>18, <1>20
<1>28. task[t].state # "done" /\ o.state # "done"
  BY <1>25
<1> HIDE DEF x
<1>29. QED
  BY <1>10, <1>12, <1>15, <1>21, <1>23, <1>24, <1>26, <1>27, <1>28, UnlockBlockStep

LEMMA ReleaseStep ==
  ASSUME IInv, NEW t \in Tasks, Release(t)
  PROVE  IInv'
<1> DEFINE o == task[t]
           b == Db(t)
<1>1. CallIs(t, "release") /\ o.gate = "none"
  BY DEF Release
<1>2. CASE o.grouped
  <2>1. ReleaseLater(t)
    BY <1>1, <1>2 DEF Release, ReleaseLater
  <2>2. QED
    BY <2>1, ReleaseLaterStep
<1>3. CASE ~o.grouped /\ ~Owns(o, b)
  <2>1. task' = [task EXCEPT ![t] = Advanced(@)] /\ block' = block /\ faults' = faults /\ unseen' = unseen
    BY <1>3 DEF Release
  <2>2. QED
    BY <1>1, <2>1, ReleaseNothing
<1>4. CASE ~o.grouped /\ Owns(o, b) /\ Writes(Mode(o, b)) /\ MustRecall(block[b])
  <2>1. ReleaseWaits(t)
    BY <1>1, <1>4 DEF Release, ReleaseWaits
  <2>2. QED
    BY <2>1, ReleaseWaitsStep
<1>5. CASE ~o.grouped /\ Owns(o, b) /\ ~(Writes(Mode(o, b)) /\ MustRecall(block[b]))
  <2>1. ReleaseNow(t)
    BY <1>1, <1>5 DEF Release, ReleaseNow
  <2>2. QED
    BY <2>1, ReleaseNowStep
<1>6. QED
  BY <1>2, <1>3, <1>4, <1>5

-----------------------------------------------------------------------------
(***************************************************************************)
(* The inductive invariant holds.                                          *)
(***************************************************************************)
LEMMA NewTaskFacts ==
  ASSUME NEW t \in Tasks
  PROVE  /\ NewTask \in TaskType /\ TaskOK(t, NewTask)
         /\ \A c : ~HoldsOf(NewTask, c) /\ ~WaitsOf(NewTask, c)
<1>1. NewTask \in TaskType
  <2>1. [b \in Blocks |-> NoGroup] \in [Blocks -> Groups]
    BY DEF Groups, NoGroup
  <2> DEFINE gs == [b \in Blocks |-> NoGroup]
  <2> HIDE DEF gs
  <2>2. <<>> \in Seq(Blocks \cup {Null}) /\ <<>> \in Seq(Modes) /\ <<>> \in Seq(Calls)
    OBVIOUS
  <2>3. 0 \in Int
    OBVIOUS
  <2>4. QED
    BY <2>1, <2>2, <2>3 DEF NewTask, TaskType, States, gs
<1>2. OrderOK(t, NewTask)
  BY DEF OrderOK, NewTask
<1>3. ProgressOK(NewTask)
  BY DEF ProgressOK, NewTask
<1>4. CallsOK(NewTask)
  <2> DEFINE s  == NewTask.todo
             gs == NewTask.groups
  <2>1. s = <<>> /\ DOMAIN s = {}
    BY DEF NewTask
  <2>2. /\ NewTask.grouped = FALSE /\ NewTask.gate = "none" /\ NewTask.state = "created"
        /\ \A b \in Blocks : gs[b] = NoGroup
    BY DEF NewTask
  <2>3. NoGroup.ends = "none" /\ NoGroup.values = 0
    BY DEF NoGroup
  <2> HIDE DEF s, gs
  <2>4. Bracketed(s, FALSE) /\ DroppedLast(s, FALSE)
    BY <2>1 DEF Bracketed, DroppedLast
  <2>5. Grouping(s, FALSE, gs)
    BY <2>1, <2>2, <2>3, <2>4 DEF Grouping
  <2>6. Grouping(s, NewTask.grouped, gs)
    BY <2>2, <2>5
  <2>7. QED
    BY <2>1, <2>2, <2>3, <2>6 DEF CallsOK, s, gs
<1>5. \A c : ~HoldsOf(NewTask, c) /\ ~WaitsOf(NewTask, c)
  BY DEF HoldsOf, WaitsOf, NewTask
<1>6. QED
  BY <1>1, <1>2, <1>3, <1>4, <1>5 DEF TaskOK

LEMMA NewBlockFacts ==
  ASSUME NEW b \in Blocks
  PROVE  LET k == NewBlock(b) IN
         /\ k \in BlockType /\ LocksOK(k, {}, b) /\ Queue(k) = {} /\ Listed(k)
         /\ k.waiters = {} /\ k.told = {} /\ k.gates = {}
<1> DEFINE k == NewBlock(b)
<1>1. k \in BlockType
  <2>1. <<>> \in Seq(Entries) /\ 0 \in Int
    OBVIOUS
  <2>2. QED
    BY <2>1 DEF NewBlock, BlockType
<1>2. /\ k.read = 0 /\ k.write = 0 /\ k.excl = 0 /\ k.exwrite = FALSE /\ k.waitlist = <<>>
      /\ k.waiters = {} /\ k.told = {} /\ k.gates = {}
  BY DEF NewBlock
<1>3. Listed(k)
  BY TaskBlocksAssumption DEF Listed, NewBlock
<1> HIDE DEF k
<1>4. DOMAIN k.waitlist = {}
  BY <1>2
<1>5. QueueOK(k, b) /\ Queue(k) = {}
  BY <1>4 DEF QueueOK, Queue
<1>6. \A S : In({}, b, S) = {}
  BY DEF In
<1>7. Counts(k, {}, b)
  BY <1>2, <1>6, FS_EmptySet DEF Counts
<1>8. Compatible(k)
  BY <1>2 DEF Compatible
<1>9. QED
  BY <1>1, <1>2, <1>3, <1>5, <1>7, <1>8 DEF LocksOK, k

LEMMA InitInvariant == Init => IInv
<1> SUFFICES ASSUME Init PROVE IInv
  OBVIOUS
<1>1. /\ task = [t \in Tasks |-> NewTask] /\ block = [b \in Blocks |-> NewBlock(b)]
      /\ unseen = [b \in Blocks |-> {}] /\ faults = {}
  BY DEF Init
<1>2. TypeOK
  BY <1>1, NewTaskFacts, NewBlockFacts DEF TypeOK
<1>3. ASSUME NEW t \in Tasks
      PROVE  TaskOK(t, task[t]) /\ PendingOK(block, t, task[t]) /\ ReadOK(block, task[t])
  <2>1. task[t] = NewTask
    BY <1>1
  <2>2. TaskOK(t, NewTask)
    BY NewTaskFacts
  <2>3. Unconfirmed(block, t) = {}
    BY <1>1, NewBlockFacts DEF Unconfirmed
  <2>4. NewTask.state # "done" /\ ~NewTask.reading /\ NewTask.blank = {}
    BY DEF NewTask
  <2>5. PendingOK(block, t, NewTask) /\ ReadOK(block, NewTask)
    BY <2>3, <2>4 DEF PendingOK, ReadOK
  <2>6. QED
    BY <2>1, <2>2, <2>5
<1>4. ASSUME NEW b \in Blocks
      PROVE  BlockOK(block[b], task, b) /\ CopyOK(block[b], unseen[b], task, b)
  <2>1. block[b] = NewBlock(b) /\ unseen[b] = {}
    BY <1>1
  <2>2. HoldersOf(task, b) = {} /\ WaitersOf(task, b) = {}
    <3>1. \A t \in Tasks : ~HoldsOf(task[t], b) /\ ~WaitsOf(task[t], b)
      BY <1>1, NewTaskFacts
    <3>2. QED
      BY <3>1 DEF HoldersOf, WaitersOf
  <2>3. BlockOK(block[b], task, b)
    BY <2>1, <2>2, NewBlockFacts DEF BlockOK, Listed
  <2>4. block[b].gates = {}
    BY <2>1, NewBlockFacts
  <2>5. CopyOK(block[b], unseen[b], task, b)
    BY <2>1, <2>4 DEF CopyOK, GatesOK
  <2>6. QED
    BY <2>3, <2>5
<1>5. QED
  BY <1>1, <1>2, <1>3, <1>4 DEF IInv

LEMMA NextInvariant == IInv /\ [Next]_vars => IInv'
<1> SUFFICES ASSUME IInv, [Next]_vars PROVE IInv'
  OBVIOUS
<1>1. ASSUME NEW t \in Tasks, TaskStep(t) PROVE IInv'
  <2>1. CASE Satisfied(t)
    BY <2>1, SatisfiedStep
  <2>2. CASE TryNext(t)
    BY <2>2, TryNextStep
  <2>3. CASE ReadHandle(t)
    BY <2>3, ReadHandleStep
  <2>4. CASE Spawn(t)
    BY <2>4, SpawnStep
  <2>5. CASE Start(t)
    BY <2>5, StartStep
  <2>6. CASE GroupBegin(t)
    BY <2>6, GroupBeginStep
  <2>7. CASE GroupEnd(t)
    BY <2>7, GroupEndStep
  <2>8. CASE EndGroup(t)
    BY <2>8, EndGroupStep
  <2>9. CASE ByValue(t)
    BY <2>9, ByValueStep
  <2>10. CASE Destroy(t)
    BY <2>10, DestroyStep
  <2>11. CASE Release(t)
    BY <2>11, ReleaseStep
  <2>12. CASE PassGate(t)
    BY <2>12, PassGateStep
  <2>13. CASE CutGate(t)
    BY <2>13, CutGateStep
  <2>14. CASE EndTask(t)
    BY <2>14, EndTaskStep
  <2>15. CASE UpdateData(t)
    BY <2>15, UpdateDataStep
  <2>16. CASE ReleaseNext(t)
    BY <2>16, ReleaseNextStep
  <2>17. QED
    BY <1>1, <2>1, <2>2, <2>3, <2>4, <2>5, <2>6, <2>7, <2>8, <2>9, <2>10, <2>11, <2>12, <2>13, <2>14, <2>15,
       <2>16 DEF TaskStep
<1>2. ASSUME Answers PROVE IInv'
  <2>1. ASSUME NEW b \in Blocks, NEW s \in {"copy", "master"}, Elevated(b, s) PROVE IInv'
    BY <2>1, ElevatedStep
  <2>2. ASSUME NEW b \in Blocks, CopyReceived(b) PROVE IInv'
    BY <2>2, CopyReceivedStep
  <2>3. ASSUME NEW b \in Blocks, CopyInvalidated(b) PROVE IInv'
    BY <2>3, CopyInvalidatedStep
  <2>4. ASSUME NEW b \in Blocks, NEW t \in Tasks, Tell(t, b) PROVE IInv'
    BY <2>4, TellStep
  <2>5. CASE Resume
    BY <2>5, ResumeStep
  <2>6. QED
    BY <1>2, <2>1, <2>2, <2>3, <2>4, <2>5 DEF Answers
<1>3. ASSUME Requests PROVE IInv'
  <2>1. CASE Pause
    BY <2>1, SameStep DEF Pause
  <2>2. ASSUME NEW b \in Blocks, AskCopy(b) PROVE IInv'
    BY <2>2, AskCopyStep
  <2>3. ASSUME NEW b \in Blocks, AskMaster(b) PROVE IInv'
    BY <2>3, AskMasterStep
  <2>4. QED
    BY <1>3, <2>1, <2>2, <2>3 DEF Requests
<1>4. ASSUME UNCHANGED vars PROVE IInv'
  BY <1>4, SameStep DEF vars
<1>5. ASSUME Terminated PROVE IInv'
  BY <1>5, SameStep DEF Terminated, vars
<1>6. QED
  BY <1>1, <1>2, <1>3, <1>4, <1>5 DEF Next

(* At every step tasks and blocks have their types, and agree on the locks,*)
(* the waits and the copies: the invariant that the rest follows from.     *)
THEOREM TasksAndBlocksAgree == Spec => []IInv
<1>1. QED
  BY InitInvariant, NextInvariant, PTL DEF Spec

-----------------------------------------------------------------------------
(***************************************************************************)
(* What follows from it.                                                   *)
(***************************************************************************)

(* Two tasks that hold a lock on the same block.                           *)
LEMMA TwoHolders ==
  ASSUME NEW b, NEW k \in BlockType, NEW h \in SUBSET Tasks, LocksOK(k, h, b),
         NEW s, s \in h, NEW t, t \in h, s # t,
         LockMode(s, b) \in LockModes, LockMode(t, b) \in LockModes
  PROVE  /\ LockMode(s, b) # "EW"
         /\ LockMode(s, b) = "CONST" => LockMode(t, b) = "CONST"
<1>1. Counts(k, h, b) /\ Compatible(k)
  BY DEF LocksOK
<1>2. \A S : /\ In(h, b, S) \subseteq h /\ IsFiniteSet(In(h, b, S)) /\ Cardinality(In(h, b, S)) \in Nat
             /\ Cardinality(In(h, b, S)) = 0 <=> \A u \in h : LockMode(u, b) \notin S
  BY InFacts
<1>3. LockMode(t, b) = "RO" => k.read # 0
  BY <1>1, <1>2 DEF Counts
<1>4. LockMode(t, b) = "RW" => k.write # 0
  BY <1>1, <1>2 DEF Counts
<1>5. k.excl \in Nat /\ (LockMode(s, b) \in {"CONST", "EW"} => k.excl > 0)
  BY <1>1, <1>2 DEF Counts
<1>6. \A u \in h : LockMode(u, b) = "EW" => k.exwrite /\ k.excl = 1
  BY <1>1 DEF Counts, Compatible, In
<1>7. LockMode(s, b) \in {"CONST", "EW"} => LockMode(t, b) \in {"CONST", "EW"}
  BY <1>1, <1>3, <1>4, <1>5 DEF Compatible, LockModes
<1>8. ASSUME LockMode(s, b) \in {"CONST", "EW"} PROVE k.excl # 1
  <2> DEFINE I == In(h, b, {"CONST", "EW"})
  <2>1. s \in I /\ t \in I /\ IsFiniteSet(I) /\ k.excl = Cardinality(I)
    BY <1>1, <1>2, <1>7, <1>8 DEF In, Counts
  <2> HIDE DEF I
  <2>2. IsFiniteSet(I \ {s}) /\ Cardinality(I \ {s}) = Cardinality(I) - 1
    BY <2>1, FS_RemoveElement, FS_Subset
  <2>3. Cardinality(I \ {s}) # 0
    BY <2>1, <2>2, FS_EmptySet
  <2>4. Cardinality(I) \in Nat
    BY <2>1, FS_CardinalityType
  <2>5. QED
    BY <2>1, <2>2, <2>3, <2>4
<1>9. LockMode(s, b) # "EW"
  BY <1>6, <1>8
<1>10. LockMode(s, b) = "CONST" => LockMode(t, b) # "EW"
  BY <1>6, <1>8
<1>11. QED
  BY <1>7, <1>9, <1>10

LEMMA LocksInvariant == IInv => LocksAccounted
<1> SUFFICES ASSUME IInv, NEW b \in Blocks
             PROVE  /\ block[b].read  = Cardinality(Holders(b, {"RO"}))
                    /\ block[b].write = Cardinality(Holders(b, {"RW"}))
                    /\ block[b].excl  = Cardinality(Holders(b, {"CONST", "EW"}))
                    /\ block[b].exwrite <=> Holders(b, {"EW"}) # {}
  BY DEF LocksAccounted
<1>1. ASSUME NEW S PROVE Holders(b, S) = In(HoldersOf(task, b), b, S)
  <2>1. ASSUME NEW t \in Tasks, HoldsOf(task[t], b) PROVE Mode(task[t], b) = LockMode(t, b)
    <3>1. task[t] \in TaskType /\ OrderOK(t, task[t]) /\ ProgressOK(task[t])
      BY TaskFacts DEF TaskOK
    <3>2. Owns(task[t], b)
      BY <2>1, <3>1, HoldsFacts
    <3>3. QED
      BY <3>1, <3>2, OwnsFacts
  <2>2. QED
    BY <2>1 DEF Holders, Holds, In, HoldersOf
<1>2. Counts(block[b], HoldersOf(task, b), b)
  BY BlockFacts DEF LocksOK
<1>3. QED
  BY <1>1, <1>2 DEF Counts

LEMMA UsesInvariant == IInv => SlotsRespected
<1> SUFFICES ASSUME IInv, NEW b \in Blocks, NEW s \in Tasks, NEW t \in Tasks, s # t,
                    NEW m1 \in Uses(s, b), NEW m2 \in Uses(t, b), Exclude(m1, m2)
             PROVE  FALSE
  BY DEF SlotsRespected
<1>1. ASSUME NEW u \in Tasks, NEW m \in Uses(u, b)
      PROVE  /\ u \in HoldersOf(task, b) /\ LockMode(u, b) \in LockModes
             /\ m = "EW" => LockMode(u, b) = "EW"
             /\ m = "CONST" => LockMode(u, b) \in {"CONST", "EW"}
             /\ m = "RW" => LockMode(u, b) \in {"RW", "EW"}
  <2>1. task[u].state = "running" /\ Owns(task[u], b) /\ m \in SlotModes(u, b)
    BY <1>1 DEF Uses
  <2>2. u \in HoldersOf(task, b)
    BY <2>1 DEF HoldersOf, HoldsOf
  <2>3. LockMode(u, b) \in LockModes
    BY <2>2, BlockFacts
  <2>4. SlotModes(u, b) \in SUBSET Modes /\ LockMode(u, b) = Combined(SlotModes(u, b))
    BY SlotModesFacts DEF LockMode
  <2>5. \A M \in SUBSET Modes : m \in M =>
          /\ m = "EW" => Combined(M) = "EW"
          /\ m = "CONST" => Combined(M) \in {"CONST", "EW"}
          /\ m = "RW" => Combined(M) \in {"RW", "EW"}
    BY CombinedFacts
  <2>6. QED
    BY <2>1, <2>2, <2>3, <2>4, <2>5
<1>2. block[b] \in BlockType /\ HoldersOf(task, b) \in SUBSET Tasks /\ LocksOK(block[b], HoldersOf(task, b), b)
  BY BlockFacts
<1>3. ASSUME NEW u \in Tasks, NEW v \in Tasks, u # v, u \in HoldersOf(task, b), v \in HoldersOf(task, b),
             LockMode(u, b) \in LockModes, LockMode(v, b) \in LockModes
      PROVE  /\ LockMode(u, b) # "EW"
             /\ LockMode(u, b) = "CONST" => LockMode(v, b) = "CONST"
  <2> DEFINE h == HoldersOf(task, b)
             k == block[b]
  <2>1. k \in BlockType /\ h \in SUBSET Tasks /\ LocksOK(k, h, b) /\ u \in h /\ v \in h
    BY <1>2, <1>3
  <2> HIDE DEF h, k
  <2>2. QED
    BY <1>3, <2>1, TwoHolders
<1>4. /\ s \in HoldersOf(task, b) /\ t \in HoldersOf(task, b)
      /\ LockMode(s, b) \in LockModes /\ LockMode(t, b) \in LockModes
  BY <1>1
<1>5. LockMode(s, b) # "EW" /\ LockMode(t, b) # "EW"
  BY <1>3, <1>4
<1>6. /\ LockMode(s, b) = "CONST" => LockMode(t, b) = "CONST"
      /\ LockMode(t, b) = "CONST" => LockMode(s, b) = "CONST"
  BY <1>3, <1>4
<1>7. m1 # "EW" /\ m2 # "EW"
  BY <1>1, <1>5
<1>8. m1 = "CONST" => m2 # "RW"
  BY <1>1, <1>5, <1>6
<1>9. m2 = "CONST" => m1 # "RW"
  BY <1>1, <1>5, <1>6
<1>10. QED
  BY <1>7, <1>8, <1>9 DEF Exclude

LEMMA SoundInvariant == IInv => BlocksSound
<1> SUFFICES ASSUME IInv PROVE BlocksSound
  OBVIOUS
<1>1. AssertionsHold
  BY DEF IInv, AssertionsHold
<1>2. LocksAccounted /\ SlotsRespected
  BY LocksInvariant, UsesInvariant
<1>3. OnlyUnlockedReadsAreBlank
  BY DEF IInv, ReadOK, OnlyUnlockedReadsAreBlank
<1>4. QED
  BY <1>1, <1>2, <1>3 DEF BlocksSound

(* No assertion of the code fails, a lock is counted as long as a task     *)
(* holds it, tasks that run at the same time use their blocks as the modes *)
(* of their slots allow, and a blank block was invalidated in the gap      *)
(* between lock and handle: for all programs, and any number of tasks.     *)
THEOREM TasksUseBlocksSoundly == Spec => []BlocksSound
<1>1. QED
  BY TasksAndBlocksAgree, SoundInvariant, PTL

(* A task that has released what it wrote has waited until every copy from *)
(* before was gone, or a pause cut its wait at the gate short.             *)
THEOREM ReleasesAreSynchronous == Spec => []ReleaseIsSynchronous
<1>1. ASSUME IInv PROVE ReleaseIsSynchronous
  <2> SUFFICES ASSUME NEW b \in Blocks, NEW t \in unseen[b], ~task[t].cut PROVE Holds(t, b)
    BY DEF ReleaseIsSynchronous
  <2>1. t \in HoldersOf(task, b)
    BY <1>1, UnseenHolds
  <2>2. QED
    BY <2>1 DEF HoldersOf, Holds
<1>2. QED
  BY <1>1, TasksAndBlocksAgree, PTL
=============================================================================
