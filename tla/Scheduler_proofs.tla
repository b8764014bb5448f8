------------------------- MODULE Scheduler_proofs --------------------------
(***************************************************************************)
(* Proofs about Scheduler.                                                 *)
(***************************************************************************)
EXTENDS Scheduler, FiniteSetTheorems, TLAPS

-----------------------------------------------------------------------------
(***************************************************************************)
(* Families of queues.                                                     *)
(***************************************************************************)
(* No element is twice in the queues of a family.                          *)
Distinct(s) == \A i, j \in DOMAIN s : s[i] = s[j] => i = j
Separate(f) ==
  /\ \A d \in DOMAIN f : Distinct(f[d])
  /\ \A d, e \in DOMAIN f : d # e => Range(f[d]) \cap Range(f[e]) = {}
Held(f) == UNION {Range(f[d]) : d \in DOMAIN f}
Family(f, D, S) == f \in [D -> Seq(S)] /\ Separate(f)
Popped(f, d)    == [f EXCEPT ![d] = Tail(@)]
Pushed(f, d, x) == [f EXCEPT ![d] = Append(@, x)]

(* The parts of a sequence that is not empty.                              *)
LEMMA HeadType ==
  ASSUME NEW S, NEW s \in Seq(S), s # <<>>
  PROVE  Head(s) \in S /\ Tail(s) \in Seq(S)
OBVIOUS

(* The tail of a sequence without repetition has lost the head only.       *)
LEMMA TailDistinct ==
  ASSUME NEW S, NEW s \in Seq(S), s # <<>>, Distinct(s)
  PROVE  /\ Tail(s) \in Seq(S) /\ Head(s) \in S /\ Head(s) \in Range(s)
         /\ Distinct(Tail(s)) /\ Range(Tail(s)) = Range(s) \ {Head(s)}
<1> DEFINE t == Tail(s)
<1>1. /\ t \in Seq(S) /\ Head(s) \in S /\ Head(s) = s[1] /\ Len(s) \in Nat /\ Len(s) > 0
      /\ DOMAIN s = 1..Len(s) /\ DOMAIN t = 1..Len(s) - 1
      /\ \A i \in 1..Len(s) - 1 : t[i] = s[i + 1]
  OBVIOUS
<1>2. Distinct(t)
  BY <1>1 DEF Distinct
<1>3. Range(t) \subseteq Range(s) \ {Head(s)}
  BY <1>1 DEF Range, Distinct
<1>4. ASSUME NEW x \in Range(s) \ {Head(s)} PROVE x \in Range(t)
  <2>1. PICK i \in 1..Len(s) : x = s[i]
    BY <1>1 DEF Range
  <2>2. i # 1 /\ i - 1 \in 1..Len(s) - 1 /\ t[i - 1] = x
    BY <2>1, <1>1
  <2> QED BY <2>2, <1>1 DEF Range
<1> QED BY <1>1, <1>2, <1>3, <1>4 DEF Range

(* Appending a new element to such a sequence adds that element only.      *)
LEMMA AppendDistinct ==
  ASSUME NEW S, NEW s \in Seq(S), NEW x \in S, Distinct(s), x \notin Range(s)
  PROVE  /\ Append(s, x) \in Seq(S)
         /\ Distinct(Append(s, x)) /\ Range(Append(s, x)) = Range(s) \cup {x}
<1> DEFINE t == Append(s, x)
<1>1. /\ t \in Seq(S) /\ Len(s) \in Nat /\ DOMAIN s = 1..Len(s) /\ DOMAIN t = 1..Len(s) + 1
      /\ \A i \in 1..Len(s) : t[i] = s[i]
      /\ t[Len(s) + 1] = x
  OBVIOUS
<1>2. \A i \in 1..Len(s) : s[i] # x
  BY <1>1 DEF Range
<1>3. Distinct(t)
  BY <1>1, <1>2 DEF Distinct
<1>4. Range(t) \subseteq Range(s) \cup {x}
  BY <1>1 DEF Range
<1>5. Range(s) \subseteq Range(t)
  BY <1>1 DEF Range
<1>6. x \in Range(t)
  BY <1>1 DEF Range
<1> QED BY <1>1, <1>3, <1>4, <1>5, <1>6

(* Taking the head of a queue takes it out of the family.                  *)
LEMMA PopFamily ==
  ASSUME NEW D, NEW S, NEW f, Family(f, D, S), NEW d \in D, f[d] # <<>>
  PROVE  /\ Family(Popped(f, d), D, S) /\ Head(f[d]) \in S /\ Head(f[d]) \in Held(f)
         /\ Held(Popped(f, d)) = Held(f) \ {Head(f[d])}
<1> DEFINE g == [f EXCEPT ![d] = Tail(@)]
<1>0. f \in [D -> Seq(S)] /\ Separate(f) /\ Popped(f, d) = g
  BY DEF Family, Popped
<1>1. /\ Tail(f[d]) \in Seq(S) /\ Head(f[d]) \in S /\ Head(f[d]) \in Range(f[d])
      /\ Distinct(Tail(f[d])) /\ Range(Tail(f[d])) = Range(f[d]) \ {Head(f[d])}
  BY <1>0, TailDistinct DEF Separate
<1>2. g \in [D -> Seq(S)] /\ DOMAIN f = D /\ DOMAIN g = D
  BY <1>0, <1>1
<1>3. \A e \in D : g[e] = IF e = d THEN Tail(f[d]) ELSE f[e]
  BY <1>0
<1>4. \A e \in D : Range(g[e]) = IF e = d THEN Range(f[d]) \ {Head(f[d])} ELSE Range(f[e])
  BY <1>0, <1>1, <1>3
<1>5. Separate(g)
  BY <1>0, <1>1, <1>2, <1>3, <1>4 DEF Separate
<1>6. Head(f[d]) \in Held(f)
  BY <1>1, <1>2 DEF Held
<1>7. \A e \in D : Range(g[e]) = Range(f[e]) \ {Head(f[d])}
  BY <1>0, <1>1, <1>2, <1>4 DEF Separate
<1>8. Held(g) = Held(f) \ {Head(f[d])}
  <2>1. \A y : y \in Held(g) <=> \E e \in D : y \in Range(g[e])
    BY <1>2 DEF Held
  <2>2. \A y : y \in Held(f) <=> \E e \in D : y \in Range(f[e])
    BY <1>2 DEF Held
  <2>3. \A e \in D : \A y : y \in Range(g[e]) <=> y \in Range(f[e]) /\ y # Head(f[d])
    BY <1>7
  <2>4. \A y : y \in Held(g) <=> y \in Held(f) /\ y # Head(f[d])
    BY <2>1, <2>2, <2>3
  <2> QED BY <2>4
<1> QED BY <1>0, <1>1, <1>2, <1>5, <1>6, <1>8 DEF Family

(* Appending to a queue what is in none puts it into the family.           *)
LEMMA PushFamily ==
  ASSUME NEW D, NEW S, NEW f, Family(f, D, S), NEW d \in D, NEW x \in S, x \notin Held(f)
  PROVE  Family(Pushed(f, d, x), D, S) /\ Held(Pushed(f, d, x)) = Held(f) \cup {x}
<1> DEFINE g == [f EXCEPT ![d] = Append(@, x)]
<1>a. f \in [D -> Seq(S)] /\ Separate(f) /\ Pushed(f, d, x) = g
  BY DEF Family, Pushed
<1>0. DOMAIN f = D /\ f \in [D -> Seq(S)] /\ Separate(f) /\ \A e \in D : x \notin Range(f[e])
  BY <1>a DEF Held
<1>1. /\ Append(f[d], x) \in Seq(S)
      /\ Distinct(Append(f[d], x)) /\ Range(Append(f[d], x)) = Range(f[d]) \cup {x}
  BY <1>0, AppendDistinct DEF Separate
<1>2. g \in [D -> Seq(S)] /\ DOMAIN g = D
  BY <1>0, <1>1
<1>3. \A e \in D : g[e] = IF e = d THEN Append(f[d], x) ELSE f[e]
  BY <1>0
<1>4. \A e \in D : Range(g[e]) = IF e = d THEN Range(f[d]) \cup {x} ELSE Range(f[e])
  BY <1>0, <1>1, <1>3
<1>5. Separate(g)
  BY <1>0, <1>1, <1>2, <1>3, <1>4 DEF Separate
<1>6. Held(g) = Held(f) \cup {x}
  <2>1. \A y : y \in Held(g) <=> \E e \in D : y \in Range(g[e])
    BY <1>2 DEF Held
  <2>2. \A y : y \in Held(f) <=> \E e \in D : y \in Range(f[e])
    BY <1>0 DEF Held
  <2>3. \A e \in D : \A y : y \in Range(g[e]) <=> y \in Range(f[e]) \/ (e = d /\ y = x)
    BY <1>4
  <2>4. \A y : y \in Held(g) <=> y \in Held(f) \/ y = x
    BY <2>1, <2>2, <2>3
  <2> QED BY <2>4
<1> QED BY <1>a, <1>2, <1>5, <1>6 DEF Family

-----------------------------------------------------------------------------
(***************************************************************************)
(* The blockers.                                                           *)
(***************************************************************************)
OffCount == {"lock", "idlelock", "relock", "last", "read", "raise", "wait", "idlewait", "enter", "asleep"}
OnCount  == {"top", "check", "fix", "drop", "resumed", "leave", "find", "execute", "destroy", "release",
             "stop", "adjust", "exited"}
Sleeping == {"wait", "idlewait"}

Crew(n) == {w \in Workers : NodeOf[w] = n}
Up(n)   == {w \in Workers : NodeOf[w] = n /\ Running(w)}

OrderOf(b) == IF b = "count" THEN [numa : Numa, count : Nat] ELSE [thread : Workers, block : BOOLEAN]

HoldersRight == /\ holder \in [Numa -> Workers \cup {None}]
                /\ \A n \in Numa : holder[n] \in Crew(n) \cup {None}

BlockerTypes ==
  /\ pc \in [Workers -> OffCount \cup OnCount] /\ build \in {"count", "index"}
  /\ current \in [Numa -> Int] /\ desired \in [Numa -> Nat]
  /\ blocked \in [Workers -> BOOLEAN]
  /\ orders \in Seq(OrderOf(build))

(* The count is that of the threads that run.                              *)
CountersRight == \A n \in Numa : current[n] = Cardinality(Up(n))

(* A thread sleeps only while those that do not are enough: the inductive  *)
(* form of "enough run, or one is about to come back".                     *)
SleepersSpared ==
  \A n \in Numa : Asleep(n) # {} => Cardinality(Crew(n) \ Asleep(n)) >= desired[n]

BlockedSleep == \A w \in Workers : pc[w] = "asleep" => blocked[w]

Latched == closing \in [Numa -> BOOLEAN]

BInv == BlockerTypes /\ HoldersRight /\ Latched /\ CountersRight /\ SleepersSpared /\ BlockedSleep

(* The workers of a node, and any part of them, are finite in number.      *)
LEMMA CrewFinite ==
  ASSUME NEW n
  PROVE  /\ IsFiniteSet(Crew(n)) /\ IsFiniteSet(Up(n)) /\ IsFiniteSet(Crew(n) \ Asleep(n))
         /\ Cardinality(Crew(n)) \in Nat /\ Cardinality(Up(n)) \in Nat
         /\ Cardinality(Crew(n) \ Asleep(n)) \in Nat
<1>1. IsFiniteSet(Workers)
  BY SchedulerAssumption
<1>2. Crew(n) \subseteq Workers /\ Up(n) \subseteq Workers /\ Crew(n) \ Asleep(n) \subseteq Workers
  BY DEF Crew, Up
<1>3. IsFiniteSet(Crew(n)) /\ IsFiniteSet(Up(n)) /\ IsFiniteSet(Crew(n) \ Asleep(n))
  BY <1>1, <1>2, FS_Subset
<1> QED BY <1>3, FS_CardinalityType

(* The running threads are those of a step in which none stops or starts   *)
(* running.                                                                *)
LEMMA UpUnchanged ==
  ASSUME CountersRight, \A v \in Workers : Running(v)' <=> Running(v), UNCHANGED current
  PROVE  CountersRight'
<1>1. \A n \in Numa : Up(n)' = Up(n)
  BY DEF Up
<1> QED BY <1>1 DEF CountersRight

(* A step in which no thread falls asleep or wakes forgets no sleeper.     *)
LEMMA SleepersUnchanged ==
  ASSUME SleepersSpared, \A v \in Workers : pc'[v] \in Sleeping <=> pc[v] \in Sleeping, UNCHANGED desired
  PROVE  SleepersSpared'
<1>1. \A n \in Numa : Asleep(n)' = Asleep(n) /\ Crew(n)' = Crew(n)
  BY DEF Asleep, Sleeping, Crew
<1> QED BY <1>1 DEF SleepersSpared

(* A step of one thread that neither stops nor starts running, nor sleeps. *)
LEMMA QuietStep ==
  ASSUME BInv, NEW w \in Workers, NEW l, pc' = [pc EXCEPT ![w] = l],
         \/ pc[w] \in OnCount /\ l \in OnCount
         \/ pc[w] \in OffCount \ Sleeping /\ l \in OffCount \ (Sleeping \cup {"asleep"}),
         HoldersRight', Latched', UNCHANGED <<build, current, desired, blocked, orders>>
  PROVE  BInv'
<1>1. \A v \in Workers : Running(v)' <=> Running(v)
  BY DEF Running, BInv, BlockerTypes, OnCount, OffCount
<1>2. \A v \in Workers : pc'[v] \in Sleeping <=> pc[v] \in Sleeping
  BY DEF BInv, BlockerTypes, OnCount, OffCount, Sleeping
<1>3. BlockerTypes'
  BY DEF BInv, BlockerTypes
<1>4. BlockedSleep'
  BY DEF BInv, BlockerTypes, BlockedSleep, OnCount, OffCount
<1> QED BY <1>1, <1>2, <1>3, <1>4, UpUnchanged, SleepersUnchanged DEF BInv

(* A thread that leaves the count, which goes down by one.                 *)
LEMMA LeaveStep ==
  ASSUME BInv, NEW w \in Workers, NEW l, pc' = [pc EXCEPT ![w] = l],
         pc[w] \in OnCount, l \in OffCount \ (Sleeping \cup {"asleep"}),
         current' = [current EXCEPT ![NodeOf[w]] = @ - 1],
         UNCHANGED <<build, desired, blocked, orders, holder, closing>>
  PROVE  BInv'
<1>0. NodeOf \in [Workers -> Numa]
  BY SchedulerAssumption
<1>1. \A v \in Workers : Running(v)' <=> Running(v) /\ v # w
  BY DEF Running, BInv, BlockerTypes, OnCount, OffCount, Sleeping
<1>2. \A v \in Workers : pc'[v] \in Sleeping <=> pc[v] \in Sleeping
  BY DEF BInv, BlockerTypes, OnCount, OffCount, Sleeping
<1>3. BlockerTypes'
  <2>1. current' \in [Numa -> Int]
    <3>1. NodeOf[w] \in Numa /\ current \in [Numa -> Int] /\ current[NodeOf[w]] \in Int
      BY <1>0 DEF BInv, BlockerTypes
    <3> QED BY <3>1
  <2>2. pc' \in [Workers -> OffCount \cup OnCount]
    BY DEF BInv, BlockerTypes
  <2> QED BY <2>1, <2>2 DEF BInv, BlockerTypes
<1>4. BlockedSleep'
  BY DEF BInv, BlockerTypes, BlockedSleep, OnCount, OffCount
<1>5. HoldersRight' /\ Latched'
  BY DEF BInv, HoldersRight, Crew, Latched
<1>6. ASSUME NEW n \in Numa PROVE current'[n] = Cardinality(Up(n)')
  <2>1. current[n] = Cardinality(Up(n)) /\ IsFiniteSet(Up(n)) /\ Cardinality(Up(n)) \in Nat
    BY CrewFinite DEF BInv, CountersRight
  <2>2. Up(n)' = Up(n) \ {w}
    BY <1>1 DEF Up
  <2>3. w \in Up(n) <=> NodeOf[w] = n
    BY DEF Up, Running, BInv, BlockerTypes, OnCount, OffCount
  <2>4. Cardinality(Up(n)') = IF w \in Up(n) THEN Cardinality(Up(n)) - 1 ELSE Cardinality(Up(n))
    BY <2>1, <2>2, FS_RemoveElement
  <2>5. current'[n] = IF NodeOf[w] = n THEN current[n] - 1 ELSE current[n]
    BY DEF BInv, BlockerTypes
  <2> QED BY <2>1, <2>3, <2>4, <2>5
<1> QED BY <1>2, <1>3, <1>4, <1>5, <1>6, SleepersUnchanged DEF BInv, CountersRight

(* A thread that comes back into the count, which goes up by one.          *)
LEMMA ReturnStep ==
  ASSUME BInv, NEW w \in Workers, NEW l, pc' = [pc EXCEPT ![w] = l],
         pc[w] \in OffCount \ (Sleeping \cup {"asleep"}), l \in OnCount,
         current' = [current EXCEPT ![NodeOf[w]] = @ + 1],
         HoldersRight', UNCHANGED <<build, desired, blocked, orders, closing>>
  PROVE  BInv'
<1>0. NodeOf \in [Workers -> Numa]
  BY SchedulerAssumption
<1>1. \A v \in Workers : Running(v)' <=> Running(v) \/ v = w
  BY DEF Running, BInv, BlockerTypes, OnCount, OffCount, Sleeping
<1>2. \A v \in Workers : pc'[v] \in Sleeping <=> pc[v] \in Sleeping
  BY DEF BInv, BlockerTypes, OnCount, OffCount, Sleeping
<1>3. BlockerTypes'
  <2>1. current' \in [Numa -> Int]
    <3>1. NodeOf[w] \in Numa /\ current \in [Numa -> Int] /\ current[NodeOf[w]] \in Int
      BY <1>0 DEF BInv, BlockerTypes
    <3> QED BY <3>1
  <2>2. pc' \in [Workers -> OffCount \cup OnCount]
    BY DEF BInv, BlockerTypes
  <2> QED BY <2>1, <2>2 DEF BInv, BlockerTypes
<1>4. BlockedSleep'
  BY DEF BInv, BlockerTypes, BlockedSleep, OnCount, OffCount
<1>5. Latched'
  BY DEF BInv, Latched
<1>6. ASSUME NEW n \in Numa PROVE current'[n] = Cardinality(Up(n)')
  <2>1. current[n] = Cardinality(Up(n)) /\ IsFiniteSet(Up(n)) /\ Cardinality(Up(n)) \in Nat
    BY CrewFinite DEF BInv, CountersRight
  <2>2. w \notin Up(n)
    BY DEF Up, Running, OffCount
  <2>3. CASE NodeOf[w] = n
    <3>1. Up(n)' = Up(n) \cup {w}
      BY <1>1, <2>3 DEF Up
    <3>2. Cardinality(Up(n)') = Cardinality(Up(n)) + 1
      BY <2>1, <2>2, <3>1, FS_AddElement
    <3> QED BY <2>1, <2>3, <3>2 DEF BInv, BlockerTypes
  <2>4. CASE NodeOf[w] # n
    <3>1. Up(n)' = Up(n)
      BY <1>1, <2>4 DEF Up
    <3> QED BY <2>1, <2>4, <3>1 DEF BInv, BlockerTypes
  <2> QED BY <2>3, <2>4
<1> QED BY <1>2, <1>3, <1>4, <1>5, <1>6, SleepersUnchanged DEF BInv, CountersRight

(* A thread goes to sleep while the count says that enough others run.     *)
LEMMA SleepStep ==
  ASSUME BInv, NEW w \in Workers, NEW l, pc' = [pc EXCEPT ![w] = l],
         pc[w] \in OffCount, l \in Sleeping,
         current[NodeOf[w]] >= desired[NodeOf[w]],
         HoldersRight', UNCHANGED <<build, current, desired, blocked, orders, closing>>
  PROVE  BInv'
<1>0. NodeOf \in [Workers -> Numa]
  BY SchedulerAssumption
<1>1. \A v \in Workers : Running(v)' <=> Running(v)
  BY DEF Running, BInv, BlockerTypes, OnCount, OffCount, Sleeping
<1>2. BlockerTypes'
  BY DEF BInv, BlockerTypes, OffCount, Sleeping
<1>3. BlockedSleep'
  BY DEF BInv, BlockerTypes, BlockedSleep, Sleeping
<1>4. Latched'
  BY DEF BInv, Latched
<1>5. ASSUME NEW n \in Numa, Asleep(n)' # {} PROVE Cardinality((Crew(n) \ Asleep(n))') >= desired'[n]
  <2>1. CASE NodeOf[w] # n
    <3>1. Asleep(n)' = Asleep(n) /\ Crew(n)' = Crew(n)
      BY <2>1 DEF Asleep, Crew, BInv, BlockerTypes
    <3> QED BY <3>1, <1>5 DEF BInv, SleepersSpared
  <2>2. CASE NodeOf[w] = n
    <3>1. Up(n) \subseteq (Crew(n) \ Asleep(n))'
      BY DEF Up, Crew, Asleep, Running, OffCount, BInv, BlockerTypes
    <3>2. IsFiniteSet((Crew(n) \ Asleep(n))')
      <4>1. (Crew(n) \ Asleep(n))' \subseteq Workers
        BY DEF Crew
      <4> QED BY <4>1, FS_Subset, SchedulerAssumption
    <3>3. Cardinality(Up(n)) <= Cardinality((Crew(n) \ Asleep(n))')
      BY <3>1, <3>2, FS_Subset
    <3>4. Cardinality(Up(n)) = current[n] /\ current[n] \in Nat
      BY CrewFinite DEF BInv, CountersRight
    <3>5. Cardinality((Crew(n) \ Asleep(n))') \in Nat /\ desired[n] \in Nat /\ desired'[n] = desired[n]
      BY <3>2, FS_CardinalityType DEF BInv, BlockerTypes
    <3> QED BY <2>2, <3>3, <3>4, <3>5
  <2> QED BY <2>1, <2>2
<1> QED BY <1>1, <1>2, <1>3, <1>4, <1>5, UpUnchanged DEF BInv, SleepersSpared

(* A broadcast in the blocker of node n, when its desired number changes.  *)
LEMMA BroadcastStep ==
  ASSUME BInv, NEW n \in Numa, NEW k \in Nat,
         pc' \in [Workers -> OffCount \cup OnCount],
         \A v \in Workers : Running(v)' <=> Running(v),
         \A v \in Workers : IF NodeOf[v] = n THEN pc'[v] \notin Sleeping
                           ELSE pc'[v] \in Sleeping <=> pc[v] \in Sleeping,
         \A v \in Workers : pc'[v] = "asleep" => pc[v] = "asleep",
         desired' = [desired EXCEPT ![n] = k],
         orders' \in Seq(OrderOf(build)),
         UNCHANGED <<build, current, blocked, holder, closing>>
  PROVE  BInv'
<1>1. BlockerTypes'
  BY DEF BInv, BlockerTypes
<1>2. HoldersRight' /\ Latched'
  BY DEF BInv, HoldersRight, Crew, Latched
<1>3. BlockedSleep'
  BY DEF BInv, BlockedSleep
<1>4. ASSUME NEW m \in Numa, Asleep(m)' # {} PROVE Cardinality((Crew(m) \ Asleep(m))') >= desired'[m]
  <2>1. m # n
    BY <1>4 DEF Asleep, Sleeping
  <2>2. Asleep(m)' = Asleep(m) /\ Crew(m)' = Crew(m)
    BY <2>1 DEF Asleep, Sleeping, Crew
  <2>3. desired'[m] = desired[m]
    BY <2>1 DEF BInv, BlockerTypes
  <2> QED BY <1>4, <2>2, <2>3 DEF BInv, SleepersSpared
<1> QED BY <1>1, <1>2, <1>3, <1>4, UpUnchanged DEF BInv, SleepersSpared

(* A broadcast in the index blocker: all that it holds look again.         *)
LEMMA AwakeStep ==
  ASSUME BInv, NEW p, pc' = p,
         p \in [Workers -> OffCount \cup OnCount],
         \A v \in Workers : p[v] = IF pc[v] = "asleep" THEN "enter" ELSE pc[v],
         blocked' \in [Workers -> BOOLEAN], Latched',
         orders' \in Seq(OrderOf(build)),
         UNCHANGED <<build, current, desired, holder>>
  PROVE  BInv'
<1>1. BlockerTypes'
  BY DEF BInv, BlockerTypes
<1>2. HoldersRight'
  BY DEF BInv, HoldersRight, Crew
<1>3. BlockedSleep'
  BY DEF BlockedSleep
<1>4. \A v \in Workers : Running(v)' <=> Running(v)
  BY DEF Running
<1>5. \A v \in Workers : pc'[v] \in Sleeping <=> pc[v] \in Sleeping
  BY DEF Sleeping
<1> QED BY <1>1, <1>2, <1>3, <1>4, <1>5, UpUnchanged, SleepersUnchanged DEF BInv

(* The steps of the blockers, and those that shut them down.               *)
LEMMA BlockersHold == BInv /\ [Next]_vars => BInv'
<1> SUFFICES ASSUME BInv, [Next]_vars PROVE BInv'
  OBVIOUS
<1> USE DEF OnCount, OffCount, Sleeping
<1>0. NodeOf \in [Workers -> Numa] /\ (\A n \in Numa : Size(n) \in Nat) /\ None \notin Workers
  <2>1. \A n \in Numa : Size(n) \in Nat
    BY CrewFinite DEF Size, Crew
  <2> QED BY <2>1, SchedulerAssumption
<1>a. HoldersRight /\ Latched /\ pc \in [Workers -> OffCount \cup OnCount]
  BY DEF BInv, BlockerTypes
<1>b. UNCHANGED holder => HoldersRight'
  BY <1>a DEF HoldersRight, Crew
<1>c. UNCHANGED closing => Latched'
  BY <1>a DEF Latched
<1>1. ASSUME NEW w \in Workers, BlockerStep(w) PROVE BInv'
  <2>0. NodeOf[w] \in Numa
    BY <1>0
  <2>1. CASE Top(w)
    BY <2>1, <1>b, <1>c, QuietStep DEF Top, Goto, blockerVars, indexVars, countVars
  <2>2. CASE Check(w)
    BY <2>2, <1>b, <1>c, QuietStep DEF Check, Goto, blockerVars, indexVars, countVars
  <2>3. CASE Fix(w)
    BY <2>3, <1>b, <1>c, QuietStep DEF Fix, Goto, indexVars
  <2>4. CASE Drop(w)
    <3>1. CASE current[NodeOf[w]] = seen[w]
      BY <2>4, <3>1, LeaveStep DEF Drop, Goto, indexVars
    <3>2. CASE current[NodeOf[w]] # seen[w]
      BY <2>4, <3>2, <1>b, <1>c, QuietStep DEF Drop, Goto, indexVars
    <3> QED BY <3>1, <3>2
  <2>5. CASE Lock(w)
    <3>1. HoldersRight'
      BY <2>5, <1>a DEF Lock, HoldersRight, Crew
    <3> DEFINE l == IF pc[w] = "lock" /\ seen[w] # 1 THEN "read" ELSE Inside[pc[w]]
    <3>2. pc[w] \in {"lock", "idlelock", "relock"}
      BY <2>5 DEF Lock, Inside
    <3>3. l \in {"last", "read", "raise"} /\ pc' = [pc EXCEPT ![w] = l]
      BY <2>5, <3>2 DEF Lock, Goto, Inside
    <3> QED BY <2>5, <3>1, <3>2, <3>3, <1>c, QuietStep DEF Lock, indexVars
  <2>6. CASE Last(w)
    <3>1. HoldersRight'
      BY <2>6, <1>a DEF Last, HoldersRight, Crew
    <3>2. CASE desired[NodeOf[w]] = 0
      <4>1. current[NodeOf[w]] \in Nat
        <5>1. Cardinality(Up(NodeOf[w])) \in Nat
          BY CrewFinite
        <5> QED BY <2>0, <5>1 DEF BInv, CountersRight
      <4> QED BY <2>6, <3>1, <3>2, <4>1, SleepStep DEF Last, Goto, indexVars
    <3>3. CASE desired[NodeOf[w]] # 0
      BY <2>6, <3>1, <3>3, <1>c, QuietStep DEF Last, Goto, indexVars
    <3> QED BY <3>2, <3>3
  <2>7. CASE Read(w)
    <3>1. HoldersRight'
      BY <2>7, <1>a DEF Read, HoldersRight, Crew
    <3>2. CASE current[NodeOf[w]] >= desired[NodeOf[w]]
      BY <2>7, <3>1, <3>2, SleepStep DEF Read, Goto, indexVars
    <3>3. CASE ~(current[NodeOf[w]] >= desired[NodeOf[w]])
      BY <2>7, <3>1, <3>3, <1>c, QuietStep DEF Read, Goto, indexVars
    <3> QED BY <3>2, <3>3
  <2>8. CASE Raise(w)
    <3>1. HoldersRight'
      BY <2>8, <1>a DEF Raise, HoldersRight, Crew
    <3>2. CASE current[NodeOf[w]] = seen[w]
      BY <2>8, <3>1, <3>2, ReturnStep DEF Raise, Goto, indexVars
    <3>3. CASE current[NodeOf[w]] # seen[w]
      BY <2>8, <3>1, <3>3, <1>c, QuietStep DEF Raise, Goto, indexVars
    <3> QED BY <3>2, <3>3
  <2>9. CASE Resumed(w)
    BY <2>9, <1>b, <1>c, QuietStep DEF Resumed, Goto, blockerVars, indexVars, countVars
  <2>10. CASE IndexCheck(w)
    BY <2>10, <1>b, <1>c, QuietStep DEF IndexCheck, Goto, blockerVars, indexVars, countVars
  <2>11. CASE IndexLeave(w)
    BY <2>11, LeaveStep DEF IndexLeave, Goto, indexVars
  <2>12. CASE IndexEnter(w)
    <3>1. CASE ~blocked[w]
      BY <2>12, <3>1, <1>b, ReturnStep DEF IndexEnter, Goto, indexVars
    <3>2. CASE blocked[w]
      <4>1. pc' = [pc EXCEPT ![w] = "asleep"] /\ pc[w] = "enter"
            /\ UNCHANGED <<build, current, desired, blocked, orders, holder, closing>>
        BY <2>12, <3>2 DEF IndexEnter, Goto, indexVars
      <4>2. \A v \in Workers : Running(v)' <=> Running(v)
        BY <1>a, <4>1 DEF Running
      <4>3. \A v \in Workers : pc'[v] \in Sleeping <=> pc[v] \in Sleeping
        BY <1>a, <4>1
      <4>4. BlockerTypes' /\ BlockedSleep'
        BY <4>1, <3>2 DEF BInv, BlockerTypes, BlockedSleep
      <4> QED BY <4>1, <4>2, <4>3, <4>4, <1>b, <1>c, UpUnchanged, SleepersUnchanged DEF BInv
    <3> QED BY <3>1, <3>2
  <2> QED BY <1>1, <2>1, <2>2, <2>3, <2>4, <2>5, <2>6, <2>7, <2>8, <2>9, <2>10, <2>11, <2>12 DEF BlockerStep
<1>2. ASSUME NEW w \in Workers, NEW t, NEW q, NEW s, pc[w] = "find", Takes(w, t, q, s) PROVE BInv'
  BY <1>2, <1>b, <1>c, QuietStep DEF Takes, Goto, blockerVars, indexVars, countVars
<1>3. ASSUME NEW w \in Workers, FindStep(w) PROVE BInv'
  <2>1. CASE FindNothing(w)
    <3>1. pc[w] = "find"
      BY <2>1 DEF FindNothing, Foraging, Unprovided
    <3>2. PICK l \in {"exited", "top"} : pc' = [pc EXCEPT ![w] = l]
      BY <2>1 DEF FindNothing, Goto
    <3> QED BY <2>1, <3>1, <3>2, <1>b, <1>c, QuietStep DEF FindNothing, blockerVars, indexVars, countVars
  <2>2. CASE ~FindNothing(w)
    <3>1. pc[w] = "find" /\ \E t, q, s : Takes(w, t, q, s)
      BY <1>3, <2>2 DEF FindStep, PopOwn, PopNode, StealShared, Steal, Foraging, Unprovided
    <3> QED BY <3>1, <1>2
  <2> QED BY <2>1, <2>2
<1>4. ASSUME NEW w \in Workers, ExecuteStep(w) PROVE BInv'
  <2>1. CASE Call(w)
    <3>1. pc[w] = "execute" /\ pc' = [pc EXCEPT ![w] = "execute"]
      BY <2>1, <1>a DEF Call
    <3> QED BY <2>1, <3>1, <1>b, <1>c, QuietStep DEF Call, blockerVars, indexVars, countVars
  <2>2. CASE Hold(w)
    BY <2>2, <1>b, <1>c, QuietStep DEF Hold, Goto, blockerVars, indexVars, countVars
  <2>3. CASE Destroy(w)
    BY <2>3, <1>b, <1>c, QuietStep DEF Destroy, Goto, blockerVars, indexVars, countVars
  <2>4. CASE Release(w)
    BY <2>4, <1>b, <1>c, QuietStep DEF Release, Goto, blockerVars, indexVars, countVars
  <2>5. CASE Close(w)
    <3>1. Latched'
      BY <2>5, <1>a DEF Close, Latched
    <3> QED BY <2>5, <3>1, <1>b, QuietStep DEF Close, Goto, indexVars
  <2>6. CASE Open(w)
    <3> DEFINE n == seen[w]
    <3>1. PICK k : desired' = [desired EXCEPT ![n] = k] /\ (n \in Numa => k \in Nat)
      BY <2>6, <1>0 DEF Open, Adjusted
    <3>2. pc' = [Woken(n) EXCEPT ![w] = "stop"] /\ pc[w] = "adjust"
          /\ UNCHANGED <<build, current, blocked, holder, closing, orders>>
      BY <2>6 DEF Open, indexVars
    <3>3. \A v \in Workers : pc'[v] = IF v = w THEN "stop" ELSE
             CASE NodeOf[v] = n /\ pc[v] = "wait"     -> "relock"
               [] NodeOf[v] = n /\ pc[v] = "idlewait" -> "idlelock"
               [] OTHER                               -> pc[v]
      BY <3>2 DEF Woken
    <3>4. pc' \in [Workers -> OffCount \cup OnCount]
      BY <3>2, <3>3, <1>a DEF Woken
    <3>5. \A v \in Workers : Running(v)' <=> Running(v)
      BY <3>2, <3>3, <1>a DEF Running
    <3>6. CASE n \in Numa
      <4>1. orders' \in Seq(OrderOf(build))
        BY <3>2 DEF BInv, BlockerTypes
      <4>2. k \in Nat
        BY <3>1, <3>6
      <4>3. \A v \in Workers : IF NodeOf[v] = n THEN pc'[v] \notin Sleeping
                               ELSE pc'[v] \in Sleeping <=> pc[v] \in Sleeping
        BY <3>2, <3>3, <1>a
      <4>4. \A v \in Workers : pc'[v] = "asleep" => pc[v] = "asleep"
        BY <3>2, <3>3, <1>a
      <4> QED BY <3>1, <3>2, <3>4, <3>5, <3>6, <4>1, <4>2, <4>3, <4>4, BroadcastStep
    <3>7. CASE n \notin Numa
      <4>1. pc' = [pc EXCEPT ![w] = "stop"]
        BY <3>2, <3>3, <3>4, <3>7, <1>0, <1>a
      <4>2. desired' = desired
        BY <3>1, <3>7 DEF BInv, BlockerTypes
      <4> QED BY <3>2, <4>1, <4>2, <1>b, <1>c, QuietStep
    <3> QED BY <3>6, <3>7
  <2>7. CASE IndexClose(w)
    <3>1. Latched' /\ blocked' \in [Workers -> BOOLEAN]
      BY <2>7 DEF IndexClose, Latched, Unblocked
    <3>2. Awake \in [Workers -> OffCount \cup OnCount]
          /\ \A v \in Workers : Awake[v] = IF pc[v] = "asleep" THEN "enter" ELSE pc[v]
      BY <1>a DEF Awake
    <3>3. orders' \in Seq(OrderOf(build))
      BY <2>7 DEF IndexClose, BInv, BlockerTypes
    <3> QED BY <2>7, <3>1, <3>2, <3>3, AwakeStep DEF IndexClose
  <2>8. CASE Halt(w)
    BY <2>8, <1>b, <1>c, QuietStep DEF Halt, Goto, blockerVars, indexVars, countVars
  <2> QED BY <1>4, <2>1, <2>2, <2>3, <2>4, <2>5, <2>6, <2>7, <2>8 DEF ExecuteStep
<1>5. ASSUME Adjust PROVE BInv'
  <2> DEFINE n == Head(orders).numa
  <2>1. orders # <<>> /\ orders \in Seq([numa : Numa, count : Nat])
    BY <1>5 DEF Adjust, BInv, BlockerTypes, OrderOf
  <2>2. n \in Numa /\ Head(orders).count \in Nat
    <3>1. Head(orders) \in [numa : Numa, count : Nat]
      BY <2>1, HeadType
    <3> QED BY <3>1
  <2>3. PICK k \in Nat : desired' = [desired EXCEPT ![n] = k]
    BY <1>5, <1>0, <2>2 DEF Adjust, Adjusted
  <2>4. orders' \in Seq(OrderOf(build))
    BY <1>5, <2>1 DEF Adjust, OrderOf
  <2>5. pc' = Woken(n) /\ UNCHANGED <<build, current, blocked, holder, closing>>
    BY <1>5 DEF Adjust, indexVars
  <2>6. \A v \in Workers : pc'[v] =
             CASE NodeOf[v] = n /\ pc[v] = "wait"     -> "relock"
               [] NodeOf[v] = n /\ pc[v] = "idlewait" -> "idlelock"
               [] OTHER                               -> pc[v]
    BY <2>5 DEF Woken
  <2>7. pc' \in [Workers -> OffCount \cup OnCount]
    BY <2>5, <2>6, <1>a DEF Woken
  <2>8. \A v \in Workers : Running(v)' <=> Running(v)
    BY <2>6, <1>a DEF Running
  <2>9. \A v \in Workers : IF NodeOf[v] = n THEN pc'[v] \notin Sleeping
                           ELSE pc'[v] \in Sleeping <=> pc[v] \in Sleeping
    BY <2>6, <1>a
  <2>10. \A v \in Workers : pc'[v] = "asleep" => pc[v] = "asleep"
    BY <2>6, <1>a
  <2> QED BY <2>2, <2>3, <2>4, <2>5, <2>7, <2>8, <2>9, <2>10, BroadcastStep
<1>6. ASSUME Instruct PROVE BInv'
  <2>1. orders # <<>> /\ orders \in Seq([thread : Workers, block : BOOLEAN])
    BY <1>6 DEF Instruct, BInv, BlockerTypes, OrderOf
  <2>2. orders' \in Seq(OrderOf(build))
    BY <1>6, <2>1 DEF Instruct, OrderOf, BInv, BlockerTypes
  <2>3. Head(orders) \in [thread : Workers, block : BOOLEAN]
    BY <2>1, HeadType
  <2>4. CASE \E n \in Numa : closing[n]
    <3>1. UNCHANGED <<pc, build, current, desired, blocked, holder, closing>>
      BY <1>6, <2>4 DEF Instruct
    <3>2. BlockerTypes' /\ BlockedSleep'
      BY <3>1, <2>2 DEF BInv, BlockerTypes, BlockedSleep
    <3>3. CountersRight' /\ SleepersSpared'
      BY <3>1, UpUnchanged, SleepersUnchanged DEF BInv, Running
    <3> QED BY <3>1, <3>2, <3>3, <1>b, <1>c DEF BInv
  <2>5. CASE ~ \E n \in Numa : closing[n]
    <3>1. blocked' \in [Workers -> BOOLEAN]
      BY <1>6, <2>3, <2>5 DEF Instruct, BInv, BlockerTypes
    <3>2. Awake \in [Workers -> OffCount \cup OnCount]
          /\ \A v \in Workers : Awake[v] = IF pc[v] = "asleep" THEN "enter" ELSE pc[v]
      BY <1>a DEF Awake
    <3>3. pc' = Awake /\ UNCHANGED <<build, current, desired, holder, closing>>
      BY <1>6, <2>5 DEF Instruct
    <3> QED BY <3>1, <3>2, <3>3, <2>2, <1>c, AwakeStep
  <2> QED BY <2>4, <2>5
<1>7. ASSUME UNCHANGED vars PROVE BInv'
  <2>1. UNCHANGED <<pc, build, current, desired, blocked, holder, closing, orders>>
    BY <1>7 DEF vars, blockerVars, indexVars, countVars
  <2>2. BlockerTypes' /\ BlockedSleep'
    BY <2>1 DEF BInv, BlockerTypes, BlockedSleep
  <2>3. CountersRight' /\ SleepersSpared'
    BY <2>1, UpUnchanged, SleepersUnchanged DEF BInv, Running
  <2> QED BY <2>1, <2>2, <2>3, <1>b, <1>c DEF BInv
<1> QED BY <1>1, <1>3, <1>4, <1>5, <1>6, <1>7 DEF Next, WorkerStep, Terminated

(* The invariant of the blockers holds at the start.                       *)
LEMMA BlockersStart == Init => BInv
<1> SUFFICES ASSUME Init PROVE BInv
  OBVIOUS
<1>1. NodeOf \in [Workers -> Numa] /\ \A n \in Numa : Size(n) \in Nat
  BY CrewFinite, SchedulerAssumption DEF Size, Crew
<1>2. BlockerTypes
  <2>1. build \in {"count", "index"} /\ orders \in Seq(OrderOf(build))
    BY SchedulerAssumption DEF Init, OrderOf
  <2>2. pc \in [Workers -> OffCount \cup OnCount]
    BY DEF Init, OnCount, OffCount
  <2>3. current \in [Numa -> Int] /\ desired \in [Numa -> Nat] /\ blocked \in [Workers -> BOOLEAN]
    BY <1>1, SchedulerAssumption DEF Init, Unblocked
  <2> QED BY <2>1, <2>2, <2>3 DEF BlockerTypes
<1>3. HoldersRight /\ Latched /\ BlockedSleep
  BY DEF Init, HoldersRight, Latched, BlockedSleep
<1>4. \A n \in Numa : Up(n) = Crew(n)
  BY DEF Init, Up, Crew, Running
<1>5. CountersRight
  BY <1>4 DEF Init, CountersRight, Size, Crew
<1>6. SleepersSpared
  BY DEF Init, SleepersSpared, Asleep
<1> QED BY <1>2, <1>3, <1>5, <1>6 DEF BInv
-----------------------------------------------------------------------------
(***************************************************************************)
(* The tasks.                                                              *)
(***************************************************************************)
TaskIds == Tasks \cup {Barrier}
Busy    == {"execute", "destroy", "release", "stop", "adjust"}

TaskTypes ==
  /\ task \in [Workers -> TaskIds \cup {None}] /\ executed \in [TaskIds -> Nat]
  /\ rounds \in [Workers -> 0..Patience + 1] /\ count \in Nat /\ shutdown \in BOOLEAN

(* What a task has still to do is the end of its program; the calls made   *)
(* are the others.                                                         *)
Made(t) == Len(Program[t]) - Len(calls[t])
CallsInv ==
  /\ DOMAIN calls = TaskIds /\ calls[Barrier] = <<>>
  /\ \A t \in Tasks : /\ calls[t] \in Seq(Calls) /\ Len(calls[t]) <= Len(Program[t])
                      /\ \A i \in 1..Len(calls[t]) : calls[t][i] = Program[t][Made(t) + i]
Called(c) == \E t \in Tasks : \E i \in 1..Made(t) : SameCall(Program[t][i], c)

(* A task is in one place.                                                 *)
QueuesInv ==
  /\ Family(queue, Workers, TaskIds) /\ Family(shared, Numa, TaskIds)
  /\ Held(queue) \cap Held(shared) = {}

InQueue == Held(queue) \cup Held(shared)

(* It is executed once, by one worker, and only after it was spawned.      *)
OnceInv ==
  /\ \A t \in TaskIds : executed[t] <= 1
  /\ \A t \in InQueue : executed[t] = 0
  /\ \A w \in Workers : task[w] # None => executed[task[w]] = 1
  /\ \A v, w \in Workers : task[v] = task[w] /\ task[v] # None => v = w
  /\ \A t \in Tasks \ {MainTask} : (t \in InQueue \/ executed[t] = 1) => Called(SpawnCall(t, None))

PlaceInv ==
  \A w \in Workers :
    /\ pc[w] \in {"destroy", "release"} => task[w] \in Tasks
    /\ pc[w] = "execute" => task[w] \in TaskIds
    /\ pc[w] \in {"stop", "adjust"} => task[w] = Barrier
    /\ pc[w] = "exited" => task[w] \in {None, Barrier}
    /\ pc[w] \notin Busy \cup {"exited"} => task[w] = None

(* The reference count of the barrier: one for the runtime until           *)
(* ocrShutdown, one for each task that waits or runs, and one more while   *)
(* the task is being destroyed.                                            *)
Token      == IF Called(ShutdownCall) THEN 0 ELSE 1
Live       == {t \in Tasks : t \in InQueue \/ \E w \in Workers : task[w] = t}
Destroying == {w \in Workers : pc[w] = "destroy"}
CountInv   == IsFiniteSet(Live) /\ count = Token + Cardinality(Live) + Cardinality(Destroying)

(* The barrier starts when the count is zero, and nothing else stops the   *)
(* runtime; a worker that steals leaves its loop early only on one node.   *)
NeighboursDiffer == Stealing = 2 \/ \A n \in Numa : After[n] # n
BarrierInv ==
  /\ count > 0 => Barrier \notin InQueue /\ executed[Barrier] = 0
  /\ shutdown => executed[Barrier] = 1
  /\ \A w \in Workers : pc[w] \in {"stop", "adjust"} => executed[Barrier] = 1
  /\ NeighboursDiffer => \A w \in Workers : pc[w] = "exited" => shutdown

TInv == /\ TaskTypes /\ CallsInv /\ QueuesInv /\ OnceInv /\ PlaceInv /\ CountInv /\ BarrierInv
        /\ faults = {}

PcType == pc \in [Workers -> OffCount \cup OnCount]

(* The workers that destroy a task are finite in number.                   *)
LEMMA DestroyingFinite == IsFiniteSet(Destroying) /\ Cardinality(Destroying) \in Nat
<1>1. IsFiniteSet(Workers) /\ Destroying \subseteq Workers
  BY SchedulerAssumption DEF Destroying
<1> QED BY <1>1, FS_Subset, FS_CardinalityType

(* Queued in terms of the families.                                        *)
LEMMA QueuedIsInQueue == QueuesInv => Queued = InQueue
<1> SUFFICES ASSUME QueuesInv PROVE Queued = InQueue
  OBVIOUS
<1>1. DOMAIN queue = Workers /\ DOMAIN shared = Numa
  BY DEF QueuesInv, Family
<1>2. \A t : t \in InQueue <=> \/ \E w \in Workers : t \in Range(queue[w])
                            \/ \E n \in Numa : t \in Range(shared[n])
  BY <1>1 DEF InQueue, Held
<1>3. \A t : t \in Queued <=> \/ \E w \in Workers : t \in Range(queue[w])
                           \/ \E n \in Numa : t \in Range(shared[n])
  BY DEF Queued
<1> QED BY <1>2, <1>3

(* A step that touches no task: of a worker without one, or of the worker  *)
(* that shuts the blockers down.                                           *)
LEMMA IdleStep ==
  ASSUME TInv, UNCHANGED <<task, calls, executed, queue, shared, count, shutdown, faults>>,
         rounds' \in [Workers -> 0..Patience + 1],
         \A v \in Workers :
            \/ pc'[v] = pc[v]
            \/ pc[v] \notin Busy \cup {"exited"} /\ pc'[v] \notin Busy \cup {"exited"}
            \/ pc[v] \notin Busy \cup {"exited"} /\ pc'[v] = "exited" /\ (NeighboursDiffer => shutdown)
            \/ pc[v] \in {"stop", "adjust"} /\ pc'[v] \in {"stop", "adjust"}
  PROVE  TInv'
<1>1. TaskTypes' /\ CallsInv' /\ QueuesInv'
  BY DEF TInv, TaskTypes, CallsInv, QueuesInv, Made
<1>2. InQueue' = InQueue /\ Live' = Live
  BY DEF InQueue, Live
<1>3. \A c : Called(c)' <=> Called(c)
  BY DEF Called, Made
<1>4. OnceInv'
  BY <1>2, <1>3 DEF TInv, OnceInv
<1>5. PlaceInv'
  BY DEF TInv, PlaceInv, Busy
<1>6. Destroying' = Destroying
  BY DEF Destroying, Busy
<1>7. CountInv'
  BY <1>2, <1>3, <1>6 DEF TInv, CountInv, Token
<1>8. BarrierInv'
  BY <1>2 DEF TInv, BarrierInv, Busy
<1> QED BY <1>1, <1>4, <1>5, <1>7, <1>8 DEF TInv

(* A worker without a task takes one of those that are queued.             *)
LEMMA TakeStep ==
  ASSUME TInv, PcType, NEW w \in Workers, NEW t, pc[w] = "find", t \in InQueue, t \in TaskIds,
         Takes(w, t, queue', shared'), QueuesInv', InQueue' = InQueue \ {t}
  PROVE  TInv'
<1>0. None \notin TaskIds /\ Patience \in Nat /\ Barrier \notin Tasks
  BY SchedulerAssumption DEF TaskIds
<1>1. /\ task' = [task EXCEPT ![w] = t] /\ executed' = [executed EXCEPT ![t] = @ + 1]
      /\ rounds' = [rounds EXCEPT ![w] = 0] /\ pc' = [pc EXCEPT ![w] = "execute"]
      /\ UNCHANGED <<calls, count, shutdown, faults>>
  BY DEF Takes, Goto
<1>2. task[w] = None /\ executed[t] = 0
  BY DEF TInv, PlaceInv, OnceInv, Busy
<1>3. /\ task \in [Workers -> TaskIds \cup {None}] /\ executed \in [TaskIds -> Nat]
      /\ task' \in [Workers -> TaskIds \cup {None}] /\ executed' \in [TaskIds -> Nat]
      /\ \A v \in Workers : task'[v] = IF v = w THEN t ELSE task[v]
      /\ \A u \in TaskIds : executed'[u] = IF u = t THEN 1 ELSE executed[u]
      /\ \A v \in Workers : pc'[v] = IF v = w THEN "execute" ELSE pc[v]
  BY <1>1, <1>2 DEF TInv, TaskTypes, PcType
<1>4. TaskTypes'
  BY <1>0, <1>1, <1>3 DEF TInv, TaskTypes
<1>5. CallsInv'
  BY <1>1 DEF TInv, CallsInv, Made
<1>6. \A c : Called(c)' <=> Called(c)
  BY <1>1 DEF Called, Made
<1>7. OnceInv'
  <2>1. \A u \in TaskIds : executed'[u] <= 1
    BY <1>3 DEF TInv, OnceInv
  <2>2. \A u \in InQueue' : executed'[u] = 0
    BY <1>1, <1>3 DEF TInv, OnceInv, TaskTypes
  <2>3. \A v \in Workers : task'[v] # None => executed'[task'[v]] = 1
    BY <1>0, <1>3 DEF TInv, OnceInv
  <2>4. \A v \in Workers : task[v] # t
    BY <1>0, <1>2 DEF TInv, OnceInv
  <2>5. \A v, x \in Workers : task'[v] = task'[x] /\ task'[v] # None => v = x
    BY <1>3, <2>4 DEF TInv, OnceInv
  <2>6. \A u \in Tasks \ {MainTask} : (u \in InQueue' \/ executed'[u] = 1) => Called(SpawnCall(u, None))'
    BY <1>3, <1>6 DEF TInv, OnceInv, TaskIds
  <2> QED BY <2>1, <2>2, <2>3, <2>5, <2>6 DEF OnceInv
<1>8. PlaceInv'
  BY <1>3 DEF TInv, PlaceInv, Busy
<1>9. Live' = Live
  BY <1>0, <1>2, <1>3 DEF Live, TaskIds
<1>10. Destroying' = Destroying
  BY <1>3 DEF Destroying
<1>11. CountInv'
  BY <1>1, <1>6, <1>9, <1>10 DEF TInv, CountInv, Token
<1>12. BarrierInv'
  BY <1>1, <1>3 DEF TInv, BarrierInv, TaskIds
<1> QED BY <1>1, <1>4, <1>5, <1>7, <1>8, <1>11, <1>12 DEF TInv
(* The next call of a task is none that was made before, and making it     *)
(* adds it to those that were.                                             *)
LEMMA CallStep ==
  ASSUME CallsInv, NEW t \in Tasks, calls[t] # <<>>,
         calls' = [calls EXCEPT ![t] = Tail(@)]
  PROVE  /\ Head(calls[t]) \in Calls /\ CallsInv' /\ ~Called(Head(calls[t]))
         /\ \A d : Called(d)' <=> Called(d) \/ SameCall(Head(calls[t]), d)
<1> DEFINE c == Head(calls[t])
<1>0. Barrier \notin Tasks /\ Barrier # t
  BY SchedulerAssumption
<1>1. /\ \A u \in Tasks : Program[u] \in Seq(Calls) /\ calls[u] \in Seq(Calls)
      /\ calls[t] \in Seq(Calls) /\ Program[t] \in Seq(Calls) /\ DOMAIN calls = TaskIds
      /\ Len(calls[t]) <= Len(Program[t])
      /\ \A i \in 1..Len(calls[t]) : calls[t][i] = Program[t][Made(t) + i]
  BY ProgramAssumption DEF CallsInv
<1>2. \A u \in Tasks : Len(Program[u]) \in Nat /\ Len(calls[u]) \in Nat /\ Made(u) \in Int
  BY <1>1 DEF Made
<1>3. /\ Len(calls[t]) \in Nat /\ Len(calls[t]) > 0 /\ c \in Calls /\ c = calls[t][1]
      /\ Tail(calls[t]) \in Seq(Calls) /\ Len(Tail(calls[t])) = Len(calls[t]) - 1
      /\ \A i \in 1..Len(calls[t]) - 1 : Tail(calls[t])[i] = calls[t][i + 1]
  BY <1>1
<1>4. calls'[t] = Tail(calls[t]) /\ DOMAIN calls' = TaskIds
      /\ \A u \in TaskIds : u # t => calls'[u] = calls[u]
  BY <1>1 DEF TaskIds
<1>5. Made(t)' = Made(t) + 1 /\ \A u \in Tasks : u # t => Made(u)' = Made(u)
  BY <1>2, <1>3, <1>4 DEF Made, TaskIds
<1>6. Made(t) \in Nat /\ Made(t) + 1 \in 1..Len(Program[t]) /\ c = Program[t][Made(t) + 1]
  <2>1. Made(t) \in Nat /\ Made(t) + 1 \in 1..Len(Program[t])
    <3>1. \A a, b \in Nat : b > 0 /\ b <= a => a - b \in Nat /\ (a - b) + 1 \in 1..a
      OBVIOUS
    <3>2. Len(Program[t]) \in Nat
      BY <1>2
    <3> QED BY <3>1, <3>2, <1>1, <1>3, Zenon DEF Made
  <2>2. 1 \in 1..Len(calls[t])
    BY <1>3
  <2>3. calls[t][1] = Program[t][Made(t) + 1]
    BY <1>1, <2>2
  <2> QED BY <2>1, <2>3, <1>3
<1>7. CallsInv'
  <2>1. \A i \in 1..Len(calls'[t]) : calls'[t][i] = Program[t][Made(t)' + i]
    <3>1. TAKE i \in 1..Len(calls'[t])
    <3>2. i \in 1..Len(calls[t]) - 1 /\ i + 1 \in 1..Len(calls[t])
      <4>1. Len(calls'[t]) = Len(calls[t]) - 1
        BY <1>3, <1>4
      <4> QED BY <4>1, <1>3
    <3>3. calls'[t][i] = Program[t][Made(t) + (i + 1)]
      BY <1>1, <1>3, <1>4, <3>2
    <3>4. Made(t) + (i + 1) = Made(t)' + i
      BY <1>5, <1>6, <3>2
    <3> QED BY <3>3, <3>4
  <2>2. Len(calls'[t]) <= Len(Program[t]) /\ calls'[t] \in Seq(Calls)
    BY <1>1, <1>2, <1>3, <1>4
  <2>3. calls'[Barrier] = <<>>
    BY <1>0, <1>4 DEF CallsInv, TaskIds
  <2>4. ASSUME NEW u \in Tasks, u # t
        PROVE  /\ calls'[u] \in Seq(Calls) /\ Len(calls'[u]) <= Len(Program[u])
               /\ \A i \in 1..Len(calls'[u]) : calls'[u][i] = Program[u][Made(u)' + i]
    BY <1>4, <1>5, <2>4 DEF CallsInv, TaskIds
  <2> QED BY <1>4, <2>1, <2>2, <2>3, <2>4 DEF CallsInv
<1>8. ~Called(c)
  <2>1. ASSUME NEW u \in Tasks, NEW i \in 1..Made(u), SameCall(Program[u][i], c) PROVE FALSE
    <3>1. i \in DOMAIN Program[u] /\ Made(t) + 1 \in DOMAIN Program[t]
      <4>1. Made(u) <= Len(Program[u])
        <5>1. Len(Program[u]) \in Nat /\ Len(calls[u]) \in Nat
          BY <1>2
        <5>2. \A a, b \in Nat : a - b <= a
          OBVIOUS
        <5> QED BY <5>1, <5>2, Zenon DEF Made
      <4> QED BY <1>1, <1>2, <1>6, <4>1
    <3>2. u = t /\ i = Made(t) + 1
      BY <2>1, <3>1, <1>6, ProgramAssumption
    <3> QED BY <3>2, <1>6
  <2> QED BY <2>1 DEF Called
<1>9. ASSUME NEW d PROVE Called(d)' <=> Called(d) \/ SameCall(c, d)
  <2>1. Called(d)' <=> \E u \in Tasks : \E i \in 1..Made(u)' : SameCall(Program[u][i], d)
    BY DEF Called
  <2>2. \A u \in Tasks : \A i : i \in 1..Made(u)' <=> i \in 1..Made(u) \/ (u = t /\ i = Made(t) + 1)
    BY <1>2, <1>5, <1>6
  <2> QED BY <2>1, <2>2, <1>6 DEF Called
<1> QED BY <1>3, <1>7, <1>8, <1>9

(* The calls of a program: it spawns a task, or it shuts down.             *)
LEMMA CallKinds ==
  ASSUME NEW c \in Calls
  PROVE  \/ /\ c.op = "spawn" /\ c.task \in Tasks \ {MainTask} /\ c.affinity \in Numa \cup {None}
            /\ \A t, n : SameCall(c, SpawnCall(t, n)) <=> c.task = t
            /\ ~SameCall(c, ShutdownCall)
         \/ /\ c.op = "shutdown" /\ SameCall(c, ShutdownCall)
            /\ \A t, n : ~SameCall(c, SpawnCall(t, n))
<1>1. CASE \E t \in Tasks \ {MainTask}, n \in Numa \cup {None} : c = SpawnCall(t, n)
  BY <1>1 DEF SpawnCall, ShutdownCall, SameCall
<1>2. CASE c = ShutdownCall
  BY <1>2 DEF SpawnCall, ShutdownCall, SameCall
<1> QED BY <1>1, <1>2 DEF Calls

(* A task runs only while the barrier waits for it.                        *)
LEMMA RunnerIsLive ==
  ASSUME TInv, NEW w \in Workers, task[w] \in Tasks
  PROVE  /\ task[w] \in Live /\ IsFiniteSet(Live) /\ Cardinality(Live) \in Nat /\ Cardinality(Live) >= 1
         /\ Token \in {0, 1} /\ count >= Token + 1 + Cardinality(Destroying)
<1>1. task[w] \in Live /\ IsFiniteSet(Live)
  BY DEF Live, TInv, CountInv
<1>2. Cardinality(Live) \in Nat /\ Cardinality(Live) # 0
  BY <1>1, FS_CardinalityType, FS_EmptySet
<1>3. Token \in {0, 1}
  BY DEF Token
<1> QED BY <1>1, <1>2, <1>3, DestroyingFinite DEF TInv, CountInv

(* What spawn_impl puts into a queue.                                      *)
LEMMA PushStep ==
  ASSUME QueuesInv, NEW t \in TaskIds, t \notin InQueue,
         \/ \E w \in Workers : queue' = Pushed(queue, w, t) /\ shared' = shared
         \/ \E n \in Numa : shared' = Pushed(shared, n, t) /\ queue' = queue
  PROVE  QueuesInv' /\ InQueue' = InQueue \cup {t}
<1>1. t \notin Held(queue) /\ t \notin Held(shared)
  BY DEF InQueue
<1>2. ASSUME NEW w \in Workers, queue' = Pushed(queue, w, t), shared' = shared
      PROVE  QueuesInv' /\ InQueue' = InQueue \cup {t}
  <2>1. /\ Family(Pushed(queue, w, t), Workers, TaskIds)
        /\ Held(Pushed(queue, w, t)) = Held(queue) \cup {t}
    BY <1>1, PushFamily DEF QueuesInv
  <2> QED BY <1>1, <1>2, <2>1 DEF QueuesInv, InQueue
<1>3. ASSUME NEW n \in Numa, shared' = Pushed(shared, n, t), queue' = queue
      PROVE  QueuesInv' /\ InQueue' = InQueue \cup {t}
  <2>1. /\ Family(Pushed(shared, n, t), Numa, TaskIds)
        /\ Held(Pushed(shared, n, t)) = Held(shared) \cup {t}
    BY <1>1, PushFamily DEF QueuesInv
  <2> QED BY <1>1, <1>3, <2>1 DEF QueuesInv, InQueue
<1> QED BY <1>2, <1>3

(* What a worker takes from a queue of a worker, or from that of a node.   *)
LEMMA PopOwnStep ==
  ASSUME QueuesInv, NEW v \in Workers, queue[v] # <<>>, queue' = Popped(queue, v), shared' = shared
  PROVE  /\ QueuesInv' /\ Head(queue[v]) \in InQueue /\ Head(queue[v]) \in TaskIds
         /\ InQueue' = InQueue \ {Head(queue[v])}
<1>1. /\ Family(Popped(queue, v), Workers, TaskIds)
      /\ Head(queue[v]) \in TaskIds /\ Head(queue[v]) \in Held(queue)
      /\ Held(Popped(queue, v)) = Held(queue) \ {Head(queue[v])}
  BY PopFamily DEF QueuesInv
<1> QED BY <1>1 DEF QueuesInv, InQueue

(* A task taken from the queue of a node is in no queue afterwards.        *)
LEMMA PopSharedStep ==
  ASSUME QueuesInv, NEW n \in Numa, shared[n] # <<>>, shared' = Popped(shared, n), queue' = queue
  PROVE  /\ QueuesInv' /\ Head(shared[n]) \in InQueue /\ Head(shared[n]) \in TaskIds
         /\ InQueue' = InQueue \ {Head(shared[n])}
<1>1. /\ Family(Popped(shared, n), Numa, TaskIds)
      /\ Head(shared[n]) \in TaskIds /\ Head(shared[n]) \in Held(shared)
      /\ Held(Popped(shared, n)) = Held(shared) \ {Head(shared[n])}
  BY PopFamily DEF QueuesInv
<1> QED BY <1>1 DEF QueuesInv, InQueue
(* A task spawns another.                                                  *)
LEMMA SpawnStep ==
  ASSUME TInv, PcType, NEW w \in Workers, Call(w), Head(calls[task[w]]).op = "spawn"
  PROVE  TInv'
<1> DEFINE t == task[w]
           c == Head(calls[t])
           u == c.task
<1>0. None \notin TaskIds /\ Barrier \notin Tasks /\ NodeOf \in [Workers -> Numa] /\ MainTask \in Tasks
  BY SchedulerAssumption DEF TaskIds
<1>1. /\ pc[w] = "execute" /\ calls[t] # <<>> /\ calls' = [calls EXCEPT ![t] = Tail(@)]
      /\ count' = count + 1 /\ UNCHANGED <<pc, task, executed, rounds, shutdown, faults>>
  BY DEF Call, Counted
<1>2. t \in Tasks
  BY <1>1 DEF TInv, PlaceInv, CallsInv, TaskIds
<1>3. /\ c \in Calls /\ CallsInv' /\ ~Called(c)
      /\ \A d : Called(d)' <=> Called(d) \/ SameCall(c, d)
  BY <1>1, <1>2, CallStep DEF TInv
<1>4. /\ c.op = "spawn" /\ u \in Tasks \ {MainTask} /\ c.affinity \in Numa \cup {None}
      /\ SameCall(c, SpawnCall(u, None)) /\ ~SameCall(c, ShutdownCall)
      /\ \A d : Called(d) => Called(d)'
  BY <1>3, CallKinds
<1>5. ~Called(SpawnCall(u, None))
  <2>1. \A d : SameCall(d, SpawnCall(u, None)) => SameCall(d, c)
    BY <1>4 DEF SameCall, SpawnCall
  <2> QED BY <2>1, <1>3 DEF Called
<1>6. u \notin InQueue /\ executed[u] # 1 /\ u \in TaskIds
  BY <1>4, <1>5 DEF TInv, OnceInv, TaskIds
<1>7. QueuesInv' /\ InQueue' = InQueue \cup {u}
  <2>1. CASE c.affinity \in {None, NodeOf[w]}
    <3>1. queue' = Pushed(queue, w, u) /\ shared' = shared
      BY <1>4, <2>1 DEF Call, Pushed
    <3> QED BY <1>6, <3>1, PushStep DEF TInv
  <2>2. CASE c.affinity \notin {None, NodeOf[w]}
    <3>1. shared' = Pushed(shared, c.affinity, u) /\ queue' = queue /\ c.affinity \in Numa
      BY <1>4, <2>2 DEF Call, Pushed
    <3> QED BY <1>6, <3>1, PushStep DEF TInv
  <2> QED BY <2>1, <2>2
<1>8. \A v \in Workers : task[v] # u
  BY <1>0, <1>4, <1>6 DEF TInv, OnceInv, TaskIds
<1>9. TaskTypes'
  BY <1>1 DEF TInv, TaskTypes
<1>10. OnceInv'
  <2>1. \A x \in InQueue' : executed'[x] = 0
    <3>1. executed[u] = 0
      BY <1>6 DEF TInv, OnceInv, TaskTypes
    <3> QED BY <1>1, <1>7, <3>1 DEF TInv, OnceInv
  <2>2. \A x \in Tasks \ {MainTask} : (x \in InQueue' \/ executed'[x] = 1) => Called(SpawnCall(x, None))'
    <3> TAKE x \in Tasks \ {MainTask}
    <3>1. CASE x = u
      BY <1>3, <1>4, <3>1
    <3>2. CASE x # u
      BY <1>1, <1>4, <1>7, <3>2 DEF TInv, OnceInv
    <3> QED BY <3>1, <3>2
  <2> QED BY <1>1, <2>1, <2>2 DEF TInv, OnceInv
<1>11. PlaceInv'
  BY <1>1 DEF TInv, PlaceInv
<1>12. CountInv'
  <2>1. Live' = Live \cup {u} /\ u \notin Live
    BY <1>1, <1>4, <1>6, <1>7, <1>8 DEF Live
  <2>2. /\ IsFiniteSet(Live) /\ IsFiniteSet(Live') /\ Cardinality(Live') = Cardinality(Live) + 1
        /\ Cardinality(Live) \in Nat
    BY <2>1, FS_AddElement, FS_CardinalityType DEF TInv, CountInv
  <2>3. Destroying' = Destroying /\ Token' = Token /\ Token \in {0, 1}
    BY <1>1, <1>3, <1>4 DEF Destroying, Token
  <2> QED BY <1>1, <2>2, <2>3, DestroyingFinite DEF TInv, CountInv
<1>13. BarrierInv'
  <2>1. count > 0
    BY <1>2, RunnerIsLive, DestroyingFinite DEF TInv, TaskTypes
  <2> QED BY <1>0, <1>1, <1>4, <1>7, <2>1 DEF TInv, BarrierInv, TaskTypes
<1> QED BY <1>1, <1>3, <1>7, <1>9, <1>10, <1>11, <1>12, <1>13 DEF TInv

(* A task calls ocrShutdown.                                               *)
LEMMA ShutdownStep ==
  ASSUME TInv, PcType, NEW w \in Workers, Call(w), Head(calls[task[w]]).op # "spawn"
  PROVE  TInv'
<1> DEFINE t == task[w]
           c == Head(calls[t])
<1>1. /\ pc[w] = "execute" /\ calls[t] # <<>> /\ calls' = [calls EXCEPT ![t] = Tail(@)]
      /\ count' = count - 1 /\ UNCHANGED <<pc, task, executed, rounds, shutdown, queue, shared>>
      /\ faults' = IF count < 2 THEN faults \cup {"shutdown"} ELSE faults
  BY DEF Call, Fault
<1>2. t \in Tasks
  BY <1>1 DEF TInv, PlaceInv, CallsInv, TaskIds
<1>3. /\ c \in Calls /\ CallsInv' /\ ~Called(c)
      /\ \A d : Called(d)' <=> Called(d) \/ SameCall(c, d)
  BY <1>1, <1>2, CallStep DEF TInv
<1>4. /\ c.op = "shutdown" /\ SameCall(c, ShutdownCall) /\ \A u, n : ~SameCall(c, SpawnCall(u, n))
  BY <1>3, CallKinds
<1>5. ~Called(ShutdownCall)
  <2>1. \A d : SameCall(d, ShutdownCall) => SameCall(d, c)
    BY <1>4 DEF SameCall, ShutdownCall
  <2> QED BY <2>1, <1>3 DEF Called
<1>6. Token = 1 /\ Token' = 0
  BY <1>3, <1>4, <1>5 DEF Token
<1>7. count >= 2 /\ count \in Nat /\ Cardinality(Live) \in Nat
  BY <1>2, <1>6, RunnerIsLive, DestroyingFinite DEF TInv, TaskTypes
<1>8. faults' = {}
  BY <1>1, <1>7 DEF TInv
<1>9. InQueue' = InQueue /\ Live' = Live /\ Destroying' = Destroying
  BY <1>1 DEF InQueue, Live, Destroying
<1>10. TaskTypes' /\ QueuesInv' /\ PlaceInv'
  BY <1>1, <1>7 DEF TInv, TaskTypes, QueuesInv, PlaceInv
<1>11. OnceInv'
  <2>1. \A x : Called(SpawnCall(x, None))' <=> Called(SpawnCall(x, None))
    BY <1>3, <1>4
  <2> QED BY <1>1, <1>9, <2>1 DEF TInv, OnceInv
<1>12. CountInv'
  BY <1>1, <1>6, <1>7, <1>9, DestroyingFinite DEF TInv, CountInv
<1>13. BarrierInv'
  BY <1>1, <1>7, <1>9 DEF TInv, BarrierInv
<1> QED BY <1>3, <1>8, <1>10, <1>11, <1>12, <1>13 DEF TInv

(* The end of a task: the count is held while the task is destroyed.       *)
LEMMA HoldStep ==
  ASSUME TInv, PcType, NEW w \in Workers, Hold(w)
  PROVE  TInv'
<1>1. /\ pc[w] = "execute" /\ task[w] \in TaskIds
      /\ UNCHANGED <<task, calls, executed, queue, shared, rounds, shutdown, faults>>
  BY DEF Hold, TInv, PlaceInv
<1>2. TaskTypes /\ count \in Nat /\ Barrier \notin Tasks /\ None \notin TaskIds
  BY SchedulerAssumption DEF TInv, TaskTypes, TaskIds
<1>3. InQueue' = InQueue /\ Live' = Live /\ \A d : Called(d)' <=> Called(d)
  BY <1>1 DEF InQueue, Live, Called, Made
<1>4. CallsInv' /\ QueuesInv' /\ OnceInv'
  BY <1>1, <1>3 DEF TInv, CallsInv, QueuesInv, OnceInv, Made
<1>5. CASE task[w] = Barrier
  <2>1. count' = count /\ pc' = [pc EXCEPT ![w] = "stop"]
    BY <1>5 DEF Hold, Goto
  <2>2. TaskTypes' /\ PlaceInv'
    BY <1>1, <1>2, <1>5, <2>1 DEF TInv, TaskTypes, PlaceInv, Busy, PcType
  <2>3. Destroying' = Destroying
    BY <1>1, <2>1 DEF Destroying, PcType
  <2>4. CountInv'
    BY <1>3, <2>1, <2>3 DEF TInv, CountInv, Token
  <2>5. executed[Barrier] = 1
    BY <1>2, <1>5 DEF TInv, OnceInv, TaskIds
  <2>6. BarrierInv'
    BY <1>1, <1>3, <2>1, <2>5 DEF TInv, BarrierInv, PcType
  <2> QED BY <1>1, <1>4, <2>2, <2>4, <2>6 DEF TInv
<1>6. CASE task[w] # Barrier
  <2>1. count' = count + 1 /\ pc' = [pc EXCEPT ![w] = "destroy"] /\ task[w] \in Tasks
    BY <1>1, <1>6 DEF Hold, Goto, TaskIds
  <2>2. TaskTypes' /\ PlaceInv'
    BY <1>1, <1>2, <2>1 DEF TInv, TaskTypes, PlaceInv, Busy, PcType
  <2>3. Destroying' = Destroying \cup {w} /\ w \notin Destroying
    BY <1>1, <2>1 DEF Destroying, PcType
  <2>4. Cardinality(Destroying') = Cardinality(Destroying) + 1 /\ Cardinality(Destroying) \in Nat
    BY <2>3, DestroyingFinite, FS_AddElement
  <2>5. Token \in {0, 1} /\ Token' = Token /\ Cardinality(Live) \in Nat /\ count > 0
    BY <1>2, <1>3, <2>1, RunnerIsLive, DestroyingFinite DEF Token
  <2>6. CountInv'
    BY <1>3, <2>1, <2>4, <2>5 DEF TInv, CountInv
  <2>7. BarrierInv'
    BY <1>1, <1>2, <1>3, <2>1, <2>5 DEF TInv, BarrierInv, PcType
  <2> QED BY <1>1, <1>4, <2>2, <2>6, <2>7 DEF TInv
<1> QED BY <1>5, <1>6

(* A worker that destroys its task counts it down.                         *)
LEMMA DestroyStep ==
  ASSUME TInv, PcType, NEW w \in Workers, Destroy(w)
  PROVE  TInv'
<1>1. /\ pc[w] = "destroy" /\ task[w] \in Tasks /\ count' = count - 1 /\ pc' = [pc EXCEPT ![w] = "release"]
      /\ UNCHANGED <<task, calls, executed, queue, shared, rounds, shutdown>>
      /\ faults' = IF count <= 1 THEN faults \cup {"destroy"} ELSE faults
  BY DEF Destroy, TInv, PlaceInv, Goto, Fault
<1>2. InQueue' = InQueue /\ Live' = Live /\ \A d : Called(d)' <=> Called(d)
  BY <1>1 DEF InQueue, Live, Called, Made
<1>3. CallsInv' /\ QueuesInv' /\ OnceInv'
  BY <1>1, <1>2 DEF TInv, CallsInv, QueuesInv, OnceInv, Made
<1>4. Destroying' = Destroying \ {w} /\ w \in Destroying
  BY <1>1 DEF Destroying, PcType
<1>5. /\ Cardinality(Destroying') = Cardinality(Destroying) - 1 /\ Cardinality(Destroying) \in Nat
      /\ Cardinality(Destroying) >= 1
  BY <1>4, DestroyingFinite, FS_RemoveElement, FS_EmptySet
<1>6. /\ Token \in {0, 1} /\ Token' = Token /\ Cardinality(Live) \in Nat
      /\ count \in Nat /\ count >= Token + 1 + Cardinality(Destroying)
  BY <1>1, <1>2, RunnerIsLive DEF Token, TInv, TaskTypes
<1>7. count >= 2
  BY <1>5, <1>6
<1>8. TaskTypes' /\ PlaceInv' /\ faults' = {}
  BY <1>1, <1>6, <1>7 DEF TInv, TaskTypes, PlaceInv, Busy, PcType
<1>9. CountInv'
  BY <1>1, <1>2, <1>5, <1>6 DEF TInv, CountInv
<1>10. BarrierInv'
  <2>1. Barrier \notin InQueue' /\ executed'[Barrier] = 0
    BY <1>1, <1>2, <1>6, <1>7 DEF TInv, BarrierInv
  <2>2. \A v \in Workers : pc'[v] \in {"stop", "adjust", "exited"} => pc'[v] = pc[v]
    BY <1>1 DEF PcType
  <2> QED BY <1>1, <2>1, <2>2 DEF TInv, BarrierInv, NeighboursDiffer
<1> QED BY <1>3, <1>8, <1>9, <1>10 DEF TInv

(* Whoever takes the count to zero starts the barrier.                     *)
LEMMA ReleaseStep ==
  ASSUME TInv, PcType, NEW w \in Workers, Release(w)
  PROVE  TInv'
<1> DEFINE t == task[w]
<1>0. None \notin TaskIds /\ Barrier \notin Tasks
  BY SchedulerAssumption DEF TaskIds
<1>1. /\ pc[w] = "release" /\ t \in Tasks /\ count' = count - 1 /\ pc' = [pc EXCEPT ![w] = "top"]
      /\ task' = [task EXCEPT ![w] = None]
      /\ UNCHANGED <<calls, executed, shared, rounds, shutdown, faults>>
  BY DEF Release, TInv, PlaceInv, Goto
<1>2. /\ task' \in [Workers -> TaskIds \cup {None}]
      /\ \A v \in Workers : task'[v] = IF v = w THEN None ELSE task[v]
      /\ \A v \in Workers : pc'[v] = IF v = w THEN "top" ELSE pc[v]
  BY <1>1 DEF TInv, TaskTypes, PcType
<1>3. /\ t \in Live /\ IsFiniteSet(Live) /\ Cardinality(Live) \in Nat /\ Cardinality(Live) >= 1
      /\ Token \in {0, 1} /\ count >= Token + 1 + Cardinality(Destroying)
      /\ count \in Nat
  BY <1>1, RunnerIsLive DEF TInv, TaskTypes
<1>4. count > 0 /\ Barrier \notin InQueue /\ executed[Barrier] = 0
  BY <1>3, DestroyingFinite DEF TInv, BarrierInv
<1>5. QueuesInv' /\ InQueue' = IF count = 1 THEN InQueue \cup {Barrier} ELSE InQueue
  <2>1. CASE count = 1
    <3>1. queue' = Pushed(queue, w, Barrier) /\ shared' = shared
      BY <1>1, <2>1 DEF Release, Pushed
    <3> QED BY <1>4, <2>1, <3>1, PushStep DEF TInv, TaskIds
  <2>2. CASE count # 1
    <3>1. queue' = queue /\ shared' = shared
      BY <1>1, <2>2 DEF Release
    <3> QED BY <2>2, <3>1 DEF TInv, QueuesInv, InQueue
  <2> QED BY <2>1, <2>2
<1>6. CallsInv' /\ \A d : Called(d)' <=> Called(d)
  BY <1>1 DEF TInv, CallsInv, Called, Made
<1>7. TaskTypes'
  BY <1>1, <1>2, <1>3, <1>4 DEF TInv, TaskTypes
<1>8. OnceInv'
  <2>1. \A x \in InQueue' : executed'[x] = 0
    BY <1>1, <1>4, <1>5 DEF TInv, OnceInv
  <2>2. \A x \in Tasks : x \in InQueue' <=> x \in InQueue
    BY <1>0, <1>5
  <2>3. \A x \in Tasks \ {MainTask} : (x \in InQueue' \/ executed'[x] = 1) => Called(SpawnCall(x, None))'
    BY <1>1, <1>6, <2>2 DEF TInv, OnceInv
  <2> QED BY <1>1, <1>2, <2>1, <2>3 DEF TInv, OnceInv
<1>9. PlaceInv'
  BY <1>2 DEF TInv, PlaceInv, Busy
<1>10. CountInv'
  <2>1. t \notin InQueue
    BY <1>0, <1>1 DEF TInv, OnceInv, TaskIds
  <2>2. \A v \in Workers : task[v] = t => v = w
    BY <1>0, <1>1 DEF TInv, OnceInv, TaskIds
  <2>3. Live' = Live \ {t}
    <3>1. \A x \in Tasks : x \in InQueue' <=> x \in InQueue
      BY <1>0, <1>5
    <3>2. \A x \in Tasks : (\E v \in Workers : task'[v] = x) <=> x # t /\ \E v \in Workers : task[v] = x
      BY <1>0, <1>2, <2>2 DEF TaskIds
    <3> QED BY <2>1, <3>1, <3>2 DEF Live
  <2>4. IsFiniteSet(Live') /\ Cardinality(Live') = Cardinality(Live) - 1
    BY <1>3, <2>3, FS_RemoveElement
  <2>5. Destroying' = Destroying /\ Token' = Token
    BY <1>1, <1>2, <1>6 DEF Destroying, Token
  <2> QED BY <1>1, <1>3, <2>4, <2>5, DestroyingFinite DEF TInv, CountInv
<1>11. BarrierInv'
  <2>1. count' > 0 => count # 1
    BY <1>1, <1>3
  <2>2. count' > 0 => Barrier \notin InQueue' /\ executed'[Barrier] = 0
    BY <1>1, <1>4, <1>5, <2>1
  <2>3. /\ shutdown' => executed'[Barrier] = 1
        /\ \A v \in Workers : pc'[v] \in {"stop", "adjust"} => executed'[Barrier] = 1
        /\ NeighboursDiffer => \A v \in Workers : pc'[v] = "exited" => shutdown'
    BY <1>1, <1>2 DEF TInv, BarrierInv
  <2> QED BY <2>2, <2>3 DEF BarrierInv, NeighboursDiffer
<1> QED BY <1>1, <1>5, <1>6, <1>7, <1>8, <1>9, <1>10, <1>11 DEF TInv
-----------------------------------------------------------------------------
(***************************************************************************)
(* The theorems.                                                           *)
(***************************************************************************)
IInv == BInv /\ TInv

(* The invariant of the tasks holds at the start.                          *)
LEMMA TasksStart == Init => TInv
<1> SUFFICES ASSUME Init PROVE TInv
  OBVIOUS
<1>0. /\ First \in Workers /\ MainTask \in Tasks /\ Barrier \notin Tasks /\ None \notin TaskIds
      /\ Patience \in Nat /\ Program \in [Tasks -> Seq(Calls)]
  BY SchedulerAssumption, ProgramAssumption DEF TaskIds
<1>1. TaskTypes
  <2>1. task \in [Workers -> TaskIds \cup {None}]
    BY DEF Init
  <2>2. executed \in [TaskIds -> Nat]
    BY DEF Init, TaskIds
  <2>3. rounds \in [Workers -> 0..Patience + 1]
    BY <1>0 DEF Init
  <2>4. count \in Nat /\ shutdown \in BOOLEAN
    BY DEF Init
  <2> QED BY <2>1, <2>2, <2>3, <2>4 DEF TaskTypes
<1>2. \A t \in Tasks : calls[t] = Program[t] /\ Program[t] \in Seq(Calls)
  BY <1>0 DEF Init
<1>3. \A t \in Tasks : Made(t) = 0 /\ Len(Program[t]) \in Nat
  <2>1. \A a \in Nat : a - a = 0
    OBVIOUS
  <2>2. \A t \in Tasks : Len(Program[t]) \in Nat
    BY <1>2
  <2> QED BY <1>2, <2>1, <2>2, Zenon DEF Made
<1>4. \A d : ~Called(d)
  BY <1>3 DEF Called
<1>5. CallsInv
  <2>1. DOMAIN calls = TaskIds /\ calls[Barrier] = <<>>
    BY <1>0 DEF Init, TaskIds
  <2>2. ASSUME NEW t \in Tasks
        PROVE  /\ calls[t] \in Seq(Calls) /\ Len(calls[t]) <= Len(Program[t])
               /\ \A i \in 1..Len(calls[t]) : calls[t][i] = Program[t][Made(t) + i]
    <3>1. calls[t] \in Seq(Calls) /\ Len(calls[t]) <= Len(Program[t])
      BY <1>2, <1>3
    <3>2. \A i \in 1..Len(calls[t]) : Made(t) + i = i
      BY <1>3
    <3> QED BY <3>1, <3>2, <1>2
  <2> QED BY <2>1, <2>2 DEF CallsInv
<1>6. \A w \in Workers : /\ Range(queue[w]) = IF w = First THEN {MainTask} ELSE {}
                         /\ queue[w] \in Seq(TaskIds) /\ Distinct(queue[w])
  <2>1. \A w \in Workers : queue[w] = IF w = First THEN <<MainTask>> ELSE <<>>
    BY DEF Init
  <2>2. MainTask \in TaskIds
    BY <1>0 DEF TaskIds
  <2>3. <<MainTask>> \in Seq(TaskIds) /\ Range(<<MainTask>>) = {MainTask} /\ Distinct(<<MainTask>>)
    BY <2>2 DEF Range, Distinct
  <2>4. <<>> \in Seq(TaskIds) /\ Range(<<>>) = {} /\ Distinct(<<>>)
    BY DEF Range, Distinct
  <2> QED BY <2>1, <2>3, <2>4
<1>7. \A n \in Numa : Range(shared[n]) = {} /\ shared[n] \in Seq(TaskIds) /\ Distinct(shared[n])
  BY DEF Init, Range, Distinct
<1>8. queue \in [Workers -> Seq(TaskIds)] /\ shared \in [Numa -> Seq(TaskIds)]
  <2>1. queue = [w \in Workers |-> queue[w]] /\ shared = [n \in Numa |-> shared[n]]
    BY DEF Init
  <2> QED BY <1>6, <1>7, <2>1
<1>9. QueuesInv /\ InQueue = {MainTask}
  <2>1. Held(shared) = {}
    BY <1>7, <1>8 DEF Held
  <2>2. Held(queue) = {MainTask}
    BY <1>0, <1>6, <1>8 DEF Held
  <2>3. Separate(queue) /\ Separate(shared)
    BY <1>6, <1>7, <1>8 DEF Separate
  <2> QED BY <1>8, <2>1, <2>2, <2>3 DEF QueuesInv, InQueue, Family
<1>10. OnceInv
  BY <1>0, <1>9 DEF Init, OnceInv, TaskIds
<1>11. PlaceInv
  BY DEF Init, PlaceInv, Busy
<1>12. CountInv
  <2>1. Live = {MainTask} /\ Destroying = {}
    BY <1>0, <1>9 DEF Init, Live, Destroying, TaskIds
  <2>2. Token = 1
    BY <1>4 DEF Token
  <2>3. IsFiniteSet(Live) /\ Cardinality(Live) = 1 /\ Cardinality(Destroying) = 0
    BY <2>1, FS_Singleton, FS_EmptySet
  <2>4. count = 2
    BY DEF Init
  <2> QED BY <2>2, <2>3, <2>4 DEF CountInv
<1>13. BarrierInv
  BY <1>0, <1>9 DEF Init, BarrierInv, TaskIds
<1> QED BY <1>1, <1>5, <1>9, <1>10, <1>11, <1>12, <1>13 DEF Init, TInv

(* Every step keeps the tasks in order.                                    *)
LEMMA TasksHold == IInv /\ [Next]_vars => TInv'
<1> SUFFICES ASSUME IInv, [Next]_vars PROVE TInv'
  OBVIOUS
<1>0. TInv /\ PcType /\ rounds \in [Workers -> 0..Patience + 1]
  BY DEF IInv, BInv, BlockerTypes, PcType, TInv, TaskTypes
<1> DEFINE Idle(v) ==
      \/ pc'[v] = pc[v]
      \/ pc[v] \notin Busy \cup {"exited"} /\ pc'[v] \notin Busy \cup {"exited"}
      \/ pc[v] \notin Busy \cup {"exited"} /\ pc'[v] = "exited" /\ (NeighboursDiffer => shutdown)
      \/ pc[v] \in {"stop", "adjust"} /\ pc'[v] \in {"stop", "adjust"}
<1>1. ASSUME NEW w \in Workers, BlockerStep(w) PROVE TInv'
  <2>1. UNCHANGED <<task, calls, executed, queue, shared, rounds, count, shutdown, faults>>
    BY <1>1 DEF BlockerStep, Top, Check, Fix, Drop, Lock, Last, Read, Raise, Resumed,
                IndexCheck, IndexLeave, IndexEnter, taskVars
  <2>2. \A v \in Workers : v # w => pc'[v] = pc[v]
    BY <1>0, <1>1 DEF BlockerStep, Top, Check, Fix, Drop, Lock, Last, Read, Raise, Resumed,
                      IndexCheck, IndexLeave, IndexEnter, Goto, PcType
  <2>3. Idle(w)
    BY <1>0, <1>1 DEF BlockerStep, Top, Check, Fix, Drop, Lock, Last, Read, Raise, Resumed,
                      IndexCheck, IndexLeave, IndexEnter, Goto, PcType, Inside, Busy
  <2> QED BY <1>0, <2>1, <2>2, <2>3, IdleStep
<1>2. ASSUME NEW w \in Workers, FindStep(w) PROVE TInv'
  <2>1. CASE PopOwn(w)
    <3>1. queue[w] # <<>> /\ queue' = Popped(queue, w) /\ shared' = shared /\ pc[w] = "find"
      BY <2>1 DEF PopOwn, Takes, Popped
    <3>2. Takes(w, Head(queue[w]), queue', shared')
      BY <2>1 DEF PopOwn, Takes
    <3> QED BY <1>0, <3>1, <3>2, PopOwnStep, TakeStep DEF TInv
  <2>2. CASE PopNode(w)
    <3> DEFINE n == NodeOf[w]
    <3>1. shared[n] # <<>> /\ shared' = Popped(shared, n) /\ queue' = queue /\ pc[w] = "find" /\ n \in Numa
      BY <2>2, SchedulerAssumption DEF PopNode, Takes, Popped
    <3>2. Takes(w, Head(shared[n]), queue', shared')
      BY <2>2 DEF PopNode, Takes
    <3> QED BY <1>0, <3>1, <3>2, PopSharedStep, TakeStep DEF TInv
  <2>3. CASE StealShared(w)
    <3> DEFINE n == Neighbour(w)
    <3>1. shared[n] # <<>> /\ shared' = Popped(shared, n) /\ queue' = queue /\ pc[w] = "find" /\ n \in Numa
      BY <2>3, SchedulerAssumption DEF StealShared, Unprovided, Takes, Popped, Neighbour
    <3>2. Takes(w, Head(shared[n]), queue', shared')
      BY <2>3 DEF StealShared, Takes
    <3> QED BY <1>0, <3>1, <3>2, PopSharedStep, TakeStep DEF TInv
  <2>4. CASE Steal(w)
    <3>1. PICK v \in Victims(w) : Takes(w, Head(queue[v]), [queue EXCEPT ![v] = Tail(@)], shared)
      BY <2>4 DEF Steal
    <3>2. v \in Workers /\ queue[v] # <<>> /\ queue' = Popped(queue, v) /\ shared' = shared /\ pc[w] = "find"
      BY <2>4, <3>1 DEF Steal, Foraging, Unprovided, Victims, Takes, Popped
    <3>3. Takes(w, Head(queue[v]), queue', shared')
      BY <3>1 DEF Takes
    <3> QED BY <1>0, <3>2, <3>3, PopOwnStep, TakeStep DEF TInv
  <2>5. CASE FindNothing(w)
    <3>1. /\ pc[w] = "find" /\ pc' = [pc EXCEPT ![w] = IF Quits(w) THEN "exited" ELSE "top"]
          /\ UNCHANGED <<task, calls, executed, queue, shared, count, shutdown, faults>>
      BY <2>5 DEF FindNothing, Foraging, Unprovided, Goto
    <3>2. rounds' \in [Workers -> 0..Patience + 1]
      BY <1>0, <2>5, SchedulerAssumption DEF FindNothing
    <3>3. Quits(w) => ~NeighboursDiffer
      BY SchedulerAssumption DEF Quits, Roaming, Neighbour, NeighboursDiffer
    <3>4. \A v \in Workers : Idle(v)
      BY <1>0, <3>1, <3>3 DEF PcType, Busy
    <3> QED BY <1>0, <3>1, <3>2, <3>4, IdleStep
  <2> QED BY <1>2, <2>1, <2>2, <2>3, <2>4, <2>5 DEF FindStep
<1>3. ASSUME NEW w \in Workers, ExecuteStep(w) PROVE TInv'
  <2>1. CASE Call(w)
    BY <1>0, <2>1, SpawnStep, ShutdownStep
  <2>2. CASE Hold(w)
    BY <1>0, <2>2, HoldStep
  <2>3. CASE Destroy(w)
    BY <1>0, <2>3, DestroyStep
  <2>4. CASE Release(w)
    BY <1>0, <2>4, ReleaseStep
  <2>5. CASE Close(w)
    <3>1. UNCHANGED <<task, calls, executed, queue, shared, rounds, count, shutdown, faults>>
      BY <2>5 DEF Close, taskVars
    <3>2. \A v \in Workers : Idle(v)
      BY <1>0, <2>5 DEF Close, Goto, PcType, Busy
    <3> QED BY <1>0, <3>1, <3>2, IdleStep
  <2>6. CASE Open(w)
    <3>1. UNCHANGED <<task, calls, executed, queue, shared, rounds, count, shutdown, faults>>
      BY <2>6 DEF Open, taskVars
    <3>2. \A v \in Workers : Idle(v)
      BY <1>0, <2>6 DEF Open, Woken, PcType, Busy
    <3> QED BY <1>0, <3>1, <3>2, IdleStep
  <2>7. CASE IndexClose(w)
    <3>1. UNCHANGED <<task, calls, executed, queue, shared, rounds, count, shutdown, faults>>
      BY <2>7 DEF IndexClose, taskVars
    <3>2. \A v \in Workers : Idle(v)
      BY <1>0, <2>7 DEF IndexClose, Awake, PcType, Busy
    <3> QED BY <1>0, <3>1, <3>2, IdleStep
  <2>8. CASE Halt(w)
    <3>1. /\ pc[w] = "stop" /\ shutdown' = TRUE /\ pc' = [pc EXCEPT ![w] = "exited"]
          /\ UNCHANGED <<task, calls, executed, queue, shared, rounds, count, faults>>
      BY <2>8 DEF Halt, Goto, taskVars
    <3>2. TaskTypes' /\ CallsInv' /\ QueuesInv' /\ PlaceInv'
      BY <1>0, <3>1 DEF TInv, TaskTypes, CallsInv, QueuesInv, PlaceInv, Made, PcType, Busy
    <3>3. InQueue' = InQueue /\ Live' = Live /\ Destroying' = Destroying /\ \A d : Called(d)' <=> Called(d)
      BY <1>0, <3>1 DEF InQueue, Live, Destroying, Called, Made, PcType
    <3>4. OnceInv' /\ CountInv'
      BY <1>0, <3>1, <3>3 DEF TInv, OnceInv, CountInv, Token
    <3>5. BarrierInv'
      BY <1>0, <3>1, <3>3 DEF TInv, BarrierInv, PcType
    <3> QED BY <1>0, <3>1, <3>2, <3>4, <3>5 DEF TInv
  <2> QED BY <1>3, <2>1, <2>2, <2>3, <2>4, <2>5, <2>6, <2>7, <2>8 DEF ExecuteStep
<1>4. CASE Adjust
  <2>1. UNCHANGED <<task, calls, executed, queue, shared, rounds, count, shutdown, faults>>
    BY <1>4 DEF Adjust, taskVars
  <2>2. \A v \in Workers : Idle(v)
    BY <1>0, <1>4 DEF Adjust, Woken, PcType, Busy
  <2> QED BY <1>0, <2>1, <2>2, IdleStep
<1>5. CASE Instruct
  <2>1. UNCHANGED <<task, calls, executed, queue, shared, rounds, count, shutdown, faults>>
    BY <1>5 DEF Instruct, taskVars
  <2>2. \A v \in Workers : Idle(v)
    BY <1>0, <1>5 DEF Instruct, Awake, PcType, Busy
  <2> QED BY <1>0, <2>1, <2>2, IdleStep
<1>6. CASE UNCHANGED vars
  BY <1>0, <1>6, IdleStep DEF vars, taskVars
<1> QED BY <1>1, <1>2, <1>3, <1>4, <1>5, <1>6 DEF Next, WorkerStep, Terminated

(* The inductive invariant.                                                *)
THEOREM Inductive == Spec => []IInv
<1>1. Init => IInv
  BY BlockersStart, TasksStart DEF IInv
<1>2. IInv /\ [Next]_vars => IInv'
  BY BlockersHold, TasksHold DEF IInv
<1> QED BY <1>1, <1>2, PTL DEF Spec

(* The runtime shuts down after every task that was spawned has been       *)
(* executed, once, and the count of the barrier is never zero before.      *)
THEOREM Waits == NeighboursDiffer => (Spec => []WaitsForAllTasks)
<1> SUFFICES ASSUME NeighboursDiffer PROVE Spec => []WaitsForAllTasks
  OBVIOUS
<1>1. IInv => WaitsForAllTasks
  <2> SUFFICES ASSUME IInv PROVE WaitsForAllTasks
    OBVIOUS
  <2>0. First \in Workers /\ None \notin TaskIds
    BY SchedulerAssumption DEF TaskIds
  <2>1. faults = {} /\ \A t \in Tasks \cup {Barrier} : executed[t] <= 1
    BY DEF IInv, TInv, OnceInv, TaskIds
  <2>2. ASSUME shutdown \/ pc[First] = "exited"
        PROVE  Queued = {} /\ executed[Barrier] = 1 /\ \A w \in Workers : task[w] \in {None, Barrier}
    <3>1. executed[Barrier] = 1 /\ ~(count > 0) /\ count \in Nat
      BY <2>0, <2>2 DEF IInv, TInv, BarrierInv, TaskTypes
    <3>2. Live = {}
      <4>1. IsFiniteSet(Live) /\ Cardinality(Live) \in Nat /\ Token \in {0, 1}
            /\ count = Token + Cardinality(Live) + Cardinality(Destroying)
        BY FS_CardinalityType DEF IInv, TInv, CountInv, Token
      <4>2. Cardinality(Live) = 0
        BY <3>1, <4>1, DestroyingFinite
      <4> QED BY <4>1, <4>2, FS_EmptySet
    <3>3. Barrier \notin InQueue
      BY <3>1 DEF IInv, TInv, OnceInv
    <3>4. InQueue \subseteq TaskIds
      <4>1. \A w \in Workers : Range(queue[w]) \subseteq TaskIds
        BY DEF IInv, TInv, QueuesInv, Family, Range
      <4>2. \A n \in Numa : Range(shared[n]) \subseteq TaskIds
        BY DEF IInv, TInv, QueuesInv, Family, Range
      <4>3. DOMAIN queue = Workers /\ DOMAIN shared = Numa
        BY DEF IInv, TInv, QueuesInv, Family
      <4> QED BY <4>1, <4>2, <4>3 DEF InQueue, Held
    <3>5. Queued = {}
      BY <3>2, <3>3, <3>4, QueuedIsInQueue DEF IInv, TInv, Live, TaskIds
    <3>6. \A w \in Workers : task[w] \in {None, Barrier}
      BY <3>2 DEF IInv, TInv, TaskTypes, Live, TaskIds
    <3> QED BY <3>1, <3>5, <3>6
  <2> QED BY <2>1, <2>2 DEF WaitsForAllTasks
<1> QED BY <1>1, Inductive, PTL

(* The blockers count the threads that run, and no thread sleeps in one    *)
(* that is wanted.                                                         *)
THEOREM Blockers == Spec => []BlockersSound
<1>1. IInv => BlockersSound
  <2> SUFFICES ASSUME IInv PROVE BlockersSound
    OBVIOUS
  <2>1. TypeOK
    <3>1. ASSUME NEW n \in Numa
          PROVE  /\ current[n] = Cardinality({w \in Workers : NodeOf[w] = n /\ Running(w)})
                 /\ desired[n] \in Nat /\ closing[n] \in BOOLEAN
                 /\ holder[n] \in {w \in Workers : NodeOf[w] = n} \cup {None}
      BY DEF IInv, BInv, BlockerTypes, CountersRight, HoldersRight, Latched, Up, Crew
    <3>2. ASSUME NEW w \in Workers
          PROVE  /\ task[w] \in Tasks \cup {Barrier, None}
                 /\ queue[w] \in Seq(Tasks \cup {Barrier}) /\ rounds[w] \in 0..Patience + 1
      BY DEF IInv, TInv, TaskTypes, QueuesInv, Family, TaskIds
    <3>3. count \in Nat /\ shutdown \in BOOLEAN
      BY DEF IInv, TInv, TaskTypes
    <3> QED BY <3>1, <3>2, <3>3 DEF TypeOK
  <2>2. ASSUME NEW n \in Numa, Asleep(n) # {}, Returning(n) = {} PROVE current[n] >= desired[n]
    <3>1. Crew(n) \ Asleep(n) \subseteq Up(n) /\ Up(n) \subseteq Crew(n) \ Asleep(n)
      BY <2>2 DEF Crew, Up, Asleep, Returning, Running
    <3>2. Cardinality(Crew(n) \ Asleep(n)) >= desired[n]
      BY <2>2 DEF IInv, BInv, SleepersSpared
    <3>3. Crew(n) \ Asleep(n) = Up(n)
      BY <3>1
    <3> QED BY <3>2, <3>3 DEF IInv, BInv, CountersRight
  <2>3. NoSleeperForgotten
    BY <2>2 DEF NoSleeperForgotten, IInv, BInv, BlockedSleep
  <2> QED BY <2>1, <2>3 DEF BlockersSound
<1> QED BY <1>1, Inductive, PTL
=============================================================================
