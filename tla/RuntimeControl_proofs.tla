----------------------- MODULE RuntimeControl_proofs -----------------------
(***************************************************************************)
(* Proofs about RuntimeControl: no node leaves the barrier early; a pause  *)
(* stops the program, empties the channels and loses nothing.              *)
(***************************************************************************)
EXTENDS RuntimeControl, FiniteSetTheorems, TLAPS

-----------------------------------------------------------------------------
(***************************************************************************)
(* How often a message is in a queue, and how that number changes when     *)
(* messages are appended and taken; and the sequence made of a set.        *)
(***************************************************************************)
Places(s, x) == {i \in 1..Len(s) : s[i] = x}
Count(s, x)  == Cardinality(Places(s, x))

(* The number is a natural number, not zero for what is in the sequence.   *)
LEMMA CountType ==
  ASSUME NEW S, NEW s \in Seq(S), NEW x
  PROVE  /\ IsFiniteSet(Places(s, x)) /\ Count(s, x) \in Nat
         /\ Count(s, x) = 0 <=> \A i \in 1..Len(s) : s[i] # x
<1>1. IsFiniteSet(1..Len(s)) /\ Places(s, x) \subseteq 1..Len(s)
  BY FS_Interval DEF Places
<1>2. IsFiniteSet(Places(s, x))
  BY <1>1, FS_Subset
<1>3. Count(s, x) \in Nat /\ (Count(s, x) = 0 <=> Places(s, x) = {})
  BY <1>2, FS_CardinalityType, FS_EmptySet DEF Count
<1> QED BY <1>2, <1>3 DEF Places

(* Nothing is in the empty sequence.                                       *)
LEMMA CountEmpty ==
  ASSUME NEW x
  PROVE  Count(<<>>, x) = 0
<1>1. Places(<<>>, x) = {}
  BY DEF Places
<1> QED BY <1>1, FS_EmptySet DEF Count

(* A message is in its own sequence once.                                  *)
LEMMA CountSingle ==
  ASSUME NEW x, NEW y
  PROVE  Count(<<y>>, x) = IF x = y THEN 1 ELSE 0
<1>1. Places(<<y>>, x) = IF x = y THEN {1} ELSE {}
  BY DEF Places
<1> QED BY <1>1, FS_EmptySet, FS_Singleton DEF Count

(* Taking the head.                                                        *)
LEMMA CountTail ==
  ASSUME NEW S, NEW s \in Seq(S), s # <<>>, NEW x
  PROVE  Count(s, x) = Count(Tail(s), x) + IF Head(s) = x THEN 1 ELSE 0
<1> DEFINE t == Tail(s)
           A == Places(s, x) \ {1}
           f == [i \in A |-> i - 1]
<1>1. /\ t \in Seq(S) /\ Len(s) \in Nat /\ Len(s) > 0 /\ Head(s) = s[1] /\ Len(t) = Len(s) - 1
      /\ \A i \in 1..Len(s) - 1 : t[i] = s[i + 1]
  OBVIOUS
<1>2. IsFiniteSet(Places(s, x)) /\ IsFiniteSet(A) /\ IsFiniteSet(Places(t, x))
  BY <1>1, CountType, FS_RemoveElement
<1>3. f \in Bijection(A, Places(t, x))
  <2>1. \A i \in A : i - 1 \in Places(t, x)
    BY <1>1 DEF Places
  <2>2. \A i, j \in A : i - 1 = j - 1 => i = j
    BY DEF Places
  <2>3. \A j \in Places(t, x) : j + 1 \in A /\ (j + 1) - 1 = j
    BY <1>1 DEF Places
  <2>4. f \in [A -> Places(t, x)]
    BY <2>1
  <2>5. f \in Injection(A, Places(t, x))
    BY <2>2, <2>4 DEF Injection, IsInjective
  <2>6. f \in Surjection(A, Places(t, x))
    BY <2>3, <2>4 DEF Surjection
  <2> QED BY <2>5, <2>6 DEF Bijection
<1>4. Cardinality(Places(t, x)) = Cardinality(A)
  BY <1>2, <1>3, FS_Bijection DEF ExistsBijection
<1>5. 1 \in Places(s, x) <=> Head(s) = x
  BY <1>1 DEF Places
<1> QED BY <1>2, <1>4, <1>5, FS_RemoveElement, FS_CardinalityType DEF Count

(* Appending a sequence.                                                   *)
LEMMA CountConcat ==
  ASSUME NEW S, NEW s \in Seq(S), NEW t \in Seq(S), NEW x
  PROVE  s \o t \in Seq(S) /\ Count(s \o t, x) = Count(s, x) + Count(t, x)
<1> DEFINE u == s \o t
           A == Places(s, x)
           B == {i \in Places(u, x) : i > Len(s)}
           f == [i \in Places(t, x) |-> i + Len(s)]
<1>1. /\ u \in Seq(S) /\ Len(s) \in Nat /\ Len(t) \in Nat /\ Len(u) = Len(s) + Len(t)
      /\ \A i \in 1..Len(s) : u[i] = s[i]
      /\ \A i \in 1..Len(t) : u[i + Len(s)] = t[i]
  OBVIOUS
<1>2. Places(u, x) = A \cup B /\ A \cap B = {}
  BY <1>1 DEF Places
<1>3. IsFiniteSet(A) /\ IsFiniteSet(B) /\ IsFiniteSet(Places(t, x))
  <2>1. IsFiniteSet(Places(u, x)) /\ B \subseteq Places(u, x)
    BY <1>1, CountType
  <2> QED BY <2>1, CountType, FS_Subset
<1>4. f \in Bijection(Places(t, x), B)
  <2>1. \A i \in Places(t, x) : i + Len(s) \in B
    BY <1>1 DEF Places
  <2>2. \A i, j \in Places(t, x) : i + Len(s) = j + Len(s) => i = j
    BY <1>1 DEF Places
  <2>3. \A j \in B : j - Len(s) \in Places(t, x) /\ (j - Len(s)) + Len(s) = j
    BY <1>1 DEF Places
  <2>4. f \in [Places(t, x) -> B]
    BY <2>1
  <2>5. f \in Injection(Places(t, x), B)
    BY <2>2, <2>4 DEF Injection, IsInjective
  <2>6. f \in Surjection(Places(t, x), B)
    BY <2>3, <2>4 DEF Surjection
  <2> QED BY <2>5, <2>6 DEF Bijection
<1>5. Cardinality(B) = Cardinality(Places(t, x))
  BY <1>3, <1>4, FS_Bijection DEF ExistsBijection
<1>6. Cardinality(A \cup B) = Cardinality(A) + Cardinality(B) - Cardinality(A \cap B)
  BY <1>3, FS_Union
<1> HIDE DEF A, B, f
<1>7. Cardinality(A \cap B) = 0 /\ Cardinality(A) \in Nat /\ Cardinality(B) \in Nat
  BY <1>2, <1>3, FS_EmptySet, FS_CardinalityType
<1>8. Cardinality(Places(u, x)) = Cardinality(A) + Cardinality(Places(t, x))
  BY <1>2, <1>5, <1>6, <1>7
<1> QED BY <1>1, <1>8 DEF Count, A

(* The sequence made of a finite set has every element once.               *)
LEMMA SetToSeqOnce ==
  ASSUME NEW S, IsFiniteSet(S)
  PROVE  /\ SetToSeq(S) \in Seq(S) /\ Len(SetToSeq(S)) = Cardinality(S)
         /\ DOMAIN SetToSeq(S) = 1..Cardinality(S) /\ Cardinality(S) \in Nat
         /\ \A x \in S : \E i \in 1..Cardinality(S) : SetToSeq(S)[i] = x
         /\ \A i, j \in 1..Cardinality(S) : SetToSeq(S)[i] = SetToSeq(S)[j] => i = j
<1> DEFINE n == Cardinality(S)
           s == SetToSeq(S)
<1>1. n \in Nat /\ \E f : f \in Bijection(1..n, S)
  BY FS_CardinalityType DEF ExistsBijection
<1>2. PICK f : f \in Bijection(1..n, S)
  BY <1>1
<1>3. f \in [1..n -> S] /\ IsInjective(f)
  BY <1>2 DEF Bijection, Injection
<1>4. s \in [1..n -> S] /\ IsInjective(s)
  BY <1>3 DEF SetToSeq
<1>5. s \in Seq(S) /\ Len(s) = n /\ DOMAIN s = 1..n
  BY <1>1, <1>4
<1>6. \A i, j \in 1..n : s[i] = s[j] => i = j
  BY <1>4 DEF IsInjective
<1>7. s \in Surjection(1..n, S)
  <2>1. s \in Injection(1..n, S)
    BY <1>4 DEF Injection
  <2>2. IsFiniteSet(1..n) /\ Cardinality(1..n) = n
    BY <1>1, FS_Interval
  <2> QED BY <2>1, <2>2, FS_Injection
<1>8. \A x \in S : \E i \in 1..n : s[i] = x
  BY <1>7 DEF Surjection
<1> QED BY <1>1, <1>5, <1>6, <1>8

(* In the sequence made of a finite set every element counts once.         *)
LEMMA CountSet ==
  ASSUME NEW S, IsFiniteSet(S), NEW x
  PROVE  Count(SetToSeq(S), x) = IF x \in S THEN 1 ELSE 0
<1> DEFINE s == SetToSeq(S)
<1>1. /\ s \in Seq(S) /\ Len(s) = Cardinality(S)
      /\ \A y \in S : \E i \in 1..Cardinality(S) : s[i] = y
      /\ \A i, j \in 1..Cardinality(S) : s[i] = s[j] => i = j
  BY SetToSeqOnce
<1> HIDE DEF s
<1>2. CASE x \in S
  <2>1. PICK i \in 1..Len(s) : s[i] = x
    BY <1>1, <1>2
  <2>2. Places(s, x) = {i}
    BY <1>1, <2>1 DEF Places
  <2> QED BY <1>2, <2>2, FS_Singleton DEF Count, s
<1>3. CASE x \notin S
  <2>1. \A i \in 1..Len(s) : s[i] \in S
    BY <1>1
  <2>2. Places(s, x) = {}
    BY <1>3, <2>1 DEF Places
  <2> QED BY <1>3, <2>2, FS_EmptySet DEF Count, s
<1> QED BY <1>2, <1>3

(* What is not in the set is not in a sequence over it.                    *)
LEMMA CountNone ==
  ASSUME NEW S, NEW s \in Seq(S), NEW x, x \notin S
  PROVE  Count(s, x) = 0
<1>1. \A i \in 1..Len(s) : s[i] \in S
  OBVIOUS
<1> QED BY <1>1, CountType

(* Taking the head and appending keep to the set of messages.              *)
LEMMA TailType ==
  ASSUME NEW S, NEW s \in Seq(S), s # <<>>
  PROVE  Head(s) \in S /\ Tail(s) \in Seq(S)
OBVIOUS

-----------------------------------------------------------------------------
(***************************************************************************)
(* The messages there are, and where they may be.                          *)
(***************************************************************************)
Controls == {"barrier", "barrier_done", "pause", "paused", "start_flush", "flush", "reflush",
             "flushed", "resume", "shutdown"}
Msgs == {x \in [cmd : Controls \cup {"work"}, to : Nodes \cup {Null}, token : Tokens \cup {Null}] :
           /\ IF x.cmd = "work" THEN x.token \in Tokens ELSE x.token = Null
           /\ x.to = Null => x.cmd \in {"flush", "reflush"}}

(* A message of the barrier goes to the root, its answer comes from it.    *)
Plain      == {x \in Msgs : x.cmd \notin {"barrier", "barrier_done"}}
ToBarrier  == Message("barrier", Root)
Done(n)    == Message("barrier_done", n)
OfBarrier  == {ToBarrier} \cup {Done(k) : k \in Nodes}
Outgoing(n) == Plain \cup {ToBarrier} \cup {Done(k) : k \in IF n = Root THEN Nodes ELSE {}}
Crossing(m, n) ==
  {x \in Plain : x.to = n} \cup (IF n = Root THEN {ToBarrier} ELSE {})
                           \cup (IF m = Root THEN {Done(n)} ELSE {})

Handled  == {x \in Plain : x.cmd \in {"work", "shutdown", "pause"}}
Receiving == {Idle} \cup {Busy(at, x) : at \in {"handle", "park"}, x \in Handled}
               \cup {Resuming(i) : i \in Nat \ {0}} \cup {Clearing(i) : i \in Nat \ {0}}

QueueType == /\ queue \in [Nodes -> Seq(Msgs)]
             /\ \A n \in Nodes : queue[n] \in Seq(Outgoing(n))
WireType  == /\ wire \in [Nodes -> [Nodes -> Seq(Msgs)]]
             /\ \A m, n \in Nodes : wire[m][n] \in Seq(Crossing(m, n))
NodeType ==
  /\ receiver \in [Nodes -> [Nodes -> Receiving]]
  /\ messages \in [Nodes -> Seq(Handled)]
  /\ deferred \in [Nodes -> SUBSET Tokens] /\ running \in [Nodes -> SUBSET Tokens]

(* The forms of a message.                                                 *)
LEMMA MessageForms ==
  /\ \A t \in Tokens, n \in Nodes : TokenMessage(t, n) \in Plain /\ TokenMessage(t, n) \in Handled
  /\ \A c \in Controls \ {"barrier", "barrier_done"}, n \in Nodes : Message(c, n) \in Plain
  /\ \A c \in {"flush", "reflush"} : Loopback(c) \in Plain
  /\ \A n \in Nodes : Done(n) \in Msgs /\ Done(n).to = n
  /\ ToBarrier \in Msgs /\ ToBarrier \notin Plain /\ \A n \in Nodes : Done(n) \notin Plain
  /\ \A n \in Nodes : ToBarrier # Done(n)
  /\ \A m, n \in Nodes : Done(m) = Done(n) => m = n
  /\ \A x \in Handled : x.cmd = "work" => x.token \in Tokens
  /\ Plain \subseteq Msgs
<1>0. Root \in Nodes /\ Null \notin Tokens \cup Nodes
  BY ControlAssumption
<1> USE DEF Msgs, Controls, Plain, Handled, TokenMessage, Message, Loopback, ToBarrier, Done
<1>1. \A t \in Tokens, n \in Nodes : TokenMessage(t, n) \in Plain /\ TokenMessage(t, n) \in Handled
  BY <1>0
<1>2. \A c \in Controls \ {"barrier", "barrier_done"}, n \in Nodes : Message(c, n) \in Plain
  BY <1>0
<1>3. \A c \in {"flush", "reflush"} : Loopback(c) \in Plain
  BY <1>0
<1>4. \A n \in Nodes : Done(n) \in Msgs /\ Done(n).to = n
  BY <1>0
<1>5. ToBarrier \in Msgs /\ ToBarrier \notin Plain /\ \A n \in Nodes : Done(n) \notin Plain
  BY <1>0
<1>6. \A n \in Nodes : ToBarrier # Done(n)
  BY <1>0
<1>7. \A m, n \in Nodes : Done(m) = Done(n) => m = n
  BY <1>0
<1>8. \A x \in Handled : x.cmd = "work" => x.token \in Tokens
  BY <1>0
<1> HIDE DEF Msgs, Controls, Handled, TokenMessage, Message, Loopback, ToBarrier, Done
<1> QED BY <1>1, <1>2, <1>3, <1>4, <1>5, <1>6, <1>7, <1>8

-----------------------------------------------------------------------------
(***************************************************************************)
(* The barrier.                                                            *)
(***************************************************************************)
Size    == Cardinality(Nodes)
Round0  == arrived \div Size
InRound(n) == Count(queue[n], ToBarrier) + Count(wire[n][Root], ToBarrier)
Answers(n) == Count(queue[Root], Done(n)) + Count(wire[Root][n], Done(n))
Counted == {n \in Nodes : entered[n] = Round0 + 1 /\ InRound(n) = 0}

CountersType ==
  /\ arrived \in Nat /\ released \in [Nodes -> BOOLEAN]
  /\ entered \in [Nodes -> Nat] /\ passed \in [Nodes -> Nat]
  /\ Round0 \in Nat

(* Round0 rounds are complete.  A node is in the round after them, in      *)
(* which case it has left the last one and no answer is under way to it,   *)
(* or in the last one; its message is under way or counted.                *)
RoundInv(n) ==
  /\ passed[n] <= entered[n] /\ entered[n] <= passed[n] + 1
  /\ entered[n] \in {Round0, Round0 + 1}
  /\ entered[n] = Round0 + 1 => passed[n] = Round0 /\ ~released[n] /\ Answers(n) = 0
  /\ InRound(n) \in {0, 1} /\ (InRound(n) = 1 => entered[n] = Round0 + 1)
  /\ Answers(n) \in {0, 1} /\ (Answers(n) = 1 => passed[n] < entered[n] /\ ~released[n])

BarInv ==
  /\ QueueType /\ WireType /\ CountersType
  /\ arrived = Size * Round0 + Cardinality(Counted)
  /\ \A n \in Nodes : RoundInv(n)
-----------------------------------------------------------------------------
(***************************************************************************)
(* What a step does to the messages under way.                             *)
(***************************************************************************)
(* Posting adds to the count of a message in one queue.                    *)
LEMMA PostStep ==
  ASSUME QueueType, NEW n \in Nodes, NEW msgs \in Seq(Outgoing(n)), Post(n, msgs)
  PROVE  /\ QueueType'
         /\ \A k \in Nodes : \A x : Count(queue'[k], x) = Count(queue[k], x) + IF k = n THEN Count(msgs, x) ELSE 0
<1>0. \A k \in Nodes : Outgoing(k) \subseteq Msgs
  BY MessageForms DEF Outgoing
<1>1. queue[n] \in Seq(Outgoing(n)) /\ queue \in [Nodes -> Seq(Msgs)]
  BY DEF QueueType
<1>2. queue' = [queue EXCEPT ![n] = queue[n] \o msgs]
  BY DEF Post
<1>3. queue[n] \o msgs \in Seq(Outgoing(n)) /\ queue[n] \o msgs \in Seq(Msgs)
  BY <1>0, <1>1
<1>4. QueueType'
  BY <1>1, <1>2, <1>3 DEF QueueType
<1>5. ASSUME NEW k \in Nodes, NEW x
      PROVE  Count(queue'[k], x) = Count(queue[k], x) + IF k = n THEN Count(msgs, x) ELSE 0
  <2>1. CASE k = n
    <3>1. queue'[k] = queue[n] \o msgs
      BY <1>1, <1>2, <2>1
    <3>2. Count(queue[n] \o msgs, x) = Count(queue[n], x) + Count(msgs, x)
      BY <1>1, CountConcat
    <3> QED BY <2>1, <3>1, <3>2
  <2>2. CASE k # n
    <3>1. queue'[k] = queue[k] /\ queue[k] \in Seq(Msgs)
      BY <1>1, <1>2, <2>2
    <3>2. Count(queue[k], x) \in Nat
      BY <3>1, CountType
    <3> QED BY <2>2, <3>1, <3>2
  <2> QED BY <2>1, <2>2
<1> QED BY <1>4, <1>5

(* Receiving takes one message from one wire.                              *)
LEMMA ReceiveStep ==
  ASSUME WireType, NEW m \in Nodes, NEW n \in Nodes, wire[m][n] # <<>>,
         wire' = [wire EXCEPT ![m][n] = Tail(@)]
  PROVE  /\ WireType' /\ Head(wire[m][n]) \in Crossing(m, n) /\ Head(wire[m][n]) \in Msgs
         /\ \A j, k \in Nodes : \A x :
              j # m \/ k # n \/ x # Head(wire[m][n]) => Count(wire'[j][k], x) = Count(wire[j][k], x)
         /\ Count(wire[m][n], Head(wire[m][n])) = Count(wire'[m][n], Head(wire[m][n])) + 1
<1>1. /\ wire[m][n] \in Seq(Crossing(m, n)) /\ wire[m][n] \in Seq(Msgs)
      /\ wire \in [Nodes -> [Nodes -> Seq(Msgs)]]
  BY DEF WireType
<1>2. /\ Tail(wire[m][n]) \in Seq(Crossing(m, n)) /\ Tail(wire[m][n]) \in Seq(Msgs)
      /\ Head(wire[m][n]) \in Crossing(m, n) /\ Head(wire[m][n]) \in Msgs
  BY <1>1, TailType
<1>3. wire' \in [Nodes -> [Nodes -> Seq(Msgs)]]
      /\ \A j, k \in Nodes : wire'[j][k] = IF j = m /\ k = n THEN Tail(wire[m][n]) ELSE wire[j][k]
  BY <1>1, <1>2
<1>4. WireType'
  BY <1>1, <1>2, <1>3 DEF WireType
<1>5. ASSUME NEW j \in Nodes, NEW k \in Nodes, NEW x, j # m \/ k # n \/ x # Head(wire[m][n])
      PROVE  Count(wire'[j][k], x) = Count(wire[j][k], x)
  <2>1. CASE j = m /\ k = n
    <3>1. Count(wire[m][n], x) = Count(Tail(wire[m][n]), x) + IF Head(wire[m][n]) = x THEN 1 ELSE 0
      BY <1>1, CountTail
    <3>2. Count(Tail(wire[m][n]), x) \in Nat
      BY <1>2, CountType
    <3> QED BY <1>3, <1>5, <2>1, <3>1, <3>2
  <2>2. CASE ~(j = m /\ k = n)
    BY <1>3, <2>2
  <2> QED BY <2>1, <2>2
<1>6. Count(wire[m][n], Head(wire[m][n])) = Count(wire'[m][n], Head(wire[m][n])) + 1
  <2>1. wire'[m][n] = Tail(wire[m][n])
    BY <1>3
  <2> QED BY <1>1, <2>1, CountTail
<1> QED BY <1>2, <1>4, <1>5, <1>6

(* The runner puts on each wire at most one message.                       *)
LEMMA SentStep ==
  ASSUME WireType, NEW n \in Nodes, NEW msgs,
         \A x \in msgs : x.to \in Nodes => x \in Crossing(n, x.to),
         \A x, y \in msgs : x.to = y.to => x = y,
         Sent(n, msgs)
  PROVE  /\ WireType'
         /\ \A j, k \in Nodes : \A x :
              j # n \/ x \notin msgs \/ x.to # k => Count(wire'[j][k], x) = Count(wire[j][k], x)
         /\ \A k \in Nodes, x \in msgs :
              x.to = k => Count(wire'[n][k], x) = Count(wire[n][k], x) + 1
<1>1. wire \in [Nodes -> [Nodes -> Seq(Msgs)]] /\ \A j, k \in Nodes : wire[j][k] \in Seq(Crossing(j, k))
  BY DEF WireType
<1>2. ASSUME NEW k \in Nodes
      PROVE  /\ For(k, msgs) \in Seq(Crossing(n, k))
             /\ \A x : Count(For(k, msgs), x) = IF x \in msgs /\ x.to = k THEN 1 ELSE 0
  <2>1. CASE \E x \in msgs : x.to = k
    <3>1. PICK y \in msgs : y.to = k
      BY <2>1
    <3>2. (CHOOSE x \in msgs : x.to = k) = y
      BY <3>1
    <3>3. For(k, msgs) = <<y>> /\ y \in Crossing(n, k)
      BY <2>1, <3>1, <3>2 DEF For
    <3>4. \A x : x \in msgs /\ x.to = k <=> x = y
      BY <3>1
    <3> QED BY <3>3, <3>4, CountSingle
  <2>2. CASE ~ \E x \in msgs : x.to = k
    <3>1. For(k, msgs) = <<>>
      BY <2>2 DEF For
    <3> QED BY <2>2, <3>1, CountEmpty
  <2> QED BY <2>1, <2>2
<1>3. \A j, k \in Nodes : wire'[j][k] = IF j = n THEN wire[n][k] \o For(k, msgs) ELSE wire[j][k]
  BY <1>1 DEF Sent
<1>4. \A m, k \in Nodes : Crossing(m, k) \subseteq Msgs
  BY MessageForms DEF Crossing
<1>5. \A k \in Nodes : wire[n][k] \o For(k, msgs) \in Seq(Crossing(n, k))
  BY <1>1, <1>2
<1>6. ASSUME NEW j \in Nodes, NEW k \in Nodes
      PROVE  wire'[j][k] \in Seq(Crossing(j, k)) /\ wire'[j][k] \in Seq(Msgs)
  <2>1. wire'[j][k] \in Seq(Crossing(j, k))
    <3>1. CASE j = n
      BY <1>3, <1>5, <3>1
    <3>2. CASE j # n
      BY <1>1, <1>3, <3>2
    <3> QED BY <3>1, <3>2
  <2>2. \A S, T : S \subseteq T => Seq(S) \subseteq Seq(T)
    OBVIOUS
  <2> QED BY <1>4, <2>1, <2>2, Zenon
<1>7. wire' \in [Nodes -> [Nodes -> Seq(Msgs)]]
  <2>1. wire' = [wire EXCEPT ![n] = [k \in Nodes |-> wire[n][k] \o For(k, msgs)]]
    BY DEF Sent
  <2>2. [k \in Nodes |-> wire[n][k] \o For(k, msgs)] \in [Nodes -> Seq(Msgs)]
    BY <1>4, <1>5
  <2> QED BY <1>1, <2>1, <2>2
<1>8. ASSUME NEW j \in Nodes, NEW k \in Nodes, NEW x
      PROVE  Count(wire'[j][k], x) = Count(wire[j][k], x)
               + IF j = n /\ x \in msgs /\ x.to = k THEN 1 ELSE 0
  <2>1. CASE j = n
    <3>1. Count(wire[n][k] \o For(k, msgs), x) = Count(wire[n][k], x) + Count(For(k, msgs), x)
      BY <1>1, <1>2, CountConcat
    <3> QED BY <1>2, <1>3, <2>1, <3>1
  <2>2. CASE j # n
    <3>1. Count(wire[j][k], x) \in Nat
      BY <1>1, CountType
    <3> QED BY <1>3, <2>2, <3>1
  <2> QED BY <2>1, <2>2
<1>9. \A j, k \in Nodes : \A x : Count(wire[j][k], x) \in Nat
  BY <1>1, CountType
<1>10. \A j, k \in Nodes : \A x :
         j # n \/ x \notin msgs \/ x.to # k => Count(wire'[j][k], x) = Count(wire[j][k], x)
  BY <1>8, <1>9
<1>11. \A k \in Nodes, x \in msgs : x.to = k => Count(wire'[n][k], x) = Count(wire[n][k], x) + 1
  BY <1>8, <1>9
<1>12. WireType'
  BY <1>6, <1>7 DEF WireType
<1> QED BY <1>10, <1>11, <1>12

(* The runner takes one message from its queue.                            *)
LEMMA TakenStep ==
  ASSUME QueueType, NEW n \in Nodes, queue[n] # <<>>, queue' = [queue EXCEPT ![n] = Tail(@)]
  PROVE  /\ QueueType' /\ Head(queue[n]) \in Outgoing(n)
         /\ \A k \in Nodes : \A x :
              k # n \/ x # Head(queue[n]) => Count(queue'[k], x) = Count(queue[k], x)
         /\ Count(queue[n], Head(queue[n])) = Count(queue'[n], Head(queue[n])) + 1
<1>1. queue[n] \in Seq(Outgoing(n)) /\ queue \in [Nodes -> Seq(Msgs)] /\ queue[n] \in Seq(Msgs)
  BY DEF QueueType
<1>2. /\ Tail(queue[n]) \in Seq(Outgoing(n)) /\ Tail(queue[n]) \in Seq(Msgs)
      /\ Head(queue[n]) \in Outgoing(n)
  BY <1>1, TailType
<1>3. QueueType' /\ \A k \in Nodes : queue'[k] = IF k = n THEN Tail(queue[n]) ELSE queue[k]
  BY <1>1, <1>2 DEF QueueType
<1>4. ASSUME NEW k \in Nodes, NEW x, k # n \/ x # Head(queue[n])
      PROVE  Count(queue'[k], x) = Count(queue[k], x)
  <2>1. CASE k = n
    <3>1. Count(queue[n], x) = Count(Tail(queue[n]), x) + IF Head(queue[n]) = x THEN 1 ELSE 0
      BY <1>1, CountTail
    <3>2. Count(Tail(queue[n]), x) \in Nat
      BY <1>2, CountType
    <3> QED BY <1>3, <1>4, <2>1, <3>1, <3>2
  <2>2. CASE k # n
    BY <1>3, <2>2
  <2> QED BY <2>1, <2>2
<1>5. Count(queue[n], Head(queue[n])) = Count(queue'[n], Head(queue[n])) + 1
  BY <1>1, <1>3, CountTail
<1> QED BY <1>2, <1>3, <1>4, <1>5

(* The counts of messages are natural numbers.                             *)
LEMMA Counts ==
  ASSUME QueueType, WireType
  PROVE  /\ \A k \in Nodes : \A x : Count(queue[k], x) \in Nat
         /\ \A j, k \in Nodes : \A x : Count(wire[j][k], x) \in Nat
<1>1. \A j, k \in Nodes : queue[k] \in Seq(Msgs) /\ wire[j][k] \in Seq(Msgs)
  BY DEF QueueType, WireType
<1> QED BY <1>1, CountType

(* The arithmetic of the rounds.                                           *)
LEMMA Rounding ==
  ASSUME NEW N \in Nat \ {0}, NEW r \in Nat, NEW c \in 0..N
  PROVE  /\ c < N => (N * r + c) \div N = r /\ (N * r + c) % N = c
         /\ c = N => (N * r + c) \div N = r + 1 /\ (N * r + c) % N = 0 /\ N * r + c = N * (r + 1)
<1>1. ASSUME c < N
      PROVE  (N * r + c) \div N = r /\ (N * r + c) % N = c
  <2>1. c \in 0..N-1
    BY <1>1
  <2> QED BY <2>1
<1>2. ASSUME c = N
      PROVE  (N * r + c) \div N = r + 1 /\ (N * r + c) % N = 0 /\ N * r + c = N * (r + 1)
  <2>1. N * r + c = N * (r + 1) + 0
    BY <1>2
  <2>2. r + 1 \in Nat /\ 0 \in 0..N-1
    OBVIOUS
  <2>3. (N * (r + 1) + 0) \div N = r + 1 /\ (N * (r + 1) + 0) % N = 0
    BY <2>2
  <2> QED BY <2>1, <2>3
<1> QED BY <1>1, <1>2

(* There is a node, the root.                                              *)
LEMMA SizeType == Size \in Nat \ {0} /\ Root \in Nodes /\ IsFiniteSet(Nodes)
<1>1. Root \in Nodes /\ IsFiniteSet(Nodes)
  BY ControlAssumption
<1> QED BY <1>1, FS_CardinalityType, FS_EmptySet DEF Size

(* A step that moves no message of the barrier keeps the invariant.        *)
LEMMA BarQuiet ==
  ASSUME BarInv, QueueType', WireType', UNCHANGED meeting,
         \A n \in Nodes : InRound(n)' = InRound(n) /\ Answers(n)' = Answers(n)
  PROVE  BarInv'
<1>1. Round0' = Round0 /\ UNCHANGED <<arrived, released, entered, passed>>
  BY DEF meeting, Round0, Size
<1>2. Counted' = Counted
  BY <1>1 DEF Counted
<1>3. \A n \in Nodes : RoundInv(n)'
  BY <1>1 DEF BarInv, RoundInv
<1> QED BY <1>1, <1>2, <1>3 DEF BarInv, CountersType, Size

(* Posting messages of other kinds is such a step.                         *)
LEMMA PostPlain ==
  ASSUME BarInv, NEW n \in Nodes, NEW msgs \in Seq(Plain), Post(n, msgs), UNCHANGED <<wire, meeting>>
  PROVE  BarInv'
<1>1. msgs \in Seq(Outgoing(n)) /\ QueueType /\ WireType
  <2>1. Plain \subseteq Outgoing(n)
    BY DEF Outgoing
  <2> QED BY <2>1 DEF BarInv
<1>2. /\ QueueType'
      /\ \A k \in Nodes : \A x : Count(queue'[k], x) = Count(queue[k], x) + IF k = n THEN Count(msgs, x) ELSE 0
  BY <1>1, PostStep
<1>3. \A x \in OfBarrier : Count(msgs, x) = 0
  BY MessageForms, CountNone DEF OfBarrier
<1>4. ASSUME NEW k \in Nodes, NEW x \in OfBarrier
      PROVE  Count(queue'[k], x) = Count(queue[k], x)
  <2>1. Count(queue[k], x) \in Nat
    BY <1>1, Counts
  <2>2. Count(msgs, x) = 0
    BY <1>3
  <2>3. Count(queue'[k], x) = Count(queue[k], x) + IF k = n THEN Count(msgs, x) ELSE 0
    BY <1>2
  <2> QED BY <2>1, <2>2, <2>3
<1>5. \A k \in Nodes : InRound(k)' = InRound(k) /\ Answers(k)' = Answers(k)
  BY <1>4, SizeType DEF InRound, Answers, OfBarrier, Done, ToBarrier, Message
<1>6. WireType'
  BY <1>1 DEF WireType
<1> QED BY <1>2, <1>5, <1>6, BarQuiet

(* A step that touches neither messages nor the barrier.                   *)
LEMMA BarStill ==
  ASSUME BarInv, UNCHANGED <<queue, wire, meeting>>
  PROVE  BarInv'
<1>1. QueueType' /\ WireType'
  BY DEF BarInv, QueueType, WireType
<1>2. \A k \in Nodes : InRound(k)' = InRound(k) /\ Answers(k)' = Answers(k)
  BY DEF InRound, Answers, Done, ToBarrier, Message
<1> QED BY <1>1, <1>2, BarQuiet

(* So is receiving another message, and posting what it calls for.         *)
LEMMA ReceivePlain ==
  ASSUME BarInv, NEW m \in Nodes, NEW n \in Nodes, wire[m][n] # <<>>, Head(wire[m][n]) \in Plain,
         wire' = [wire EXCEPT ![m][n] = Tail(@)],
         NEW msgs \in Seq(Plain), Post(n, msgs), UNCHANGED meeting
  PROVE  BarInv'
<1>1. msgs \in Seq(Outgoing(n)) /\ QueueType /\ WireType
  <2>1. Plain \subseteq Outgoing(n)
    BY DEF Outgoing
  <2> QED BY <2>1 DEF BarInv
<1>2. /\ QueueType'
      /\ \A k \in Nodes : \A x : Count(queue'[k], x) = Count(queue[k], x) + IF k = n THEN Count(msgs, x) ELSE 0
  BY <1>1, PostStep
<1>3. /\ WireType'
      /\ \A j, k \in Nodes : \A x :
           j # m \/ k # n \/ x # Head(wire[m][n]) => Count(wire'[j][k], x) = Count(wire[j][k], x)
  BY <1>1, ReceiveStep
<1>4. \A x \in OfBarrier : Count(msgs, x) = 0
  BY MessageForms, CountNone DEF OfBarrier
<1>5. \A x \in OfBarrier : x # Head(wire[m][n])
  BY MessageForms DEF OfBarrier
<1>6. ASSUME NEW k \in Nodes, NEW x \in OfBarrier
      PROVE  Count(queue'[k], x) = Count(queue[k], x)
  <2>1. Count(queue[k], x) \in Nat
    BY <1>1, Counts
  <2>2. Count(msgs, x) = 0
    BY <1>4
  <2>3. Count(queue'[k], x) = Count(queue[k], x) + IF k = n THEN Count(msgs, x) ELSE 0
    BY <1>2
  <2> QED BY <2>1, <2>2, <2>3
<1>7. \A j, k \in Nodes, x \in OfBarrier : Count(wire'[j][k], x) = Count(wire[j][k], x)
  BY <1>3, <1>5
<1>8. \A k \in Nodes : InRound(k)' = InRound(k) /\ Answers(k)' = Answers(k)
  BY <1>6, <1>7, SizeType DEF InRound, Answers, OfBarrier, Done, ToBarrier, Message
<1> QED BY <1>2, <1>3, <1>8, BarQuiet

(* The runner moves a message of the barrier from its queue to its wire.   *)
LEMMA BarRunner ==
  ASSUME BarInv, NEW n \in Nodes, Runner(n)
  PROVE  BarInv'
<1> DEFINE h == Head(queue[n])
<1>1. QueueType /\ WireType /\ UNCHANGED meeting /\ queue[n] # <<>>
      /\ queue' = [queue EXCEPT ![n] = Tail(@)]
  BY DEF BarInv, Runner, barrier, meeting
<1>2. /\ QueueType' /\ h \in Outgoing(n)
      /\ \A k \in Nodes : \A x : k # n \/ x # h => Count(queue'[k], x) = Count(queue[k], x)
      /\ Count(queue[n], h) = Count(queue'[n], h) + 1
  BY <1>1, TakenStep
<1>3. \E msgs : /\ Sent(n, msgs)
                /\ \A x \in msgs : x.to \in Nodes => x \in Crossing(n, x.to)
                /\ \A x, y \in msgs : x.to = y.to => x = y
                /\ \A x \in OfBarrier : x \in msgs <=> x = h
  <2>1. CASE h = Loopback("flush")
    <3>1. Sent(n, ToAll("flush"))
      <4>1. h # Loopback("reflush")
        BY <2>1 DEF Loopback
      <4> QED BY <2>1, <4>1 DEF Runner
    <3>2. \A x \in ToAll("flush") : x \in Plain
      BY MessageForms DEF ToAll, Controls
    <3>3. \A x, y \in ToAll("flush") : x.to = y.to => x = y
      BY DEF ToAll, Message
    <3>4. h \in Plain
      BY <2>1, MessageForms
    <3>5. \A x \in OfBarrier : x \notin Plain
      BY MessageForms DEF OfBarrier
    <3>6. \A x \in Plain : x.to \in Nodes => x \in Crossing(n, x.to)
      BY DEF Crossing
    <3> QED BY <3>1, <3>2, <3>3, <3>4, <3>5, <3>6
  <2>2. CASE h = Loopback("reflush")
    <3> DEFINE msgs == IF flush[n].left = 1 /\ ~flush[n].dirty THEN {Message("flushed", Root)} ELSE {}
    <3>1. Sent(n, msgs)
      <4>1. h # Loopback("flush")
        BY <2>2 DEF Loopback
      <4> QED BY <2>2, <4>1 DEF Runner
    <3>2. \A x \in msgs : x \in Plain
      BY MessageForms, SizeType DEF Controls
    <3>3. \A x, y \in msgs : x.to = y.to => x = y
      OBVIOUS
    <3>4. h \in Plain
      BY <2>2, MessageForms
    <3>5. \A x \in OfBarrier : x \notin Plain
      BY MessageForms DEF OfBarrier
    <3>6. \A x \in Plain : x.to \in Nodes => x \in Crossing(n, x.to)
      BY DEF Crossing
    <3> HIDE DEF msgs
    <3> QED BY <3>1, <3>2, <3>3, <3>4, <3>5, <3>6
  <2>3. CASE h # Loopback("flush") /\ h # Loopback("reflush")
    <3>1. Sent(n, {h})
      BY <2>3 DEF Runner
    <3>2. h.to \in Nodes => h \in Crossing(n, h.to)
      BY <1>2, MessageForms, SizeType DEF Outgoing, Crossing, ToBarrier, Done, Message
    <3> QED BY <3>1, <3>2
  <2> QED BY <2>1, <2>2, <2>3
<1>4. PICK msgs : /\ Sent(n, msgs)
                  /\ \A x \in msgs : x.to \in Nodes => x \in Crossing(n, x.to)
                  /\ \A x, y \in msgs : x.to = y.to => x = y
                  /\ \A x \in OfBarrier : x \in msgs <=> x = h
  BY <1>3
<1>5. /\ WireType'
      /\ \A j, k \in Nodes : \A x :
           j # n \/ x \notin msgs \/ x.to # k => Count(wire'[j][k], x) = Count(wire[j][k], x)
      /\ \A k \in Nodes, x \in msgs : x.to = k => Count(wire'[n][k], x) = Count(wire[n][k], x) + 1
  BY <1>1, <1>4, SentStep
<1> HIDE DEF h
<1>6. \A j, k \in Nodes : \A x : Count(queue[k], x) \in Nat /\ Count(wire[j][k], x) \in Nat
                            /\ Count(queue'[k], x) \in Nat
  <2>1. \A k \in Nodes : queue'[k] \in Seq(Msgs)
    BY <1>2 DEF QueueType
  <2> QED BY <1>1, <2>1, Counts, CountType
<1>7. ASSUME NEW x \in OfBarrier, NEW j \in Nodes, NEW k \in Nodes, x.to = k
      PROVE  Count(queue'[j], x) + Count(wire'[j][k], x) = Count(queue[j], x) + Count(wire[j][k], x)
  <2>1. CASE x = h /\ j = n
    <3>1. x \in msgs
      BY <1>4, <2>1
    <3>2. Count(wire'[n][k], x) = Count(wire[n][k], x) + 1
      BY <1>5, <1>7, <3>1
    <3>3. Count(queue[n], x) = Count(queue'[n], x) + 1
      BY <1>2, <2>1
    <3> QED BY <1>6, <2>1, <3>2, <3>3
  <2>2. CASE ~(x = h /\ j = n)
    <3>1. j # n \/ x \notin msgs
      BY <1>4, <2>2
    <3> QED BY <1>2, <1>5, <2>2, <3>1
  <2> QED BY <2>1, <2>2
<1>8. \A k \in Nodes : InRound(k)' = InRound(k) /\ Answers(k)' = Answers(k)
  <2>1. \A k \in Nodes : ToBarrier \in OfBarrier /\ ToBarrier.to = Root
                         /\ Done(k) \in OfBarrier /\ Done(k).to = k
    BY DEF OfBarrier, ToBarrier, Done, Message
  <2>2. \A k \in Nodes : ToBarrier' = ToBarrier /\ Done(k)' = Done(k)
    BY DEF ToBarrier, Done, Message
  <2> QED BY <1>7, <2>1, <2>2, SizeType DEF InRound, Answers
<1> QED BY <1>1, <1>2, <1>5, <1>8, BarQuiet

(* A node enters a round: its message is under way.                        *)
LEMMA BarEnter ==
  ASSUME BarInv, NEW n \in Nodes, EnterBarrier(n)
  PROVE  BarInv'
<1>1. /\ QueueType /\ WireType /\ CountersType /\ RoundInv(n) /\ \A k \in Nodes : RoundInv(k)
      /\ arrived = Size * Round0 + Cardinality(Counted)
  BY DEF BarInv
<1>2. /\ entered[n] = passed[n] /\ released' = [released EXCEPT ![n] = FALSE]
      /\ entered' = [entered EXCEPT ![n] = @ + 1] /\ Post(n, <<ToBarrier>>)
      /\ UNCHANGED <<wire, arrived, passed>>
  BY DEF EnterBarrier, ToBarrier
<1>3. entered[n] = Round0 /\ passed[n] = Round0 /\ InRound(n) = 0 /\ Answers(n) = 0 /\ Round0 \in Nat
  BY <1>1, <1>2 DEF RoundInv, CountersType
<1>4. <<ToBarrier>> \in Seq(Outgoing(n))
  BY DEF Outgoing
<1>5. /\ QueueType'
      /\ \A k \in Nodes : \A x : Count(queue'[k], x) = Count(queue[k], x)
                                 + IF k = n THEN Count(<<ToBarrier>>, x) ELSE 0
  BY <1>1, <1>2, <1>4, PostStep
<1>6. \A k \in Nodes : Count(<<ToBarrier>>, ToBarrier) = 1 /\ Count(<<ToBarrier>>, Done(k)) = 0
  BY CountSingle, MessageForms
<1>7. /\ \A k, j \in Nodes : Count(queue[k], ToBarrier) \in Nat /\ Count(queue[k], Done(j)) \in Nat
      /\ \A k \in Nodes : Count(wire[k][Root], ToBarrier) \in Nat
  BY <1>1, SizeType, Counts
<1>8. ToBarrier' = ToBarrier /\ \A k \in Nodes : Done(k)' = Done(k)
  BY DEF ToBarrier, Done, Message
<1>9. \A k \in Nodes : InRound(k)' = IF k = n THEN 1 ELSE InRound(k)
  BY <1>2, <1>3, <1>5, <1>6, <1>7, <1>8 DEF InRound
<1>10. \A k \in Nodes : Answers(k)' = Answers(k)
  <2>1. ASSUME NEW k \in Nodes
        PROVE  Count(queue'[Root], Done(k)) = Count(queue[Root], Done(k))
    BY <1>5, <1>6, <1>7, SizeType
  <2> QED BY <1>2, <1>8, <2>1 DEF Answers
<1>11. Round0' = Round0 /\ CountersType'
  <2>1. Round0' = Round0
    BY <1>2 DEF Round0, Size
  <2> QED BY <1>1, <1>2, <2>1 DEF CountersType
<1>12. Counted' = Counted
  <2>1. n \notin Counted /\ n \notin Counted'
    BY <1>3, <1>9 DEF Counted
  <2>2. \A k \in Nodes : k # n => entered'[k] = entered[k]
    BY <1>1, <1>2 DEF CountersType
  <2> QED BY <1>9, <1>11, <2>1, <2>2 DEF Counted
<1>13. ASSUME NEW k \in Nodes
       PROVE  RoundInv(k)'
  <2>1. CASE k = n
    <3>1. entered'[n] = Round0 + 1 /\ ~released'[n]
      BY <1>1, <1>2, <1>3 DEF CountersType
    <3> QED BY <1>2, <1>3, <1>9, <1>10, <1>11, <2>1, <3>1 DEF RoundInv
  <2>2. CASE k # n
    <3>1. entered'[k] = entered[k] /\ released'[k] = released[k]
      BY <1>1, <1>2, <2>2 DEF CountersType
    <3> QED BY <1>1, <1>2, <1>9, <1>10, <1>11, <2>2, <3>1 DEF RoundInv
  <2> QED BY <2>1, <2>2
<1>14. WireType'
  BY <1>1, <1>2 DEF WireType
<1> QED BY <1>1, <1>2, <1>5, <1>11, <1>12, <1>13, <1>14 DEF BarInv, Size

(* A node leaves a round: the answer has reached it.                       *)
LEMMA BarLeave ==
  ASSUME BarInv, NEW n \in Nodes, LeaveBarrier(n)
  PROVE  BarInv'
<1>1. QueueType /\ WireType /\ CountersType /\ \A k \in Nodes : RoundInv(k)
  BY DEF BarInv
<1>2. /\ entered[n] > passed[n] /\ released[n] /\ passed' = [passed EXCEPT ![n] = @ + 1]
      /\ UNCHANGED <<queue, wire, arrived, released, entered>>
  BY DEF LeaveBarrier
<1>3. \A k \in Nodes : InRound(k)' = InRound(k) /\ Answers(k)' = Answers(k)
  BY <1>2 DEF InRound, Answers, ToBarrier, Done, Message
<1>4. Round0' = Round0 /\ CountersType'
  <2>1. Round0' = Round0
    BY <1>2 DEF Round0, Size
  <2> QED BY <1>1, <1>2, <2>1 DEF CountersType
<1>5. Counted' = Counted
  BY <1>2, <1>3, <1>4 DEF Counted
<1>6. entered[n] = Round0 /\ passed[n] + 1 = Round0 /\ Answers(n) = 0
  BY <1>1, <1>2 DEF RoundInv, CountersType
<1>7. ASSUME NEW k \in Nodes
      PROVE  RoundInv(k)'
  <2>1. CASE k = n
    <3>1. passed'[n] = Round0
      BY <1>1, <1>2, <1>6 DEF CountersType
    <3>2. RoundInv(n)
      BY <1>1
    <3> QED BY <1>1, <1>2, <1>3, <1>4, <1>6, <2>1, <3>1, <3>2 DEF RoundInv, CountersType
  <2>2. CASE k # n
    <3>1. passed'[k] = passed[k]
      BY <1>1, <1>2, <2>2 DEF CountersType
    <3> QED BY <1>1, <1>2, <1>3, <1>4, <3>1 DEF RoundInv
  <2> QED BY <2>1, <2>2
<1> QED BY <1>1, <1>2, <1>4, <1>5, <1>7 DEF BarInv, QueueType, WireType, Size

(* The root counts an arrival, and answers all when it is the last one.    *)
LEMMA BarArrive ==
  ASSUME BarInv, NEW m \in Nodes, wire[m][Root] # <<>>, Head(wire[m][Root]) = ToBarrier,
         wire' = [wire EXCEPT ![m][Root] = Tail(@)],
         arrived' = arrived + 1, Post(Root, Round(arrived + 1)),
         UNCHANGED <<released, entered, passed>>
  PROVE  BarInv'
<1>1. /\ QueueType /\ WireType /\ CountersType /\ \A k \in Nodes : RoundInv(k)
      /\ arrived = Size * Round0 + Cardinality(Counted) /\ Round0 \in Nat
  BY DEF BarInv, CountersType
<1>2. Root \in Nodes /\ Size \in Nat \ {0} /\ IsFiniteSet(Nodes)
  BY SizeType
<1>3. /\ WireType'
      /\ \A j, k \in Nodes : \A x :
           j # m \/ k # Root \/ x # ToBarrier => Count(wire'[j][k], x) = Count(wire[j][k], x)
      /\ Count(wire[m][Root], ToBarrier) = Count(wire'[m][Root], ToBarrier) + 1
  <2>1. /\ WireType'
        /\ \A j, k \in Nodes : \A x :
             j # m \/ k # Root \/ x # Head(wire[m][Root]) => Count(wire'[j][k], x) = Count(wire[j][k], x)
        /\ Count(wire[m][Root], Head(wire[m][Root])) = Count(wire'[m][Root], Head(wire[m][Root])) + 1
    BY <1>1, <1>2, ReceiveStep
  <2> QED BY <2>1
<1>4. /\ \A k \in Nodes : \A x : Count(queue[k], x) \in Nat
      /\ \A j, k \in Nodes : \A x : Count(wire[j][k], x) \in Nat
  BY <1>1, Counts
<1>5. \A j, k \in Nodes : \A x : Count(wire'[j][k], x) \in Nat
  <2>1. \A j, k \in Nodes : wire'[j][k] \in Seq(Msgs)
    BY <1>3 DEF WireType
  <2> QED BY <2>1, CountType
<1>6. InRound(m) = 1 /\ entered[m] = Round0 + 1 /\ Count(wire'[m][Root], ToBarrier) = 0
      /\ Count(queue[m], ToBarrier) = 0 /\ m \notin Counted
  <2>0. /\ Count(queue[m], ToBarrier) \in Nat /\ Count(wire[m][Root], ToBarrier) \in Nat
        /\ Count(wire'[m][Root], ToBarrier) \in Nat
        /\ Count(wire[m][Root], ToBarrier) = Count(wire'[m][Root], ToBarrier) + 1
    BY <1>2, <1>3, <1>4, <1>5
  <2>1. InRound(m) >= 1
    BY <2>0 DEF InRound
  <2>2. InRound(m) = 1 /\ entered[m] = Round0 + 1
    BY <1>1, <2>1 DEF RoundInv
  <2>3. m \notin Counted
    BY <2>2 DEF Counted
  <2> QED BY <2>0, <2>2, <2>3 DEF InRound
<1>7. /\ IsFiniteSet(Counted) /\ IsFiniteSet(Counted \cup {m})
      /\ Cardinality(Counted \cup {m}) = Cardinality(Counted) + 1
      /\ Cardinality(Counted) \in Nat /\ Cardinality(Counted \cup {m}) <= Size
      /\ Cardinality(Counted \cup {m}) = Size => Counted \cup {m} = Nodes
  <2>1. Counted \subseteq Nodes /\ Counted \cup {m} \subseteq Nodes
    BY DEF Counted
  <2> QED BY <1>2, <1>6, <2>1, FS_Subset, FS_AddElement, FS_CardinalityType DEF Size
<1> DEFINE c == Cardinality(Counted) + 1
<1>8. arrived + 1 = Size * Round0 + c /\ c \in 0..Size
  BY <1>1, <1>2, <1>7
<1>9. ToBarrier' = ToBarrier /\ \A k \in Nodes : Done(k)' = Done(k)
  BY DEF ToBarrier, Done, Message
<1> HIDE DEF c
<1>a. \A k \in Nodes : Count(wire'[Root][k], Done(k)) = Count(wire[Root][k], Done(k))
  <2>1. \A k \in Nodes : Done(k) # ToBarrier
    BY MessageForms
  <2> QED BY <1>2, <1>3, <2>1
<1>b. \A k \in Nodes : Count(wire'[k][Root], ToBarrier)
                         = IF k = m THEN 0 ELSE Count(wire[k][Root], ToBarrier)
  BY <1>2, <1>3, <1>6
<1>10. CASE c < Size
  <2>1. (arrived + 1) % Size = c /\ (arrived + 1) \div Size = Round0
    BY <1>1, <1>2, <1>8, <1>10, Rounding
  <2>2. Round(arrived + 1) = <<>>
    <3>1. c # 0
      BY <1>7 DEF c
    <3> QED BY <2>1, <3>1 DEF Round, Size
  <2>3. UNCHANGED queue
    <3>1. queue \in [Nodes -> Seq(Msgs)]
      BY <1>1 DEF QueueType
    <3> QED BY <1>2, <2>2, <3>1 DEF Post
  <2>4. \A k \in Nodes : Answers(k)' = Answers(k)
    BY <1>9, <1>a, <2>3 DEF Answers
  <2>5. \A k \in Nodes : InRound(k)' = IF k = m THEN 0 ELSE InRound(k)
    BY <1>6, <1>9, <1>b, <2>3 DEF InRound
  <2>6. Round0' = Round0
    BY <2>1 DEF Round0, Size
  <2>7. Counted' = Counted \cup {m}
    BY <1>6, <2>5, <2>6 DEF Counted
  <2>8. CountersType'
    BY <1>1, <2>6 DEF CountersType
  <2>9. arrived' = Size * Round0' + Cardinality(Counted')
    BY <1>7, <1>8, <2>6, <2>7 DEF c
  <2>10. \A k \in Nodes : RoundInv(k)'
    BY <1>1, <1>6, <2>4, <2>5, <2>6 DEF RoundInv
  <2> QED BY <1>1, <1>3, <2>3, <2>8, <2>9, <2>10 DEF BarInv, QueueType, Size
<1>11. CASE c = Size
  <2>1. /\ (arrived + 1) % Size = 0 /\ (arrived + 1) \div Size = Round0 + 1
        /\ arrived + 1 = Size * (Round0 + 1)
    BY <1>1, <1>2, <1>8, <1>11, Rounding
  <2>2. Round(arrived + 1) = SetToSeq(ToAll("barrier_done")) /\ ToAll("barrier_done") = {Done(k) : k \in Nodes}
    BY <2>1 DEF Round, Size, ToAll, Done
  <2> DEFINE D == {Done(k) : k \in Nodes}
  <2>3. IsFiniteSet(D) /\ D \subseteq Outgoing(Root)
    <3>1. D \subseteq Outgoing(Root)
      BY DEF Outgoing
    <3>2. IsFiniteSet(D)
      <4> DEFINE f == [k \in Nodes |-> Done(k)]
      <4>1. f \in Surjection(Nodes, D)
        BY DEF Surjection
      <4> QED BY <1>2, <4>1, FS_Surjection
    <3> QED BY <3>1, <3>2
  <2>4. SetToSeq(D) \in Seq(Outgoing(Root)) /\ \A x : Count(SetToSeq(D), x) = IF x \in D THEN 1 ELSE 0
    <3>1. SetToSeq(D) \in Seq(D)
      BY <2>3, SetToSeqOnce
    <3>2. \A S, T : S \subseteq T => Seq(S) \subseteq Seq(T)
      OBVIOUS
    <3> HIDE DEF D
    <3> QED BY <2>3, <3>1, <3>2, CountSet, Zenon
  <2>5. Post(Root, SetToSeq(D))
    BY <2>2
  <2>6. ToBarrier \notin D /\ \A k \in Nodes : Done(k) \in D
    BY MessageForms
  <2> HIDE DEF D
  <2>7. /\ QueueType'
        /\ \A k \in Nodes : \A x : Count(queue'[k], x) = Count(queue[k], x)
                                   + IF k = Root THEN Count(SetToSeq(D), x) ELSE 0
    BY <1>1, <1>2, <2>4, <2>5, PostStep
  <2>8. \A k \in Nodes : Answers(k)' = Answers(k) + 1
    <3>1. ASSUME NEW k \in Nodes
          PROVE  Count(queue'[Root], Done(k)) = Count(queue[Root], Done(k)) + 1
      BY <1>2, <1>4, <2>4, <2>6, <2>7
    <3>2. \A k \in Nodes : Count(queue[Root], Done(k)) \in Nat /\ Count(wire[Root][k], Done(k)) \in Nat
      BY <1>2, <1>4
    <3> QED BY <1>9, <1>a, <3>1, <3>2 DEF Answers
  <2>9. \A k \in Nodes : InRound(k)' = IF k = m THEN 0 ELSE InRound(k)
    <3>1. ASSUME NEW k \in Nodes
          PROVE  Count(queue'[k], ToBarrier) = Count(queue[k], ToBarrier)
      <4>1. Count(SetToSeq(D), ToBarrier) = 0 /\ Count(queue[k], ToBarrier) \in Nat
        BY <1>4, <2>4, <2>6
      <4>2. Count(queue'[k], ToBarrier)
              = Count(queue[k], ToBarrier) + IF k = Root THEN Count(SetToSeq(D), ToBarrier) ELSE 0
        BY <2>7
      <4> QED BY <4>1, <4>2
    <3> QED BY <1>6, <1>9, <1>b, <3>1 DEF InRound
  <2>10. Round0' = Round0 + 1
    BY <2>1 DEF Round0, Size
  <2>11. \A k \in Nodes : entered[k] = Round0 + 1 /\ InRound(k)' = 0
    <3>1. Counted \cup {m} = Nodes
      BY <1>7, <1>11 DEF c
    <3> QED BY <1>6, <2>9, <3>1 DEF Counted
  <2>12. Counted' = {} /\ Cardinality(Counted') = 0
    <3>1. Counted' = {}
      BY <1>1, <2>10, <2>11 DEF Counted
    <3> QED BY <3>1, FS_EmptySet
  <2>13. CountersType'
    BY <1>1, <2>10 DEF CountersType
  <2>14. arrived' = Size * Round0' + Cardinality(Counted')
    <3>1. Size * (Round0 + 1) \in Nat
      BY <1>1, <1>2
    <3> QED BY <2>1, <2>10, <2>12, <3>1
  <2>15. ASSUME NEW k \in Nodes
         PROVE  RoundInv(k)'
    <3>1. RoundInv(k) /\ entered[k] = Round0 + 1
      BY <1>1, <2>11
    <3>2. passed[k] = Round0 /\ ~released[k] /\ Answers(k) = 0
      BY <3>1 DEF RoundInv
    <3> QED BY <1>1, <2>8, <2>10, <2>11, <3>1, <3>2 DEF RoundInv
  <2> QED BY <1>1, <1>3, <2>7, <2>13, <2>14, <2>15 DEF BarInv, Size
<1> QED BY <1>2, <1>8, <1>10, <1>11

(* The answer reaches a node.                                              *)
LEMMA BarDone ==
  ASSUME BarInv, NEW m \in Nodes, NEW n \in Nodes, wire[m][n] # <<>>,
         Head(wire[m][n]).cmd = "barrier_done",
         wire' = [wire EXCEPT ![m][n] = Tail(@)], released' = [released EXCEPT ![n] = TRUE],
         UNCHANGED <<queue, arrived, entered, passed>>
  PROVE  BarInv'
<1>1. QueueType /\ WireType /\ CountersType /\ Round0 \in Nat /\ \A k \in Nodes : RoundInv(k)
  BY DEF BarInv, CountersType
<1>2. Root \in Nodes
  BY SizeType
<1>3. /\ WireType' /\ Head(wire[m][n]) \in Crossing(m, n)
      /\ \A j, k \in Nodes : \A x :
           j # m \/ k # n \/ x # Head(wire[m][n]) => Count(wire'[j][k], x) = Count(wire[j][k], x)
      /\ Count(wire[m][n], Head(wire[m][n])) = Count(wire'[m][n], Head(wire[m][n])) + 1
  BY <1>1, ReceiveStep
<1>4. m = Root /\ Head(wire[m][n]) = Done(n)
  BY <1>3 DEF Crossing, Plain, ToBarrier, Message
<1>5. ToBarrier' = ToBarrier /\ \A k \in Nodes : Done(k)' = Done(k)
  BY DEF ToBarrier, Done, Message
<1>6. \A k \in Nodes : InRound(k)' = InRound(k)
  <2>1. \A k \in Nodes : Count(wire'[k][Root], ToBarrier) = Count(wire[k][Root], ToBarrier)
    <3>1. ToBarrier # Done(n)
      BY MessageForms
    <3> QED BY <1>2, <1>3, <1>4, <3>1
  <2> QED BY <1>5, <2>1 DEF InRound
<1>7. \A k \in Nodes : k # n => Answers(k)' = Answers(k)
  <2>1. \A k \in Nodes : k # n => Count(wire'[Root][k], Done(k)) = Count(wire[Root][k], Done(k))
    BY <1>2, <1>3
  <2> QED BY <1>5, <2>1 DEF Answers
<1>8. Answers(n) = 1 /\ Answers(n)' = 0
  <2>1. /\ Count(queue[Root], Done(n)) \in Nat /\ Count(wire'[Root][n], Done(n)) \in Nat
    <3>1. wire'[Root][n] \in Seq(Msgs) /\ queue[Root] \in Seq(Msgs)
      BY <1>1, <1>2, <1>3 DEF WireType, QueueType
    <3> QED BY <3>1, CountType
  <2>2. Count(wire[Root][n], Done(n)) = Count(wire'[Root][n], Done(n)) + 1
    BY <1>3, <1>4
  <2>3. Answers(n) \in {0, 1}
    BY <1>1 DEF RoundInv
  <2>4. Answers(n)' = Count(queue[Root], Done(n)) + Count(wire'[Root][n], Done(n))
    BY <1>5 DEF Answers
  <2> QED BY <2>1, <2>2, <2>3, <2>4 DEF Answers
<1>9. Round0' = Round0 /\ CountersType'
  <2>1. Round0' = Round0
    BY DEF Round0, Size
  <2> QED BY <1>1, <2>1 DEF CountersType
<1>10. Counted' = Counted
  BY <1>6, <1>9 DEF Counted
<1>11. ASSUME NEW k \in Nodes
       PROVE  RoundInv(k)'
  <2>1. CASE k = n
    <3>1. RoundInv(n) /\ passed[n] < entered[n] /\ entered[n] # Round0 + 1
      BY <1>1, <1>8 DEF RoundInv
    <3> QED BY <1>1, <1>6, <1>8, <1>9, <2>1, <3>1 DEF RoundInv
  <2>2. CASE k # n
    <3>1. released'[k] = released[k]
      BY <1>1, <2>2 DEF CountersType
    <3> QED BY <1>1, <1>6, <1>7, <1>9, <2>2, <3>1 DEF RoundInv
  <2> QED BY <2>1, <2>2
<1> QED BY <1>1, <1>3, <1>9, <1>10, <1>11 DEF BarInv, QueueType, Size

-----------------------------------------------------------------------------
(***************************************************************************)
(* The messages the steps post.                                            *)
(***************************************************************************)
(* A finite set of messages of a kind, as a sequence, is of that kind.     *)
LEMMA SetSequence ==
  ASSUME NEW S, NEW T, IsFiniteSet(S), S \subseteq T
  PROVE  SetToSeq(S) \in Seq(T)
<1>1. SetToSeq(S) \in Seq(S)
  BY SetToSeqOnce
<1>2. \A s : s \in Seq(S) => s \in Seq(T)
  OBVIOUS
<1> QED BY <1>1, <1>2, Zenon

(* A command of the control to all, and the first messages of the program. *)
LEMMA SequenceToAll ==
  ASSUME NEW c \in Controls \ {"barrier", "barrier_done"}
  PROVE  SetToSeq(ToAll(c)) \in Seq(Plain)
<1>1. ToAll(c) \subseteq Plain
  BY MessageForms DEF ToAll
<1>2. IsFiniteSet(ToAll(c))
  <2> DEFINE f == [n \in Nodes |-> Message(c, n)]
  <2>1. f \in Surjection(Nodes, ToAll(c))
    BY DEF Surjection, ToAll
  <2> QED BY <2>1, SizeType, FS_Surjection
<1> QED BY <1>1, <1>2, SetSequence

(* The first messages of the program are plain ones.                       *)
LEMMA SequenceOfWork ==
  ASSUME NEW at \in [Tokens -> Nodes]
  PROVE  SetToSeq({TokenMessage(t, at[t]) : t \in Tokens}) \in Seq(Plain)
<1> DEFINE W == {TokenMessage(t, at[t]) : t \in Tokens}
           f == [t \in Tokens |-> TokenMessage(t, at[t])]
<1>1. W \subseteq Plain
  BY MessageForms
<1>2. f \in Surjection(Tokens, W)
  BY DEF Surjection
<1>3. IsFiniteSet(W)
  BY <1>2, ControlAssumption, FS_Surjection
<1> QED BY <1>1, <1>3, SetSequence

(* Posting nothing changes nothing.                                        *)
LEMMA PostNothing ==
  ASSUME QueueType, NEW n \in Nodes, UNCHANGED queue
  PROVE  Post(n, <<>>) /\ <<>> \in Seq(Plain)
<1>1. queue \in [Nodes -> Seq(Msgs)]
  BY DEF QueueType
<1> QED BY <1>1 DEF Post

(* Posting nothing leaves the queues as they are.                          *)
LEMMA EmptyPost ==
  ASSUME QueueType, NEW n \in Nodes, Post(n, <<>>)
  PROVE  UNCHANGED queue
<1>1. queue \in [Nodes -> Seq(Msgs)]
  BY DEF QueueType
<1> QED BY <1>1 DEF Post

(* Sending a token on posts its message.                                   *)
LEMMA ForwardPosts ==
  ASSUME NEW n \in Nodes, NEW t \in Tokens, Forward(n, t)
  PROVE  \E msgs \in Seq(Plain) : Post(n, msgs)
<1>1. PICK m \in Nodes : Post(n, <<TokenMessage(t, m)>>)
  BY DEF Forward
<1>2. <<TokenMessage(t, m)>> \in Seq(Plain)
  BY MessageForms
<1> QED BY <1>1, <1>2

(* What a handler does.                                                    *)
LEMMA HandlerPosts ==
  ASSUME QueueType, NodeType, NEW n \in Nodes, NEW x \in Handled, HandleMessage(n, x)
  PROVE  /\ \E msgs \in Seq(Plain) : Post(n, msgs)
         /\ deferred' \in [Nodes -> SUBSET Tokens] /\ running' \in [Nodes -> SUBSET Tokens]
<1>0. deferred \in [Nodes -> SUBSET Tokens] /\ running \in [Nodes -> SUBSET Tokens]
  BY DEF NodeType
<1>1. CASE x.cmd = "work" /\ Process(n, x.token)
  <2>1. x.token \in Tokens
    BY <1>1, MessageForms
  <2>2. CASE Spawn(n, x.token) /\ UNCHANGED <<queue, hops>>
    <3>1. \E msgs \in Seq(Plain) : Post(n, msgs)
      BY <2>2, PostNothing
    <3>2. deferred' \in [Nodes -> SUBSET Tokens] /\ running' \in [Nodes -> SUBSET Tokens]
      BY <1>0, <2>1, <2>2 DEF Spawn
    <3> QED BY <3>1, <3>2
  <2>3. CASE Forward(n, x.token) /\ UNCHANGED <<running, deferred>>
    BY <1>0, <2>1, <2>3, ForwardPosts
  <2> QED BY <1>1, <2>2, <2>3 DEF Process
<1>2. CASE UNCHANGED <<queue, hops, running, deferred>>
  BY <1>0, <1>2, PostNothing
<1> QED BY <1>1, <1>2 DEF HandleMessage

-----------------------------------------------------------------------------
(***************************************************************************)
(* The steps.                                                              *)
(***************************************************************************)
Inv == BarInv /\ NodeType

(* The invariant holds at the start.                                       *)
LEMMA InitInv == Init => Inv
<1> SUFFICES ASSUME Init
             PROVE  Inv
  OBVIOUS
<1>1. QueueType /\ WireType /\ NodeType
  BY DEF Init, QueueType, WireType, NodeType, Receiving
<1>2. arrived = 0 /\ Round0 = 0
  <2>1. (Size * 0 + 0) \div Size = 0 /\ Size * 0 + 0 = 0
    BY SizeType, Rounding
  <2> QED BY <2>1 DEF Init, Round0
<1>3. CountersType
  BY <1>2 DEF Init, CountersType
<1>4. \A n \in Nodes : InRound(n) = 0 /\ Answers(n) = 0
  <2>1. \A j, k \in Nodes : queue[k] = <<>> /\ wire[j][k] = <<>>
    BY DEF Init
  <2> QED BY <2>1, SizeType, CountEmpty DEF InRound, Answers
<1>5. Counted = {} /\ Cardinality(Counted) = 0
  <2>1. Counted = {}
    BY <1>2 DEF Init, Counted
  <2> QED BY <2>1, FS_EmptySet
<1>6. \A n \in Nodes : RoundInv(n)
  BY <1>2, <1>4 DEF Init, RoundInv
<1>7. arrived = Size * Round0 + Cardinality(Counted)
  BY <1>2, <1>5, SizeType
<1> QED BY <1>1, <1>3, <1>6, <1>7 DEF Inv, BarInv

(* The main thread.                                                        *)
LEMMA MainStep ==
  ASSUME Inv, NEW n \in Nodes, MainThread(n)
  PROVE  Inv'
<1>1. BarInv /\ NodeType
  BY DEF Inv
<1>2. UNCHANGED <<receiver, work>>
  BY DEF MainThread, EnterBarrier, LeaveBarrier, Launch, StartWorker, Stop
<1>3. NodeType'
  BY <1>1, <1>2 DEF NodeType, work
<1>4. ASSUME EnterBarrier(n)
      PROVE  BarInv'
  BY <1>1, <1>4, BarEnter
<1>5. ASSUME LeaveBarrier(n)
      PROVE  BarInv'
  BY <1>1, <1>5, BarLeave
<1>6. ASSUME Launch(n)
      PROVE  BarInv'
  <2>1. PICK at \in [Tokens -> Nodes] : Post(n, SetToSeq({TokenMessage(t, at[t]) : t \in Tokens}))
    BY <1>6 DEF Launch
  <2>2. UNCHANGED <<wire, meeting>>
    BY <1>6 DEF Launch
  <2> QED BY <1>1, <2>1, <2>2, SequenceOfWork, PostPlain
<1>7. ASSUME StartWorker(n) \/ Stop(n)
      PROVE  BarInv'
  <2>1. UNCHANGED <<queue, wire, meeting>>
    BY <1>7 DEF StartWorker, Stop, meeting, barrier
  <2> QED BY <1>1, <2>1, BarStill
<1>8. BarInv'
  BY <1>4, <1>5, <1>6, <1>7 DEF MainThread
<1> QED BY <1>3, <1>8 DEF Inv

(* The pool.                                                               *)
LEMMA PoolStep ==
  ASSUME Inv, NEW n \in Nodes, Pool(n)
  PROVE  Inv'
<1>1. BarInv /\ NodeType /\ QueueType
  BY DEF Inv, BarInv
<1>2. UNCHANGED <<receiver, messages, deferred, wire, meeting>>
  BY DEF Pool, RunTask, SetPaused, ReportPaused, work, meeting, barrier
<1>3. CASE RunTask(n)
  <2>1. PICK t \in running[n] :
          /\ running' = [running EXCEPT ![n] = @ \ {t}]
          /\ \/ Forward(n, t)
             \/ Post(n, IF ended' = Tokens THEN SetToSeq(ToAll("shutdown")) ELSE <<>>)
    BY <1>3 DEF RunTask
  <2>2. t \in Tokens
    BY <1>1 DEF NodeType
  <2>3. \E msgs \in Seq(Plain) : Post(n, msgs)
    <3>1. CASE Forward(n, t)
      BY <2>2, <3>1, ForwardPosts
    <3>2. CASE Post(n, IF ended' = Tokens THEN SetToSeq(ToAll("shutdown")) ELSE <<>>)
      <4>1. SetToSeq(ToAll("shutdown")) \in Seq(Plain)
        BY SequenceToAll DEF Controls
      <4>2. (IF ended' = Tokens THEN SetToSeq(ToAll("shutdown")) ELSE <<>>) \in Seq(Plain)
        BY <4>1
      <4> QED BY <3>2, <4>2
    <3> QED BY <2>1, <3>1, <3>2
  <2>4. BarInv'
    BY <1>1, <1>2, <2>3, PostPlain
  <2>5. NodeType'
    BY <1>1, <1>2, <2>1 DEF NodeType
  <2> QED BY <2>4, <2>5 DEF Inv
<1>4. CASE SetPaused(n)
  <2>1. UNCHANGED <<queue, running>>
    BY <1>4 DEF SetPaused, work
  <2>2. BarInv' /\ NodeType'
    BY <1>1, <1>2, <2>1, BarStill DEF NodeType
  <2> QED BY <2>2 DEF Inv
<1>5. CASE ReportPaused(n)
  <2>1. Post(n, <<Message("paused", Root)>>) /\ UNCHANGED running
    BY <1>5 DEF ReportPaused, work
  <2>2. <<Message("paused", Root)>> \in Seq(Plain)
    BY MessageForms, SizeType DEF Controls
  <2>3. BarInv'
    BY <1>1, <1>2, <2>1, <2>2, PostPlain
  <2>4. NodeType'
    BY <1>1, <1>2, <2>1 DEF NodeType
  <2> QED BY <2>3, <2>4 DEF Inv
<1> QED BY <1>3, <1>4, <1>5 DEF Pool

(* The manager.                                                            *)
LEMMA ManagerStep ==
  ASSUME Inv, Manager
  PROVE  Inv'
<1>1. BarInv /\ NodeType /\ QueueType /\ Root \in Nodes
  BY SizeType DEF Inv, BarInv
<1>2. UNCHANGED <<receiver, messages, deferred, running, wire, meeting>>
  BY DEF Manager, StartPause, StartFlush, EndFlush, StartResume, work, meeting, barrier
<1>3. \E msgs \in Seq(Plain) : Post(Root, msgs)
  <2>1. CASE EndFlush
    BY <1>1, <2>1, PostNothing DEF EndFlush
  <2>2. CASE StartPause \/ StartFlush \/ StartResume
    <3>1. PICK c \in {"pause", "start_flush", "resume"} : Post(Root, SetToSeq(ToAll(c)))
      BY <2>2 DEF StartPause, StartFlush, StartResume, PostAll
    <3>2. c \in Controls \ {"barrier", "barrier_done"}
      BY DEF Controls
    <3> QED BY <3>1, <3>2, SequenceToAll
  <2> QED BY <2>1, <2>2 DEF Manager
<1>4. BarInv'
  BY <1>1, <1>2, <1>3, PostPlain
<1>5. NodeType'
  BY <1>1, <1>2 DEF NodeType
<1> QED BY <1>4, <1>5 DEF Inv

(* The receivers, when they take a message.                                *)
LEMMA ReceiveBarrierStep ==
  ASSUME Inv, NEW m \in Nodes, NEW n \in Nodes, ReceiveBarrier(m, n)
  PROVE  Inv'
<1> DEFINE x == Head(wire[m][n])
<1>1. /\ BarInv /\ NodeType /\ QueueType /\ WireType /\ wire[m][n] # <<>>
      /\ wire' = [wire EXCEPT ![m][n] = Tail(@)] /\ UNCHANGED <<receiver, work, entered, passed>>
      /\ x.cmd \in {"paused", "barrier", "barrier_done"} /\ ReceiveAlways(m, n, x)
  BY DEF Inv, BarInv, ReceiveBarrier
<1>2. x \in Crossing(m, n)
  BY <1>1, ReceiveStep
<1>3. NodeType'
  BY <1>1 DEF NodeType, work
<1> HIDE DEF x
<1>4. ASSUME x.cmd = "paused"
      PROVE  BarInv'
  <2>1. UNCHANGED <<queue, arrived, released>>
    BY <1>1, <1>4 DEF ReceiveAlways
  <2>2. x \in Plain
    BY <1>2, <1>4 DEF Crossing, ToBarrier, Done, Message
  <2>3. UNCHANGED meeting
    BY <1>1, <2>1 DEF meeting
  <2> QED BY <1>1, <2>1, <2>2, <2>3, PostNothing, ReceivePlain DEF x
<1>5. ASSUME x.cmd = "barrier"
      PROVE  BarInv'
  <2>1. arrived' = arrived + 1 /\ Post(n, Round(arrived + 1)) /\ UNCHANGED released
    BY <1>1, <1>5 DEF ReceiveAlways
  <2>2. x = ToBarrier /\ n = Root
    BY <1>2, <1>5 DEF Crossing, Plain, Done, Message
  <2>3. UNCHANGED <<released, entered, passed>>
    BY <1>1, <2>1
  <2> QED BY <1>1, <2>1, <2>2, <2>3, BarArrive DEF x
<1>6. ASSUME x.cmd = "barrier_done"
      PROVE  BarInv'
  <2>1. released' = [released EXCEPT ![n] = TRUE] /\ UNCHANGED <<queue, arrived>>
    BY <1>1, <1>6 DEF ReceiveAlways
  <2>2. UNCHANGED <<queue, arrived, entered, passed>>
    BY <1>1, <2>1
  <2> QED BY <1>1, <1>6, <2>1, <2>2, BarDone DEF x
<1> QED BY <1>1, <1>3, <1>4, <1>5, <1>6 DEF Inv

(* A paused node receives a message.                                       *)
LEMMA ReceivePausedStep ==
  ASSUME Inv, NEW m \in Nodes, NEW n \in Nodes, ReceivePaused(m, n)
  PROVE  Inv'
<1> DEFINE x == Head(wire[m][n])
<1>1. /\ BarInv /\ NodeType /\ WireType /\ wire[m][n] # <<>>
      /\ wire' = [wire EXCEPT ![m][n] = Tail(@)] /\ UNCHANGED <<messages, meeting>>
      /\ x.cmd \notin {"paused", "barrier", "barrier_done"} /\ Post(n, Answer(m, x))
  BY DEF Inv, BarInv, ReceivePaused, barrier, meeting
<1>2. x \in Plain
  <2>1. x \in Crossing(m, n)
    BY <1>1, ReceiveStep
  <2> QED BY <1>1, <2>1 DEF Crossing, ToBarrier, Done, Message
<1>3. Answer(m, x) \in Seq(Plain)
  <2>1. Loopback("flush") \in Plain /\ Loopback("reflush") \in Plain /\ Message("reflush", m) \in Plain
    BY MessageForms DEF Controls
  <2>2. <<Loopback("flush")>> \in Seq(Plain) /\ <<Loopback("reflush")>> \in Seq(Plain)
        /\ <<Message("reflush", m)>> \in Seq(Plain) /\ <<>> \in Seq(Plain)
    BY <2>1
  <2> QED BY <2>2 DEF Answer
<1>4. BarInv'
  BY <1>1, <1>2, <1>3, ReceivePlain
<1>5. deferred' \in [Nodes -> SUBSET Tokens] /\ running' \in [Nodes -> SUBSET Tokens]
  <2>1. \/ UNCHANGED <<running, deferred>>
        \/ /\ running' = [running EXCEPT ![n] = @ \cup deferred[n]]
           /\ deferred' = [deferred EXCEPT ![n] = {}]
    BY DEF ReceivePaused
  <2> QED BY <1>1, <2>1 DEF NodeType
<1>6. receiver' \in [Nodes -> [Nodes -> Receiving]]
  <2>1. \/ UNCHANGED receiver
        \/ Becomes(m, n, Resuming(1))
        \/ x.cmd \in {"work", "shutdown", "pause"} /\ Becomes(m, n, Busy("park", x))
    BY DEF ReceivePaused
  <2>2. Resuming(1) \in Receiving
    BY DEF Receiving
  <2>3. x.cmd \in {"work", "shutdown", "pause"} => Busy("park", x) \in Receiving
    <3>1. x.cmd \in {"work", "shutdown", "pause"} => x \in Handled
      BY <1>2 DEF Handled
    <3> QED BY <3>1 DEF Receiving
  <2>4. ASSUME NEW r \in Receiving, Becomes(m, n, r)
        PROVE  receiver' \in [Nodes -> [Nodes -> Receiving]]
    BY <1>1, <2>4 DEF NodeType, Becomes
  <2>5. receiver \in [Nodes -> [Nodes -> Receiving]]
    BY <1>1 DEF NodeType
  <2> HIDE DEF x
  <2> QED BY <2>1, <2>2, <2>3, <2>4, <2>5
<1> QED BY <1>1, <1>4, <1>5, <1>6 DEF Inv, NodeType

(* A running node receives a message.                                      *)
LEMMA ReceiveRunningStep ==
  ASSUME Inv, NEW m \in Nodes, NEW n \in Nodes, ReceiveRunning(m, n)
  PROVE  Inv'
<1> DEFINE x == Head(wire[m][n])
<1>1. /\ BarInv /\ NodeType /\ WireType /\ QueueType /\ wire[m][n] # <<>>
      /\ wire' = [wire EXCEPT ![m][n] = Tail(@)] /\ UNCHANGED <<queue, work, meeting>>
      /\ x.cmd \notin {"paused", "barrier", "barrier_done"}
  BY DEF Inv, BarInv, ReceiveRunning, barrier, meeting
<1>2. x \in Plain
  <2>1. x \in Crossing(m, n)
    BY <1>1, ReceiveStep
  <2> QED BY <1>1, <2>1 DEF Crossing, ToBarrier, Done, Message
<1>3. BarInv'
  BY <1>1, <1>2, PostNothing, ReceivePlain
<1>4. receiver' \in [Nodes -> [Nodes -> Receiving]]
  <2>1. \/ UNCHANGED receiver
        \/ x.cmd \in {"work", "shutdown"} /\ Becomes(m, n, Busy("handle", x))
    BY DEF ReceiveRunning
  <2>2. x.cmd \in {"work", "shutdown"} => Busy("handle", x) \in Receiving
    <3>1. x.cmd \in {"work", "shutdown"} => x \in Handled
      BY <1>2 DEF Handled
    <3> QED BY <3>1 DEF Receiving
  <2>3. ASSUME NEW r \in Receiving, Becomes(m, n, r)
        PROVE  receiver' \in [Nodes -> [Nodes -> Receiving]]
    BY <1>1, <2>3 DEF NodeType, Becomes
  <2>4. receiver \in [Nodes -> [Nodes -> Receiving]]
    BY <1>1 DEF NodeType
  <2> HIDE DEF x
  <2> QED BY <2>1, <2>2, <2>3, <2>4
<1>5. NodeType'
  BY <1>1, <1>4 DEF NodeType, work
<1> QED BY <1>3, <1>5 DEF Inv

(* The receivers, when they handle, put aside, resume and clear.           *)
LEMMA ReceivingForms ==
  ASSUME NEW r \in Receiving
  PROVE  /\ r.at \in {"handle", "park"} => r.message \in Handled
         /\ r.at \in {"resume", "clear"} => r.next \in Nat \ {0}
BY DEF Receiving, Idle, Busy, Resuming, Clearing

(* A receiver handles a message, puts it aside, resumes or clears.         *)
LEMMA HandlingStep ==
  ASSUME Inv, NEW m \in Nodes, NEW n \in Nodes,
         Handle(m, n) \/ Park(m, n) \/ Resume(m, n) \/ ClearPaused(m, n)
  PROVE  Inv'
<1>1. BarInv /\ NodeType /\ QueueType /\ receiver[m][n] \in Receiving
  BY DEF Inv, BarInv, NodeType
<1>2. UNCHANGED <<wire, meeting>>
  BY DEF Handle, Park, Resume, ClearPaused, barrier, meeting
<1>3. ASSUME NEW r \in Receiving, Becomes(m, n, r)
      PROVE  receiver' \in [Nodes -> [Nodes -> Receiving]]
  BY <1>1, <1>3 DEF NodeType, Becomes
<1>4. Idle \in Receiving /\ \A i \in Nat \ {0} : Resuming(i) \in Receiving /\ Clearing(i) \in Receiving
  BY DEF Receiving
<1>5. CASE Handle(m, n)
  <2>1. receiver[m][n].message \in Handled
    BY <1>1, <1>5, ReceivingForms DEF Handle
  <2>2. /\ \E msgs \in Seq(Plain) : Post(n, msgs)
        /\ deferred' \in [Nodes -> SUBSET Tokens] /\ running' \in [Nodes -> SUBSET Tokens]
    BY <1>1, <1>5, <2>1, HandlerPosts DEF Handle
  <2>3. BarInv'
    BY <1>1, <1>2, <2>2, PostPlain
  <2>4. UNCHANGED messages /\ receiver' \in [Nodes -> [Nodes -> Receiving]]
    BY <1>3, <1>4, <1>5 DEF Handle
  <2> QED BY <1>1, <2>2, <2>3, <2>4 DEF Inv, NodeType
<1>6. CASE Park(m, n)
  <2>1. receiver[m][n].message \in Handled
    BY <1>1, <1>6, ReceivingForms DEF Park
  <2>2. messages' \in [Nodes -> Seq(Handled)]
    <3>1. messages' = [messages EXCEPT ![n] = Append(messages[n], receiver[m][n].message)]
      BY <1>6 DEF Park
    <3>2. messages \in [Nodes -> Seq(Handled)] /\ messages[n] \in Seq(Handled)
      BY <1>1 DEF NodeType
    <3>3. Append(messages[n], receiver[m][n].message) \in Seq(Handled)
      BY <2>1, <3>2
    <3> QED BY <3>1, <3>2, <3>3
  <2>3. UNCHANGED <<queue, deferred, running>> /\ receiver' \in [Nodes -> [Nodes -> Receiving]]
    BY <1>3, <1>4, <1>6 DEF Park
  <2>4. BarInv'
    BY <1>1, <1>2, <2>3, BarStill
  <2> QED BY <1>1, <2>2, <2>3, <2>4 DEF Inv, NodeType
<1>7. CASE Resume(m, n)
  <2> DEFINE i == receiver[m][n].next
  <2>1. i \in Nat \ {0} /\ messages[n] \in Seq(Handled)
    BY <1>1, <1>7, ReceivingForms DEF Resume, NodeType
  <2>2. CASE More(n, i) /\ HandleMessage(n, messages[n][i]) /\ Becomes(m, n, Resuming(i + 1))
    <3>1. messages[n][i] \in Handled
      BY <2>1, <2>2 DEF More
    <3>2. /\ \E msgs \in Seq(Plain) : Post(n, msgs)
          /\ deferred' \in [Nodes -> SUBSET Tokens] /\ running' \in [Nodes -> SUBSET Tokens]
      BY <1>1, <2>2, <3>1, HandlerPosts
    <3>3. BarInv'
      BY <1>1, <1>2, <3>2, PostPlain
    <3>4. UNCHANGED messages /\ receiver' \in [Nodes -> [Nodes -> Receiving]]
      <4>1. Resuming(i + 1) \in Receiving
        BY <1>4, <2>1
      <4> QED BY <1>3, <1>7, <2>2, <4>1 DEF Resume
    <3> QED BY <1>1, <3>2, <3>3, <3>4 DEF Inv, NodeType
  <2>3. CASE Becomes(m, n, Clearing(i)) /\ UNCHANGED <<queue, hops, running, deferred, barrierTask>>
    <3>1. BarInv'
      BY <1>1, <1>2, <2>3, BarStill
    <3>2. UNCHANGED messages /\ receiver' \in [Nodes -> [Nodes -> Receiving]]
      BY <1>3, <1>4, <1>7, <2>1, <2>3 DEF Resume
    <3> QED BY <1>1, <2>3, <3>1, <3>2 DEF Inv, NodeType
  <2> QED BY <1>7, <2>2, <2>3 DEF Resume
<1>8. CASE ClearPaused(m, n)
  <2>1. /\ messages' = [messages EXCEPT ![n] = <<>>] /\ UNCHANGED <<queue, deferred, running>>
        /\ receiver' \in [Nodes -> [Nodes -> Receiving]]
    BY <1>3, <1>4, <1>8 DEF ClearPaused
  <2>2. messages' \in [Nodes -> Seq(Handled)]
    BY <1>1, <2>1 DEF NodeType
  <2>3. BarInv'
    BY <1>1, <1>2, <2>1, BarStill
  <2> QED BY <1>1, <2>1, <2>2, <2>3 DEF Inv, NodeType
<1> QED BY <1>5, <1>6, <1>7, <1>8

-----------------------------------------------------------------------------
(***************************************************************************)
(* The results.                                                            *)
(***************************************************************************)
(* The invariant: what is under way, and where every node is in the rounds. *)
THEOREM Inductive == Spec => []Inv
<1>1. ASSUME Inv, [Next]_vars
      PROVE  Inv'
  <2>1. CASE \E n \in Nodes : Runner(n)
    <3>1. PICK n \in Nodes : Runner(n)
      BY <2>1
    <3>2. BarInv'
      BY <1>1, <3>1, BarRunner DEF Inv
    <3>3. NodeType'
      BY <1>1, <3>1 DEF Inv, NodeType, Runner, work
    <3> QED BY <3>2, <3>3 DEF Inv
  <2>2. CASE \E n \in Nodes : Pool(n)
    BY <1>1, <2>2, PoolStep
  <2>3. CASE \E n \in Nodes : MainThread(n)
    BY <1>1, <2>3, MainStep
  <2>4. CASE \E m, n \in Nodes : Receiver(m, n)
    BY <1>1, <2>4, ReceiveBarrierStep, ReceivePausedStep, ReceiveRunningStep, HandlingStep DEF Receiver
  <2>5. CASE Manager
    BY <1>1, <2>5, ManagerStep
  <2>6. CASE UNCHANGED vars
    <3>1. UNCHANGED <<queue, wire, meeting, receiver, messages, deferred, running>>
      BY <2>6 DEF vars, barrier, meeting, work
    <3>2. BarInv'
      BY <1>1, <3>1, BarStill DEF Inv
    <3>3. NodeType'
      BY <1>1, <3>1 DEF Inv, NodeType
    <3> QED BY <3>2, <3>3 DEF Inv
  <2> QED BY <1>1, <2>1, <2>2, <2>3, <2>4, <2>5, <2>6 DEF Next, Terminated
<1> QED BY <1>1, InitInv, PTL DEF Spec

(* Nobody leaves a round of the barrier that somebody has not entered,     *)
(* however many nodes there are, and while the runtime pauses and resumes. *)
THEOREM Meets == Spec => []BarrierHolds
<1>1. Inv => BarrierHolds
  <2> SUFFICES ASSUME Inv, NEW m \in Nodes, NEW n \in Nodes
               PROVE  passed[m] <= entered[n]
    BY DEF BarrierHolds
  <2>1. RoundInv(m) /\ RoundInv(n) /\ CountersType
    BY DEF Inv, BarInv
  <2> QED BY <2>1 DEF RoundInv, CountersType
<1> QED BY <1>1, Inductive, PTL

-----------------------------------------------------------------------------
(***************************************************************************)
(* The messages of a pause, and where they may be.                         *)
(***************************************************************************)
Pause(n)   == Message("pause", n)
Paused     == Message("paused", Root)
Start(n)   == Message("start_flush", n)
Begin      == Loopback("flush")
Flush(n)   == Message("flush", n)
Reflush(n) == Message("reflush", n)
Back       == Loopback("reflush")
Flushed    == Message("flushed", Root)
ResumeAt(n) == Message("resume", n)

Work       == {"work", "shutdown"}
FromRoot   == {"pause", "start_flush", "resume"}
ToRoot     == {"paused", "flushed"}

Queued(n)  == {x \in Msgs : /\ x.cmd \in FromRoot => n = Root
                            /\ x.cmd \in ToRoot => x.to = Root
                            /\ x.cmd = "flush" => x.to = Null
                            /\ x.cmd # "flushed"}
Wired(m, n) == {x \in Msgs : /\ x.to = n
                             /\ x.cmd \in FromRoot => m = Root
                             /\ x.cmd \in ToRoot => n = Root}
PlacesInv == /\ \A n \in Nodes : queue[n] \in Seq(Queued(n))
          /\ \A m, n \in Nodes : wire[m][n] \in Seq(Wired(m, n))

(* How often a message is on its way from m to n: on the wire, or behind   *)
(* it in the queue.                                                        *)
Way(m, n, x) == Count(queue[m], x) + Count(wire[m][n], x)

(* Nothing of B is in a sequence; nothing of B is behind anything of A.    *)
NoneOf(s, B)        == \A i \in 1..Len(s) : s[i] \notin B
NoneBehind(s, A, B) == \A i, j \in 1..Len(s) : i < j /\ s[i] \in A => s[j] \notin B
Clear(m, n, B)      == NoneOf(wire[m][n], B) /\ NoneOf(queue[m], B)
Ordered(q, w, A, B) == NoneBehind(w, A, B) /\ NoneBehind(q, A, B) /\ (NoneOf(w, A) \/ NoneOf(q, B))
InOrder(m, n, A, B) == Ordered(queue[m], wire[m][n], A, B)

-----------------------------------------------------------------------------
(***************************************************************************)
(* Where a node is in a pause.                                             *)
(***************************************************************************)
Calls(n)   == Way(Root, n, Pause(n))
Reports(n) == Way(n, Root, Paused)
Resumes(n) == Way(Root, n, ResumeAt(n))
One(b)     == IF b THEN 1 ELSE 0

Free(n)     == pauser[n] = "none" /\ Calls(n) = 0 /\ Reports(n) = 0 /\ Resumes(n) = One(isPaused[n])
Called(n)   == pauser[n] = "none" /\ Calls(n) = 1 /\ Reports(n) = 0 /\ Resumes(n) = One(isPaused[n])
Stopping(n) == /\ pauser[n] \in {"started", "waiting"} /\ (isPaused[n] <=> pauser[n] = "waiting")
               /\ Calls(n) = 0 /\ Reports(n) = 0 /\ Resumes(n) = 0
Quiet(n)    == pauser[n] = "none" /\ isPaused[n] /\ running[n] = {} /\ Calls(n) = 0 /\ Resumes(n) = 0
Stopped(n)  == Quiet(n) /\ Reports(n) = 1
Held(n)     == Quiet(n) /\ Reports(n) = 0

(* Where it is in a flush: it is told to start, it starts, it waits for    *)
(* the other nodes, it has told the root.                                  *)
Starts(n)  == Way(Root, n, Start(n))
Begins(n)  == Count(queue[n], Begin)
Backs(n)   == Count(queue[n], Back)
Ends(n)    == Count(wire[n][Root], Flushed)
Stages(n)  == Starts(n) + Begins(n) + One(flush[n].on) + Ends(n)
Open(n)    == Stages(n) = 1 \/ flush[n].dirty
Trip(n, k) == Count(wire[n][k], Flush(k)) + Way(k, n, Reflush(n))
Pending(n) == {k \in Nodes : Trip(n, k) = 1}

FlushInv(n) ==
  /\ Stages(n) \in {0, 1}
  /\ Ends(n) = 1 => ~flush[n].dirty
  /\ \A k \in Nodes : Trip(n, k) \in {0, 1}
  /\ IF flush[n].on THEN /\ flush[n].left = Cardinality(Pending(n)) + Backs(n)
                         /\ flush[n].left > 0
                    ELSE Pending(n) = {} /\ Backs(n) = 0

PhasePause ==
  /\ manager.at = "idle" => \A n \in Nodes : Free(n)
  /\ manager.at = "pausing" =>
       /\ \A n \in Nodes : Called(n) \/ Stopping(n) \/ Stopped(n) \/ Held(n)
       /\ manager.left = Cardinality({n \in Nodes : ~Held(n)})
  /\ manager.at \in {"flushing", "flushed"} => \A n \in Nodes : Held(n)
PhaseFlush ==
  IF manager.at = "flushing" THEN manager.left = Cardinality({n \in Nodes : Open(n)})
                             ELSE \A n \in Nodes : ~Open(n)
Phases == PhasePause /\ PhaseFlush /\ \A n \in Nodes : FlushInv(n)

OrderInv == \A n \in Nodes : InOrder(Root, n, {Pause(n)}, {ResumeAt(n)})

(* Only the root resumes a node, which stays running meanwhile.            *)
ReceiverInv == \A m, n \in Nodes :
  receiver[m][n].at \in {"resume", "clear"} => m = Root /\ ~isPaused[n] /\ pauser[n] = "none"

(* What is lost, and what has failed.                                      *)
LostInv == "park" \notin overlaps =>
  /\ lost = {}
  /\ \A m, n \in Nodes : receiver[m][n].at = "clear" => receiver[m][n].next > Len(messages[n])
FaultInv == faults \subseteq {"dirty"}

(* If nobody is at work at a paused node: its receivers only put messages  *)
(* aside, no work is behind a mark of the flush on a channel, and when the *)
(* flush of m has reached n no work is left on the channel from m to n.    *)
Works       == {x \in Msgs : x.cmd \in Work}
Marks(n)    == {Begin, Flush(n)}
Swept(m, n) == /\ manager.at \in {"flushing", "flushed"}
               /\ Starts(m) = 0 /\ Begins(m) = 0 /\ Count(wire[m][n], Flush(n)) = 0
HaltInv  == \A m, n \in Nodes : isPaused[n] => receiver[m][n].at \in {"idle", "park"}
MarkInv  == \A m, n \in Nodes : InOrder(m, n, Marks(n), Works)
SweepInv == \A m, n \in Nodes : Swept(m, n) => receiver[m][n] = Idle /\ Clear(m, n, Works)
SoundInv == faults = {} /\ \A n \in Nodes : ~flush[n].dirty
CleanInv == "outside" \notin overlaps => HaltInv /\ MarkInv /\ SweepInv /\ SoundInv

(* The types of the variables that only a pause uses.                      *)
PauseTypes ==
  /\ flush \in [Nodes -> [on : BOOLEAN, dirty : BOOLEAN, left : Int]]
  /\ isPaused \in [Nodes -> BOOLEAN] /\ pauser \in [Nodes -> {"none", "started", "waiting"}]
  /\ manager \in [at : {"idle", "pausing", "flushing", "flushed"}, left : Int]

-----------------------------------------------------------------------------
(***************************************************************************)
(* Sequences of messages.                                                  *)
(***************************************************************************)
LEMMA NoneTail ==
  ASSUME NEW S, NEW s \in Seq(S), s # <<>>
  PROVE  /\ \A B : NoneOf(s, B) => NoneOf(Tail(s), B) /\ Head(s) \notin B
         /\ \A B : NoneOf(Tail(s), B) /\ Head(s) \notin B => NoneOf(s, B)
         /\ \A A, B : NoneBehind(s, A, B) => NoneBehind(Tail(s), A, B)
         /\ \A A, B : NoneBehind(s, A, B) /\ Head(s) \in A => NoneOf(Tail(s), B)
<1>1. /\ Len(Tail(s)) = Len(s) - 1 /\ Len(s) \in Nat /\ Len(s) > 0 /\ Head(s) = s[1]
      /\ \A i \in 1..Len(s) - 1 : Tail(s)[i] = s[i + 1]
  OBVIOUS
<1>2. \A i \in 1..Len(s) : i = 1 \/ (i - 1 \in 1..Len(s) - 1 /\ s[i] = Tail(s)[i - 1])
  BY <1>1
<1>3. \A B : NoneOf(s, B) => NoneOf(Tail(s), B) /\ Head(s) \notin B
  BY <1>1 DEF NoneOf
<1>4. \A B : NoneOf(Tail(s), B) /\ Head(s) \notin B => NoneOf(s, B)
  BY <1>1, <1>2 DEF NoneOf
<1>5. \A A, B : NoneBehind(s, A, B) => NoneBehind(Tail(s), A, B)
  BY <1>1 DEF NoneBehind
<1>6. \A A, B : NoneBehind(s, A, B) /\ Head(s) \in A => NoneOf(Tail(s), B)
  BY <1>1 DEF NoneBehind, NoneOf
<1> QED
  BY <1>3, <1>4, <1>5, <1>6

(* Nothing is in a concatenation that is in neither part.                  *)
LEMMA NoneConcat ==
  ASSUME NEW S, NEW s \in Seq(S), NEW t \in Seq(S)
  PROVE  /\ \A B : NoneOf(s \o t, B) <=> NoneOf(s, B) /\ NoneOf(t, B)
         /\ \A A, B : NoneBehind(s, A, B) /\ NoneBehind(t, A, B) /\ (NoneOf(s, A) \/ NoneOf(t, B))
                        => NoneBehind(s \o t, A, B)
<1> DEFINE u == s \o t
<1>1. /\ Len(s) \in Nat /\ Len(t) \in Nat /\ Len(u) = Len(s) + Len(t)
      /\ \A i \in 1..Len(s) : u[i] = s[i]
      /\ \A i \in 1..Len(t) : u[i + Len(s)] = t[i]
  OBVIOUS
<1>2. \A i \in 1..Len(u) : \/ i \in 1..Len(s) /\ u[i] = s[i]
                           \/ i > Len(s) /\ i - Len(s) \in 1..Len(t) /\ u[i] = t[i - Len(s)]
  BY <1>1
<1>3. \A i \in 1..Len(s) : i \in 1..Len(u)
  BY <1>1
<1>4. \A i \in 1..Len(t) : i + Len(s) \in 1..Len(u)
  BY <1>1
<1> HIDE DEF u
<1>5. \A B : NoneOf(u, B) <=> NoneOf(s, B) /\ NoneOf(t, B)
  BY <1>1, <1>2, <1>3, <1>4 DEF NoneOf
<1>6. ASSUME NEW A, NEW B, NoneBehind(s, A, B), NoneBehind(t, A, B), NoneOf(s, A) \/ NoneOf(t, B)
      PROVE  NoneBehind(u, A, B)
  <2> SUFFICES ASSUME NEW i \in 1..Len(u), NEW j \in 1..Len(u), i < j, u[i] \in A
               PROVE  u[j] \notin B
    BY DEF NoneBehind
  <2>1. CASE j \in 1..Len(s) /\ u[j] = s[j]
    <3>1. i \in 1..Len(s) /\ u[i] = s[i]
      BY <1>1, <1>2, <2>1
    <3> QED
      BY <1>6, <2>1, <3>1 DEF NoneBehind
  <2>2. CASE j > Len(s) /\ j - Len(s) \in 1..Len(t) /\ u[j] = t[j - Len(s)]
    <3>1. CASE i \in 1..Len(s) /\ u[i] = s[i]
      BY <1>6, <2>2, <3>1 DEF NoneOf
    <3>2. CASE i > Len(s) /\ i - Len(s) \in 1..Len(t) /\ u[i] = t[i - Len(s)]
      <4>1. i - Len(s) < j - Len(s)
        BY <1>1
      <4> QED
        BY <1>6, <2>2, <3>2, <4>1 DEF NoneBehind
    <3> QED
      BY <1>2, <3>1, <3>2
  <2> QED
    BY <1>2, <2>1, <2>2
<1> QED
  BY <1>5, <1>6 DEF u

(* The empty sequence has nothing out of order.                            *)
LEMMA NoneEmpty ==
  ASSUME NEW B
  PROVE  NoneOf(<<>>, B) /\ \A A : NoneBehind(<<>>, A, B)
  BY DEF NoneOf, NoneBehind

(* Nor has a sequence of one.                                              *)
LEMMA NoneSingle ==
  ASSUME NEW x, NEW B
  PROVE  (NoneOf(<<x>>, B) <=> x \notin B) /\ \A A : NoneBehind(<<x>>, A, B)
  BY DEF NoneOf, NoneBehind

(* What is not in a sequence counts zero there.                            *)
LEMMA NoneCounted ==
  ASSUME NEW S, NEW s \in Seq(S), NEW x
  PROVE  NoneOf(s, {x}) <=> Count(s, x) = 0
  BY CountType DEF NoneOf

(* What is not in the range of a sequence is not in it, nor out of order.  *)
LEMMA NoneOver ==
  ASSUME NEW S, NEW s \in Seq(S), NEW A, NEW B
  PROVE  /\ S \cap B = {} => NoneOf(s, B)
         /\ NoneOf(s, B) => NoneBehind(s, A, B)
         /\ NoneOf(s, A) => NoneBehind(s, A, B)
<1>1. \A i \in 1..Len(s) : s[i] \in S
  OBVIOUS
<1> QED
  BY <1>1 DEF NoneOf, NoneBehind

(* The forms of the messages.                                              *)
LEMMA SignalForms ==
  /\ \A n \in Nodes : /\ Pause(n).cmd = "pause" /\ Pause(n).to = n
                      /\ Start(n).cmd = "start_flush" /\ Start(n).to = n
                      /\ Flush(n).cmd = "flush" /\ Flush(n).to = n
                      /\ Reflush(n).cmd = "reflush" /\ Reflush(n).to = n
                      /\ ResumeAt(n).cmd = "resume" /\ ResumeAt(n).to = n
                      /\ {Pause(n), Start(n), Flush(n), Reflush(n), ResumeAt(n)} \subseteq Plain
  /\ Paused.cmd = "paused" /\ Paused.to = Root /\ Flushed.cmd = "flushed" /\ Flushed.to = Root
  /\ Begin.cmd = "flush" /\ Begin.to = Null /\ Back.cmd = "reflush" /\ Back.to = Null
  /\ {Paused, Flushed, Begin, Back} \subseteq Plain
  /\ Null \notin Nodes /\ Root \in Nodes
<1>1. Root \in Nodes /\ Null \notin Nodes
  BY ControlAssumption
<1>2. \A n \in Nodes : {Pause(n), Start(n), Flush(n), Reflush(n), ResumeAt(n)} \subseteq Plain
  BY MessageForms DEF Pause, Start, Flush, Reflush, ResumeAt, Controls
<1>3. {Paused, Flushed, Begin, Back} \subseteq Plain
  BY <1>1, MessageForms DEF Paused, Flushed, Begin, Back, Controls
<1>4. \A n \in Nodes : /\ Pause(n).cmd = "pause" /\ Pause(n).to = n
                       /\ Start(n).cmd = "start_flush" /\ Start(n).to = n
                       /\ Flush(n).cmd = "flush" /\ Flush(n).to = n
                       /\ Reflush(n).cmd = "reflush" /\ Reflush(n).to = n
                       /\ ResumeAt(n).cmd = "resume" /\ ResumeAt(n).to = n
  BY DEF Pause, Start, Flush, Reflush, ResumeAt, Message
<1>5. /\ Paused.cmd = "paused" /\ Paused.to = Root /\ Flushed.cmd = "flushed" /\ Flushed.to = Root
      /\ Begin.cmd = "flush" /\ Begin.to = Null /\ Back.cmd = "reflush" /\ Back.to = Null
  BY DEF Paused, Flushed, Begin, Back, Message, Loopback
<1> QED
  BY <1>1, <1>2, <1>3, <1>4, <1>5

(* A message is known by its command and whom it is to.                    *)
LEMMA SignalIs ==
  ASSUME NEW x \in Msgs, x.cmd # "work"
  PROVE  /\ \A n \in Nodes : x.to = n => /\ x.cmd = "pause" => x = Pause(n)
                                         /\ x.cmd = "start_flush" => x = Start(n)
                                         /\ x.cmd = "flush" => x = Flush(n)
                                         /\ x.cmd = "reflush" => x = Reflush(n)
                                         /\ x.cmd = "resume" => x = ResumeAt(n)
         /\ x.to = Root => /\ x.cmd = "paused" => x = Paused
                           /\ x.cmd = "flushed" => x = Flushed
         /\ x.to = Null => x = Begin \/ x = Back
<1>1. x = [cmd |-> x.cmd, to |-> x.to, token |-> Null]
  BY DEF Msgs
<1>2. x.to = Null => x.cmd \in {"flush", "reflush"}
  BY DEF Msgs
<1> QED
  BY <1>1, <1>2 DEF Pause, Start, Flush, Reflush, ResumeAt, Paused, Flushed, Begin, Back, Message, Loopback

-----------------------------------------------------------------------------
(***************************************************************************)
(* What the steps post.                                                    *)
(***************************************************************************)
Barriers == {"barrier", "barrier_done"}
Neutral  == {x \in Msgs : x.cmd \in Work \cup Barriers}

(* A sequence over a set is one over a larger set.                         *)
LEMMA Larger ==
  ASSUME NEW S, NEW T, S \subseteq T, NEW s \in Seq(S)
  PROVE  s \in Seq(T)
OBVIOUS

(* Which messages may be in any queue.                                     *)
LEMMA QueuedForms ==
  ASSUME NEW n \in Nodes
  PROVE  /\ Works \subseteq Neutral /\ Neutral \subseteq Queued(n) /\ Queued(n) \subseteq Msgs
         /\ {Paused, Begin, Back} \subseteq Queued(n)
         /\ \A k \in Nodes : Reflush(k) \in Queued(n)
         /\ \A k \in Nodes : {Pause(k), Start(k), ResumeAt(k)} \subseteq Queued(Root)
<1>1. Works \subseteq Neutral /\ Neutral \subseteq Queued(n) /\ Queued(n) \subseteq Msgs
  BY DEF Works, Neutral, Queued, Work, Barriers, FromRoot, ToRoot
<1>2. {Paused, Begin, Back} \subseteq Queued(n)
  BY SignalForms DEF Queued, FromRoot, ToRoot, Plain
<1>3. \A k \in Nodes : Reflush(k) \in Queued(n)
  BY SignalForms DEF Queued, FromRoot, ToRoot, Plain
<1>4. \A k \in Nodes : {Pause(k), Start(k), ResumeAt(k)} \subseteq Queued(Root)
  BY SignalForms DEF Queued, FromRoot, ToRoot, Plain
<1> QED BY <1>1, <1>2, <1>3, <1>4

(* A command to all nodes: a sequence with one message to each.            *)
LEMMA ToAllForms ==
  ASSUME NEW c
  PROVE  /\ IsFiniteSet(ToAll(c)) /\ SetToSeq(ToAll(c)) \in Seq(ToAll(c))
         /\ \A x : Count(SetToSeq(ToAll(c)), x) = IF x \in ToAll(c) THEN 1 ELSE 0
         /\ \A x : x \in ToAll(c) <=> \E n \in Nodes : x = Message(c, n)
<1>1. \A x : x \in ToAll(c) <=> \E n \in Nodes : x = Message(c, n)
  BY DEF ToAll
<1>2. IsFiniteSet(ToAll(c))
  <2> DEFINE f == [n \in Nodes |-> Message(c, n)]
  <2>1. f \in Surjection(Nodes, ToAll(c))
    BY DEF Surjection, ToAll
  <2> QED BY <2>1, SizeType, FS_Surjection
<1> QED BY <1>1, <1>2, SetToSeqOnce, CountSet

(* Tokens are sent on as work, and the end of the last one is told to all. *)
LEMMA WorkForms ==
  /\ \A t \in Tokens, m \in Nodes : TokenMessage(t, m) \in Works
  /\ \A n \in Nodes : Message("shutdown", n) \in Works
<1>1. \A t \in Tokens, m \in Nodes : TokenMessage(t, m) \in Works
  BY MessageForms DEF Works, Work, TokenMessage, Plain
<1>2. \A n \in Nodes : Message("shutdown", n) \in Works
  BY MessageForms DEF Works, Work, Message, Controls, Plain
<1> QED BY <1>1, <1>2

(* The node n posts work, or nothing.                                      *)
Spread(n) == \E msgs \in Seq(Works) : Post(n, msgs)

(* Posting nothing is spreading nothing.                                   *)
LEMMA SpreadNothing ==
  ASSUME QueueType, NEW n \in Nodes, UNCHANGED queue
  PROVE  Spread(n)
<1>1. Post(n, <<>>)
  BY PostNothing
<1>2. <<>> \in Seq(Works)
  OBVIOUS
<1> QED BY <1>1, <1>2 DEF Spread

(* A token sent on is work.                                                *)
LEMMA ForwardSpreads ==
  ASSUME NEW n \in Nodes, NEW t \in Tokens, Forward(n, t)
  PROVE  Spread(n)
<1>1. PICK m \in Nodes : Post(n, <<TokenMessage(t, m)>>)
  BY DEF Forward
<1>2. <<TokenMessage(t, m)>> \in Seq(Works)
  BY WorkForms
<1> QED BY <1>1, <1>2 DEF Spread

(* A handler spreads work, and adds tasks only to a running node.          *)
LEMMA HandlerSpreads ==
  ASSUME QueueType, NodeType, NEW n \in Nodes, NEW x \in Handled, HandleMessage(n, x)
  PROVE  /\ Spread(n)
         /\ \A k \in Nodes : isPaused[k] /\ running[k] = {} => running'[k] = {}
<1>0. running \in [Nodes -> SUBSET Tokens]
  BY DEF NodeType
<1>1. CASE x.cmd = "work" /\ Process(n, x.token)
  <2>1. x.token \in Tokens
    BY <1>1, MessageForms
  <2>2. CASE Spawn(n, x.token) /\ UNCHANGED <<queue, hops>>
    <3>1. Spread(n)
      BY <2>2, SpreadNothing
    <3>2. \A k \in Nodes : isPaused[k] /\ running[k] = {} => running'[k] = {}
      BY <1>0, <2>1, <2>2 DEF Spawn
    <3> QED BY <3>1, <3>2
  <2>3. CASE Forward(n, x.token) /\ UNCHANGED <<running, deferred>>
    BY <2>1, <2>3, ForwardSpreads
  <2> QED BY <1>1, <2>2, <2>3 DEF Process
<1>2. CASE UNCHANGED <<queue, hops, running, deferred>>
  BY <1>2, SpreadNothing
<1> QED BY <1>1, <1>2 DEF HandleMessage

(* So does a task that ends.                                               *)
LEMMA TaskSpreads ==
  ASSUME NodeType, NEW n \in Nodes, RunTask(n)
  PROVE  /\ Spread(n) /\ running[n] # {}
         /\ \A k \in Nodes : running'[k] \subseteq running[k]
<1>1. PICK t \in running[n] :
        /\ running' = [running EXCEPT ![n] = @ \ {t}]
        /\ \/ Forward(n, t)
           \/ Post(n, IF ended' = Tokens THEN SetToSeq(ToAll("shutdown")) ELSE <<>>)
  BY DEF RunTask
<1>2. t \in Tokens /\ running \in [Nodes -> SUBSET Tokens]
  BY DEF NodeType
<1>3. CASE Forward(n, t)
  BY <1>1, <1>2, <1>3, ForwardSpreads
<1>4. CASE Post(n, IF ended' = Tokens THEN SetToSeq(ToAll("shutdown")) ELSE <<>>)
  <2>1. ToAll("shutdown") \subseteq Works
    BY WorkForms DEF ToAll
  <2>2. SetToSeq(ToAll("shutdown")) \in Seq(Works) /\ <<>> \in Seq(Works)
    BY <2>1, ToAllForms, Larger
  <2>3. (IF ended' = Tokens THEN SetToSeq(ToAll("shutdown")) ELSE <<>>) \in Seq(Works)
    BY <2>2
  <2>4. Spread(n)
    BY <1>4, <2>3 DEF Spread
  <2> QED BY <1>1, <1>2, <2>4
<1> QED BY <1>1, <1>3, <1>4

(* So does the start of the program.                                       *)
LEMMA LaunchSpreads ==
  ASSUME NEW n \in Nodes, Launch(n)
  PROVE  Spread(n)
<1>1. PICK at \in [Tokens -> Nodes] : Post(n, SetToSeq({TokenMessage(t, at[t]) : t \in Tokens}))
  BY DEF Launch
<1> DEFINE W == {TokenMessage(t, at[t]) : t \in Tokens}
           f == [t \in Tokens |-> TokenMessage(t, at[t])]
<1>2. W \subseteq Works
  BY WorkForms
<1>3. f \in Surjection(Tokens, W)
  BY DEF Surjection
<1>4. IsFiniteSet(W)
  BY <1>3, ControlAssumption, FS_Surjection
<1>5. SetToSeq(W) \in Seq(Works)
  BY <1>2, <1>4, SetSequence
<1> QED BY <1>1, <1>5 DEF Spread

(* What a root answers to an arrival is of the barrier.                    *)
LEMMA RoundForms ==
  ASSUME NEW i
  PROVE  Round(i) \in Seq({x \in Msgs : x.cmd \in Barriers})
<1>1. ToAll("barrier_done") \subseteq {x \in Msgs : x.cmd \in Barriers}
  BY MessageForms DEF ToAll, Barriers, Done, Message
<1>2. SetToSeq(ToAll("barrier_done")) \in Seq({x \in Msgs : x.cmd \in Barriers})
  BY <1>1, ToAllForms, Larger
<1> QED BY <1>2 DEF Round

-----------------------------------------------------------------------------
(***************************************************************************)
(* Every message is where it may be.                                       *)
(***************************************************************************)
(* Posting keeps the queues to their messages.                             *)
LEMMA PostPlaces ==
  ASSUME QueueType, PlacesInv, NEW n \in Nodes, NEW msgs \in Seq(Queued(n)), Post(n, msgs)
  PROVE  \A k \in Nodes : queue'[k] \in Seq(Queued(k)) /\ queue'[k] = IF k = n THEN queue[n] \o msgs ELSE queue[k]
<1>1. queue' = [queue EXCEPT ![n] = queue[n] \o msgs] /\ queue \in [Nodes -> Seq(Msgs)]
  BY DEF Post, QueueType
<1>2. queue[n] \o msgs \in Seq(Queued(n)) /\ \A k \in Nodes : queue[k] \in Seq(Queued(k))
  BY DEF PlacesInv
<1> QED BY <1>1, <1>2

(* Receiving keeps the wires to theirs.                                    *)
LEMMA TakePlaces ==
  ASSUME WireType, PlacesInv, NEW m \in Nodes, NEW n \in Nodes, wire[m][n] # <<>>,
         wire' = [wire EXCEPT ![m][n] = Tail(@)]
  PROVE  /\ Head(wire[m][n]) \in Wired(m, n)
         /\ \A j, k \in Nodes : /\ wire'[j][k] \in Seq(Wired(j, k))
                                /\ wire'[j][k] = IF j = m /\ k = n THEN Tail(wire[m][n]) ELSE wire[j][k]
<1>1. wire \in [Nodes -> [Nodes -> Seq(Msgs)]] /\ \A j, k \in Nodes : wire[j][k] \in Seq(Wired(j, k))
  BY DEF WireType, PlacesInv
<1>2. Head(wire[m][n]) \in Wired(m, n) /\ Tail(wire[m][n]) \in Seq(Wired(m, n))
  BY <1>1, TailType
<1>3. \A j, k \in Nodes : wire'[j][k] = IF j = m /\ k = n THEN Tail(wire[m][n]) ELSE wire[j][k]
  BY <1>1
<1> QED BY <1>1, <1>2, <1>3

(* The message or messages the runner sends for the head of its queue.     *)
Outcome(n) ==
  LET h == Head(queue[n])
  IN  IF h = Begin THEN ToAll("flush")
      ELSE IF h = Back THEN (IF flush[n].left = 1 /\ ~flush[n].dirty THEN {Flushed} ELSE {})
      ELSE {h}

(* What the runner does, in one place.                                     *)
LEMMA RunnerForms ==
  ASSUME QueueType, WireType, PlacesInv, NEW n \in Nodes, Runner(n)
  PROVE  /\ queue[n] # <<>> /\ queue[n] \in Seq(Queued(n)) /\ Head(queue[n]) \in Queued(n)
         /\ Tail(queue[n]) \in Seq(Queued(n))
         /\ \A k \in Nodes : queue'[k] = IF k = n THEN Tail(queue[n]) ELSE queue[k]
         /\ \A j, k \in Nodes : wire'[j][k] = IF j = n THEN wire[n][k] \o For(k, Outcome(n)) ELSE wire[j][k]
         /\ \A k \in Nodes : For(k, Outcome(n)) \in Seq(Wired(n, k))
         /\ \A x \in Outcome(n) : x.to \in Nodes => x \in Wired(n, x.to)
         /\ \A x, y \in Outcome(n) : x.to = y.to => x = y
         /\ Sent(n, Outcome(n))
<1>1. /\ queue[n] # <<>> /\ queue[n] \in Seq(Queued(n)) /\ Head(queue[n]) \in Queued(n)
      /\ Tail(queue[n]) \in Seq(Queued(n)) /\ queue \in [Nodes -> Seq(Msgs)]
      /\ queue' = [queue EXCEPT ![n] = Tail(queue[n])]
      /\ \A j, k \in Nodes : wire[j][k] \in Seq(Wired(j, k)) /\ wire \in [Nodes -> [Nodes -> Seq(Msgs)]]
  <2>1. queue[n] # <<>> /\ queue[n] \in Seq(Queued(n)) /\ queue \in [Nodes -> Seq(Msgs)]
        /\ queue' = [queue EXCEPT ![n] = Tail(queue[n])]
    BY DEF Runner, PlacesInv, QueueType
  <2>2. Head(queue[n]) \in Queued(n) /\ Tail(queue[n]) \in Seq(Queued(n))
    BY <2>1, TailType
  <2> QED BY <2>1, <2>2 DEF PlacesInv, WireType
<1>2. Sent(n, Outcome(n))
  <2>1. Begin # Back
    BY SignalForms
  <2> QED BY <2>1 DEF Runner, Outcome, Begin, Back, Flushed
<1>3. \A x \in Outcome(n) : x.to \in Nodes => x \in Wired(n, x.to)
  <2>1. \A k \in Nodes : Message("flush", k) \in Wired(n, k)
    BY SignalForms DEF Wired, Flush, Plain, FromRoot, ToRoot
  <2>2. Flushed \in Wired(n, Root)
    BY SignalForms DEF Wired, Plain, FromRoot, ToRoot
  <2>3. Head(queue[n]).to \in Nodes => Head(queue[n]) \in Wired(n, Head(queue[n]).to)
    BY <1>1 DEF Queued, Wired, FromRoot, ToRoot
  <2>4. CASE Outcome(n) = ToAll("flush")
    <3>1. \A x \in Outcome(n) : \E k \in Nodes : x = Message("flush", k) /\ x.to = k
      BY <2>4 DEF ToAll, Message
    <3> QED BY <2>1, <3>1
  <2>5. CASE Outcome(n) = {} \/ Outcome(n) = {Flushed} \/ Outcome(n) = {Head(queue[n])}
    BY <2>2, <2>3, <2>5, SignalForms
  <2> QED BY <2>4, <2>5 DEF Outcome
<1>4. \A x, y \in Outcome(n) : x.to = y.to => x = y
  BY DEF Outcome, ToAll, Message
<1>5. \A k \in Nodes : For(k, Outcome(n)) \in Seq(Wired(n, k))
  <2> TAKE k \in Nodes
  <2>1. CASE \E x \in Outcome(n) : x.to = k
    <3>1. PICK y \in Outcome(n) : y.to = k
      BY <2>1
    <3>2. (CHOOSE x \in Outcome(n) : x.to = k) = y
      BY <1>4, <3>1
    <3>3. For(k, Outcome(n)) = <<y>> /\ y \in Wired(n, k)
      BY <1>3, <2>1, <3>1, <3>2 DEF For
    <3> QED BY <3>3
  <2>2. CASE ~ \E x \in Outcome(n) : x.to = k
    BY <2>2 DEF For
  <2> QED BY <2>1, <2>2
<1>6. \A k \in Nodes : queue'[k] = IF k = n THEN Tail(queue[n]) ELSE queue[k]
  BY <1>1
<1>7. \A j, k \in Nodes : wire'[j][k] = IF j = n THEN wire[n][k] \o For(k, Outcome(n)) ELSE wire[j][k]
  BY <1>1, <1>2 DEF Sent
<1> QED BY <1>1, <1>2, <1>3, <1>4, <1>5, <1>6, <1>7

(* The runner puts what it sends where it may be.                          *)
LEMMA RunnerPlaces ==
  ASSUME QueueType, WireType, PlacesInv, NEW n \in Nodes, Runner(n)
  PROVE  PlacesInv'
<1>1. \A k \in Nodes : queue'[k] \in Seq(Queued(k))
  BY RunnerForms DEF PlacesInv
<1>2. \A j, k \in Nodes : wire'[j][k] \in Seq(Wired(j, k))
  <2> TAKE j \in Nodes
  <2> TAKE k \in Nodes
  <2>1. wire[j][k] \in Seq(Wired(j, k)) /\ For(k, Outcome(n)) \in Seq(Wired(n, k))
    BY RunnerForms DEF PlacesInv
  <2>2. wire'[j][k] = IF j = n THEN wire[n][k] \o For(k, Outcome(n)) ELSE wire[j][k]
    BY RunnerForms
  <2> QED BY <2>1, <2>2
<1> QED BY <1>1, <1>2 DEF PlacesInv

(* Posting what a queue may hold keeps to that, if the wires stay as they  *)
(* are or one gives up its first message.                                  *)
LEMMA PostKeeps ==
  ASSUME QueueType, WireType, PlacesInv, NEW n \in Nodes, NEW msgs \in Seq(Queued(n)), Post(n, msgs),
         \/ UNCHANGED wire
         \/ \E m \in Nodes, k \in Nodes : wire[m][k] # <<>> /\ wire' = [wire EXCEPT ![m][k] = Tail(@)]
  PROVE  PlacesInv'
<1>1. \A k \in Nodes : queue'[k] \in Seq(Queued(k))
  BY PostPlaces
<1>2. \A j, k \in Nodes : wire'[j][k] \in Seq(Wired(j, k))
  <2>1. CASE UNCHANGED wire
    BY <2>1 DEF PlacesInv
  <2>2. CASE \E m \in Nodes, k \in Nodes : wire[m][k] # <<>> /\ wire' = [wire EXCEPT ![m][k] = Tail(@)]
    BY <2>2, TakePlaces
  <2> QED BY <2>1, <2>2
<1> QED BY <1>1, <1>2 DEF PlacesInv

(* Spreading work, or nothing, keeps the queues to their messages.         *)
LEMMA SpreadKeeps ==
  ASSUME QueueType, WireType, PlacesInv, NEW n \in Nodes, Spread(n),
         \/ UNCHANGED wire
         \/ \E m \in Nodes, k \in Nodes : wire[m][k] # <<>> /\ wire' = [wire EXCEPT ![m][k] = Tail(@)]
  PROVE  PlacesInv'
<1>1. PICK msgs \in Seq(Works) : Post(n, msgs)
  BY DEF Spread
<1>2. msgs \in Seq(Queued(n))
  BY QueuedForms, Larger
<1> QED BY <1>1, <1>2, PostKeeps

(* What a paused node answers may be in its queue.                         *)
LEMMA AnswerForms ==
  ASSUME NEW m \in Nodes, NEW n \in Nodes, NEW x
  PROVE  Answer(m, x) \in Seq(Queued(n))
<1>1. <<Begin>> \in Seq(Queued(n)) /\ <<Back>> \in Seq(Queued(n)) /\ <<Reflush(m)>> \in Seq(Queued(n))
      /\ <<>> \in Seq(Queued(n))
  BY QueuedForms
<1> QED BY <1>1 DEF Answer, Begin, Back, Reflush

(* A command to all may be in the queue of the root.                       *)
LEMMA CommandForms ==
  ASSUME NEW c \in FromRoot
  PROVE  SetToSeq(ToAll(c)) \in Seq(Queued(Root))
<1>1. Root \in Nodes
  BY SizeType
<1>2. \A k \in Nodes : Message(c, k) \in Queued(Root)
  BY <1>1, QueuedForms DEF Pause, Start, ResumeAt, FromRoot
<1>3. ToAll(c) \subseteq Queued(Root)
  BY <1>2 DEF ToAll
<1> QED BY <1>3, ToAllForms, Larger

(* The types of what a pause changes.                                      *)
LEMMA PauseTypesStep ==
  ASSUME PauseTypes, [Next]_vars
  PROVE  PauseTypes'
<1>0. Cardinality(Nodes) \in Int
  BY SizeType DEF Size
<1> USE DEF PauseTypes
<1>1. CASE \E n \in Nodes : Runner(n)
  <2>1. PICK n \in Nodes : Runner(n)
    BY <1>1
  <2>2. UNCHANGED <<isPaused, pauser, manager>>
    BY <2>1 DEF Runner
  <2>3. flush' \in [Nodes -> [on : BOOLEAN, dirty : BOOLEAN, left : Int]]
    <3>1. \/ flush' = [flush EXCEPT ![n] = [on |-> TRUE, dirty |-> FALSE, left |-> Cardinality(Nodes)]]
          \/ flush' = [flush EXCEPT ![n].left = @ - 1, ![n].on = flush[n].left > 1]
          \/ flush' = [flush EXCEPT ![n].dirty = @ \/ (flush[n].on /\ Head(queue[n]).cmd \in {"work", "shutdown"})]
      BY <2>1 DEF Runner
    <3>2. flush[n] \in [on : BOOLEAN, dirty : BOOLEAN, left : Int]
      OBVIOUS
    <3>3. CASE flush' = [flush EXCEPT ![n] = [on |-> TRUE, dirty |-> FALSE, left |-> Cardinality(Nodes)]]
      BY <1>0, <3>3
    <3>4. CASE flush' = [flush EXCEPT ![n].left = @ - 1, ![n].on = flush[n].left > 1]
      <4> DEFINE b == flush[n].left > 1
                 i == flush[n].left - 1
                 r == [flush[n] EXCEPT !.left = i, !.on = b]
      <4>1. b \in BOOLEAN /\ i \in Int
        BY <3>2
      <4>2. flush' = [flush EXCEPT ![n] = r]
        BY <3>4
      <4> HIDE DEF b, i
      <4>3. r \in [on : BOOLEAN, dirty : BOOLEAN, left : Int]
        BY <3>2, <4>1
      <4> HIDE DEF r
      <4> QED BY <4>2, <4>3
    <3>5. CASE flush' = [flush EXCEPT ![n].dirty = @ \/ (flush[n].on /\ Head(queue[n]).cmd \in {"work", "shutdown"})]
      <4> DEFINE b == flush[n].dirty \/ (flush[n].on /\ Head(queue[n]).cmd \in {"work", "shutdown"})
                 r == [flush[n] EXCEPT !.dirty = b]
      <4>1. flush' = [flush EXCEPT ![n].dirty = b] /\ b \in BOOLEAN
        BY <3>5
      <4> HIDE DEF b
      <4>2. flush' = [flush EXCEPT ![n] = r]
        BY <4>1
      <4>3. r \in [on : BOOLEAN, dirty : BOOLEAN, left : Int]
        BY <3>2, <4>1
      <4> HIDE DEF r
      <4> QED BY <4>2, <4>3
    <3> QED BY <3>1, <3>3, <3>4, <3>5
  <2> QED BY <2>2, <2>3
<1>2. CASE \E n \in Nodes : Pool(n) \/ MainThread(n)
  BY <1>2 DEF Pool, RunTask, SetPaused, ReportPaused, MainThread, EnterBarrier, LeaveBarrier, Launch,
              StartWorker, Stop, control
<1>3. CASE \E m, n \in Nodes : ReceiveBarrier(m, n)
  <2>1. UNCHANGED <<flush, isPaused, pauser>> /\ (UNCHANGED manager \/ manager' = [manager EXCEPT !.left = @ - 1])
    BY <1>3 DEF ReceiveBarrier, ReceiveAlways
  <2> QED BY <2>1
<1>4. CASE \E m, n \in Nodes : ReceivePaused(m, n)
  <2>1. /\ UNCHANGED <<flush, pauser>> /\ (UNCHANGED manager \/ manager' = [manager EXCEPT !.left = @ - 1])
        /\ \E n \in Nodes, b \in BOOLEAN : isPaused' = [isPaused EXCEPT ![n] = b]
    <3>1. PICK m \in Nodes, n \in Nodes : ReceivePaused(m, n)
      BY <1>4
    <3>2. isPaused' = [isPaused EXCEPT ![n] = Head(wire[m][n]).cmd # "resume"]
      BY <3>1 DEF ReceivePaused
    <3> QED BY <3>1, <3>2 DEF ReceivePaused
  <2> QED BY <2>1
<1>5. CASE \E m, n \in Nodes : ReceiveRunning(m, n)
  BY <1>5 DEF ReceiveRunning
<1>6. CASE \E m, n \in Nodes : Handle(m, n) \/ Park(m, n) \/ Resume(m, n) \/ ClearPaused(m, n)
  BY <1>6 DEF Handle, Park, Resume, ClearPaused, control
<1>7. CASE Manager
  BY <1>0, <1>7 DEF Manager, StartPause, StartFlush, EndFlush, StartResume
<1>8. CASE UNCHANGED vars
  BY <1>8 DEF vars, control
<1> QED BY <1>1, <1>2, <1>3, <1>4, <1>5, <1>6, <1>7, <1>8 DEF Next, Receiver, Terminated

(* Every step keeps every message where it may be.                         *)
LEMMA PlacesStep ==
  ASSUME Inv, PlacesInv, [Next]_vars
  PROVE  PlacesInv'
<1>1. QueueType /\ WireType /\ NodeType /\ Root \in Nodes
  BY SizeType DEF Inv, BarInv
<1>2. CASE \E n \in Nodes : Runner(n)
  BY <1>1, <1>2, RunnerPlaces
<1>3. CASE \E n \in Nodes : Pool(n)
  <2>1. PICK n \in Nodes : Pool(n)
    BY <1>3
  <2>2. CASE RunTask(n)
    BY <1>1, <2>2, TaskSpreads, SpreadKeeps DEF RunTask
  <2>3. CASE SetPaused(n)
    BY <2>3 DEF SetPaused, PlacesInv
  <2>4. CASE ReportPaused(n)
    <3>1. Post(n, <<Paused>>) /\ <<Paused>> \in Seq(Queued(n)) /\ UNCHANGED wire
      BY <2>4, QueuedForms DEF ReportPaused, Paused
    <3> QED BY <1>1, <3>1, PostKeeps
  <2> QED BY <2>1, <2>2, <2>3, <2>4 DEF Pool
<1>4. CASE \E n \in Nodes : MainThread(n)
  <2>1. PICK n \in Nodes : MainThread(n)
    BY <1>4
  <2>2. CASE EnterBarrier(n)
    <3>1. ToBarrier \in Queued(n)
      BY MessageForms DEF Queued, ToBarrier, Message, FromRoot, ToRoot
    <3>2. Post(n, <<ToBarrier>>) /\ <<ToBarrier>> \in Seq(Queued(n)) /\ UNCHANGED wire
      BY <2>2, <3>1 DEF EnterBarrier, ToBarrier
    <3> QED BY <1>1, <3>2, PostKeeps
  <2>3. CASE Launch(n)
    BY <1>1, <2>3, LaunchSpreads, SpreadKeeps DEF Launch
  <2>4. CASE LeaveBarrier(n) \/ StartWorker(n) \/ Stop(n)
    BY <2>4 DEF LeaveBarrier, StartWorker, Stop, PlacesInv
  <2> QED BY <2>1, <2>2, <2>3, <2>4 DEF MainThread
<1>5. CASE \E m, n \in Nodes : ReceiveBarrier(m, n)
  <2>1. PICK m \in Nodes, n \in Nodes : ReceiveBarrier(m, n)
    BY <1>5
  <2>2. wire[m][n] # <<>> /\ wire' = [wire EXCEPT ![m][n] = Tail(@)]
    BY <2>1 DEF ReceiveBarrier
  <2>3. CASE UNCHANGED queue
    BY <1>1, <2>2, <2>3, SpreadNothing, SpreadKeeps
  <2>4. CASE Post(n, Round(arrived + 1))
    <3>1. {x \in Msgs : x.cmd \in Barriers} \subseteq Queued(n)
      BY QueuedForms DEF Neutral
    <3>2. Round(arrived + 1) \in Seq(Queued(n))
      BY <3>1, RoundForms, Larger
    <3> QED BY <1>1, <2>2, <2>4, <3>2, PostKeeps
  <2> QED BY <2>1, <2>3, <2>4 DEF ReceiveBarrier, ReceiveAlways
<1>6. CASE \E m, n \in Nodes : ReceivePaused(m, n)
  <2>1. PICK m \in Nodes, n \in Nodes : ReceivePaused(m, n)
    BY <1>6
  <2>2. wire[m][n] # <<>> /\ wire' = [wire EXCEPT ![m][n] = Tail(@)] /\ Post(n, Answer(m, Head(wire[m][n])))
    BY <2>1 DEF ReceivePaused
  <2> QED BY <1>1, <2>2, AnswerForms, PostKeeps
<1>7. CASE \E m, n \in Nodes : ReceiveRunning(m, n)
  <2>1. PICK m \in Nodes, n \in Nodes : ReceiveRunning(m, n)
    BY <1>7
  <2>2. wire[m][n] # <<>> /\ wire' = [wire EXCEPT ![m][n] = Tail(@)] /\ UNCHANGED queue
    BY <2>1 DEF ReceiveRunning
  <2> QED BY <1>1, <2>2, SpreadNothing, SpreadKeeps
<1>8. CASE \E m, n \in Nodes : Handle(m, n) \/ Park(m, n) \/ Resume(m, n) \/ ClearPaused(m, n)
  <2>1. PICK m \in Nodes, n \in Nodes : Handle(m, n) \/ Park(m, n) \/ Resume(m, n) \/ ClearPaused(m, n)
    BY <1>8
  <2>2. receiver[m][n] \in Receiving /\ UNCHANGED wire /\ messages[n] \in Seq(Handled)
    BY <1>1, <2>1 DEF NodeType, Handle, Park, Resume, ClearPaused
  <2>3. UNCHANGED queue \/ \E x \in Handled : HandleMessage(n, x)
    <3>1. CASE Handle(m, n)
      BY <2>2, <3>1, ReceivingForms DEF Handle
    <3>2. CASE Resume(m, n)
      <4>1. receiver[m][n].next \in Nat \ {0}
        BY <2>2, <3>2, ReceivingForms DEF Resume
      <4>2. More(n, receiver[m][n].next) => messages[n][receiver[m][n].next] \in Handled
        BY <2>2, <4>1 DEF More
      <4> QED BY <3>2, <4>2 DEF Resume
    <3>3. CASE Park(m, n) \/ ClearPaused(m, n)
      BY <3>3 DEF Park, ClearPaused
    <3> QED BY <2>1, <3>1, <3>2, <3>3
  <2>4. Spread(n)
    BY <1>1, <2>3, SpreadNothing, HandlerSpreads
  <2> QED BY <1>1, <2>2, <2>4, SpreadKeeps
<1>9. CASE Manager
  <2>1. UNCHANGED wire
    BY <1>9 DEF Manager, StartPause, StartFlush, EndFlush, StartResume
  <2>2. UNCHANGED queue \/ \E c \in FromRoot : Post(Root, SetToSeq(ToAll(c)))
    BY <1>9 DEF Manager, StartPause, StartFlush, EndFlush, StartResume, PostAll, FromRoot
  <2>3. CASE UNCHANGED queue
    BY <1>1, <2>1, <2>3, SpreadNothing, SpreadKeeps
  <2>4. CASE \E c \in FromRoot : Post(Root, SetToSeq(ToAll(c)))
    BY <1>1, <2>1, <2>4, CommandForms, PostKeeps
  <2> QED BY <2>2, <2>3, <2>4
<1>10. CASE UNCHANGED vars
  BY <1>10 DEF vars, PlacesInv
<1> QED BY <1>2, <1>3, <1>4, <1>5, <1>6, <1>7, <1>8, <1>9, <1>10 DEF Next, Receiver, Terminated

Placed == Inv /\ PauseTypes /\ PlacesInv

(* Every message is where it may be, always.                               *)
THEOREM AlwaysPlaced == Spec => []Placed
<1>1. Init => PauseTypes /\ PlacesInv
  BY DEF Init, PauseTypes, PlacesInv
<1>2. Inv /\ PauseTypes /\ PlacesInv /\ [Next]_vars => PauseTypes' /\ PlacesInv'
  BY PauseTypesStep, PlacesStep
<1> QED BY <1>1, <1>2, Inductive, PTL DEF Spec, Placed

-----------------------------------------------------------------------------
(***************************************************************************)
(* What the steps do to the numbers of messages.                           *)
(***************************************************************************)
(* The numbers, before a step and after it.                                *)
LEMMA Numbers ==
  ASSUME NEW n \in Nodes, NEW k \in Nodes
  PROVE  /\ Calls(n) = Count(queue[Root], Pause(n)) + Count(wire[Root][n], Pause(n))
         /\ Reports(n) = Count(queue[n], Paused) + Count(wire[n][Root], Paused)
         /\ Resumes(n) = Count(queue[Root], ResumeAt(n)) + Count(wire[Root][n], ResumeAt(n))
         /\ Starts(n) = Count(queue[Root], Start(n)) + Count(wire[Root][n], Start(n))
         /\ Begins(n) = Count(queue[n], Begin) /\ Backs(n) = Count(queue[n], Back)
         /\ Ends(n) = Count(wire[n][Root], Flushed)
         /\ Trip(n, k) = Count(wire[n][k], Flush(k)) + (Count(queue[k], Reflush(n)) + Count(wire[k][n], Reflush(n)))
BY DEF Calls, Reports, Resumes, Starts, Begins, Backs, Ends, Way, Trip

(* The numbers after a step.                                               *)
LEMMA NumbersAfter ==
  ASSUME NEW n \in Nodes, NEW k \in Nodes
  PROVE  /\ Calls(n)' = Count(queue'[Root], Pause(n)) + Count(wire'[Root][n], Pause(n))
         /\ Reports(n)' = Count(queue'[n], Paused) + Count(wire'[n][Root], Paused)
         /\ Resumes(n)' = Count(queue'[Root], ResumeAt(n)) + Count(wire'[Root][n], ResumeAt(n))
         /\ Starts(n)' = Count(queue'[Root], Start(n)) + Count(wire'[Root][n], Start(n))
         /\ Begins(n)' = Count(queue'[n], Begin) /\ Backs(n)' = Count(queue'[n], Back)
         /\ Ends(n)' = Count(wire'[n][Root], Flushed)
         /\ Trip(n, k)' = Count(wire'[n][k], Flush(k)) + (Count(queue'[k], Reflush(n)) + Count(wire'[k][n], Reflush(n)))
BY DEF Calls, Reports, Resumes, Starts, Begins, Backs, Ends, Way, Trip,
       Pause, Paused, ResumeAt, Start, Begin, Back, Flushed, Flush, Reflush, Message, Loopback

(* They are natural numbers.                                               *)
LEMMA NumbersType ==
  ASSUME Placed, NEW n \in Nodes, NEW k \in Nodes
  PROVE  /\ Calls(n) \in Nat /\ Reports(n) \in Nat /\ Resumes(n) \in Nat /\ Starts(n) \in Nat
         /\ Begins(n) \in Nat /\ Backs(n) \in Nat /\ Ends(n) \in Nat /\ Trip(n, k) \in Nat
         /\ \A i \in Nodes : \A x : Count(queue[i], x) \in Nat
         /\ \A i, j \in Nodes : \A x : Count(wire[i][j], x) \in Nat
<1>1. /\ \A i \in Nodes : \A x : Count(queue[i], x) \in Nat
      /\ \A i, j \in Nodes : \A x : Count(wire[i][j], x) \in Nat
  BY Counts DEF Placed, Inv, BarInv
<1>2. Root \in Nodes
  BY SizeType
<1>3. Trip(n, k) \in Nat
  <2>1. /\ Count(wire[n][k], Flush(k)) \in Nat /\ Count(queue[k], Reflush(n)) \in Nat
        /\ Count(wire[k][n], Reflush(n)) \in Nat
    BY <1>1
  <2>2. Trip(n, k) = Count(wire[n][k], Flush(k)) + (Count(queue[k], Reflush(n)) + Count(wire[k][n], Reflush(n)))
    BY Numbers
  <2> QED BY <2>1, <2>2
<1>4. Calls(n) \in Nat /\ Reports(n) \in Nat /\ Resumes(n) \in Nat /\ Starts(n) \in Nat
  <2>1. \A x : Count(queue[Root], x) + Count(wire[Root][n], x) \in Nat
    <3>1. \A x : Count(queue[Root], x) \in Nat /\ Count(wire[Root][n], x) \in Nat
      BY <1>1, <1>2
    <3> QED BY <3>1
  <2>2. \A x : Count(queue[n], x) + Count(wire[n][Root], x) \in Nat
    <3>1. \A x : Count(queue[n], x) \in Nat /\ Count(wire[n][Root], x) \in Nat
      BY <1>1, <1>2
    <3> QED BY <3>1
  <2> QED BY <2>1, <2>2, Numbers
<1>5. Begins(n) \in Nat /\ Backs(n) \in Nat /\ Ends(n) \in Nat
  BY <1>1, <1>2, Numbers
<1> QED BY <1>1, <1>3, <1>4, <1>5

(* So they are after a step.                                               *)
LEMMA NumbersTypeAfter ==
  ASSUME Placed', NEW n \in Nodes, NEW k \in Nodes
  PROVE  /\ Calls(n)' \in Nat /\ Reports(n)' \in Nat /\ Resumes(n)' \in Nat /\ Starts(n)' \in Nat
         /\ Begins(n)' \in Nat /\ Backs(n)' \in Nat /\ Ends(n)' \in Nat /\ Trip(n, k)' \in Nat
<1>1. /\ \A i \in Nodes : \A x : Count(queue'[i], x) \in Nat
      /\ \A i, j \in Nodes : \A x : Count(wire'[i][j], x) \in Nat
  <2>1. \A i, j \in Nodes : queue'[i] \in Seq(Queued(i)) /\ wire'[i][j] \in Seq(Wired(i, j))
    BY DEF Placed, PlacesInv
  <2> QED BY <2>1, CountType
<1>2. Root \in Nodes
  BY SizeType
<1>3. Trip(n, k)' \in Nat
  <2>1. /\ Count(wire'[n][k], Flush(k)) \in Nat /\ Count(queue'[k], Reflush(n)) \in Nat
        /\ Count(wire'[k][n], Reflush(n)) \in Nat
    BY <1>1
  <2>2. Trip(n, k)' = Count(wire'[n][k], Flush(k)) + (Count(queue'[k], Reflush(n)) + Count(wire'[k][n], Reflush(n)))
    BY NumbersAfter
  <2> QED BY <2>1, <2>2
<1>4. Calls(n)' \in Nat /\ Reports(n)' \in Nat /\ Resumes(n)' \in Nat /\ Starts(n)' \in Nat
  <2>1. \A x : Count(queue'[Root], x) + Count(wire'[Root][n], x) \in Nat
    <3>1. \A x : Count(queue'[Root], x) \in Nat /\ Count(wire'[Root][n], x) \in Nat
      BY <1>1, <1>2
    <3> QED BY <3>1
  <2>2. \A x : Count(queue'[n], x) + Count(wire'[n][Root], x) \in Nat
    <3>1. \A x : Count(queue'[n], x) \in Nat /\ Count(wire'[n][Root], x) \in Nat
      BY <1>1, <1>2
    <3> QED BY <3>1
  <2>3. /\ Calls(n)' = Count(queue'[Root], Pause(n)) + Count(wire'[Root][n], Pause(n))
        /\ Resumes(n)' = Count(queue'[Root], ResumeAt(n)) + Count(wire'[Root][n], ResumeAt(n))
        /\ Starts(n)' = Count(queue'[Root], Start(n)) + Count(wire'[Root][n], Start(n))
        /\ Reports(n)' = Count(queue'[n], Paused) + Count(wire'[n][Root], Paused)
    BY NumbersAfter
  <2> QED BY <2>1, <2>2, <2>3
<1>5. Begins(n)' \in Nat /\ Backs(n)' \in Nat /\ Ends(n)' \in Nat
  BY <1>1, <1>2, NumbersAfter
<1> QED BY <1>3, <1>4, <1>5

(* A step after which the counts differ by what was added and taken.       *)
Adds(n, msgs) ==
  /\ \A x : Count(msgs, x) \in Nat
  /\ \A k \in Nodes : \A x :
       Count(queue'[k], x) = Count(queue[k], x) + IF k = n THEN Count(msgs, x) ELSE 0
Removes(m, n, y) ==
  /\ \A j, k \in Nodes : \A x : Count(wire'[j][k], x) \in Nat
  /\ \A j, k \in Nodes : \A x :
       Count(wire[j][k], x) = Count(wire'[j][k], x) + IF m = j /\ n = k /\ y = x THEN 1 ELSE 0

(* Posting adds to the queue.                                              *)
LEMMA AddsWhenPosted ==
  ASSUME Placed, NEW n \in Nodes, NEW msgs \in Seq(Queued(n)), Post(n, msgs)
  PROVE  Adds(n, msgs)
<1>1. QueueType /\ PlacesInv /\ \A k \in Nodes : queue[k] \in Seq(Queued(k))
  BY DEF Placed, Inv, BarInv, PlacesInv
<1>2. \A k \in Nodes : queue'[k] = IF k = n THEN queue[n] \o msgs ELSE queue[k]
  BY <1>1, PostPlaces
<1>3. \A x : Count(queue[n] \o msgs, x) = Count(queue[n], x) + Count(msgs, x)
  BY <1>1, CountConcat
<1>4. \A k \in Nodes : \A x : Count(queue[k], x) \in Nat /\ Count(msgs, x) \in Nat
  BY <1>1, CountType
<1>5. ASSUME NEW k \in Nodes, NEW x
      PROVE  Count(queue'[k], x) = Count(queue[k], x) + IF k = n THEN Count(msgs, x) ELSE 0
  <2>1. CASE k = n
    BY <1>2, <1>3, <2>1
  <2>2. CASE k # n
    <3>1. Count(queue[k], x) \in Nat /\ queue'[k] = queue[k]
      BY <1>2, <1>4, <2>2
    <3> QED BY <2>2, <3>1
  <2> QED BY <2>1, <2>2
<1> QED BY <1>4, <1>5 DEF Adds

(* Taking removes from the wire.                                           *)
LEMMA RemovesWhenTaken ==
  ASSUME Placed, NEW m \in Nodes, NEW n \in Nodes, wire[m][n] # <<>>, wire' = [wire EXCEPT ![m][n] = Tail(@)]
  PROVE  /\ Removes(m, n, Head(wire[m][n])) /\ Head(wire[m][n]) \in Wired(m, n) /\ Head(wire[m][n]) \in Msgs
<1>1. WireType /\ PlacesInv /\ \A j, k \in Nodes : wire[j][k] \in Seq(Wired(j, k))
  BY DEF Placed, Inv, BarInv, PlacesInv
<1>2. /\ Head(wire[m][n]) \in Wired(m, n)
      /\ \A j, k \in Nodes : /\ wire'[j][k] \in Seq(Wired(j, k))
                             /\ wire'[j][k] = IF j = m /\ k = n THEN Tail(wire[m][n]) ELSE wire[j][k]
  BY <1>1, TakePlaces
<1>3. \A x : Count(wire[m][n], x) = Count(Tail(wire[m][n]), x) + IF Head(wire[m][n]) = x THEN 1 ELSE 0
  BY <1>1, CountTail
<1>4. \A j, k \in Nodes : \A x : Count(wire[j][k], x) \in Nat /\ Count(wire'[j][k], x) \in Nat
  BY <1>1, <1>2, CountType
<1> DEFINE y == Head(wire[m][n])
<1>5. ASSUME NEW j \in Nodes, NEW k \in Nodes, NEW x
      PROVE  Count(wire[j][k], x) = Count(wire'[j][k], x) + IF m = j /\ n = k /\ y = x THEN 1 ELSE 0
  <2>1. CASE j = m /\ k = n
    <3>1. wire'[j][k] = Tail(wire[m][n])
      BY <1>2, <2>1
    <3> QED BY <1>3, <2>1, <3>1
  <2>2. CASE ~(j = m /\ k = n)
    <3>1. Count(wire[j][k], x) \in Nat /\ wire'[j][k] = wire[j][k]
      BY <1>2, <1>4, <2>2
    <3> QED BY <2>2, <3>1
  <2> QED BY <2>1, <2>2
<1>6. Head(wire[m][n]) \in Msgs
  BY <1>2 DEF Wired
<1> QED BY <1>2, <1>4, <1>5, <1>6 DEF Removes

(* Posting, when no message is received.                                   *)
LEMMA PostLedger ==
  ASSUME Placed, NEW n \in Nodes, NEW msgs \in Seq(Queued(n)), Post(n, msgs), UNCHANGED wire,
         NEW k \in Nodes, NEW j \in Nodes
  PROVE  /\ Calls(k)' = Calls(k) + IF n = Root THEN Count(msgs, Pause(k)) ELSE 0
         /\ Resumes(k)' = Resumes(k) + IF n = Root THEN Count(msgs, ResumeAt(k)) ELSE 0
         /\ Starts(k)' = Starts(k) + IF n = Root THEN Count(msgs, Start(k)) ELSE 0
         /\ Reports(k)' = Reports(k) + IF n = k THEN Count(msgs, Paused) ELSE 0
         /\ Begins(k)' = Begins(k) + IF n = k THEN Count(msgs, Begin) ELSE 0
         /\ Backs(k)' = Backs(k) + IF n = k THEN Count(msgs, Back) ELSE 0
         /\ Ends(k)' = Ends(k)
         /\ Trip(j, k)' = Trip(j, k) + IF n = k THEN Count(msgs, Reflush(j)) ELSE 0
<1>1. Adds(n, msgs) /\ \A x : Count(msgs, x) \in Nat
  BY AddsWhenPosted DEF Adds
<1>2. /\ \A i \in Nodes : \A x : Count(queue[i], x) \in Nat
      /\ \A i, l \in Nodes : \A x : Count(wire[i][l], x) \in Nat
  BY NumbersType
<1>3. Root \in Nodes
  BY SizeType
<1>4. \A x : /\ Count(queue'[Root], x) = Count(queue[Root], x) + IF n = Root THEN Count(msgs, x) ELSE 0
             /\ Count(queue'[k], x) = Count(queue[k], x) + IF n = k THEN Count(msgs, x) ELSE 0
  BY <1>1, <1>3 DEF Adds
<1>5. Calls(k)' = Calls(k) + IF n = Root THEN Count(msgs, Pause(k)) ELSE 0
  <2>1. Calls(k) = Count(queue[Root], Pause(k)) + Count(wire[Root][k], Pause(k))
    BY Numbers
  <2>2. Calls(k)' = Count(queue'[Root], Pause(k)) + Count(wire[Root][k], Pause(k))
    BY NumbersAfter
  <2>3. Count(queue[Root], Pause(k)) \in Nat /\ Count(wire[Root][k], Pause(k)) \in Nat /\ Count(msgs, Pause(k)) \in Nat
    BY <1>1, <1>2, <1>3
  <2>4. Count(queue'[Root], Pause(k)) = Count(queue[Root], Pause(k)) + IF n = Root THEN Count(msgs, Pause(k)) ELSE 0
    BY <1>4
  <2> QED BY <2>1, <2>2, <2>3, <2>4
<1>6. Resumes(k)' = Resumes(k) + IF n = Root THEN Count(msgs, ResumeAt(k)) ELSE 0
  <2>1. Resumes(k) = Count(queue[Root], ResumeAt(k)) + Count(wire[Root][k], ResumeAt(k))
    BY Numbers
  <2>2. Resumes(k)' = Count(queue'[Root], ResumeAt(k)) + Count(wire[Root][k], ResumeAt(k))
    BY NumbersAfter
  <2>3. Count(queue[Root], ResumeAt(k)) \in Nat /\ Count(wire[Root][k], ResumeAt(k)) \in Nat /\ Count(msgs, ResumeAt(k)) \in Nat
    BY <1>1, <1>2, <1>3
  <2>4. Count(queue'[Root], ResumeAt(k)) = Count(queue[Root], ResumeAt(k)) + IF n = Root THEN Count(msgs, ResumeAt(k)) ELSE 0
    BY <1>4
  <2> QED BY <2>1, <2>2, <2>3, <2>4
<1>7. Starts(k)' = Starts(k) + IF n = Root THEN Count(msgs, Start(k)) ELSE 0
  <2>1. Starts(k) = Count(queue[Root], Start(k)) + Count(wire[Root][k], Start(k))
    BY Numbers
  <2>2. Starts(k)' = Count(queue'[Root], Start(k)) + Count(wire[Root][k], Start(k))
    BY NumbersAfter
  <2>3. Count(queue[Root], Start(k)) \in Nat /\ Count(wire[Root][k], Start(k)) \in Nat /\ Count(msgs, Start(k)) \in Nat
    BY <1>1, <1>2, <1>3
  <2>4. Count(queue'[Root], Start(k)) = Count(queue[Root], Start(k)) + IF n = Root THEN Count(msgs, Start(k)) ELSE 0
    BY <1>4
  <2> QED BY <2>1, <2>2, <2>3, <2>4
<1>8. Reports(k)' = Reports(k) + IF n = k THEN Count(msgs, Paused) ELSE 0
  <2>1. Reports(k) = Count(queue[k], Paused) + Count(wire[k][Root], Paused)
    BY Numbers
  <2>2. Reports(k)' = Count(queue'[k], Paused) + Count(wire[k][Root], Paused)
    BY NumbersAfter
  <2>3. Count(queue[k], Paused) \in Nat /\ Count(wire[k][Root], Paused) \in Nat /\ Count(msgs, Paused) \in Nat
    BY <1>1, <1>2, <1>3
  <2>4. Count(queue'[k], Paused) = Count(queue[k], Paused) + IF n = k THEN Count(msgs, Paused) ELSE 0
    BY <1>4
  <2> QED BY <2>1, <2>2, <2>3, <2>4
<1>9. /\ Begins(k)' = Begins(k) + IF n = k THEN Count(msgs, Begin) ELSE 0
      /\ Backs(k)' = Backs(k) + IF n = k THEN Count(msgs, Back) ELSE 0
      /\ Ends(k)' = Ends(k)
  BY <1>4, Numbers, NumbersAfter
<1>10. Trip(j, k)' = Trip(j, k) + IF n = k THEN Count(msgs, Reflush(j)) ELSE 0
  <2>1. Trip(j, k) = Count(wire[j][k], Flush(k)) + (Count(queue[k], Reflush(j)) + Count(wire[k][j], Reflush(j)))
    BY Numbers
  <2>2. Trip(j, k)' = Count(wire[j][k], Flush(k)) + (Count(queue'[k], Reflush(j)) + Count(wire[k][j], Reflush(j)))
    BY NumbersAfter
  <2>3. /\ Count(wire[j][k], Flush(k)) \in Nat /\ Count(queue[k], Reflush(j)) \in Nat
        /\ Count(wire[k][j], Reflush(j)) \in Nat /\ Count(msgs, Reflush(j)) \in Nat
    BY <1>1, <1>2
  <2>4. Count(queue'[k], Reflush(j)) = Count(queue[k], Reflush(j)) + IF n = k THEN Count(msgs, Reflush(j)) ELSE 0
    BY <1>4
  <2> QED BY <2>1, <2>2, <2>3, <2>4
<1> QED BY <1>5, <1>6, <1>7, <1>8, <1>9, <1>10

(* Receiving y, the first message on the way from m to n, and posting.     *)
LEMMA TakeLedger ==
  ASSUME Placed, NEW m \in Nodes, NEW n \in Nodes, NEW y, Removes(m, n, y), NEW msgs, Adds(n, msgs),
         NEW k \in Nodes, NEW j \in Nodes
  PROVE  /\ Calls(k)' + (IF m = Root /\ n = k /\ y = Pause(k) THEN 1 ELSE 0)
              = Calls(k) + IF n = Root THEN Count(msgs, Pause(k)) ELSE 0
         /\ Resumes(k)' + (IF m = Root /\ n = k /\ y = ResumeAt(k) THEN 1 ELSE 0)
              = Resumes(k) + IF n = Root THEN Count(msgs, ResumeAt(k)) ELSE 0
         /\ Starts(k)' + (IF m = Root /\ n = k /\ y = Start(k) THEN 1 ELSE 0)
              = Starts(k) + IF n = Root THEN Count(msgs, Start(k)) ELSE 0
         /\ Reports(k)' + (IF m = k /\ n = Root /\ y = Paused THEN 1 ELSE 0)
              = Reports(k) + IF n = k THEN Count(msgs, Paused) ELSE 0
         /\ Begins(k)' = Begins(k) + IF n = k THEN Count(msgs, Begin) ELSE 0
         /\ Backs(k)' = Backs(k) + IF n = k THEN Count(msgs, Back) ELSE 0
         /\ Ends(k)' + (IF m = k /\ n = Root /\ y = Flushed THEN 1 ELSE 0) = Ends(k)
         /\ Trip(j, k)' + (IF m = j /\ n = k /\ y = Flush(k) THEN 1 ELSE 0)
                        + (IF m = k /\ n = j /\ y = Reflush(j) THEN 1 ELSE 0)
              = Trip(j, k) + IF n = k THEN Count(msgs, Reflush(j)) ELSE 0
<1>1. \A x : Count(msgs, x) \in Nat
  BY DEF Adds
<1>2. \A i, l \in Nodes : \A x : Count(wire'[i][l], x) \in Nat
  BY DEF Removes
<1>3. /\ \A i \in Nodes : \A x : Count(queue[i], x) \in Nat
      /\ \A i, l \in Nodes : \A x : Count(wire[i][l], x) \in Nat
  BY NumbersType
<1>4. Root \in Nodes
  BY SizeType
<1>5. \A x : /\ Count(queue'[Root], x) = Count(queue[Root], x) + IF n = Root THEN Count(msgs, x) ELSE 0
             /\ Count(queue'[k], x) = Count(queue[k], x) + IF n = k THEN Count(msgs, x) ELSE 0
  BY <1>4 DEF Adds
<1>6. \A x : /\ Count(wire[Root][k], x) = Count(wire'[Root][k], x) + IF m = Root /\ n = k /\ y = x THEN 1 ELSE 0
             /\ Count(wire[k][Root], x) = Count(wire'[k][Root], x) + IF m = k /\ n = Root /\ y = x THEN 1 ELSE 0
             /\ Count(wire[j][k], x) = Count(wire'[j][k], x) + IF m = j /\ n = k /\ y = x THEN 1 ELSE 0
             /\ Count(wire[k][j], x) = Count(wire'[k][j], x) + IF m = k /\ n = j /\ y = x THEN 1 ELSE 0
  <2> TAKE x
  <2>0. ASSUME NEW c \in Nodes, NEW d \in Nodes
        PROVE  Count(wire[c][d], x) = Count(wire'[c][d], x) + IF m = c /\ n = d /\ y = x THEN 1 ELSE 0
    BY DEF Removes
  <2>1. Count(wire[Root][k], x) = Count(wire'[Root][k], x) + IF m = Root /\ n = k /\ y = x THEN 1 ELSE 0
    BY <1>4, <2>0
  <2>2. Count(wire[k][Root], x) = Count(wire'[k][Root], x) + IF m = k /\ n = Root /\ y = x THEN 1 ELSE 0
    BY <1>4, <2>0
  <2>3. Count(wire[j][k], x) = Count(wire'[j][k], x) + IF m = j /\ n = k /\ y = x THEN 1 ELSE 0
    BY <2>0
  <2>4. Count(wire[k][j], x) = Count(wire'[k][j], x) + IF m = k /\ n = j /\ y = x THEN 1 ELSE 0
    BY <2>0
  <2> QED BY <2>1, <2>2, <2>3, <2>4
<1>7. Calls(k)' + (IF m = Root /\ n = k /\ y = Pause(k) THEN 1 ELSE 0)
         = Calls(k) + IF n = Root THEN Count(msgs, Pause(k)) ELSE 0
  <2>1. Calls(k) = Count(queue[Root], Pause(k)) + Count(wire[Root][k], Pause(k))
    BY Numbers
  <2>2. Calls(k)' = Count(queue'[Root], Pause(k)) + Count(wire'[Root][k], Pause(k))
    BY NumbersAfter
  <2>3. Count(queue[Root], Pause(k)) \in Nat /\ Count(wire'[Root][k], Pause(k)) \in Nat /\ Count(msgs, Pause(k)) \in Nat
    BY <1>1, <1>2, <1>3, <1>4
  <2>4. Count(queue'[Root], Pause(k)) = Count(queue[Root], Pause(k)) + IF n = Root THEN Count(msgs, Pause(k)) ELSE 0
    BY <1>5
  <2>5. Count(wire[Root][k], Pause(k)) = Count(wire'[Root][k], Pause(k)) + IF m = Root /\ n = k /\ y = Pause(k) THEN 1 ELSE 0
    BY <1>6
  <2> QED BY <2>1, <2>2, <2>3, <2>4, <2>5
<1>8. Resumes(k)' + (IF m = Root /\ n = k /\ y = ResumeAt(k) THEN 1 ELSE 0)
         = Resumes(k) + IF n = Root THEN Count(msgs, ResumeAt(k)) ELSE 0
  <2>1. Resumes(k) = Count(queue[Root], ResumeAt(k)) + Count(wire[Root][k], ResumeAt(k))
    BY Numbers
  <2>2. Resumes(k)' = Count(queue'[Root], ResumeAt(k)) + Count(wire'[Root][k], ResumeAt(k))
    BY NumbersAfter
  <2>3. Count(queue[Root], ResumeAt(k)) \in Nat /\ Count(wire'[Root][k], ResumeAt(k)) \in Nat /\ Count(msgs, ResumeAt(k)) \in Nat
    BY <1>1, <1>2, <1>3, <1>4
  <2>4. Count(queue'[Root], ResumeAt(k)) = Count(queue[Root], ResumeAt(k)) + IF n = Root THEN Count(msgs, ResumeAt(k)) ELSE 0
    BY <1>5
  <2>5. Count(wire[Root][k], ResumeAt(k)) = Count(wire'[Root][k], ResumeAt(k)) + IF m = Root /\ n = k /\ y = ResumeAt(k) THEN 1 ELSE 0
    BY <1>6
  <2> QED BY <2>1, <2>2, <2>3, <2>4, <2>5
<1>9. Starts(k)' + (IF m = Root /\ n = k /\ y = Start(k) THEN 1 ELSE 0)
         = Starts(k) + IF n = Root THEN Count(msgs, Start(k)) ELSE 0
  <2>1. Starts(k) = Count(queue[Root], Start(k)) + Count(wire[Root][k], Start(k))
    BY Numbers
  <2>2. Starts(k)' = Count(queue'[Root], Start(k)) + Count(wire'[Root][k], Start(k))
    BY NumbersAfter
  <2>3. Count(queue[Root], Start(k)) \in Nat /\ Count(wire'[Root][k], Start(k)) \in Nat /\ Count(msgs, Start(k)) \in Nat
    BY <1>1, <1>2, <1>3, <1>4
  <2>4. Count(queue'[Root], Start(k)) = Count(queue[Root], Start(k)) + IF n = Root THEN Count(msgs, Start(k)) ELSE 0
    BY <1>5
  <2>5. Count(wire[Root][k], Start(k)) = Count(wire'[Root][k], Start(k)) + IF m = Root /\ n = k /\ y = Start(k) THEN 1 ELSE 0
    BY <1>6
  <2> QED BY <2>1, <2>2, <2>3, <2>4, <2>5
<1>10. Reports(k)' + (IF m = k /\ n = Root /\ y = Paused THEN 1 ELSE 0)
         = Reports(k) + IF n = k THEN Count(msgs, Paused) ELSE 0
  <2>1. Reports(k) = Count(queue[k], Paused) + Count(wire[k][Root], Paused)
    BY Numbers
  <2>2. Reports(k)' = Count(queue'[k], Paused) + Count(wire'[k][Root], Paused)
    BY NumbersAfter
  <2>3. Count(queue[k], Paused) \in Nat /\ Count(wire'[k][Root], Paused) \in Nat /\ Count(msgs, Paused) \in Nat
    BY <1>1, <1>2, <1>3, <1>4
  <2>4. Count(queue'[k], Paused) = Count(queue[k], Paused) + IF n = k THEN Count(msgs, Paused) ELSE 0
    BY <1>5
  <2>5. Count(wire[k][Root], Paused) = Count(wire'[k][Root], Paused) + IF m = k /\ n = Root /\ y = Paused THEN 1 ELSE 0
    BY <1>6
  <2> QED BY <2>1, <2>2, <2>3, <2>4, <2>5
<1>11. /\ Begins(k)' = Begins(k) + IF n = k THEN Count(msgs, Begin) ELSE 0
       /\ Backs(k)' = Backs(k) + IF n = k THEN Count(msgs, Back) ELSE 0
  BY <1>5, Numbers, NumbersAfter
<1>12. Ends(k)' + (IF m = k /\ n = Root /\ y = Flushed THEN 1 ELSE 0) = Ends(k)
  BY <1>6, Numbers, NumbersAfter
<1>13. Trip(j, k)' + (IF m = j /\ n = k /\ y = Flush(k) THEN 1 ELSE 0)
                   + (IF m = k /\ n = j /\ y = Reflush(j) THEN 1 ELSE 0)
         = Trip(j, k) + IF n = k THEN Count(msgs, Reflush(j)) ELSE 0
  <2>1. Trip(j, k) = Count(wire[j][k], Flush(k)) + (Count(queue[k], Reflush(j)) + Count(wire[k][j], Reflush(j)))
    BY Numbers
  <2>2. Trip(j, k)' = Count(wire'[j][k], Flush(k)) + (Count(queue'[k], Reflush(j)) + Count(wire'[k][j], Reflush(j)))
    BY NumbersAfter
  <2>3. /\ Count(wire'[j][k], Flush(k)) \in Nat /\ Count(queue[k], Reflush(j)) \in Nat
        /\ Count(wire'[k][j], Reflush(j)) \in Nat /\ Count(msgs, Reflush(j)) \in Nat
    BY <1>1, <1>2, <1>3
  <2>4. Count(queue'[k], Reflush(j)) = Count(queue[k], Reflush(j)) + IF n = k THEN Count(msgs, Reflush(j)) ELSE 0
    BY <1>5
  <2>5. Count(wire[j][k], Flush(k)) = Count(wire'[j][k], Flush(k)) + IF m = j /\ n = k /\ y = Flush(k) THEN 1 ELSE 0
    BY <1>6
  <2>6. Count(wire[k][j], Reflush(j)) = Count(wire'[k][j], Reflush(j)) + IF m = k /\ n = j /\ y = Reflush(j) THEN 1 ELSE 0
    BY <1>6
  <2> QED BY <2>1, <2>2, <2>3, <2>4, <2>5, <2>6
<1> QED BY <1>7, <1>8, <1>9, <1>10, <1>11, <1>12, <1>13

(* What the runner does to the counts.                                     *)
LEMMA RunnerCounts ==
  ASSUME Placed, NEW n \in Nodes, Runner(n)
  PROVE  /\ \A k \in Nodes : \A x :
              Count(queue[k], x) = Count(queue'[k], x) + IF k = n /\ x = Head(queue[n]) THEN 1 ELSE 0
         /\ \A j, k \in Nodes : \A x :
              Count(wire'[j][k], x) = Count(wire[j][k], x) + IF j = n /\ x \in Outcome(n) /\ x.to = k THEN 1 ELSE 0
         /\ \A k \in Nodes : \A x : Count(queue'[k], x) \in Nat
<1>1. QueueType /\ WireType /\ PlacesInv /\ \A k \in Nodes : queue[k] \in Seq(Queued(k))
  BY DEF Placed, Inv, BarInv, PlacesInv
<1>2. /\ queue[n] # <<>>
      /\ Tail(queue[n]) \in Seq(Queued(n))
      /\ \A k \in Nodes : queue'[k] = IF k = n THEN Tail(queue[n]) ELSE queue[k]
      /\ \A j, k \in Nodes : wire'[j][k] = IF j = n THEN wire[n][k] \o For(k, Outcome(n)) ELSE wire[j][k]
      /\ \A k \in Nodes : For(k, Outcome(n)) \in Seq(Wired(n, k))
      /\ \A x, y \in Outcome(n) : x.to = y.to => x = y
  BY <1>1, RunnerForms
<1>3. \A x : Count(queue[n], x) = Count(Tail(queue[n]), x) + IF Head(queue[n]) = x THEN 1 ELSE 0
  BY <1>1, <1>2, CountTail
<1>4. \A k \in Nodes : \A x : Count(queue[k], x) \in Nat /\ Count(queue'[k], x) \in Nat
  BY <1>1, <1>2, CountType
<1>5. ASSUME NEW k \in Nodes, NEW x
      PROVE  Count(queue[k], x) = Count(queue'[k], x) + IF k = n /\ x = Head(queue[n]) THEN 1 ELSE 0
  <2>1. CASE k = n
    BY <1>2, <1>3, <2>1
  <2>2. CASE k # n
    <3>1. Count(queue[k], x) \in Nat /\ queue'[k] = queue[k]
      BY <1>2, <1>4, <2>2
    <3> QED BY <2>2, <3>1
  <2> QED BY <2>1, <2>2
<1>6. ASSUME NEW k \in Nodes, NEW x
      PROVE  Count(For(k, Outcome(n)), x) = IF x \in Outcome(n) /\ x.to = k THEN 1 ELSE 0
  <2>1. CASE \E y \in Outcome(n) : y.to = k
    <3>1. PICK y \in Outcome(n) : y.to = k
      BY <2>1
    <3>2. (CHOOSE z \in Outcome(n) : z.to = k) = y
      BY <1>2, <3>1
    <3>3. For(k, Outcome(n)) = <<y>>
      BY <2>1, <3>2 DEF For
    <3>4. x \in Outcome(n) /\ x.to = k <=> x = y
      BY <1>2, <3>1
    <3> QED BY <3>3, <3>4, CountSingle
  <2>2. CASE ~ \E y \in Outcome(n) : y.to = k
    <3>1. For(k, Outcome(n)) = <<>>
      BY <2>2 DEF For
    <3> QED BY <2>2, <3>1, CountEmpty
  <2> QED BY <2>1, <2>2
<1>7. ASSUME NEW j \in Nodes, NEW k \in Nodes, NEW x
      PROVE  Count(wire'[j][k], x) = Count(wire[j][k], x) + IF j = n /\ x \in Outcome(n) /\ x.to = k THEN 1 ELSE 0
  <2>0. wire[n][k] \in Seq(Wired(n, k)) /\ Count(wire[j][k], x) \in Nat
    BY <1>1, NumbersType DEF PlacesInv
  <2>1. CASE j = n
    <3>1. Count(wire[n][k] \o For(k, Outcome(n)), x) = Count(wire[n][k], x) + Count(For(k, Outcome(n)), x)
      BY <1>2, <2>0, CountConcat
    <3> QED BY <1>2, <1>6, <2>1, <3>1
  <2>2. CASE j # n
    BY <1>2, <2>0, <2>2
  <2> QED BY <2>1, <2>2
<1> QED BY <1>4, <1>5, <1>7

-----------------------------------------------------------------------------
(***************************************************************************)
(* What each kind of step does to them.                                    *)
(***************************************************************************)
SamePause == \A k \in Nodes : Calls(k)' = Calls(k) /\ Reports(k)' = Reports(k) /\ Resumes(k)' = Resumes(k)
SameFlush == \A k \in Nodes : Starts(k)' = Starts(k) /\ Begins(k)' = Begins(k) /\ Backs(k)' = Backs(k)
                              /\ Ends(k)' = Ends(k)
SameTrips == \A j, k \in Nodes : Trip(j, k)' = Trip(j, k)
Same      == SamePause /\ SameFlush /\ SameTrips

(* A message with another command is another message.                      *)
LEMMA OtherCommand ==
  ASSUME NEW y, NEW k \in Nodes
  PROVE  /\ y.cmd # "pause" => y # Pause(k)
         /\ y.cmd # "resume" => y # ResumeAt(k)
         /\ y.cmd # "start_flush" => y # Start(k)
         /\ y.cmd # "paused" => y # Paused
         /\ y.cmd # "flushed" => y # Flushed
         /\ y.cmd # "flush" => y # Flush(k) /\ y # Begin
         /\ y.cmd # "reflush" => y # Reflush(k) /\ y # Back
BY SignalForms

(* Neutral messages are none of those that are counted.                    *)
LEMMA NeutralCounts ==
  ASSUME NEW msgs \in Seq(Neutral), NEW k \in Nodes
  PROVE  /\ Count(msgs, Pause(k)) = 0 /\ Count(msgs, ResumeAt(k)) = 0 /\ Count(msgs, Start(k)) = 0
         /\ Count(msgs, Paused) = 0 /\ Count(msgs, Begin) = 0 /\ Count(msgs, Back) = 0
         /\ Count(msgs, Reflush(k)) = 0
<1>1. \A x \in Neutral : x.cmd \in Work \cup Barriers
  BY DEF Neutral
<1>2. {Pause(k), ResumeAt(k), Start(k), Paused, Begin, Back, Reflush(k)} \cap Neutral = {}
  BY <1>1, SignalForms DEF Work, Barriers
<1>3. \A x : x \notin Neutral => Count(msgs, x) = 0
  BY CountNone
<1> QED BY <1>2, <1>3

(* Posting them changes none of the numbers.                               *)
LEMMA PostSame ==
  ASSUME Placed, NEW n \in Nodes, NEW msgs \in Seq(Neutral), Post(n, msgs), UNCHANGED wire
  PROVE  Same
<1>1. msgs \in Seq(Queued(n))
  BY QueuedForms, Larger
<1>2. ASSUME NEW k \in Nodes, NEW j \in Nodes
      PROVE  /\ Calls(k)' = Calls(k) /\ Reports(k)' = Reports(k) /\ Resumes(k)' = Resumes(k)
             /\ Starts(k)' = Starts(k) /\ Begins(k)' = Begins(k) /\ Backs(k)' = Backs(k) /\ Ends(k)' = Ends(k)
             /\ Trip(j, k)' = Trip(j, k)
  <2>1. /\ Calls(k) \in Nat /\ Reports(k) \in Nat /\ Resumes(k) \in Nat /\ Starts(k) \in Nat
        /\ Begins(k) \in Nat /\ Backs(k) \in Nat /\ Trip(j, k) \in Nat
    BY NumbersType
  <2>2. Count(msgs, Reflush(j)) = 0
    BY NeutralCounts
  <2> QED BY <1>1, <2>1, <2>2, NeutralCounts, PostLedger
<1> QED BY <1>2 DEF Same, SamePause, SameFlush, SameTrips

(* Neither does receiving one of them.                                     *)
LEMMA TakeSame ==
  ASSUME Placed, Placed', NEW m \in Nodes, NEW n \in Nodes, NEW y, Removes(m, n, y), y.cmd \in Work \cup Barriers,
         NEW msgs \in Seq(Neutral), Adds(n, msgs)
  PROVE  Same
<1>1. ASSUME NEW k \in Nodes, NEW j \in Nodes
      PROVE  /\ Calls(k)' = Calls(k) /\ Reports(k)' = Reports(k) /\ Resumes(k)' = Resumes(k)
             /\ Starts(k)' = Starts(k) /\ Begins(k)' = Begins(k) /\ Backs(k)' = Backs(k) /\ Ends(k)' = Ends(k)
             /\ Trip(j, k)' = Trip(j, k)
  <2>1. /\ Calls(k) \in Nat /\ Reports(k) \in Nat /\ Resumes(k) \in Nat /\ Starts(k) \in Nat
        /\ Begins(k) \in Nat /\ Backs(k) \in Nat /\ Ends(k) \in Nat /\ Trip(j, k) \in Nat
    BY NumbersType
  <2>2. /\ Calls(k)' \in Nat /\ Reports(k)' \in Nat /\ Resumes(k)' \in Nat /\ Starts(k)' \in Nat
        /\ Begins(k)' \in Nat /\ Backs(k)' \in Nat /\ Ends(k)' \in Nat /\ Trip(j, k)' \in Nat
    BY NumbersTypeAfter
  <2>3. /\ y # Pause(k) /\ y # ResumeAt(k) /\ y # Start(k) /\ y # Paused /\ y # Flushed /\ y # Flush(k)
        /\ y # Reflush(j)
    BY OtherCommand DEF Work, Barriers
  <2>4. /\ Count(msgs, Pause(k)) = 0 /\ Count(msgs, ResumeAt(k)) = 0 /\ Count(msgs, Start(k)) = 0
        /\ Count(msgs, Paused) = 0 /\ Count(msgs, Begin) = 0 /\ Count(msgs, Back) = 0
        /\ Count(msgs, Reflush(j)) = 0
    BY NeutralCounts
  <2>5. /\ Calls(k)' + 0 = Calls(k) + 0 /\ Resumes(k)' + 0 = Resumes(k) + 0 /\ Starts(k)' + 0 = Starts(k) + 0
        /\ Reports(k)' + 0 = Reports(k) + 0 /\ Begins(k)' = Begins(k) + 0 /\ Backs(k)' = Backs(k) + 0
        /\ Ends(k)' + 0 = Ends(k) /\ Trip(j, k)' + 0 + 0 = Trip(j, k) + 0
    BY <2>3, <2>4, TakeLedger
  <2> QED BY <2>1, <2>2, <2>5
<1> QED BY <1>1 DEF Same, SamePause, SameFlush, SameTrips

(* What is in the outcome of a step of the runner.                         *)
LEMMA OutcomeHas ==
  ASSUME Placed, NEW n \in Nodes, Runner(n), NEW k \in Nodes
  PROVE  /\ Pause(k) \in Outcome(n) <=> Head(queue[n]) = Pause(k)
         /\ ResumeAt(k) \in Outcome(n) <=> Head(queue[n]) = ResumeAt(k)
         /\ Start(k) \in Outcome(n) <=> Head(queue[n]) = Start(k)
         /\ Paused \in Outcome(n) <=> Head(queue[n]) = Paused
         /\ Reflush(k) \in Outcome(n) <=> Head(queue[n]) = Reflush(k)
         /\ Flush(k) \in Outcome(n) <=> Head(queue[n]) = Begin
         /\ Flushed \in Outcome(n) <=> Head(queue[n]) = Back /\ flush[n].left = 1 /\ ~flush[n].dirty
<1> DEFINE h == Head(queue[n])
<1>1. h \in Queued(n) /\ h # Flush(k) /\ h # Flushed
  <2>1. h \in Queued(n)
    BY RunnerForms DEF Placed, Inv, BarInv
  <2> QED BY <2>1, SignalForms DEF Queued
<1>2. \A c : \A x : x \in ToAll(c) <=> \E j \in Nodes : x = Message(c, j)
  BY ToAllForms
<1> HIDE DEF h
<1>3. CASE h = Begin
  <2>1. Outcome(n) = ToAll("flush")
    BY <1>3 DEF Outcome, h
  <2>2. \A x \in Outcome(n) : x.cmd = "flush"
    BY <2>1 DEF ToAll, Message
  <2>3. Flush(k) \in Outcome(n)
    BY <1>2, <2>1 DEF Flush
  <2> QED BY <1>3, <2>2, <2>3, SignalForms DEF h
<1>4. CASE h = Back
  <2>1. Outcome(n) = IF flush[n].left = 1 /\ ~flush[n].dirty THEN {Flushed} ELSE {}
    BY <1>4, SignalForms DEF Outcome, h
  <2> QED BY <1>4, <2>1, SignalForms DEF h
<1>5. CASE h # Begin /\ h # Back
  <2>1. Outcome(n) = {h}
    BY <1>5 DEF Outcome, h
  <2> QED BY <1>1, <1>5, <2>1 DEF h
<1> QED BY <1>3, <1>4, <1>5

(* What the runner does to the numbers.                                    *)
LEMMA RunnerLedger ==
  ASSUME Placed, Placed', NEW n \in Nodes, Runner(n), NEW k \in Nodes, NEW j \in Nodes
  PROVE  /\ Calls(k)' = Calls(k) /\ Reports(k)' = Reports(k) /\ Resumes(k)' = Resumes(k)
         /\ Starts(k)' = Starts(k)
         /\ Begins(k) = Begins(k)' + IF k = n /\ Head(queue[n]) = Begin THEN 1 ELSE 0
         /\ Backs(k) = Backs(k)' + IF k = n /\ Head(queue[n]) = Back THEN 1 ELSE 0
         /\ Ends(k)' = Ends(k) + IF k = n /\ Head(queue[n]) = Back /\ flush[n].left = 1 /\ ~flush[n].dirty
                                   THEN 1 ELSE 0
         /\ Trip(k, j)' = Trip(k, j) + IF k = n /\ Head(queue[n]) = Begin THEN 1 ELSE 0
<1>1. /\ \A i \in Nodes : \A x :
           Count(queue[i], x) = Count(queue'[i], x) + IF i = n /\ x = Head(queue[n]) THEN 1 ELSE 0
      /\ \A i, l \in Nodes : \A x :
           Count(wire'[i][l], x) = Count(wire[i][l], x) + IF i = n /\ x \in Outcome(n) /\ x.to = l THEN 1 ELSE 0
      /\ \A i \in Nodes : \A x : Count(queue'[i], x) \in Nat
  BY RunnerCounts
<1>2. /\ \A i \in Nodes : \A x : Count(queue[i], x) \in Nat
      /\ \A i, l \in Nodes : \A x : Count(wire[i][l], x) \in Nat
  BY NumbersType
<1>3. Root \in Nodes
  BY SizeType
<1>4. ASSUME NEW i \in Nodes, NEW l \in Nodes, NEW x, x.to = l, x \in Outcome(n) <=> Head(queue[n]) = x
      PROVE  Count(queue'[i], x) + Count(wire'[i][l], x) = Count(queue[i], x) + Count(wire[i][l], x)
  <2>1. Count(queue[i], x) = Count(queue'[i], x) + IF i = n /\ x = Head(queue[n]) THEN 1 ELSE 0
    BY <1>1
  <2>2. Count(wire'[i][l], x) = Count(wire[i][l], x) + IF i = n /\ x \in Outcome(n) /\ x.to = l THEN 1 ELSE 0
    BY <1>1
  <2>3. Count(queue'[i], x) \in Nat /\ Count(wire[i][l], x) \in Nat
    BY <1>1, <1>2
  <2> QED BY <1>4, <2>1, <2>2, <2>3
<1>5. Calls(k)' = Calls(k)
  <2>1. Pause(k).to = k /\ (Pause(k) \in Outcome(n) <=> Head(queue[n]) = Pause(k))
    BY OutcomeHas, SignalForms
  <2> QED BY <1>3, <1>4, <2>1, Numbers, NumbersAfter
<1>6. Resumes(k)' = Resumes(k)
  <2>1. ResumeAt(k).to = k /\ (ResumeAt(k) \in Outcome(n) <=> Head(queue[n]) = ResumeAt(k))
    BY OutcomeHas, SignalForms
  <2> QED BY <1>3, <1>4, <2>1, Numbers, NumbersAfter
<1>7. Starts(k)' = Starts(k)
  <2>1. Start(k).to = k /\ (Start(k) \in Outcome(n) <=> Head(queue[n]) = Start(k))
    BY OutcomeHas, SignalForms
  <2> QED BY <1>3, <1>4, <2>1, Numbers, NumbersAfter
<1>8. Reports(k)' = Reports(k)
  <2>1. Paused.to = Root /\ (Paused \in Outcome(n) <=> Head(queue[n]) = Paused)
    BY OutcomeHas, SignalForms
  <2> QED BY <1>3, <1>4, <2>1, Numbers, NumbersAfter
<1>9. /\ Begins(k) = Begins(k)' + IF k = n /\ Head(queue[n]) = Begin THEN 1 ELSE 0
      /\ Backs(k) = Backs(k)' + IF k = n /\ Head(queue[n]) = Back THEN 1 ELSE 0
  <2>1. \A x : Count(queue[k], x) = Count(queue'[k], x) + IF k = n /\ x = Head(queue[n]) THEN 1 ELSE 0
    BY <1>1
  <2> QED BY <2>1, Numbers, NumbersAfter
<1>10. Ends(k)' = Ends(k) + IF k = n /\ Head(queue[n]) = Back /\ flush[n].left = 1 /\ ~flush[n].dirty
                              THEN 1 ELSE 0
  <2>1. Count(wire'[k][Root], Flushed)
          = Count(wire[k][Root], Flushed) + IF k = n /\ Flushed \in Outcome(n) /\ Flushed.to = Root THEN 1 ELSE 0
    BY <1>1, <1>3
  <2>2. Flushed.to = Root
        /\ (Flushed \in Outcome(n) <=> Head(queue[n]) = Back /\ flush[n].left = 1 /\ ~flush[n].dirty)
    BY OutcomeHas, SignalForms
  <2> QED BY <2>1, <2>2, Numbers, NumbersAfter
<1>11. Trip(k, j)' = Trip(k, j) + IF k = n /\ Head(queue[n]) = Begin THEN 1 ELSE 0
  <2>1. Reflush(k).to = k /\ (Reflush(k) \in Outcome(n) <=> Head(queue[n]) = Reflush(k))
    BY OutcomeHas, SignalForms
  <2>2. Count(queue'[j], Reflush(k)) + Count(wire'[j][k], Reflush(k))
          = Count(queue[j], Reflush(k)) + Count(wire[j][k], Reflush(k))
    BY <1>4, <2>1
  <2>3. Count(wire'[k][j], Flush(j))
          = Count(wire[k][j], Flush(j)) + IF k = n /\ Flush(j) \in Outcome(n) /\ Flush(j).to = j THEN 1 ELSE 0
    BY <1>1
  <2>4. Flush(j).to = j /\ (Flush(j) \in Outcome(n) <=> Head(queue[n]) = Begin)
    BY OutcomeHas, SignalForms
  <2>5. Count(wire[k][j], Flush(j)) \in Nat /\ Count(queue[j], Reflush(k)) + Count(wire[j][k], Reflush(k)) \in Nat
    <3>1. Count(wire[k][j], Flush(j)) \in Nat /\ Count(queue[j], Reflush(k)) \in Nat /\ Count(wire[j][k], Reflush(k)) \in Nat
      BY <1>2
    <3> QED BY <3>1
  <2>6. /\ Trip(k, j) = Count(wire[k][j], Flush(j)) + (Count(queue[j], Reflush(k)) + Count(wire[j][k], Reflush(k)))
        /\ Trip(k, j)' = Count(wire'[k][j], Flush(j)) + (Count(queue'[j], Reflush(k)) + Count(wire'[j][k], Reflush(k)))
    BY Numbers, NumbersAfter
  <2> QED BY <2>2, <2>3, <2>4, <2>5, <2>6
<1> QED BY <1>5, <1>6, <1>7, <1>8, <1>9, <1>10, <1>11

(* A message that starts or ends nothing is just sent on.                  *)
LEMMA RunnerSame ==
  ASSUME Placed, Placed', NEW n \in Nodes, Runner(n), Head(queue[n]) # Begin, Head(queue[n]) # Back
  PROVE  Same
<1>1. ASSUME NEW k \in Nodes, NEW j \in Nodes
      PROVE  /\ Calls(k)' = Calls(k) /\ Reports(k)' = Reports(k) /\ Resumes(k)' = Resumes(k)
             /\ Starts(k)' = Starts(k) /\ Begins(k)' = Begins(k) /\ Backs(k)' = Backs(k) /\ Ends(k)' = Ends(k)
             /\ Trip(k, j)' = Trip(k, j)
  <2>1. /\ Begins(k)' \in Nat /\ Backs(k)' \in Nat /\ Ends(k) \in Nat /\ Trip(k, j) \in Nat
    BY NumbersType, NumbersTypeAfter
  <2>2. /\ Calls(k)' = Calls(k) /\ Reports(k)' = Reports(k) /\ Resumes(k)' = Resumes(k) /\ Starts(k)' = Starts(k)
        /\ Begins(k) = Begins(k)' + 0 /\ Backs(k) = Backs(k)' + 0
        /\ Ends(k)' = Ends(k) + 0 /\ Trip(k, j)' = Trip(k, j) + 0
    BY RunnerLedger
  <2> QED BY <2>1, <2>2
<1> QED BY <1>1 DEF Same, SamePause, SameFlush, SameTrips

(* No message, and one message.                                            *)
LEMMA NothingAdded ==
  ASSUME Placed, NEW n \in Nodes, UNCHANGED queue
  PROVE  Adds(n, <<>>) /\ \A x : Count(<<>>, x) = 0
<1>1. Post(n, <<>>) /\ <<>> \in Seq(Queued(n))
  BY PostNothing DEF Placed, Inv, BarInv
<1> QED BY <1>1, AddsWhenPosted, CountEmpty

(* A call to pause is received.                                            *)
LEMMA TakePause ==
  ASSUME Placed, Placed', NEW n \in Nodes, Removes(Root, n, Pause(n)), Adds(n, <<>>),
         NEW k \in Nodes, NEW j \in Nodes
  PROVE  /\ Calls(k) = Calls(k)' + IF k = n THEN 1 ELSE 0
         /\ Resumes(k)' = Resumes(k)
         /\ Starts(k)' = Starts(k)
         /\ Reports(k)' = Reports(k)
         /\ Begins(k)' = Begins(k)
         /\ Backs(k)' = Backs(k)
         /\ Ends(k)' = Ends(k)
         /\ Trip(j, k)' = Trip(j, k)
<1>0. Root \in Nodes
  BY SizeType
<1>1. /\ Calls(k) \in Nat /\ Reports(k) \in Nat /\ Resumes(k) \in Nat /\ Starts(k) \in Nat
      /\ Begins(k) \in Nat /\ Backs(k) \in Nat /\ Ends(k) \in Nat /\ Trip(j, k) \in Nat
  BY NumbersType
<1>2. /\ Calls(k)' \in Nat /\ Reports(k)' \in Nat /\ Resumes(k)' \in Nat /\ Starts(k)' \in Nat
      /\ Begins(k)' \in Nat /\ Backs(k)' \in Nat /\ Ends(k)' \in Nat /\ Trip(j, k)' \in Nat
  BY NumbersTypeAfter
<1>3. /\ (Pause(n) = Pause(k) <=> k = n)
      /\ Pause(n) # ResumeAt(k)
      /\ Pause(n) # Start(k)
      /\ Pause(n) # Paused
      /\ Pause(n) # Flushed
      /\ Pause(n) # Flush(k)
      /\ Pause(n) # Reflush(j)
  BY SignalForms
<1>4. /\ Count(<<>>, Pause(k)) = 0
      /\ Count(<<>>, ResumeAt(k)) = 0
      /\ Count(<<>>, Start(k)) = 0
      /\ Count(<<>>, Paused) = 0
      /\ Count(<<>>, Begin) = 0
      /\ Count(<<>>, Back) = 0
      /\ Count(<<>>, Reflush(j)) = 0
  BY CountEmpty
<1>5. Calls(k) = Calls(k)' + IF k = n THEN 1 ELSE 0
  BY <1>0, <1>1, <1>2, <1>3, <1>4, TakeLedger
<1>6. Resumes(k)' = Resumes(k)
  BY <1>0, <1>1, <1>2, <1>3, <1>4, TakeLedger
<1>7. Starts(k)' = Starts(k)
  BY <1>0, <1>1, <1>2, <1>3, <1>4, TakeLedger
<1>8. Reports(k)' = Reports(k)
  BY <1>0, <1>1, <1>2, <1>3, <1>4, TakeLedger
<1>9. Begins(k)' = Begins(k)
  BY <1>0, <1>1, <1>2, <1>3, <1>4, TakeLedger
<1>10. Backs(k)' = Backs(k)
  BY <1>0, <1>1, <1>2, <1>3, <1>4, TakeLedger
<1>11. Ends(k)' = Ends(k)
  BY <1>0, <1>1, <1>2, <1>3, <1>4, TakeLedger
<1>12. Trip(j, k)' = Trip(j, k)
  BY <1>0, <1>1, <1>2, <1>3, <1>4, TakeLedger
<1> QED BY <1>5, <1>6, <1>7, <1>8, <1>9, <1>10, <1>11, <1>12

(* The command to resume is received.                                      *)
LEMMA TakeResume ==
  ASSUME Placed, Placed', NEW n \in Nodes, Removes(Root, n, ResumeAt(n)), Adds(n, <<>>),
         NEW k \in Nodes, NEW j \in Nodes
  PROVE  /\ Calls(k)' = Calls(k)
         /\ Resumes(k) = Resumes(k)' + IF k = n THEN 1 ELSE 0
         /\ Starts(k)' = Starts(k)
         /\ Reports(k)' = Reports(k)
         /\ Begins(k)' = Begins(k)
         /\ Backs(k)' = Backs(k)
         /\ Ends(k)' = Ends(k)
         /\ Trip(j, k)' = Trip(j, k)
<1>0. Root \in Nodes
  BY SizeType
<1>1. /\ Calls(k) \in Nat /\ Reports(k) \in Nat /\ Resumes(k) \in Nat /\ Starts(k) \in Nat
      /\ Begins(k) \in Nat /\ Backs(k) \in Nat /\ Ends(k) \in Nat /\ Trip(j, k) \in Nat
  BY NumbersType
<1>2. /\ Calls(k)' \in Nat /\ Reports(k)' \in Nat /\ Resumes(k)' \in Nat /\ Starts(k)' \in Nat
      /\ Begins(k)' \in Nat /\ Backs(k)' \in Nat /\ Ends(k)' \in Nat /\ Trip(j, k)' \in Nat
  BY NumbersTypeAfter
<1>3. /\ ResumeAt(n) # Pause(k)
      /\ (ResumeAt(n) = ResumeAt(k) <=> k = n)
      /\ ResumeAt(n) # Start(k)
      /\ ResumeAt(n) # Paused
      /\ ResumeAt(n) # Flushed
      /\ ResumeAt(n) # Flush(k)
      /\ ResumeAt(n) # Reflush(j)
  BY SignalForms
<1>4. /\ Count(<<>>, Pause(k)) = 0
      /\ Count(<<>>, ResumeAt(k)) = 0
      /\ Count(<<>>, Start(k)) = 0
      /\ Count(<<>>, Paused) = 0
      /\ Count(<<>>, Begin) = 0
      /\ Count(<<>>, Back) = 0
      /\ Count(<<>>, Reflush(j)) = 0
  BY CountEmpty
<1>5. Calls(k)' = Calls(k)
  BY <1>0, <1>1, <1>2, <1>3, <1>4, TakeLedger
<1>6. Resumes(k) = Resumes(k)' + IF k = n THEN 1 ELSE 0
  BY <1>0, <1>1, <1>2, <1>3, <1>4, TakeLedger
<1>7. Starts(k)' = Starts(k)
  BY <1>0, <1>1, <1>2, <1>3, <1>4, TakeLedger
<1>8. Reports(k)' = Reports(k)
  BY <1>0, <1>1, <1>2, <1>3, <1>4, TakeLedger
<1>9. Begins(k)' = Begins(k)
  BY <1>0, <1>1, <1>2, <1>3, <1>4, TakeLedger
<1>10. Backs(k)' = Backs(k)
  BY <1>0, <1>1, <1>2, <1>3, <1>4, TakeLedger
<1>11. Ends(k)' = Ends(k)
  BY <1>0, <1>1, <1>2, <1>3, <1>4, TakeLedger
<1>12. Trip(j, k)' = Trip(j, k)
  BY <1>0, <1>1, <1>2, <1>3, <1>4, TakeLedger
<1> QED BY <1>5, <1>6, <1>7, <1>8, <1>9, <1>10, <1>11, <1>12

(* The root receives the report of m.                                      *)
LEMMA TakePaused ==
  ASSUME Placed, Placed', NEW m \in Nodes, Removes(m, Root, Paused), Adds(Root, <<>>),
         NEW k \in Nodes, NEW j \in Nodes
  PROVE  /\ Calls(k)' = Calls(k)
         /\ Resumes(k)' = Resumes(k)
         /\ Starts(k)' = Starts(k)
         /\ Reports(k) = Reports(k)' + IF k = m THEN 1 ELSE 0
         /\ Begins(k)' = Begins(k)
         /\ Backs(k)' = Backs(k)
         /\ Ends(k)' = Ends(k)
         /\ Trip(j, k)' = Trip(j, k)
<1>0. Root \in Nodes
  BY SizeType
<1>1. /\ Calls(k) \in Nat /\ Reports(k) \in Nat /\ Resumes(k) \in Nat /\ Starts(k) \in Nat
      /\ Begins(k) \in Nat /\ Backs(k) \in Nat /\ Ends(k) \in Nat /\ Trip(j, k) \in Nat
  BY NumbersType
<1>2. /\ Calls(k)' \in Nat /\ Reports(k)' \in Nat /\ Resumes(k)' \in Nat /\ Starts(k)' \in Nat
      /\ Begins(k)' \in Nat /\ Backs(k)' \in Nat /\ Ends(k)' \in Nat /\ Trip(j, k)' \in Nat
  BY NumbersTypeAfter
<1>3. /\ Paused # Pause(k)
      /\ Paused # ResumeAt(k)
      /\ Paused # Start(k)
      /\ Paused # Flushed
      /\ Paused # Flush(k)
      /\ Paused # Reflush(j)
  BY SignalForms
<1>4. /\ Count(<<>>, Pause(k)) = 0
      /\ Count(<<>>, ResumeAt(k)) = 0
      /\ Count(<<>>, Start(k)) = 0
      /\ Count(<<>>, Paused) = 0
      /\ Count(<<>>, Begin) = 0
      /\ Count(<<>>, Back) = 0
      /\ Count(<<>>, Reflush(j)) = 0
  BY CountEmpty
<1>5. Calls(k)' = Calls(k)
  BY <1>0, <1>1, <1>2, <1>3, <1>4, TakeLedger
<1>6. Resumes(k)' = Resumes(k)
  BY <1>0, <1>1, <1>2, <1>3, <1>4, TakeLedger
<1>7. Starts(k)' = Starts(k)
  BY <1>0, <1>1, <1>2, <1>3, <1>4, TakeLedger
<1>8. Reports(k) = Reports(k)' + IF k = m THEN 1 ELSE 0
  BY <1>0, <1>1, <1>2, <1>3, <1>4, TakeLedger
<1>9. Begins(k)' = Begins(k)
  BY <1>0, <1>1, <1>2, <1>3, <1>4, TakeLedger
<1>10. Backs(k)' = Backs(k)
  BY <1>0, <1>1, <1>2, <1>3, <1>4, TakeLedger
<1>11. Ends(k)' = Ends(k)
  BY <1>0, <1>1, <1>2, <1>3, <1>4, TakeLedger
<1>12. Trip(j, k)' = Trip(j, k)
  BY <1>0, <1>1, <1>2, <1>3, <1>4, TakeLedger
<1> QED BY <1>5, <1>6, <1>7, <1>8, <1>9, <1>10, <1>11, <1>12

(* The command to start the flush is received.                             *)
LEMMA TakeStart ==
  ASSUME Placed, Placed', NEW n \in Nodes, Removes(Root, n, Start(n)), Adds(n, <<Begin>>),
         NEW k \in Nodes, NEW j \in Nodes
  PROVE  /\ Calls(k)' = Calls(k)
         /\ Resumes(k)' = Resumes(k)
         /\ Starts(k) = Starts(k)' + IF k = n THEN 1 ELSE 0
         /\ Reports(k)' = Reports(k)
         /\ Begins(k)' = Begins(k) + IF k = n THEN 1 ELSE 0
         /\ Backs(k)' = Backs(k)
         /\ Ends(k)' = Ends(k)
         /\ Trip(j, k)' = Trip(j, k)
<1>0. Root \in Nodes
  BY SizeType
<1>1. /\ Calls(k) \in Nat /\ Reports(k) \in Nat /\ Resumes(k) \in Nat /\ Starts(k) \in Nat
      /\ Begins(k) \in Nat /\ Backs(k) \in Nat /\ Ends(k) \in Nat /\ Trip(j, k) \in Nat
  BY NumbersType
<1>2. /\ Calls(k)' \in Nat /\ Reports(k)' \in Nat /\ Resumes(k)' \in Nat /\ Starts(k)' \in Nat
      /\ Begins(k)' \in Nat /\ Backs(k)' \in Nat /\ Ends(k)' \in Nat /\ Trip(j, k)' \in Nat
  BY NumbersTypeAfter
<1>3. /\ Start(n) # Pause(k)
      /\ Start(n) # ResumeAt(k)
      /\ (Start(n) = Start(k) <=> k = n)
      /\ Start(n) # Paused
      /\ Start(n) # Flushed
      /\ Start(n) # Flush(k)
      /\ Start(n) # Reflush(j)
  BY SignalForms
<1>4. /\ Count(<<Begin>>, Pause(k)) = 0
      /\ Count(<<Begin>>, ResumeAt(k)) = 0
      /\ Count(<<Begin>>, Start(k)) = 0
      /\ Count(<<Begin>>, Paused) = 0
      /\ Count(<<Begin>>, Begin) = 1
      /\ Count(<<Begin>>, Back) = 0
      /\ Count(<<Begin>>, Reflush(j)) = 0
  BY SignalForms, CountSingle
<1>5. Calls(k)' = Calls(k)
  BY <1>0, <1>1, <1>2, <1>3, <1>4, TakeLedger
<1>6. Resumes(k)' = Resumes(k)
  BY <1>0, <1>1, <1>2, <1>3, <1>4, TakeLedger
<1>7. Starts(k) = Starts(k)' + IF k = n THEN 1 ELSE 0
  BY <1>0, <1>1, <1>2, <1>3, <1>4, TakeLedger
<1>8. Reports(k)' = Reports(k)
  BY <1>0, <1>1, <1>2, <1>3, <1>4, TakeLedger
<1>9. Begins(k)' = Begins(k) + IF k = n THEN 1 ELSE 0
  BY <1>0, <1>1, <1>2, <1>3, <1>4, TakeLedger
<1>10. Backs(k)' = Backs(k)
  BY <1>0, <1>1, <1>2, <1>3, <1>4, TakeLedger
<1>11. Ends(k)' = Ends(k)
  BY <1>0, <1>1, <1>2, <1>3, <1>4, TakeLedger
<1>12. Trip(j, k)' = Trip(j, k)
  BY <1>0, <1>1, <1>2, <1>3, <1>4, TakeLedger
<1> QED BY <1>5, <1>6, <1>7, <1>8, <1>9, <1>10, <1>11, <1>12

(* The flush of m is received and answered.                                *)
LEMMA TakeFlush ==
  ASSUME Placed, Placed', NEW m \in Nodes, NEW n \in Nodes, Removes(m, n, Flush(n)), Adds(n, <<Reflush(m)>>),
         NEW k \in Nodes, NEW j \in Nodes
  PROVE  /\ Calls(k)' = Calls(k)
         /\ Resumes(k)' = Resumes(k)
         /\ Starts(k)' = Starts(k)
         /\ Reports(k)' = Reports(k)
         /\ Begins(k)' = Begins(k)
         /\ Backs(k)' = Backs(k)
         /\ Ends(k)' = Ends(k)
         /\ Trip(j, k)' = Trip(j, k)
<1>0. Root \in Nodes
  BY SizeType
<1>1. /\ Calls(k) \in Nat /\ Reports(k) \in Nat /\ Resumes(k) \in Nat /\ Starts(k) \in Nat
      /\ Begins(k) \in Nat /\ Backs(k) \in Nat /\ Ends(k) \in Nat /\ Trip(j, k) \in Nat
  BY NumbersType
<1>2. /\ Calls(k)' \in Nat /\ Reports(k)' \in Nat /\ Resumes(k)' \in Nat /\ Starts(k)' \in Nat
      /\ Begins(k)' \in Nat /\ Backs(k)' \in Nat /\ Ends(k)' \in Nat /\ Trip(j, k)' \in Nat
  BY NumbersTypeAfter
<1>3. /\ Flush(n) # Pause(k)
      /\ Flush(n) # ResumeAt(k)
      /\ Flush(n) # Start(k)
      /\ Flush(n) # Paused
      /\ Flush(n) # Flushed
      /\ (Flush(n) = Flush(k) <=> k = n)
      /\ Flush(n) # Reflush(j)
  BY SignalForms
<1>4. /\ Count(<<Reflush(m)>>, Pause(k)) = 0
      /\ Count(<<Reflush(m)>>, ResumeAt(k)) = 0
      /\ Count(<<Reflush(m)>>, Start(k)) = 0
      /\ Count(<<Reflush(m)>>, Paused) = 0
      /\ Count(<<Reflush(m)>>, Begin) = 0
      /\ Count(<<Reflush(m)>>, Back) = 0
      /\ Count(<<Reflush(m)>>, Reflush(j)) = IF j = m THEN 1 ELSE 0
  BY SignalForms, CountSingle
<1>5. Calls(k)' = Calls(k)
  BY <1>0, <1>1, <1>2, <1>3, <1>4, TakeLedger
<1>6. Resumes(k)' = Resumes(k)
  BY <1>0, <1>1, <1>2, <1>3, <1>4, TakeLedger
<1>7. Starts(k)' = Starts(k)
  BY <1>0, <1>1, <1>2, <1>3, <1>4, TakeLedger
<1>8. Reports(k)' = Reports(k)
  BY <1>0, <1>1, <1>2, <1>3, <1>4, TakeLedger
<1>9. Begins(k)' = Begins(k)
  BY <1>0, <1>1, <1>2, <1>3, <1>4, TakeLedger
<1>10. Backs(k)' = Backs(k)
  BY <1>0, <1>1, <1>2, <1>3, <1>4, TakeLedger
<1>11. Ends(k)' = Ends(k)
  BY <1>0, <1>1, <1>2, <1>3, <1>4, TakeLedger
<1>12. Trip(j, k)' = Trip(j, k)
  BY <1>0, <1>1, <1>2, <1>3, <1>4, TakeLedger
<1> QED BY <1>5, <1>6, <1>7, <1>8, <1>9, <1>10, <1>11, <1>12

(* The answer of m is received.                                            *)
LEMMA TakeReflush ==
  ASSUME Placed, Placed', NEW m \in Nodes, NEW n \in Nodes, Removes(m, n, Reflush(n)), Adds(n, <<Back>>),
         NEW k \in Nodes, NEW j \in Nodes
  PROVE  /\ Calls(k)' = Calls(k)
         /\ Resumes(k)' = Resumes(k)
         /\ Starts(k)' = Starts(k)
         /\ Reports(k)' = Reports(k)
         /\ Begins(k)' = Begins(k)
         /\ Backs(k)' = Backs(k) + IF k = n THEN 1 ELSE 0
         /\ Ends(k)' = Ends(k)
         /\ Trip(j, k) = Trip(j, k)' + IF j = n /\ k = m THEN 1 ELSE 0
<1>0. Root \in Nodes
  BY SizeType
<1>1. /\ Calls(k) \in Nat /\ Reports(k) \in Nat /\ Resumes(k) \in Nat /\ Starts(k) \in Nat
      /\ Begins(k) \in Nat /\ Backs(k) \in Nat /\ Ends(k) \in Nat /\ Trip(j, k) \in Nat
  BY NumbersType
<1>2. /\ Calls(k)' \in Nat /\ Reports(k)' \in Nat /\ Resumes(k)' \in Nat /\ Starts(k)' \in Nat
      /\ Begins(k)' \in Nat /\ Backs(k)' \in Nat /\ Ends(k)' \in Nat /\ Trip(j, k)' \in Nat
  BY NumbersTypeAfter
<1>3. /\ Reflush(n) # Pause(k)
      /\ Reflush(n) # ResumeAt(k)
      /\ Reflush(n) # Start(k)
      /\ Reflush(n) # Paused
      /\ Reflush(n) # Flushed
      /\ Reflush(n) # Flush(k)
      /\ (Reflush(n) = Reflush(j) <=> j = n)
  BY SignalForms
<1>4. /\ Count(<<Back>>, Pause(k)) = 0
      /\ Count(<<Back>>, ResumeAt(k)) = 0
      /\ Count(<<Back>>, Start(k)) = 0
      /\ Count(<<Back>>, Paused) = 0
      /\ Count(<<Back>>, Begin) = 0
      /\ Count(<<Back>>, Back) = 1
      /\ Count(<<Back>>, Reflush(j)) = 0
  BY SignalForms, CountSingle
<1>5. Calls(k)' = Calls(k)
  BY <1>0, <1>1, <1>2, <1>3, <1>4, TakeLedger
<1>6. Resumes(k)' = Resumes(k)
  BY <1>0, <1>1, <1>2, <1>3, <1>4, TakeLedger
<1>7. Starts(k)' = Starts(k)
  BY <1>0, <1>1, <1>2, <1>3, <1>4, TakeLedger
<1>8. Reports(k)' = Reports(k)
  BY <1>0, <1>1, <1>2, <1>3, <1>4, TakeLedger
<1>9. Begins(k)' = Begins(k)
  BY <1>0, <1>1, <1>2, <1>3, <1>4, TakeLedger
<1>10. Backs(k)' = Backs(k) + IF k = n THEN 1 ELSE 0
  BY <1>0, <1>1, <1>2, <1>3, <1>4, TakeLedger
<1>11. Ends(k)' = Ends(k)
  BY <1>0, <1>1, <1>2, <1>3, <1>4, TakeLedger
<1>12. Trip(j, k) = Trip(j, k)' + IF j = n /\ k = m THEN 1 ELSE 0
  BY <1>0, <1>1, <1>2, <1>3, <1>4, TakeLedger
<1> QED BY <1>5, <1>6, <1>7, <1>8, <1>9, <1>10, <1>11, <1>12

(* The root receives the end of the flush of m.                            *)
LEMMA TakeFlushed ==
  ASSUME Placed, Placed', NEW m \in Nodes, Removes(m, Root, Flushed), Adds(Root, <<>>),
         NEW k \in Nodes, NEW j \in Nodes
  PROVE  /\ Calls(k)' = Calls(k)
         /\ Resumes(k)' = Resumes(k)
         /\ Starts(k)' = Starts(k)
         /\ Reports(k)' = Reports(k)
         /\ Begins(k)' = Begins(k)
         /\ Backs(k)' = Backs(k)
         /\ Ends(k) = Ends(k)' + IF k = m THEN 1 ELSE 0
         /\ Trip(j, k)' = Trip(j, k)
<1>0. Root \in Nodes
  BY SizeType
<1>1. /\ Calls(k) \in Nat /\ Reports(k) \in Nat /\ Resumes(k) \in Nat /\ Starts(k) \in Nat
      /\ Begins(k) \in Nat /\ Backs(k) \in Nat /\ Ends(k) \in Nat /\ Trip(j, k) \in Nat
  BY NumbersType
<1>2. /\ Calls(k)' \in Nat /\ Reports(k)' \in Nat /\ Resumes(k)' \in Nat /\ Starts(k)' \in Nat
      /\ Begins(k)' \in Nat /\ Backs(k)' \in Nat /\ Ends(k)' \in Nat /\ Trip(j, k)' \in Nat
  BY NumbersTypeAfter
<1>3. /\ Flushed # Pause(k)
      /\ Flushed # ResumeAt(k)
      /\ Flushed # Start(k)
      /\ Flushed # Paused
      /\ Flushed # Flush(k)
      /\ Flushed # Reflush(j)
  BY SignalForms
<1>4. /\ Count(<<>>, Pause(k)) = 0
      /\ Count(<<>>, ResumeAt(k)) = 0
      /\ Count(<<>>, Start(k)) = 0
      /\ Count(<<>>, Paused) = 0
      /\ Count(<<>>, Begin) = 0
      /\ Count(<<>>, Back) = 0
      /\ Count(<<>>, Reflush(j)) = 0
  BY CountEmpty
<1>5. Calls(k)' = Calls(k)
  BY <1>0, <1>1, <1>2, <1>3, <1>4, TakeLedger
<1>6. Resumes(k)' = Resumes(k)
  BY <1>0, <1>1, <1>2, <1>3, <1>4, TakeLedger
<1>7. Starts(k)' = Starts(k)
  BY <1>0, <1>1, <1>2, <1>3, <1>4, TakeLedger
<1>8. Reports(k)' = Reports(k)
  BY <1>0, <1>1, <1>2, <1>3, <1>4, TakeLedger
<1>9. Begins(k)' = Begins(k)
  BY <1>0, <1>1, <1>2, <1>3, <1>4, TakeLedger
<1>10. Backs(k)' = Backs(k)
  BY <1>0, <1>1, <1>2, <1>3, <1>4, TakeLedger
<1>11. Ends(k) = Ends(k)' + IF k = m THEN 1 ELSE 0
  BY <1>0, <1>1, <1>2, <1>3, <1>4, TakeLedger
<1>12. Trip(j, k)' = Trip(j, k)
  BY <1>0, <1>1, <1>2, <1>3, <1>4, TakeLedger
<1> QED BY <1>5, <1>6, <1>7, <1>8, <1>9, <1>10, <1>11, <1>12


-----------------------------------------------------------------------------
(***************************************************************************)
(* The phases of a pause: what keeps them.                                 *)
(***************************************************************************)
(* A node stands where it stood.                                           *)
Stands(k) ==
  /\ Free(k) => Free(k)'
  /\ Called(k) => Called(k)'
  /\ Stopping(k) => Stopping(k)'
  /\ Stopped(k) => Stopped(k)'
  /\ Held(k) => Held(k)'

(* It does when nothing changes for it, and no task starts once it is      *)
(* paused and runs none.                                                   *)
Rests(k) ==
  /\ isPaused'[k] = isPaused[k] /\ pauser'[k] = pauser[k]
  /\ isPaused[k] /\ running[k] = {} => running'[k] = {}

(* A node of which no message of the pause comes or goes stands still.     *)
LEMMA StandsWhenSame ==
  ASSUME NEW k \in Nodes, Rests(k), Calls(k)' = Calls(k), Reports(k)' = Reports(k), Resumes(k)' = Resumes(k)
  PROVE  Stands(k)
<1>1. Free(k) => Free(k)'
  BY DEF Rests, Free, One
<1>2. Called(k) => Called(k)'
  BY DEF Rests, Called, One
<1>3. Stopping(k) => Stopping(k)'
  BY DEF Rests, Stopping
<1>4. Quiet(k) => Quiet(k)'
  BY DEF Rests, Quiet
<1> QED BY <1>1, <1>2, <1>3, <1>4 DEF Stands, Stopped, Held

(* The places exclude each other.                                          *)
LEMMA NotHeld ==
  ASSUME NEW k \in Nodes
  PROVE  /\ Called(k) \/ Stopping(k) \/ Stopped(k) => ~Held(k)
         /\ Called(k)' \/ Stopping(k)' \/ Stopped(k)' => ~Held(k)'
<1>1. Called(k) \/ Stopping(k) \/ Stopped(k) => ~Held(k)
  BY DEF Called, Stopping, Stopped, Held, Quiet
<1>2. Called(k)' \/ Stopping(k)' \/ Stopped(k)' => ~Held(k)'
  BY DEF Called, Stopping, Stopped, Held, Quiet
<1> QED BY <1>1, <1>2

(* When every node stands where it stood, so does the pause.               *)
LEMMA PauseStands ==
  ASSUME PhasePause, UNCHANGED manager, \A k \in Nodes : Stands(k)
  PROVE  PhasePause'
<1>1. ASSUME manager.at = "pausing"
      PROVE  /\ \A k \in Nodes : (Called(k) \/ Stopping(k) \/ Stopped(k) \/ Held(k))'
             /\ manager'.left = Cardinality({k \in Nodes : ~Held(k)})'
  <2>1. \A k \in Nodes : Called(k) \/ Stopping(k) \/ Stopped(k) \/ Held(k)
    BY <1>1 DEF PhasePause
  <2>2. \A k \in Nodes : (Called(k) \/ Stopping(k) \/ Stopped(k) \/ Held(k))'
    BY <2>1 DEF Stands
  <2>3. \A k \in Nodes : Held(k)' <=> Held(k)
    BY <2>1, NotHeld DEF Stands
  <2>4. {k \in Nodes : ~Held(k)}' = {k \in Nodes : ~Held(k)}
    BY <2>3
  <2> QED BY <1>1, <2>2, <2>4 DEF PhasePause
<1>2. manager.at = "idle" => \A n \in Nodes : Free(n)'
  BY DEF PhasePause, Stands
<1>3. manager.at \in {"flushing", "flushed"} => \A n \in Nodes : Held(n)'
  BY DEF PhasePause, Stands
<1> QED BY <1>1, <1>2, <1>3 DEF PhasePause

(* A node is where it was in its flush.                                    *)
SameDrain(k) ==
  /\ Starts(k)' = Starts(k) /\ Begins(k)' = Begins(k) /\ Backs(k)' = Backs(k) /\ Ends(k)' = Ends(k)
  /\ \A j \in Nodes : Trip(k, j)' = Trip(k, j)
Drains(k) == (Open(k)' <=> Open(k)) /\ FlushInv(k)'

(* A node of which no message of the flush comes or goes stands still.     *)
LEMMA DrainsWhenSame ==
  ASSUME NEW k \in Nodes, FlushInv(k), flush'[k] = flush[k], SameDrain(k)
  PROVE  Drains(k)
<1>1. /\ Starts(k)' = Starts(k) /\ Begins(k)' = Begins(k) /\ Backs(k)' = Backs(k) /\ Ends(k)' = Ends(k)
      /\ \A j \in Nodes : Trip(k, j)' = Trip(k, j)
  BY DEF SameDrain
<1>2. Pending(k)' = Pending(k)
  BY <1>1 DEF Pending
<1>3. Stages(k)' = Stages(k)
  BY <1>1 DEF Stages, One
<1>4. Open(k)' <=> Open(k)
  BY <1>3 DEF Open
<1>5. FlushInv(k)'
  BY <1>1, <1>2, <1>3 DEF FlushInv
<1> QED BY <1>4, <1>5 DEF Drains

(* When every node is where it was, so is the flush.                       *)
LEMMA FlushDrains ==
  ASSUME PhaseFlush, UNCHANGED manager, \A k \in Nodes : Drains(k)
  PROVE  PhaseFlush'
<1>1. {k \in Nodes : Open(k)}' = {k \in Nodes : Open(k)}
  BY DEF Drains
<1> QED BY <1>1 DEF PhaseFlush, Drains

(* A step that concerns neither keeps both.                                *)
LEMMA PhasesSame ==
  ASSUME Phases, Same, UNCHANGED <<manager, flush, isPaused, pauser>>,
         \A k \in Nodes : isPaused[k] /\ running[k] = {} => running'[k] = {}
  PROVE  Phases'
<1>1. \A k \in Nodes : Stands(k)
  BY StandsWhenSame DEF Rests, Same, SamePause
<1>2. \A k \in Nodes : Drains(k)
  BY DrainsWhenSame DEF Same, SameFlush, SameTrips, SameDrain, Phases
<1>3. PhasePause'
  BY <1>1, PauseStands DEF Phases
<1>4. PhaseFlush'
  BY <1>2, FlushDrains DEF Phases
<1> QED BY <1>2, <1>3, <1>4 DEF Phases, Drains

(* A flush has at most one stage at a time, and is open in each.           *)
LEMMA StagesForms ==
  ASSUME Placed, NEW n \in Nodes, FlushInv(n)
  PROVE  /\ Starts(n) \in Nat /\ Begins(n) \in Nat /\ Ends(n) \in Nat /\ flush[n].on \in BOOLEAN
         /\ Starts(n) > 0 => Starts(n) = 1 /\ Begins(n) = 0 /\ ~flush[n].on /\ Ends(n) = 0
         /\ Begins(n) > 0 => Starts(n) = 0 /\ Begins(n) = 1 /\ ~flush[n].on /\ Ends(n) = 0
         /\ flush[n].on => Starts(n) = 0 /\ Begins(n) = 0 /\ Ends(n) = 0
         /\ Ends(n) > 0 => Starts(n) = 0 /\ Begins(n) = 0 /\ ~flush[n].on /\ Ends(n) = 1
         /\ Starts(n) > 0 \/ Begins(n) > 0 \/ flush[n].on \/ Ends(n) > 0 => Open(n)
         /\ ~Open(n) => Starts(n) = 0 /\ Begins(n) = 0 /\ ~flush[n].on /\ Ends(n) = 0 /\ ~flush[n].dirty
<1>1. Starts(n) \in Nat /\ Begins(n) \in Nat /\ Ends(n) \in Nat
  BY NumbersType
<1>2. flush[n].on \in BOOLEAN
  BY DEF Placed, PauseTypes
<1>3. Starts(n) + Begins(n) + One(flush[n].on) + Ends(n) \in {0, 1}
  BY DEF FlushInv, Stages
<1>4. Stages(n) = Starts(n) + Begins(n) + One(flush[n].on) + Ends(n)
  BY DEF Stages
<1> DEFINE i == Starts(n)
           j == Begins(n)
           e == Ends(n)
<1>5. i + j + (IF flush[n].on THEN 1 ELSE 0) + e \in {0, 1}
  BY <1>3 DEF One
<1>6. Open(n) <=> i + j + (IF flush[n].on THEN 1 ELSE 0) + e = 1 \/ flush[n].dirty
  BY <1>4 DEF Open, One
<1>7. i \in Nat /\ j \in Nat /\ e \in Nat
  BY <1>1
<1> HIDE DEF i, j, e
<1>8. /\ i > 0 => i = 1 /\ j = 0 /\ ~flush[n].on /\ e = 0
      /\ j > 0 => i = 0 /\ j = 1 /\ ~flush[n].on /\ e = 0
      /\ flush[n].on => i = 0 /\ j = 0 /\ e = 0
      /\ e > 0 => i = 0 /\ j = 0 /\ ~flush[n].on /\ e = 1
  BY <1>2, <1>5, <1>7
<1>9. i > 0 \/ j > 0 \/ flush[n].on \/ e > 0 => i + j + (IF flush[n].on THEN 1 ELSE 0) + e = 1
  BY <1>2, <1>5, <1>7
<1>10. i + j + (IF flush[n].on THEN 1 ELSE 0) + e # 1 => i = 0 /\ j = 0 /\ ~flush[n].on /\ e = 0
  BY <1>2, <1>5, <1>7
<1> QED BY <1>1, <1>2, <1>6, <1>8, <1>9, <1>10 DEF i, j, e

(* Who flushes, waits for every node it has asked.                         *)
LEMMA PendingForms ==
  ASSUME Placed, NEW n \in Nodes, FlushInv(n)
  PROVE  /\ IsFiniteSet(Pending(n)) /\ Cardinality(Pending(n)) \in Nat
         /\ Cardinality(Pending(n)) = 0 <=> Pending(n) = {}
         /\ \A k \in Nodes : Trip(n, k) > 0 => k \in Pending(n) /\ flush[n].on
         /\ \A k \in Nodes : k \notin Pending(n) => Trip(n, k) = 0
         /\ Backs(n) > 0 => flush[n].on
<1>1. IsFiniteSet(Pending(n))
  BY SizeType, FS_Subset DEF Pending
<1>2. Cardinality(Pending(n)) \in Nat /\ (Cardinality(Pending(n)) = 0 <=> Pending(n) = {})
  BY <1>1, FS_CardinalityType, FS_EmptySet
<1>3. \A k \in Nodes : Trip(n, k) > 0 => k \in Pending(n) /\ flush[n].on
  BY DEF FlushInv, Pending
<1>4. \A k \in Nodes : k \notin Pending(n) => Trip(n, k) = 0
  BY DEF FlushInv, Pending
<1>5. Backs(n) > 0 => flush[n].on
  BY DEF FlushInv
<1> QED BY <1>1, <1>2, <1>3, <1>4, <1>5

(* The runner begins a flush: nothing was open but the command.            *)
LEMMA BeginDrains ==
  ASSUME Placed, Placed', NEW n \in Nodes, FlushInv(n), Runner(n), Head(queue[n]) = Begin
  PROVE  Drains(n) /\ ~flush[n].on
<1>1. flush'[n] = [on |-> TRUE, dirty |-> FALSE, left |-> Cardinality(Nodes)]
  <2>1. flush' = [flush EXCEPT ![n] = [on |-> TRUE, dirty |-> FALSE, left |-> Cardinality(Nodes)]]
    BY SignalForms DEF Runner, Begin, Back
  <2>2. flush \in [Nodes -> [on : BOOLEAN, dirty : BOOLEAN, left : Int]]
    BY DEF Placed, PauseTypes
  <2> QED BY <2>1, <2>2
<1>2. /\ Starts(n)' = Starts(n) /\ Begins(n) = Begins(n)' + 1 /\ Backs(n) = Backs(n)' + 0
      /\ Ends(n)' = Ends(n) + 0 /\ \A k \in Nodes : Trip(n, k)' = Trip(n, k) + 1
  BY SignalForms, RunnerLedger
<1>3. Begins(n)' \in Nat /\ Backs(n)' \in Nat /\ Ends(n) \in Nat /\ \A k \in Nodes : Trip(n, k) \in Nat
  BY NumbersType, NumbersTypeAfter
<1>4. Starts(n) = 0 /\ Begins(n) = 1 /\ ~flush[n].on /\ Ends(n) = 0 /\ Open(n)
  BY <1>2, <1>3, StagesForms
<1>5. Pending(n) = {} /\ Backs(n) = 0
  BY <1>4 DEF FlushInv
<1>6. \A k \in Nodes : Trip(n, k) = 0
  BY <1>5, PendingForms
<1>7. \A k \in Nodes : Trip(n, k)' = 1
  BY <1>2, <1>6
<1>8. Pending(n)' = Nodes
  BY <1>7 DEF Pending
<1>9. Starts(n)' = 0 /\ Begins(n)' = 0 /\ Backs(n)' = 0 /\ Ends(n)' = 0
  BY <1>2, <1>3, <1>4, <1>5
<1>10. Stages(n)' = 1
  BY <1>1, <1>9 DEF Stages, One
<1>11. Cardinality(Nodes) \in Nat \ {0}
  BY SizeType DEF Size
<1>12. FlushInv(n)'
  BY <1>1, <1>7, <1>8, <1>9, <1>10, <1>11 DEF FlushInv
<1>13. Open(n)'
  BY <1>10 DEF Open
<1> QED BY <1>4, <1>12, <1>13 DEF Drains

(* The runner counts an answer; the last one ends the flush, unless it is  *)
(* to be repeated.                                                         *)
LEMMA BackDrains ==
  ASSUME Placed, Placed', NEW n \in Nodes, FlushInv(n), Runner(n), Head(queue[n]) = Back
  PROVE  Drains(n)
<1>0. Head(queue[n]) # Begin
  BY SignalForms
<1>1. /\ flush'[n].on <=> flush[n].left > 1
      /\ flush'[n].dirty = flush[n].dirty
      /\ flush'[n].left = flush[n].left - 1 /\ flush[n].left \in Int /\ flush[n].dirty \in BOOLEAN
  <2> DEFINE b == flush[n].left > 1
  <2>1. flush' = [flush EXCEPT ![n].left = @ - 1, ![n].on = b]
    BY <1>0 DEF Runner, Begin, Back
  <2>2. flush[n] \in [on : BOOLEAN, dirty : BOOLEAN, left : Int] /\ flush \in [Nodes -> [on : BOOLEAN, dirty : BOOLEAN, left : Int]]
    BY DEF Placed, PauseTypes
  <2>3. b \in BOOLEAN
    OBVIOUS
  <2> HIDE DEF b
  <2>4. /\ flush'[n].on = b /\ flush'[n].dirty = flush[n].dirty /\ flush'[n].left = flush[n].left - 1
        /\ flush[n].left \in Int /\ flush[n].dirty \in BOOLEAN
    BY <2>1, <2>2
  <2>5. flush'[n].on <=> b
    BY <2>3, <2>4
  <2> QED BY <2>4, <2>5 DEF b
<1>2. /\ Starts(n)' = Starts(n) /\ Begins(n) = Begins(n)' + 0 /\ Backs(n) = Backs(n)' + 1
      /\ Ends(n)' = Ends(n) + IF flush[n].left = 1 /\ ~flush[n].dirty THEN 1 ELSE 0
      /\ \A k \in Nodes : Trip(n, k)' = Trip(n, k) + 0
  BY <1>0, RunnerLedger
<1>3. /\ Begins(n)' \in Nat /\ Backs(n)' \in Nat /\ Ends(n) \in Nat /\ Backs(n) \in Nat
      /\ \A k \in Nodes : Trip(n, k) \in Nat
  BY NumbersType, NumbersTypeAfter
<1>4. flush[n].on
  BY <1>2, <1>3, PendingForms
<1>5. Starts(n) = 0 /\ Begins(n) = 0 /\ Ends(n) = 0 /\ Open(n)
  BY <1>4, StagesForms
<1>6. \A k \in Nodes : Trip(n, k)' = Trip(n, k)
  BY <1>2, <1>3
<1>7. Pending(n)' = Pending(n)
  BY <1>6 DEF Pending
<1>8. flush[n].left = Cardinality(Pending(n)) + Backs(n) /\ Cardinality(Pending(n)) \in Nat
  BY <1>4, PendingForms DEF FlushInv
<1>9. Starts(n)' = 0 /\ Begins(n)' = 0
  BY <1>2, <1>3, <1>5
<1>10. CASE flush[n].left = 1
  <2>1. Backs(n)' = 0 /\ Cardinality(Pending(n)) = 0
    BY <1>2, <1>3, <1>8, <1>10
  <2>2. Pending(n) = {}
    BY <2>1, PendingForms
  <2>3. ~flush'[n].on
    BY <1>1, <1>10
  <2>4. Ends(n)' = IF flush[n].dirty THEN 0 ELSE 1
    BY <1>2, <1>3, <1>5, <1>10
  <2>5. Stages(n)' = IF flush[n].dirty THEN 0 ELSE 1
    BY <1>9, <2>3, <2>4 DEF Stages, One
  <2>6. FlushInv(n)'
    BY <1>1, <1>6, <1>7, <2>1, <2>2, <2>3, <2>4, <2>5 DEF FlushInv
  <2>7. Open(n)'
    BY <1>1, <2>5 DEF Open
  <2> QED BY <1>5, <2>6, <2>7 DEF Drains
<1>11. CASE flush[n].left # 1
  <2>1. flush[n].left > 1 /\ flush'[n].left = Cardinality(Pending(n)) + Backs(n)'
    BY <1>1, <1>2, <1>3, <1>8, <1>11
  <2>2. flush'[n].on /\ flush'[n].left > 0
    BY <1>1, <2>1
  <2>3. Ends(n)' = 0
    BY <1>2, <1>3, <1>5, <1>11
  <2>4. Stages(n)' = 1
    BY <1>9, <2>2, <2>3 DEF Stages, One
  <2>5. FlushInv(n)'
    BY <1>6, <1>7, <2>1, <2>2, <2>3, <2>4 DEF FlushInv
  <2>6. Open(n)'
    BY <2>4 DEF Open
  <2> QED BY <1>5, <2>5, <2>6 DEF Drains
<1> QED BY <1>10, <1>11

(* Another message may spoil a flush that is under way, no other.          *)
LEMMA OtherDrains ==
  ASSUME Placed, Placed', NEW n \in Nodes, FlushInv(n), Runner(n), Head(queue[n]) # Begin, Head(queue[n]) # Back
  PROVE  Drains(n)
<1>1. /\ flush'[n].on = flush[n].on /\ flush'[n].left = flush[n].left
      /\ flush[n].dirty => flush'[n].dirty
      /\ flush'[n].dirty => flush[n].dirty \/ flush[n].on
  <2> DEFINE b == flush[n].dirty \/ (flush[n].on /\ Head(queue[n]).cmd \in {"work", "shutdown"})
  <2>1. flush' = [flush EXCEPT ![n].dirty = b]
    BY DEF Runner, Begin, Back
  <2>2. flush[n] \in [on : BOOLEAN, dirty : BOOLEAN, left : Int] /\ flush \in [Nodes -> [on : BOOLEAN, dirty : BOOLEAN, left : Int]]
    BY DEF Placed, PauseTypes
  <2>3. b \in BOOLEAN /\ (flush[n].dirty => b) /\ (b => flush[n].dirty \/ flush[n].on)
    BY <2>2
  <2> HIDE DEF b
  <2>4. flush'[n].on = flush[n].on /\ flush'[n].left = flush[n].left /\ flush'[n].dirty = b
    BY <2>1, <2>2
  <2> QED BY <2>3, <2>4
<1>2. SameDrain(n)
  BY RunnerSame DEF Same, SameFlush, SameTrips, SameDrain
<1>3. Pending(n)' = Pending(n)
  BY <1>2 DEF Pending, SameDrain
<1>4. Stages(n)' = Stages(n)
  BY <1>1, <1>2 DEF Stages, SameDrain, One
<1>5. flush[n].on => Open(n) /\ Ends(n) = 0 /\ Stages(n) = 1
  BY StagesForms DEF Stages, One
<1>6. Open(n)' <=> Open(n)
  BY <1>1, <1>4, <1>5 DEF Open
<1>7. FlushInv(n)'
  BY <1>1, <1>2, <1>3, <1>4, <1>5 DEF FlushInv, SameDrain
<1> QED BY <1>6, <1>7 DEF Drains

-----------------------------------------------------------------------------
(***************************************************************************)
(* The phases of a pause: the steps.                                       *)
(***************************************************************************)
(* The runner keeps them.                                                  *)
LEMMA RunnerPhases ==
  ASSUME Placed, Placed', Phases, NEW n \in Nodes, Runner(n)
  PROVE  Phases' /\ (Head(queue[n]) = Begin => ~flush[n].on)
<1>1. UNCHANGED <<isPaused, pauser, manager, running>>
  BY DEF Runner, work
<1>2. \A k \in Nodes : Stands(k)
  <2> TAKE k \in Nodes
  <2>1. Calls(k)' = Calls(k) /\ Reports(k)' = Reports(k) /\ Resumes(k)' = Resumes(k)
    BY RunnerLedger
  <2> QED BY <1>1, <2>1, StandsWhenSame DEF Rests
<1>3. PhasePause'
  BY <1>1, <1>2, PauseStands DEF Phases
<1>4. ASSUME NEW k \in Nodes, k # n
      PROVE  Drains(k)
  <2>1. flush'[k] = flush[k]
    BY <1>4 DEF Runner, Placed, PauseTypes
  <2>2. ASSUME NEW j \in Nodes
        PROVE  /\ Starts(k)' = Starts(k) /\ Begins(k)' = Begins(k) /\ Backs(k)' = Backs(k) /\ Ends(k)' = Ends(k)
               /\ Trip(k, j)' = Trip(k, j)
    <3>1. /\ Starts(k)' = Starts(k) /\ Begins(k) = Begins(k)' + 0 /\ Backs(k) = Backs(k)' + 0
          /\ Ends(k)' = Ends(k) + 0 /\ Trip(k, j)' = Trip(k, j) + 0
      BY <1>4, RunnerLedger
    <3>2. Begins(k)' \in Nat /\ Backs(k)' \in Nat /\ Ends(k) \in Nat /\ Trip(k, j) \in Nat
      BY NumbersType, NumbersTypeAfter
    <3> QED BY <3>1, <3>2
  <2>3. SameDrain(k)
    BY <2>2 DEF SameDrain
  <2> QED BY <2>1, <2>3, DrainsWhenSame DEF Phases
<1>5. Drains(n) /\ (Head(queue[n]) = Begin => ~flush[n].on)
  <2>1. FlushInv(n)
    BY DEF Phases
  <2> QED BY <2>1, BeginDrains, BackDrains, OtherDrains
<1>6. \A k \in Nodes : Drains(k)
  BY <1>4, <1>5
<1>7. PhaseFlush'
  BY <1>1, <1>6, FlushDrains DEF Phases
<1> QED BY <1>3, <1>5, <1>6, <1>7 DEF Phases, Drains

(* Nothing posted, nothing received.                                       *)
LEMMA SameWhenStill ==
  ASSUME UNCHANGED <<queue, wire>>
  PROVE  Same
<1>1. ASSUME NEW k \in Nodes, NEW j \in Nodes
      PROVE  /\ Calls(k)' = Calls(k) /\ Reports(k)' = Reports(k) /\ Resumes(k)' = Resumes(k)
             /\ Starts(k)' = Starts(k) /\ Begins(k)' = Begins(k) /\ Backs(k)' = Backs(k) /\ Ends(k)' = Ends(k)
             /\ Trip(j, k)' = Trip(j, k)
  BY Numbers, NumbersAfter
<1> QED BY <1>1 DEF Same, SamePause, SameFlush, SameTrips

(* The pauser forbids new tasks.                                           *)
LEMMA SetPausedPhases ==
  ASSUME Placed, Phases, NEW n \in Nodes, SetPaused(n)
  PROVE  Phases'
<1>1. Same /\ UNCHANGED <<manager, flush, running>>
  BY SameWhenStill DEF SetPaused, work
<1>2. /\ pauser[n] = "started" /\ isPaused'[n] /\ pauser'[n] = "waiting"
      /\ \A k \in Nodes : k # n => isPaused'[k] = isPaused[k] /\ pauser'[k] = pauser[k]
  BY DEF SetPaused, Placed, PauseTypes
<1>3. \A k \in Nodes : k # n => Stands(k)
  BY <1>1, <1>2, StandsWhenSame DEF Rests, Same, SamePause
<1>4. Stands(n)
  <2>1. ~Free(n) /\ ~Called(n) /\ ~Stopped(n) /\ ~Held(n)
    BY <1>2 DEF Free, Called, Stopped, Held, Quiet
  <2>2. Stopping(n) => Stopping(n)'
    BY <1>1, <1>2 DEF Stopping, Same, SamePause
  <2> QED BY <2>1, <2>2 DEF Stands
<1>5. PhasePause'
  BY <1>1, <1>3, <1>4, PauseStands DEF Phases
<1>6. \A k \in Nodes : Drains(k)
  BY <1>1, DrainsWhenSame DEF Same, SameFlush, SameTrips, SameDrain, Phases
<1>7. PhaseFlush'
  BY <1>1, <1>6, FlushDrains DEF Phases
<1> QED BY <1>5, <1>6, <1>7 DEF Phases, Drains

(* One node goes on, and is not held yet.                                  *)
LEMMA PauseGoesOn ==
  ASSUME PhasePause, UNCHANGED manager, NEW n \in Nodes, \A k \in Nodes : k # n => Stands(k),
         Called(n) \/ Stopping(n), Stopping(n)' \/ Stopped(n)'
  PROVE  PhasePause'
<1>1. ~Free(n) \/ manager.at # "idle"
  BY DEF PhasePause, Free, Called, Stopping
<1>2. ~Held(n) /\ ~Held(n)'
  BY NotHeld
<1>3. manager.at # "idle" /\ manager.at \notin {"flushing", "flushed"}
  BY <1>1, <1>2 DEF PhasePause, Free, Called, Stopping
<1>4. ASSUME manager.at = "pausing"
      PROVE  /\ \A k \in Nodes : (Called(k) \/ Stopping(k) \/ Stopped(k) \/ Held(k))'
             /\ manager'.left = Cardinality({k \in Nodes : ~Held(k)})'
  <2>1. \A k \in Nodes : Called(k) \/ Stopping(k) \/ Stopped(k) \/ Held(k)
    BY <1>4 DEF PhasePause
  <2>2. \A k \in Nodes : (Called(k) \/ Stopping(k) \/ Stopped(k) \/ Held(k))'
    BY <2>1 DEF Stands
  <2>3. \A k \in Nodes : Held(k)' <=> Held(k)
    BY <1>2, <2>1, NotHeld DEF Stands
  <2>4. {k \in Nodes : ~Held(k)}' = {k \in Nodes : ~Held(k)}
    BY <2>3
  <2> QED BY <1>4, <2>2, <2>4 DEF PhasePause
<1> QED BY <1>3, <1>4 DEF PhasePause

(* Where a node is, seen from what is under way to it or from it.          *)
LEMMA WhereIs ==
  ASSUME Placed, Phases, NEW n \in Nodes
  PROVE  /\ Calls(n) > 0 => Called(n)
         /\ Reports(n) > 0 => Stopped(n) /\ manager.at = "pausing"
         /\ Resumes(n) > 0 => isPaused[n] /\ Resumes(n) = 1 /\ (Free(n) \/ Called(n))
         /\ pauser[n] # "none" => Stopping(n)
         /\ Open(n) => manager.at = "flushing" /\ \A k \in Nodes : Held(k)
<1>1. manager.at \in {"idle", "pausing", "flushing", "flushed"}
  BY DEF Placed, PauseTypes
<1>2. Free(n) \/ Called(n) \/ Stopping(n) \/ Stopped(n) \/ Held(n)
  BY <1>1 DEF Phases, PhasePause
<1>3. Calls(n) > 0 => Called(n)
  BY <1>2 DEF Free, Called, Stopping, Stopped, Held, Quiet
<1>4. Reports(n) > 0 => Stopped(n)
  BY <1>2 DEF Free, Called, Stopping, Stopped, Held, Quiet
<1>5. Stopped(n) => manager.at = "pausing"
  BY <1>1 DEF Phases, PhasePause, Free, Stopped, Held
<1>6. Resumes(n) > 0 => isPaused[n] /\ Resumes(n) = 1 /\ (Free(n) \/ Called(n))
  BY <1>2 DEF Free, Called, Stopping, Stopped, Held, Quiet, One
<1>7. pauser[n] # "none" => Stopping(n)
  BY <1>2 DEF Free, Called, Stopped, Held, Quiet
<1>8. Open(n) => manager.at = "flushing" /\ \A k \in Nodes : Held(k)
  BY DEF Phases, PhaseFlush, PhasePause
<1> QED BY <1>3, <1>4, <1>5, <1>6, <1>7, <1>8

(* A node reports to the root that it is paused.                           *)
LEMMA ReportPhases ==
  ASSUME Placed, Placed', Phases, NEW n \in Nodes, ReportPaused(n)
  PROVE  Phases'
<1>1. /\ UNCHANGED <<wire, manager, flush, running, isPaused>> /\ running[n] = {} /\ pauser[n] = "waiting"
      /\ Post(n, <<Paused>>)
      /\ pauser'[n] = "none" /\ \A k \in Nodes : k # n => pauser'[k] = pauser[k]
  BY DEF ReportPaused, Paused, Placed, PauseTypes, work
<1>2. <<Paused>> \in Seq(Queued(n))
  BY QueuedForms
<1>3. ASSUME NEW k \in Nodes, NEW j \in Nodes
      PROVE  /\ Calls(k)' = Calls(k) /\ Resumes(k)' = Resumes(k)
             /\ Reports(k)' = Reports(k) + IF n = k THEN 1 ELSE 0
             /\ Starts(k)' = Starts(k) /\ Begins(k)' = Begins(k) /\ Backs(k)' = Backs(k) /\ Ends(k)' = Ends(k)
             /\ Trip(j, k)' = Trip(j, k)
  <2>1. /\ Calls(k) \in Nat /\ Reports(k) \in Nat /\ Resumes(k) \in Nat /\ Starts(k) \in Nat
        /\ Begins(k) \in Nat /\ Backs(k) \in Nat /\ Trip(j, k) \in Nat
    BY NumbersType
  <2>2. /\ Count(<<Paused>>, Pause(k)) = 0 /\ Count(<<Paused>>, ResumeAt(k)) = 0
        /\ Count(<<Paused>>, Start(k)) = 0 /\ Count(<<Paused>>, Paused) = 1
        /\ Count(<<Paused>>, Begin) = 0 /\ Count(<<Paused>>, Back) = 0
        /\ Count(<<Paused>>, Reflush(j)) = 0
    BY SignalForms, CountSingle
  <2>3. /\ Calls(k)' = Calls(k) + 0 /\ Resumes(k)' = Resumes(k) + 0 /\ Starts(k)' = Starts(k) + 0
        /\ Begins(k)' = Begins(k) + 0 /\ Backs(k)' = Backs(k) + 0 /\ Ends(k)' = Ends(k)
        /\ Trip(j, k)' = Trip(j, k) + 0 /\ Reports(k)' = Reports(k) + IF n = k THEN 1 ELSE 0
    <3>1. Post(n, <<Paused>>) /\ UNCHANGED wire
      BY <1>1
    <3>2. /\ Calls(k)' = Calls(k) + IF n = Root THEN Count(<<Paused>>, Pause(k)) ELSE 0
          /\ Resumes(k)' = Resumes(k) + IF n = Root THEN Count(<<Paused>>, ResumeAt(k)) ELSE 0
          /\ Starts(k)' = Starts(k) + IF n = Root THEN Count(<<Paused>>, Start(k)) ELSE 0
          /\ Reports(k)' = Reports(k) + IF n = k THEN Count(<<Paused>>, Paused) ELSE 0
          /\ Begins(k)' = Begins(k) + IF n = k THEN Count(<<Paused>>, Begin) ELSE 0
          /\ Backs(k)' = Backs(k) + IF n = k THEN Count(<<Paused>>, Back) ELSE 0
          /\ Ends(k)' = Ends(k)
          /\ Trip(j, k)' = Trip(j, k) + IF n = k THEN Count(<<Paused>>, Reflush(j)) ELSE 0
      BY <1>2, <3>1, PostLedger
    <3> QED BY <2>2, <3>2
  <2> QED BY <2>1, <2>3
<1>4. \A k \in Nodes : k # n => Stands(k)
  <2> TAKE k \in Nodes
  <2> HAVE k # n
  <2>1. Reports(k)' = Reports(k) /\ Calls(k)' = Calls(k) /\ Resumes(k)' = Resumes(k)
    <3>1. Reports(k)' = Reports(k) + 0 /\ Reports(k) \in Nat
      BY <1>3, NumbersType
    <3> QED BY <1>3, <3>1
  <2> QED BY <1>1, <2>1, StandsWhenSame DEF Rests
<1>5. Stopping(n) /\ Stopped(n)'
  <2>1. Stopping(n)
    BY <1>1, WhereIs
  <2>2. Calls(n) = 0 /\ Reports(n) = 0 /\ Resumes(n) = 0 /\ isPaused[n]
    BY <1>1, <2>1 DEF Stopping
  <2>3. Calls(n)' = 0 /\ Reports(n)' = 1 /\ Resumes(n)' = 0
    BY <1>3, <2>2
  <2> QED BY <1>1, <2>1, <2>2, <2>3 DEF Stopped, Quiet
<1>6. PhasePause'
  BY <1>1, <1>4, <1>5, PauseGoesOn DEF Phases
<1>7. \A k \in Nodes : Drains(k)
  BY <1>1, <1>3, DrainsWhenSame DEF SameDrain, Phases
<1>8. PhaseFlush'
  BY <1>1, <1>7, FlushDrains DEF Phases
<1> QED BY <1>6, <1>7, <1>8 DEF Phases, Drains

(* The message received was there.                                         *)
LEMMA RemovesOne ==
  ASSUME NEW m \in Nodes, NEW n \in Nodes, NEW y, Removes(m, n, y)
  PROVE  Count(wire[m][n], y) = Count(wire'[m][n], y) + 1 /\ Count(wire'[m][n], y) \in Nat
<1>1. \A j, k \in Nodes : \A x :
        Count(wire[j][k], x) = Count(wire'[j][k], x) + IF m = j /\ n = k /\ y = x THEN 1 ELSE 0
  BY DEF Removes
<1>2. \A j, k \in Nodes : \A x : Count(wire'[j][k], x) \in Nat
  BY DEF Removes
<1> QED BY <1>1, <1>2

(* A message that is received, by what it says.                            *)
LEMMA TakenForms ==
  ASSUME Placed, NEW m \in Nodes, NEW n \in Nodes, wire[m][n] # <<>>, wire' = [wire EXCEPT ![m][n] = Tail(@)],
         NEW y, y = Head(wire[m][n])
  PROVE  /\ Removes(m, n, y)
         /\ y.cmd \in Controls \cup {"work"}
         /\ y.cmd = "pause" => m = Root /\ y = Pause(n) /\ Calls(n) > 0
         /\ y.cmd = "resume" => m = Root /\ y = ResumeAt(n) /\ Resumes(n) > 0
         /\ y.cmd = "start_flush" => m = Root /\ y = Start(n) /\ Starts(n) > 0
         /\ y.cmd = "paused" => n = Root /\ y = Paused /\ Reports(m) > 0
         /\ y.cmd = "flushed" => n = Root /\ y = Flushed /\ Ends(m) > 0
         /\ y.cmd = "flush" => y = Flush(n) /\ Trip(m, n) > 0
         /\ y.cmd = "reflush" => y = Reflush(n) /\ Trip(n, m) > 0
<1>1. Removes(m, n, y) /\ y \in Wired(m, n) /\ y \in Msgs
  BY RemovesWhenTaken
<1>2. y.to = n /\ (y.cmd \in FromRoot => m = Root) /\ (y.cmd \in ToRoot => n = Root)
      /\ y.cmd \in Controls \cup {"work"}
  BY <1>1 DEF Wired, Msgs
<1>3. Count(wire[m][n], y) = Count(wire'[m][n], y) + 1 /\ Count(wire'[m][n], y) \in Nat
  BY <1>1, RemovesOne
<1>4. Count(wire[m][n], y) > 0
  BY <1>3
<1>5. /\ \A i \in Nodes : \A x : Count(queue[i], x) \in Nat
      /\ \A i, l \in Nodes : \A x : Count(wire[i][l], x) \in Nat
  BY NumbersType
<1>6. CASE y.cmd = "pause"
  <2>1. m = Root /\ y = Pause(n)
    BY <1>1, <1>2, <1>6, SignalIs DEF FromRoot
  <2>2. Count(queue[Root], Pause(n)) + Count(wire[Root][n], Pause(n)) > 0
    BY <1>4, <1>5, <2>1
  <2> QED BY <1>1, <1>2, <1>6, <2>1, <2>2, Numbers
<1>7. CASE y.cmd = "resume"
  <2>1. m = Root /\ y = ResumeAt(n)
    BY <1>1, <1>2, <1>7, SignalIs DEF FromRoot
  <2>2. Count(queue[Root], ResumeAt(n)) + Count(wire[Root][n], ResumeAt(n)) > 0
    BY <1>4, <1>5, <2>1
  <2> QED BY <1>1, <1>2, <1>7, <2>1, <2>2, Numbers
<1>8. CASE y.cmd = "start_flush"
  <2>1. m = Root /\ y = Start(n)
    BY <1>1, <1>2, <1>8, SignalIs DEF FromRoot
  <2>2. Count(queue[Root], Start(n)) + Count(wire[Root][n], Start(n)) > 0
    BY <1>4, <1>5, <2>1
  <2> QED BY <1>1, <1>2, <1>8, <2>1, <2>2, Numbers
<1>9. CASE y.cmd = "paused"
  <2>1. n = Root /\ y = Paused
    BY <1>1, <1>2, <1>9, SignalIs DEF ToRoot
  <2>2. Count(queue[m], Paused) + Count(wire[m][Root], Paused) > 0
    BY <1>4, <1>5, <2>1
  <2> QED BY <1>1, <1>2, <1>9, <2>1, <2>2, Numbers
<1>10. CASE y.cmd = "flushed"
  <2>1. n = Root /\ y = Flushed
    BY <1>1, <1>2, <1>10, SignalIs DEF ToRoot
  <2> QED BY <1>1, <1>2, <1>4, <1>10, <2>1, Numbers
<1>11. CASE y.cmd = "flush"
  <2>1. y = Flush(n)
    BY <1>1, <1>2, <1>11, SignalIs
  <2>2. Count(wire[m][n], Flush(n)) + (Count(queue[n], Reflush(m)) + Count(wire[n][m], Reflush(m))) > 0
    <3>1. /\ Count(wire[m][n], Flush(n)) \in Nat /\ Count(queue[n], Reflush(m)) \in Nat
          /\ Count(wire[n][m], Reflush(m)) \in Nat
      BY <1>5
    <3>2. Count(wire[m][n], Flush(n)) > 0
      BY <1>4, <2>1
    <3> QED BY <3>1, <3>2
  <2> QED BY <1>1, <1>2, <1>11, <2>1, <2>2, Numbers
<1>12. CASE y.cmd = "reflush"
  <2>1. y = Reflush(n)
    BY <1>1, <1>2, <1>12, SignalIs
  <2>2. Count(wire[n][m], Flush(m)) + (Count(queue[m], Reflush(n)) + Count(wire[m][n], Reflush(n))) > 0
    <3>1. /\ Count(wire[n][m], Flush(m)) \in Nat /\ Count(queue[m], Reflush(n)) \in Nat
          /\ Count(wire[m][n], Reflush(n)) \in Nat
      BY <1>5
    <3>2. Count(wire[m][n], Reflush(n)) > 0
      BY <1>4, <2>1
    <3> QED BY <3>1, <3>2
  <2> QED BY <1>1, <1>2, <1>12, <2>1, <2>2, Numbers
<1> QED BY <1>1, <1>2, <1>6, <1>7, <1>8, <1>9, <1>10, <1>11, <1>12

(* Only a paused node meets a message of the flush, or is told to resume.  *)
LEMMA OnlyPaused ==
  ASSUME Placed, Phases, NEW m \in Nodes, NEW n \in Nodes, wire[m][n] # <<>>,
         wire' = [wire EXCEPT ![m][n] = Tail(@)], ~isPaused[n]
  PROVE  Head(wire[m][n]).cmd \notin {"start_flush", "flush", "reflush", "flushed", "resume"}
<1> DEFINE y == Head(wire[m][n])
<1>1. FlushInv(m) /\ FlushInv(n)
  BY DEF Phases
<1>2. Starts(n) > 0 \/ Ends(m) > 0 \/ Trip(m, n) > 0 \/ Trip(n, m) > 0 => Open(m) \/ Open(n)
  BY <1>1, StagesForms, PendingForms
<1>3. ~(Open(m) \/ Open(n))
  BY WhereIs DEF Held, Quiet
<1>4. y.cmd # "resume"
  BY TakenForms, WhereIs
<1>5. /\ y.cmd = "start_flush" => Starts(n) > 0
      /\ y.cmd = "flush" => Trip(m, n) > 0
      /\ y.cmd = "reflush" => Trip(n, m) > 0
      /\ y.cmd = "flushed" => Ends(m) > 0
  BY TakenForms
<1> QED BY <1>2, <1>3, <1>4, <1>5

(* The root receives a report.                                             *)
LEMMA PausedPhases ==
  ASSUME Placed, Placed', Phases, NEW m \in Nodes, Removes(m, Root, Paused), Reports(m) > 0,
         UNCHANGED <<queue, flush, isPaused, pauser, running>>,
         manager' = [manager EXCEPT !.left = @ - 1]
  PROVE  Phases'
<1>1. Root \in Nodes /\ Adds(Root, <<>>)
  BY SizeType, NothingAdded
<1>2. ASSUME NEW k \in Nodes, NEW j \in Nodes
      PROVE  /\ Calls(k)' = Calls(k) /\ Resumes(k)' = Resumes(k)
             /\ Reports(k) = Reports(k)' + IF k = m THEN 1 ELSE 0
             /\ Starts(k)' = Starts(k) /\ Begins(k)' = Begins(k) /\ Backs(k)' = Backs(k) /\ Ends(k)' = Ends(k)
             /\ Trip(j, k)' = Trip(j, k)
  BY <1>1, TakePaused
<1>3. \A k \in Nodes : Reports(k) \in Nat /\ Reports(k)' \in Nat
  BY NumbersType, NumbersTypeAfter
<1>4. Stopped(m) /\ manager.at = "pausing"
  BY WhereIs
<1>5. \A k \in Nodes : k # m => Stands(k)
  <2> TAKE k \in Nodes
  <2> HAVE k # m
  <2>1. Reports(k)' = Reports(k)
    BY <1>2, <1>3
  <2> QED BY <1>2, <2>1, StandsWhenSame DEF Rests
<1>6. Held(m)' /\ ~Held(m)
  <2>1. Quiet(m)'
    BY <1>2, <1>4 DEF Stopped, Quiet
  <2>2. Reports(m)' = 0
    BY <1>2, <1>3, <1>4 DEF Stopped
  <2> QED BY <1>4, <2>1, <2>2, NotHeld DEF Held
<1>7. \A k \in Nodes : Called(k) \/ Stopping(k) \/ Stopped(k) \/ Held(k)
  BY <1>4 DEF Phases, PhasePause
<1>8. \A k \in Nodes : (Called(k) \/ Stopping(k) \/ Stopped(k) \/ Held(k))'
  BY <1>5, <1>6, <1>7 DEF Stands
<1>9. {k \in Nodes : ~Held(k)}' = {k \in Nodes : ~Held(k)} \ {m}
  <2>1. \A k \in Nodes : k # m => (Held(k)' <=> Held(k))
    BY <1>5, <1>7, NotHeld DEF Stands
  <2> QED BY <1>6, <2>1
<1>10. Cardinality({k \in Nodes : ~Held(k)})' = Cardinality({k \in Nodes : ~Held(k)}) - 1
  <2> DEFINE H == {k \in Nodes : ~Held(k)}
  <2>1. m \in H /\ IsFiniteSet(H)
    BY <1>6, SizeType, FS_Subset
  <2>2. Cardinality(H \ {m}) = Cardinality(H) - 1
    BY <2>1, FS_RemoveElement
  <2> QED BY <1>9, <2>2
<1>11. manager'.at = "pausing" /\ manager'.left = manager.left - 1
  BY <1>4 DEF Placed, PauseTypes
<1>12. PhasePause'
  BY <1>4, <1>8, <1>10, <1>11 DEF Phases, PhasePause
<1>13. \A k \in Nodes : Drains(k)
  BY <1>2, DrainsWhenSame DEF SameDrain, Phases
<1>14. PhaseFlush'
  BY <1>4, <1>11, <1>13 DEF Phases, PhaseFlush, Drains
<1> QED BY <1>12, <1>13, <1>14 DEF Phases, Drains

(* A node receives the call to pause.                                      *)
LEMMA PausePhases ==
  ASSUME Placed, Placed', Phases, NEW n \in Nodes, Removes(Root, n, Pause(n)), Calls(n) > 0, ~isPaused[n],
         UNCHANGED <<queue, flush, isPaused, running, manager>>,
         pauser' = [pauser EXCEPT ![n] = "started"]
  PROVE  Phases'
<1>1. Adds(n, <<>>)
  BY NothingAdded
<1>2. ASSUME NEW k \in Nodes, NEW j \in Nodes
      PROVE  /\ Calls(k) = Calls(k)' + IF k = n THEN 1 ELSE 0
             /\ Resumes(k)' = Resumes(k) /\ Reports(k)' = Reports(k)
             /\ Starts(k)' = Starts(k) /\ Begins(k)' = Begins(k) /\ Backs(k)' = Backs(k) /\ Ends(k)' = Ends(k)
             /\ Trip(j, k)' = Trip(j, k)
  BY <1>1, TakePause
<1>3. \A k \in Nodes : Calls(k) \in Nat /\ Calls(k)' \in Nat
  BY NumbersType, NumbersTypeAfter
<1>4. Called(n)
  BY WhereIs
<1>5. pauser'[n] = "started" /\ \A k \in Nodes : k # n => pauser'[k] = pauser[k]
  BY DEF Placed, PauseTypes
<1>6. \A k \in Nodes : k # n => Stands(k)
  <2> TAKE k \in Nodes
  <2> HAVE k # n
  <2>1. Calls(k)' = Calls(k)
    BY <1>2, <1>3
  <2> QED BY <1>2, <1>5, <2>1, StandsWhenSame DEF Rests
<1>7. Stopping(n)'
  <2>1. Calls(n)' = 0
    BY <1>2, <1>3, <1>4 DEF Called
  <2>2. Reports(n)' = 0 /\ Resumes(n)' = 0
    BY <1>2, <1>4 DEF Called, One
  <2> QED BY <1>5, <2>1, <2>2 DEF Stopping
<1>8. PhasePause'
  BY <1>4, <1>6, <1>7, PauseGoesOn DEF Phases
<1>9. \A k \in Nodes : Drains(k)
  BY <1>2, DrainsWhenSame DEF SameDrain, Phases
<1>10. PhaseFlush'
  BY <1>9, FlushDrains DEF Phases
<1> QED BY <1>8, <1>9, <1>10 DEF Phases, Drains

(* A node receives the command to resume.                                  *)
LEMMA ResumePhases ==
  ASSUME Placed, Placed', Phases, NEW n \in Nodes, Removes(Root, n, ResumeAt(n)), Resumes(n) > 0,
         UNCHANGED <<queue, flush, pauser, manager>>,
         isPaused' = [isPaused EXCEPT ![n] = FALSE],
         \A k \in Nodes : k # n => running'[k] = running[k]
  PROVE  Phases' /\ pauser[n] = "none"
<1>1. Adds(n, <<>>)
  BY NothingAdded
<1>2. ASSUME NEW k \in Nodes, NEW j \in Nodes
      PROVE  /\ Resumes(k) = Resumes(k)' + IF k = n THEN 1 ELSE 0
             /\ Calls(k)' = Calls(k) /\ Reports(k)' = Reports(k)
             /\ Starts(k)' = Starts(k) /\ Begins(k)' = Begins(k) /\ Backs(k)' = Backs(k) /\ Ends(k)' = Ends(k)
             /\ Trip(j, k)' = Trip(j, k)
  BY <1>1, TakeResume
<1>3. \A k \in Nodes : Resumes(k) \in Nat /\ Resumes(k)' \in Nat
  BY NumbersType, NumbersTypeAfter
<1>4. isPaused[n] /\ Resumes(n) = 1 /\ (Free(n) \/ Called(n))
  BY WhereIs
<1>5. ~isPaused'[n] /\ \A k \in Nodes : k # n => isPaused'[k] = isPaused[k]
  BY DEF Placed, PauseTypes
<1>6. \A k \in Nodes : k # n => Stands(k)
  <2> TAKE k \in Nodes
  <2> HAVE k # n
  <2>1. Resumes(k)' = Resumes(k)
    BY <1>2, <1>3
  <2> QED BY <1>2, <1>5, <2>1, StandsWhenSame DEF Rests
<1>7. Stands(n)
  <2>1. Resumes(n)' = 0
    BY <1>2, <1>3, <1>4
  <2>2. Free(n) => Free(n)'
    BY <1>2, <1>5, <2>1 DEF Free, One
  <2>3. Called(n) => Called(n)'
    BY <1>2, <1>5, <2>1 DEF Called, One
  <2>4. ~Stopping(n) /\ ~Stopped(n) /\ ~Held(n)
    BY <1>4 DEF Stopping, Stopped, Held, Quiet
  <2> QED BY <2>2, <2>3, <2>4 DEF Stands
<1>8. PhasePause'
  BY <1>6, <1>7, PauseStands DEF Phases
<1>9. \A k \in Nodes : Drains(k)
  BY <1>2, DrainsWhenSame DEF SameDrain, Phases
<1>10. PhaseFlush'
  BY <1>9, FlushDrains DEF Phases
<1>11. pauser[n] = "none"
  BY <1>4 DEF Free, Called
<1> QED BY <1>8, <1>9, <1>10, <1>11 DEF Phases, Drains

(* Where the pause stands does not depend on the messages of the flush.    *)
LEMMA FlushPause ==
  ASSUME PhasePause, SamePause, UNCHANGED <<isPaused, pauser, running, manager>>
  PROVE  PhasePause'
<1>1. \A k \in Nodes : Stands(k)
  BY StandsWhenSame DEF Rests, SamePause
<1> QED BY <1>1, PauseStands

(* A node receives the command to start its flush.                         *)
LEMMA StartPhases ==
  ASSUME Placed, Placed', Phases, NEW n \in Nodes, Removes(Root, n, Start(n)), Adds(n, <<Begin>>),
         UNCHANGED <<flush, isPaused, pauser, running, manager>>
  PROVE  Phases'
<1>1. ASSUME NEW k \in Nodes, NEW j \in Nodes
      PROVE  /\ Starts(k) = Starts(k)' + IF k = n THEN 1 ELSE 0
             /\ Begins(k)' = Begins(k) + IF k = n THEN 1 ELSE 0
             /\ Calls(k)' = Calls(k) /\ Reports(k)' = Reports(k) /\ Resumes(k)' = Resumes(k)
             /\ Backs(k)' = Backs(k) /\ Ends(k)' = Ends(k) /\ Trip(j, k)' = Trip(j, k)
  BY TakeStart
<1>2. PhasePause'
  BY <1>1, FlushPause DEF Phases, SamePause
<1>3. ASSUME NEW k \in Nodes
      PROVE  Drains(k)
  <2>1. \A j \in Nodes : Trip(k, j)' = Trip(k, j)
    BY <1>1
  <2>2. Pending(k)' = Pending(k)
    BY <2>1 DEF Pending
  <2>3. Starts(k)' + Begins(k)' = Starts(k) + Begins(k)
    <3>1. Starts(k)' \in Nat /\ Begins(k) \in Nat
      BY NumbersType, NumbersTypeAfter
    <3> QED BY <1>1, <3>1
  <2>4. Backs(k)' = Backs(k) /\ Ends(k)' = Ends(k)
    BY <1>1
  <2>5. Stages(k)' = Stages(k)
    BY <2>3, <2>4 DEF Stages, One
  <2>6. Open(k)' <=> Open(k)
    BY <2>5 DEF Open
  <2>7. FlushInv(k)'
    BY <2>1, <2>2, <2>4, <2>5 DEF Phases, FlushInv
  <2> QED BY <2>6, <2>7 DEF Drains
<1>4. PhaseFlush'
  BY <1>3, FlushDrains DEF Phases
<1> QED BY <1>2, <1>3, <1>4 DEF Phases, Drains

(* A node receives the flush of m and answers.                             *)
LEMMA FlushPhases ==
  ASSUME Placed, Placed', Phases, NEW m \in Nodes, NEW n \in Nodes, Removes(m, n, Flush(n)), Adds(n, <<Reflush(m)>>),
         UNCHANGED <<flush, isPaused, pauser, running, manager>>
  PROVE  Phases'
<1>1. ASSUME NEW k \in Nodes, NEW j \in Nodes
      PROVE  /\ Calls(k)' = Calls(k) /\ Reports(k)' = Reports(k) /\ Resumes(k)' = Resumes(k)
             /\ Starts(k)' = Starts(k) /\ Begins(k)' = Begins(k) /\ Backs(k)' = Backs(k) /\ Ends(k)' = Ends(k)
             /\ Trip(j, k)' = Trip(j, k)
  BY TakeFlush
<1>2. Same
  BY <1>1 DEF Same, SamePause, SameFlush, SameTrips
<1> QED BY <1>2, PhasesSame

(* A node receives the answer of m.                                        *)
LEMMA ReflushPhases ==
  ASSUME Placed, Placed', Phases, NEW m \in Nodes, NEW n \in Nodes, Removes(m, n, Reflush(n)), Adds(n, <<Back>>),
         Trip(n, m) > 0, UNCHANGED <<flush, isPaused, pauser, running, manager>>
  PROVE  Phases'
<1>1. ASSUME NEW k \in Nodes, NEW j \in Nodes
      PROVE  /\ Trip(j, k) = Trip(j, k)' + IF j = n /\ k = m THEN 1 ELSE 0
             /\ Backs(k)' = Backs(k) + IF k = n THEN 1 ELSE 0
             /\ Calls(k)' = Calls(k) /\ Reports(k)' = Reports(k) /\ Resumes(k)' = Resumes(k)
             /\ Starts(k)' = Starts(k) /\ Begins(k)' = Begins(k) /\ Ends(k)' = Ends(k)
  BY TakeReflush
<1>2. PhasePause'
  BY <1>1, FlushPause DEF Phases, SamePause
<1>3. \A k, j \in Nodes : Trip(k, j) \in Nat /\ Trip(k, j)' \in Nat /\ Backs(k) \in Nat
  BY NumbersType, NumbersTypeAfter
<1>4. ASSUME NEW k \in Nodes, k # n
      PROVE  Drains(k)
  <2>1. \A j \in Nodes : Trip(k, j)' = Trip(k, j)
    BY <1>1, <1>3, <1>4
  <2>2. Backs(k)' = Backs(k)
    BY <1>1, <1>3, <1>4
  <2>3. SameDrain(k)
    BY <1>1, <2>1, <2>2 DEF SameDrain
  <2> QED BY <2>3, DrainsWhenSame DEF Phases
<1>5. Drains(n)
  <2>1. FlushInv(n)
    BY DEF Phases
  <2>2. m \in Pending(n) /\ flush[n].on /\ Trip(n, m) = 1
    BY <2>1, PendingForms DEF Pending
  <2>3. /\ Trip(n, m)' = 0
        /\ \A j \in Nodes : j # m => Trip(n, j)' = Trip(n, j)
    BY <1>1, <1>3, <2>2
  <2>4. Pending(n)' = Pending(n) \ {m}
    BY <2>3 DEF Pending
  <2>5. Cardinality(Pending(n))' = Cardinality(Pending(n)) - 1
    <3>1. IsFiniteSet(Pending(n))
      BY <2>1, PendingForms
    <3>2. Cardinality(Pending(n) \ {m}) = Cardinality(Pending(n)) - 1
      BY <2>2, <3>1, FS_RemoveElement
    <3> QED BY <2>4, <3>2
  <2>6. Backs(n)' = Backs(n) + 1 /\ Backs(n) \in Nat /\ Cardinality(Pending(n)) \in Nat
    BY <1>1, <1>3, <2>1, PendingForms
  <2>7. flush'[n].left = Cardinality(Pending(n))' + Backs(n)'
    <3>1. flush[n].left = Cardinality(Pending(n)) + Backs(n)
      BY <2>1, <2>2 DEF FlushInv
    <3> QED BY <2>5, <2>6, <3>1
  <2>8. Starts(n)' = Starts(n) /\ Begins(n)' = Begins(n) /\ Ends(n)' = Ends(n)
    BY <1>1
  <2>9. Stages(n)' = Stages(n)
    BY <2>8 DEF Stages, One
  <2>10. Open(n)' <=> Open(n)
    BY <2>9 DEF Open
  <2>11. \A j \in Nodes : Trip(n, j)' \in {0, 1}
    BY <2>1, <2>3 DEF FlushInv
  <2>12. FlushInv(n)'
    BY <2>1, <2>2, <2>7, <2>8, <2>9, <2>11 DEF FlushInv
  <2> QED BY <2>10, <2>12 DEF Drains
<1>6. \A k \in Nodes : Drains(k)
  BY <1>4, <1>5
<1>7. PhaseFlush'
  BY <1>6, FlushDrains DEF Phases
<1> QED BY <1>2, <1>6, <1>7 DEF Phases, Drains

(* The root receives the end of a flush.                                   *)
LEMMA FlushedPhases ==
  ASSUME Placed, Placed', Phases, NEW m \in Nodes, Removes(m, Root, Flushed), Ends(m) > 0,
         UNCHANGED <<queue, flush, isPaused, pauser, running>>,
         manager' = [manager EXCEPT !.left = @ - 1]
  PROVE  Phases'
<1>1. Root \in Nodes /\ Adds(Root, <<>>)
  BY SizeType, NothingAdded
<1>2. ASSUME NEW k \in Nodes, NEW j \in Nodes
      PROVE  /\ Ends(k) = Ends(k)' + IF k = m THEN 1 ELSE 0
             /\ Calls(k)' = Calls(k) /\ Reports(k)' = Reports(k) /\ Resumes(k)' = Resumes(k)
             /\ Starts(k)' = Starts(k) /\ Begins(k)' = Begins(k) /\ Backs(k)' = Backs(k)
             /\ Trip(j, k)' = Trip(j, k)
  BY <1>1, TakeFlushed
<1>3. \A k \in Nodes : Ends(k) \in Nat /\ Ends(k)' \in Nat
  BY NumbersType, NumbersTypeAfter
<1>4. FlushInv(m)
  BY DEF Phases
<1>5. Starts(m) = 0 /\ Begins(m) = 0 /\ ~flush[m].on /\ Ends(m) = 1 /\ Open(m) /\ ~flush[m].dirty
  BY <1>4, StagesForms DEF FlushInv
<1>6. manager.at = "flushing" /\ manager'.at = "flushing" /\ manager'.left = manager.left - 1
  BY <1>5, WhereIs DEF Placed, PauseTypes
<1>7. PhasePause'
  <2>1. \A k \in Nodes : Stands(k)
    BY <1>2, StandsWhenSame DEF Rests
  <2>2. \A k \in Nodes : Held(k)
    BY <1>6 DEF Phases, PhasePause
  <2>3. \A k \in Nodes : Held(k)'
    BY <2>1, <2>2 DEF Stands
  <2> QED BY <1>6, <2>3 DEF PhasePause
<1>8. ASSUME NEW k \in Nodes, k # m
      PROVE  Drains(k)
  <2>1. Ends(k)' = Ends(k)
    BY <1>2, <1>3, <1>8
  <2>2. SameDrain(k)
    BY <1>2, <2>1 DEF SameDrain
  <2> QED BY <2>2, DrainsWhenSame DEF Phases
<1>9. FlushInv(m)' /\ ~Open(m)'
  <2>1. Starts(m)' = 0 /\ Begins(m)' = 0 /\ Ends(m)' = 0 /\ Backs(m)' = Backs(m)
    BY <1>2, <1>3, <1>5
  <2>2. \A j \in Nodes : Trip(m, j)' = Trip(m, j)
    BY <1>2
  <2>3. Pending(m)' = Pending(m)
    BY <2>2 DEF Pending
  <2>4. Stages(m)' = 0
    BY <1>5, <2>1 DEF Stages, One
  <2>5. FlushInv(m)'
    BY <1>4, <1>5, <2>1, <2>2, <2>3, <2>4 DEF FlushInv
  <2>6. ~Open(m)'
    BY <1>5, <2>4 DEF Open
  <2> QED BY <2>5, <2>6
<1>10. Cardinality({k \in Nodes : Open(k)})' = Cardinality({k \in Nodes : Open(k)}) - 1
  <2> DEFINE O == {k \in Nodes : Open(k)}
  <2>1. m \in O /\ IsFiniteSet(O)
    BY <1>5, SizeType, FS_Subset
  <2>2. Cardinality(O \ {m}) = Cardinality(O) - 1
    BY <2>1, FS_RemoveElement
  <2>3. {k \in Nodes : Open(k)}' = O \ {m}
    BY <1>8, <1>9 DEF Drains
  <2> QED BY <2>2, <2>3
<1>11. PhaseFlush'
  BY <1>6, <1>10 DEF Phases, PhaseFlush
<1> QED BY <1>7, <1>8, <1>9, <1>11 DEF Phases, Drains

(* The manager tells all nodes.                                            *)
LEMMA AllLedger ==
  ASSUME Placed, Placed', NEW c \in FromRoot, PostAll(Root, c), UNCHANGED wire, NEW k \in Nodes, NEW j \in Nodes
  PROVE  /\ Calls(k)' = Calls(k) + IF c = "pause" THEN 1 ELSE 0
         /\ Resumes(k)' = Resumes(k) + IF c = "resume" THEN 1 ELSE 0
         /\ Starts(k)' = Starts(k) + IF c = "start_flush" THEN 1 ELSE 0
         /\ Reports(k)' = Reports(k) /\ Begins(k)' = Begins(k) /\ Backs(k)' = Backs(k) /\ Ends(k)' = Ends(k)
         /\ Trip(j, k)' = Trip(j, k)
<1> DEFINE s == SetToSeq(ToAll(c))
<1>1. Post(Root, s) /\ s \in Seq(Queued(Root)) /\ Root \in Nodes
  BY CommandForms, SizeType DEF PostAll
<1>2. \A x : Count(s, x) = IF x \in ToAll(c) THEN 1 ELSE 0
  BY ToAllForms
<1>3. /\ Pause(k) \in ToAll(c) <=> c = "pause"
      /\ ResumeAt(k) \in ToAll(c) <=> c = "resume"
      /\ Start(k) \in ToAll(c) <=> c = "start_flush"
      /\ Paused \notin ToAll(c) /\ Begin \notin ToAll(c) /\ Back \notin ToAll(c) /\ Reflush(j) \notin ToAll(c)
  BY DEF ToAll, FromRoot, Pause, ResumeAt, Start, Paused, Begin, Back, Reflush, Message, Loopback
<1> HIDE DEF s
<1>4. /\ Count(s, Pause(k)) = IF c = "pause" THEN 1 ELSE 0
      /\ Count(s, ResumeAt(k)) = IF c = "resume" THEN 1 ELSE 0
      /\ Count(s, Start(k)) = IF c = "start_flush" THEN 1 ELSE 0
      /\ Count(s, Paused) = 0 /\ Count(s, Begin) = 0 /\ Count(s, Back) = 0 /\ Count(s, Reflush(j)) = 0
  BY <1>2, <1>3
<1>5. /\ Calls(k)' = Calls(k) + IF Root = Root THEN Count(s, Pause(k)) ELSE 0
      /\ Resumes(k)' = Resumes(k) + IF Root = Root THEN Count(s, ResumeAt(k)) ELSE 0
      /\ Starts(k)' = Starts(k) + IF Root = Root THEN Count(s, Start(k)) ELSE 0
      /\ Reports(k)' = Reports(k) + IF Root = k THEN Count(s, Paused) ELSE 0
      /\ Begins(k)' = Begins(k) + IF Root = k THEN Count(s, Begin) ELSE 0
      /\ Backs(k)' = Backs(k) + IF Root = k THEN Count(s, Back) ELSE 0
      /\ Ends(k)' = Ends(k)
      /\ Trip(j, k)' = Trip(j, k) + IF Root = k THEN Count(s, Reflush(j)) ELSE 0
  BY <1>1, PostLedger
<1>6. Reports(k) \in Nat /\ Begins(k) \in Nat /\ Backs(k) \in Nat /\ Trip(j, k) \in Nat
  BY NumbersType
<1> QED BY <1>4, <1>5, <1>6

(* All nodes are called to pause.                                          *)
LEMMA StartPausePhases ==
  ASSUME Placed, Placed', Phases, StartPause
  PROVE  Phases'
<1>1. /\ manager.at = "idle" /\ manager' = [at |-> "pausing", left |-> Cardinality(Nodes)]
      /\ PostAll(Root, "pause") /\ UNCHANGED <<wire, flush, isPaused, pauser, running>> /\ "pause" \in FromRoot
  BY DEF StartPause, work, FromRoot
<1>2. ASSUME NEW k \in Nodes, NEW j \in Nodes
      PROVE  /\ Calls(k)' = Calls(k) + 1 /\ Resumes(k)' = Resumes(k) + 0 /\ Starts(k)' = Starts(k) + 0
             /\ Reports(k)' = Reports(k) /\ Begins(k)' = Begins(k) /\ Backs(k)' = Backs(k) /\ Ends(k)' = Ends(k)
             /\ Trip(j, k)' = Trip(j, k)
  BY <1>1, AllLedger
<1>3. \A k \in Nodes : Calls(k) \in Nat /\ Resumes(k) \in Nat /\ Starts(k) \in Nat
  BY NumbersType
<1>4. \A k \in Nodes : Called(k)'
  <2> TAKE k \in Nodes
  <2>1. Free(k)
    BY <1>1 DEF Phases, PhasePause
  <2>2. Calls(k)' = 1 /\ Resumes(k)' = Resumes(k) /\ Reports(k)' = Reports(k)
    BY <1>2, <1>3, <2>1 DEF Free
  <2> QED BY <1>1, <2>1, <2>2 DEF Free, Called, One
<1>5. {k \in Nodes : ~Held(k)}' = Nodes
  BY <1>4, NotHeld
<1>6. PhasePause'
  BY <1>1, <1>4, <1>5 DEF PhasePause
<1>7. \A k \in Nodes : Drains(k)
  <2> TAKE k \in Nodes
  <2>1. Starts(k)' = Starts(k)
    BY <1>2, <1>3
  <2>2. SameDrain(k)
    BY <1>2, <2>1 DEF SameDrain
  <2> QED BY <1>1, <2>2, DrainsWhenSame DEF Phases
<1>8. PhaseFlush'
  BY <1>1, <1>7 DEF Phases, PhaseFlush, Drains
<1> QED BY <1>6, <1>7, <1>8 DEF Phases, Drains

(* All nodes are told to flush: all are held, and no flush is open.        *)
LEMMA StartFlushPhases ==
  ASSUME Placed, Placed', Phases, StartFlush
  PROVE  Phases'
<1>1. /\ manager = [at |-> "pausing", left |-> 0] /\ manager' = [at |-> "flushing", left |-> Cardinality(Nodes)]
      /\ PostAll(Root, "start_flush") /\ UNCHANGED <<wire, flush, isPaused, pauser, running>>
      /\ "start_flush" \in FromRoot
  BY DEF StartFlush, work, FromRoot
<1>2. ASSUME NEW k \in Nodes, NEW j \in Nodes
      PROVE  /\ Calls(k)' = Calls(k) + 0 /\ Resumes(k)' = Resumes(k) + 0 /\ Starts(k)' = Starts(k) + 1
             /\ Reports(k)' = Reports(k) /\ Begins(k)' = Begins(k) /\ Backs(k)' = Backs(k) /\ Ends(k)' = Ends(k)
             /\ Trip(j, k)' = Trip(j, k)
  BY <1>1, AllLedger
<1>3. \A k \in Nodes : Calls(k) \in Nat /\ Resumes(k) \in Nat /\ Starts(k) \in Nat
  BY NumbersType
<1>4. \A k \in Nodes : Stands(k)
  <2> TAKE k \in Nodes
  <2>1. Calls(k)' = Calls(k) /\ Resumes(k)' = Resumes(k) /\ Reports(k)' = Reports(k)
    BY <1>2, <1>3
  <2> QED BY <1>1, <2>1, StandsWhenSame DEF Rests
<1>5. \A k \in Nodes : Held(k)
  <2> DEFINE H == {k \in Nodes : ~Held(k)}
  <2>1. Cardinality(H) = 0
    BY <1>1 DEF Phases, PhasePause
  <2>2. IsFiniteSet(H)
    BY SizeType, FS_Subset
  <2>3. H = {}
    BY <2>1, <2>2, FS_EmptySet
  <2> QED BY <2>3
<1>6. PhasePause'
  BY <1>1, <1>4, <1>5 DEF PhasePause, Stands
<1>7. ASSUME NEW k \in Nodes
      PROVE  FlushInv(k)' /\ Open(k)'
  <2>1. ~Open(k) /\ FlushInv(k)
    BY <1>1 DEF Phases, PhaseFlush
  <2>2. Starts(k) = 0 /\ Begins(k) = 0 /\ ~flush[k].on /\ Ends(k) = 0 /\ ~flush[k].dirty
    BY <2>1, StagesForms
  <2>3. Starts(k)' = 1 /\ Begins(k)' = 0 /\ Ends(k)' = 0 /\ Backs(k)' = Backs(k)
    BY <1>2, <2>2
  <2>4. \A j \in Nodes : Trip(k, j)' = Trip(k, j)
    BY <1>2
  <2>5. Pending(k)' = Pending(k)
    BY <2>4 DEF Pending
  <2>6. Stages(k)' = 1
    BY <1>1, <2>2, <2>3 DEF Stages, One
  <2>7. FlushInv(k)'
    BY <1>1, <2>1, <2>2, <2>3, <2>4, <2>5, <2>6 DEF FlushInv
  <2> QED BY <2>6, <2>7 DEF Open
<1>8. {k \in Nodes : Open(k)}' = Nodes
  BY <1>7
<1>9. PhaseFlush'
  BY <1>1, <1>8 DEF PhaseFlush
<1> QED BY <1>6, <1>7, <1>9 DEF Phases

(* The flush is over: no flush is open.                                    *)
LEMMA EndFlushPhases ==
  ASSUME Placed, Phases, EndFlush
  PROVE  Phases'
<1>1. /\ manager = [at |-> "flushing", left |-> 0] /\ manager'.at = "flushed"
      /\ UNCHANGED <<queue, wire, flush, isPaused, pauser, running>>
  BY DEF EndFlush, work
<1>2. Same
  BY <1>1, SameWhenStill
<1>3. \A k \in Nodes : Held(k)
  BY <1>1 DEF Phases, PhasePause
<1>4. \A k \in Nodes : Held(k)'
  BY <1>1, <1>2, <1>3, StandsWhenSame DEF Rests, Stands, Same, SamePause
<1>5. \A k \in Nodes : ~Open(k)
  <2> DEFINE O == {k \in Nodes : Open(k)}
  <2>1. Cardinality(O) = 0
    BY <1>1 DEF Phases, PhaseFlush
  <2>2. IsFiniteSet(O)
    BY SizeType, FS_Subset
  <2>3. O = {}
    BY <2>1, <2>2, FS_EmptySet
  <2> QED BY <2>3
<1>6. \A k \in Nodes : Drains(k)
  BY <1>1, <1>2, DrainsWhenSame DEF Same, SameFlush, SameTrips, SameDrain, Phases
<1> QED BY <1>1, <1>4, <1>5, <1>6 DEF Phases, PhasePause, PhaseFlush, Drains

(* All nodes are told to resume.                                           *)
LEMMA StartResumePhases ==
  ASSUME Placed, Placed', Phases, StartResume
  PROVE  Phases'
<1>1. /\ manager.at = "flushed" /\ manager'.at = "idle"
      /\ PostAll(Root, "resume") /\ UNCHANGED <<wire, flush, isPaused, pauser, running>> /\ "resume" \in FromRoot
  BY DEF StartResume, work, FromRoot, Placed, PauseTypes
<1>2. ASSUME NEW k \in Nodes, NEW j \in Nodes
      PROVE  /\ Calls(k)' = Calls(k) + 0 /\ Resumes(k)' = Resumes(k) + 1 /\ Starts(k)' = Starts(k) + 0
             /\ Reports(k)' = Reports(k) /\ Begins(k)' = Begins(k) /\ Backs(k)' = Backs(k) /\ Ends(k)' = Ends(k)
             /\ Trip(j, k)' = Trip(j, k)
  BY <1>1, AllLedger
<1>3. \A k \in Nodes : Calls(k) \in Nat /\ Resumes(k) \in Nat /\ Starts(k) \in Nat
  BY NumbersType
<1>4. \A k \in Nodes : Free(k)'
  <2> TAKE k \in Nodes
  <2>1. Held(k)
    BY <1>1 DEF Phases, PhasePause
  <2>2. Calls(k)' = 0 /\ Resumes(k)' = 1 /\ Reports(k)' = 0
    BY <1>2, <1>3, <2>1 DEF Held, Quiet
  <2> QED BY <1>1, <2>1, <2>2 DEF Free, Held, Quiet, One
<1>5. PhasePause'
  BY <1>1, <1>4 DEF PhasePause
<1>6. \A k \in Nodes : Drains(k)
  <2> TAKE k \in Nodes
  <2>1. Starts(k)' = Starts(k)
    BY <1>2, <1>3
  <2>2. SameDrain(k)
    BY <1>2, <2>1 DEF SameDrain
  <2> QED BY <1>1, <2>2, DrainsWhenSame DEF Phases
<1>7. PhaseFlush'
  BY <1>1, <1>6 DEF Phases, PhaseFlush, Drains
<1> QED BY <1>5, <1>6, <1>7 DEF Phases, Drains

-----------------------------------------------------------------------------
(***************************************************************************)
(* The order of messages on their way.                                     *)
(***************************************************************************)
(* The head of the queue q, or what stands for it, goes to the wire w.     *)
LEMMA OrderMoves ==
  ASSUME NEW S, NEW q \in Seq(S), NEW w \in Seq(S), NEW t \in Seq(S), q # <<>>, NEW A, NEW B, Ordered(q, w, A, B),
         Head(q) \notin A => NoneOf(t, A), Head(q) \notin B => NoneOf(t, B), NoneBehind(t, A, B)
  PROVE  Ordered(Tail(q), w \o t, A, B)
<1>1. NoneBehind(Tail(q), A, B)
  BY NoneTail DEF Ordered
<1>2. NoneOf(w, A) \/ NoneOf(t, B)
  <2>1. CASE NoneOf(w, A)
    BY <2>1
  <2>2. CASE NoneOf(q, B)
    <3>1. Head(q) \notin B
      BY <2>2, NoneTail
    <3> QED BY <3>1
  <2> QED BY <2>1, <2>2 DEF Ordered
<1>3. NoneBehind(w \o t, A, B)
  BY <1>2, NoneConcat DEF Ordered
<1>4. NoneOf(w \o t, A) \/ NoneOf(Tail(q), B)
  <2>1. CASE Head(q) \in A
    BY <2>1, NoneTail DEF Ordered
  <2>2. CASE Head(q) \notin A /\ NoneOf(w, A)
    BY <2>2, NoneConcat
  <2>3. CASE NoneOf(q, B)
    BY <2>3, NoneTail
  <2> QED BY <2>1, <2>2, <2>3 DEF Ordered
<1> QED BY <1>1, <1>3, <1>4 DEF Ordered

(* The head of the wire is received.                                       *)
LEMMA OrderTakes ==
  ASSUME NEW S, NEW q, NEW w \in Seq(S), w # <<>>, NEW A, NEW B, Ordered(q, w, A, B)
  PROVE  /\ Ordered(q, Tail(w), A, B)
         /\ Head(w) \in A => NoneOf(Tail(w), B) /\ NoneOf(q, B)
<1>1. NoneBehind(Tail(w), A, B) /\ (NoneOf(w, A) => NoneOf(Tail(w), A) /\ Head(w) \notin A)
  BY NoneTail DEF Ordered
<1>2. Head(w) \in A => NoneOf(Tail(w), B)
  BY NoneTail DEF Ordered
<1> QED BY <1>1, <1>2 DEF Ordered

(* Messages are appended to the queue: none of B, or there is none of A.   *)
LEMMA OrderAdds ==
  ASSUME NEW S, NEW q \in Seq(S), NEW w \in Seq(S), NEW t \in Seq(S), NEW A, NEW B, Ordered(q, w, A, B),
         NoneOf(t, B) \/ (NoneOf(q, A) /\ NoneOf(w, A) /\ NoneOf(t, A))
  PROVE  Ordered(q \o t, w, A, B)
<1>1. NoneBehind(t, A, B)
  BY NoneOver
<1>2. NoneBehind(q \o t, A, B)
  BY <1>1, NoneConcat DEF Ordered
<1>3. NoneOf(w, A) \/ NoneOf(q \o t, B)
  BY NoneConcat DEF Ordered
<1> QED BY <1>2, <1>3 DEF Ordered

(* The sequences are sequences of messages.                                *)
LEMMA Sequences ==
  ASSUME Placed, NEW m \in Nodes, NEW n \in Nodes
  PROVE  queue[m] \in Seq(Msgs) /\ wire[m][n] \in Seq(Msgs)
<1>1. queue \in [Nodes -> Seq(Msgs)] /\ wire \in [Nodes -> [Nodes -> Seq(Msgs)]]
  BY DEF Placed, Inv, BarInv, QueueType, WireType
<1> QED BY <1>1

(* The runner keeps the order of what it passes on.                        *)
LEMMA RunnerOrder ==
  ASSUME Placed, NEW n \in Nodes, Runner(n), NEW m \in Nodes, NEW k \in Nodes, NEW A, NEW B, InOrder(m, k, A, B),
         \A x \in Outcome(n) : x.to = k => (x \in A => Head(queue[n]) \in A) /\ (x \in B => Head(queue[n]) \in B)
  PROVE  InOrder(m, k, A, B)'
<1>1. /\ queue[n] # <<>>
      /\ \A i \in Nodes : queue'[i] = IF i = n THEN Tail(queue[n]) ELSE queue[i]
      /\ \A i, j \in Nodes : wire'[i][j] = IF i = n THEN wire[n][j] \o For(j, Outcome(n)) ELSE wire[i][j]
      /\ For(k, Outcome(n)) \in Seq(Wired(n, k))
  BY RunnerForms DEF Placed, Inv, BarInv
<1>2. CASE m # n
  <2>1. queue'[m] = queue[m] /\ wire'[m][k] = wire[m][k]
    BY <1>1, <1>2
  <2> QED BY <2>1 DEF InOrder
<1>3. CASE m = n
  <2> DEFINE t == For(k, Outcome(n))
  <2>1. t = <<>> \/ \E x \in Outcome(n) : x.to = k /\ t = <<x>>
    BY DEF For
  <2>2. /\ NoneBehind(t, A, B)
        /\ Head(queue[n]) \notin A => NoneOf(t, A)
        /\ Head(queue[n]) \notin B => NoneOf(t, B)
    <3>1. CASE t = <<>>
      BY <3>1, NoneEmpty
    <3>2. ASSUME NEW x \in Outcome(n), x.to = k, t = <<x>>
          PROVE  /\ NoneBehind(t, A, B)
                 /\ Head(queue[n]) \notin A => NoneOf(t, A)
                 /\ Head(queue[n]) \notin B => NoneOf(t, B)
      <4>1. (x \in A => Head(queue[n]) \in A) /\ (x \in B => Head(queue[n]) \in B)
        BY <3>2
      <4>2. NoneBehind(t, A, B) /\ (NoneOf(t, A) <=> x \notin A) /\ (NoneOf(t, B) <=> x \notin B)
        BY <3>2, NoneSingle
      <4> QED BY <4>1, <4>2
    <3> QED BY <2>1, <3>1, <3>2
  <2>3. queue[n] \in Seq(Msgs) /\ wire[n][k] \in Seq(Msgs) /\ Ordered(queue[n], wire[n][k], A, B)
    BY <1>3, Sequences DEF InOrder
  <2>4. t \in Seq(Msgs)
    BY <1>1, Larger DEF Wired
  <2> HIDE DEF t
  <2>5. Ordered(Tail(queue[n]), wire[n][k] \o t, A, B)
    BY <1>1, <2>2, <2>3, <2>4, OrderMoves
  <2>6. queue'[m] = Tail(queue[n]) /\ wire'[m][k] = wire[n][k] \o t
    BY <1>1, <1>3 DEF t
  <2> QED BY <2>5, <2>6 DEF InOrder
<1> QED BY <1>2, <1>3

(* A step receives one message, or none.                                   *)
Takes == \/ UNCHANGED wire
         \/ \E m \in Nodes, n \in Nodes : wire[m][n] # <<>> /\ wire' = [wire EXCEPT ![m][n] = Tail(@)]

(* One wire at most loses its head.                                        *)
LEMMA TakesForms ==
  ASSUME Placed, Takes, NEW m \in Nodes, NEW n \in Nodes
  PROVE  wire'[m][n] = wire[m][n] \/ (wire[m][n] # <<>> /\ wire'[m][n] = Tail(wire[m][n]))
<1>1. CASE UNCHANGED wire
  BY <1>1
<1>2. CASE \E j \in Nodes, k \in Nodes : wire[j][k] # <<>> /\ wire' = [wire EXCEPT ![j][k] = Tail(@)]
  <2>1. wire \in [Nodes -> [Nodes -> Seq(Msgs)]]
    BY DEF Placed, Inv, BarInv, WireType
  <2> QED BY <1>2, <2>1
<1> QED BY <1>1, <1>2 DEF Takes

(* Who posts none of B keeps B in order, and so does who finds no A.       *)
LEMMA PostOrder ==
  ASSUME Placed, Takes, NEW n \in Nodes, NEW msgs \in Seq(Queued(n)), Post(n, msgs), NEW m \in Nodes, NEW k \in Nodes,
         NEW A, NEW B, InOrder(m, k, A, B),
         NoneOf(msgs, B) \/ (m = n => Clear(m, k, A) /\ NoneOf(msgs, A))
  PROVE  InOrder(m, k, A, B)'
<1>1. \A i \in Nodes : queue'[i] = IF i = n THEN queue[n] \o msgs ELSE queue[i]
  BY PostPlaces DEF Placed, Inv, BarInv
<1>2. wire'[m][k] = wire[m][k] \/ (wire[m][k] # <<>> /\ wire'[m][k] = Tail(wire[m][k]))
  BY TakesForms
<1>3. queue[m] \in Seq(Msgs) /\ wire[m][k] \in Seq(Msgs) /\ Ordered(queue[m], wire[m][k], A, B)
  BY Sequences DEF InOrder
<1>4. msgs \in Seq(Msgs)
  BY QueuedForms, Larger
<1>5. Ordered(queue[m], wire'[m][k], A, B) /\ wire'[m][k] \in Seq(Msgs)
        /\ (NoneOf(wire[m][k], A) => NoneOf(wire'[m][k], A))
  <2>1. CASE wire'[m][k] = wire[m][k]
    BY <1>3, <2>1
  <2>2. CASE wire[m][k] # <<>> /\ wire'[m][k] = Tail(wire[m][k])
    <3> DEFINE w == wire[m][k]
               q == queue[m]
    <3>1. w # <<>> /\ w \in Seq(Msgs) /\ Ordered(q, w, A, B)
      BY <1>3, <2>2
    <3> HIDE DEF w, q
    <3>2. Ordered(q, Tail(w), A, B)
      BY <3>1, OrderTakes
    <3>3. Tail(w) \in Seq(Msgs) /\ (NoneOf(w, A) => NoneOf(Tail(w), A))
      BY <3>1, NoneTail, TailType
    <3> QED BY <2>2, <3>2, <3>3 DEF w, q
  <2> QED BY <1>2, <2>1, <2>2
<1>6. CASE m = n
  <2>1. Ordered(queue[m] \o msgs, wire'[m][k], A, B)
    BY <1>3, <1>4, <1>5, <1>6, OrderAdds DEF Clear
  <2> QED BY <1>1, <1>6, <2>1 DEF InOrder
<1>7. CASE m # n
  BY <1>1, <1>5, <1>7 DEF InOrder
<1> QED BY <1>6, <1>7

(* What a step posts: work, by a node that is at work; the commands of the *)
(* barrier, the pause and the flush; or the command to resume.             *)
Others   == Controls \ {"resume", "shutdown"}
Sends(C) == \E n \in Nodes : \E msgs \in Seq({x \in Queued(n) : x.cmd \in C}) : Post(n, msgs)
Awake(n) == \/ running[n] # {}
            \/ \E m \in Nodes : receiver[m][n].at \in {"handle", "resume"}
            \/ ~isPaused[n] \/ "outside" \in overlaps'

(* Posting nothing is among them.                                         *)
LEMMA SendsNothing ==
  ASSUME Placed, NEW C, UNCHANGED queue
  PROVE  Sends(C)
<1>1. \A n \in Nodes : Post(n, <<>>) /\ <<>> \in Seq({x \in Queued(n) : x.cmd \in C})
  BY PostNothing DEF Placed, Inv, BarInv
<1>2. Root \in Nodes
  BY SizeType
<1> QED BY <1>1, <1>2 DEF Sends

(* So is posting one command.                                              *)
LEMMA SendsOne ==
  ASSUME NEW C, NEW n \in Nodes, NEW x \in Queued(n), x.cmd \in C, Post(n, <<x>>)
  PROVE  Sends(C)
<1>1. <<x>> \in Seq({y \in Queued(n) : y.cmd \in C})
  OBVIOUS
<1> QED BY <1>1 DEF Sends

(* A receiver handles messages of the kind it may have been given.         *)
LEMMA HandlesMessage ==
  ASSUME NodeType, NEW m \in Nodes, NEW n \in Nodes, Handle(m, n) \/ (Resume(m, n) /\ More(n, receiver[m][n].next))
  PROVE  \E x \in Handled : HandleMessage(n, x)
<1>1. receiver[m][n] \in Receiving /\ messages[n] \in Seq(Handled)
  BY DEF NodeType
<1>2. CASE Handle(m, n)
  BY <1>1, <1>2, ReceivingForms DEF Handle
<1>3. CASE Resume(m, n) /\ More(n, receiver[m][n].next)
  <2>1. receiver[m][n].next \in Nat \ {0}
    BY <1>1, <1>3, ReceivingForms DEF Resume
  <2>2. messages[n][receiver[m][n].next] \in Handled
    BY <1>1, <1>3, <2>1 DEF More
  <2> QED BY <1>3, <2>2 DEF Resume
<1> QED BY <1>2, <1>3

(* What a step does to the queues.                                         *)
LEMMA StepKinds ==
  ASSUME Placed, [Next]_vars
  PROVE  \/ \E n \in Nodes : Runner(n)
         \/ Takes /\ \E n \in Nodes : Spread(n) /\ Awake(n)
         \/ Takes /\ Sends(Others)
         \/ StartResume /\ Takes
<1>1. QueueType /\ NodeType /\ Root \in Nodes
  BY SizeType DEF Placed, Inv, BarInv
<1>2. ASSUME UNCHANGED wire, UNCHANGED queue
      PROVE  Takes /\ Sends(Others)
  BY <1>2, SendsNothing DEF Takes
<1>3. CASE \E n \in Nodes : Pool(n)
  <2>1. PICK n \in Nodes : Pool(n)
    BY <1>3
  <2>2. CASE RunTask(n)
    <3>1. UNCHANGED wire
      BY <2>2 DEF RunTask
    <3> QED BY <1>1, <2>2, <3>1, TaskSpreads DEF Takes, Awake
  <2>3. CASE SetPaused(n)
    BY <1>2, <2>3 DEF SetPaused
  <2>4. CASE ReportPaused(n)
    <3>1. Post(n, <<Paused>>) /\ UNCHANGED wire
      BY <2>4 DEF ReportPaused, Paused
    <3>2. Paused \in Queued(n) /\ Paused.cmd \in Others
      BY QueuedForms, SignalForms DEF Others, Controls
    <3> QED BY <3>1, <3>2, SendsOne DEF Takes
  <2> QED BY <2>1, <2>2, <2>3, <2>4 DEF Pool
<1>4. CASE \E n \in Nodes : MainThread(n)
  <2>1. PICK n \in Nodes : MainThread(n)
    BY <1>4
  <2>2. CASE EnterBarrier(n)
    <3>1. ToBarrier \in Queued(n) /\ ToBarrier.cmd \in Others
      BY MessageForms DEF Queued, ToBarrier, Message, FromRoot, ToRoot, Others, Controls
    <3>2. Post(n, <<ToBarrier>>) /\ UNCHANGED wire
      BY <2>2 DEF EnterBarrier, ToBarrier
    <3> QED BY <3>1, <3>2, SendsOne DEF Takes
  <2>3. CASE Launch(n)
    <3>1. UNCHANGED wire /\ (~isPaused[n] \/ "outside" \in overlaps')
      BY <2>3 DEF Launch
    <3> QED BY <2>3, <3>1, LaunchSpreads DEF Takes, Awake
  <2>4. CASE LeaveBarrier(n) \/ StartWorker(n) \/ Stop(n)
    BY <1>2, <2>4 DEF LeaveBarrier, StartWorker, Stop
  <2> QED BY <2>1, <2>2, <2>3, <2>4 DEF MainThread
<1>5. CASE \E m, n \in Nodes : ReceiveBarrier(m, n)
  <2>1. PICK m \in Nodes, n \in Nodes : ReceiveBarrier(m, n)
    BY <1>5
  <2>2. Takes
    BY <2>1 DEF ReceiveBarrier, Takes
  <2>3. CASE UNCHANGED queue
    BY <2>2, <2>3, SendsNothing
  <2>4. CASE Post(n, Round(arrived + 1))
    <3>1. {x \in Msgs : x.cmd \in Barriers} \subseteq {x \in Queued(n) : x.cmd \in Others}
      BY QueuedForms DEF Neutral, Barriers, Others, Controls
    <3>2. Round(arrived + 1) \in Seq({x \in Queued(n) : x.cmd \in Others})
      BY <3>1, RoundForms, Larger
    <3> QED BY <2>2, <2>4, <3>2 DEF Sends
  <2> QED BY <2>1, <2>3, <2>4 DEF ReceiveBarrier, ReceiveAlways
<1>6. CASE \E m, n \in Nodes : ReceivePaused(m, n)
  <2>1. PICK m \in Nodes, n \in Nodes : ReceivePaused(m, n)
    BY <1>6
  <2>2. Takes /\ Post(n, Answer(m, Head(wire[m][n])))
    BY <2>1 DEF ReceivePaused, Takes
  <2>3. /\ Begin \in Queued(n) /\ Begin.cmd \in Others /\ Back \in Queued(n) /\ Back.cmd \in Others
        /\ Reflush(m) \in Queued(n) /\ Reflush(m).cmd \in Others
    BY QueuedForms, SignalForms DEF Others, Controls
  <2>4. Answer(m, Head(wire[m][n])) \in {<<Begin>>, <<Reflush(m)>>, <<Back>>, <<>>}
    BY DEF Answer, Begin, Back, Reflush
  <2>5. CASE Answer(m, Head(wire[m][n])) = <<>>
    <3>1. <<>> \in Seq({x \in Queued(n) : x.cmd \in Others})
      OBVIOUS
    <3> QED BY <2>2, <2>5, <3>1 DEF Sends
  <2> QED BY <2>2, <2>3, <2>4, <2>5, SendsOne
<1>7. CASE \E m, n \in Nodes : ReceiveRunning(m, n)
  <2>1. Takes /\ UNCHANGED queue
    BY <1>7 DEF ReceiveRunning, Takes
  <2> QED BY <2>1, SendsNothing
<1>8. CASE \E m, n \in Nodes : Handle(m, n) \/ Park(m, n) \/ Resume(m, n) \/ ClearPaused(m, n)
  <2>1. PICK m \in Nodes, n \in Nodes : Handle(m, n) \/ Park(m, n) \/ Resume(m, n) \/ ClearPaused(m, n)
    BY <1>8
  <2>2. UNCHANGED wire
    BY <2>1 DEF Handle, Park, Resume, ClearPaused
  <2>3. CASE UNCHANGED queue
    BY <1>2, <2>2, <2>3
  <2>4. CASE Handle(m, n) \/ (Resume(m, n) /\ More(n, receiver[m][n].next))
    <3>1. \E x \in Handled : HandleMessage(n, x)
      BY <1>1, <2>4, HandlesMessage
    <3>2. receiver[m][n].at \in {"handle", "resume"}
      BY <2>4 DEF Handle, Resume
    <3> QED BY <1>1, <2>2, <3>1, <3>2, HandlerSpreads DEF Takes, Awake
  <2> QED BY <2>1, <2>3, <2>4 DEF Park, Resume, ClearPaused
<1>9. CASE Manager
  <2>1. UNCHANGED wire
    BY <1>9 DEF Manager, StartPause, StartFlush, EndFlush, StartResume
  <2>2. CASE UNCHANGED queue
    BY <1>2, <2>1, <2>2
  <2>3. ASSUME NEW c \in {"pause", "start_flush"}, PostAll(Root, c)
        PROVE  Takes /\ Sends(Others)
    <3>1. c \in FromRoot /\ c \in Others
      BY DEF FromRoot, Others, Controls
    <3>2. ToAll(c) \subseteq {x \in Queued(Root) : x.cmd \in Others}
      <4>1. \A k \in Nodes : Message(c, k) \in Queued(Root)
        BY <1>1, QueuedForms DEF Pause, Start
      <4>2. \A k \in Nodes : Message(c, k).cmd = c
        BY DEF Message
      <4> QED BY <3>1, <4>1, <4>2 DEF ToAll
    <3>3. SetToSeq(ToAll(c)) \in Seq({x \in Queued(Root) : x.cmd \in Others})
      BY <3>2, ToAllForms, Larger
    <3> QED BY <1>1, <2>1, <2>3, <3>3 DEF Takes, Sends, PostAll
  <2> QED BY <1>9, <2>1, <2>2, <2>3 DEF Manager, StartPause, StartFlush, EndFlush, StartResume, Takes
<1>10. CASE UNCHANGED vars
  BY <1>2, <1>10 DEF vars
<1> QED BY <1>3, <1>4, <1>5, <1>6, <1>7, <1>8, <1>9, <1>10 DEF Next, Receiver, Terminated

(* No call to pause is in front of a command to resume.                    *)
LEMMA OrderStep ==
  ASSUME Placed, Phases, OrderInv, [Next]_vars
  PROVE  OrderInv'
<1> SUFFICES ASSUME NEW k \in Nodes
             PROVE  InOrder(Root, k, {Pause(k)}, {ResumeAt(k)})'
  BY DEF OrderInv
<1>1. InOrder(Root, k, {Pause(k)}, {ResumeAt(k)}) /\ Root \in Nodes
  BY SizeType DEF OrderInv
<1>2. CASE \E n \in Nodes : Runner(n)
  <2>1. PICK n \in Nodes : Runner(n)
    BY <1>2
  <2>2. \A x \in Outcome(n) : /\ x \in {Pause(k)} => Head(queue[n]) \in {Pause(k)}
                              /\ x \in {ResumeAt(k)} => Head(queue[n]) \in {ResumeAt(k)}
    BY <2>1, OutcomeHas
  <2> QED BY <1>1, <2>1, <2>2, RunnerOrder
<1>3. CASE Takes /\ \E n \in Nodes : Spread(n)
  <2>1. PICK n \in Nodes, msgs \in Seq(Works) : Post(n, msgs)
    BY <1>3 DEF Spread
  <2>2. msgs \in Seq(Queued(n))
    BY QueuedForms, Larger
  <2>3. NoneOf(msgs, {ResumeAt(k)})
    <3>1. ResumeAt(k) \notin Works
      BY SignalForms DEF Works, Work
    <3> QED BY <3>1, NoneOver
  <2> QED BY <1>1, <1>3, <2>1, <2>2, <2>3, PostOrder
<1>4. CASE Takes /\ Sends(Others)
  <2>0. PICK n \in Nodes : \E msgs \in Seq({x \in Queued(n) : x.cmd \in Others}) : Post(n, msgs)
    BY <1>4 DEF Sends
  <2>1. PICK msgs \in Seq({x \in Queued(n) : x.cmd \in Others}) : Post(n, msgs)
    BY <2>0
  <2>2. msgs \in Seq(Queued(n))
    BY <2>1, Larger
  <2>3. NoneOf(msgs, {ResumeAt(k)})
    <3>1. ResumeAt(k) \notin {x \in Queued(n) : x.cmd \in Others}
      BY SignalForms DEF Others
    <3> QED BY <3>1, NoneOver
  <2> QED BY <1>1, <1>4, <2>1, <2>2, <2>3, PostOrder
<1>5. CASE StartResume /\ Takes
  <2> DEFINE s == SetToSeq(ToAll("resume"))
  <2>1. Post(Root, s) /\ s \in Seq(Queued(Root))
    BY <1>5, CommandForms DEF StartResume, PostAll, FromRoot
  <2>2. Held(k)
    BY <1>5 DEF StartResume, Phases, PhasePause
  <2>3. Count(queue[Root], Pause(k)) = 0 /\ Count(wire[Root][k], Pause(k)) = 0
    <3>1. Count(queue[Root], Pause(k)) + Count(wire[Root][k], Pause(k)) = 0
      BY <2>2, Numbers DEF Held, Quiet
    <3>2. Count(queue[Root], Pause(k)) \in Nat /\ Count(wire[Root][k], Pause(k)) \in Nat
      BY <1>1, NumbersType
    <3> QED BY <3>1, <3>2
  <2>4. Clear(Root, k, {Pause(k)})
    BY <1>1, <2>3, Sequences, NoneCounted DEF Clear
  <2>5. NoneOf(s, {Pause(k)})
    <3>1. Pause(k) \notin ToAll("resume") /\ s \in Seq(ToAll("resume"))
      BY ToAllForms DEF ToAll, Pause, Message
    <3> QED BY <3>1, NoneOver
  <2> HIDE DEF s
  <2> QED BY <1>1, <1>5, <2>1, <2>4, <2>5, PostOrder
<1> QED BY <1>2, <1>3, <1>4, <1>5, StepKinds

-----------------------------------------------------------------------------
(***************************************************************************)
(* Every step keeps the phases.                                            *)
(***************************************************************************)
(* Spreading work changes none of the numbers.                             *)
LEMMA SpreadSame ==
  ASSUME Placed, NEW n \in Nodes, Spread(n), UNCHANGED wire
  PROVE  Same
<1>1. PICK msgs \in Seq(Works) : Post(n, msgs)
  BY DEF Spread
<1>2. msgs \in Seq(Neutral)
  BY QueuedForms, Larger
<1> QED BY <1>1, <1>2, PostSame

(* The tasks and the main thread.                                          *)
LEMMA PoolPhases ==
  ASSUME Placed, Placed', Phases, NEW n \in Nodes, Pool(n) \/ MainThread(n)
  PROVE  Phases'
<1>1. NodeType
  BY DEF Placed, Inv
<1>2. CASE RunTask(n)
  <2>1. UNCHANGED <<wire, manager, flush, isPaused, pauser>>
    BY <1>2 DEF RunTask, control
  <2>2. Spread(n) /\ \A k \in Nodes : running'[k] \subseteq running[k]
    BY <1>1, <1>2, TaskSpreads
  <2> QED BY <2>1, <2>2, SpreadSame, PhasesSame
<1>3. CASE SetPaused(n)
  BY <1>3, SetPausedPhases
<1>4. CASE ReportPaused(n)
  BY <1>4, ReportPhases
<1>5. CASE EnterBarrier(n)
  <2>1. UNCHANGED <<wire, manager, flush, isPaused, pauser, running>>
    BY <1>5 DEF EnterBarrier, control, work
  <2>2. ToBarrier \in Neutral
    BY MessageForms DEF Neutral, ToBarrier, Message, Barriers
  <2>3. Post(n, <<ToBarrier>>) /\ <<ToBarrier>> \in Seq(Neutral)
    BY <1>5, <2>2 DEF EnterBarrier, ToBarrier
  <2> QED BY <2>1, <2>3, PostSame, PhasesSame
<1>6. CASE Launch(n)
  <2>1. UNCHANGED <<wire, manager, flush, isPaused, pauser, running>>
    BY <1>6 DEF Launch, control, work
  <2> QED BY <1>6, <2>1, LaunchSpreads, SpreadSame, PhasesSame
<1>7. CASE LeaveBarrier(n) \/ StartWorker(n) \/ Stop(n)
  <2>1. UNCHANGED <<queue, wire, manager, flush, isPaused, pauser, running>>
    BY <1>7 DEF LeaveBarrier, StartWorker, Stop, control, work
  <2> QED BY <2>1, SameWhenStill, PhasesSame
<1> QED BY <1>2, <1>3, <1>4, <1>5, <1>6, <1>7 DEF Pool, MainThread

(* The handlers.                                                           *)
LEMMA HandlingPhases ==
  ASSUME Placed, Placed', Phases, NEW m \in Nodes, NEW n \in Nodes,
         Handle(m, n) \/ Park(m, n) \/ Resume(m, n) \/ ClearPaused(m, n)
  PROVE  Phases'
<1>1. NodeType /\ QueueType
  BY DEF Placed, Inv, BarInv
<1>2. UNCHANGED <<wire, manager, flush, isPaused, pauser>>
  BY DEF Handle, Park, Resume, ClearPaused, control
<1>3. CASE UNCHANGED <<queue, running>>
  BY <1>2, <1>3, SameWhenStill, PhasesSame
<1>4. CASE Handle(m, n) \/ (Resume(m, n) /\ More(n, receiver[m][n].next))
  <2>1. \E x \in Handled : HandleMessage(n, x)
    BY <1>1, <1>4, HandlesMessage
  <2>2. Spread(n) /\ \A k \in Nodes : isPaused[k] /\ running[k] = {} => running'[k] = {}
    BY <1>1, <2>1, HandlerSpreads
  <2> QED BY <1>2, <2>2, SpreadSame, PhasesSame
<1> QED BY <1>3, <1>4 DEF Park, Resume, ClearPaused

(* A message of the barrier, or a report.                                  *)
LEMMA ReceiveBarrierPhases ==
  ASSUME Placed, Placed', Phases, NEW m \in Nodes, NEW n \in Nodes, ReceiveBarrier(m, n)
  PROVE  Phases'
<1> DEFINE y == Head(wire[m][n])
<1>1. /\ wire[m][n] # <<>> /\ wire' = [wire EXCEPT ![m][n] = Tail(@)]
      /\ UNCHANGED <<flush, isPaused, pauser, running>>
      /\ y.cmd \in {"paused", "barrier", "barrier_done"} /\ ReceiveAlways(m, n, y)
  BY DEF ReceiveBarrier, work
<1>2. Removes(m, n, y) /\ (y.cmd = "paused" => n = Root /\ y = Paused /\ Reports(m) > 0)
  BY <1>1, TakenForms
<1> HIDE DEF y
<1>3. CASE y.cmd = "paused"
  <2>1. manager' = [manager EXCEPT !.left = @ - 1] /\ UNCHANGED queue
    BY <1>1, <1>3 DEF ReceiveAlways
  <2>2. Removes(m, Root, Paused) /\ Reports(m) > 0
    BY <1>2, <1>3
  <2>3. UNCHANGED <<queue, flush, isPaused, pauser, running>>
    BY <1>1, <2>1
  <2> QED BY <2>1, <2>2, <2>3, PausedPhases
<1>4. CASE y.cmd \in Barriers
  <2>1. UNCHANGED manager /\ (UNCHANGED queue \/ Post(n, Round(arrived + 1)))
    BY <1>1, <1>4 DEF ReceiveAlways, Barriers
  <2>2. y.cmd \in Work \cup Barriers
    BY <1>4
  <2>3. \E msgs \in Seq(Neutral) : Adds(n, msgs)
    <3>1. CASE UNCHANGED queue
      <4>1. Adds(n, <<>>)
        BY <3>1, NothingAdded
      <4>2. <<>> \in Seq(Neutral)
        OBVIOUS
      <4> QED BY <4>1, <4>2
    <3>2. CASE Post(n, Round(arrived + 1))
      <4>1. {x \in Msgs : x.cmd \in Barriers} \subseteq Neutral
        BY DEF Neutral
      <4>2. Round(arrived + 1) \in Seq(Neutral)
        BY <4>1, RoundForms, Larger
      <4>3. Round(arrived + 1) \in Seq(Queued(n))
        BY <4>2, QueuedForms, Larger
      <4>4. Adds(n, Round(arrived + 1))
        BY <3>2, <4>3, AddsWhenPosted
      <4> QED BY <4>2, <4>4
    <3> QED BY <2>1, <3>1, <3>2
  <2>4. Same
    BY <1>2, <2>2, <2>3, TakeSame
  <2> QED BY <1>1, <2>1, <2>4, PhasesSame
<1> QED BY <1>1, <1>3, <1>4 DEF Barriers

(* A call to pause never finds its node paused.                            *)
LEMMA PauseAwake ==
  ASSUME Placed, Phases, OrderInv, NEW m \in Nodes, NEW n \in Nodes, wire[m][n] # <<>>,
         wire' = [wire EXCEPT ![m][n] = Tail(@)], Head(wire[m][n]).cmd = "pause"
  PROVE  ~isPaused[n]
<1> DEFINE y == Head(wire[m][n])
<1>1. m = Root /\ y = Pause(n) /\ Calls(n) > 0
  BY TakenForms
<1>2. Called(n)
  BY <1>1, WhereIs
<1>3. Ordered(queue[Root], wire[Root][n], {Pause(n)}, {ResumeAt(n)})
  BY DEF OrderInv, InOrder
<1>4. wire[Root][n] \in Seq(Msgs) /\ queue[Root] \in Seq(Msgs) /\ wire[Root][n] # <<>>
  BY <1>1, Sequences
<1>5. Head(wire[Root][n]) = Pause(n)
  BY <1>1
<1>6. NoneOf(Tail(wire[Root][n]), {ResumeAt(n)}) /\ NoneOf(queue[Root], {ResumeAt(n)})
  BY <1>3, <1>4, <1>5, OrderTakes
<1>7. NoneOf(wire[Root][n], {ResumeAt(n)})
  <2>1. Pause(n) \notin {ResumeAt(n)}
    BY SignalForms
  <2> QED BY <1>4, <1>5, <1>6, <2>1, NoneTail
<1>8. Count(queue[Root], ResumeAt(n)) = 0 /\ Count(wire[Root][n], ResumeAt(n)) = 0
  BY <1>4, <1>6, <1>7, NoneCounted
<1>9. Resumes(n) = 0
  BY <1>1, <1>8, Numbers
<1> QED BY <1>2, <1>9 DEF Called, One

(* A paused node receives a message.                                       *)
LEMMA ReceivePausedPhases ==
  ASSUME Placed, Placed', Phases, OrderInv, NEW m \in Nodes, NEW n \in Nodes, ReceivePaused(m, n)
  PROVE  Phases' /\ (Head(wire[m][n]).cmd = "resume" => pauser[n] = "none")
<1> DEFINE y == Head(wire[m][n])
<1>1. /\ wire[m][n] # <<>> /\ wire' = [wire EXCEPT ![m][n] = Tail(@)] /\ isPaused[n]
      /\ UNCHANGED <<flush, pauser>> /\ Post(n, Answer(m, y))
      /\ y.cmd \notin {"paused", "barrier", "barrier_done"}
      /\ manager' = IF y.cmd = "flushed" THEN [manager EXCEPT !.left = @ - 1] ELSE manager
      /\ isPaused' = [isPaused EXCEPT ![n] = y.cmd # "resume"]
      /\ IF y.cmd = "resume" THEN running' = [running EXCEPT ![n] = @ \cup deferred[n]] ELSE UNCHANGED running
  BY DEF ReceivePaused
<1>2. /\ Removes(m, n, y) /\ y.cmd \in Controls \cup {"work"}
      /\ y.cmd = "resume" => m = Root /\ y = ResumeAt(n) /\ Resumes(n) > 0
      /\ y.cmd = "start_flush" => m = Root /\ y = Start(n) /\ Starts(n) > 0
      /\ y.cmd = "flushed" => n = Root /\ y = Flushed /\ Ends(m) > 0
      /\ y.cmd = "flush" => y = Flush(n) /\ Trip(m, n) > 0
      /\ y.cmd = "reflush" => y = Reflush(n) /\ Trip(n, m) > 0
  BY <1>1, TakenForms
<1>3. y.cmd # "pause"
  BY <1>1, PauseAwake
<1>4. y.cmd # "resume" => UNCHANGED <<isPaused, running>>
  BY <1>1 DEF Placed, PauseTypes
<1>5. Adds(n, Answer(m, y))
  BY <1>1, AnswerForms, AddsWhenPosted
<1>6. y.cmd \notin {"start_flush", "flush", "reflush"} => UNCHANGED queue
  <2>1. y.cmd \notin {"start_flush", "flush", "reflush"} => Answer(m, y) = <<>>
    BY DEF Answer
  <2>2. QueueType
    BY DEF Placed, Inv, BarInv
  <2> QED BY <1>1, <2>1, <2>2, EmptyPost
<1> HIDE DEF y
<1>7. CASE y.cmd = "resume"
  <2>1. UNCHANGED <<queue, flush, pauser, manager>> /\ Removes(Root, n, ResumeAt(n)) /\ Resumes(n) > 0
    BY <1>1, <1>2, <1>6, <1>7
  <2>2. isPaused' = [isPaused EXCEPT ![n] = FALSE]
    BY <1>1, <1>7
  <2>3. \A k \in Nodes : k # n => running'[k] = running[k]
    BY <1>1, <1>7 DEF Placed, Inv, NodeType
  <2> QED BY <2>1, <2>2, <2>3, ResumePhases
<1>8. CASE y.cmd = "start_flush"
  <2>1. UNCHANGED <<flush, isPaused, pauser, running, manager>> /\ Removes(Root, n, Start(n))
    BY <1>1, <1>2, <1>4, <1>8
  <2>2. Answer(m, y) = <<Begin>>
    BY <1>8 DEF Answer, Begin
  <2> QED BY <1>5, <1>8, <2>1, <2>2, StartPhases DEF y
<1>9. CASE y.cmd = "flush"
  <2>1. UNCHANGED <<flush, isPaused, pauser, running, manager>> /\ Removes(m, n, Flush(n))
    BY <1>1, <1>2, <1>4, <1>9
  <2>2. Answer(m, y) = <<Reflush(m)>>
    BY <1>9 DEF Answer, Reflush
  <2> QED BY <1>5, <1>9, <2>1, <2>2, FlushPhases DEF y
<1>10. CASE y.cmd = "reflush"
  <2>1. UNCHANGED <<flush, isPaused, pauser, running, manager>> /\ Removes(m, n, Reflush(n)) /\ Trip(n, m) > 0
    BY <1>1, <1>2, <1>4, <1>10
  <2>2. Answer(m, y) = <<Back>>
    BY <1>10 DEF Answer, Back
  <2> QED BY <1>5, <1>10, <2>1, <2>2, ReflushPhases DEF y
<1>11. CASE y.cmd = "flushed"
  <2>1. UNCHANGED <<queue, flush, isPaused, pauser, running>> /\ Removes(m, Root, Flushed) /\ Ends(m) > 0
    BY <1>1, <1>2, <1>4, <1>6, <1>11
  <2>2. manager' = [manager EXCEPT !.left = @ - 1]
    BY <1>1, <1>11
  <2> QED BY <1>11, <2>1, <2>2, FlushedPhases DEF y
<1>12. CASE y.cmd \in Work
  <2>1. UNCHANGED <<queue, flush, isPaused, pauser, running, manager>>
    BY <1>1, <1>4, <1>6, <1>12 DEF Work
  <2>2. Adds(n, <<>>) /\ <<>> \in Seq(Neutral)
    BY <2>1, NothingAdded
  <2>3. y.cmd \in Work \cup Barriers
    BY <1>12
  <2>4. Same
    BY <1>2, <2>2, <2>3, TakeSame
  <2>5. Phases'
    BY <2>1, <2>4, PhasesSame
  <2> QED BY <1>12, <2>5 DEF Work, y
<1> QED BY <1>1, <1>2, <1>3, <1>7, <1>8, <1>9, <1>10, <1>11, <1>12 DEF Controls, Work

(* A running node receives a message: a call to pause, or work.            *)
LEMMA ReceiveRunningPhases ==
  ASSUME Placed, Placed', Phases, NEW m \in Nodes, NEW n \in Nodes, ReceiveRunning(m, n)
  PROVE  Phases' /\ Head(wire[m][n]).cmd \in Work \cup {"pause"} /\ (Head(wire[m][n]).cmd = "pause" => m = Root)
<1> DEFINE y == Head(wire[m][n])
<1>1. /\ wire[m][n] # <<>> /\ wire' = [wire EXCEPT ![m][n] = Tail(@)] /\ ~isPaused[n]
      /\ UNCHANGED <<queue, flush, isPaused, manager, running>>
      /\ y.cmd \notin {"paused", "barrier", "barrier_done"}
      /\ pauser' = IF y.cmd = "pause" THEN [pauser EXCEPT ![n] = "started"] ELSE pauser
  BY DEF ReceiveRunning, work
<1>2. /\ Removes(m, n, y) /\ y.cmd \in Controls \cup {"work"}
      /\ y.cmd = "pause" => m = Root /\ y = Pause(n) /\ Calls(n) > 0
  BY <1>1, TakenForms
<1>3. y.cmd \notin {"start_flush", "flush", "reflush", "flushed", "resume"}
  BY <1>1, OnlyPaused
<1>4. y.cmd \in Work \cup {"pause"}
  BY <1>1, <1>2, <1>3 DEF Controls, Work
<1> HIDE DEF y
<1>5. CASE y.cmd = "pause"
  <2>1. Removes(Root, n, Pause(n)) /\ Calls(n) > 0 /\ pauser' = [pauser EXCEPT ![n] = "started"]
    BY <1>1, <1>2, <1>5
  <2>2. Phases'
    BY <1>1, <2>1, PausePhases
  <2> QED BY <1>2, <1>4, <2>2 DEF y
<1>6. CASE y.cmd \in Work
  <2>1. UNCHANGED <<queue, flush, isPaused, pauser, running, manager>>
    BY <1>1, <1>6 DEF Work
  <2>2. Adds(n, <<>>) /\ <<>> \in Seq(Neutral)
    BY <2>1, NothingAdded
  <2>3. y.cmd \in Work \cup Barriers
    BY <1>6
  <2>4. Same
    BY <1>2, <2>2, <2>3, TakeSame
  <2>5. Phases'
    BY <2>1, <2>4, PhasesSame
  <2> QED BY <1>2, <1>4, <2>5 DEF y
<1> QED BY <1>4, <1>5, <1>6

(* Every step keeps the phases.                                            *)
LEMMA PhasesStep ==
  ASSUME Placed, Placed', Phases, OrderInv, [Next]_vars
  PROVE  Phases'
<1>1. CASE \E n \in Nodes : Runner(n) \/ Pool(n) \/ MainThread(n)
  BY <1>1, RunnerPhases, PoolPhases
<1>2. CASE \E m, n \in Nodes : Receiver(m, n)
  BY <1>2, ReceiveBarrierPhases, ReceivePausedPhases, ReceiveRunningPhases, HandlingPhases DEF Receiver
<1>3. CASE Manager
  BY <1>3, StartPausePhases, StartFlushPhases, EndFlushPhases, StartResumePhases DEF Manager
<1>4. CASE UNCHANGED vars
  <2>1. UNCHANGED <<queue, wire, manager, flush, isPaused, pauser, running>>
    BY <1>4 DEF vars, control, work
  <2> QED BY <2>1, SameWhenStill, PhasesSame
<1> QED BY <1>1, <1>2, <1>3, <1>4 DEF Next, Terminated

(* A pause goes through its phases.                                        *)
THEOREM AlwaysPhases == Spec => [](Phases /\ OrderInv)
<1>1. Init => Phases /\ OrderInv
  <2> SUFFICES ASSUME Init PROVE Phases /\ OrderInv
    OBVIOUS
  <2>1. \A n \in Nodes : queue[n] = <<>> /\ \A m \in Nodes : wire[m][n] = <<>>
    BY DEF Init
  <2>2. Root \in Nodes
    BY SizeType
  <2>3. \A n, k \in Nodes : /\ Calls(n) = 0 /\ Reports(n) = 0 /\ Resumes(n) = 0 /\ Starts(n) = 0
                            /\ Begins(n) = 0 /\ Backs(n) = 0 /\ Ends(n) = 0 /\ Trip(n, k) = 0
    BY <2>1, <2>2, CountEmpty, Numbers
  <2>4. manager.at = "idle" /\ \A n \in Nodes : ~flush[n].on /\ ~flush[n].dirty /\ ~isPaused[n] /\ pauser[n] = "none"
    BY DEF Init
  <2>5. \A n \in Nodes : Stages(n) = 0 /\ Pending(n) = {}
    BY <2>3, <2>4 DEF Stages, Pending, One
  <2>6. \A n \in Nodes : Free(n) /\ ~Open(n) /\ FlushInv(n)
    BY <2>3, <2>4, <2>5 DEF Free, Open, FlushInv, One
  <2>7. OrderInv
    BY <2>1, <2>2, NoneEmpty DEF OrderInv, InOrder, Ordered
  <2> QED BY <2>4, <2>6, <2>7 DEF Phases, PhasePause, PhaseFlush
<1>2. Placed /\ Placed' /\ Phases /\ OrderInv /\ [Next]_vars => Phases' /\ OrderInv'
  BY PhasesStep, OrderStep
<1> QED BY <1>1, <1>2, AlwaysPlaced, PTL DEF Spec

-----------------------------------------------------------------------------
(***************************************************************************)
(* The receivers, the messages put aside and the failures.                 *)
(***************************************************************************)
Reached == Placed /\ Phases /\ OrderInv

(* One receiver changes.                                                   *)
LEMMA BecomesForms ==
  ASSUME Placed, NEW m \in Nodes, NEW n \in Nodes, NEW r, Becomes(m, n, r)
  PROVE  \A i, j \in Nodes : receiver'[i][j] = IF i = m /\ j = n THEN r ELSE receiver[i][j]
<1>1. receiver \in [Nodes -> [Nodes -> Receiving]]
  BY DEF Placed, Inv, NodeType
<1> QED BY <1>1 DEF Becomes

(* What a receiver that gets a message does next.                          *)
LEMMA ReceiveForms ==
  ASSUME Reached, NEW m \in Nodes, NEW n \in Nodes, Placed', ReceivePaused(m, n) \/ ReceiveRunning(m, n)
  PROVE  /\ receiver[m][n] = Idle
         /\ \A i, j \in Nodes : i # m \/ j # n => receiver'[i][j] = receiver[i][j]
         /\ \/ receiver'[m][n] \in {Idle, Busy("park", Head(wire[m][n]))} /\ isPaused[n] /\ UNCHANGED <<isPaused, pauser>>
            \/ /\ receiver'[m][n] = Resuming(1) /\ m = Root /\ isPaused[n] /\ ~isPaused'[n] /\ pauser[n] = "none"
               /\ UNCHANGED pauser /\ \A j \in Nodes : j # n => isPaused'[j] = isPaused[j]
            \/ receiver'[m][n] = Busy("handle", Head(wire[m][n])) /\ ~isPaused[n] /\ UNCHANGED <<isPaused, pauser>>
            \/ /\ receiver'[m][n] = Idle /\ ~isPaused[n] /\ UNCHANGED isPaused
               /\ m = Root /\ \A j \in Nodes : j # n => pauser'[j] = pauser[j]
         /\ UNCHANGED <<messages, lost, overlaps, faults>>
<1> DEFINE y == Head(wire[m][n])
<1>1. receiver \in [Nodes -> [Nodes -> Receiving]] /\ isPaused \in [Nodes -> BOOLEAN] /\ DOMAIN pauser = Nodes
  BY DEF Placed, Inv, NodeType, PauseTypes, Reached
<1>2. receiver[m][n] = Idle
  BY DEF ReceivePaused, ReceiveRunning
<1>3. CASE ReceivePaused(m, n)
  <2>1. /\ wire[m][n] # <<>> /\ wire' = [wire EXCEPT ![m][n] = Tail(@)] /\ isPaused[n]
        /\ UNCHANGED <<pauser, messages, lost, overlaps, faults>>
        /\ isPaused' = [isPaused EXCEPT ![n] = y.cmd # "resume"]
        /\ CASE y.cmd = "resume" -> Becomes(m, n, Resuming(1))
             [] y.cmd \in {"work", "shutdown", "pause"} -> Becomes(m, n, Busy("park", y))
             [] OTHER -> UNCHANGED receiver
    BY <1>3 DEF ReceivePaused
  <2>2. (y.cmd = "resume" => m = Root) /\ (y.cmd = "resume" => pauser[n] = "none")
    BY <1>3, <2>1, TakenForms, ReceivePausedPhases DEF Reached
  <2> HIDE DEF y
  <2>3. CASE y.cmd = "resume"
    <3>1. Becomes(m, n, Resuming(1))
      BY <2>1, <2>3
    <3>2. \A i, j \in Nodes : receiver'[i][j] = IF i = m /\ j = n THEN Resuming(1) ELSE receiver[i][j]
      BY <3>1, BecomesForms DEF Reached
    <3>3. ~isPaused'[n] /\ \A j \in Nodes : j # n => isPaused'[j] = isPaused[j]
      BY <1>1, <2>1, <2>3
    <3> QED BY <1>2, <2>1, <2>2, <2>3, <3>2, <3>3
  <2>4. CASE y.cmd # "resume"
    <3>1. UNCHANGED isPaused
      BY <1>1, <2>1, <2>4
    <3>2. Becomes(m, n, Busy("park", y)) \/ UNCHANGED receiver
      BY <2>1, <2>4
    <3>3. CASE Becomes(m, n, Busy("park", y))
      <4>1. \A i, j \in Nodes : receiver'[i][j] = IF i = m /\ j = n THEN Busy("park", y) ELSE receiver[i][j]
        BY <3>3, BecomesForms DEF Reached
      <4> QED BY <1>2, <2>1, <3>1, <4>1 DEF y
    <3>4. CASE UNCHANGED receiver
      BY <1>2, <2>1, <3>1, <3>4
    <3> QED BY <3>2, <3>3, <3>4
  <2> QED BY <2>3, <2>4
<1>4. CASE ReceiveRunning(m, n)
  <2>1. /\ ~isPaused[n] /\ UNCHANGED <<isPaused, messages, lost, overlaps>>
        /\ pauser' = IF y.cmd = "pause" THEN [pauser EXCEPT ![n] = "started"] ELSE pauser
        /\ IF y.cmd \in {"work", "shutdown"} THEN Becomes(m, n, Busy("handle", y)) ELSE UNCHANGED receiver
        /\ faults' = IF y.cmd \in {"work", "shutdown", "pause"} THEN faults ELSE faults \cup {"command"}
    BY <1>4 DEF ReceiveRunning, work
  <2>2. y.cmd \in Work \cup {"pause"} /\ (y.cmd = "pause" => m = Root)
    BY <1>4, ReceiveRunningPhases DEF Reached
  <2> HIDE DEF y
  <2>3. UNCHANGED faults
    BY <2>1, <2>2 DEF Work
  <2>4. CASE y.cmd = "pause"
    <3>1. UNCHANGED receiver /\ \A j \in Nodes : j # n => pauser'[j] = pauser[j]
      BY <1>1, <2>1, <2>4
    <3> QED BY <1>2, <2>1, <2>2, <2>3, <2>4, <3>1
  <2>5. CASE y.cmd \in Work
    <3>1. Becomes(m, n, Busy("handle", y)) /\ UNCHANGED pauser
      BY <2>1, <2>5 DEF Work
    <3>2. \A i, j \in Nodes : receiver'[i][j] = IF i = m /\ j = n THEN Busy("handle", y) ELSE receiver[i][j]
      BY <3>1, BecomesForms DEF Reached
    <3> QED BY <1>2, <2>1, <2>3, <3>1, <3>2 DEF y
  <2> QED BY <2>2, <2>4, <2>5
<1> QED BY <1>3, <1>4

(* Where the receivers are.                                                *)
LEMMA AtForms ==
  /\ Idle.at = "idle" /\ \A at, x : Busy(at, x).at = at
  /\ \A i : Resuming(i).at = "resume" /\ Clearing(i).at = "clear" /\ Resuming(i).next = i /\ Clearing(i).next = i
BY DEF Idle, Busy, Resuming, Clearing

(* Only the root resumes a node, which stays running meanwhile.            *)
LEMMA ReceiverStep ==
  ASSUME Reached, Placed', ReceiverInv, [Next]_vars
  PROVE  ReceiverInv'
<1>1. isPaused \in [Nodes -> BOOLEAN] /\ DOMAIN pauser = Nodes
  BY DEF Reached, Placed, PauseTypes
<1>2. CASE UNCHANGED <<receiver, isPaused, pauser>>
  BY <1>2 DEF ReceiverInv
<1>3. ASSUME NEW n \in Nodes, SetPaused(n) \/ ReportPaused(n)
      PROVE  ReceiverInv'
  <2>1. /\ pauser[n] # "none" /\ UNCHANGED receiver
        /\ \A j \in Nodes : j # n => isPaused'[j] = isPaused[j] /\ pauser'[j] = pauser[j]
    BY <1>1, <1>3 DEF SetPaused, ReportPaused
  <2> QED BY <2>1 DEF ReceiverInv
<1>4. ASSUME NEW m \in Nodes, NEW n \in Nodes, ReceivePaused(m, n) \/ ReceiveRunning(m, n)
      PROVE  ReceiverInv'
  <2> SUFFICES ASSUME NEW i \in Nodes, NEW j \in Nodes, receiver'[i][j].at \in {"resume", "clear"}
               PROVE  i = Root /\ ~isPaused'[j] /\ pauser'[j] = "none"
    BY DEF ReceiverInv
  <2>1. CASE i = m /\ j = n
    <3>1. receiver'[m][n] = Resuming(1)
      BY <1>4, <2>1, ReceiveForms, AtForms
    <3>2. m = Root /\ ~isPaused'[n] /\ pauser[n] = "none" /\ UNCHANGED pauser
      BY <1>4, <3>1, ReceiveForms, AtForms
    <3> QED BY <2>1, <3>2
  <2>2. CASE i # m \/ j # n
    <3>1. receiver'[i][j] = receiver[i][j]
      BY <1>4, <2>2, ReceiveForms
    <3>2. i = Root /\ ~isPaused[j] /\ pauser[j] = "none"
      BY <3>1 DEF ReceiverInv
    <3>3. CASE j # n
      BY <1>4, <3>2, <3>3, ReceiveForms
    <3>4. CASE j = n
      <4>1. m # Root /\ ~isPaused[n]
        BY <2>2, <3>2, <3>4
      <4>2. UNCHANGED <<isPaused, pauser>>
        BY <1>4, <4>1, ReceiveForms
      <4> QED BY <3>2, <4>2
    <3> QED BY <3>3, <3>4
  <2> QED BY <2>1, <2>2
<1>5. ASSUME NEW m \in Nodes, NEW n \in Nodes, Handle(m, n) \/ Park(m, n) \/ Resume(m, n) \/ ClearPaused(m, n)
      PROVE  ReceiverInv'
  <2>1. UNCHANGED <<isPaused, pauser>>
    BY <1>5 DEF Handle, Park, Resume, ClearPaused, control
  <2>2. PICK r : Becomes(m, n, r) /\ (r.at \in {"resume", "clear"} => receiver[m][n].at = "resume")
    BY <1>5, AtForms DEF Handle, Park, Resume, ClearPaused
  <2>3. \A i, j \in Nodes : receiver'[i][j] = IF i = m /\ j = n THEN r ELSE receiver[i][j]
    BY <2>2, BecomesForms DEF Reached
  <2>4. \A i, j \in Nodes : receiver'[i][j].at \in {"resume", "clear"} => receiver[i][j].at \in {"resume", "clear"}
    BY <2>2, <2>3
  <2> QED BY <2>1, <2>4 DEF ReceiverInv
<1>6. CASE (\E n \in Nodes : Runner(n) \/ RunTask(n) \/ MainThread(n)) \/ Manager \/ UNCHANGED vars
           \/ \E m, n \in Nodes : ReceiveBarrier(m, n)
  BY <1>2, <1>6 DEF Runner, RunTask, MainThread, EnterBarrier, LeaveBarrier, Launch, StartWorker, Stop, Manager,
     StartPause, StartFlush, EndFlush, StartResume, vars, control, ReceiveBarrier
<1> QED BY <1>3, <1>4, <1>5, <1>6 DEF Next, Receiver, Pool, Terminated

(* A receiver becomes busy only with a message it takes.                   *)
LEMMA LeavesIdle ==
  ASSUME Reached, [Next]_vars, NEW m \in Nodes, NEW n \in Nodes, receiver[m][n] = Idle
  PROVE  receiver'[m][n] = Idle \/ ReceivePaused(m, n) \/ ReceiveRunning(m, n)
<1> SUFFICES ASSUME receiver'[m][n] # receiver[m][n]
             PROVE  ReceivePaused(m, n) \/ ReceiveRunning(m, n)
  OBVIOUS
<1>1. receiver' # receiver
  OBVIOUS
<1>2. \E j, k \in Nodes : \/ ReceivePaused(j, k) \/ ReceiveRunning(j, k)
                          \/ Handle(j, k) \/ Park(j, k) \/ Resume(j, k) \/ ClearPaused(j, k)
  BY <1>1 DEF Next, Receiver, Pool, MainThread, Manager, Runner, RunTask, SetPaused, ReportPaused, EnterBarrier,
     LeaveBarrier, Launch, StartWorker, Stop, ReceiveBarrier, StartPause, StartFlush, EndFlush, StartResume,
     Terminated, vars
<1>3. PICK j \in Nodes, k \in Nodes :
             \/ ReceivePaused(j, k) \/ ReceiveRunning(j, k)
             \/ Handle(j, k) \/ Park(j, k) \/ Resume(j, k) \/ ClearPaused(j, k)
  BY <1>2
<1>4. UNCHANGED receiver \/ \E r : Becomes(j, k, r)
  BY <1>3 DEF ReceivePaused, ReceiveRunning, Handle, Park, Resume, ClearPaused
<1>5. j = m /\ k = n
  BY <1>1, <1>4, BecomesForms DEF Reached
<1>6. ~(Handle(j, k) \/ Park(j, k) \/ Resume(j, k) \/ ClearPaused(j, k))
  BY <1>5, AtForms DEF Handle, Park, Resume, ClearPaused
<1> QED BY <1>3, <1>5, <1>6

(* What has overlapped is not forgotten.                                   *)
LEMMA OverlapsGrow ==
  ASSUME [Next]_vars
  PROVE  overlaps \subseteq overlaps'
<1>1. ASSUME NEW n \in Nodes, Launch(n) \/ SetPaused(n)
      PROVE  overlaps \subseteq overlaps'
  BY <1>1 DEF Launch, SetPaused
<1>2. ASSUME NEW m \in Nodes, NEW n \in Nodes, Park(m, n)
      PROVE  overlaps \subseteq overlaps'
  BY <1>2 DEF Park
<1>3. ASSUME NEW m \in Nodes, NEW n \in Nodes, Receiver(m, n), ~Park(m, n)
      PROVE  UNCHANGED overlaps
  BY <1>3 DEF Receiver, ReceiveBarrier, ReceivePaused, ReceiveRunning, Handle, Resume, ClearPaused
<1>4. CASE (\E n \in Nodes : Runner(n) \/ RunTask(n) \/ ReportPaused(n)) \/ Manager \/ UNCHANGED vars
  BY <1>4 DEF Runner, RunTask, ReportPaused, Manager, StartPause, StartFlush, EndFlush, StartResume, vars
<1>5. CASE \E n \in Nodes : EnterBarrier(n) \/ LeaveBarrier(n) \/ StartWorker(n) \/ Stop(n)
  BY <1>5 DEF EnterBarrier, LeaveBarrier, StartWorker, Stop
<1> QED BY <1>1, <1>2, <1>3, <1>4, <1>5 DEF Next, Pool, MainThread, Terminated

(* A message is lost only if one was put aside at a running node.          *)
LEMMA LostStep ==
  ASSUME Reached, Placed', ReceiverInv, LostInv, [Next]_vars
  PROVE  LostInv'
<1> SUFFICES ASSUME "park" \notin overlaps'
             PROVE  /\ lost' = {}
                    /\ \A i, j \in Nodes : receiver'[i][j].at = "clear" => receiver'[i][j].next > Len(messages'[j])
  BY DEF LostInv
<1>1. /\ lost = {}
      /\ \A i, j \in Nodes : receiver[i][j].at = "clear" => receiver[i][j].next > Len(messages[j])
  BY OverlapsGrow DEF LostInv
<1>2. /\ receiver \in [Nodes -> [Nodes -> Receiving]] /\ messages \in [Nodes -> Seq(Handled)]
      /\ \A i, j \in Nodes : receiver[i][j] \in Receiving
  BY DEF Reached, Placed, Inv, NodeType
<1>3. CASE UNCHANGED <<receiver, messages, lost>>
  BY <1>1, <1>3
<1>4. ASSUME NEW m \in Nodes, NEW n \in Nodes, ReceivePaused(m, n) \/ ReceiveRunning(m, n)
      PROVE  /\ lost' = {}
             /\ \A i, j \in Nodes : receiver'[i][j].at = "clear" => receiver'[i][j].next > Len(messages'[j])
  <2>1. UNCHANGED <<messages, lost>> /\ receiver'[m][n].at # "clear"
        /\ \A i, j \in Nodes : i # m \/ j # n => receiver'[i][j] = receiver[i][j]
    BY <1>4, ReceiveForms, AtForms
  <2> QED BY <1>1, <2>1
<1>5. ASSUME NEW m \in Nodes, NEW n \in Nodes, NEW r, Becomes(m, n, r), UNCHANGED <<messages, lost>>,
             r.at = "clear" => r.next > Len(messages[n])
      PROVE  /\ lost' = {}
             /\ \A i, j \in Nodes : receiver'[i][j].at = "clear" => receiver'[i][j].next > Len(messages'[j])
  <2>1. \A i, j \in Nodes : receiver'[i][j] = IF i = m /\ j = n THEN r ELSE receiver[i][j]
    BY <1>5, BecomesForms DEF Reached
  <2> QED BY <1>1, <1>5, <2>1
<1>6. ASSUME NEW m \in Nodes, NEW n \in Nodes, Handle(m, n) \/ Resume(m, n)
      PROVE  /\ lost' = {}
             /\ \A i, j \in Nodes : receiver'[i][j].at = "clear" => receiver'[i][j].next > Len(messages'[j])
  <2>1. CASE Handle(m, n)
    BY <1>5, <2>1, AtForms DEF Handle
  <2>2. CASE Resume(m, n)
    <3> DEFINE i == receiver[m][n].next
    <3>1. i \in Nat /\ Len(messages[n]) \in Nat
      BY <1>2, <2>2, ReceivingForms DEF Resume
    <3>2. /\ UNCHANGED <<messages, lost>>
          /\ IF i <= Len(messages[n]) THEN Becomes(m, n, Resuming(i + 1)) ELSE Becomes(m, n, Clearing(i))
      BY <2>2 DEF Resume, More
    <3> HIDE DEF i
    <3>3. CASE i <= Len(messages[n])
      BY <1>5, <3>2, <3>3, AtForms
    <3>4. CASE ~(i <= Len(messages[n]))
      <4>1. Clearing(i).next > Len(messages[n])
        BY <3>1, <3>4, AtForms
      <4> QED BY <1>5, <3>2, <3>4, <4>1
    <3> QED BY <3>3, <3>4
  <2> QED BY <1>6, <2>1, <2>2
<1>7. ASSUME NEW m \in Nodes, NEW n \in Nodes, Park(m, n) \/ ClearPaused(m, n)
      PROVE  /\ lost' = {}
             /\ \A i, j \in Nodes : receiver'[i][j].at = "clear" => receiver'[i][j].next > Len(messages'[j])
  <2>1. /\ Becomes(m, n, Idle) /\ \A j \in Nodes : j # n => messages'[j] = messages[j]
    BY <1>2, <1>7 DEF Park, ClearPaused
  <2>2. \A i, j \in Nodes : receiver'[i][j] = IF i = m /\ j = n THEN Idle ELSE receiver[i][j]
    BY <2>1, BecomesForms DEF Reached
  <2>3. \A i \in Nodes : receiver'[i][n].at # "clear"
    <3>1. CASE Park(m, n)
      <4>1. isPaused[n]
        BY <3>1 DEF Park
      <4> QED BY <2>2, <4>1, AtForms DEF ReceiverInv
    <3>2. CASE ClearPaused(m, n)
      <4>1. m = Root
        BY <3>2 DEF ClearPaused, ReceiverInv
      <4> QED BY <2>2, <4>1, AtForms DEF ReceiverInv
    <3> QED BY <1>7, <3>1, <3>2
  <2>4. lost' = {}
    <3>1. CASE Park(m, n)
      BY <1>1, <3>1 DEF Park
    <3>2. CASE ClearPaused(m, n)
      <4>1. receiver[m][n].next > Len(messages[n]) /\ receiver[m][n].next \in Nat /\ Len(messages[n]) \in Nat
        BY <1>1, <1>2, <3>2, ReceivingForms DEF ClearPaused
      <4>2. receiver[m][n].next..Len(messages[n]) = {}
        BY <4>1
      <4>3. lost' = lost \cup {messages[n][i] : i \in {}}
        BY <3>2, <4>2 DEF ClearPaused
      <4> QED BY <1>1, <4>3
    <3> QED BY <1>7, <3>1, <3>2
  <2> QED BY <1>1, <2>1, <2>2, <2>3, <2>4
<1>8. CASE (\E n \in Nodes : Runner(n) \/ Pool(n)) \/ \E m, n \in Nodes : ReceiveBarrier(m, n)
  BY <1>3, <1>8 DEF Runner, Pool, RunTask, SetPaused, ReportPaused, work, ReceiveBarrier
<1>9. CASE (\E n \in Nodes : MainThread(n)) \/ Manager \/ UNCHANGED vars
  BY <1>3, <1>9 DEF MainThread, EnterBarrier, LeaveBarrier, Launch, StartWorker, Stop, Manager, StartPause, StartFlush,
     EndFlush, StartResume, vars, work
<1> QED BY <1>4, <1>6, <1>7, <1>8, <1>9 DEF Next, Receiver, Terminated

(* The only assertion that can fail is that of a flush that meets work.    *)
LEMMA FaultStep ==
  ASSUME Reached, Placed', FaultInv, [Next]_vars
  PROVE  FaultInv'
<1>1. CASE UNCHANGED faults
  BY <1>1 DEF FaultInv
<1>2. ASSUME NEW n \in Nodes, Runner(n)
      PROVE  FaultInv'
  <2>1. Head(queue[n]) = Begin => ~flush[n].on
    BY <1>2, RunnerPhases DEF Reached
  <2>2. faults' \subseteq faults \cup {"dirty"}
    BY <1>2, <2>1, SignalForms DEF Runner, Begin, Back
  <2> QED BY <2>2 DEF FaultInv
<1>3. ASSUME NEW m \in Nodes, NEW n \in Nodes, ReceivePaused(m, n) \/ ReceiveRunning(m, n)
      PROVE  FaultInv'
  BY <1>1, <1>3, ReceiveForms
<1>4. CASE (\E n \in Nodes : Pool(n) \/ MainThread(n)) \/ Manager \/ UNCHANGED vars
  BY <1>1, <1>4 DEF Pool, RunTask, SetPaused, ReportPaused, MainThread, EnterBarrier, LeaveBarrier, Launch,
     StartWorker, Stop, Manager, StartPause, StartFlush, EndFlush, StartResume, vars
<1>5. CASE \E m, n \in Nodes : ReceiveBarrier(m, n) \/ Handle(m, n) \/ Park(m, n) \/ Resume(m, n) \/ ClearPaused(m, n)
  BY <1>1, <1>5 DEF ReceiveBarrier, Handle, Park, Resume, ClearPaused
<1> QED BY <1>2, <1>3, <1>4, <1>5 DEF Next, Receiver, Terminated

-----------------------------------------------------------------------------
(***************************************************************************)
(* The channels are swept by the flush, if nobody was at work at a paused  *)
(* node.                                                                   *)
(***************************************************************************)
(* The receivers of a paused node only put messages aside.                 *)
LEMMA HaltStep ==
  ASSUME Reached, Placed', ReceiverInv, HaltInv, "outside" \notin overlaps', [Next]_vars
  PROVE  HaltInv'
<1>1. /\ receiver \in [Nodes -> [Nodes -> Receiving]] /\ isPaused \in [Nodes -> BOOLEAN]
      /\ \A i, j \in Nodes : receiver[i][j].at \in {"idle", "park", "handle", "resume", "clear"}
  <2>1. receiver \in [Nodes -> [Nodes -> Receiving]] /\ isPaused \in [Nodes -> BOOLEAN]
    BY DEF Reached, Placed, Inv, NodeType, PauseTypes
  <2>2. \A r \in Receiving : r.at \in {"idle", "park", "handle", "resume", "clear"}
    BY DEF Receiving, Idle, Busy, Resuming, Clearing
  <2> QED BY <2>1, <2>2
<1>2. CASE UNCHANGED <<receiver, isPaused>>
  BY <1>2 DEF HaltInv
<1>3. ASSUME NEW n \in Nodes, SetPaused(n)
      PROVE  HaltInv'
  <2>1. \A m \in Nodes : receiver[m][n].at \notin {"handle", "resume", "clear"}
    BY <1>3 DEF SetPaused
  <2>2. UNCHANGED receiver /\ \A j \in Nodes : j # n => isPaused'[j] = isPaused[j]
    BY <1>1, <1>3 DEF SetPaused
  <2>3. \A m \in Nodes : receiver[m][n].at \in {"idle", "park"}
    BY <1>1, <2>1
  <2> QED BY <2>2, <2>3 DEF HaltInv
<1>4. ASSUME NEW m \in Nodes, NEW n \in Nodes, ReceivePaused(m, n) \/ ReceiveRunning(m, n)
      PROVE  HaltInv'
  <2> SUFFICES ASSUME NEW i \in Nodes, NEW j \in Nodes, isPaused'[j]
               PROVE  receiver'[i][j].at \in {"idle", "park"}
    BY DEF HaltInv
  <2>1. isPaused[j]
    BY <1>4, ReceiveForms
  <2>2. CASE i = m /\ j = n
    BY <1>4, <2>1, <2>2, ReceiveForms, AtForms
  <2>3. CASE i # m \/ j # n
    <3>1. receiver'[i][j] = receiver[i][j]
      BY <1>4, <2>3, ReceiveForms
    <3> QED BY <2>1, <3>1 DEF HaltInv
  <2> QED BY <2>2, <2>3
<1>5. ASSUME NEW m \in Nodes, NEW n \in Nodes, Handle(m, n) \/ Park(m, n) \/ Resume(m, n) \/ ClearPaused(m, n)
      PROVE  HaltInv'
  <2>1. UNCHANGED isPaused
    BY <1>5 DEF Handle, Park, Resume, ClearPaused, control
  <2>2. PICK r : Becomes(m, n, r) /\ (r.at = "idle" \/ receiver[m][n].at = "resume")
    BY <1>5, AtForms DEF Handle, Park, Resume, ClearPaused
  <2>3. \A i, j \in Nodes : receiver'[i][j] = IF i = m /\ j = n THEN r ELSE receiver[i][j]
    BY <2>2, BecomesForms DEF Reached
  <2> SUFFICES ASSUME NEW i \in Nodes, NEW j \in Nodes, isPaused[j]
               PROVE  receiver'[i][j].at \in {"idle", "park"}
    BY <2>1 DEF HaltInv
  <2>4. receiver[i][j].at \in {"idle", "park"}
    BY DEF HaltInv
  <2> QED BY <2>2, <2>3, <2>4
<1>6. CASE (\E n \in Nodes : Runner(n) \/ RunTask(n) \/ ReportPaused(n) \/ MainThread(n)) \/ Manager \/ UNCHANGED vars
           \/ \E m, n \in Nodes : ReceiveBarrier(m, n)
  BY <1>2, <1>6 DEF Runner, RunTask, ReportPaused, MainThread, EnterBarrier, LeaveBarrier, Launch, StartWorker, Stop,
     Manager, StartPause, StartFlush, EndFlush, StartResume, vars, control, ReceiveBarrier
<1> QED BY <1>3, <1>4, <1>5, <1>6 DEF Next, Receiver, Pool, Terminated

(* While a node is at work nobody flushes.                                 *)
LEMMA AwakeForms ==
  ASSUME Reached, HaltInv, "outside" \notin overlaps', NEW n \in Nodes, Awake(n)
  PROVE  manager.at \notin {"flushing", "flushed"} /\ \A k \in Nodes : ~Open(k)
<1>1. ~Held(n)
  BY DEF Held, Quiet, Awake, HaltInv
<1>2. manager.at \notin {"flushing", "flushed"}
  BY <1>1 DEF Reached, Phases, PhasePause
<1> QED BY <1>2 DEF Reached, Phases, PhaseFlush

(* When no flush of m is open there is no mark on the way from m.          *)
LEMMA NoMarks ==
  ASSUME Reached, NEW m \in Nodes, NEW k \in Nodes, ~Open(m)
  PROVE  Clear(m, k, Marks(k))
<1>1. Placed /\ FlushInv(m)
  BY DEF Reached, Phases
<1>2. Begins(m) = 0 /\ Trip(m, k) = 0
  <2>1. Begins(m) = 0 /\ ~flush[m].on
    BY <1>1, StagesForms
  <2>2. Trip(m, k) = 0
    BY <1>1, <2>1, PendingForms, NumbersType
  <2> QED BY <2>1, <2>2
<1>3. Count(queue[m], Begin) = 0 /\ Count(wire[m][k], Flush(k)) = 0
  <2>1. /\ Count(queue[m], Begin) = 0
        /\ Count(wire[m][k], Flush(k)) + (Count(queue[k], Reflush(m)) + Count(wire[k][m], Reflush(m))) = 0
    BY <1>2, Numbers
  <2>2. /\ Count(wire[m][k], Flush(k)) \in Nat /\ Count(queue[k], Reflush(m)) \in Nat
        /\ Count(wire[k][m], Reflush(m)) \in Nat
    BY <1>1, NumbersType
  <2> QED BY <2>1, <2>2
<1>4. queue[m] \in Seq(Queued(m)) /\ wire[m][k] \in Seq(Wired(m, k))
  BY <1>1 DEF Placed, PlacesInv
<1>5. Flush(k) \notin Queued(m) /\ Begin \notin Wired(m, k)
  BY SignalForms DEF Queued, Wired
<1>6. NoneOf(queue[m], {Begin}) /\ NoneOf(queue[m], {Flush(k)})
  BY <1>3, <1>4, <1>5, NoneCounted, NoneOver
<1>7. NoneOf(wire[m][k], {Flush(k)}) /\ NoneOf(wire[m][k], {Begin})
  BY <1>3, <1>4, <1>5, NoneCounted, NoneOver
<1> QED BY <1>6, <1>7 DEF Clear, NoneOf, Marks

(* Work goes to no channel that a mark is on.                              *)
LEMMA MarkStep ==
  ASSUME Reached, HaltInv, MarkInv, "outside" \notin overlaps', [Next]_vars
  PROVE  MarkInv'
<1> SUFFICES ASSUME NEW m \in Nodes, NEW k \in Nodes
             PROVE  InOrder(m, k, Marks(k), Works)'
  <2>1. \A n \in Nodes : Marks(n)' = Marks(n)
    BY DEF Marks
  <2> QED BY DEF MarkInv
<1>1. InOrder(m, k, Marks(k), Works) /\ Placed /\ Root \in Nodes
  BY SizeType DEF MarkInv, Reached
<1>2. Begin \notin Works /\ Flush(k) \notin Works /\ \A c : Message(c, k) \in Works => c \in Work
  BY SignalForms DEF Works, Work, Message
<1>3. CASE \E n \in Nodes : Runner(n)
  <2>1. PICK n \in Nodes : Runner(n)
    BY <1>3
  <2> SUFFICES ASSUME NEW x \in Outcome(n), x.to = k
               PROVE  /\ x \in Marks(k) => Head(queue[n]) \in Marks(k)
                      /\ x \in Works => Head(queue[n]) \in Works
    BY <1>1, <2>1, RunnerOrder
  <2>2. x # Begin
    BY SignalForms
  <2>3. x = Flush(k) => Head(queue[n]) = Begin
    BY <1>1, <2>1, OutcomeHas
  <2>4. x \in Works => Head(queue[n]) = x
    <3>1. Flushed \notin Works /\ \A j \in Nodes : Message("flush", j) \notin Works
      BY SignalForms DEF Works, Work, Message
    <3> QED BY <3>1 DEF Outcome, ToAll
  <2> QED BY <2>2, <2>3, <2>4 DEF Marks
<1>4. CASE Takes /\ \E n \in Nodes : Spread(n) /\ Awake(n)
  <2>1. PICK n \in Nodes : Spread(n) /\ Awake(n)
    BY <1>4
  <2>2. PICK msgs \in Seq(Works) : Post(n, msgs)
    BY <2>1 DEF Spread
  <2>3. msgs \in Seq(Queued(n)) /\ NoneOf(msgs, Marks(k))
    <3>1. msgs \in Seq(Queued(n))
      BY QueuedForms, Larger
    <3>2. Works \cap Marks(k) = {}
      BY <1>2 DEF Marks
    <3> QED BY <3>1, <3>2, NoneOver
  <2>4. Clear(m, k, Marks(k))
    BY <2>1, AwakeForms, NoMarks
  <2> QED BY <1>1, <1>4, <2>2, <2>3, <2>4, PostOrder
<1>5. CASE Takes /\ Sends(Others)
  <2>1. PICK n \in Nodes : \E msgs \in Seq({x \in Queued(n) : x.cmd \in Others}) : Post(n, msgs)
    BY <1>5 DEF Sends
  <2>2. PICK msgs \in Seq({x \in Queued(n) : x.cmd \in Others}) : Post(n, msgs)
    BY <2>1
  <2>3. msgs \in Seq(Queued(n)) /\ NoneOf(msgs, Works)
    <3>1. {x \in Queued(n) : x.cmd \in Others} \cap Works = {}
      BY DEF Works, Work, Others, Controls
    <3> QED BY <2>2, <3>1, Larger, NoneOver
  <2> QED BY <1>1, <1>5, <2>2, <2>3, PostOrder
<1>6. CASE StartResume /\ Takes
  <2> DEFINE s == SetToSeq(ToAll("resume"))
  <2>1. Post(Root, s) /\ s \in Seq(Queued(Root))
    BY <1>6, CommandForms DEF StartResume, PostAll, FromRoot
  <2>2. NoneOf(s, Works)
    <3>1. s \in Seq(ToAll("resume"))
      BY ToAllForms
    <3>2. ToAll("resume") \cap Works = {}
      BY DEF ToAll, Message, Works, Work
    <3> QED BY <3>1, <3>2, NoneOver
  <2> HIDE DEF s
  <2> QED BY <1>1, <1>6, <2>1, <2>2, PostOrder
<1> QED BY <1>1, <1>3, <1>4, <1>5, <1>6, StepKinds

(* All nodes are held during a flush, or it begins with the step.          *)
LEMMA FlushingForms ==
  ASSUME Reached, [Next]_vars, manager'.at \in {"flushing", "flushed"}
  PROVE  StartFlush \/ (manager.at \in {"flushing", "flushed"} /\ \A k \in Nodes : Held(k))
<1>1. DOMAIN manager = {"at", "left"} /\ manager \in [at : {"idle", "pausing", "flushing", "flushed"}, left : Int]
  BY DEF Reached, Placed, PauseTypes
<1>2. CASE manager'.at = manager.at
  BY <1>2 DEF Reached, Phases, PhasePause
<1>3. CASE Manager
  <2>1. ~StartPause /\ ~StartResume
    BY <1>1 DEF StartPause, StartResume
  <2>2. EndFlush => manager.at = "flushing"
    BY DEF EndFlush
  <2> QED BY <1>3, <2>1, <2>2 DEF Manager, Reached, Phases, PhasePause
<1>4. ASSUME NEW m \in Nodes, NEW n \in Nodes, Receiver(m, n)
      PROVE  manager'.at = manager.at
  <2>1. UNCHANGED manager \/ manager' = [manager EXCEPT !.left = @ - 1]
    BY <1>4 DEF Receiver, ReceiveBarrier, ReceiveAlways, ReceivePaused, ReceiveRunning, Handle, Park, Resume,
       ClearPaused, control
  <2> QED BY <1>1, <2>1
<1>5. CASE (\E n \in Nodes : Runner(n) \/ Pool(n) \/ MainThread(n)) \/ UNCHANGED vars
  <2>1. UNCHANGED manager
    BY <1>5 DEF Runner, Pool, RunTask, SetPaused, ReportPaused, MainThread, EnterBarrier, LeaveBarrier, Launch,
       StartWorker, Stop, vars, control
  <2> QED BY <1>2, <2>1
<1> QED BY <1>2, <1>3, <1>4, <1>5 DEF Next, Terminated

(* A channel that is clear stays clear of what is not posted.              *)
LEMMA PostClear ==
  ASSUME Placed, NEW n \in Nodes, NEW msgs \in Seq(Queued(n)), Post(n, msgs), NEW m \in Nodes, NEW k \in Nodes,
         NEW B, NoneOf(msgs, B), NoneOf(queue[m], B), NoneOf(wire'[m][k], B)
  PROVE  Clear(m, k, B)'
<1>1. \A i \in Nodes : queue'[i] = IF i = n THEN queue[n] \o msgs ELSE queue[i]
  BY PostPlaces DEF Placed, Inv, BarInv
<1>2. queue[m] \in Seq(Msgs) /\ msgs \in Seq(Msgs)
  BY Sequences, QueuedForms, Larger
<1>3. NoneOf(queue[m] \o msgs, B)
  BY <1>2, NoneConcat
<1> QED BY <1>1, <1>3 DEF Clear

(* The runner adds no work to a clear channel.                             *)
LEMMA RunnerClear ==
  ASSUME Placed, NEW n \in Nodes, Runner(n), NEW m \in Nodes, NEW k \in Nodes, Clear(m, k, Works)
  PROVE  Clear(m, k, Works)'
<1>1. /\ queue[n] # <<>>
      /\ \A i \in Nodes : queue'[i] = IF i = n THEN Tail(queue[n]) ELSE queue[i]
      /\ \A i, j \in Nodes : wire'[i][j] = IF i = n THEN wire[n][j] \o For(j, Outcome(n)) ELSE wire[i][j]
      /\ For(k, Outcome(n)) \in Seq(Wired(n, k))
  BY RunnerForms DEF Placed, Inv, BarInv
<1>2. CASE m # n
  <2>1. queue'[m] = queue[m] /\ wire'[m][k] = wire[m][k]
    BY <1>1, <1>2
  <2> QED BY <2>1 DEF Clear
<1>3. CASE m = n
  <2> DEFINE t == For(k, Outcome(n))
  <2>1. queue[n] \in Seq(Msgs) /\ wire[n][k] \in Seq(Msgs) /\ NoneOf(queue[n], Works) /\ NoneOf(wire[n][k], Works)
    BY <1>3, Sequences DEF Clear
  <2>2. NoneOf(Tail(queue[n]), Works) /\ Head(queue[n]) \notin Works
    BY <1>1, <2>1, NoneTail
  <2>3. \A x \in Outcome(n) : x \notin Works
    <3>1. Flushed \notin Works /\ \A j \in Nodes : Message("flush", j) \notin Works
      BY SignalForms DEF Works, Work, Message
    <3> QED BY <2>2, <3>1 DEF Outcome, ToAll
  <2>4. t = <<>> \/ \E x \in Outcome(n) : t = <<x>>
    BY DEF For
  <2>5. NoneOf(t, Works)
    BY <2>3, <2>4, NoneEmpty, NoneSingle
  <2>6. t \in Seq(Msgs)
    BY <1>1, Larger DEF Wired
  <2> HIDE DEF t
  <2>7. NoneOf(wire[n][k] \o t, Works)
    BY <2>1, <2>5, <2>6, NoneConcat
  <2>8. queue'[m] = Tail(queue[n]) /\ wire'[m][k] = wire[n][k] \o t
    BY <1>1, <1>3 DEF t
  <2> QED BY <2>2, <2>7, <2>8 DEF Clear
<1> QED BY <1>2, <1>3

(* The runner sweeps nothing: it only puts the flush on its way.           *)
LEMMA RunnerSwept ==
  ASSUME Placed, Placed', NEW n \in Nodes, Runner(n), NEW m \in Nodes, NEW k \in Nodes, Swept(m, k)'
  PROVE  Swept(m, k)
<1>1. /\ manager'.at \in {"flushing", "flushed"} /\ UNCHANGED manager
      /\ Starts(m)' = 0 /\ Begins(m)' = 0 /\ Count(wire'[m][k], Flush(k)) = 0
  BY DEF Swept, Runner
<1>2. /\ Starts(m)' = Starts(m)
      /\ Begins(m) = Begins(m)' + IF m = n /\ Head(queue[n]) = Begin THEN 1 ELSE 0
  BY RunnerLedger
<1>3. Count(wire'[m][k], Flush(k))
        = Count(wire[m][k], Flush(k)) + IF m = n /\ Flush(k) \in Outcome(n) /\ Flush(k).to = k THEN 1 ELSE 0
  BY RunnerCounts
<1>4. Flush(k).to = k /\ (Flush(k) \in Outcome(n) <=> Head(queue[n]) = Begin)
  BY OutcomeHas, SignalForms
<1>5. Count(wire[m][k], Flush(k)) \in Nat
  BY NumbersType
<1>6. ~(m = n /\ Head(queue[n]) = Begin) /\ Count(wire[m][k], Flush(k)) = 0
  BY <1>1, <1>3, <1>4, <1>5
<1> QED BY <1>1, <1>2, <1>6 DEF Swept

(* Nor does who only posts.                                                *)
LEMMA PostSwept ==
  ASSUME Placed, Placed', NEW n \in Nodes, NEW msgs, Adds(n, msgs), UNCHANGED wire,
         NEW m \in Nodes, NEW k \in Nodes, Swept(m, k)', manager.at \in {"flushing", "flushed"}
  PROVE  Swept(m, k)
<1>1. Starts(m)' = 0 /\ Begins(m)' = 0 /\ Count(wire[m][k], Flush(k)) = 0
  BY DEF Swept
<1>2. /\ Starts(m) = Count(queue[Root], Start(m)) + Count(wire[Root][m], Start(m)) /\ Begins(m) = Count(queue[m], Begin)
      /\ Starts(m)' = Count(queue'[Root], Start(m)) + Count(wire[Root][m], Start(m)) /\ Begins(m)' = Count(queue'[m], Begin)
  BY Numbers, NumbersAfter
<1>3. Root \in Nodes /\ \A x : Count(msgs, x) \in Nat
  BY SizeType DEF Adds
<1>4. /\ Count(queue'[Root], Start(m)) = Count(queue[Root], Start(m)) + IF Root = n THEN Count(msgs, Start(m)) ELSE 0
      /\ Count(queue'[m], Begin) = Count(queue[m], Begin) + IF m = n THEN Count(msgs, Begin) ELSE 0
  BY <1>3 DEF Adds
<1>5. /\ Count(queue[Root], Start(m)) \in Nat /\ Count(wire[Root][m], Start(m)) \in Nat /\ Count(queue[m], Begin) \in Nat
      /\ Count(msgs, Start(m)) \in Nat /\ Count(msgs, Begin) \in Nat
  BY <1>3, NumbersType
<1>6. Begins(m) = 0
  <2>1. Count(queue[m], Begin) + (IF m = n THEN Count(msgs, Begin) ELSE 0) = 0
    BY <1>1, <1>2, <1>4
  <2> QED BY <1>2, <1>5, <2>1
<1>7. Starts(m) = 0
  <2>1. Count(queue'[Root], Start(m)) + Count(wire[Root][m], Start(m)) = 0
    BY <1>1, <1>2
  <2>2. Count(queue'[Root], Start(m)) \in Nat
    BY <1>4, <1>5
  <2>3. Count(queue'[Root], Start(m)) = 0 /\ Count(wire[Root][m], Start(m)) = 0
    BY <1>5, <2>1, <2>2
  <2>4. Count(queue[Root], Start(m)) = 0
    BY <1>4, <1>5, <2>3
  <2> QED BY <1>2, <2>3, <2>4
<1> QED BY <1>1, <1>6, <1>7 DEF Swept

(* A channel is swept when its flush is received.                          *)
LEMMA TakeSwept ==
  ASSUME Placed, Placed', NEW i \in Nodes, NEW j \in Nodes, NEW y, Removes(i, j, y), NEW msgs, Adds(j, msgs),
         i = Root /\ y = Start(j) => Count(msgs, Begin) > 0,
         NEW m \in Nodes, NEW k \in Nodes, Swept(m, k)', manager.at \in {"flushing", "flushed"}
  PROVE  Swept(m, k) \/ (i = m /\ j = k /\ y = Flush(k))
<1>1. Starts(m)' = 0 /\ Begins(m)' = 0 /\ Count(wire'[m][k], Flush(k)) = 0
  BY DEF Swept
<1>2. /\ Starts(m)' + (IF i = Root /\ j = m /\ y = Start(m) THEN 1 ELSE 0)
           = Starts(m) + IF j = Root THEN Count(msgs, Start(m)) ELSE 0
      /\ Begins(m)' = Begins(m) + IF j = m THEN Count(msgs, Begin) ELSE 0
  BY TakeLedger
<1>3. Count(wire[m][k], Flush(k)) = Count(wire'[m][k], Flush(k)) + IF i = m /\ j = k /\ y = Flush(k) THEN 1 ELSE 0
  <2>1. \A a, b \in Nodes : \A x :
          Count(wire[a][b], x) = Count(wire'[a][b], x) + IF i = a /\ j = b /\ y = x THEN 1 ELSE 0
    BY DEF Removes
  <2> HIDE DEF Count, Flush
  <2> QED BY <2>1
<1>4. /\ Starts(m) \in Nat /\ Begins(m) \in Nat /\ Count(msgs, Start(m)) \in Nat /\ Count(msgs, Begin) \in Nat
  BY NumbersType DEF Adds
<1>5. Begins(m) = 0 /\ ~(i = Root /\ j = m /\ y = Start(m))
  BY <1>1, <1>2, <1>4
<1>6. Starts(m) = 0
  BY <1>1, <1>2, <1>4, <1>5
<1> QED BY <1>1, <1>3, <1>5, <1>6 DEF Swept

(* A message received by a node that is held.                              *)
LEMMA TakenHeld ==
  ASSUME Reached, Placed', NEW m \in Nodes, NEW n \in Nodes, Held(n), ReceivePaused(m, n)
  PROVE  /\ Head(wire[m][n]).cmd \notin {"pause", "resume"}
         /\ Head(wire[m][n]) \notin Works => UNCHANGED receiver
<1> DEFINE y == Head(wire[m][n])
<1>1. /\ wire[m][n] # <<>> /\ wire' = [wire EXCEPT ![m][n] = Tail(@)]
      /\ CASE y.cmd = "resume" -> Becomes(m, n, Resuming(1))
           [] y.cmd \in {"work", "shutdown", "pause"} -> Becomes(m, n, Busy("park", y))
           [] OTHER -> UNCHANGED receiver
  BY DEF ReceivePaused
<1>2. /\ y.cmd = "pause" => Calls(n) > 0
      /\ y.cmd = "resume" => Resumes(n) > 0
  BY <1>1, TakenForms DEF Reached
<1>3. Calls(n) = 0 /\ Resumes(n) = 0
  BY DEF Held, Quiet
<1>4. y.cmd \notin {"pause", "resume"}
  BY <1>2, <1>3
<1>5. y \in Msgs
  BY <1>1, RemovesWhenTaken DEF Reached
<1>6. y \notin Works => y.cmd \notin {"work", "shutdown"}
  BY <1>5 DEF Works, Work
<1> HIDE DEF y
<1>7. y \notin Works => UNCHANGED receiver
  BY <1>1, <1>4, <1>6
<1> QED BY <1>4, <1>7 DEF y

(* A channel that is swept after a step was swept before, or its flush is  *)
(* received by the step.                                                   *)
LEMMA SweptBefore ==
  ASSUME Reached, Placed', [Next]_vars, \A j \in Nodes : Held(j), manager.at \in {"flushing", "flushed"},
         Takes, Sends(Others), NEW m \in Nodes, NEW k \in Nodes, Swept(m, k)'
  PROVE  \/ Swept(m, k)
         \/ /\ wire[m][k] # <<>> /\ wire'[m][k] = Tail(wire[m][k]) /\ Head(wire[m][k]) = Flush(k)
            /\ receiver[m][k] = Idle /\ receiver'[m][k] = Idle
<1>1. Placed /\ QueueType /\ wire \in [Nodes -> [Nodes -> Seq(Msgs)]]
  BY DEF Reached, Placed, Inv, BarInv, WireType
<1>2. CASE UNCHANGED wire
  <2>1. PICK n \in Nodes : \E msgs \in Seq({x \in Queued(n) : x.cmd \in Others}) : Post(n, msgs)
    BY DEF Sends
  <2>2. PICK msgs \in Seq({x \in Queued(n) : x.cmd \in Others}) : Post(n, msgs)
    BY <2>1
  <2>3. msgs \in Seq(Queued(n))
    BY <2>2, Larger
  <2>4. Adds(n, msgs)
    BY <1>1, <2>2, <2>3, AddsWhenPosted
  <2> QED BY <1>1, <1>2, <2>4, PostSwept
<1>3. ASSUME NEW i \in Nodes, NEW j \in Nodes, ReceiveBarrier(i, j)
      PROVE  Swept(m, k)
  <2> DEFINE y == Head(wire[i][j])
  <2>1. /\ wire[i][j] # <<>> /\ wire' = [wire EXCEPT ![i][j] = Tail(@)]
        /\ y.cmd \in {"paused", "barrier", "barrier_done"}
        /\ UNCHANGED queue \/ Post(j, Round(arrived + 1))
    BY <1>3 DEF ReceiveBarrier, ReceiveAlways
  <2>2. Removes(i, j, y)
    BY <1>1, <2>1, TakenForms
  <2>3. \E msgs : Adds(j, msgs)
    <3>1. CASE UNCHANGED queue
      BY <1>1, <3>1, NothingAdded
    <3>2. CASE Post(j, Round(arrived + 1))
      <4>1. {x \in Msgs : x.cmd \in Barriers} \subseteq Queued(j)
        BY QueuedForms DEF Neutral
      <4>2. Round(arrived + 1) \in Seq(Queued(j))
        BY <4>1, RoundForms, Larger
      <4> QED BY <1>1, <3>2, <4>2, AddsWhenPosted
    <3> QED BY <2>1, <3>1, <3>2
  <2>4. y # Start(j) /\ y # Flush(k)
    BY <2>1, SignalForms
  <2> HIDE DEF y
  <2> QED BY <1>1, <2>2, <2>3, <2>4, TakeSwept
<1>4. ASSUME NEW i \in Nodes, NEW j \in Nodes, ReceivePaused(i, j)
      PROVE  \/ Swept(m, k)
             \/ /\ wire[m][k] # <<>> /\ wire'[m][k] = Tail(wire[m][k]) /\ Head(wire[m][k]) = Flush(k)
                /\ receiver[m][k] = Idle /\ receiver'[m][k] = Idle
  <2> DEFINE y == Head(wire[i][j])
  <2>1. /\ wire[i][j] # <<>> /\ wire' = [wire EXCEPT ![i][j] = Tail(@)]
        /\ Post(j, Answer(i, y)) /\ receiver[i][j] = Idle
    BY <1>4 DEF ReceivePaused
  <2>2. Removes(i, j, y)
    BY <1>1, <2>1, TakenForms
  <2>3. Adds(j, Answer(i, y))
    BY <1>1, <2>1, AnswerForms, AddsWhenPosted
  <2>4. y = Start(j) => Count(Answer(i, y), Begin) > 0
    <3>1. y = Start(j) => Answer(i, y) = <<Begin>>
      BY SignalForms DEF Answer, Begin
    <3>2. Count(<<Begin>>, Begin) = 1
      BY CountSingle
    <3> QED BY <3>1, <3>2
  <2>5. i = m /\ j = k /\ y = Flush(k) => UNCHANGED receiver /\ wire'[m][k] = Tail(wire[m][k])
    <3>1. Flush(k) \notin Works
      BY SignalForms DEF Works, Work
    <3>2. wire'[i][j] = Tail(wire[i][j])
      BY <1>1, <2>1
    <3> QED BY <1>4, <3>1, <3>2, TakenHeld
  <2>6. Swept(m, k) \/ (i = m /\ j = k /\ y = Flush(k))
    <3> HIDE DEF y
    <3> QED BY <1>1, <2>2, <2>3, <2>4, TakeSwept
  <2> QED BY <2>1, <2>5, <2>6
<1>5. \A i, j \in Nodes : ~ReceiveRunning(i, j)
  BY DEF ReceiveRunning, Held, Quiet
<1>6. CASE \E i, j \in Nodes : Handle(i, j) \/ Park(i, j) \/ Resume(i, j) \/ ClearPaused(i, j)
  <2>1. UNCHANGED wire
    BY <1>6 DEF Handle, Park, Resume, ClearPaused
  <2> QED BY <1>2, <2>1
<1>7. CASE (\E n \in Nodes : Pool(n) \/ MainThread(n)) \/ Manager \/ UNCHANGED vars
  <2>1. UNCHANGED wire
    BY <1>7 DEF Pool, RunTask, SetPaused, ReportPaused, MainThread, EnterBarrier, LeaveBarrier, Launch, StartWorker,
       Stop, Manager, StartPause, StartFlush, EndFlush, StartResume, vars
  <2> QED BY <1>2, <2>1
<1>8. CASE \E n \in Nodes : Runner(n)
  BY <1>1, <1>8, RunnerSwept
<1> QED BY <1>3, <1>4, <1>5, <1>6, <1>7, <1>8 DEF Next, Receiver, Terminated

(* When the flush of m has reached n, no work is on its way from m to n.   *)
LEMMA SweepStep ==
  ASSUME Reached, Placed', HaltInv, MarkInv, SweepInv, "outside" \notin overlaps', [Next]_vars
  PROVE  SweepInv'
<1> SUFFICES ASSUME NEW m \in Nodes, NEW k \in Nodes, Swept(m, k)'
             PROVE  receiver'[m][k] = Idle /\ Clear(m, k, Works)'
  <2>1. Works' = Works /\ Idle' = Idle
    BY DEF Works, Idle
  <2> QED BY <2>1 DEF SweepInv
<1>1. Placed /\ Root \in Nodes /\ manager'.at \in {"flushing", "flushed"}
  BY SizeType DEF Reached, Swept
<1>2. ~StartFlush
  <2> SUFFICES ASSUME StartFlush
               PROVE  FALSE
    OBVIOUS
  <2>1. PostAll(Root, "start_flush") /\ UNCHANGED wire /\ "start_flush" \in FromRoot
    BY DEF StartFlush, FromRoot
  <2>2. Starts(m)' = Starts(m) + 1
    BY <1>1, <2>1, AllLedger
  <2>3. Starts(m) \in Nat /\ Starts(m)' = 0
    BY <1>1, NumbersType DEF Swept
  <2> QED BY <2>2, <2>3
<1>3. manager.at \in {"flushing", "flushed"} /\ \A j \in Nodes : Held(j)
  BY <1>1, <1>2, FlushingForms
<1>4. Swept(m, k) => receiver'[m][k] = Idle
  <2> SUFFICES ASSUME Swept(m, k)
               PROVE  receiver'[m][k] = Idle
    OBVIOUS
  <2>1. receiver[m][k] = Idle /\ NoneOf(wire[m][k], Works)
    BY DEF SweepInv, Clear
  <2>2. ~ReceiveRunning(m, k)
    BY <1>3 DEF ReceiveRunning, Held, Quiet
  <2>3. ReceivePaused(m, k) => UNCHANGED receiver
    <3> SUFFICES ASSUME ReceivePaused(m, k)
                 PROVE  UNCHANGED receiver
      OBVIOUS
    <3>1. wire[m][k] # <<>> /\ wire[m][k] \in Seq(Msgs)
      BY <1>1, Sequences DEF ReceivePaused
    <3>2. Head(wire[m][k]) \notin Works
      BY <2>1, <3>1, NoneTail
    <3> QED BY <1>3, <3>2, TakenHeld
  <2> QED BY <2>1, <2>2, <2>3, LeavesIdle
<1>5. CASE \E n \in Nodes : Runner(n)
  <2>1. PICK n \in Nodes : Runner(n)
    BY <1>5
  <2>2. Swept(m, k)
    BY <1>1, <2>1, RunnerSwept
  <2>3. Clear(m, k, Works)
    BY <2>2 DEF SweepInv
  <2>4. Clear(m, k, Works)'
    BY <1>1, <2>1, <2>3, RunnerClear
  <2> QED BY <1>4, <2>2, <2>4
<1>6. ~(\E n \in Nodes : Spread(n) /\ Awake(n))
  BY <1>3, AwakeForms
<1>7. ~StartResume
  BY <1>1, <1>3 DEF StartResume, Reached, Placed, PauseTypes
<1>8. CASE Takes /\ Sends(Others)
  <2>1. PICK n \in Nodes : \E msgs \in Seq({x \in Queued(n) : x.cmd \in Others}) : Post(n, msgs)
    BY <1>8 DEF Sends
  <2>2. PICK msgs \in Seq({x \in Queued(n) : x.cmd \in Others}) : Post(n, msgs)
    BY <2>1
  <2>3. msgs \in Seq(Queued(n)) /\ NoneOf(msgs, Works)
    <3>1. {x \in Queued(n) : x.cmd \in Others} \cap Works = {}
      BY DEF Works, Work, Others, Controls
    <3> QED BY <2>2, <3>1, Larger, NoneOver
  <2>4. wire[m][k] \in Seq(Msgs) /\ InOrder(m, k, Marks(k), Works)
    BY <1>1, Sequences DEF MarkInv
  <2>5. CASE Swept(m, k)
    <3>1. NoneOf(queue[m], Works) /\ NoneOf(wire[m][k], Works)
      BY <2>5 DEF SweepInv, Clear
    <3>2. NoneOf(wire'[m][k], Works)
      BY <1>1, <1>8, <2>4, <3>1, TakesForms, NoneTail
    <3>3. Clear(m, k, Works)'
      BY <1>1, <2>2, <2>3, <3>1, <3>2, PostClear
    <3> QED BY <1>4, <2>5, <3>3
  <2>6. CASE /\ wire[m][k] # <<>> /\ wire'[m][k] = Tail(wire[m][k]) /\ Head(wire[m][k]) = Flush(k)
             /\ receiver[m][k] = Idle /\ receiver'[m][k] = Idle
    <3>1. Head(wire[m][k]) \in Marks(k)
      BY <2>6 DEF Marks
    <3>2. NoneOf(Tail(wire[m][k]), Works) /\ NoneOf(queue[m], Works)
      BY <2>4, <2>6, <3>1, OrderTakes DEF InOrder
    <3>3. NoneOf(wire'[m][k], Works)
      BY <2>6, <3>2
    <3>4. Clear(m, k, Works)'
      BY <1>1, <2>2, <2>3, <3>2, <3>3, PostClear
    <3> QED BY <2>6, <3>4
  <2> QED BY <1>3, <1>8, <2>5, <2>6, SweptBefore
<1> QED BY <1>1, <1>5, <1>6, <1>7, <1>8, StepKinds

(* No flush meets work.                                                    *)
LEMMA SoundStep ==
  ASSUME Reached, Placed', MarkInv, SweepInv, SoundInv, "outside" \notin overlaps', [Next]_vars
  PROVE  SoundInv'
<1>1. flush \in [Nodes -> [on : BOOLEAN, dirty : BOOLEAN, left : Int]] /\ Placed
  BY DEF Reached, Placed, PauseTypes
<1>2. CASE UNCHANGED <<flush, faults>>
  BY <1>2 DEF SoundInv
<1>3. ASSUME NEW n \in Nodes, Runner(n)
      PROVE  SoundInv'
  <2>1. Head(queue[n]) = Begin => ~flush[n].on
    BY <1>3, RunnerPhases DEF Reached
  <2>2. flush[n].on => Head(queue[n]) \notin Works
    <3> SUFFICES ASSUME flush[n].on
                 PROVE  Head(queue[n]) \notin Works
      OBVIOUS
    <3>1. FlushInv(n)
      BY DEF Reached, Phases
    <3>2. Starts(n) = 0 /\ Begins(n) = 0 /\ Open(n)
      BY <1>1, <3>1, StagesForms
    <3>3. manager.at = "flushing"
      BY <1>1, <3>2, WhereIs DEF Reached
    <3>4. queue[n] \in Seq(Msgs) /\ wire[n][n] \in Seq(Msgs) /\ queue[n] # <<>>
      BY <1>1, <1>3, Sequences DEF Runner
    <3>5. NoneOf(queue[n], Works)
      <4>1. CASE Count(wire[n][n], Flush(n)) = 0
        BY <3>2, <3>3, <4>1 DEF SweepInv, Swept, Clear
      <4>2. CASE Count(wire[n][n], Flush(n)) # 0
        <5>1. ~NoneOf(wire[n][n], {Flush(n)})
          BY <3>4, <4>2, NoneCounted
        <5>2. ~NoneOf(wire[n][n], Marks(n))
          BY <5>1 DEF NoneOf, Marks
        <5> QED BY <5>2 DEF MarkInv, InOrder, Ordered
      <4> QED BY <4>1, <4>2
    <3> QED BY <3>4, <3>5, NoneTail
  <2>3. \A k \in Nodes : ~flush[k].dirty /\ faults = {}
    BY DEF SoundInv
  <2>4. CASE Head(queue[n]) = Begin
    <3>0. Begin # Back
      BY SignalForms
    <3>1. /\ flush' = [flush EXCEPT ![n] = [on |-> TRUE, dirty |-> FALSE, left |-> Cardinality(Nodes)]]
          /\ faults' = IF flush[n].on THEN faults \cup {"flushing"} ELSE faults
      BY <1>3, <2>4, <3>0 DEF Runner, Begin, Back
    <3>2. \A k \in Nodes : ~flush'[k].dirty
      BY <1>1, <2>3, <3>1
    <3> QED BY <2>1, <2>3, <2>4, <3>1, <3>2 DEF SoundInv
  <2>5. CASE Head(queue[n]) = Back
    <3>1. Head(queue[n]) # Begin
      BY <2>5, SignalForms
    <3>2. /\ flush' = [flush EXCEPT ![n].left = @ - 1, ![n].on = flush[n].left > 1]
          /\ UNCHANGED faults
      BY <1>3, <2>3, <2>5, <3>1 DEF Runner, Begin, Back
    <3>3. \A k \in Nodes : flush'[k].dirty = flush[k].dirty
      BY <1>1, <3>2
    <3> QED BY <2>3, <3>2, <3>3 DEF SoundInv
  <2>6. CASE Head(queue[n]) # Begin /\ Head(queue[n]) # Back
    <3> DEFINE b == flush[n].dirty \/ (flush[n].on /\ Head(queue[n]).cmd \in {"work", "shutdown"})
    <3>1. flush' = [flush EXCEPT ![n].dirty = b] /\ UNCHANGED faults
      BY <1>3, <2>6 DEF Runner, Begin, Back
    <3>2. b <=> FALSE
      <4>1. queue[n] \in Seq(Msgs) /\ queue[n] # <<>>
        BY <1>1, <1>3, Sequences DEF Runner
      <4>2. Head(queue[n]) \in Msgs
        BY <4>1
      <4> QED BY <2>2, <2>3, <4>2 DEF Works, Work
    <3>3. b \in BOOLEAN
      OBVIOUS
    <3> HIDE DEF b
    <3>4. \A k \in Nodes : flush'[k].dirty <=> FALSE
      BY <1>1, <2>3, <3>1, <3>2, <3>3
    <3> QED BY <2>3, <3>1, <3>4 DEF SoundInv
  <2> QED BY <2>4, <2>5, <2>6
<1>4. ASSUME NEW m \in Nodes, NEW n \in Nodes, ReceivePaused(m, n) \/ ReceiveRunning(m, n)
      PROVE  SoundInv'
  <2>1. UNCHANGED flush
    BY <1>4 DEF ReceivePaused, ReceiveRunning
  <2> QED BY <1>2, <1>4, <2>1, ReceiveForms
<1>5. CASE (\E n \in Nodes : Pool(n) \/ MainThread(n)) \/ Manager \/ UNCHANGED vars
  BY <1>2, <1>5 DEF Pool, RunTask, SetPaused, ReportPaused, MainThread, EnterBarrier, LeaveBarrier, Launch,
     StartWorker, Stop, Manager, StartPause, StartFlush, EndFlush, StartResume, vars, control
<1>6. CASE \E m, n \in Nodes : ReceiveBarrier(m, n) \/ Handle(m, n) \/ Park(m, n) \/ Resume(m, n) \/ ClearPaused(m, n)
  BY <1>2, <1>6 DEF ReceiveBarrier, Handle, Park, Resume, ClearPaused, control
<1> QED BY <1>3, <1>4, <1>5, <1>6 DEF Next, Receiver, Terminated

(* A pause without work outside of the tasks is clean.                     *)
LEMMA CleanStep ==
  ASSUME Reached, Placed', ReceiverInv, CleanInv, [Next]_vars
  PROVE  CleanInv'
<1> SUFFICES ASSUME "outside" \notin overlaps'
             PROVE  (HaltInv /\ MarkInv /\ SweepInv /\ SoundInv)'
  BY DEF CleanInv
<1>1. HaltInv /\ MarkInv /\ SweepInv /\ SoundInv
  BY OverlapsGrow DEF CleanInv
<1>2. HaltInv'
  BY <1>1, HaltStep
<1>3. MarkInv'
  BY <1>1, MarkStep
<1>4. SweepInv'
  BY <1>1, SweepStep
<1>5. SoundInv'
  BY <1>1, SoundStep
<1> QED BY <1>2, <1>3, <1>4, <1>5

-----------------------------------------------------------------------------
(***************************************************************************)
(* The pause.                                                              *)
(***************************************************************************)
Effects == ReceiverInv /\ LostInv /\ FaultInv /\ CleanInv

(* At the start nothing is under way and nothing has happened.             *)
LEMMA InitEffects == Init => Effects
<1> SUFFICES ASSUME Init
             PROVE  Effects
  OBVIOUS
<1>1. /\ \A n \in Nodes : queue[n] = <<>> /\ ~isPaused[n] /\ ~flush[n].dirty
      /\ \A m, n \in Nodes : wire[m][n] = <<>> /\ receiver[m][n] = Idle
      /\ lost = {} /\ faults = {} /\ manager.at = "idle"
  BY DEF Init
<1>2. ReceiverInv /\ LostInv /\ FaultInv
  BY <1>1, AtForms DEF ReceiverInv, LostInv, FaultInv
<1>3. HaltInv /\ SweepInv /\ SoundInv
  BY <1>1 DEF HaltInv, SweepInv, Swept, SoundInv
<1>4. MarkInv
  BY <1>1, NoneEmpty DEF MarkInv, InOrder, Ordered
<1> QED BY <1>2, <1>3, <1>4 DEF Effects, CleanInv

(* Every step keeps them.                                                  *)
LEMMA EffectsStep ==
  ASSUME Reached, Placed', Effects, [Next]_vars
  PROVE  Effects'
BY ReceiverStep, LostStep, FaultStep, CleanStep DEF Effects

(* The nodes stop, the channels are empty, only the known race loses.      *)
LEMMA PauseImplied == Reached /\ Effects => PauseHolds
<1> SUFFICES ASSUME Reached, Effects
             PROVE  PauseHolds
  OBVIOUS
<1>1. StoppedWhilePaused
  <2> SUFFICES ASSUME manager.at \in {"flushing", "flushed"} \/ manager = [at |-> "pausing", left |-> 0]
               PROVE  \A n \in Nodes : Held(n)
    BY DEF StoppedWhilePaused, Held, Quiet
  <2>1. CASE manager.at \in {"flushing", "flushed"}
    BY <2>1 DEF Reached, Phases, PhasePause
  <2>2. CASE manager = [at |-> "pausing", left |-> 0]
    <3> DEFINE S == {n \in Nodes : ~Held(n)}
    <3>1. Cardinality(S) = 0
      BY <2>2 DEF Reached, Phases, PhasePause
    <3>2. IsFiniteSet(S)
      BY ControlAssumption, FS_Subset
    <3>3. S = {}
      BY <3>1, <3>2, FS_EmptySet
    <3> QED BY <3>3
  <2> QED BY <2>1, <2>2
<1>2. FlushEmptiesChannels
  <2> SUFFICES ASSUME "outside" \notin overlaps
               PROVE  /\ faults = {}
                      /\ manager.at = "flushed" => InFlight = {} /\ \A m, n \in Nodes : receiver[m][n] = Idle
    BY DEF FlushEmptiesChannels
  <2>1. SweepInv /\ SoundInv
    BY DEF Effects, CleanInv
  <2>2. ASSUME manager.at = "flushed"
        PROVE  \A m, n \in Nodes : receiver[m][n] = Idle /\ Clear(m, n, Works)
    <3> SUFFICES ASSUME NEW m \in Nodes, NEW n \in Nodes
                 PROVE  Swept(m, n)
      BY <2>1 DEF SweepInv
    <3>1. FlushInv(m) /\ ~Open(m) /\ Placed
      BY <2>2 DEF Reached, Phases, PhaseFlush
    <3>2. Starts(m) = 0 /\ Begins(m) = 0
      BY <3>1, StagesForms
    <3>3. NoneOf(wire[m][n], Marks(n)) /\ wire[m][n] \in Seq(Msgs)
      BY <3>1, NoMarks, Sequences DEF Clear
    <3>4. NoneOf(wire[m][n], {Flush(n)})
      BY <3>3 DEF NoneOf, Marks
    <3>5. Count(wire[m][n], Flush(n)) = 0
      BY <3>3, <3>4, NoneCounted
    <3> QED BY <2>2, <3>2, <3>5 DEF Swept
  <2>3. ASSUME manager.at = "flushed"
        PROVE  InFlight = {}
    <3>1. \A m, n \in Nodes : Clear(m, n, Works) /\ queue[m] \in Seq(Msgs) /\ wire[m][n] \in Seq(Msgs)
      BY <2>2, <2>3, Sequences DEF Reached
    <3>2. ASSUME NEW s \in Seq(Msgs), NoneOf(s, Works)
          PROVE  \A x \in Range(s) : x.cmd \notin {"work", "shutdown"}
      BY <3>2 DEF Range, NoneOf, Works, Work
    <3>3. \A n \in Nodes : \A x \in Range(queue[n]) : x.cmd \notin {"work", "shutdown"}
      BY <3>1, <3>2 DEF Clear
    <3>4. \A m, n \in Nodes : \A x \in Range(wire[m][n]) : x.cmd \notin {"work", "shutdown"}
      BY <3>1, <3>2 DEF Clear
    <3> QED BY <3>3, <3>4 DEF InFlight
  <2> QED BY <2>1, <2>2, <2>3 DEF SoundInv
<1>3. OnlyRacesLose
  BY DEF Effects, LostInv, OnlyRacesLose
<1> QED BY <1>1, <1>2, <1>3 DEF PauseHolds

(* From the moment all nodes have reported that they are paused until the  *)
(* manager resumes them no node runs a task; when the flush is over no     *)
(* message of the program is in a queue, on a wire or in the hands of a    *)
(* receiver, unless a handler or the launcher was at work at a paused      *)
(* node; and no message put aside is lost, unless it was put aside while   *)
(* its node resumed.                                                       *)
THEOREM PauseStops == Spec => []PauseHolds
<1>1. Spec => []Placed /\ [](Phases /\ OrderInv)
  BY AlwaysPlaced, AlwaysPhases
<1>2. Init => Effects
  BY InitEffects
<1>3. Reached /\ Placed' /\ Effects /\ [Next]_vars => Effects'
  BY EffectsStep
<1>4. Reached /\ Effects => PauseHolds
  BY PauseImplied
<1>5. Placed /\ (Phases /\ OrderInv) <=> Reached
  BY DEF Reached
<1> QED BY <1>1, <1>2, <1>3, <1>4, <1>5, PTL DEF Spec

(* Of the assertions only that of a flush that meets work can fail: a flush *)
(* never starts while another one goes on, and no command of a flush or of *)
(* a resume is received by a running node.                                 *)
THEOREM OnlyFlushesFail == Spec => [](faults \subseteq {"dirty"})
<1>1. Spec => []Placed /\ [](Phases /\ OrderInv)
  BY AlwaysPlaced, AlwaysPhases
<1>2. Init => Effects
  BY InitEffects
<1>3. Reached /\ Placed' /\ Effects /\ [Next]_vars => Effects'
  BY EffectsStep
<1>4. Effects => faults \subseteq {"dirty"}
  BY DEF Effects, FaultInv
<1>5. Placed /\ (Phases /\ OrderInv) <=> Reached
  BY DEF Reached
<1> QED BY <1>1, <1>2, <1>3, <1>4, <1>5, PTL DEF Spec
=============================================================================
