-------------------------- MODULE DbCoherence_proofs --------------------------
(***************************************************************************)
(* Proofs about the coherence protocol, for every number of nodes and      *)
(* tasks: type correctness, the exclusion of the local lock tables, the    *)
(* coherence of the copies, the assertions of the handlers, and that the   *)
(* protocol implements DbPromise.                                          *)
(*                                                                         *)
(* The lemmas follow the module: what each operator on results returns,    *)
(* what it does to the lock table, then one lemma per handler; the theorems*)
(* put them together action by action.                                     *)
(***************************************************************************)
EXTENDS DbCoherence, FiniteSetTheorems, WellFoundedInduction, TLAPS

(***************************************************************************)
(* Induction over the naturals, by the least counterexample, and what it   *)
(* gives for the recursive function in Without.                            *)
(***************************************************************************)
(* A nonempty set of naturals has a least element.                         *)
LEMMA LeastNumber ==
  ASSUME NEW T \in SUBSET Nat, T # {}
  PROVE  \E n \in T : \A m \in T : n <= m
<1>1. PICK n \in T : \A m \in T : ~(<<m, n>> \in OpToRel(<, Nat))
  BY NatLessThanWellFounded, WFMin
<1>2. \A m \in T : ~(m < n)
  BY <1>1 DEF OpToRel
<1> QED
  BY <1>2

(* Without(w, G) is a sequence over the elements of w that are not in G.  *)
LEMMA WithoutType ==
  ASSUME NEW S, NEW w \in Seq(S), NEW G
  PROVE  Without(w, G) \in Seq(S \ G)
<1> DEFINE N == Len(w)
           step(f, i) == IF i = 0 THEN <<>>
                         ELSE IF w[i] \in G THEN f[i - 1] ELSE Append(f[i - 1], w[i])
           Solves(f, n) == f \in [0..n -> Seq(S \ G)] /\ \A i \in 0..n : f[i] = step(f, i)
           kept == CHOOSE f : f = [i \in 0..N |-> step(f, i)]
<1>1. N \in Nat
  OBVIOUS
<1>2. \E f : Solves(f, 0)
  <2>1. Solves([i \in 0..0 |-> <<>>], 0)
    OBVIOUS
  <2> QED
    BY <2>1
<1>3. ASSUME NEW n \in 1..N, NEW f, Solves(f, n - 1)
      PROVE  \E g : Solves(g, n)
  <2> DEFINE g == [i \in 0..n |-> IF i = n THEN step(f, n) ELSE f[i]]
  <2>1. f[n - 1] \in Seq(S \ G) /\ w[n] \in S
    BY <1>3, <1>1
  <2>2. step(f, n) \in Seq(S \ G)
    BY <2>1, <1>1
  <2>3. g \in [0..n -> Seq(S \ G)]
    BY <2>2, <1>3, <1>1
  <2>4. n - 1 \in 0..(n - 1) /\ \A i \in 0..(n - 1) : g[i] = f[i]
    BY <1>1
  <2>5. ASSUME NEW i \in 0..n PROVE g[i] = step(g, i)
    <3>1. CASE i = n
      <4>1. g[n] = step(f, n) /\ g[n - 1] = f[n - 1]
        BY <2>4
      <4> HIDE DEF g
      <4> QED
        BY <3>1, <4>1
    <3>2. CASE i # n
      <4>1. i \in 0..(n - 1) /\ (i # 0 => i - 1 \in 0..(n - 1))
        BY <3>2, <1>1
      <4> HIDE DEF g
      <4> QED
        BY <4>1, <2>4, <1>3
    <3> QED
      BY <3>1, <3>2
  <2> QED
    BY <2>3, <2>5
<1> HIDE DEF Solves
<1>4. \A n \in 0..N : \E f : Solves(f, n)
  <2> DEFINE Bad == {n \in 0..N : ~\E f : Solves(f, n)}
  <2> SUFFICES ASSUME Bad # {} PROVE FALSE
    OBVIOUS
  <2>1. Bad \in SUBSET Nat
    BY <1>1
  <2>2. PICK n \in Bad : \A m \in Bad : n <= m
    <3> HIDE DEF Bad
    <3> QED
      BY <2>1, LeastNumber
  <2>3. n \in 1..N
    BY <1>1, <1>2
  <2>4. n - 1 \in 0..N /\ n - 1 \notin Bad
    BY <2>2, <2>3, <1>1
  <2> QED
    BY <1>3, <2>3, <2>4
<1>5. PICK f : Solves(f, N)
  BY <1>1, <1>4
<1>6. f = [i \in 0..N |-> step(f, i)]
  BY <1>5 DEF Solves
<1>7. kept = [i \in 0..N |-> step(kept, i)]
  BY <1>6
<1>8. Without(w, G) = kept[N]
  BY DEF Without
<1> HIDE DEF kept
<1>9. \A i \in 0..N : kept[i] = f[i]
  <2> DEFINE Bad == {n \in 0..N : kept[n] # f[n]}
  <2> SUFFICES ASSUME Bad # {} PROVE FALSE
    OBVIOUS
  <2>1. Bad \in SUBSET Nat
    BY <1>1
  <2>2. PICK n \in Bad : \A m \in Bad : n <= m
    <3> HIDE DEF Bad
    <3> QED
      BY <2>1, LeastNumber
  <2>3. kept[n] = step(kept, n) /\ f[n] = step(f, n)
    BY <1>6, <1>7
  <2>4. n # 0 => n - 1 \in 0..N /\ n - 1 \notin Bad
    BY <2>2, <1>1
  <2> QED
    BY <2>3, <2>4
<1> QED
  BY <1>1, <1>5, <1>8, <1>9 DEF Solves

(***************************************************************************)
(* Results of handlers, their types and what they leave of the lock table. *)
(***************************************************************************)
ResultOf(S) == [s : S, out : [Nodes -> Seq(Messages)], err : {"none"} \cup Assertions]
NodeResults == ResultOf(DbRecord)

(* q has the lock table and the finishing writers of r.                    *)
SameLocks(r, q) ==
  q.s.lockers = r.s.lockers /\ q.s.waitlist = r.s.waitlist /\ q.s.waiters = r.s.waiters

Queued(s) == {s.waitlist[i] : i \in 1..Len(s.waitlist)}

(* The tasks of L may hold the block on one node together.                 *)
Together(L) ==
  \A t, u \in L : t # u => Mode[t] # "EW" /\ (Mode[t] = "CONST" => Mode[u] = "CONST")

(* The messages without a payload of their own are messages.               *)
LEMMA PlainMessages ==
  /\ \A x \in {"release_master_request", "copy_received", "is_master", "invalidate_copy",
               "copy_invalidated", "db_destroy"} : [type |-> x] \in Messages
  /\ \A n \in Nodes, x \in {"transfer_data_to_copy", "transfer_data_to_new_master"} :
       [type |-> x, node |-> n] \in Messages
  /\ \A L \in SUBSET Nodes, x \in {"copylist_released", "take_master"} :
       [type |-> x, copylist |-> L] \in Messages
  /\ \A c \in SUBSET (Writers \cup NoBuffer), x \in {"data", "data_copy"} :
       [type |-> x, content |-> c] \in Messages
  /\ \A n \in Nodes, t \in Tasks : ElevationRequest(n, t) \in Messages
  BY DEF Messages, ElevationRequest

(* A new result is well typed.                                             *)
LEMMA ResultType ==
  ASSUME NEW S, NEW s \in S
  PROVE  Result(s) \in ResultOf(S) /\ Result(s).s = s /\ Result(s).err = "none"
<1>1. <<>> \in Seq(Messages)
  OBVIOUS
<1>2. NoMessages \in [Nodes -> Seq(Messages)]
  BY <1>1 DEF NoMessages
<1> QED
  BY <1>2 DEF Result, ResultOf

(* Sending adds messages and changes nothing else.                         *)
LEMMA SendType ==
  ASSUME NEW S, NEW r \in ResultOf(S), NEW D, NEW m \in Messages
  PROVE  Send(r, D, m) \in ResultOf(S) /\ Send(r, D, m).s = r.s
<1> DEFINE out == [d \in Nodes |-> IF d \in D THEN Append(r.out[d], m) ELSE r.out[d]]
<1>1. r.out \in [Nodes -> Seq(Messages)]
  BY DEF ResultOf
<1>2. out \in [Nodes -> Seq(Messages)]
  BY <1>1
<1>3. Send(r, D, m) = [r EXCEPT !.out = out]
  BY DEF Send
<1> HIDE DEF out
<1> QED
  BY <1>2, <1>3 DEF ResultOf

(* An assertion changes nothing but the error.                             *)
LEMMA ExpectType ==
  ASSUME NEW S, NEW r \in ResultOf(S), NEW c, NEW e \in Assertions
  PROVE  Expect(r, c, e) \in ResultOf(S) /\ Expect(r, c, e).s = r.s
  BY DEF Expect, ResultOf

(* Copies are sent without touching the lock table.                        *)
LEMMA ProvideCopiesType ==
  ASSUME NEW r \in NodeResults, NEW D \in SUBSET Nodes
  PROVE  ProvideCopies(r, D) \in NodeResults /\ SameLocks(r, ProvideCopies(r, D))
<1> DEFINE s == [r.s EXCEPT !.pendingCopies = @ + Cardinality(D)]
           u == [s EXCEPT !.copylist = @ \cup D]
           q == [r EXCEPT !.s = u]
<1>1. Cardinality(D) \in Nat
  BY NodesAssumption, FS_Subset, FS_CardinalityType
<1>2. r.s \in DbRecord
  BY DEF NodeResults, ResultOf
<1>3. s \in DbRecord /\ \A x \in {"lockers", "waitlist", "waiters"} : s[x] = r.s[x]
  BY <1>1, <1>2 DEF DbRecord
<1>4. u \in DbRecord /\ \A x \in {"lockers", "waitlist", "waiters"} : u[x] = s[x]
  BY <1>3 DEF DbRecord
<1>5. q \in NodeResults /\ q.s = u
  BY <1>4 DEF NodeResults, ResultOf
<1>6. q = [r EXCEPT !.s.pendingCopies = @ + Cardinality(D), !.s.copylist = @ \cup D]
  BY <1>2 DEF NodeResults, ResultOf, DbRecord
<1>7. r.s.content \in SUBSET (Writers \cup NoBuffer)
  BY <1>2 DEF DbRecord
<1> DEFINE m == [type |-> "data_copy", content |-> r.s.content]
<1>8. m \in Messages
  BY <1>7, PlainMessages
<1>9. ProvideCopies(r, D) = Send(q, D, m)
  BY <1>6 DEF ProvideCopies
<1>10. SameLocks(r, q)
  BY <1>3, <1>4, <1>5 DEF SameLocks
<1> HIDE DEF m, q, u
<1> QED
  BY <1>5, <1>8, <1>9, <1>10, SendType DEF NodeResults, SameLocks

(* The record of a node can be replaced in a result.                       *)
LEMMA NodeUpdate ==
  ASSUME NEW r \in NodeResults
  PROVE  /\ r.s \in DbRecord
         /\ \A u \in DbRecord : [r EXCEPT !.s = u] \in NodeResults /\ [r EXCEPT !.s = u].s = u
  BY DEF NodeResults, ResultOf

(* Sending from a node.                                                    *)
LEMMA NodeSend ==
  ASSUME NEW r \in NodeResults, NEW D, NEW m \in Messages
  PROVE  Send(r, D, m) \in NodeResults /\ Send(r, D, m).s = r.s
  BY SendType DEF NodeResults

(* An assertion of a node's handler.                                       *)
LEMMA NodeExpect ==
  ASSUME NEW r \in NodeResults, NEW c, NEW e \in Assertions
  PROVE  Expect(r, c, e) \in NodeResults /\ Expect(r, c, e).s = r.s
  BY ExpectType DEF NodeResults

(* The copylist goes to the owner and the lock table stays.                *)
LEMMA ReleaseCopylistType ==
  ASSUME NEW n \in Nodes, NEW r \in NodeResults
  PROVE  ReleaseCopylist(n, r) \in NodeResults /\ SameLocks(r, ReleaseCopylist(n, r))
<1> DEFINE u == [r.s EXCEPT !.hasCopylist = FALSE, !.copylist = {}]
           q == [r EXCEPT !.s = u]
           m == [type |-> "copylist_released", copylist |-> r.s.copylist \cup {n}]
<1>1. r.s \in DbRecord
  BY NodeUpdate
<1>2. u \in DbRecord /\ \A f \in {"lockers", "waitlist", "waiters"} : u[f] = r.s[f]
  BY <1>1 DEF DbRecord
<1>3. q = [r EXCEPT !.s.hasCopylist = FALSE, !.s.copylist = {}]
  BY <1>1 DEF NodeResults, ResultOf, DbRecord
<1>4. m \in Messages
  BY <1>1, PlainMessages DEF DbRecord
<1>5. ReleaseCopylist(n, r) = Send(q, {Owner}, m)
  BY <1>3 DEF ReleaseCopylist
<1>6. q \in NodeResults /\ q.s = u
  BY <1>2, NodeUpdate
<1> HIDE DEF u, q, m
<1> QED
  BY <1>2, <1>4, <1>5, <1>6, NodeSend DEF SameLocks

(* The master's bookkeeping leaves the lock table alone.                   *)
LEMMA UpdateMasterStateType ==
  ASSUME NEW n \in Nodes, NEW r \in NodeResults
  PROVE  UpdateMasterState(n, r) \in NodeResults /\ SameLocks(r, UpdateMasterState(n, r))
<1> DEFINE s    == r.s
           idle == ~WriteLocked(s) /\ s.pendingInvalidations = 0
           w    == [r EXCEPT !.s.copyWaitlist = {}]
           r1   == IF idle /\ s.busy THEN ProvideCopies(w, s.copyWaitlist \ s.copylist) ELSE r
           r2   == IF idle /\ s.state = "copy" /\ r1.s.pendingCopies = 0
                     THEN ReleaseCopylist(n, Expect(r1, CopylistCanBeReleased(r1.s),
                                                    "copylist_not_releasable"))
                     ELSE r1
           q    == [r2 EXCEPT !.s.busy = ~idle]
<1>1. s \in DbRecord
  BY NodeUpdate
<1>2. w \in NodeResults /\ SameLocks(r, w)
  <2> DEFINE u == [s EXCEPT !.copyWaitlist = {}]
  <2>1. u \in DbRecord /\ \A x \in {"lockers", "waitlist", "waiters"} : u[x] = s[x]
    BY <1>1 DEF DbRecord
  <2>2. w = [r EXCEPT !.s = u]
    BY DEF NodeResults, ResultOf
  <2>3. w \in NodeResults /\ w.s = u
    BY <2>1, <2>2, NodeUpdate
  <2> HIDE DEF u, w
  <2> QED
    BY <2>1, <2>3 DEF SameLocks
<1>3. s.copyWaitlist \ s.copylist \in SUBSET Nodes
  BY <1>1 DEF DbRecord
<1>4. r1 \in NodeResults /\ SameLocks(r, r1)
  <2> HIDE DEF w, idle, s
  <2> QED
    BY <1>2, <1>3, ProvideCopiesType DEF SameLocks
<1>5. r2 \in NodeResults /\ SameLocks(r, r2)
  <2> HIDE DEF r1, idle, s
  <2> DEFINE e == Expect(r1, CopylistCanBeReleased(r1.s), "copylist_not_releasable")
  <2>1. e \in NodeResults /\ e.s = r1.s
    BY <1>4, NodeExpect DEF Assertions
  <2> HIDE DEF e
  <2>2. ReleaseCopylist(n, e) \in NodeResults /\ SameLocks(e, ReleaseCopylist(n, e))
    BY <2>1, ReleaseCopylistType
  <2> QED
    BY <1>4, <2>1, <2>2 DEF SameLocks, e
<1>6. q \in NodeResults /\ SameLocks(r, q)
  <2> HIDE DEF r2, idle
  <2> DEFINE u == [r2.s EXCEPT !.busy = ~idle]
  <2>1. r2.s \in DbRecord
    BY <1>5, NodeUpdate
  <2>2. u \in DbRecord /\ \A x \in {"lockers", "waitlist", "waiters"} : u[x] = r2.s[x]
    BY <2>1 DEF DbRecord
  <2>3. q = [r2 EXCEPT !.s = u]
    BY <1>5 DEF NodeResults, ResultOf
  <2>4. q \in NodeResults /\ q.s = u
    BY <2>2, <2>3, <1>5, NodeUpdate
  <2> HIDE DEF u, q
  <2> QED
    BY <1>5, <2>2, <2>4 DEF SameLocks
<1>7. UpdateMasterState(n, r) = IF s.state = "master" \/ (s.state = "copy" /\ s.hasCopylist) THEN q ELSE r
  BY DEF UpdateMasterState
<1> HIDE DEF q, s
<1> QED
  BY <1>6, <1>7 DEF SameLocks

(* Starting an invalidation round leaves the lock table alone.             *)
LEMMA TryStartRoundType ==
  ASSUME NEW r \in NodeResults
  PROVE  TryStartRound(r) \in NodeResults /\ SameLocks(r, TryStartRound(r))
<1> DEFINE D == r.s.copylist
           e == Expect(r, D # {}, "round_without_copies")
           u == [e.s EXCEPT !.pendingInvalidations = Cardinality(D), !.copylist = {}]
           q == [e EXCEPT !.s = u]
           m == [type |-> "invalidate_copy"]
<1>1. r.s \in DbRecord /\ D \in SUBSET Nodes
  BY NodeUpdate DEF DbRecord
<1>2. Cardinality(D) \in Nat
  BY <1>1, NodesAssumption, FS_Subset, FS_CardinalityType
<1>3. e \in NodeResults /\ e.s = r.s
  BY NodeExpect DEF Assertions
<1> HIDE DEF e, D
<1>4. u \in DbRecord /\ \A f \in {"lockers", "waitlist", "waiters"} : u[f] = r.s[f]
  BY <1>1, <1>2, <1>3 DEF DbRecord
<1>5. q = [e EXCEPT !.s.pendingInvalidations = Cardinality(D), !.s.copylist = {}]
  BY <1>1, <1>3 DEF NodeResults, ResultOf, DbRecord
<1>6. q \in NodeResults /\ q.s = u
  BY <1>3, <1>4, NodeUpdate
<1>7. m \in Messages
  BY PlainMessages
<1>8. TryStartRound(r) = r \/ TryStartRound(r) = Send(q, D, m)
  BY <1>5 DEF TryStartRound, D, e
<1> HIDE DEF u, q, m
<1> QED
  BY <1>4, <1>6, <1>7, <1>8, NodeSend DEF SameLocks

(***************************************************************************)
(* The lock table.                                                         *)
(***************************************************************************)
(* The node's record s became u: some of the waiters got the lock, if all  *)
(* may have it and the node has a buffer, and some of the finishing writers*)
(* were freed.                                                             *)
Advances(s, u) ==
  /\ u.waiters \subseteq s.waiters
  /\ s.lockers \subseteq u.lockers
  /\ u.lockers \ s.lockers \subseteq Queued(s)
  /\ Queued(u) \subseteq Queued(s) \ (u.lockers \ s.lockers)
  /\ Together(s.lockers) => Together(u.lockers)
  /\ u.lockers \ s.lockers # {} => u.state # "invalid"

(* The node's copy is good enough for the waiters at the places I.         *)
LetIn(u, I) == \A i \in I : Suffices(u, u.waitlist[i])

(* The record advanced, and no finishing writer was freed.                 *)
Serves(s, u) == Advances(s, u) /\ u.waiters = s.waiters

(* The queue holds tasks, and erasing some of them keeps the others.       *)
LEMMA QueueFacts ==
  ASSUME NEW s \in DbRecord
  PROVE  /\ s.waitlist \in Seq(Tasks) /\ Queued(s) \subseteq Tasks
         /\ \A G : /\ Without(s.waitlist, G) \in Seq(Tasks)
                   /\ Without(s.waitlist, G) \in Seq(Queued(s) \ G)
<1>1. s.waitlist \in Seq(Tasks)
  BY DEF DbRecord
<1>2. Queued(s) \subseteq Tasks /\ s.waitlist \in Seq(Queued(s))
  BY <1>1 DEF Queued
<1>3. ASSUME NEW G PROVE Without(s.waitlist, G) \in Seq(Queued(s) \ G)
  BY <1>2, WithoutType
<1>4. ASSUME NEW G PROVE Without(s.waitlist, G) \in Seq(Tasks \ G)
  BY <1>1, WithoutType
<1>5. \A G : Seq(Tasks \ G) \subseteq Seq(Tasks)
  OBVIOUS
<1> QED
  BY <1>1, <1>2, <1>3, <1>4, <1>5

(* What a waiting list over a set says of the queue.                       *)
LEMMA QueuedOf ==
  ASSUME NEW s, NEW S, s.waitlist \in Seq(S)
  PROVE  Queued(s) \subseteq S
  BY DEF Queued

(* The tasks at the places I of the queue get the lock.                    *)
LEMMA GrantType ==
  ASSUME NEW r \in NodeResults, NEW I \in SUBSET (1..Len(r.s.waitlist))
  PROVE  LET q == Grant(r, I)
             G == {r.s.waitlist[i] : i \in I}
         IN  /\ q \in NodeResults
             /\ q.s.state = r.s.state
             /\ q.s.waiters = r.s.waiters
             /\ q.s.lockers = r.s.lockers \cup G
             /\ G \subseteq Queued(r.s)
             /\ Queued(q.s) \subseteq Queued(r.s) \ G
<1> DEFINE G == {r.s.waitlist[i] : i \in I}
           v == [r.s EXCEPT !.lockers = @ \cup G]
           w == Without(r.s.waitlist, G)
           u == [v EXCEPT !.waitlist = w]
           q == [r EXCEPT !.s = u]
<1>1. r.s \in DbRecord
  BY NodeUpdate
<1>2. w \in Seq(Tasks) /\ w \in Seq(Queued(r.s) \ G)
  BY <1>1, QueueFacts
<1>3. G \subseteq Queued(r.s) /\ G \subseteq Tasks
  <2>1. G \subseteq Queued(r.s)
    BY DEF Queued
  <2> QED
    BY <2>1, <1>1, QueueFacts
<1>4. Grant(r, I) = q
  BY <1>1 DEF Grant, NodeResults, ResultOf, DbRecord
<1> HIDE DEF G, w
<1>5. /\ v \in DbRecord /\ v.lockers = r.s.lockers \cup G
      /\ \A x \in {"state", "waitlist", "waiters"} : v[x] = r.s[x]
  BY <1>1, <1>3 DEF DbRecord
<1>6. /\ u \in DbRecord /\ u.waitlist = w
      /\ \A x \in {"state", "lockers", "waiters"} : u[x] = v[x]
  <2> HIDE DEF v
  <2> QED
    BY <1>2, <1>5 DEF DbRecord
<1>7. q \in NodeResults /\ q.s = u
  BY <1>6, NodeUpdate
<1>8. Queued(u) \subseteq Queued(r.s) \ G
  BY <1>2, <1>6, QueuedOf
<1> HIDE DEF q, u, v
<1> QED
  BY <1>3, <1>4, <1>5, <1>6, <1>7, <1>8 DEF G

(* The task asks the owner for the state it needs and joins the queue.     *)
LEMMA RequestForType ==
  ASSUME NEW n \in Nodes, NEW r \in NodeResults, NEW t \in Tasks
  PROVE  LET q == RequestFor(n, r, t)
         IN  /\ q \in NodeResults
             /\ q.s.lockers = r.s.lockers /\ q.s.waiters = r.s.waiters
             /\ q.s.state = r.s.state
             /\ Queued(q.s) \subseteq Queued(r.s) \cup {t}
<1> DEFINE e == Send(r, {Owner}, ElevationRequest(n, t))
           w == Append(r.s.waitlist, t)
           u == [r.s EXCEPT !.waitlist = w]
           q == [e EXCEPT !.s = u]
<1>1. e \in NodeResults /\ e.s = r.s /\ r.s \in DbRecord
  BY PlainMessages, NodeSend, NodeUpdate
<1>2. w \in Seq(Tasks) /\ w \in Seq(Queued(r.s) \cup {t})
  BY <1>1, QueueFacts DEF Queued
<1>3. RequestFor(n, r, t) = q
  BY <1>1 DEF RequestFor, Enqueue, NodeResults, ResultOf, DbRecord
<1> HIDE DEF e, w
<1>4. /\ u \in DbRecord /\ u.waitlist = w
      /\ \A x \in {"state", "lockers", "waiters"} : u[x] = r.s[x]
  BY <1>1, <1>2 DEF DbRecord
<1>5. q \in NodeResults /\ q.s = u
  BY <1>1, <1>4, NodeUpdate
<1>6. Queued(u) \subseteq Queued(r.s) \cup {t}
  BY <1>2, <1>4, QueuedOf
<1> HIDE DEF q, u
<1> QED
  BY <1>3, <1>4, <1>5, <1>6

(* A failed retry moves the task to the end of the queue.                  *)
LEMMA RetryType ==
  ASSUME NEW n \in Nodes, NEW r \in NodeResults, NEW t \in Tasks
  PROVE  LET q == Retry(n, r, t)
         IN  /\ q \in NodeResults
             /\ q.s.lockers = r.s.lockers /\ q.s.waiters = r.s.waiters
             /\ q.s.state = r.s.state
             /\ Queued(q.s) \subseteq Queued(r.s) \cup {t}
<1> DEFINE w == Without(r.s.waitlist, {t})
           u == [r.s EXCEPT !.waitlist = w]
           e == [r EXCEPT !.s = u]
<1>1. r.s \in DbRecord
  BY NodeUpdate
<1>2. w \in Seq(Tasks) /\ w \in Seq(Queued(r.s) \ {t})
  BY <1>1, QueueFacts
<1>3. Retry(n, r, t) = RequestFor(n, e, t)
  BY <1>1 DEF Retry, NodeResults, ResultOf, DbRecord
<1> HIDE DEF w
<1>4. /\ u \in DbRecord /\ u.waitlist = w
      /\ \A x \in {"state", "lockers", "waiters"} : u[x] = r.s[x]
  BY <1>1, <1>2 DEF DbRecord
<1>5. e \in NodeResults /\ e.s = u
  BY <1>4, NodeUpdate
<1>6. Queued(u) \subseteq Queued(r.s) \ {t}
  BY <1>2, <1>4, QueuedOf
<1> HIDE DEF e, u
<1>7. LET q == RequestFor(n, e, t)
      IN  /\ q \in NodeResults
          /\ q.s.lockers = e.s.lockers /\ q.s.waiters = e.s.waiters
          /\ q.s.state = e.s.state
          /\ Queued(q.s) \subseteq Queued(e.s) \cup {t}
  BY <1>5, RequestForType
<1> QED
  BY <1>3, <1>4, <1>5, <1>6, <1>7

(* The first place of a nonempty set is in it and before all others.       *)
LEMMA FirstPlace ==
  ASSUME NEW I \in SUBSET Nat, I # {}
  PROVE  First(I) \in I /\ \A j \in I : First(I) <= j
  BY LeastNumber DEF First

(* The waiters in the modes M, by place.                                   *)
LEMMA WaitingPlaces ==
  ASSUME NEW s \in DbRecord, NEW M
  PROVE  /\ Waiting(s, M) \subseteq 1..Len(s.waitlist) /\ Waiting(s, M) \subseteq Nat
         /\ \A i \in Waiting(s, M) : s.waitlist[i] \in Queued(s) /\ Mode[s.waitlist[i]] \in M
<1>1. Len(s.waitlist) \in Nat
  BY DEF DbRecord
<1> QED
  BY <1>1 DEF Waiting, Queued

(* A grant to waiters that are compatible with the holders and each other. *)
LEMMA GrantAdvances ==
  ASSUME NEW r \in NodeResults, NEW I \in SUBSET (1..Len(r.s.waitlist)),
         Together(r.s.lockers) => Together(r.s.lockers \cup {r.s.waitlist[i] : i \in I}),
         LetIn(r.s, I)
  PROVE  Grant(r, I) \in NodeResults /\ Serves(r.s, Grant(r, I).s)
<1> DEFINE q == Grant(r, I)
           G == {r.s.waitlist[i] : i \in I}
<1>1. /\ q \in NodeResults /\ q.s.waiters = r.s.waiters
      /\ q.s.lockers = r.s.lockers \cup G /\ G \subseteq Queued(r.s)
      /\ Queued(q.s) \subseteq Queued(r.s) \ G /\ q.s.state = r.s.state
  BY GrantType
<1>2. G # {} => r.s.state # "invalid"
  BY DEF LetIn, Suffices
<1>3. Together(r.s.lockers) => Together(r.s.lockers \cup G)
  OBVIOUS
<1> HIDE DEF q, G
<1> QED
  BY <1>1, <1>2, <1>3 DEF Serves, Advances, q, G

(* A retry alone.                                                          *)
LEMMA RetryAdvances ==
  ASSUME NEW n \in Nodes, NEW r \in NodeResults, NEW t \in Queued(r.s)
  PROVE  Retry(n, r, t) \in NodeResults /\ Serves(r.s, Retry(n, r, t).s)
<1>1. t \in Tasks
  BY NodeUpdate, QueueFacts
<1> QED
  BY <1>1, RetryType DEF Serves, Advances

(* grant_locks gives the lock to waiters that may hold it together.        *)
LEMMA GrantLocksType ==
  ASSUME NEW n \in Nodes, NEW r \in NodeResults
  PROVE  GrantLocks(n, r) \in NodeResults /\ Serves(r.s, GrantLocks(n, r).s)
<1> DEFINE s       == r.s
           ew      == Waiting(s, {"EW"})
           const   == Waiting(s, {"CONST"})
           shared  == Waiting(s, {"RW", "RO"})
           lacking == {i \in shared : ~Suffices(s, s.waitlist[i])}
           task(I) == s.waitlist[First(I)]
<1>1. s \in DbRecord
  BY NodeUpdate
<1>2. \A I \in SUBSET (1..Len(s.waitlist)) : I # {} => First(I) \in I /\ task(I) \in Queued(s)
  <2>1. Len(s.waitlist) \in Nat
    BY <1>1 DEF DbRecord
  <2> SUFFICES ASSUME NEW I \in SUBSET (1..Len(s.waitlist)), I # {}
               PROVE  First(I) \in I /\ task(I) \in Queued(s)
    OBVIOUS
  <2>2. I \in SUBSET Nat
    BY <2>1
  <2>3. First(I) \in I
    BY <2>2, FirstPlace
  <2> QED
    BY <2>3 DEF Queued
<1>3. CASE s.lockers = {} /\ ew # {}
  <2>1. ew \in SUBSET (1..Len(s.waitlist)) /\ First(ew) \in ew /\ task(ew) \in Queued(s)
    BY <1>1, <1>2, <1>3, WaitingPlaces
  <2>2. ASSUME s.state = "master"
        PROVE  Grant(r, {First(ew)}) \in NodeResults /\ Serves(r.s, Grant(r, {First(ew)}).s)
    <3>1. Together(s.lockers \cup {s.waitlist[i] : i \in {First(ew)}})
      BY <1>3 DEF Together
    <3>2. LetIn(s, {First(ew)}) /\ {First(ew)} \in SUBSET (1..Len(s.waitlist))
      BY <2>1, <2>2 DEF LetIn, Suffices
    <3> QED
      BY <3>1, <3>2, GrantAdvances
  <2>3. Retry(n, r, task(ew)) \in NodeResults /\ Serves(r.s, Retry(n, r, task(ew)).s)
    BY <2>1, RetryAdvances
  <2> QED
    BY <1>3, <2>2, <2>3 DEF GrantLocks
<1>4. CASE ~(s.lockers = {} /\ ew # {}) /\ const # {} /\ \A u \in s.lockers : Mode[u] = "CONST"
  <2>1. /\ const \in SUBSET (1..Len(s.waitlist)) /\ task(const) \in Queued(s)
        /\ \A i \in const : Mode[s.waitlist[i]] = "CONST"
    BY <1>1, <1>2, <1>4, WaitingPlaces
  <2>2. ASSUME s.state # "invalid"
        PROVE  Grant(r, const) \in NodeResults /\ Serves(r.s, Grant(r, const).s)
    <3>1. Together(s.lockers \cup {s.waitlist[i] : i \in const})
      BY <1>4, <2>1 DEF Together
    <3>2. LetIn(s, const)
      BY <2>1, <2>2 DEF LetIn, Suffices, Writers
    <3> QED
      BY <2>1, <3>1, <3>2, GrantAdvances
  <2>3. Retry(n, r, task(const)) \in NodeResults /\ Serves(r.s, Retry(n, r, task(const)).s)
    BY <2>1, RetryAdvances
  <2> QED
    BY <1>4, <2>2, <2>3 DEF GrantLocks
<1>5. CASE /\ ~(s.lockers = {} /\ ew # {})
           /\ ~(const # {} /\ \A u \in s.lockers : Mode[u] = "CONST")
           /\ s.lockers \cap Exclusive = {}
  <2>1. /\ shared \in SUBSET (1..Len(s.waitlist)) /\ shared \subseteq Nat
        /\ \A i \in shared : s.waitlist[i] \in Queued(s) /\ Mode[s.waitlist[i]] \in {"RW", "RO"}
    BY <1>1, WaitingPlaces
  <2>2. s.lockers \subseteq Tasks
    BY <1>1 DEF DbRecord
  <2>3. ASSUME NEW I \in SUBSET shared, LetIn(s, I)
        PROVE  Grant(r, I) \in NodeResults /\ Serves(r.s, Grant(r, I).s)
    <3>1. Together(s.lockers \cup {s.waitlist[i] : i \in I})
      BY <1>5, <2>1, <2>2 DEF Together, Exclusive
    <3> QED
      BY <2>1, <2>3, <3>1, GrantAdvances
  <2>4. CASE lacking = {}
    <3>1. GrantLocks(n, r) = Grant(r, shared)
      BY <1>5, <2>4 DEF GrantLocks
    <3>2. LetIn(s, shared)
      BY <2>4 DEF LetIn
    <3> QED
      BY <2>3, <3>1, <3>2
  <2>5. CASE lacking # {}
    <3> DEFINE before == {i \in shared : i < First(lacking)}
               G      == {s.waitlist[i] : i \in before}
               g      == Grant(r, before)
               t      == task(lacking)
    <3>1. lacking \in SUBSET shared /\ First(lacking) \in lacking /\ t \in Queued(s)
      BY <1>2, <2>1, <2>5
    <3>2. \A j \in lacking : First(lacking) <= j
      BY <2>1, <2>5, FirstPlace
    <3>3. t \notin G /\ LetIn(s, before)
      <4>1. ASSUME NEW i \in before PROVE i \notin lacking
        <5>1. i < First(lacking) /\ i \in Nat /\ First(lacking) \in Nat
          BY <2>1, <3>1
        <5> QED
          BY <3>2, <5>1
      <4>2. \A i \in before : Suffices(s, s.waitlist[i])
        BY <4>1
      <4>3. ~Suffices(s, t)
        BY <3>1
      <4> QED
        BY <4>2, <4>3 DEF LetIn
    <3>4. GrantLocks(n, r) = Retry(n, g, t)
      BY <1>5, <2>5 DEF GrantLocks
    <3>5. before \in SUBSET shared /\ before \in SUBSET (1..Len(s.waitlist))
      BY <2>1
    <3>6. /\ g \in NodeResults /\ g.s.waiters = s.waiters
          /\ g.s.lockers = s.lockers \cup G /\ G \subseteq Queued(s)
          /\ Queued(g.s) \subseteq Queued(s) \ G
      BY <3>5, GrantType
    <3>7. /\ Together(s.lockers) => Together(s.lockers \cup G)
          /\ g.s.lockers \ s.lockers # {} => g.s.state # "invalid"
      <4>1. g \in NodeResults /\ Serves(r.s, g.s)
        BY <2>3, <3>3, <3>5
      <4> HIDE DEF g, G
      <4> QED
        BY <3>6, <4>1 DEF Serves, Advances
    <3>8. t \in Tasks
      BY <1>1, <3>1, QueueFacts
    <3> HIDE DEF g, t, G
    <3>9. LET q == Retry(n, g, t)
          IN  /\ q \in NodeResults
              /\ q.s.lockers = g.s.lockers /\ q.s.waiters = g.s.waiters
              /\ q.s.state = g.s.state
              /\ Queued(q.s) \subseteq Queued(g.s) \cup {t}
      BY <3>6, <3>8, RetryType
    <3> QED
      BY <3>1, <3>3, <3>4, <3>6, <3>7, <3>9 DEF Serves, Advances
  <2> QED
    BY <2>4, <2>5
<1>6. CASE s.lockers \cap Exclusive # {} /\ ~(const # {} /\ \A u \in s.lockers : Mode[u] = "CONST")
  <2>1. GrantLocks(n, r) = r
    BY <1>6 DEF GrantLocks
  <2> QED
    BY <2>1 DEF Serves, Advances
<1> QED
  BY <1>3, <1>4, <1>5, <1>6

(* try_lock either gives the lock to t, if it may share it, or queues t.   *)
LEMMA TryLockType ==
  ASSUME NEW n \in Nodes, NEW r \in NodeResults, NEW t \in Tasks
  PROVE  LET q == TryLock(n, r, t)
         IN  /\ q \in NodeResults /\ q.s.waiters = r.s.waiters
             /\ \/ /\ q.s.lockers = r.s.lockers
                   /\ Queued(q.s) \subseteq Queued(r.s) \cup {t}
                \/ /\ q.s.lockers = r.s.lockers \cup {t}
                   /\ Queued(q.s) \subseteq Queued(r.s) /\ q.s.state # "invalid"
                   /\ Together(r.s.lockers) => Together(q.s.lockers)
<1>1. r.s \in DbRecord
  BY NodeUpdate
<1>2. CASE ~Suffices(r.s, t)
  BY <1>2, RequestForType DEF TryLock
<1>3. CASE Suffices(r.s, t) /\ Compatible(r.s, t)
  <2> DEFINE u == [r.s EXCEPT !.lockers = @ \cup {t}]
             q == [r EXCEPT !.s = u]
  <2>1. TryLock(n, r, t) = q
    BY <1>3 DEF TryLock, NodeResults, ResultOf, DbRecord
  <2>2. /\ u \in DbRecord /\ u.lockers = r.s.lockers \cup {t}
        /\ \A x \in {"waitlist", "waiters", "state"} : u[x] = r.s[x]
    BY <1>1 DEF DbRecord
  <2>6. r.s.state # "invalid"
    BY <1>3 DEF Suffices
  <2>3. q \in NodeResults /\ q.s = u
    BY <2>2, NodeUpdate
  <2>4. r.s.lockers \subseteq Tasks /\ Mode[t] \in Modes
    BY <1>1, TaskAssumption DEF DbRecord
  <2>5. Together(r.s.lockers) => Together(r.s.lockers \cup {t})
    BY <1>3, <2>4 DEF Compatible, Together, Exclusive, Modes
  <2> HIDE DEF u, q
  <2> QED
    BY <2>1, <2>2, <2>3, <2>5, <2>6 DEF Queued
<1>4. CASE Suffices(r.s, t) /\ ~Compatible(r.s, t)
  <2> DEFINE w == Append(r.s.waitlist, t)
             u == [r.s EXCEPT !.waitlist = w]
             q == [r EXCEPT !.s = u]
  <2>1. TryLock(n, r, t) = q
    BY <1>4 DEF TryLock, Enqueue, NodeResults, ResultOf, DbRecord
  <2>2. w \in Seq(Tasks) /\ w \in Seq(Queued(r.s) \cup {t})
    BY <1>1, QueueFacts DEF Queued
  <2> HIDE DEF w
  <2>3. /\ u \in DbRecord /\ u.waitlist = w
        /\ \A x \in {"lockers", "waiters"} : u[x] = r.s[x]
    BY <1>1, <2>2 DEF DbRecord
  <2>4. q \in NodeResults /\ q.s = u
    BY <2>3, NodeUpdate
  <2>5. Queued(u) \subseteq Queued(r.s) \cup {t}
    BY <2>2, <2>3, QueuedOf
  <2> HIDE DEF u, q
  <2> QED
    BY <2>1, <2>3, <2>4, <2>5
<1> QED
  BY <1>2, <1>3, <1>4

(* A handler that leaves the lock table alone advances it.                 *)
LEMMA SameLocksAdvance ==
  ASSUME NEW r, NEW q, SameLocks(r, q)
  PROVE  Serves(r.s, q.s)
  BY DEF SameLocks, Serves, Advances, Queued

(* Leaving the lock table alone first does not change what is granted.     *)
LEMMA SameLocksThenAdvance ==
  ASSUME NEW r, NEW e, NEW q, SameLocks(r, e), Serves(e.s, q.s)
  PROVE  Serves(r.s, q.s)
<1>1. Queued(e.s) = Queued(r.s)
  BY DEF SameLocks, Queued
<1> QED
  BY <1>1 DEF SameLocks, Serves, Advances

(* unlock drops t's lock and grants what it can.                           *)
LEMMA UnlockType ==
  ASSUME NEW n \in Nodes, NEW r \in NodeResults, NEW t \in Tasks
  PROVE  /\ Unlock(n, r, t) \in NodeResults
         /\ Serves([r.s EXCEPT !.lockers = @ \ {t}], Unlock(n, r, t).s)
<1> DEFINE e  == Expect(r, t \in r.s.lockers, "unlock_without_lock")
           u  == [r.s EXCEPT !.lockers = @ \ {t}]
           r1 == [e EXCEPT !.s = u]
           r2 == UpdateMasterState(n, r1)
<1>1. e \in NodeResults /\ e.s = r.s /\ r.s \in DbRecord
  BY NodeExpect, NodeUpdate DEF Assertions
<1>2. u \in DbRecord
  BY <1>1 DEF DbRecord
<1>3. Unlock(n, r, t) = GrantLocks(n, r2)
  BY <1>1 DEF Unlock, NodeResults, ResultOf, DbRecord
<1> HIDE DEF e, u
<1>4. r1 \in NodeResults /\ r1.s = u
  BY <1>1, <1>2, NodeUpdate
<1> HIDE DEF r1
<1>5. r2 \in NodeResults /\ SameLocks(r1, r2)
  BY <1>4, UpdateMasterStateType
<1> HIDE DEF r2
<1>6. GrantLocks(n, r2) \in NodeResults /\ Serves(r2.s, GrantLocks(n, r2).s)
  BY <1>5, GrantLocksType
<1> QED
  BY <1>3, <1>4, <1>5, <1>6, SameLocksThenAdvance DEF u

(* The protocol state can be set.                                         *)
LEMMA SetState ==
  ASSUME NEW r \in NodeResults,
         NEW x \in {"invalid", "copy", "master"}
  PROVE  LET q == [r EXCEPT !.s.state = x] IN q \in NodeResults /\ SameLocks(r, q)
<1> DEFINE u == [r.s EXCEPT !.state = x]
           q == [r EXCEPT !.s = u]
<1>1. r.s \in DbRecord
  BY NodeUpdate
<1>2. u \in DbRecord /\ \A f \in {"lockers", "waitlist", "waiters"} : u[f] = r.s[f]
  BY <1>1 DEF DbRecord
<1>3. q = [r EXCEPT !.s.state = x]
  BY <1>1 DEF NodeResults, ResultOf, DbRecord
<1>4. q \in NodeResults /\ q.s = u
  BY <1>2, NodeUpdate
<1> HIDE DEF u, q
<1> QED
  BY <1>2, <1>3, <1>4 DEF SameLocks

(* A listed copy becomes the master and takes itself off the list.        *)
LEMMA SetMaster ==
  ASSUME NEW r \in NodeResults, NEW n
  PROVE  LET q == [r EXCEPT !.s.state = "master", !.s.copylist = @ \ {n}] IN q \in NodeResults /\ SameLocks(r, q)
<1> DEFINE u == [r.s EXCEPT !.state = "master", !.copylist = @ \ {n}]
           q == [r EXCEPT !.s = u]
<1>1. r.s \in DbRecord
  BY NodeUpdate
<1>2. u \in DbRecord /\ \A f \in {"lockers", "waitlist", "waiters"} : u[f] = r.s[f]
  BY <1>1 DEF DbRecord
<1>3. q = [r EXCEPT !.s.state = "master", !.s.copylist = @ \ {n}]
  BY <1>1 DEF NodeResults, ResultOf, DbRecord
<1>4. q \in NodeResults /\ q.s = u
  BY <1>2, NodeUpdate
<1> HIDE DEF u, q
<1> QED
  BY <1>2, <1>3, <1>4 DEF SameLocks

(* A buffer arrives or is dropped.                                        *)
LEMMA SetContent ==
  ASSUME NEW r \in NodeResults,
         NEW x \in {"invalid", "copy", "master"}, NEW c \in SUBSET (Writers \cup NoBuffer)
  PROVE  LET q == [r EXCEPT !.s.content = c, !.s.state = x] IN q \in NodeResults /\ SameLocks(r, q)
<1> DEFINE u == [r.s EXCEPT !.content = c, !.state = x]
           q == [r EXCEPT !.s = u]
<1>1. r.s \in DbRecord
  BY NodeUpdate
<1>2. u \in DbRecord /\ \A f \in {"lockers", "waitlist", "waiters"} : u[f] = r.s[f]
  BY <1>1 DEF DbRecord
<1>3. q = [r EXCEPT !.s.content = c, !.s.state = x]
  BY <1>1 DEF NodeResults, ResultOf, DbRecord
<1>4. q \in NodeResults /\ q.s = u
  BY <1>2, NodeUpdate
<1> HIDE DEF u, q
<1> QED
  BY <1>2, <1>3, <1>4 DEF SameLocks

(* The same, in the order of the invalidation.                            *)
LEMMA DropContent ==
  ASSUME NEW r \in NodeResults,
         NEW x \in {"invalid", "copy", "master"}, NEW c \in SUBSET (Writers \cup NoBuffer)
  PROVE  LET q == [r EXCEPT !.s.state = x, !.s.content = c] IN q \in NodeResults /\ SameLocks(r, q)
<1> DEFINE u == [r.s EXCEPT !.state = x, !.content = c]
           q == [r EXCEPT !.s = u]
<1>1. r.s \in DbRecord
  BY NodeUpdate
<1>2. u \in DbRecord /\ \A f \in {"lockers", "waitlist", "waiters"} : u[f] = r.s[f]
  BY <1>1 DEF DbRecord
<1>3. q = [r EXCEPT !.s.state = x, !.s.content = c]
  BY <1>1 DEF NodeResults, ResultOf, DbRecord
<1>4. q \in NodeResults /\ q.s = u
  BY <1>2, NodeUpdate
<1> HIDE DEF u, q
<1> QED
  BY <1>2, <1>3, <1>4 DEF SameLocks

(* A copy request is put off.                                             *)
LEMMA SetCopyWaitlist ==
  ASSUME NEW r \in NodeResults, NEW n \in Nodes
  PROVE  LET q == [r EXCEPT !.s.copyWaitlist = @ \cup {n}] IN q \in NodeResults /\ SameLocks(r, q)
<1> DEFINE u == [r.s EXCEPT !.copyWaitlist = @ \cup {n}]
           q == [r EXCEPT !.s = u]
<1>1. r.s \in DbRecord
  BY NodeUpdate
<1>2. u \in DbRecord /\ \A f \in {"lockers", "waitlist", "waiters"} : u[f] = r.s[f]
  BY <1>1 DEF DbRecord
<1>3. q = [r EXCEPT !.s.copyWaitlist = @ \cup {n}]
  BY <1>1 DEF NodeResults, ResultOf, DbRecord
<1>4. q \in NodeResults /\ q.s = u
  BY <1>2, NodeUpdate
<1> HIDE DEF u, q
<1> QED
  BY <1>2, <1>3, <1>4 DEF SameLocks

(* The copylist arrives.                                                  *)
LEMMA TakeCopylist ==
  ASSUME NEW r \in NodeResults, NEW L \in SUBSET Nodes
  PROVE  LET q == [r EXCEPT !.s.hasCopylist = TRUE, !.s.copylist = L] IN q \in NodeResults /\ SameLocks(r, q)
<1> DEFINE u == [r.s EXCEPT !.hasCopylist = TRUE, !.copylist = L]
           q == [r EXCEPT !.s = u]
<1>1. r.s \in DbRecord
  BY NodeUpdate
<1>2. u \in DbRecord /\ \A f \in {"lockers", "waitlist", "waiters"} : u[f] = r.s[f]
  BY <1>1 DEF DbRecord
<1>3. q = [r EXCEPT !.s.hasCopylist = TRUE, !.s.copylist = L]
  BY <1>1 DEF NodeResults, ResultOf, DbRecord
<1>4. q \in NodeResults /\ q.s = u
  BY <1>2, NodeUpdate
<1> HIDE DEF u, q
<1> QED
  BY <1>2, <1>3, <1>4 DEF SameLocks

(* A copy has been received.                                              *)
LEMMA CountCopy ==
  ASSUME NEW r \in NodeResults
  PROVE  LET q == [r EXCEPT !.s.pendingCopies = IF @ > 0 THEN @ - 1 ELSE 0] IN q \in NodeResults /\ SameLocks(r, q)
<1> DEFINE u == [r.s EXCEPT !.pendingCopies = IF @ > 0 THEN @ - 1 ELSE 0]
           q == [r EXCEPT !.s = u]
<1>1. r.s \in DbRecord
  BY NodeUpdate
<1>2. u \in DbRecord /\ \A f \in {"lockers", "waitlist", "waiters"} : u[f] = r.s[f]
  BY <1>1 DEF DbRecord
<1>3. q = [r EXCEPT !.s.pendingCopies = IF @ > 0 THEN @ - 1 ELSE 0]
  BY <1>1 DEF NodeResults, ResultOf, DbRecord
<1>4. q \in NodeResults /\ q.s = u
  BY <1>2, NodeUpdate
<1> HIDE DEF u, q
<1> QED
  BY <1>2, <1>3, <1>4 DEF SameLocks

(* A copy has been invalidated.                                           *)
LEMMA CountInvalidation ==
  ASSUME NEW r \in NodeResults
  PROVE  LET q == [r EXCEPT !.s.pendingInvalidations = IF @ > 0 THEN @ - 1 ELSE 0] IN q \in NodeResults /\ SameLocks(r, q)
<1> DEFINE u == [r.s EXCEPT !.pendingInvalidations = IF @ > 0 THEN @ - 1 ELSE 0]
           q == [r EXCEPT !.s = u]
<1>1. r.s \in DbRecord
  BY NodeUpdate
<1>2. u \in DbRecord /\ \A f \in {"lockers", "waitlist", "waiters"} : u[f] = r.s[f]
  BY <1>1 DEF DbRecord
<1>3. q = [r EXCEPT !.s.pendingInvalidations = IF @ > 0 THEN @ - 1 ELSE 0]
  BY <1>1 DEF NodeResults, ResultOf, DbRecord
<1>4. q \in NodeResults /\ q.s = u
  BY <1>2, NodeUpdate
<1> HIDE DEF u, q
<1> QED
  BY <1>2, <1>3, <1>4 DEF SameLocks

(***************************************************************************)
(* The handlers of a node's messages.                                      *)
(***************************************************************************)
(* Each returns a well-typed result and only advances the lock table.      *)
LEMMA HandleReleaseRequestType ==
  ASSUME NEW n \in Nodes, NEW r \in NodeResults
  PROVE  LET q == HandleReleaseRequest(n, r) IN q \in NodeResults /\ Serves(r.s, q.s)
<1> DEFINE e == Expect(r, r.s.state = "master", "release_by_nonmaster")
           g == [e EXCEPT !.s.state = "copy"]
           q == UpdateMasterState(n, g)
<1>1. e \in NodeResults /\ e.s = r.s
  BY NodeExpect DEF Assertions
<1>2. HandleReleaseRequest(n, r) = q
  BY DEF HandleReleaseRequest
<1> HIDE DEF e
<1>3. g \in NodeResults /\ SameLocks(e, g)
  BY <1>1, SetState
<1> HIDE DEF g
<1>4. q \in NodeResults /\ SameLocks(g, q)
  BY <1>3, UpdateMasterStateType
<1> HIDE DEF q
<1>5. SameLocks(r, q)
  BY <1>1, <1>3, <1>4 DEF SameLocks
<1> QED
  BY <1>2, <1>4, <1>5, SameLocksAdvance

(* A copy is sent at once or put off.                                      *)
LEMMA HandleTransferToCopyType ==
  ASSUME NEW n \in Nodes, NEW r \in NodeResults, NEW target \in Nodes
  PROVE  LET q == HandleTransferToCopy(n, r, target)
         IN  q \in NodeResults /\ Serves(r.s, q.s)
<1> DEFINE e == Expect(r, r.s.hasCopylist, "copy_asked_of_nonmaster")
           a == ProvideCopies(e, {target})
           b == [e EXCEPT !.s.copyWaitlist = @ \cup {target}]
           g == IF CanProvideCopies(e.s) THEN a ELSE b
           q == UpdateMasterState(n, g)
<1>1. e \in NodeResults /\ e.s = r.s
  BY NodeExpect DEF Assertions
<1>2. HandleTransferToCopy(n, r, target) = IF target \in e.s.copylist THEN e ELSE q
  BY DEF HandleTransferToCopy
<1> HIDE DEF e
<1>3. a \in NodeResults /\ SameLocks(e, a)
  BY <1>1, ProvideCopiesType
<1>4. b \in NodeResults /\ SameLocks(e, b)
  BY <1>1, SetCopyWaitlist
<1> HIDE DEF a, b
<1>5. g \in NodeResults /\ SameLocks(e, g)
  BY <1>3, <1>4
<1> HIDE DEF g
<1>6. q \in NodeResults /\ SameLocks(g, q)
  BY <1>5, UpdateMasterStateType
<1> HIDE DEF q
<1>7. SameLocks(r, e) /\ SameLocks(r, q)
  BY <1>1, <1>5, <1>6 DEF SameLocks
<1> QED
  BY <1>1, <1>2, <1>6, <1>7, SameLocksAdvance

(* The data goes to the new master.                                        *)
LEMMA HandleTransferToNewMasterType ==
  ASSUME NEW r \in NodeResults, NEW target
  PROVE  LET q == HandleTransferToNewMaster(r, target)
         IN  q \in NodeResults /\ Serves(r.s, q.s)
<1> DEFINE e == Expect(r, r.s.state = "copy" /\ ~r.s.hasCopylist, "data_asked_of_noncopy")
           m == [type |-> "data", content |-> r.s.content]
           q == Send(e, {target}, m)
<1>1. e \in NodeResults /\ e.s = r.s
  BY NodeExpect DEF Assertions
<1>2. r.s.content \in SUBSET (Writers \cup NoBuffer)
  BY NodeUpdate DEF DbRecord
<1>3. m \in Messages
  BY <1>2, PlainMessages
<1>4. HandleTransferToNewMaster(r, target) = q
  BY DEF HandleTransferToNewMaster
<1> HIDE DEF e, m
<1>5. q \in NodeResults /\ q.s = e.s
  BY <1>1, <1>3, NodeSend
<1>6. SameLocks(r, q)
  BY <1>1, <1>5 DEF SameLocks
<1> HIDE DEF q
<1> QED
  BY <1>4, <1>5, <1>6, SameLocksAdvance

(* A listed node becomes the master; another one asks for the data.        *)
LEMMA HandleTakeMasterType ==
  ASSUME NEW n \in Nodes, NEW r \in NodeResults, NEW L \in SUBSET Nodes, NEW supplier
  PROVE  LET q == HandleTakeMaster(n, r, L, supplier)
         IN  q \in NodeResults /\ Serves(r.s, q.s)
<1> DEFINE e == [r EXCEPT !.s.hasCopylist = TRUE, !.s.copylist = L]
           a == Expect(e, e.s.state = "copy", "listed_without_a_copy")
           b == [a EXCEPT !.s.state = "master", !.s.copylist = @ \ {n}]
           c == Send(b, {Owner}, [type |-> "is_master"])
           q == GrantLocks(n, c)
           f == Expect(e, e.s.state = "invalid" /\ L # {}, "copy_without_being_listed")
           g == Send(f, {supplier}, [type |-> "transfer_data_to_new_master", node |-> n])
<1>1. e \in NodeResults /\ SameLocks(r, e)
  BY TakeCopylist
<1>2. HandleTakeMaster(n, r, L, supplier) = IF n \in L THEN q ELSE g
  BY DEF HandleTakeMaster
<1> HIDE DEF e
<1>3. a \in NodeResults /\ a.s = e.s
  BY <1>1, NodeExpect DEF Assertions
<1> HIDE DEF a
<1>4. b \in NodeResults /\ SameLocks(a, b)
  BY <1>3, SetMaster
<1> HIDE DEF b
<1>5. c \in NodeResults /\ c.s = b.s
  BY <1>4, PlainMessages, NodeSend
<1> HIDE DEF c
<1>6. q \in NodeResults /\ Serves(c.s, q.s)
  BY <1>5, GrantLocksType
<1> HIDE DEF q
<1>7. SameLocks(r, c)
  BY <1>1, <1>3, <1>4, <1>5 DEF SameLocks
<1>8. Serves(r.s, q.s)
  BY <1>6, <1>7, SameLocksThenAdvance
<1>9. f \in NodeResults /\ f.s = e.s
  BY <1>1, NodeExpect DEF Assertions
<1> HIDE DEF f
<1>10. g \in NodeResults /\ g.s = f.s
  BY <1>9, PlainMessages, NodeSend
<1> HIDE DEF g
<1>11. SameLocks(r, g)
  BY <1>1, <1>9, <1>10 DEF SameLocks
<1> QED
  BY <1>2, <1>6, <1>8, <1>10, <1>11, SameLocksAdvance

(* The new master gets its data.                                          *)
LEMMA HandleDataType ==
  ASSUME NEW n \in Nodes, NEW r \in NodeResults, 
         NEW content \in SUBSET (Writers \cup NoBuffer)
  PROVE  LET q == HandleData(n, r, content) IN q \in NodeResults /\ Serves(r.s, q.s)
<1> DEFINE e == Expect(r, r.s.state = "invalid" /\ r.s.hasCopylist /\ r.s.content = NoBuffer,
                       "unexpected_master_data")
           b == [e EXCEPT !.s.content = content, !.s.state = "master"]
           c == Send(b, {Owner}, [type |-> "is_master"])
           q == GrantLocks(n, c)
<1>1. e \in NodeResults /\ e.s = r.s
  BY NodeExpect DEF Assertions
<1>2. HandleData(n, r, content) = q
  BY DEF HandleData
<1> HIDE DEF e
<1>3. b \in NodeResults /\ SameLocks(e, b)
  BY <1>1, SetContent
<1> HIDE DEF b
<1>4. c \in NodeResults /\ c.s = b.s
  BY <1>3, PlainMessages, NodeSend
<1> HIDE DEF c
<1>5. q \in NodeResults /\ Serves(c.s, q.s)
  BY <1>4, GrantLocksType
<1> HIDE DEF q
<1>6. SameLocks(r, c)
  BY <1>1, <1>3, <1>4 DEF SameLocks
<1> QED
  BY <1>2, <1>5, <1>6, SameLocksThenAdvance

(* A reader gets its copy.                                                *)
LEMMA HandleDataCopyType ==
  ASSUME NEW n \in Nodes, NEW r \in NodeResults, NEW from,
         NEW content \in SUBSET (Writers \cup NoBuffer)
  PROVE  LET q == HandleDataCopy(n, r, from, content) IN q \in NodeResults /\ Serves(r.s, q.s)
<1> DEFINE e == Expect(r, r.s.content = NoBuffer, "unexpected_copy_data")
           b == [e EXCEPT !.s.content = content, !.s.state = "copy"]
           c == Send(b, {from}, [type |-> "copy_received"])
           q == GrantLocks(n, c)
<1>1. e \in NodeResults /\ e.s = r.s
  BY NodeExpect DEF Assertions
<1>2. HandleDataCopy(n, r, from, content) = q
  BY DEF HandleDataCopy
<1> HIDE DEF e
<1>3. b \in NodeResults /\ SameLocks(e, b)
  BY <1>1, SetContent
<1> HIDE DEF b
<1>4. c \in NodeResults /\ c.s = b.s
  BY <1>3, PlainMessages, NodeSend
<1> HIDE DEF c
<1>5. q \in NodeResults /\ Serves(c.s, q.s)
  BY <1>4, GrantLocksType
<1> HIDE DEF q
<1>6. SameLocks(r, c)
  BY <1>1, <1>3, <1>4 DEF SameLocks
<1> QED
  BY <1>2, <1>5, <1>6, SameLocksThenAdvance

(* The last receipt may start an invalidation round.                       *)
LEMMA HandleCopyReceivedType ==
  ASSUME NEW n \in Nodes, NEW r \in NodeResults
  PROVE  LET q == HandleCopyReceived(n, r) IN q \in NodeResults /\ Serves(r.s, q.s)
<1> DEFINE e == Expect(r, r.s.hasCopylist /\ r.s.pendingCopies > 0, "unexpected_copy_receipt")
           b == [e EXCEPT !.s.pendingCopies = IF @ > 0 THEN @ - 1 ELSE 0]
           c == TryStartRound(b)
           q == UpdateMasterState(n, c)
<1>1. e \in NodeResults /\ e.s = r.s
  BY NodeExpect DEF Assertions
<1>2. HandleCopyReceived(n, r) = IF b.s.pendingCopies = 0 THEN q ELSE b
  BY DEF HandleCopyReceived
<1> HIDE DEF e
<1>3. b \in NodeResults /\ SameLocks(e, b)
  BY <1>1, CountCopy
<1> HIDE DEF b
<1>4. c \in NodeResults /\ SameLocks(b, c)
  BY <1>3, TryStartRoundType
<1> HIDE DEF c
<1>5. q \in NodeResults /\ SameLocks(c, q)
  BY <1>4, UpdateMasterStateType
<1> HIDE DEF q
<1>6. SameLocks(r, b) /\ SameLocks(r, q)
  BY <1>1, <1>3, <1>4, <1>5 DEF SameLocks
<1> QED
  BY <1>2, <1>3, <1>5, <1>6, SameLocksAdvance

(* The copy is dropped.                                                    *)
LEMMA HandleInvalidateCopyType ==
  ASSUME NEW r \in NodeResults, NEW from
  PROVE  LET q == HandleInvalidateCopy(r, from) IN q \in NodeResults /\ Serves(r.s, q.s)
<1> DEFINE e == Expect(r, r.s.state = "copy", "invalidation_of_noncopy")
           b == [e EXCEPT !.s.state = "invalid", !.s.content = NoBuffer]
           q == Send(b, {from}, [type |-> "copy_invalidated"])
<1>1. e \in NodeResults /\ e.s = r.s
  BY NodeExpect DEF Assertions
<1>2. HandleInvalidateCopy(r, from) = q
  BY DEF HandleInvalidateCopy
<1> HIDE DEF e
<1>3. b \in NodeResults /\ SameLocks(e, b)
  BY <1>1, DropContent
<1> HIDE DEF b
<1>4. q \in NodeResults /\ q.s = b.s
  BY <1>3, PlainMessages, NodeSend
<1> HIDE DEF q
<1>5. SameLocks(r, q)
  BY <1>1, <1>3, <1>4 DEF SameLocks
<1> QED
  BY <1>2, <1>4, <1>5, SameLocksAdvance

(* The last acknowledgement frees the finished writers.                    *)
LEMMA HandleCopyInvalidatedType ==
  ASSUME NEW n \in Nodes, NEW r \in NodeResults
  PROVE  LET q == HandleCopyInvalidated(n, r) IN q \in NodeResults /\ Advances(r.s, q.s)
<1> DEFINE e == Expect(r, r.s.hasCopylist /\ r.s.pendingInvalidations > 0,
                       "unexpected_invalidation")
           b == [e EXCEPT !.s.pendingInvalidations = IF @ > 0 THEN @ - 1 ELSE 0]
           u == [b.s EXCEPT !.waiters = {}]
           c == [b EXCEPT !.s = u]
           q == UpdateMasterState(n, c)
<1>1. e \in NodeResults /\ e.s = r.s
  BY NodeExpect DEF Assertions
<1> HIDE DEF e
<1>2. b \in NodeResults /\ SameLocks(e, b) /\ b.s \in DbRecord
  BY <1>1, CountInvalidation, NodeUpdate
<1>3. HandleCopyInvalidated(n, r) = IF b.s.pendingInvalidations = 0 THEN q ELSE b
  BY <1>2 DEF HandleCopyInvalidated, NodeResults, ResultOf, e
<1> HIDE DEF b
<1>4. /\ u \in DbRecord /\ u.waiters = {}
      /\ u.lockers = b.s.lockers /\ u.waitlist = b.s.waitlist
  BY <1>2 DEF DbRecord
<1>5. c \in NodeResults /\ c.s = u
  BY <1>2, <1>4, NodeUpdate
<1> HIDE DEF c, u
<1>6. q \in NodeResults /\ SameLocks(c, q)
  BY <1>5, UpdateMasterStateType
<1> HIDE DEF q
<1>7. SameLocks(r, b)
  BY <1>1, <1>2 DEF SameLocks
<1>8. Advances(r.s, q.s)
  <2>1. q.s.lockers = r.s.lockers /\ q.s.waitlist = r.s.waitlist /\ q.s.waiters = {}
    BY <1>4, <1>5, <1>6, <1>7 DEF SameLocks
  <2> QED
    BY <2>1 DEF Advances, Queued
<1> QED
  BY <1>2, <1>3, <1>6, <1>7, <1>8, SameLocksAdvance DEF Serves

(***************************************************************************)
(* The handlers of the owner.                                              *)
(***************************************************************************)
OwnerResults == ResultOf(OwnerRecord)

(* The record of the owner can be replaced in a result.                    *)
LEMMA OwnerUpdate ==
  ASSUME NEW r \in OwnerResults
  PROVE  /\ r.s \in OwnerRecord
         /\ \A u \in OwnerRecord : [r EXCEPT !.s = u] \in OwnerResults /\ [r EXCEPT !.s = u].s = u
  BY DEF OwnerResults, ResultOf

(* What the owner's handlers start from, expect and send.                  *)
LEMMA OwnerSteps ==
  /\ \A o \in OwnerRecord : Result(o) \in OwnerResults /\ Result(o).s = o
  /\ \A r \in OwnerResults, m \in Messages : \A D : Send(r, D, m) \in OwnerResults
<1>1. ASSUME NEW o \in OwnerRecord PROVE Result(o) \in OwnerResults /\ Result(o).s = o
  BY ResultType DEF OwnerResults
<1>2. ASSUME NEW r \in OwnerResults, NEW m \in Messages, NEW D
      PROVE  Send(r, D, m) \in OwnerResults
  BY SendType DEF OwnerResults
<1> QED
  BY <1>1, <1>2

(* An assertion of the owner's handlers.                                   *)
LEMMA OwnerExpect ==
  ASSUME NEW r \in OwnerResults, NEW c, NEW e \in Assertions
  PROVE  Expect(r, c, e) \in OwnerResults /\ Expect(r, c, e).s = r.s
  BY ExpectType DEF OwnerResults

(* A request for the master role or for a copy.                            *)
LEMMA OwnerElevationType ==
  ASSUME NEW o \in OwnerRecord, NEW node \in Nodes \cup {Destroyed}, NEW level,
         level # "master" => node \in Nodes
  PROVE  OwnerElevation(o, node, level) \in OwnerResults
<1> DEFINE r0 == Result(o)
           r  == Expect(r0, o.target # Destroyed, "elevation_after_destroy")
           w2 == Append(o.masterWaitlist, node)
           w3 == Append(o.copyWaitlist, node)
           u1 == [r.s EXCEPT !.target = node, !.masterWaitlist = <<node>>, !.master = NoNode]
           q1 == [r EXCEPT !.s = u1]
           u2 == [r.s EXCEPT !.masterWaitlist = w2]
           q2 == [r EXCEPT !.s = u2]
           u3 == [r.s EXCEPT !.copyWaitlist = w3]
           q3 == [r EXCEPT !.s = u3]
           a  == Send(q1, {o.master}, [type |-> "release_master_request"])
           b  == Send(r, {o.master}, [type |-> "transfer_data_to_copy", node |-> node])
<1>0. OwnerElevation(o, node, level) =
        IF level = "master"
          THEN IF o.masterWaitlist = <<>>
                 THEN Send([r EXCEPT !.s.target = node, !.s.masterWaitlist = <<node>>,
                                     !.s.master = NoNode],
                           {o.master}, [type |-> "release_master_request"])
               ELSE IF o.masterWaitlist[Len(o.masterWaitlist)] = node THEN r
               ELSE [r EXCEPT !.s.masterWaitlist = Append(@, node)]
        ELSE IF node = o.master THEN r
        ELSE IF o.target = o.master THEN b
        ELSE [r EXCEPT !.s.copyWaitlist = Append(@, node)]
  BY DEF OwnerElevation
<1>1. r0 \in OwnerResults /\ r0.s = o
  BY OwnerSteps
<1> HIDE DEF r0
<1>2. r \in OwnerResults /\ r.s = o
  BY <1>1, OwnerExpect DEF Assertions
<1> HIDE DEF r
<1>3. <<node>> \in Seq(Nodes \cup {Destroyed}) /\ w2 \in Seq(Nodes \cup {Destroyed})
  BY DEF OwnerRecord
<1>4. level # "master" => w3 \in Seq(Nodes)
  BY DEF OwnerRecord
<1>5. /\ q1 = [r EXCEPT !.s.target = node, !.s.masterWaitlist = <<node>>, !.s.master = NoNode]
      /\ q2 = [r EXCEPT !.s.masterWaitlist = Append(@, node)]
      /\ q3 = [r EXCEPT !.s.copyWaitlist = Append(@, node)]
  BY <1>2 DEF OwnerResults, ResultOf, OwnerRecord
<1> HIDE DEF w2, w3
<1>6. u1 \in OwnerRecord /\ u2 \in OwnerRecord /\ (level # "master" => u3 \in OwnerRecord)
  BY <1>2, <1>3, <1>4 DEF OwnerRecord, Masters
<1> HIDE DEF u1, u2, u3
<1>7. q1 \in OwnerResults /\ q2 \in OwnerResults /\ (level # "master" => q3 \in OwnerResults)
  BY <1>2, <1>6, OwnerUpdate
<1> HIDE DEF q1, q2, q3
<1>8. a \in OwnerResults
  BY <1>7, PlainMessages, OwnerSteps
<1>9. level # "master" => b \in OwnerResults
  <2> SUFFICES ASSUME level # "master" PROVE b \in OwnerResults
    OBVIOUS
  <2>1. [type |-> "transfer_data_to_copy", node |-> node] \in Messages
    BY PlainMessages
  <2> QED
    BY <1>2, <2>1, OwnerSteps
<1> HIDE DEF a, b
<1>10. CASE level = "master"
  <2>1. OwnerElevation(o, node, level) =
          IF o.masterWaitlist = <<>> THEN a
          ELSE IF o.masterWaitlist[Len(o.masterWaitlist)] = node THEN r ELSE q2
    BY <1>0, <1>5, <1>10 DEF a
  <2> QED
    BY <2>1, <1>2, <1>7, <1>8
<1>11. CASE level # "master"
  <2>1. OwnerElevation(o, node, level) =
          IF node = o.master THEN r ELSE IF o.target = o.master THEN b ELSE q3
    BY <1>0, <1>5, <1>11
  <2> QED
    BY <1>11, <2>1, <1>2, <1>7, <1>9
<1> QED
  BY <1>10, <1>11

(* The copylist comes back to the owner.                                   *)
LEMMA OwnerMasterReleasedType ==
  ASSUME NEW o \in OwnerRecord, NEW L \in SUBSET Nodes
  PROVE  OwnerMasterReleased(o, L) \in OwnerResults
<1> DEFINE r == Result(o)
           u == [r.s EXCEPT !.master = Destroyed]
           q == [r EXCEPT !.s = u]
           e == Expect(r, o.target = Head(o.masterWaitlist), "target_is_not_first")
           a == Send(q, L, [type |-> "invalidate_copy"])
           b == Send(e, {o.target}, [type |-> "take_master", copylist |-> L])
<1>1. r \in OwnerResults /\ r.s = o
  BY ResultType DEF OwnerResults
<1>2. OwnerMasterReleased(o, L) \in {a, b}
  BY <1>1 DEF OwnerMasterReleased, OwnerResults, ResultOf, OwnerRecord
<1> HIDE DEF r
<1>3. u \in OwnerRecord
  BY <1>1 DEF OwnerRecord, Masters
<1>4. q \in OwnerResults
  BY <1>1, <1>3, OwnerUpdate
<1>5. e \in OwnerResults
  BY <1>1, OwnerExpect DEF Assertions
<1> HIDE DEF q, e
<1>6. a \in OwnerResults /\ b \in OwnerResults
  BY <1>4, <1>5, PlainMessages, SendType DEF OwnerResults
<1> HIDE DEF a, b
<1> QED
  BY <1>2, <1>6

(* The new master is ready, and the next move may start.                   *)
LEMMA OwnerNewMasterReadyType ==
  ASSUME NEW o \in OwnerRecord, NEW from \in Nodes
  PROVE  OwnerNewMasterReady(o, from) \in OwnerResults
<1> DEFINE awaited == o.masterWaitlist # <<>> /\ o.target = Head(o.masterWaitlist) /\ from = o.target
           copies  == Without(o.copyWaitlist, {o.target})
           toCopy  == [i \in 1..Len(copies) |-> [type |-> "transfer_data_to_copy", node |-> copies[i]]]
           rest    == Tail(o.masterWaitlist)
           v       == [o EXCEPT !.masterWaitlist = rest, !.copyWaitlist = <<>>, !.master = from]
           r0      == Result(v)
           r       == [r0 EXCEPT !.out[from] = toCopy]
           u       == [r.s EXCEPT !.target = Head(rest), !.master = NoNode]
           q       == [r EXCEPT !.s = u]
           a       == Send(q, {from}, [type |-> "release_master_request"])
           z       == Expect(Result(o), FALSE, "not_the_awaited_master")
<1>1. OwnerNewMasterReady(o, from) =
        IF ~awaited THEN z
        ELSE IF rest = <<>> THEN r
        ELSE Send([r EXCEPT !.s.target = Head(rest), !.s.master = NoNode],
                  {from}, [type |-> "release_master_request"])
  BY DEF OwnerNewMasterReady
<1>2. z \in OwnerResults
  BY OwnerSteps, OwnerExpect DEF Assertions
<1> HIDE DEF z
<1> SUFFICES ASSUME awaited PROVE OwnerNewMasterReady(o, from) \in OwnerResults
  BY <1>1, <1>2
<1>3. o.copyWaitlist \in Seq(Nodes) /\ o.masterWaitlist \in Seq(Nodes \cup {Destroyed})
  BY DEF OwnerRecord
<1>4. copies \in Seq(Nodes)
  <2>1. copies \in Seq(Nodes \ {o.target})
    BY <1>3, WithoutType
  <2>2. Seq(Nodes \ {o.target}) \subseteq Seq(Nodes)
    OBVIOUS
  <2> QED
    BY <2>1, <2>2
<1> HIDE DEF copies
<1>5. toCopy \in Seq(Messages)
  <2>1. ASSUME NEW i \in 1..Len(copies)
        PROVE  [type |-> "transfer_data_to_copy", node |-> copies[i]] \in Messages
    <3>1. copies[i] \in Nodes
      BY <1>4
    <3> QED
      BY <3>1, PlainMessages
  <2> QED
    BY <1>4, <2>1
<1> HIDE DEF toCopy
<1>6. rest \in Seq(Nodes \cup {Destroyed}) /\ (rest # <<>> => Head(rest) \in Nodes \cup {Destroyed})
  BY <1>3
<1> HIDE DEF rest
<1>7. v \in OwnerRecord
  <2>1. <<>> \in Seq(Nodes)
    OBVIOUS
  <2> QED
    BY <1>6, <2>1 DEF OwnerRecord, Masters
<1> HIDE DEF v
<1>8. r0 \in OwnerResults /\ r0.s = v
  BY <1>7, ResultType DEF OwnerResults
<1> HIDE DEF r0
<1>9. r \in OwnerResults /\ r.s = v
  <2> DEFINE out == [r0.out EXCEPT ![from] = toCopy]
  <2>1. r = [r0 EXCEPT !.out = out]
    BY <1>8 DEF OwnerResults, ResultOf
  <2>2. out \in [Nodes -> Seq(Messages)]
    BY <1>5, <1>8 DEF OwnerResults, ResultOf
  <2> HIDE DEF out, r
  <2> QED
    BY <1>8, <2>1, <2>2 DEF OwnerResults, ResultOf
<1> HIDE DEF r
<1>10. rest # <<>> => u \in OwnerRecord
  BY <1>6, <1>7, <1>9 DEF OwnerRecord, Masters
<1>11. q = [r EXCEPT !.s.target = Head(rest), !.s.master = NoNode]
  BY <1>7, <1>9 DEF OwnerResults, ResultOf, OwnerRecord
<1>12. rest # <<>> => q \in OwnerResults
  BY <1>9, <1>10, OwnerUpdate
<1> HIDE DEF q
<1>13. rest # <<>> => a \in OwnerResults
  BY <1>12, PlainMessages, SendType DEF OwnerResults
<1> QED
  BY <1>1, <1>9, <1>11, <1>13

(***************************************************************************)
(* The inductive invariant.                                                *)
(***************************************************************************)
(* The lock table s of node n agrees with the tasks' progress p: the       *)
(* holders may hold together and are the tasks of n between grant and      *)
(* release, the queued tasks of n are waiting and its waiters finishing.   *)
NodeLocks(s, n, p) ==
  /\ Together(s.lockers)
  /\ \A t \in s.lockers : Home[t] = n /\ p[t] \in Holding
  /\ \A t \in Queued(s) : Home[t] = n /\ p[t] = "waiting"
  /\ \A t \in s.waiters : Home[t] = n /\ p[t] = "finishing"
  /\ \A t \in Tasks : Home[t] = n /\ p[t] \in Holding => t \in s.lockers

LockInv == \A n \in Nodes : NodeLocks(db[n], n, pc)
IInv    == TypeOK /\ LockInv

ChanType == [Nodes -> [Streams -> [Nodes -> Seq(Messages)]]]

(* The invariant implies the property the runs check.                      *)
LEMMA InvImplies == ASSUME IInv PROVE LocksCompatible
<1>1. ASSUME NEW n \in Nodes, NEW t \in db[n].lockers, NEW u \in db[n].lockers, t # u
      PROVE  Mode[t] # "EW" /\ (Mode[t] = "CONST" => Mode[u] = "CONST")
  BY <1>1 DEF IInv, LockInv, NodeLocks, Together
<1>2. ASSUME NEW t \in Tasks PROVE pc[t] \in Holding <=> t \in db[Home[t]].lockers
  <2>1. Home[t] \in Nodes
    BY TaskAssumption
  <2> QED
    BY <2>1 DEF IInv, LockInv, NodeLocks
<1> QED
  BY <1>1, <1>2 DEF LocksCompatible

(* The initial state satisfies it.                                         *)
LEMMA InitInv == ASSUME Init PROVE IInv
<1>1. <<>> \in Seq(Messages) /\ <<>> \in Seq(Tasks) /\ <<>> \in Seq(Nodes)
      /\ <<>> \in Seq(Nodes \cup {Destroyed})
  OBVIOUS
<1>2. Invalid \in DbRecord
  BY <1>1 DEF Invalid, DbRecord
<1>3. [Invalid EXCEPT !.state = "master", !.hasCopylist = TRUE, !.content = {}] \in DbRecord
  BY <1>1 DEF Invalid, DbRecord
<1>4. db \in [Nodes -> DbRecord]
  BY <1>2, <1>3 DEF Init
<1>5. NoMessages \in [Nodes -> Seq(Messages)]
  BY <1>1 DEF NoMessages
<1>6. chan \in ChanType
  BY <1>5 DEF Init, ChanType
<1>7. owner \in OwnerRecord
  BY <1>1, OwnerAssumption DEF Init, OwnerRecord, Masters
<1>8. TypeOK
  BY <1>4, <1>6, <1>7 DEF Init, TypeOK, ChanType, Progress
<1>9. ASSUME NEW n \in Nodes PROVE NodeLocks(db[n], n, pc)
  <2>1. db[n].lockers = {} /\ db[n].waiters = {} /\ db[n].waitlist = <<>>
    BY <1>9 DEF Init, Invalid
  <2>2. Queued(db[n]) = {}
    BY <2>1 DEF Queued
  <2>3. \A t \in Tasks : pc[t] \notin Holding
    BY DEF Init, Holding
  <2> QED
    BY <2>1, <2>2, <2>3 DEF NodeLocks, Together
<1> QED
  BY <1>8, <1>9 DEF IInv, LockInv

(* Posting typed messages keeps the channels typed.                        *)
LEMMA PostType ==
  ASSUME NEW c \in ChanType, NEW n \in Nodes, NEW s \in Streams,
         NEW out \in [Nodes -> Seq(Messages)]
  PROVE  Post(c, n, s, out) \in ChanType
<1> DEFINE row == [d \in Nodes |-> c[n][s][d] \o out[d]]
<1>1. c[n] \in [Streams -> [Nodes -> Seq(Messages)]] /\ c[n][s] \in [Nodes -> Seq(Messages)]
  BY DEF ChanType
<1>2. row \in [Nodes -> Seq(Messages)]
  BY <1>1
<1>3. Post(c, n, s, out) = [c EXCEPT ![n] = [c[n] EXCEPT ![s] = row]]
  BY DEF Post
<1> HIDE DEF row
<1> QED
  BY <1>1, <1>2, <1>3 DEF ChanType

(* So does taking the first message of a stream.                           *)
LEMMA PopType ==
  ASSUME TypeOK, NEW n \in Nodes, NEW s \in Streams, NEW d \in Nodes, Pending(n, s, d)
  PROVE  Pop(n, s, d) \in ChanType /\ Head(chan[n][s][d]) \in Messages
<1> DEFINE w   == Tail(chan[n][s][d])
           row == [chan[n][s] EXCEPT ![d] = w]
<1>1. /\ chan[n] \in [Streams -> [Nodes -> Seq(Messages)]]
      /\ chan[n][s] \in [Nodes -> Seq(Messages)]
      /\ chan[n][s][d] \in Seq(Messages) /\ chan[n][s][d] # <<>>
  BY DEF TypeOK, Pending
<1>2. w \in Seq(Messages) /\ Head(chan[n][s][d]) \in Messages
  BY <1>1
<1>3. Pop(n, s, d) = [chan EXCEPT ![n] = [chan[n] EXCEPT ![s] = row]]
  BY DEF Pop
<1> HIDE DEF w
<1>4. row \in [Nodes -> Seq(Messages)]
  BY <1>1, <1>2
<1> HIDE DEF row
<1>5. [chan[n] EXCEPT ![s] = row] \in [Streams -> [Nodes -> Seq(Messages)]]
  BY <1>1, <1>4
<1>6. chan \in ChanType
  BY DEF TypeOK, ChanType
<1>7. Pop(n, s, d) \in ChanType
  BY <1>3, <1>5, <1>6 DEF ChanType
<1> QED
  BY <1>2, <1>7

(* Installing a typed result keeps the types.                              *)
LEMMA InstallType ==
  ASSUME TypeOK, NEW n \in Nodes, NEW r \in NodeResults, NEW p \in [Tasks -> Progress],
         Install(n, r, p)
  PROVE  /\ db' \in [Nodes -> DbRecord] /\ pc' \in [Tasks -> Progress]
         /\ aborted' \in {"none"} \cup Assertions
         /\ view' \in [Tasks -> SUBSET (Writers \cup NoBuffer)]
<1>1. r.s \in DbRecord /\ r.err \in {"none"} \cup Assertions
  BY DEF NodeResults, ResultOf
<1>2. r.s.content \in SUBSET (Writers \cup NoBuffer)
  BY <1>1 DEF DbRecord
<1>3. db' \in [Nodes -> DbRecord]
  BY <1>1 DEF Install, TypeOK
<1>4. pc' \in [Tasks -> Progress]
  BY DEF Install, Progress
<1>5. view' \in [Tasks -> SUBSET (Writers \cup NoBuffer)]
  BY <1>2 DEF Install, TypeOK
<1> QED
  BY <1>1, <1>3, <1>4, <1>5 DEF Install

(* The node's result r keeps the lock invariant when it advances a table b *)
(* that agrees with p, the progress on entry, and grants and frees the same*)
(* tasks over b as over the table that is replaced.                        *)
LEMMA InstallLocks ==
  ASSUME TypeOK, NEW n \in Nodes, NEW r \in NodeResults, NEW b \in DbRecord,
         NEW p \in [Tasks -> Progress], Install(n, r, p),
         NodeLocks(b, n, p), \A k \in Nodes \ {n} : NodeLocks(db[k], k, p),
         Advances(b, r.s),
         r.s.lockers \ db[n].lockers = r.s.lockers \ b.lockers,
         db[n].waiters \ r.s.waiters = b.waiters \ r.s.waiters
  PROVE  LockInv'
<1> DEFINE new   == r.s.lockers \ b.lockers
           freed == b.waiters \ r.s.waiters
<1>1. db' = [db EXCEPT ![n] = r.s] /\ db \in [Nodes -> DbRecord] /\ r.s \in DbRecord
  BY DEF Install, TypeOK, NodeResults, ResultOf
<1>2. pc' = [t \in Tasks |-> IF t \in new THEN "running"
                             ELSE IF t \in freed THEN "notified" ELSE p[t]]
  BY DEF Install
<1>3. \A t \in new : t \in Queued(b) /\ Home[t] = n /\ p[t] = "waiting"
  BY DEF NodeLocks, Advances
<1>4. \A t \in freed : Home[t] = n /\ p[t] = "finishing"
  BY DEF NodeLocks
<1> HIDE DEF new, freed
<1>5. ASSUME NEW k \in Nodes, k # n PROVE NodeLocks(db'[k], k, pc')
  <2>1. db'[k] = db[k] /\ db[k] \in DbRecord /\ NodeLocks(db[k], k, p)
    BY <1>1, <1>5
  <2>2. db[k].lockers \subseteq Tasks /\ db[k].waiters \subseteq Tasks /\ Queued(db[k]) \subseteq Tasks
    BY <2>1, QueueFacts DEF DbRecord
  <2>3. \A t \in Tasks : Home[t] = k => pc'[t] = p[t]
    BY <1>2, <1>3, <1>4, <1>5
  <2> QED
    BY <2>1, <2>2, <2>3 DEF NodeLocks
<1>6. NodeLocks(db'[n], n, pc')
  <2>1. db'[n] = r.s
    BY <1>1
  <2>2. /\ r.s.lockers \subseteq Tasks /\ r.s.waiters \subseteq Tasks /\ Queued(r.s) \subseteq Tasks
        /\ b.lockers \subseteq Tasks
    BY <1>1, QueueFacts DEF DbRecord
  <2>3. Together(r.s.lockers)
    BY DEF NodeLocks, Advances
  <2>4. ASSUME NEW t \in r.s.lockers PROVE Home[t] = n /\ pc'[t] \in Holding
    <3>1. CASE t \in new
      BY <1>2, <1>3, <2>2, <3>1 DEF Holding
    <3>2. CASE t \notin new
      <4>1. t \in b.lockers /\ Home[t] = n /\ p[t] \in Holding
        BY <3>2 DEF new, NodeLocks
      <4> QED
        BY <1>2, <2>2, <3>2, <4>1 DEF Holding
    <3> QED
      BY <3>1, <3>2
  <2>5. ASSUME NEW t \in Queued(r.s) PROVE Home[t] = n /\ pc'[t] = "waiting"
    <3>1. t \in Queued(b) /\ t \notin new /\ Home[t] = n /\ p[t] = "waiting"
      BY DEF Advances, NodeLocks, new
    <3> QED
      BY <1>2, <1>4, <2>2, <3>1
  <2>6. ASSUME NEW t \in r.s.waiters PROVE Home[t] = n /\ pc'[t] = "finishing"
    <3>1. t \in b.waiters /\ t \notin freed /\ Home[t] = n /\ p[t] = "finishing"
      BY DEF Advances, NodeLocks, freed
    <3> QED
      BY <1>2, <1>3, <2>2, <3>1
  <2>7. ASSUME NEW t \in Tasks, Home[t] = n, pc'[t] \in Holding PROVE t \in r.s.lockers
    <3>1. CASE t \in new
      BY <3>1 DEF new
    <3>2. CASE t \notin new
      <4>1. p[t] \in Holding
        BY <1>2, <1>4, <2>7, <3>2 DEF Holding
      <4>2. t \in b.lockers
        BY <2>7, <4>1 DEF NodeLocks
      <4> QED
        BY <4>2 DEF Advances
    <3> QED
      BY <3>1, <3>2
  <2> QED
    BY <2>1, <2>3, <2>4, <2>5, <2>6, <2>7 DEF NodeLocks
<1> QED
  BY <1>5, <1>6 DEF LockInv

(***************************************************************************)
(* Every action keeps the invariant.                                       *)
(***************************************************************************)
(* The progress of a task concerns the table of its home only.             *)
LEMMA OthersAgree ==
  ASSUME IInv, NEW t \in Tasks, NEW x
  PROVE  \A k \in Nodes \ {Home[t]} : NodeLocks(db[k], k, [pc EXCEPT ![t] = x])
<1> DEFINE p == [pc EXCEPT ![t] = x]
<1> SUFFICES ASSUME NEW k \in Nodes \ {Home[t]} PROVE NodeLocks(db[k], k, p)
  OBVIOUS
<1>1. NodeLocks(db[k], k, pc) /\ db[k] \in DbRecord /\ pc \in [Tasks -> Progress]
  BY DEF IInv, LockInv, TypeOK
<1>2. Queued(db[k]) \subseteq Tasks /\ db[k].lockers \subseteq Tasks /\ db[k].waiters \subseteq Tasks
  BY <1>1, QueueFacts DEF DbRecord
<1>3. \A u \in Tasks : Home[u] = k => p[u] = pc[u]
  BY <1>1
<1> HIDE DEF p
<1> QED
  BY <1>1, <1>2, <1>3 DEF NodeLocks

(* A ready task tries to lock: it is a queued task until it gets the lock. *)
LEMMA SatisfyStep ==
  ASSUME IInv, NEW t \in Tasks, Satisfy(t)
  PROVE  IInv'
<1> DEFINE n == Home[t]
           r == Result(db[n])
           q == TryLock(n, r, t)
           p == [pc EXCEPT ![t] = "waiting"]
           w == Append(db[n].waitlist, t)
           b == [db[n] EXCEPT !.waitlist = w]
<1>1. /\ n \in Nodes /\ db[n] \in DbRecord /\ pc \in [Tasks -> Progress]
      /\ pc[t] = "unsatisfied" /\ TypeOK /\ NodeLocks(db[n], n, pc)
  BY TaskAssumption DEF IInv, TypeOK, LockInv, Satisfy
<1>2. Install(n, q, p) /\ chan' = Post(chan, n, NodeStream, q.out)
  BY DEF Satisfy
<1> HIDE DEF n
<1>3. r \in NodeResults /\ r.s = db[n]
  BY <1>1, ResultType DEF NodeResults
<1> HIDE DEF r
<1>4. /\ q \in NodeResults /\ q.s.waiters = db[n].waiters
      /\ \/ /\ q.s.lockers = db[n].lockers
            /\ Queued(q.s) \subseteq Queued(db[n]) \cup {t}
         \/ /\ q.s.lockers = db[n].lockers \cup {t}
            /\ Queued(q.s) \subseteq Queued(db[n]) /\ q.s.state # "invalid"
            /\ Together(db[n].lockers) => Together(q.s.lockers)
  <2>1. /\ q \in NodeResults /\ q.s.waiters = r.s.waiters
        /\ \/ /\ q.s.lockers = r.s.lockers
              /\ Queued(q.s) \subseteq Queued(r.s) \cup {t}
           \/ /\ q.s.lockers = r.s.lockers \cup {t}
              /\ Queued(q.s) \subseteq Queued(r.s) /\ q.s.state # "invalid"
              /\ Together(r.s.lockers) => Together(q.s.lockers)
    BY <1>1, <1>3, TryLockType
  <2> HIDE DEF q
  <2> QED
    BY <1>3, <2>1
<1> HIDE DEF q
<1>5. p \in [Tasks -> Progress]
  BY <1>1 DEF Progress
<1>6. w \in Seq(Tasks) /\ Queued(db[n]) \subseteq Tasks
  BY <1>1, QueueFacts
<1>7. Queued(b) = Queued(db[n]) \cup {t} /\ b \in DbRecord
      /\ b.lockers = db[n].lockers /\ b.waiters = db[n].waiters
  <2>1. db[n].waitlist \in Seq(Tasks)
    BY <1>1 DEF DbRecord
  <2>2. b.waitlist = w /\ b.lockers = db[n].lockers /\ b.waiters = db[n].waiters
    BY <1>1 DEF DbRecord
  <2>3. {w[i] : i \in 1..Len(w)} = {db[n].waitlist[i] : i \in 1..Len(db[n].waitlist)} \cup {t}
    BY <2>1
  <2>4. b \in DbRecord
    BY <1>1, <1>6 DEF DbRecord
  <2> QED
    BY <2>2, <2>3, <2>4 DEF Queued
<1> HIDE DEF b
<1>8. t \notin db[n].lockers /\ t \notin Queued(db[n]) /\ t \notin db[n].waiters
  BY <1>1 DEF NodeLocks, Holding
<1>9. db[n].lockers \subseteq Tasks /\ db[n].waiters \subseteq Tasks
  BY <1>1 DEF DbRecord
<1>10. NodeLocks(b, n, p)
  BY <1>1, <1>6, <1>7, <1>8, <1>9 DEF NodeLocks, n, Holding
<1>11. Advances(b, q.s)
  BY <1>1, <1>4, <1>7, <1>8 DEF Advances, NodeLocks
<1>12. \A k \in Nodes \ {n} : NodeLocks(db[k], k, p)
  BY OthersAgree DEF n
<1> HIDE DEF p
<1>13. LockInv'
  BY <1>1, <1>2, <1>4, <1>5, <1>7, <1>10, <1>11, <1>12, InstallLocks
<1>14. chan' \in ChanType
  <2>1. q.out \in [Nodes -> Seq(Messages)] /\ chan \in ChanType /\ NodeStream \in Streams
    BY <1>1, <1>4 DEF NodeResults, ResultOf, TypeOK, ChanType, Streams
  <2> QED
    BY <1>1, <1>2, <2>1, PostType
<1>15. TypeOK'
  <2>1. /\ db' \in [Nodes -> DbRecord] /\ pc' \in [Tasks -> Progress]
        /\ aborted' \in {"none"} \cup Assertions
        /\ view' \in [Tasks -> SUBSET (Writers \cup NoBuffer)]
    BY <1>1, <1>2, <1>4, <1>5, InstallType
  <2>2. UNCHANGED <<owner, written, released>> /\ needed' = [needed EXCEPT ![t] = released]
    BY DEF Satisfy
  <2> QED
    BY <1>1, <1>14, <2>1, <2>2 DEF TypeOK, ChanType
<1> QED
  BY <1>13, <1>15 DEF IInv

(* Writing changes the buffer only.                                        *)
LEMMA WriteStep ==
  ASSUME IInv, NEW t \in Tasks, Write(t)
  PROVE  IInv'
<1> DEFINE n == Home[t]
           c == db[n].content \cup {t}
           b == [db[n] EXCEPT !.content = c]
<1>1. n \in Nodes /\ db[n] \in DbRecord /\ TypeOK /\ t \in Writers
  BY TaskAssumption DEF IInv, TypeOK, Write
<1>2. db' = [db EXCEPT ![n] = b] /\ written' = written \cup {t}
      /\ UNCHANGED <<owner, chan, pc, aborted, released, needed, view>>
  BY DEF Write
<1> HIDE DEF n
<1>3. c \in SUBSET (Writers \cup NoBuffer)
  BY <1>1 DEF DbRecord
<1> HIDE DEF c
<1>4. /\ b \in DbRecord /\ b.lockers = db[n].lockers /\ b.waiters = db[n].waiters
      /\ b.waitlist = db[n].waitlist
  BY <1>1, <1>3 DEF DbRecord
<1> HIDE DEF b
<1>5. TypeOK'
  BY <1>1, <1>2, <1>4 DEF TypeOK
<1>6. ASSUME NEW k \in Nodes PROVE NodeLocks(db'[k], k, pc')
  <2>1. NodeLocks(db[k], k, pc) /\ pc' = pc
    BY <1>2 DEF IInv, LockInv
  <2>2. /\ db'[k].lockers = db[k].lockers /\ db'[k].waiters = db[k].waiters
        /\ db'[k].waitlist = db[k].waitlist
    BY <1>1, <1>2, <1>4 DEF TypeOK
  <2> QED
    BY <2>1, <2>2 DEF NodeLocks, Queued
<1> QED
  BY <1>5, <1>6 DEF IInv, LockInv

(* A finishing task keeps its lock, among the waiters if it must wait.     *)
LEMMA FinishStep ==
  ASSUME IInv, NEW t \in Tasks, Finish(t)
  PROVE  IInv'
<1> DEFINE n  == Home[t]
           s  == db[n]
           mustWait == /\ s.hasCopylist
                       /\ s.copylist # {} \/ s.pendingInvalidations > 0 \/ s.pendingCopies > 0
           waits == t \in Writers /\ mustWait
           v  == [s EXCEPT !.waiters = @ \cup {t}]
           r0 == Result(s)
           r1 == [r0 EXCEPT !.s = v]
           r2 == TryStartRound(r1)
           q1 == UpdateMasterState(n, r2)
           e  == Expect(r0, s.waiters = {}, "forgotten_waiter")
           q2 == UpdateMasterState(n, e)
           q  == IF t \notin Writers \/ ~s.hasCopylist THEN r0 ELSE IF mustWait THEN q1 ELSE q2
           b  == IF waits THEN v ELSE s
           x  == IF waits THEN "finishing" ELSE "notified"
           p  == [pc EXCEPT ![t] = x]
<1>1. /\ n \in Nodes /\ s \in DbRecord /\ pc \in [Tasks -> Progress]
      /\ pc[t] = "running" /\ TypeOK /\ NodeLocks(s, n, pc)
  BY TaskAssumption DEF IInv, TypeOK, LockInv, Finish
<1>2. /\ v \in DbRecord /\ v.waiters = s.waiters \cup {t} /\ v.lockers = s.lockers
      /\ v.waitlist = s.waitlist
  BY <1>1 DEF DbRecord
<1>3. r0 \in NodeResults /\ r0.s = s
  BY <1>1, ResultType DEF NodeResults
<1>4. r1 = [Result(s) EXCEPT !.s.waiters = @ \cup {t}]
  BY <1>3 DEF NodeResults, ResultOf
<1>5. Install(n, q, p) /\ chan' = Post(chan, n, t, q.out) /\ UNCHANGED <<owner, history>>
  BY <1>4 DEF Finish
<1> HIDE DEF n
<1> HIDE DEF r0, v
<1>6. r1 \in NodeResults /\ r1.s = v
  BY <1>2, <1>3, NodeUpdate
<1>7. e \in NodeResults /\ e.s = s
  BY <1>3, NodeExpect DEF Assertions
<1> HIDE DEF r1, e
<1>8. r2 \in NodeResults /\ SameLocks(r1, r2)
  BY <1>6, TryStartRoundType
<1> HIDE DEF r2
<1>9. q1 \in NodeResults /\ SameLocks(r2, q1)
  BY <1>1, <1>8, UpdateMasterStateType
<1>10. q2 \in NodeResults /\ SameLocks(e, q2)
  BY <1>1, <1>7, UpdateMasterStateType
<1> HIDE DEF q1, q2
<1>11. /\ q \in NodeResults /\ b \in DbRecord
       /\ q.s.lockers = b.lockers /\ q.s.waiters = b.waiters /\ q.s.waitlist = b.waitlist
  <2>1. CASE waits
    BY <1>1, <1>2, <1>6, <1>8, <1>9, <2>1 DEF SameLocks
  <2>2. CASE ~waits
    BY <1>1, <1>3, <1>7, <1>10, <2>2 DEF SameLocks
  <2> QED
    BY <2>1, <2>2
<1>12. /\ b.lockers = s.lockers /\ b.waitlist = s.waitlist
       /\ b.waiters = IF waits THEN s.waiters \cup {t} ELSE s.waiters
  BY <1>2
<1>13. t \in s.lockers /\ t \notin Queued(s) /\ t \notin s.waiters
  BY <1>1 DEF NodeLocks, Holding, n
<1>14. p \in [Tasks -> Progress] /\ x \in Holding
  BY <1>1 DEF Progress, Holding
<1>15. \A k \in Nodes \ {n} : NodeLocks(db[k], k, p)
  BY OthersAgree DEF n
<1>16. NodeLocks(b, n, p)
  <2>1. s.lockers \subseteq Tasks /\ s.waiters \subseteq Tasks /\ Queued(s) \subseteq Tasks
    BY <1>1, QueueFacts DEF DbRecord
  <2>2. Queued(b) = Queued(s)
    BY <1>12 DEF Queued
  <2>3. waits => x = "finishing"
    OBVIOUS
  <2> HIDE DEF x, b, waits, s
  <2>4. p[t] = x /\ Home[t] = n /\ \A u \in Tasks \ {t} : p[u] = pc[u]
    BY <1>1 DEF n
  <2> HIDE DEF p
  <2> QED
    BY <1>1, <1>12, <1>13, <1>14, <2>1, <2>2, <2>3, <2>4 DEF NodeLocks
<1> HIDE DEF q, b, p
<1>17. Advances(b, q.s)
  BY <1>11 DEF Advances, Queued
<1>18. LockInv'
  <2>1. /\ q.s.lockers \ db[n].lockers = q.s.lockers \ b.lockers
        /\ db[n].waiters \ q.s.waiters = b.waiters \ q.s.waiters
    BY <1>11, <1>12
  <2> QED
    BY <1>1, <1>5, <1>11, <1>14, <1>15, <1>16, <1>17, <2>1, InstallLocks
<1>19. chan' \in ChanType
  <2>1. q.out \in [Nodes -> Seq(Messages)] /\ chan \in ChanType /\ t \in Streams
    BY <1>1, <1>11 DEF NodeResults, ResultOf, TypeOK, ChanType, Streams
  <2> QED
    BY <1>1, <1>5, <2>1, PostType
<1>20. TypeOK'
  <2>1. /\ db' \in [Nodes -> DbRecord] /\ pc' \in [Tasks -> Progress]
        /\ aborted' \in {"none"} \cup Assertions
        /\ view' \in [Tasks -> SUBSET (Writers \cup NoBuffer)]
    BY <1>1, <1>5, <1>11, <1>14, InstallType
  <2> QED
    BY <1>1, <1>5, <1>19, <2>1 DEF TypeOK, ChanType, history
<1> QED
  BY <1>18, <1>20 DEF IInv

(* A released lock is dropped, and what can be granted is.                 *)
LEMMA ReleaseStep ==
  ASSUME IInv, NEW t \in Tasks, Release(t)
  PROVE  IInv'
<1> DEFINE n == Home[t]
           s == db[n]
           r == Result(s)
           q == Unlock(n, r, t)
           p == [pc EXCEPT ![t] = "done"]
           b == [s EXCEPT !.lockers = @ \ {t}]
<1>1. /\ n \in Nodes /\ s \in DbRecord /\ pc \in [Tasks -> Progress]
      /\ pc[t] = "notified" /\ TypeOK /\ NodeLocks(s, n, pc)
  BY TaskAssumption DEF IInv, TypeOK, LockInv, Release
<1>2. /\ Install(n, q, p) /\ chan' = Post(chan, n, t, q.out)
      /\ released' = released \cup ({t} \cap Writers) /\ UNCHANGED <<owner, written, needed>>
  BY DEF Release
<1> HIDE DEF n
<1>3. r \in NodeResults /\ r.s = s
  BY <1>1, ResultType DEF NodeResults
<1> HIDE DEF r
<1>4. q \in NodeResults /\ Advances(b, q.s)
  <2>1. q \in NodeResults /\ Advances([r.s EXCEPT !.lockers = @ \ {t}], q.s)
    BY <1>1, <1>3, UnlockType DEF Serves
  <2> QED
    BY <1>3, <2>1
<1> HIDE DEF q
<1>5. /\ b \in DbRecord /\ b.lockers = s.lockers \ {t} /\ b.waiters = s.waiters
      /\ b.waitlist = s.waitlist
  BY <1>1 DEF DbRecord
<1> HIDE DEF b
<1>6. Queued(b) = Queued(s) /\ t \notin Queued(s) /\ t \notin s.waiters
  BY <1>1, <1>5 DEF NodeLocks, Queued
<1>7. s.lockers \subseteq Tasks /\ s.waiters \subseteq Tasks /\ Queued(s) \subseteq Tasks
  BY <1>1, QueueFacts DEF DbRecord
<1>8. \A k \in Nodes \ {n} : NodeLocks(db[k], k, p)
  BY OthersAgree DEF n
<1>9. p \in [Tasks -> Progress] /\ p[t] = "done" /\ \A u \in Tasks \ {t} : p[u] = pc[u]
  BY <1>1 DEF Progress
<1> HIDE DEF p
<1>10. NodeLocks(b, n, p)
  BY <1>1, <1>5, <1>6, <1>7, <1>9 DEF NodeLocks, Holding, Together
<1>11. LockInv'
  <2>1. /\ q.s.lockers \ db[n].lockers = q.s.lockers \ b.lockers
        /\ db[n].waiters \ q.s.waiters = b.waiters \ q.s.waiters
    BY <1>4, <1>5, <1>6 DEF Advances
  <2> QED
    BY <1>1, <1>2, <1>4, <1>5, <1>8, <1>9, <1>10, <2>1, InstallLocks
<1>12. chan' \in ChanType
  <2>1. q.out \in [Nodes -> Seq(Messages)] /\ chan \in ChanType /\ t \in Streams
    BY <1>1, <1>4 DEF NodeResults, ResultOf, TypeOK, ChanType, Streams
  <2> QED
    BY <1>1, <1>2, <2>1, PostType
<1>13. TypeOK'
  <2>1. /\ db' \in [Nodes -> DbRecord] /\ pc' \in [Tasks -> Progress]
        /\ aborted' \in {"none"} \cup Assertions
        /\ view' \in [Tasks -> SUBSET (Writers \cup NoBuffer)]
    BY <1>1, <1>2, <1>4, <1>9, InstallType
  <2> QED
    BY <1>1, <1>2, <1>12, <2>1 DEF TypeOK, ChanType
<1> QED
  BY <1>11, <1>13 DEF IInv

(* Destroying sends one message when every task is done.                   *)
LEMMA DestroyStep ==
  ASSUME IInv, NEW t \in Tasks, Destroy(t)
  PROVE  IInv'
<1> DEFINE n   == Home[t]
           w   == Append(chan[n][t][Owner], [type |-> "db_destroy"])
           row == [chan[n][t] EXCEPT ![Owner] = w]
           tab == [chan[n] EXCEPT ![t] = row]
<1>1. /\ n \in Nodes /\ TypeOK /\ LockInv /\ t \in Streams
      /\ \A u \in Tasks : pc[u] = "done"
      /\ pc' = [pc EXCEPT ![t] = "destroyer"]
      /\ UNCHANGED <<db, owner, aborted, history, view>>
  BY TaskAssumption DEF IInv, Destroy, Streams
<1>2. chan' = [chan EXCEPT ![n] = tab]
  BY DEF Destroy
<1> HIDE DEF n
<1>3. /\ chan \in ChanType /\ chan[n] \in [Streams -> [Nodes -> Seq(Messages)]]
      /\ chan[n][t] \in [Nodes -> Seq(Messages)] /\ chan[n][t][Owner] \in Seq(Messages)
  BY <1>1, OwnerAssumption DEF TypeOK, ChanType
<1>4. w \in Seq(Messages)
  BY <1>3, PlainMessages
<1> HIDE DEF w
<1>5. row \in [Nodes -> Seq(Messages)]
  BY <1>3, <1>4
<1> HIDE DEF row
<1>6. tab \in [Streams -> [Nodes -> Seq(Messages)]]
  BY <1>3, <1>5
<1> HIDE DEF tab
<1>7. TypeOK'
  BY <1>1, <1>2, <1>3, <1>6 DEF TypeOK, ChanType, history, Progress
<1>8. ASSUME NEW k \in Nodes PROVE NodeLocks(db'[k], k, pc')
  <2>1. NodeLocks(db[k], k, pc) /\ db' = db /\ db[k] \in DbRecord
    BY <1>1 DEF LockInv, TypeOK
  <2>2. Queued(db[k]) \subseteq Tasks /\ db[k].lockers \subseteq Tasks /\ db[k].waiters \subseteq Tasks
    BY <2>1, QueueFacts DEF DbRecord
  <2>3. \A u \in Tasks : pc'[u] \notin Holding
    BY <1>1 DEF TypeOK, Holding
  <2> QED
    BY <1>1, <2>1, <2>2, <2>3 DEF NodeLocks, Holding
<1> QED
  BY <1>7, <1>8 DEF IInv, LockInv

(* The owner's handlers touch no lock table.                               *)
LEMMA DeliverToOwnerStep ==
  ASSUME IInv, NEW k \in Nodes, NEW s \in Streams, DeliverToOwner(k, s)
  PROVE  IInv'
<1> DEFINE m == Head(chan[k][s][Owner])
           r == OwnerResult(m, k)
           c == Pop(k, s, Owner)
<1>1. /\ TypeOK /\ LockInv /\ Owner \in Nodes /\ owner \in OwnerRecord /\ NodeStream \in Streams
      /\ m.type \in ToOwner
      /\ owner' = r.s /\ aborted' = r.err /\ chan' = Post(c, Owner, NodeStream, r.out)
      /\ UNCHANGED <<db, pc, history, view>>
  BY OwnerAssumption DEF IInv, TypeOK, DeliverToOwner, Streams
<1>2. c \in ChanType /\ m \in Messages
  BY <1>1, PopType DEF DeliverToOwner
<1> HIDE DEF m, c
<1>3. r \in OwnerResults
  <2>1. CASE m.type = "elevation_request"
    <3>1. m.node \in Nodes /\ r = OwnerElevation(owner, m.node, m.level)
      BY <1>2, <2>1 DEF Messages, OwnerResult
    <3> QED
      BY <1>1, <3>1, OwnerElevationType
  <2>2. CASE m.type = "db_destroy"
    <3>1. r = OwnerElevation(owner, Destroyed, "master")
      BY <2>2 DEF OwnerResult
    <3> QED
      BY <1>1, <3>1, OwnerElevationType
  <2>3. CASE m.type = "copylist_released"
    <3>1. m.copylist \in SUBSET Nodes /\ r = OwnerMasterReleased(owner, m.copylist)
      BY <1>2, <2>3 DEF Messages, OwnerResult
    <3> QED
      BY <1>1, <3>1, OwnerMasterReleasedType
  <2>4. CASE m.type = "is_master"
    <3>1. r = OwnerNewMasterReady(owner, k)
      BY <2>4 DEF OwnerResult
    <3> QED
      BY <1>1, <3>1, OwnerNewMasterReadyType
  <2> QED
    BY <1>1, <2>1, <2>2, <2>3, <2>4 DEF ToOwner
<1> HIDE DEF r
<1>4. r.s \in OwnerRecord /\ r.err \in {"none"} \cup Assertions
      /\ r.out \in [Nodes -> Seq(Messages)]
  BY <1>3 DEF OwnerResults, ResultOf
<1>5. chan' \in ChanType
  BY <1>1, <1>2, <1>4, PostType
<1>6. TypeOK'
  BY <1>1, <1>4, <1>5 DEF TypeOK, ChanType, history
<1>7. LockInv'
  BY <1>1 DEF LockInv
<1> QED
  BY <1>6, <1>7 DEF IInv

(* Each message of a node has a handler that advances the lock table.      *)
LEMMA NodeResultType ==
  ASSUME TypeOK, NEW d \in Nodes, NEW m \in Messages, m.type \notin ToOwner,
         NEW from \in Nodes, NEW supplier
  PROVE  LET q == NodeResult(d, m, from, supplier)
         IN  /\ q \in NodeResults /\ Advances(db[d], q.s)
             /\ m.type # "copy_invalidated" => q.s.waiters = db[d].waiters
<1> DEFINE r == Result(db[d])
           q == NodeResult(d, m, from, supplier)
<1>1. r \in NodeResults /\ r.s = db[d]
  BY ResultType DEF NodeResults, TypeOK
<1> SUFFICES /\ q \in NodeResults /\ Advances(r.s, q.s)
             /\ m.type # "copy_invalidated" => q.s.waiters = r.s.waiters
  BY <1>1
<1>2. CASE m.type = "release_master_request"
  <2>1. q = HandleReleaseRequest(d, r)
    BY <1>2 DEF NodeResult
  <2> QED
    BY <1>1, <2>1, HandleReleaseRequestType DEF Serves
<1>3. CASE m.type = "transfer_data_to_copy"
  <2>1. q = HandleTransferToCopy(d, r, m.node) /\ m.node \in Nodes
    BY <1>3 DEF NodeResult, Messages
  <2>2. q \in NodeResults /\ Serves(r.s, q.s)
    BY <1>1, <2>1, HandleTransferToCopyType
  <2> QED
    BY <2>2 DEF Serves
<1>4. CASE m.type = "transfer_data_to_new_master"
  <2>1. q = HandleTransferToNewMaster(r, m.node)
    BY <1>4 DEF NodeResult
  <2> QED
    BY <1>1, <2>1, HandleTransferToNewMasterType DEF Serves
<1>5. CASE m.type = "take_master"
  <2>1. q = HandleTakeMaster(d, r, m.copylist, supplier) /\ m.copylist \in SUBSET Nodes
    BY <1>5 DEF NodeResult, Messages
  <2> QED
    BY <1>1, <2>1, HandleTakeMasterType DEF Serves
<1>6. CASE m.type = "data"
  <2>1. q = HandleData(d, r, m.content) /\ m.content \in SUBSET (Writers \cup NoBuffer)
    BY <1>6 DEF NodeResult, Messages
  <2> QED
    BY <1>1, <2>1, HandleDataType DEF Serves
<1>7. CASE m.type = "data_copy"
  <2>1. q = HandleDataCopy(d, r, from, m.content) /\ m.content \in SUBSET (Writers \cup NoBuffer)
    BY <1>7 DEF NodeResult, Messages
  <2> QED
    BY <1>1, <2>1, HandleDataCopyType DEF Serves
<1>8. CASE m.type = "copy_received"
  <2>1. q = HandleCopyReceived(d, r)
    BY <1>8 DEF NodeResult
  <2> QED
    BY <1>1, <2>1, HandleCopyReceivedType DEF Serves
<1>9. CASE m.type = "invalidate_copy"
  <2>1. q = HandleInvalidateCopy(r, from)
    BY <1>9 DEF NodeResult
  <2> QED
    BY <1>1, <2>1, HandleInvalidateCopyType DEF Serves
<1>10. CASE m.type = "copy_invalidated"
  <2>1. q = IF d = Owner /\ owner.master = Destroyed THEN r ELSE HandleCopyInvalidated(d, r)
    BY <1>10 DEF NodeResult
  <2>2. Advances(r.s, r.s)
    BY DEF Advances
  <2> QED
    BY <1>1, <1>10, <2>1, <2>2, HandleCopyInvalidatedType
<1> HIDE DEF q, r
<1> QED
  BY <1>2, <1>3, <1>4, <1>5, <1>6, <1>7, <1>8, <1>9, <1>10 DEF Messages, ToOwner

(* A delivered message advances one node's lock table.                     *)
LEMMA DeliverToNodeStep ==
  ASSUME IInv, NEW k \in Nodes, NEW s \in Streams, NEW d \in Nodes, DeliverToNode(k, s, d)
  PROVE  IInv'
<1> DEFINE m == Head(chan[k][s][d])
           c == Pop(k, s, d)
<1>1. /\ TypeOK /\ NodeStream \in Streams /\ pc \in [Tasks -> Progress]
      /\ db[d] \in DbRecord /\ \A n \in Nodes : NodeLocks(db[n], n, pc)
      /\ m.type \notin ToOwner /\ UNCHANGED <<owner, history>>
  BY DEF IInv, TypeOK, LockInv, DeliverToNode, Streams
<1>2. c \in ChanType /\ m \in Messages
  BY <1>1, PopType DEF DeliverToNode
<1>3. PICK supplier \in Suppliers(d, m) :
        /\ Install(d, NodeResult(d, m, k, supplier), pc)
        /\ chan' = Post(c, d, NodeStream, NodeResult(d, m, k, supplier).out)
  BY DEF DeliverToNode
<1> DEFINE q == NodeResult(d, m, k, supplier)
<1> HIDE DEF m, c
<1>4. q \in NodeResults /\ Advances(db[d], q.s)
  BY <1>1, <1>2, NodeResultType
<1>5. Install(d, q, pc) /\ chan' = Post(c, d, NodeStream, q.out)
  BY <1>3
<1> HIDE DEF q
<1>6. LockInv'
  BY <1>1, <1>4, <1>5, InstallLocks
<1>7. q.out \in [Nodes -> Seq(Messages)]
  BY <1>4 DEF NodeResults, ResultOf
<1>8. chan' \in ChanType
  BY <1>1, <1>2, <1>5, <1>7, PostType
<1>9. /\ db' \in [Nodes -> DbRecord] /\ pc' \in [Tasks -> Progress]
      /\ aborted' \in {"none"} \cup Assertions
      /\ view' \in [Tasks -> SUBSET (Writers \cup NoBuffer)]
  BY <1>1, <1>4, <1>5, InstallType
<1>10. TypeOK'
  BY <1>1, <1>8, <1>9 DEF TypeOK, ChanType, history
<1> QED
  BY <1>6, <1>10 DEF IInv

(* Every step keeps the invariant.                                         *)
LEMMA NextInv == ASSUME IInv, [Next]_vars PROVE IInv'
<1>1. ASSUME NEW t \in Tasks, TaskStep(t) PROVE IInv'
  BY <1>1, SatisfyStep, WriteStep, FinishStep, ReleaseStep DEF TaskStep
<1>2. ASSUME NEW t \in Tasks, Destroy(t) PROVE IInv'
  BY <1>2, DestroyStep
<1>3. ASSUME NEW d \in Nodes, Receive(d) PROVE IInv'
  BY <1>3, DeliverToNodeStep, DeliverToOwnerStep DEF Receive
<1>4. ASSUME UNCHANGED vars PROVE IInv'
  <2>1. TypeOK'
    BY <1>4 DEF IInv, TypeOK, vars, history
  <2>2. LockInv'
    BY <1>4 DEF IInv, LockInv, vars
  <2> QED
    BY <2>1, <2>2 DEF IInv
<1>5. Terminated => UNCHANGED vars
  BY DEF Terminated
<1> QED
  BY <1>1, <1>2, <1>3, <1>4, <1>5 DEF Next

(* The invariant holds in every reachable state.                           *)
THEOREM Invariance == Spec => []IInv
<1>1. Init => IInv
  BY InitInv
<1>2. IInv /\ [Next]_vars => IInv'
  BY NextInv
<1> QED
  BY <1>1, <1>2, PTL DEF Spec

(* No execution leaves the variables' domains, whatever the nodes, the     *)
(* tasks and their modes: in particular every message finds the fields its *)
(* handler reads, and a master role moves to a node or to "destroyed".     *)
THEOREM TypeCorrect == Spec => []TypeOK
<1>1. IInv => TypeOK
  BY DEF IInv
<1> QED
  BY <1>1, Invariance, PTL

(* The lock tables of synchro_data exclude: the tasks holding the block on *)
(* a node may hold it together, and the holders are exactly the tasks      *)
(* between their grant and their release, so no grant is lost, doubled or  *)
(* given to a task that did not wait for it.                               *)
THEOREM LocksExclude == Spec => []LocksCompatible
<1>1. IInv => LocksCompatible
  BY InvImplies
<1> QED
  BY <1>1, Invariance, PTL

-----------------------------------------------------------------------------
(***************************************************************************)
(* Which roles the nodes play.  One node holds the copylist, or one        *)
(* message does; every other node is in one of six situations towards the  *)
(* holder, told apart by its state, by the copylist and by the one message *)
(* that may be under way between the two.  The move of the master role has *)
(* one message under way, or none.                                         *)
(*                                                                         *)
(* From it follow the coherence of the copies, that no assertion of a      *)
(* handler fails, and that the protocol implements DbPromise.              *)
(***************************************************************************)
(***************************************************************************)
(* Messages under way.  A message of the protocol occupies a slot: one for *)
(* the move of the master role, one for each node's copy.  Requests occupy *)
(* none.                                                                   *)
(***************************************************************************)
RoleTypes == {"copylist_released", "take_master", "release_master_request",
              "transfer_data_to_new_master", "data", "is_master"}
Slots     == Nodes \cup {NoNode}

(* The slot of a message m from n to d.                                    *)
Slot(n, d, m) ==
  IF m.type \in RoleTypes THEN NoNode
  ELSE IF m.type \in {"data_copy", "invalidate_copy"} THEN d
  ELSE IF m.type \in {"copy_received", "copy_invalidated"} THEN n
  ELSE Destroyed

(* The messages of the channels C that occupy slot q.                      *)
Places(C)    == UNION {{<<n, s, d, i>> : i \in DOMAIN C[n][s][d]} :
                         n \in Nodes, s \in Streams, d \in Nodes}
At(C, x)     == C[x[1]][x[2]][x[3]][x[4]]
SlotAt(C, x) == Slot(x[1], x[3], At(C, x))
Flying(C, q) == {<<x[1], x[3], At(C, x)>> : x \in {y \in Places(C) : SlotAt(C, y) = q}}
Flight(C)    == [q \in Slots |-> Flying(C, q)]

(* A slot is occupied by one message at a time.                            *)
Unique(C) ==
  \A x, y \in Places(C) : SlotAt(C, x) \in Slots /\ SlotAt(C, x) = SlotAt(C, y) => x = y

(* The owner asks a master for copies for other nodes before it asks it to *)
(* give up the role, on one stream.                                        *)
OwnerAsks == {"transfer_data_to_copy", "release_master_request"}
Ordered(C) ==
  \A x \in Places(C) :
    /\ At(C, x).type \in OwnerAsks => x[1] = Owner /\ x[2] = NodeStream
    /\ At(C, x).type = "transfer_data_to_copy" =>
         /\ At(C, x).node # x[3]
         /\ \A y \in Places(C) :
              At(C, y).type = "release_master_request" /\ y[3] = x[3] => x[4] < y[4]

Tidy(C)  == Unique(C) /\ Ordered(C)
Asked(C) == {x[3] : x \in {y \in Places(C) : At(C, y).type = "transfer_data_to_copy"}}

(* The places of the channels.                                             *)
LEMMA PlacesIn ==
  ASSUME NEW C, NEW n \in Nodes, NEW s \in Streams, NEW d \in Nodes, NEW i
  PROVE  /\ <<n, s, d, i>> \in Places(C) <=> i \in DOMAIN C[n][s][d]
         /\ At(C, <<n, s, d, i>>) = C[n][s][d][i]
         /\ SlotAt(C, <<n, s, d, i>>) = Slot(n, d, C[n][s][d][i])
<1>1. \A x : x \in Places(C) <=>
        \E k \in Nodes, z \in Streams, e \in Nodes : \E j \in DOMAIN C[k][z][e] : x = <<k, z, e, j>>
  <2> DEFINE P(k, z, e) == {<<k, z, e, j>> : j \in DOMAIN C[k][z][e]}
             PP == {P(k, z, e) : k \in Nodes, z \in Streams, e \in Nodes}
  <2>1. Places(C) = UNION PP
    BY DEF Places
  <2>2. ASSUME NEW x, NEW Y \in PP, x \in Y
        PROVE  \E k \in Nodes, z \in Streams, e \in Nodes : \E j \in DOMAIN C[k][z][e] : x = <<k, z, e, j>>
    <3>1. PICK k \in Nodes, z \in Streams, e \in Nodes : Y = P(k, z, e)
      BY <2>2
    <3> QED
      BY <2>2, <3>1
  <2>3. ASSUME NEW k \in Nodes, NEW z \in Streams, NEW e \in Nodes, NEW j \in DOMAIN C[k][z][e]
        PROVE  <<k, z, e, j>> \in Places(C)
    <3>1. P(k, z, e) \in PP /\ <<k, z, e, j>> \in P(k, z, e)
      OBVIOUS
    <3> HIDE DEF P, PP
    <3> QED
      BY <2>1, <3>1
  <2> HIDE DEF P, PP
  <2> QED
    BY <2>1, <2>2, <2>3
<1> QED
  BY <1>1 DEF At, SlotAt

(* Every place is one of them.                                             *)
LEMMA PlacesAre ==
  ASSUME NEW C, NEW x \in Places(C)
  PROVE  /\ x[1] \in Nodes /\ x[2] \in Streams /\ x[3] \in Nodes
         /\ x[4] \in DOMAIN C[x[1]][x[2]][x[3]]
         /\ x = <<x[1], x[2], x[3], x[4]>>
  BY DEF Places

(* The messages in a slot.                                                 *)
LEMMA FlightIn ==
  ASSUME NEW C, NEW q \in Slots
  PROVE  /\ \A x \in Places(C) : SlotAt(C, x) = q => <<x[1], x[3], At(C, x)>> \in Flight(C)[q]
         /\ \A z \in Flight(C)[q] :
              \E x \in Places(C) : SlotAt(C, x) = q /\ z = <<x[1], x[3], At(C, x)>>
  BY DEF Flight, Flying

(***************************************************************************)
(* Adding a message, and taking one away.                                  *)
(***************************************************************************)
(* The message m is appended to n's stream s towards the nodes of T.       *)
Add(C, n, s, T, m) ==
  [C EXCEPT ![n][s] = [d \in Nodes |-> IF d \in T THEN Append(@[d], m) ELSE @[d]]]

(* A message sent by a handler is added to what the handler sent before.   *)
LEMMA PostSend ==
  ASSUME NEW C \in ChanType, NEW n \in Nodes, NEW s \in Streams,
         NEW R, NEW r \in ResultOf(R), NEW T, NEW m \in Messages
  PROVE  /\ Post(C, n, s, r.out) \in ChanType
         /\ Post(C, n, s, Send(r, T, m).out) = Add(Post(C, n, s, r.out), n, s, T, m)
<1>1. r.out \in [Nodes -> Seq(Messages)]
  BY DEF ResultOf
<1>2. Post(C, n, s, r.out) \in ChanType
  BY <1>1, PostType
<1>3. C \in [Nodes -> [Streams -> [Nodes -> Seq(Messages)]]]
  BY DEF ChanType
<1> DEFINE out == Send(r, T, m).out
           row == [d \in Nodes |-> C[n][s][d] \o r.out[d]]
<1>4. out = [d \in Nodes |-> IF d \in T THEN Append(r.out[d], m) ELSE r.out[d]]
  BY DEF Send, ResultOf
<1>5. \A d \in Nodes : C[n][s][d] \in Seq(Messages) /\ r.out[d] \in Seq(Messages)
  BY <1>1, <1>3
<1>6. \A d \in Nodes : C[n][s][d] \o Append(r.out[d], m) = Append(C[n][s][d] \o r.out[d], m)
  <2>1. \A u, w \in Seq(Messages) : u \o Append(w, m) = Append(u \o w, m)
    OBVIOUS
  <2> QED
    BY <1>5, <2>1, Zenon
<1> HIDE DEF out
<1>7. [d \in Nodes |-> C[n][s][d] \o out[d]] =
        [d \in Nodes |-> IF d \in T THEN Append(row[d], m) ELSE row[d]]
  BY <1>4, <1>6
<1>8. Post(C, n, s, r.out) = [C EXCEPT ![n] = [C[n] EXCEPT ![s] = row]]
  BY DEF Post
<1>9. Post(C, n, s, out) = [C EXCEPT ![n] = [C[n] EXCEPT ![s] = [d \in Nodes |-> C[n][s][d] \o out[d]]]]
  BY DEF Post
<1> DEFINE new == [d \in Nodes |-> IF d \in T THEN Append(row[d], m) ELSE row[d]]
<1>10. ASSUME NEW P, P = [C EXCEPT ![n] = [C[n] EXCEPT ![s] = row]]
       PROVE  Add(P, n, s, T, m) = [C EXCEPT ![n] = [C[n] EXCEPT ![s] = new]]
  <2> HIDE DEF row
  <2>1. P[n][s] = row
    BY <1>3, <1>10
  <2>2. Add(P, n, s, T, m) = [P EXCEPT ![n] = [P[n] EXCEPT ![s] = new]]
    BY <2>1 DEF Add
  <2> HIDE DEF new
  <2> QED
    BY <1>3, <1>10, <2>2
<1> QED
  BY <1>2, <1>7, <1>8, <1>9, <1>10 DEF out

(* The place of a message that is appended.                                *)
End(C, n, s, d) == <<n, s, d, Len(C[n][s][d]) + 1>>

(* The places of the channels after an addition.                           *)
LEMMA AddPlaces ==
  ASSUME NEW C \in ChanType, NEW n \in Nodes, NEW s \in Streams, NEW T \in SUBSET Nodes, NEW m
  PROVE  LET C1 == Add(C, n, s, T, m) IN
         /\ \A x \in Places(C) : x \in Places(C1) /\ At(C1, x) = At(C, x)
         /\ \A d \in T : End(C, n, s, d) \in Places(C1) /\ At(C1, End(C, n, s, d)) = m
         /\ \A x \in Places(C1) \ Places(C) : \E d \in T : x = End(C, n, s, d)
         /\ \A x \in Places(C), d \in T :
              x[1] = n /\ x[2] = s /\ x[3] = d => x[4] \in Nat /\ x[4] < End(C, n, s, d)[4]
<1> DEFINE C1 == Add(C, n, s, T, m)
           row == [d \in Nodes |-> IF d \in T THEN Append(C[n][s][d], m) ELSE C[n][s][d]]
<1>1. \A k \in Nodes, z \in Streams, e \in Nodes : C[k][z][e] \in Seq(Messages)
  BY DEF ChanType
<1>2. C1 = [C EXCEPT ![n] = [C[n] EXCEPT ![s] = row]]
  BY DEF Add
<1>3. ASSUME NEW k \in Nodes, NEW z \in Streams, NEW e \in Nodes
      PROVE  /\ k = n /\ z = s /\ e \in T => C1[k][z][e] = Append(C[k][z][e], m)
             /\ ~(k = n /\ z = s /\ e \in T) => C1[k][z][e] = C[k][z][e]
  BY <1>2 DEF ChanType
<1> HIDE DEF C1
<1>4. ASSUME NEW w \in Seq(Messages)
      PROVE  /\ DOMAIN w = 1..Len(w) /\ Len(w) \in Nat
             /\ DOMAIN Append(w, m) = 1..(Len(w) + 1)
             /\ \A i \in 1..Len(w) : Append(w, m)[i] = w[i]
             /\ Append(w, m)[Len(w) + 1] = m
  OBVIOUS
<1>5. ASSUME NEW x \in Places(C) PROVE x \in Places(C1) /\ At(C1, x) = At(C, x)
  <2> DEFINE w == C[x[1]][x[2]][x[3]]
             w1 == C1[x[1]][x[2]][x[3]]
  <2>1. /\ x[1] \in Nodes /\ x[2] \in Streams /\ x[3] \in Nodes
        /\ x[4] \in DOMAIN w /\ x = <<x[1], x[2], x[3], x[4]>>
    BY PlacesAre
  <2>2. w \in Seq(Messages) /\ (w1 = w \/ w1 = Append(w, m))
    BY <1>1, <1>3, <2>1, Zenon
  <2> HIDE DEF w, w1
  <2>3. x[4] \in DOMAIN w1 /\ w1[x[4]] = w[x[4]]
    <3>1. x[4] \in 1..Len(w) /\ Len(w) \in Nat
      BY <1>4, <2>1, <2>2
    <3>2. x[4] \in 1..(Len(w) + 1)
      BY <3>1
    <3> QED
      BY <1>4, <2>1, <2>2, <3>1, <3>2
  <2> QED
    BY <2>1, <2>3, PlacesIn DEF At, w, w1
<1>6. ASSUME NEW d \in T
      PROVE  End(C, n, s, d) \in Places(C1) /\ At(C1, End(C, n, s, d)) = m
  <2> DEFINE w == C[n][s][d]
  <2>1. d \in Nodes /\ w \in Seq(Messages) /\ C1[n][s][d] = Append(w, m)
    BY <1>1, <1>3
  <2> HIDE DEF w
  <2>2. Len(w) + 1 \in DOMAIN Append(w, m) /\ Append(w, m)[Len(w) + 1] = m
    <3>1. Len(w) + 1 \in 1..(Len(w) + 1)
      BY <1>4, <2>1
    <3> QED
      BY <1>4, <2>1, <3>1
  <2> QED
    BY <2>1, <2>2, PlacesIn DEF w, End
<1>7. ASSUME NEW x \in Places(C1) \ Places(C)
      PROVE  \E d \in T : x = End(C, n, s, d)
  <2> DEFINE w == C[x[1]][x[2]][x[3]]
  <2>1. /\ x[1] \in Nodes /\ x[2] \in Streams /\ x[3] \in Nodes
        /\ x[4] \in DOMAIN C1[x[1]][x[2]][x[3]] /\ x = <<x[1], x[2], x[3], x[4]>>
    BY PlacesAre
  <2>2. x[4] \notin DOMAIN w
    BY <2>1, PlacesIn
  <2>5. x[1] = n /\ x[2] = s /\ x[3] \in T
    BY <1>3, <2>1, <2>2
  <2>3. w \in Seq(Messages) /\ x[4] \in DOMAIN Append(w, m)
    BY <1>1, <1>3, <2>1, <2>5
  <2> HIDE DEF w
  <2>4. x[4] = Len(w) + 1
    <3>1. x[4] \in 1..(Len(w) + 1) /\ x[4] \notin 1..Len(w) /\ Len(w) \in Nat
      BY <1>4, <2>2, <2>3
    <3> QED
      BY <3>1
  <2> QED
    BY <2>1, <2>4, <2>5 DEF w, End
<1>8. ASSUME NEW x \in Places(C), NEW d \in T, x[1] = n, x[2] = s, x[3] = d
      PROVE  x[4] \in Nat /\ x[4] < End(C, n, s, d)[4]
  <2> DEFINE w == C[n][s][d]
  <2>1. x[4] \in DOMAIN w /\ w \in Seq(Messages)
    BY <1>1, <1>8, PlacesAre
  <2> HIDE DEF w
  <2>2. x[4] \in 1..Len(w) /\ Len(w) \in Nat
    BY <1>4, <2>1
  <2>3. x[4] \in Nat /\ x[4] < Len(w) + 1
    BY <2>2
  <2> QED
    BY <2>3 DEF w, End
<1> QED
  BY <1>5, <1>6, <1>7, <1>8 DEF C1

(* The first message of the channel from n's stream s to d is taken away.  *)
Taken(C, n, s, d) == [C EXCEPT ![n][s][d] = Tail(@)]

(* Where the message at place x of the channels that are left was before.  *)
Came(n, s, d, x) ==
  IF x[1] = n /\ x[2] = s /\ x[3] = d THEN <<n, s, d, x[4] + 1>> ELSE x

(* The places of the channels after a message was taken.                   *)
LEMMA TakenPlaces ==
  ASSUME NEW C \in ChanType, NEW n \in Nodes, NEW s \in Streams, NEW d \in Nodes, C[n][s][d] # <<>>
  PROVE  LET C1 == Taken(C, n, s, d) IN
         /\ C1 \in ChanType
         /\ <<n, s, d, 1>> \in Places(C) /\ At(C, <<n, s, d, 1>>) = Head(C[n][s][d])
         /\ \A x \in Places(C1) :
              /\ Came(n, s, d, x) \in Places(C) /\ Came(n, s, d, x) # <<n, s, d, 1>>
              /\ At(C, Came(n, s, d, x)) = At(C1, x)
         /\ \A y \in Places(C) : y # <<n, s, d, 1>> =>
              \E x \in Places(C1) : y = Came(n, s, d, x)
<1> DEFINE C1 == Taken(C, n, s, d)
           q  == C[n][s][d]
<1>1. \A k \in Nodes, z \in Streams, e \in Nodes : C[k][z][e] \in Seq(Messages)
  BY DEF ChanType
<1>2. ASSUME NEW k \in Nodes, NEW z \in Streams, NEW e \in Nodes
      PROVE  /\ k = n /\ z = s /\ e = d => C1[k][z][e] = Tail(q)
             /\ ~(k = n /\ z = s /\ e = d) => C1[k][z][e] = C[k][z][e]
  BY DEF ChanType, Taken
<1>3. /\ q \in Seq(Messages) /\ Len(q) \in Nat /\ Len(q) > 0 /\ DOMAIN q = 1..Len(q) /\ q[1] = Head(q)
      /\ Tail(q) \in Seq(Messages)
      /\ DOMAIN Tail(q) = 1..(Len(q) - 1) /\ \A i \in 1..(Len(q) - 1) : Tail(q)[i] = q[i + 1]
  <2>1. q \in Seq(Messages) /\ q # <<>>
    BY <1>1
  <2> HIDE DEF q
  <2> QED
    BY <2>1
<1>4. C1 \in ChanType
  <2> DEFINE row == [C[n][s] EXCEPT ![d] = Tail(q)]
             tab == [C[n] EXCEPT ![s] = row]
  <2>1. C1 = [C EXCEPT ![n] = tab]
    BY DEF Taken
  <2>2. C \in [Nodes -> [Streams -> [Nodes -> Seq(Messages)]]]
    BY DEF ChanType
  <2> HIDE DEF q
  <2>3. row \in [Nodes -> Seq(Messages)]
    BY <1>3, <2>2
  <2> HIDE DEF row
  <2>4. tab \in [Streams -> [Nodes -> Seq(Messages)]]
    BY <2>2, <2>3
  <2> HIDE DEF tab
  <2> QED
    BY <2>1, <2>2, <2>4 DEF ChanType
<1> HIDE DEF C1
<1>5. <<n, s, d, 1>> \in Places(C) /\ At(C, <<n, s, d, 1>>) = Head(q)
  <2>1. 1 \in DOMAIN q
    BY <1>3
  <2> QED
    BY <1>3, <2>1, PlacesIn
<1>6. ASSUME NEW x \in Places(C1)
      PROVE  /\ Came(n, s, d, x) \in Places(C) /\ Came(n, s, d, x) # <<n, s, d, 1>>
             /\ At(C, Came(n, s, d, x)) = At(C1, x)
  <2>1. /\ x[1] \in Nodes /\ x[2] \in Streams /\ x[3] \in Nodes
        /\ x[4] \in DOMAIN C1[x[1]][x[2]][x[3]] /\ x = <<x[1], x[2], x[3], x[4]>>
    BY PlacesAre
  <2>2. CASE x[1] = n /\ x[2] = s /\ x[3] = d
    <3>1. Came(n, s, d, x) = <<n, s, d, x[4] + 1>>
      BY <2>2 DEF Came
    <3>2. C1[n][s][d] = Tail(q) /\ At(C1, x) = Tail(q)[x[4]]
      BY <1>2, <2>2 DEF At
    <3>3. x[4] \in 1..(Len(q) - 1)
      BY <1>3, <2>1, <2>2, <3>2
    <3>4. x[4] + 1 \in DOMAIN q /\ x[4] + 1 # 1 /\ Tail(q)[x[4]] = q[x[4] + 1]
      BY <1>3, <3>3
    <3>5. <<n, s, d, x[4] + 1>> # <<n, s, d, 1>>
      BY <3>4
    <3>6. /\ <<n, s, d, x[4] + 1>> \in Places(C)
          /\ At(C, <<n, s, d, x[4] + 1>>) = q[x[4] + 1]
      BY <3>4, PlacesIn
    <3> QED
      BY <3>1, <3>2, <3>4, <3>5, <3>6
  <2>3. CASE ~(x[1] = n /\ x[2] = s /\ x[3] = d)
    <3>1. Came(n, s, d, x) = x
      BY <2>3 DEF Came
    <3>2. C1[x[1]][x[2]][x[3]] = C[x[1]][x[2]][x[3]]
      BY <1>2, <2>1, <2>3
    <3>3. x \in Places(C) /\ At(C, x) = At(C1, x)
      BY <2>1, <3>2, PlacesIn DEF At
    <3>4. x # <<n, s, d, 1>>
      BY <2>3
    <3> QED
      BY <3>1, <3>3, <3>4
  <2> QED
    BY <2>2, <2>3
<1>7. ASSUME NEW y \in Places(C), y # <<n, s, d, 1>>
      PROVE  \E x \in Places(C1) : y = Came(n, s, d, x)
  <2>1. /\ y[1] \in Nodes /\ y[2] \in Streams /\ y[3] \in Nodes
        /\ y[4] \in DOMAIN C[y[1]][y[2]][y[3]] /\ y = <<y[1], y[2], y[3], y[4]>>
    BY PlacesAre
  <2>2. CASE y[1] = n /\ y[2] = s /\ y[3] = d
    <3> DEFINE x == <<n, s, d, y[4] - 1>>
    <3>1. y[4] \in 1..Len(q) /\ y[4] # 1
      BY <1>3, <1>7, <2>1, <2>2
    <3>2. y[4] - 1 \in DOMAIN Tail(q) /\ (y[4] - 1) + 1 = y[4]
      BY <1>3, <3>1
    <3>3. x \in Places(C1)
      <4>1. C1[n][s][d] = Tail(q)
        BY <1>2
      <4>2. y[4] - 1 \in DOMAIN C1[n][s][d]
        BY <3>2, <4>1
      <4> QED
        BY <4>2, PlacesIn
    <3>4. Came(n, s, d, x) = <<n, s, d, (y[4] - 1) + 1>>
      BY DEF Came
    <3> QED
      BY <2>1, <2>2, <3>2, <3>3, <3>4
  <2>3. CASE ~(y[1] = n /\ y[2] = s /\ y[3] = d)
    <3>1. Came(n, s, d, y) = y
      BY <2>3 DEF Came
    <3>2. C1[y[1]][y[2]][y[3]] = C[y[1]][y[2]][y[3]]
      BY <1>2, <2>1, <2>3
    <3>3. y \in Places(C1)
      BY <2>1, <3>2, PlacesIn
    <3> QED
      BY <3>1, <3>3
  <2> QED
    BY <2>2, <2>3
<1> QED
  BY <1>4, <1>5, <1>6, <1>7 DEF C1

(* Moving up does not merge or reorder places.                             *)
LEMMA CameFacts ==
  ASSUME NEW C, NEW n, NEW s, NEW d, NEW x \in Places(C), NEW y \in Places(C),
         x[4] \in Nat, y[4] \in Nat
  PROVE  LET cx == Came(n, s, d, x)
             cy == Came(n, s, d, y)
         IN  /\ cx[1] = x[1] /\ cx[2] = x[2] /\ cx[3] = x[3]
             /\ cx = cy => x = y
             /\ x[1] = y[1] /\ x[2] = y[2] /\ x[3] = y[3] /\ cx[4] < cy[4] => x[4] < y[4]
<1>1. x = <<x[1], x[2], x[3], x[4]>> /\ y = <<y[1], y[2], y[3], y[4]>>
  BY PlacesAre
<1>2. ASSUME NEW w \in {x, y}
      PROVE  LET c == Came(n, s, d, w)
             IN  /\ c[1] = w[1] /\ c[2] = w[2] /\ c[3] = w[3]
                 /\ c[4] = IF w[1] = n /\ w[2] = s /\ w[3] = d THEN w[4] + 1 ELSE w[4]
  BY DEF Came
<1> QED
  BY <1>1, <1>2

(* Places are numbered.                                                    *)
LEMMA PlaceNumber ==
  ASSUME NEW C \in ChanType, NEW x \in Places(C)
  PROVE  x[4] \in Nat /\ At(C, x) \in Messages
<1> DEFINE w == C[x[1]][x[2]][x[3]]
<1>1. w \in Seq(Messages) /\ x[4] \in DOMAIN w
  BY PlacesAre DEF ChanType
<1> HIDE DEF w
<1>2. x[4] \in Nat /\ w[x[4]] \in Messages
  BY <1>1
<1> QED
  BY <1>2 DEF At, w

(* An addition keeps the channels typed.                                   *)
LEMMA AddType ==
  ASSUME NEW C \in ChanType, NEW n \in Nodes, NEW s \in Streams, NEW T, NEW m \in Messages
  PROVE  Add(C, n, s, T, m) \in ChanType
<1> DEFINE row == [d \in Nodes |-> IF d \in T THEN Append(C[n][s][d], m) ELSE C[n][s][d]]
<1>1. C \in [Nodes -> [Streams -> [Nodes -> Seq(Messages)]]]
  BY DEF ChanType
<1>2. row \in [Nodes -> Seq(Messages)]
  BY <1>1
<1>3. Add(C, n, s, T, m) = [C EXCEPT ![n] = [C[n] EXCEPT ![s] = row]]
  BY DEF Add
<1> HIDE DEF row
<1> QED
  BY <1>1, <1>2, <1>3 DEF ChanType

(* The message m may be sent from n's stream s to the nodes of T: its slots*)
(* are free, the requests the owner orders are on one stream, and requests *)
(* for copies are sent only while the role is still.                       *)
Fits(C, n, s, T, m) ==
  /\ \A d \in T : Slot(n, d, m) \in Slots => Flight(C)[Slot(n, d, m)] = {}
  /\ \A d, e \in T : Slot(n, d, m) \in Slots /\ Slot(n, d, m) = Slot(n, e, m) => d = e
  /\ m.type \in OwnerAsks => n = Owner /\ s = NodeStream
  /\ m.type = "transfer_data_to_copy" => Flight(C)[NoNode] = {} /\ \A d \in T : m.node # d

(* What the sending of m adds to the slot q, and to all slots.             *)
Landed(n, T, m, q) == {<<n, d, m>> : d \in {e \in T : Slot(n, e, m) = q}}
Grown(g, f, n, T, m) == \A q \in Slots : g[q] = f[q] \cup Landed(n, T, m, q)
AskedBy(T, m)      == {d \in T : m.type = "transfer_data_to_copy"}

(* A message that fits is added to its slot, and the channels stay tidy.   *)
LEMMA AddFlight ==
  ASSUME NEW C \in ChanType, NEW n \in Nodes, NEW s \in Streams, NEW T \in SUBSET Nodes,
         NEW m \in Messages, Tidy(C), Fits(C, n, s, T, m)
  PROVE  LET C1 == Add(C, n, s, T, m) IN
         /\ C1 \in ChanType /\ Tidy(C1)
         /\ Grown(Flight(C1), Flight(C), n, T, m)
         /\ Asked(C1) = Asked(C) \cup AskedBy(T, m)
<1> DEFINE C1 == Add(C, n, s, T, m)
           new(d) == End(C, n, s, d)
<1>1. C1 \in ChanType
  BY AddType
<1>2. /\ \A x \in Places(C) : x \in Places(C1) /\ At(C1, x) = At(C, x) /\ SlotAt(C1, x) = SlotAt(C, x)
      /\ \A d \in T : new(d) \in Places(C1) /\ At(C1, new(d)) = m /\ SlotAt(C1, new(d)) = Slot(n, d, m)
      /\ \A x \in Places(C1) \ Places(C) : \E d \in T : x = new(d)
      /\ \A x \in Places(C), d \in T :
           x[1] = n /\ x[2] = s /\ x[3] = d => x[4] \in Nat /\ x[4] < new(d)[4]
  <2>1. \A x \in Places(C) : x \in Places(C1) /\ At(C1, x) = At(C, x)
    BY AddPlaces
  <2>5. \A d \in T : new(d) \in Places(C1) /\ At(C1, new(d)) = m
    BY AddPlaces
  <2>2. \A d \in T : new(d)[1] = n /\ new(d)[3] = d
    BY DEF End
  <2>3. \A x \in Places(C1) \ Places(C) : \E d \in T : x = new(d)
    BY AddPlaces
  <2>4. \A x \in Places(C), d \in T :
          x[1] = n /\ x[2] = s /\ x[3] = d => x[4] \in Nat /\ x[4] < new(d)[4]
    BY AddPlaces
  <2> HIDE DEF C1, new
  <2> QED
    BY <2>1, <2>2, <2>3, <2>4, <2>5 DEF SlotAt
<1>3. \A d \in T : new(d)[1] = n /\ new(d)[2] = s /\ new(d)[3] = d
  BY DEF End
<1> HIDE DEF C1, new
<1> USE DEF Fits
<1>4. ASSUME NEW x \in Places(C1), NEW y \in Places(C1),
             SlotAt(C1, x) \in Slots, SlotAt(C1, x) = SlotAt(C1, y)
      PROVE  x = y
  <2>1. ASSUME NEW u \in Places(C), NEW d \in T, Slot(n, d, m) \in Slots PROVE SlotAt(C, u) # Slot(n, d, m)
    BY <2>1, FlightIn
  <2>2. CASE x \in Places(C) /\ y \in Places(C)
    BY <1>2, <1>4, <2>2 DEF Tidy, Unique
  <2>3. CASE x \notin Places(C) /\ y \in Places(C)
    BY <1>2, <1>4, <2>1, <2>3
  <2>4. CASE x \in Places(C) /\ y \notin Places(C)
    BY <1>2, <1>4, <2>1, <2>4
  <2>5. CASE x \notin Places(C) /\ y \notin Places(C)
    <3>1. PICK d \in T, e \in T : x = new(d) /\ y = new(e)
      BY <1>2, <2>5
    <3> QED
      BY <1>2, <1>4, <3>1
  <2> QED
    BY <2>2, <2>3, <2>4, <2>5
<1>5. ASSUME NEW x \in Places(C1)
      PROVE  /\ At(C1, x).type \in OwnerAsks => x[1] = Owner /\ x[2] = NodeStream
             /\ At(C1, x).type = "transfer_data_to_copy" =>
                  /\ At(C1, x).node # x[3]
                  /\ \A y \in Places(C1) :
                       At(C1, y).type = "release_master_request" /\ y[3] = x[3] => x[4] < y[4]
  <2>1. CASE x \in Places(C)
    <3>1. /\ At(C1, x).type \in OwnerAsks => x[1] = Owner /\ x[2] = NodeStream
          /\ At(C1, x).type = "transfer_data_to_copy" => At(C1, x).node # x[3]
      BY <1>2, <2>1 DEF Tidy, Ordered
    <3>2. ASSUME At(C1, x).type = "transfer_data_to_copy", NEW y \in Places(C1),
                 At(C1, y).type = "release_master_request", y[3] = x[3]
          PROVE  x[4] < y[4]
      <4>1. CASE y \in Places(C)
        BY <1>2, <2>1, <3>2, <4>1 DEF Tidy, Ordered
      <4>2. CASE y \notin Places(C)
        <5>1. PICK d \in T : y = new(d)
          BY <1>2, <4>2
        <5>2. m.type = "release_master_request" /\ d = x[3]
          BY <1>2, <1>3, <3>2, <5>1
        <5>3. x[1] = n /\ x[2] = s
          BY <3>1, <3>2, <5>2 DEF OwnerAsks
        <5> QED
          BY <1>2, <2>1, <5>1, <5>2, <5>3
      <4> QED
        BY <4>1, <4>2
    <3> QED
      BY <3>1, <3>2
  <2>2. CASE x \notin Places(C)
    <3>1. PICK d \in T : x = new(d)
      BY <1>2, <2>2
    <3>2. At(C1, x) = m /\ x[1] = n /\ x[2] = s /\ x[3] = d
      BY <1>2, <1>3, <3>1
    <3>3. ASSUME m.type = "transfer_data_to_copy", NEW y \in Places(C1),
                 At(C1, y).type = "release_master_request"
          PROVE  FALSE
      <4>1. y \in Places(C) /\ At(C, y) = At(C1, y)
        BY <1>2, <3>3
      <4>2. SlotAt(C, y) = NoNode
        BY <3>3, <4>1 DEF SlotAt, Slot, RoleTypes
      <4> QED
        BY <3>3, <4>1, <4>2, FlightIn DEF Slots
    <3> QED
      BY <3>2, <3>3
  <2> QED
    BY <2>1, <2>2
<1>6. ASSUME NEW q \in Slots
      PROVE  Flight(C1)[q] = Flight(C)[q] \cup {<<n, d, m>> : d \in {e \in T : Slot(n, e, m) = q}}
  <2>1. ASSUME NEW z \in Flight(C1)[q]
        PROVE  z \in Flight(C)[q] \cup {<<n, d, m>> : d \in {e \in T : Slot(n, e, m) = q}}
    <3>1. PICK x \in Places(C1) : SlotAt(C1, x) = q /\ z = <<x[1], x[3], At(C1, x)>>
      BY FlightIn
    <3>2. CASE x \in Places(C)
      BY <1>2, <3>1, <3>2, FlightIn
    <3>3. CASE x \notin Places(C)
      BY <1>2, <1>3, <3>1, <3>3
    <3> QED
      BY <3>2, <3>3
  <2>2. ASSUME NEW z \in Flight(C)[q] PROVE z \in Flight(C1)[q]
    <3>1. PICK x \in Places(C) : SlotAt(C, x) = q /\ z = <<x[1], x[3], At(C, x)>>
      BY FlightIn
    <3> QED
      BY <1>2, <3>1, FlightIn
  <2>3. ASSUME NEW d \in T, Slot(n, d, m) = q PROVE <<n, d, m>> \in Flight(C1)[q]
    BY <1>2, <1>3, <2>3, FlightIn
  <2> QED
    BY <2>1, <2>2, <2>3
<1>7. Asked(C1) = Asked(C) \cup {d \in T : m.type = "transfer_data_to_copy"}
  <2>1. ASSUME NEW k \in Asked(C1) PROVE k \in Asked(C) \cup {d \in T : m.type = "transfer_data_to_copy"}
    <3>1. PICK x \in Places(C1) : k = x[3] /\ At(C1, x).type = "transfer_data_to_copy"
      BY DEF Asked
    <3> QED
      BY <1>2, <1>3, <3>1 DEF Asked
  <2>2. Asked(C) \subseteq Asked(C1)
    BY <1>2 DEF Asked
  <2>3. m.type = "transfer_data_to_copy" => T \subseteq Asked(C1)
    BY <1>2, <1>3 DEF Asked
  <2> QED
    BY <2>1, <2>2, <2>3
<1> QED
  BY <1>1, <1>4, <1>5, <1>6, <1>7 DEF Tidy, Unique, Ordered, C1, Grown, Landed, AskedBy

(* The message taken leaves its slot free and the other slots as they are. *)
LEMMA TakenFlight ==
  ASSUME NEW C \in ChanType, NEW n \in Nodes, NEW s \in Streams, NEW d \in Nodes,
         C[n][s][d] # <<>>, Tidy(C)
  PROVE  LET C1 == Taken(C, n, s, d)
             m  == Head(C[n][s][d])
             p  == Slot(n, d, m)
         IN  /\ C1 \in ChanType /\ Tidy(C1) /\ m \in Messages
             /\ \A q \in Slots \ {p} : Flight(C1)[q] = Flight(C)[q]
             /\ p \in Slots => Flight(C)[p] = {<<n, d, m>>} /\ Flight(C1)[p] = {}
             /\ Asked(C1) \subseteq Asked(C)
             /\ m.type = "release_master_request" => d \notin Asked(C1)
             /\ m.type = "transfer_data_to_copy" => d \in Asked(C) /\ m.node # d
<1> DEFINE C1   == Taken(C, n, s, d)
           m    == Head(C[n][s][d])
           p    == Slot(n, d, m)
           head == <<n, s, d, 1>>
           c(x) == Came(n, s, d, x)
<1>1. /\ C1 \in ChanType
      /\ head \in Places(C) /\ At(C, head) = m
      /\ \A x \in Places(C1) : c(x) \in Places(C) /\ c(x) # head /\ At(C, c(x)) = At(C1, x)
      /\ \A y \in Places(C) : y # head => \E x \in Places(C1) : y = c(x)
  BY TakenPlaces
<1>2. \A x \in Places(C1), y \in Places(C1) :
        /\ c(x)[1] = x[1] /\ c(x)[2] = x[2] /\ c(x)[3] = x[3]
        /\ c(x) = c(y) => x = y
        /\ x[1] = y[1] /\ x[2] = y[2] /\ x[3] = y[3] /\ c(x)[4] < c(y)[4] => x[4] < y[4]
  BY <1>1, PlaceNumber, CameFacts
<1>3. head[1] = n /\ head[2] = s /\ head[3] = d /\ head[4] = 1
  OBVIOUS
<1> HIDE DEF C1, m, head, c
<1>4. \A x \in Places(C1) : SlotAt(C1, x) = SlotAt(C, c(x))
  BY <1>1, <1>2 DEF SlotAt
<1>5. SlotAt(C, head) = p
  BY <1>1, <1>3 DEF SlotAt
<1>6. Unique(C1)
  BY <1>1, <1>2, <1>4 DEF Tidy, Unique
<1>7. Ordered(C1)
  <2> SUFFICES ASSUME NEW x \in Places(C1)
               PROVE  /\ At(C1, x).type \in OwnerAsks => x[1] = Owner /\ x[2] = NodeStream
                      /\ At(C1, x).type = "transfer_data_to_copy" =>
                           /\ At(C1, x).node # x[3]
                           /\ \A y \in Places(C1) :
                                At(C1, y).type = "release_master_request" /\ y[3] = x[3] => x[4] < y[4]
    BY DEF Ordered
  <2>1. /\ At(C1, x).type \in OwnerAsks => x[1] = Owner /\ x[2] = NodeStream
        /\ At(C1, x).type = "transfer_data_to_copy" => At(C1, x).node # x[3]
    BY <1>1, <1>2 DEF Tidy, Ordered
  <2>2. ASSUME At(C1, x).type = "transfer_data_to_copy", NEW y \in Places(C1),
               At(C1, y).type = "release_master_request", y[3] = x[3]
        PROVE  x[4] < y[4]
    <3>1. c(x)[4] < c(y)[4]
      BY <1>1, <1>2, <2>2 DEF Tidy, Ordered
    <3>2. /\ x[1] = Owner /\ x[2] = NodeStream
          /\ y[1] = Owner /\ y[2] = NodeStream
      BY <1>1, <1>2, <2>2 DEF Tidy, Ordered, OwnerAsks
    <3> QED
      BY <1>2, <2>2, <3>1, <3>2
  <2> QED
    BY <2>1, <2>2
<1>8. ASSUME NEW q \in Slots \ {p} PROVE Flight(C1)[q] = Flight(C)[q]
  <2>1. ASSUME NEW z \in Flight(C1)[q] PROVE z \in Flight(C)[q]
    <3>1. PICK x \in Places(C1) : SlotAt(C1, x) = q /\ z = <<x[1], x[3], At(C1, x)>>
      BY FlightIn
    <3> QED
      BY <1>1, <1>2, <1>4, <3>1, FlightIn
  <2>2. ASSUME NEW z \in Flight(C)[q] PROVE z \in Flight(C1)[q]
    <3>1. PICK y \in Places(C) : SlotAt(C, y) = q /\ z = <<y[1], y[3], At(C, y)>>
      BY FlightIn
    <3>2. PICK x \in Places(C1) : y = c(x)
      BY <1>1, <1>5, <3>1
    <3> QED
      BY <1>1, <1>2, <1>4, <3>1, <3>2, FlightIn
  <2> QED
    BY <2>1, <2>2
<1>9. ASSUME p \in Slots PROVE Flight(C)[p] = {<<n, d, m>>} /\ Flight(C1)[p] = {}
  <2>1. <<n, d, m>> \in Flight(C)[p]
    BY <1>1, <1>3, <1>5, <1>9, FlightIn
  <2>2. ASSUME NEW y \in Places(C), SlotAt(C, y) = p PROVE y = head
    BY <1>1, <1>5, <1>9, <2>2 DEF Tidy, Unique
  <2>3. ASSUME NEW z \in Flight(C)[p] PROVE z = <<n, d, m>>
    BY <1>1, <1>3, <1>9, <2>2, FlightIn
  <2>4. ASSUME NEW z \in Flight(C1)[p] PROVE FALSE
    <3>1. PICK x \in Places(C1) : SlotAt(C1, x) = p
      BY <1>9, FlightIn
    <3> QED
      BY <1>1, <1>4, <2>2, <3>1
  <2> QED
    BY <2>1, <2>3, <2>4
<1>10. Asked(C1) \subseteq Asked(C)
  BY <1>1, <1>2 DEF Asked
<1>11. m.type = "release_master_request" => d \notin Asked(C1)
  <2> SUFFICES ASSUME m.type = "release_master_request", NEW x \in Places(C1), x[3] = d,
                      At(C1, x).type = "transfer_data_to_copy"
               PROVE  FALSE
    BY DEF Asked
  <2>1. c(x)[4] < head[4]
    BY <1>1, <1>2, <1>3 DEF Tidy, Ordered
  <2>2. c(x)[4] \in Nat /\ c(x)[4] # 0
    <3> DEFINE w == C[c(x)[1]][c(x)[2]][c(x)[3]]
    <3>1. /\ c(x)[1] \in Nodes /\ c(x)[2] \in Streams /\ c(x)[3] \in Nodes
          /\ c(x)[4] \in DOMAIN w
      BY <1>1, PlacesAre
    <3>2. w \in Seq(Messages)
      <4>1. \A k \in Nodes, z \in Streams, e \in Nodes : C[k][z][e] \in Seq(Messages)
        BY DEF ChanType
      <4> QED
        BY <3>1, <4>1
    <3> HIDE DEF w
    <3>3. DOMAIN w = 1..Len(w) /\ Len(w) \in Nat
      BY <3>2
    <3> QED
      BY <3>1, <3>3
  <2> QED
    BY <1>3, <2>1, <2>2
<1>12. m.type = "transfer_data_to_copy" => d \in Asked(C) /\ m.node # d
  BY <1>1, <1>3 DEF Asked, Tidy, Ordered
<1>13. m \in Messages
  BY <1>1, PlaceNumber
<1>14. Tidy(C1)
  BY <1>6, <1>7 DEF Tidy
<1> HIDE DEF p
<1> QED
  BY <1>1, <1>8, <1>9, <1>10, <1>11, <1>12, <1>13, <1>14 DEF C1, m, p

(***************************************************************************)
(* The roles of the nodes.  D is the nodes' records, o the owner's, f the  *)
(* messages by slot, W the writes made and S those of settled writers: the *)
(* ones that a round, or the lack of copies, allows to release.            *)
(***************************************************************************)
Plain(type)      == [type |-> type]
DataCopy(b)      == [type |-> "data_copy", content |-> b]
DataMessage(b)   == [type |-> "data", content |-> b]
DataRequest(n)   == [type |-> "transfer_data_to_new_master", node |-> n]
Listing(type, L) == [type |-> type, copylist |-> L]

(* The only message in a slot.                                             *)
Lone(l, i, j, m) == l = {<<i, j, m>>}

CopyingOn(l)      == \E x \in l : x[3].type \in {"data_copy", "copy_received"}
InvalidatingOn(l) == \E x \in l : x[3].type \in {"invalidate_copy", "copy_invalidated"}
Copying(f)        == {k \in Nodes : CopyingOn(f[k])}
Invalidating(f)   == {k \in Nodes : InvalidatingOn(f[k])}

(* A node without the copylist keeps none of the holder's books.           *)
Bare(u) ==
  /\ ~u.hasCopylist /\ u.copylist = {} /\ u.pendingCopies = 0 /\ u.pendingInvalidations = 0
  /\ u.copyWaitlist = {} /\ u.waiters = {} /\ ~WriteLocked(u) /\ u.state # "master"

(* The situations of node k towards the holder h of the copylist L: it has *)
(* no copy, is sent one, has received it, keeps it, is asked to drop it,   *)
(* has dropped it.                                                         *)
Situation(u, l, k, h, L, W, S) ==
  \/ l = {} /\ k \notin L /\ u.state = "invalid"
  \/ /\ \E b \in SUBSET W : S \subseteq b /\ Lone(l, h, k, DataCopy(b))
     /\ k \in L /\ u.state = "invalid"
  \/ Lone(l, k, h, Plain("copy_received")) /\ k \in L /\ u.state = "copy"
  \/ l = {} /\ k \in L /\ u.state = "copy"
  \/ Lone(l, h, k, Plain("invalidate_copy")) /\ k \notin L /\ u.state = "copy"
  \/ Lone(l, k, h, Plain("copy_invalidated")) /\ k \notin L /\ u.state = "invalid"

Peer(u, l, k, h, L, W, S) == Bare(u) /\ Situation(u, l, k, h, L, W, S)

(* The holder's books agree with the messages under way.                   *)
Holder(u, h, f, W) ==
  /\ u.hasCopylist /\ h \notin u.copylist /\ f[h] = {} /\ h \notin u.copyWaitlist
  /\ u.pendingCopies = Cardinality(Copying(f))
  /\ u.pendingInvalidations = Cardinality(Invalidating(f))
  /\ u.pendingInvalidations > 0 => u.copylist = {}
  /\ u.waiters # {} => u.pendingInvalidations > 0 \/ u.copylist # {}
  /\ u.waiters \subseteq u.lockers \cap Writers \cap W
  /\ u.state # "invalid" => u.content = W
  /\ u.state = "invalid" => ~WriteLocked(u) /\ u.copyWaitlist = {}

Moving(o) == o.master = NoNode /\ o.masterWaitlist # <<>> /\ o.target = Head(o.masterWaitlist)
Still(f)  == \A k \in Nodes : f[k] = {}

(* Where the holder h is in the move of the master role: it is the master, *)
(* is asked to give up the role, is giving it up, asks a copy for its data,*)
(* is sent the data, tells the owner that it has taken the role.           *)
Role(u, h, o, f, W, S) ==
  \/ /\ u.state = "master" /\ f[NoNode] = {}
     /\ o.master = h /\ o.target = h /\ o.masterWaitlist = <<>>
  \/ u.state = "master" /\ Moving(o) /\ Lone(f[NoNode], Owner, h, Plain("release_master_request"))
  \/ u.state = "copy" /\ Moving(o) /\ f[NoNode] = {}
  \/ /\ u.state = "invalid" /\ Moving(o) /\ o.target = h /\ Still(f)
     /\ \E k \in u.copylist : Lone(f[NoNode], h, k, DataRequest(h))
  \/ /\ u.state = "invalid" /\ Moving(o) /\ o.target = h /\ Still(f)
     /\ \E k \in Nodes, b \in SUBSET W : S \subseteq b /\ Lone(f[NoNode], k, h, DataMessage(b))
  \/ /\ u.state = "master" /\ Moving(o) /\ o.target = h
     /\ Lone(f[NoNode], h, Owner, Plain("is_master"))

(* No node holds the copylist L: it is on the way to the owner, on the way *)
(* to the next master, or gone with the block.                             *)
Loose(o, f, L) ==
  \/ /\ L # {} /\ Moving(o) /\ Still(f)
     /\ \E k \in Nodes : Lone(f[NoNode], k, Owner, Listing("copylist_released", L))
  \/ /\ L # {} /\ Moving(o) /\ Still(f) /\ o.target \in Nodes
     /\ Lone(f[NoNode], Owner, o.target, Listing("take_master", L))
  \/ /\ L = {} /\ f[NoNode] = {}
     /\ o.master = Destroyed /\ o.target = Destroyed /\ o.masterWaitlist # <<>>

(* A buffer holds every settled write and none that was not made, and only *)
(* a writer that still has its lock is not settled.                        *)
Buffers(D, W, S) ==
  /\ S \subseteq W /\ W \subseteq Writers /\ \A t \in W \ S : t \in D[Home[t]].lockers
  /\ \A k \in Nodes : D[k].state = "invalid" => D[k].content = NoBuffer
  /\ \A k \in Nodes : D[k].state # "invalid" => S \subseteq D[k].content /\ D[k].content \subseteq W

Held(D, o, f, W, S, h) ==
  /\ Holder(D[h], h, f, W) /\ Role(D[h], h, o, f, W, S)
  /\ \A k \in Nodes \ {h} : Peer(D[k], f[k], k, h, D[h].copylist, W, S)

Unheld(D, o, f, W, S, L) ==
  /\ Loose(o, f, L)
  /\ \A k \in Nodes : Peer(D[k], f[k], k, Owner, L, W, S)

Core(D, o, f, W, S) ==
  /\ Buffers(D, W, S)
  /\ \/ \E h \in Nodes : Held(D, o, f, W, S, h)
     \/ \E L \in SUBSET Nodes : Unheld(D, o, f, W, S, L)

(* Copies are asked of a master only.                                      *)
Answered(D, C) == \A k \in Asked(C) : D[k].state = "master"

(* The records and the channels agree.                                     *)
Sound(D, C, o, W, S) ==
  /\ D \in [Nodes -> DbRecord] /\ C \in ChanType /\ Tidy(C) /\ Answered(D, C)
  /\ Core(D, o, Flight(C), W, S)
-----------------------------------------------------------------------------
(***************************************************************************)
(* Steps of the roles.                                                     *)
(***************************************************************************)
Set(D, n, u) == [D EXCEPT ![n] = u]

(* Replacing one record.                                                   *)
LEMMA SetFacts ==
  ASSUME NEW D \in [Nodes -> DbRecord], NEW n \in Nodes, NEW u \in DbRecord
  PROVE  /\ Set(D, n, u) \in [Nodes -> DbRecord] /\ Set(D, n, u)[n] = u
         /\ \A k \in Nodes \ {n} : Set(D, n, u)[k] = D[k]
  BY DEF Set

(* A slot with one message has that message only.                          *)
LEMMA OneMessage ==
  ASSUME NEW l, NEW i, NEW d, NEW m, NEW j, NEW e, NEW x, Lone(l, i, d, m), Lone(l, j, e, x)
  PROVE  j = i /\ e = d /\ x = m
<1>1. <<j, e, x>> = <<i, d, m>>
  BY DEF Lone
<1> QED
  BY <1>1

(* Such a slot is not empty.                                               *)
LEMMA NotEmpty ==
  \A l, i, d, m : Lone(l, i, d, m) => l # {}
<1>1. ASSUME NEW l, NEW i, NEW d, NEW m, Lone(l, i, d, m) PROVE l # {}
  BY <1>1 DEF Lone
<1> QED
  BY <1>1

(* The kind of a slot with one message, or none.                           *)
LEMMA SlotKinds ==
  ASSUME NEW l
  PROVE  /\ l = {} => ~CopyingOn(l) /\ ~InvalidatingOn(l)
         /\ \A i, j, m : Lone(l, i, j, m) =>
              /\ m.type \in {"data_copy", "copy_received"} => CopyingOn(l)
              /\ m.type \notin {"data_copy", "copy_received"} => ~CopyingOn(l)
              /\ m.type \in {"invalidate_copy", "copy_invalidated"} => InvalidatingOn(l)
              /\ m.type \notin {"invalidate_copy", "copy_invalidated"} => ~InvalidatingOn(l)
<1>1. l = {} => ~CopyingOn(l) /\ ~InvalidatingOn(l)
  BY DEF CopyingOn, InvalidatingOn
<1>2. ASSUME NEW i, NEW j, NEW m, Lone(l, i, j, m)
      PROVE  /\ m.type \in {"data_copy", "copy_received"} => CopyingOn(l)
             /\ m.type \notin {"data_copy", "copy_received"} => ~CopyingOn(l)
             /\ m.type \in {"invalidate_copy", "copy_invalidated"} => InvalidatingOn(l)
             /\ m.type \notin {"invalidate_copy", "copy_invalidated"} => ~InvalidatingOn(l)
  <2> DEFINE x == <<i, j, m>>
  <2>1. x[3] = m /\ x \in l /\ \A y \in l : y = x
    BY <1>2 DEF Lone
  <2> HIDE DEF x
  <2> QED
    BY <2>1, Zenon DEF CopyingOn, InvalidatingOn
<1> QED
  BY <1>1, <1>2

(* The types of the messages.                                              *)
LEMMA MessageTypes ==
  /\ \A b : DataCopy(b).type = "data_copy" /\ DataMessage(b).type = "data"
  /\ \A type : Plain(type).type = type
  /\ \A n : DataRequest(n).type = "transfer_data_to_new_master"
  /\ \A type, L : Listing(type, L).type = type
  BY DEF DataCopy, DataMessage, Plain, DataRequest, Listing

(* The kind of a slot, by the message in it.                               *)
LEMMA Kinds ==
  ASSUME NEW l, NEW i, NEW j
  PROVE  /\ l = {} => ~CopyingOn(l) /\ ~InvalidatingOn(l)
         /\ \A b : Lone(l, i, j, DataCopy(b)) => CopyingOn(l) /\ ~InvalidatingOn(l)
         /\ Lone(l, i, j, Plain("copy_received")) => CopyingOn(l) /\ ~InvalidatingOn(l)
         /\ Lone(l, i, j, Plain("invalidate_copy")) => ~CopyingOn(l) /\ InvalidatingOn(l)
         /\ Lone(l, i, j, Plain("copy_invalidated")) => ~CopyingOn(l) /\ InvalidatingOn(l)
<1>1. ASSUME NEW m, m.type \in {"data_copy", "copy_received"}, Lone(l, i, j, m)
      PROVE  CopyingOn(l) /\ ~InvalidatingOn(l)
  <2>1. m.type \notin {"invalidate_copy", "copy_invalidated"}
    BY <1>1
  <2> QED
    BY <1>1, <2>1, SlotKinds
<1>2. ASSUME NEW m, m.type \in {"invalidate_copy", "copy_invalidated"}, Lone(l, i, j, m)
      PROVE  ~CopyingOn(l) /\ InvalidatingOn(l)
  <2>1. m.type \notin {"data_copy", "copy_received"}
    BY <1>2
  <2> QED
    BY <1>2, <2>1, SlotKinds
<1> QED
  BY <1>1, <1>2, MessageTypes, SlotKinds

(* The same of single messages.                                            *)
LEMMA NoKind ==
  ASSUME NEW l, l = {}
  PROVE  ~CopyingOn(l) /\ ~InvalidatingOn(l)
  BY SlotKinds

(* A data copy is part of a copy under way.                                *)
LEMMA DataCopyKind ==
  ASSUME NEW l, NEW i, NEW j, NEW b, Lone(l, i, j, DataCopy(b))
  PROVE  CopyingOn(l) /\ ~InvalidatingOn(l)
  BY Kinds

(* So is its receipt.                                                      *)
LEMMA ReceivedKind ==
  ASSUME NEW l, NEW i, NEW j, Lone(l, i, j, Plain("copy_received"))
  PROVE  CopyingOn(l) /\ ~InvalidatingOn(l)
  BY Kinds

(* The order to drop a copy is part of a round.                            *)
LEMMA InvalidateKind ==
  ASSUME NEW l, NEW i, NEW j, Lone(l, i, j, Plain("invalidate_copy"))
  PROVE  ~CopyingOn(l) /\ InvalidatingOn(l)
  BY Kinds

(* So is its acknowledgement.                                              *)
LEMMA InvalidatedKind ==
  ASSUME NEW l, NEW i, NEW j, Lone(l, i, j, Plain("copy_invalidated"))
  PROVE  ~CopyingOn(l) /\ InvalidatingOn(l)
  BY Kinds

(* What a node's situation says of the messages between it and the holder. *)
LEMMA SituationKinds ==
  ASSUME NEW u, NEW l, NEW k, NEW h, NEW L, NEW W, NEW S, Situation(u, l, k, h, L, W, S)
  PROVE  /\ CopyingOn(l) => l # {} /\ k \in L
         /\ l # {} /\ k \in L => CopyingOn(l)
         /\ InvalidatingOn(l) => l # {} /\ k \notin L
         /\ l # {} /\ k \notin L => InvalidatingOn(l)
<1>1. CASE l = {}
  BY <1>1, Kinds
<1>4. CASE \E b \in SUBSET W : S \subseteq b /\ Lone(l, h, k, DataCopy(b)) /\ k \in L
  BY <1>4, Kinds
<1>5. CASE Lone(l, k, h, Plain("copy_received")) /\ k \in L
  BY <1>5, Kinds
<1>6. CASE Lone(l, h, k, Plain("invalidate_copy")) /\ k \notin L
  BY <1>6, Kinds
<1>7. CASE Lone(l, k, h, Plain("copy_invalidated")) /\ k \notin L
  BY <1>7, Kinds
<1> QED
  BY <1>1, <1>4, <1>5, <1>6, <1>7 DEF Situation

(* Only the holder is master, keeps books, or lets writers in.             *)
LEMMA HolderIs ==
  ASSUME NEW D, NEW o, NEW f, NEW W, NEW S, Core(D, o, f, W, S), NEW n \in Nodes, ~Bare(D[n])
  PROVE  Held(D, o, f, W, S, n)
  BY DEF Core, Held, Unheld, Peer

(* The books count finite sets of nodes.                                   *)
LEMMA CountsFinite ==
  ASSUME NEW T \in SUBSET Nodes
  PROVE  IsFiniteSet(T) /\ Cardinality(T) \in Nat /\ (Cardinality(T) = 0 <=> T = {})
  BY NodesAssumption, FS_Subset, FS_CardinalityType, FS_EmptySet

(* With nothing outstanding, the nodes of the copylist have a copy and the *)
(* other nodes have none.                                                  *)
LEMMA HeldQuiet ==
  ASSUME NEW D, NEW o, NEW f, NEW W, NEW S, NEW h \in Nodes, Held(D, o, f, W, S, h)
  PROVE  /\ D[h].pendingCopies = 0 => \A k \in D[h].copylist \cap Nodes : f[k] = {} /\ D[k].state = "copy"
         /\ D[h].pendingInvalidations = 0 =>
              \A k \in Nodes \ (D[h].copylist \cup {h}) : f[k] = {} /\ D[k].state = "invalid"
<1>1. Copying(f) \in SUBSET Nodes /\ Invalidating(f) \in SUBSET Nodes
  BY DEF Copying, Invalidating
<1>2. ASSUME NEW k \in Nodes \ {h}
      PROVE  /\ k \in D[h].copylist => k \in Copying(f) \/ (f[k] = {} /\ D[k].state = "copy")
             /\ k \notin D[h].copylist => k \in Invalidating(f) \/ (f[k] = {} /\ D[k].state = "invalid")
  <2>1. Situation(D[k], f[k], k, h, D[h].copylist, W, S)
    BY DEF Held, Peer
  <2>2. /\ f[k] # {} /\ k \in D[h].copylist => CopyingOn(f[k])
        /\ f[k] # {} /\ k \notin D[h].copylist => InvalidatingOn(f[k])
    BY <2>1, SituationKinds
  <2>3. f[k] = {} => (k \in D[h].copylist => D[k].state = "copy")
                     /\ (k \notin D[h].copylist => D[k].state = "invalid")
    BY <2>1, NotEmpty DEF Situation
  <2> QED
    BY <2>2, <2>3 DEF Copying, Invalidating
<1>3. h \notin D[h].copylist /\ D[h].pendingCopies = Cardinality(Copying(f))
      /\ D[h].pendingInvalidations = Cardinality(Invalidating(f))
  BY DEF Held, Holder
<1> QED
  BY <1>1, <1>2, <1>3, CountsFinite

Free(f, T)       == \A k \in T : f[k] = {}
SameBut(g, f, T) == \A q \in Slots \ T : g[q] = f[q]
(* The message m is under way from n to every node of T.                   *)
Sent(g, n, T, m) == \A q \in T : Lone(g[q], n, q, m)

(* The holder sends copies to nodes that have none and lists them.         *)
LEMMA HeldCopies ==
  ASSUME NEW D \in [Nodes -> DbRecord], NEW o, NEW f, NEW W, NEW S, NEW h \in Nodes,
         Held(D, o, f, W, S, h), S \subseteq W,
         D[h].state # "invalid", D[h].pendingInvalidations = 0,
         NEW T \in SUBSET Nodes, T \cap D[h].copylist = {}, h \notin T,
         NEW u \in DbRecord,
         u = [D[h] EXCEPT !.pendingCopies = D[h].pendingCopies + Cardinality(T),
                          !.copylist = D[h].copylist \cup T],
         NEW g, SameBut(g, f, T), Sent(g, h, T, DataCopy(D[h].content))
  PROVE  Held(Set(D, h, u), o, g, W, S, h)
<1> USE DEF SameBut, Sent
<1> DEFINE E == Set(D, h, u)
           L == D[h].copylist
<1>1. E[h] = u /\ \A k \in Nodes \ {h} : E[k] = D[k]
  BY SetFacts
<1>2. /\ u.copylist = L \cup T /\ u.pendingCopies = D[h].pendingCopies + Cardinality(T)
      /\ \A x \in {"state", "hasCopylist", "pendingInvalidations", "copyWaitlist", "waiters", "lockers", "content"} :
           u[x] = D[h][x]
  BY DEF DbRecord
<1>3. Holder(D[h], h, f, W) /\ Role(D[h], h, o, f, W, S)
  BY DEF Held
<1>4. \A k \in T : f[k] = {} /\ D[k].state = "invalid" /\ k \in Slots
  BY HeldQuiet DEF Slots
<1>5. NoNode \notin T /\ NoNode \in Slots /\ Nodes \subseteq Slots
  BY StreamAssumption DEF Slots
<1>6. ASSUME NEW k \in T
      PROVE  CopyingOn(g[k]) /\ ~InvalidatingOn(g[k]) /\ ~CopyingOn(f[k]) /\ ~InvalidatingOn(f[k])
  <2>1. ~CopyingOn(f[k]) /\ ~InvalidatingOn(f[k])
    BY <1>4, NoKind
  <2>2. CopyingOn(g[k]) /\ ~InvalidatingOn(g[k])
    BY DataCopyKind
  <2> QED
    BY <2>1, <2>2
<1>7. Copying(g) = Copying(f) \cup T /\ Copying(f) \cap T = {}
  BY <1>5, <1>6 DEF Copying
<1>8. Invalidating(g) = Invalidating(f)
  BY <1>5, <1>6 DEF Invalidating
<1>9. Cardinality(Copying(g)) = Cardinality(Copying(f)) + Cardinality(T)
  <2>1. IsFiniteSet(Copying(f)) /\ IsFiniteSet(T)
    BY CountsFinite DEF Copying
  <2>2. Cardinality(Copying(f) \cap T) = 0
    BY <1>7, FS_EmptySet
  <2>3. Cardinality(Copying(f) \cup T) = Cardinality(Copying(f)) + Cardinality(T) - Cardinality(Copying(f) \cap T)
    BY <2>1, FS_Union
  <2>4. Cardinality(Copying(f)) \in Nat /\ Cardinality(T) \in Nat
    BY CountsFinite DEF Copying
  <2> QED
    BY <1>7, <2>2, <2>3, <2>4
<1>10. Holder(u, h, g, W)
  <2>1. h \notin u.copylist /\ g[h] = {}
    BY <1>2, <1>3, <1>5 DEF Holder
  <2>2. u.pendingCopies = Cardinality(Copying(g)) /\ u.pendingInvalidations = Cardinality(Invalidating(g))
    BY <1>2, <1>3, <1>8, <1>9 DEF Holder
  <2>3. WriteLocked(u) <=> WriteLocked(D[h])
    BY <1>2 DEF WriteLocked
  <2>4. ~(u.pendingInvalidations > 0)
    BY <1>2
  <2>5. u.waiters # {} => u.copylist # {}
    BY <1>2, <1>3 DEF Holder
  <2> QED
    BY <1>2, <1>3, <2>1, <2>2, <2>3, <2>4, <2>5 DEF Holder
<1>11. Role(u, h, o, g, W, S)
  BY <1>2, <1>3, <1>5 DEF Role
<1>12. ASSUME NEW k \in Nodes \ {h} PROVE Peer(D[k], g[k], k, h, u.copylist, W, S)
  <2>1. Peer(D[k], f[k], k, h, L, W, S)
    BY DEF Held
  <2>2. CASE k \in T
    <3>1. Lone(g[k], h, k, DataCopy(W))
      BY <1>2, <1>3, <2>2 DEF Holder
    <3> QED
      BY <1>2, <1>4, <2>1, <2>2, <3>1 DEF Peer, Situation
  <2>3. CASE k \notin T
    <3>1. g[k] = f[k] /\ (k \in u.copylist <=> k \in L)
      BY <1>2, <1>5, <2>3
    <3> QED
      BY <2>1, <3>1 DEF Peer, Situation
  <2> QED
    BY <2>2, <2>3
<1> HIDE DEF E
<1> QED
  BY <1>1, <1>10, <1>11, <1>12 DEF Held, E

(* The holder asks every listed node to drop its copy.                     *)
LEMMA HeldRound ==
  ASSUME NEW D \in [Nodes -> DbRecord], NEW o, NEW f, NEW W, NEW S, NEW h \in Nodes,
         Held(D, o, f, W, S, h), D[h].waiters # {},
         D[h].pendingCopies = 0, D[h].pendingInvalidations = 0,
         NEW u \in DbRecord,
         u = [D[h] EXCEPT !.pendingInvalidations = Cardinality(D[h].copylist), !.copylist = {}],
         NEW g, SameBut(g, f, D[h].copylist), Sent(g, h, D[h].copylist, Plain("invalidate_copy"))
  PROVE  Held(Set(D, h, u), o, g, W, S, h) /\ D[h].copylist # {} /\ u.pendingInvalidations > 0
<1> USE DEF SameBut, Sent
<1> DEFINE E == Set(D, h, u)
           L == D[h].copylist
<1>1. E[h] = u /\ \A k \in Nodes \ {h} : E[k] = D[k]
  BY SetFacts
<1>2. /\ u.copylist = {} /\ u.pendingInvalidations = Cardinality(L)
      /\ \A x \in {"state", "hasCopylist", "pendingCopies", "copyWaitlist", "waiters", "lockers", "content"} :
           u[x] = D[h][x]
  BY DEF DbRecord
<1>3. Holder(D[h], h, f, W) /\ Role(D[h], h, o, f, W, S) /\ L \in SUBSET Nodes
  BY DEF Held, DbRecord
<1>4. \A k \in L : f[k] = {} /\ D[k].state = "copy" /\ k \in Slots
  BY <1>3, HeldQuiet DEF Slots
<1>5. NoNode \notin L /\ NoNode \in Slots /\ Nodes \subseteq Slots
  BY <1>3, StreamAssumption DEF Slots
<1>6. L # {} /\ Cardinality(L) \in Nat /\ Cardinality(L) > 0
  <2>1. L # {}
    BY <1>3 DEF Holder
  <2> QED
    BY <1>3, <2>1, CountsFinite
<1>7. ASSUME NEW k \in L PROVE ~CopyingOn(g[k]) /\ InvalidatingOn(g[k]) /\ ~CopyingOn(f[k])
  <2>1. ~CopyingOn(f[k])
    BY <1>4, NoKind
  <2>2. ~CopyingOn(g[k]) /\ InvalidatingOn(g[k])
    BY InvalidateKind
  <2> QED
    BY <2>1, <2>2
<1>8. Copying(g) = Copying(f)
  BY <1>5, <1>7 DEF Copying
<1>9. Invalidating(g) = L
  <2>1. Invalidating(f) = {}
    <3>1. Invalidating(f) \in SUBSET Nodes
      BY DEF Invalidating
    <3> QED
      BY <1>3, <3>1, CountsFinite DEF Holder
  <2> QED
    BY <1>3, <1>5, <1>7, <2>1 DEF Invalidating
<1>10. Holder(u, h, g, W)
  <2>1. g[h] = {} /\ h \notin u.copylist
    BY <1>2, <1>3, <1>5 DEF Holder
  <2>2. u.pendingCopies = Cardinality(Copying(g)) /\ u.pendingInvalidations = Cardinality(Invalidating(g))
    BY <1>2, <1>3, <1>8, <1>9 DEF Holder
  <2>3. WriteLocked(u) <=> WriteLocked(D[h])
    BY <1>2 DEF WriteLocked
  <2> QED
    BY <1>2, <1>3, <1>6, <2>1, <2>2, <2>3 DEF Holder
<1>11. D[h].state # "invalid"
  BY <1>3 DEF Holder, WriteLocked
<1>12. Role(u, h, o, g, W, S)
  BY <1>2, <1>3, <1>5, <1>11 DEF Role
<1>13. ASSUME NEW k \in Nodes \ {h} PROVE Peer(D[k], g[k], k, h, u.copylist, W, S)
  <2>1. Peer(D[k], f[k], k, h, L, W, S)
    BY DEF Held
  <2>2. CASE k \in L
    BY <1>2, <1>4, <2>1, <2>2 DEF Peer, Situation
  <2>3. CASE k \notin L
    <3>1. g[k] = f[k]
      BY <1>5, <2>3
    <3> QED
      BY <1>2, <2>1, <2>3, <3>1 DEF Peer, Situation
  <2> QED
    BY <2>2, <2>3
<1> HIDE DEF E
<1> QED
  BY <1>1, <1>2, <1>6, <1>10, <1>12, <1>13 DEF Held, E

(* The books of a record: all but its locks and its waiting lists.         *)
SameBooks(u, v) ==
  /\ u.state = v.state /\ u.content = v.content
  /\ u.hasCopylist = v.hasCopylist /\ u.copylist = v.copylist
  /\ u.pendingCopies = v.pendingCopies /\ u.pendingInvalidations = v.pendingInvalidations

(* The lists of a holder with the record u are in order.                   *)
ListsFit(u, h, W) ==
  /\ h \notin u.copyWaitlist
  /\ u.waiters # {} => u.pendingInvalidations > 0 \/ u.copylist # {}
  /\ u.waiters \subseteq u.lockers \cap Writers \cap W
  /\ u.state = "invalid" => ~WriteLocked(u) /\ u.copyWaitlist = {}

(* The holder's lists change and its books do not.                         *)
LEMMA HeldKeep ==
  ASSUME NEW D \in [Nodes -> DbRecord], NEW o, NEW f, NEW W, NEW S, NEW h \in Nodes,
         Held(D, o, f, W, S, h), NEW u \in DbRecord, SameBooks(u, D[h]), ListsFit(u, h, W)
  PROVE  Held(Set(D, h, u), o, f, W, S, h)
<1>1. Set(D, h, u)[h] = u /\ \A k \in Nodes \ {h} : Set(D, h, u)[k] = D[k]
  BY SetFacts
<1>2. Holder(u, h, f, W) /\ Role(u, h, o, f, W, S)
  BY DEF Held, Holder, Role, SameBooks, ListsFit
<1>3. \A k \in Nodes \ {h} : Peer(D[k], f[k], k, h, u.copylist, W, S)
  BY DEF Held, SameBooks
<1> QED
  BY <1>1, <1>2, <1>3 DEF Held

(* A node without the copylist keeps its situation as long as its state    *)
(* does not change.                                                        *)
LEMMA PeerKeep ==
  ASSUME NEW u, NEW v, NEW l, NEW k, NEW h, NEW L, NEW W, NEW S, Peer(v, l, k, h, L, W, S),
         Bare(u), u.state = v.state
  PROVE  Peer(u, l, k, h, L, W, S)
  BY DEF Peer, Situation

(* A node's locks and lists change.                                        *)
LEMMA CoreKeep ==
  ASSUME NEW D \in [Nodes -> DbRecord], NEW o, NEW f, NEW W, NEW S, NEW n \in Nodes,
         Core(D, o, f, W, S), NEW u \in DbRecord, SameBooks(u, D[n]),
         Bare(D[n]) => Bare(u), D[n].hasCopylist => ListsFit(u, n, W),
         \A t \in W \ S : Home[t] = n => t \in u.lockers
  PROVE  Core(Set(D, n, u), o, f, W, S)
<1> DEFINE E == Set(D, n, u)
<1>1. E[n] = u /\ \A k \in Nodes \ {n} : E[k] = D[k]
  BY SetFacts
<1> HIDE DEF E
<1>2. Buffers(E, W, S)
  <2>1. ASSUME NEW k \in Nodes
        PROVE  /\ E[k].state = D[k].state /\ E[k].content = D[k].content
    BY <1>1 DEF SameBooks
  <2>2. ASSUME NEW t \in W \ S PROVE t \in E[Home[t]].lockers
    <3>1. t \in D[Home[t]].lockers /\ t \in Tasks
      BY DEF Core, Buffers, Writers
    <3>2. Home[t] \in Nodes
      BY <3>1, TaskAssumption
    <3> QED
      BY <1>1, <3>1, <3>2
  <2> QED
    BY <2>1, <2>2 DEF Core, Buffers
<1>3. ASSUME NEW h \in Nodes, Held(D, o, f, W, S, h) PROVE Held(E, o, f, W, S, h)
  <2>1. CASE h = n
    BY <1>3, <2>1, HeldKeep DEF Held, Holder, E
  <2>2. CASE h # n
    <3>1. Peer(D[n], f[n], n, h, D[h].copylist, W, S)
      BY <1>3, <2>2 DEF Held
    <3>2. Peer(u, f[n], n, h, D[h].copylist, W, S)
      BY <3>1, PeerKeep DEF Peer, SameBooks
    <3>3. E[h] = D[h]
      BY <1>1, <2>2
    <3> QED
      BY <1>1, <1>3, <3>2, <3>3 DEF Held
  <2> QED
    BY <2>1, <2>2
<1>4. ASSUME NEW L \in SUBSET Nodes, Unheld(D, o, f, W, S, L) PROVE Unheld(E, o, f, W, S, L)
  <2>1. Peer(D[n], f[n], n, Owner, L, W, S)
    BY <1>4 DEF Unheld
  <2>2. Peer(u, f[n], n, Owner, L, W, S)
    BY <2>1, PeerKeep DEF Peer, SameBooks
  <2> QED
    BY <1>1, <1>4, <2>2 DEF Unheld
<1> QED
  BY <1>2, <1>3, <1>4 DEF Core, E

(* Locks are given, to writers by the master only.                         *)
LEMMA CoreLocks ==
  ASSUME NEW D \in [Nodes -> DbRecord], NEW o, NEW f, NEW W, NEW S, NEW n \in Nodes,
         Core(D, o, f, W, S), NEW u \in DbRecord, SameBooks(u, D[n]),
         u.copyWaitlist = D[n].copyWaitlist, u.waiters = D[n].waiters,
         D[n].lockers \subseteq u.lockers,
         D[n].state # "master" => (u.lockers \ D[n].lockers) \cap Writers = {}
  PROVE  Core(Set(D, n, u), o, f, W, S)
<1>1. D[n].state # "master" => (WriteLocked(u) => WriteLocked(D[n]))
  BY DEF WriteLocked
<1>2. Bare(D[n]) => Bare(u)
  BY <1>1 DEF Bare, SameBooks
<1>3. D[n].hasCopylist => ListsFit(u, n, W)
  <2> SUFFICES ASSUME D[n].hasCopylist PROVE ListsFit(u, n, W)
    OBVIOUS
  <2>1. Holder(D[n], n, f, W)
    BY HolderIs DEF Bare, Held
  <2> QED
    BY <1>1, <2>1 DEF Holder, ListsFit, SameBooks
<1>4. \A t \in W \ S : Home[t] = n => t \in u.lockers
  BY DEF Core, Buffers
<1> QED
  BY <1>2, <1>3, <1>4, CoreKeep

(* Where no node lets a writer in, every write is settled.                 *)
LEMMA NoWriter ==
  ASSUME NEW D, NEW o, NEW f, NEW W, NEW S, Core(D, o, f, W, S),
         \A k \in Nodes : ~WriteLocked(D[k])
  PROVE  W = S
<1>1. ASSUME NEW t \in W \ S PROVE FALSE
  <2>1. t \in Writers /\ t \in D[Home[t]].lockers /\ t \in Tasks
    BY DEF Core, Buffers, Writers
  <2>2. Home[t] \in Nodes
    BY <2>1, TaskAssumption
  <2> QED
    BY <2>1, <2>2 DEF WriteLocked
<1> QED
  BY <1>1 DEF Core, Buffers

(* While the master's data or the copylist is under way there is no writer.*)
LEMMA NoWriterMoving ==
  ASSUME NEW D, NEW o, NEW f, NEW W, NEW S, Core(D, o, f, W, S),
         \/ \E h \in Nodes : Held(D, o, f, W, S, h) /\ D[h].state = "invalid"
         \/ \E L \in SUBSET Nodes : Unheld(D, o, f, W, S, L)
  PROVE  W = S
  BY NoWriter DEF Held, Holder, Unheld, Peer, Bare

(* The holder is the only node with a copy: more writers may be settled.   *)
LEMMA CoreSettle ==
  ASSUME NEW D, NEW o, NEW f, NEW W, NEW S, NEW n \in Nodes, Core(D, o, f, W, S),
         D[n].hasCopylist, D[n].copylist = {}, D[n].pendingInvalidations = 0,
         NEW S1, S \subseteq S1, S1 \subseteq W
  PROVE  Core(D, o, f, W, S1)
<1>1. Held(D, o, f, W, S, n)
  BY HolderIs DEF Bare
<1>2. CASE D[n].state = "invalid"
  <2>1. W = S
    BY <1>1, <1>2, NoWriterMoving
  <2>2. S1 = S
    BY <2>1
  <2> QED
    BY <2>2
<1>3. CASE D[n].state # "invalid"
  <2>1. \A k \in Nodes \ {n} : f[k] = {} /\ D[k].state = "invalid"
    BY <1>1, HeldQuiet
  <2>2. Buffers(D, W, S1)
    <3>1. D[n].content = W
      BY <1>1, <1>3 DEF Held, Holder
    <3> QED
      BY <2>1, <3>1 DEF Core, Buffers
  <2>3. \A k \in Nodes \ {n} : Peer(D[k], f[k], k, n, D[n].copylist, W, S1)
    BY <1>1, <2>1 DEF Held, Peer, Situation
  <2>4. Role(D[n], n, o, f, W, S1)
    BY <1>1, <1>3 DEF Held, Role
  <2> QED
    BY <1>1, <2>2, <2>3, <2>4 DEF Core, Held
<1> QED
  BY <1>2, <1>3

(* A node's buffer changes.                                                *)
LEMMA BuffersSet ==
  ASSUME NEW D \in [Nodes -> DbRecord], NEW W, NEW S, Buffers(D, W, S),
         NEW n \in Nodes, NEW u \in DbRecord, D[n].lockers \subseteq u.lockers,
         u.state = "invalid" => u.content = NoBuffer,
         u.state # "invalid" => S \subseteq u.content /\ u.content \subseteq W
  PROVE  Buffers(Set(D, n, u), W, S)
<1>1. Set(D, n, u)[n] = u /\ \A k \in Nodes \ {n} : Set(D, n, u)[k] = D[k]
  BY SetFacts
<1>2. ASSUME NEW t \in W \ S PROVE t \in Set(D, n, u)[Home[t]].lockers
  <2>1. t \in D[Home[t]].lockers /\ t \in Tasks
    BY DEF Buffers, Writers
  <2>2. Home[t] \in Nodes
    BY <2>1, TaskAssumption
  <2> QED
    BY <1>1, <2>1, <2>2
<1> QED
  BY <1>1, <1>2 DEF Buffers

(* What a message of the move of the master role from i to d tells.        *)
RoleTells(D, o, f, W, S, i, d, m) ==
  /\ m.type = "release_master_request" =>
       Held(D, o, f, W, S, d) /\ D[d].state = "master" /\ d \in Nodes /\ Moving(o)
  /\ m.type = "copylist_released" =>
       /\ m.copylist \in SUBSET Nodes /\ Unheld(D, o, f, W, S, m.copylist)
       /\ m.copylist # {} /\ Moving(o) /\ Still(f)
  /\ m.type = "take_master" =>
       /\ m.copylist \in SUBSET Nodes /\ Unheld(D, o, f, W, S, m.copylist)
       /\ m.copylist # {} /\ Moving(o) /\ Still(f) /\ o.target = d /\ d \in Nodes
  /\ m.type = "transfer_data_to_new_master" =>
       /\ m.node \in Nodes /\ m.node = i /\ Held(D, o, f, W, S, i) /\ D[i].state = "invalid"
       /\ d \in D[i].copylist /\ Still(f) /\ o.target = i /\ Moving(o)
  /\ m.type = "data" =>
       /\ Held(D, o, f, W, S, d) /\ D[d].state = "invalid" /\ d \in Nodes /\ o.target = d
       /\ m.content \subseteq W /\ S \subseteq m.content /\ Moving(o) /\ Still(f)
  /\ m.type = "is_master" =>
       /\ Held(D, o, f, W, S, i) /\ D[i].state = "master" /\ i \in Nodes
       /\ o.target = i /\ Moving(o)

(* The message in the slot of the master role, by its type.                *)
LEMMA RoleMessage ==
  ASSUME NEW D, NEW o, NEW f, NEW W, NEW S, Core(D, o, f, W, S),
         NEW i, NEW d, NEW m, Lone(f[NoNode], i, d, m)
  PROVE  RoleTells(D, o, f, W, S, i, d, m)
<1>1. \A i1, d1, m1 : Lone(f[NoNode], i1, d1, m1) => i1 = i /\ d1 = d /\ m1 = m
  BY OneMessage
<1>2. ASSUME NEW h \in Nodes, Held(D, o, f, W, S, h)
      PROVE  \/ /\ m.type = "release_master_request" /\ h = d /\ D[h].state = "master" /\ Moving(o)
             \/ /\ m.type = "transfer_data_to_new_master" /\ m.node = h /\ h = i /\ D[h].state = "invalid"
                /\ d \in D[h].copylist /\ Still(f) /\ o.target = h /\ Moving(o)
             \/ /\ m.type = "data" /\ h = d /\ D[h].state = "invalid" /\ o.target = h
                /\ m.content \subseteq W /\ S \subseteq m.content /\ Moving(o) /\ Still(f)
             \/ m.type = "is_master" /\ h = i /\ D[h].state = "master" /\ o.target = h /\ Moving(o)
  <2>1. Role(D[h], h, o, f, W, S)
    BY <1>2 DEF Held
  <2>2. CASE Lone(f[NoNode], Owner, h, Plain("release_master_request")) /\ D[h].state = "master" /\ Moving(o)
    BY <1>1, <2>2 DEF Plain
  <2>3. CASE /\ D[h].state = "invalid" /\ Moving(o) /\ o.target = h /\ Still(f)
             /\ \E k \in D[h].copylist : Lone(f[NoNode], h, k, DataRequest(h))
    BY <1>1, <2>3 DEF DataRequest
  <2>4. CASE /\ D[h].state = "invalid" /\ Moving(o) /\ o.target = h /\ Still(f)
             /\ \E k \in Nodes, b \in SUBSET W : S \subseteq b /\ Lone(f[NoNode], k, h, DataMessage(b))
    BY <1>1, <2>4 DEF DataMessage
  <2>5. CASE /\ D[h].state = "master" /\ Moving(o) /\ o.target = h
             /\ Lone(f[NoNode], h, Owner, Plain("is_master"))
    BY <1>1, <2>5 DEF Plain
  <2>6. f[NoNode] # {}
    BY NotEmpty
  <2> QED
    BY <2>1, <2>2, <2>3, <2>4, <2>5, <2>6 DEF Role
<1>3. ASSUME NEW L \in SUBSET Nodes, Unheld(D, o, f, W, S, L)
      PROVE  \/ m.type = "copylist_released" /\ m.copylist = L /\ L # {} /\ Moving(o) /\ Still(f)
             \/ /\ m.type = "take_master" /\ m.copylist = L /\ L # {} /\ Moving(o) /\ Still(f)
                /\ o.target = d /\ d \in Nodes
  <2>1. CASE L # {} /\ Moving(o) /\ Still(f) /\ \E k \in Nodes : Lone(f[NoNode], k, Owner, Listing("copylist_released", L))
    BY <1>1, <2>1 DEF Listing
  <2>2. CASE /\ L # {} /\ Moving(o) /\ Still(f) /\ o.target \in Nodes
             /\ Lone(f[NoNode], Owner, o.target, Listing("take_master", L))
    BY <1>1, <2>2 DEF Listing
  <2>3. f[NoNode] # {}
    BY NotEmpty
  <2> QED
    BY <1>3, <2>1, <2>2, <2>3 DEF Unheld, Loose
<1> HIDE DEF Held, Unheld
<1> QED
  BY <1>2, <1>3 DEF Core, RoleTells

(* What a message from i to d about q's copy tells.                        *)
CopyTells(D, o, f, W, S, q, i, d, m) ==
  /\ m.type = "data_copy" =>
       /\ i \in Nodes /\ Held(D, o, f, W, S, i) /\ q = d /\ d # i /\ d \in D[i].copylist
       /\ D[d].state = "invalid" /\ Bare(D[d])
       /\ m.content \subseteq W /\ S \subseteq m.content
  /\ m.type = "copy_received" =>
       /\ d \in Nodes /\ Held(D, o, f, W, S, d) /\ q = i /\ i # d /\ i \in D[d].copylist
       /\ D[i].state = "copy"
  /\ m.type = "invalidate_copy" =>
       /\ q = d /\ D[d].state = "copy" /\ Bare(D[d])
       /\ \/ i \in Nodes /\ Held(D, o, f, W, S, i) /\ d # i /\ d \notin D[i].copylist
          \/ i = Owner /\ Unheld(D, o, f, W, S, {})
  /\ m.type = "copy_invalidated" =>
       /\ q = i /\ D[i].state = "invalid" /\ Bare(D[i])
       /\ \/ /\ d \in Nodes /\ Held(D, o, f, W, S, d) /\ i # d /\ i \notin D[d].copylist
             /\ o.master # Destroyed \/ d # Owner
          \/ d = Owner /\ Unheld(D, o, f, W, S, {}) /\ o.master = Destroyed

(* The message about a node's copy, by its type.                           *)
LEMMA CopyMessage ==
  ASSUME NEW D, NEW o, NEW f, NEW W, NEW S, Core(D, o, f, W, S),
         NEW q \in Nodes, NEW i, NEW d, NEW m, Lone(f[q], i, d, m)
  PROVE  CopyTells(D, o, f, W, S, q, i, d, m)
<1>1. \A i1, d1, m1 : Lone(f[q], i1, d1, m1) => i1 = i /\ d1 = d /\ m1 = m
  BY OneMessage
<1>2. ASSUME NEW u, NEW h, NEW L, Situation(u, f[q], q, h, L, W, S)
      PROVE  \/ /\ m.type = "data_copy" /\ i = h /\ d = q /\ q \in L /\ u.state = "invalid"
                /\ m.content \subseteq W /\ S \subseteq m.content
             \/ m.type = "copy_received" /\ i = q /\ d = h /\ q \in L /\ u.state = "copy"
             \/ m.type = "invalidate_copy" /\ i = h /\ d = q /\ q \notin L /\ u.state = "copy"
             \/ m.type = "copy_invalidated" /\ i = q /\ d = h /\ q \notin L /\ u.state = "invalid"
  <2>1. CASE /\ \E b \in SUBSET W : S \subseteq b /\ Lone(f[q], h, q, DataCopy(b))
             /\ q \in L /\ u.state = "invalid"
    BY <1>1, <2>1 DEF DataCopy
  <2>2. CASE Lone(f[q], q, h, Plain("copy_received")) /\ q \in L /\ u.state = "copy"
    BY <1>1, <2>2 DEF Plain
  <2>3. CASE Lone(f[q], h, q, Plain("invalidate_copy")) /\ q \notin L /\ u.state = "copy"
    BY <1>1, <2>3 DEF Plain
  <2>4. CASE Lone(f[q], q, h, Plain("copy_invalidated")) /\ q \notin L /\ u.state = "invalid"
    BY <1>1, <2>4 DEF Plain
  <2>5. f[q] # {}
    BY NotEmpty
  <2> QED
    BY <1>2, <2>1, <2>2, <2>3, <2>4, <2>5 DEF Situation
<1>3. CASE \E h \in Nodes : Held(D, o, f, W, S, h)
  <2>1. PICK h \in Nodes : Held(D, o, f, W, S, h)
    BY <1>3
  <2>2. q # h /\ Peer(D[q], f[q], q, h, D[h].copylist, W, S)
    BY <2>1, NotEmpty DEF Held, Holder
  <2>3. o.master # Destroyed \/ h # Owner
    <3>1. Destroyed \notin Nodes /\ Destroyed # NoNode
      BY MasterAssumption
    <3> QED
      BY <2>1, <3>1 DEF Held, Role, Moving
  <2> HIDE DEF Held
  <2> QED
    BY <1>2, <2>1, <2>2, <2>3 DEF Peer, CopyTells
<1>4. CASE \E L \in SUBSET Nodes : Unheld(D, o, f, W, S, L)
  <2>1. PICK L \in SUBSET Nodes : Unheld(D, o, f, W, S, L)
    BY <1>4
  <2>2. L = {} /\ o.master = Destroyed
    BY <2>1, NotEmpty DEF Unheld, Loose, Still
  <2>3. Peer(D[q], f[q], q, Owner, {}, W, S)
    BY <2>1, <2>2 DEF Unheld
  <2> HIDE DEF Unheld
  <2> QED
    BY <1>2, <2>1, <2>2, <2>3 DEF Peer, CopyTells
<1> QED
  BY <1>3, <1>4 DEF Core

(* The slots are those of the nodes and the one of the master role.        *)
LEMMA SlotsAre ==
  Nodes \subseteq Slots /\ NoNode \in Slots /\ NoNode \notin Nodes
  BY StreamAssumption DEF Slots

SameLists(u, v) ==
  u.copyWaitlist = v.copyWaitlist /\ u.waiters = v.waiters /\ u.lockers = v.lockers
SameCounts(u, v) ==
  /\ u.hasCopylist = v.hasCopylist /\ u.copylist = v.copylist
  /\ u.pendingCopies = v.pendingCopies /\ u.pendingInvalidations = v.pendingInvalidations
SameOthers(E, D, h) == \A k \in Nodes \ {h} : E[k] = D[k]
(* The record u in the place of n's.                                       *)
Replaced(E, D, n, u) == E[n] = u /\ \A k \in Nodes \ {n} : E[k] = D[k]
SameCopies(g, f) == \A k \in Nodes : g[k] = f[k]

(* Such a replacement.                                                     *)
LEMMA SetIs ==
  ASSUME NEW D \in [Nodes -> DbRecord], NEW n \in Nodes, NEW u
  PROVE  Replaced(Set(D, n, u), D, n, u)
  BY DEF Set, Replaced

(* The move of the master role goes one step on; the copies do not change. *)
LEMMA HeldMove ==
  ASSUME NEW D, NEW o, NEW f, NEW W, NEW S, NEW h \in Nodes, Held(D, o, f, W, S, h),
         NEW E, SameOthers(E, D, h),
         SameCounts(E[h], D[h]), SameLists(E[h], D[h]),
         E[h].state # "invalid" /\ E[h].content = W,
         NEW g, SameCopies(g, f),
         NEW p, Role(E[h], h, p, g, W, S)
  PROVE  Held(E, p, g, W, S, h)
<1>1. Copying(g) = Copying(f) /\ Invalidating(g) = Invalidating(f)
  BY DEF Copying, Invalidating, SameCopies
<1>2. Holder(E[h], h, g, W)
  BY <1>1 DEF Held, Holder, WriteLocked, SameCounts, SameLists, SameCopies
<1> QED
  BY <1>2 DEF Held, SameCopies, SameCounts, SameOthers

(* The master is told to give up the role.                                 *)
LEMMA CoreGiveUp ==
  ASSUME NEW D \in [Nodes -> DbRecord], NEW o, NEW f, NEW W, NEW S, Core(D, o, f, W, S),
         NEW d \in Nodes, Held(D, o, f, W, S, d), D[d].state = "master", Moving(o),
         NEW u \in DbRecord, u = [D[d] EXCEPT !.state = "copy"],
         NEW g, SameCopies(g, f), g[NoNode] = {}
  PROVE  Core(Set(D, d, u), o, g, W, S)
<1>1. D[d] \in DbRecord
  OBVIOUS
<1>2. u.state = "copy" /\ u.content = D[d].content /\ SameCounts(u, D[d]) /\ SameLists(u, D[d])
  BY <1>1 DEF DbRecord, SameCounts, SameLists
<1>3. Set(D, d, u)[d] = u /\ SameOthers(Set(D, d, u), D, d)
  BY SetFacts DEF SameOthers
<1>4. D[d].content = W
  BY DEF Held, Holder
<1>5. Role(u, d, o, g, W, S)
  BY <1>2 DEF Role
<1>6. Held(Set(D, d, u), o, g, W, S, d)
  <2> DEFINE E == Set(D, d, u)
  <2>1. E[d] = u /\ SameOthers(E, D, d)
    BY <1>3
  <2> HIDE DEF E
  <2>2. /\ SameCounts(E[d], D[d]) /\ SameLists(E[d], D[d]) /\ Role(E[d], d, o, g, W, S)
        /\ E[d].state # "invalid" /\ E[d].content = W
    BY <2>1, <1>2, <1>4, <1>5
  <2>3. Held(E, o, g, W, S, d)
    BY <2>1, <2>2, HeldMove
  <2> QED
    BY <2>3 DEF E
<1>7. Buffers(Set(D, d, u), W, S)
  <2>1. S \subseteq W /\ Buffers(D, W, S)
    BY DEF Core, Buffers
  <2> QED
    BY <1>2, <1>4, <2>1, BuffersSet DEF SameLists
<1> QED
  BY <1>6, <1>7 DEF Core

(* The next master receives the block's contents.                          *)
LEMMA CoreData ==
  ASSUME NEW D \in [Nodes -> DbRecord], NEW o, NEW f, NEW W, NEW S, Core(D, o, f, W, S),
         NEW d \in Nodes, Held(D, o, f, W, S, d), D[d].state = "invalid", o.target = d, Moving(o),
         NEW b, b \subseteq W, S \subseteq b,
         NEW u \in DbRecord, u = [D[d] EXCEPT !.content = b, !.state = "master"],
         NEW g, SameCopies(g, f), Lone(g[NoNode], d, Owner, Plain("is_master"))
  PROVE  Core(Set(D, d, u), o, g, W, S) /\ D[d].hasCopylist /\ D[d].content = NoBuffer
<1>2. W = S
  BY NoWriterMoving
<1>1. D[d] \in DbRecord /\ b = W
  BY <1>2
<1>3. u.state = "master" /\ u.content = W /\ SameCounts(u, D[d]) /\ SameLists(u, D[d])
  BY <1>1 DEF DbRecord, SameCounts, SameLists
<1>4. Set(D, d, u)[d] = u /\ SameOthers(Set(D, d, u), D, d)
  BY SetFacts DEF SameOthers
<1>5. Role(u, d, o, g, W, S)
  BY <1>3 DEF Role
<1>6. Held(Set(D, d, u), o, g, W, S, d)
  <2> DEFINE E == Set(D, d, u)
  <2>1. E[d] = u /\ SameOthers(E, D, d)
    BY <1>4
  <2> HIDE DEF E
  <2>2. /\ SameCounts(E[d], D[d]) /\ SameLists(E[d], D[d]) /\ Role(E[d], d, o, g, W, S)
        /\ E[d].state # "invalid" /\ E[d].content = W
    BY <2>1, <1>3, <1>5
  <2>3. Held(E, o, g, W, S, d)
    BY <2>1, <2>2, HeldMove
  <2> QED
    BY <2>3 DEF E
<1>7. Buffers(Set(D, d, u), W, S)
  <2>1. Buffers(D, W, S)
    BY DEF Core
  <2> QED
    BY <1>2, <1>3, <2>1, BuffersSet DEF SameLists
<1>8. D[d].hasCopylist /\ D[d].content = NoBuffer
  BY DEF Held, Holder, Core, Buffers
<1> QED
  BY <1>6, <1>7, <1>8 DEF Core

(* A node with a copy sends the contents to the next master.               *)
LEMMA CoreRequest ==
  ASSUME NEW D \in [Nodes -> DbRecord], NEW o, NEW f, NEW W, NEW S, Core(D, o, f, W, S),
         NEW i \in Nodes, Held(D, o, f, W, S, i), D[i].state = "invalid", Moving(o), o.target = i,
         Still(f), NEW d \in Nodes, d \in D[i].copylist,
         NEW g, SameCopies(g, f), Lone(g[NoNode], d, i, DataMessage(D[d].content))
  PROVE  Core(D, o, g, W, S) /\ D[d].state = "copy" /\ ~D[d].hasCopylist
<1>2. d # i /\ Peer(D[d], f[d], d, i, D[i].copylist, W, S) /\ f[d] = {}
  BY DEF Held, Holder, Still
<1>3. D[d].state = "copy" /\ ~D[d].hasCopylist
  BY <1>2, NotEmpty DEF Peer, Bare, Situation
<1>4. S \subseteq D[d].content /\ D[d].content \subseteq W
  BY <1>3 DEF Core, Buffers
<1>5. Copying(g) = Copying(f) /\ Invalidating(g) = Invalidating(f) /\ Still(g)
  BY DEF Copying, Invalidating, Still, SameCopies
<1>6. Holder(D[i], i, g, W)
  BY <1>5 DEF Held, Holder, Still
<1>7. Role(D[i], i, o, g, W, S)
  <2>1. \E k \in Nodes, b \in SUBSET W : S \subseteq b /\ Lone(g[NoNode], k, i, DataMessage(b))
    BY <1>4
  <2> QED
    BY <1>5, <2>1 DEF Role
<1>8. Held(D, o, g, W, S, i)
  BY <1>6, <1>7 DEF Held, SameCopies
<1> QED
  BY <1>3, <1>8 DEF Core

(* The owner's record and the role's slot l say that h is the master, or   *)
(* that it is asked to give up the role again.                             *)
Ready(p, h, l) ==
  \/ p.master = h /\ p.target = h /\ p.masterWaitlist = <<>> /\ l = {}
  \/ Moving(p) /\ Lone(l, Owner, h, Plain("release_master_request"))
SameElse(g, f, T) == \A k \in Nodes \ T : g[k] = f[k]

(* The next master's data has arrived or was there: the owner is told.     *)
LEMMA HeldReady ==
  ASSUME NEW D, NEW o, NEW f, NEW W, NEW S, Core(D, o, f, W, S),
         NEW i \in Nodes, Held(D, o, f, W, S, i), D[i].state = "master",
         NEW g, SameCopies(g, f),
         NEW p, Ready(p, i, g[NoNode])
  PROVE  Core(D, p, g, W, S)
<1>2. D[i].content = W
  BY DEF Held, Holder
<1>1. SameOthers(D, D, i) /\ SameCounts(D[i], D[i]) /\ SameLists(D[i], D[i])
  BY DEF SameOthers, SameCounts, SameLists
<1>3. Role(D[i], i, p, g, W, S)
  BY DEF Role, Ready
<1>4. Held(D, p, g, W, S, i)
  BY <1>1, <1>2, <1>3, HeldMove
<1> QED
  BY <1>4 DEF Core

(* A master that has given up the role hands the copylist to the owner.    *)
LEMMA CoreHandOver ==
  ASSUME NEW D \in [Nodes -> DbRecord], NEW o, NEW f, NEW W, NEW S, Core(D, o, f, W, S),
         NEW n \in Nodes, D[n].hasCopylist, D[n].state = "copy", D[n].pendingCopies = 0,
         D[n].pendingInvalidations = 0, ~WriteLocked(D[n]), D[n].copyWaitlist = {},
         NEW u \in DbRecord, u = [D[n] EXCEPT !.hasCopylist = FALSE, !.copylist = {}],
         NEW g, SameCopies(g, f),
         Lone(g[NoNode], n, Owner, Listing("copylist_released", D[n].copylist \cup {n}))
  PROVE  Core(Set(D, n, u), o, g, W, S)
<1> DEFINE E == Set(D, n, u)
           L == D[n].copylist \cup {n}
<1>1. D[n] \in DbRecord
  OBVIOUS
<1>2. /\ ~u.hasCopylist /\ u.copylist = {} /\ u.state = "copy" /\ u.content = D[n].content
      /\ u.pendingCopies = 0 /\ u.pendingInvalidations = 0 /\ SameLists(u, D[n])
  BY <1>1 DEF DbRecord, SameLists
<1>3. E[n] = u /\ SameOthers(E, D, n)
  BY SetFacts DEF SameOthers
<1>4. Held(D, o, f, W, S, n)
  BY HolderIs DEF Bare
<1>5. L \in SUBSET Nodes
  BY <1>1 DEF DbRecord
<1>6. \A k \in Nodes \ {n} : f[k] = {} /\ (k \in L => D[k].state = "copy")
                                   /\ (k \notin L => D[k].state = "invalid")
  BY <1>4, HeldQuiet
<1>7. Still(g)
  BY <1>4, <1>6 DEF Still, SameCopies, Held, Holder
<1>8. Loose(o, g, L)
  <2>1. Moving(o)
    BY <1>4 DEF Held, Role
  <2> QED
    BY <1>7, <2>1 DEF Loose
<1>9. Bare(u)
  BY <1>2, <1>4 DEF Bare, SameLists, Held, Holder, WriteLocked
<1> HIDE DEF E
<1>10. ASSUME NEW k \in Nodes PROVE Peer(E[k], g[k], k, Owner, L, W, S)
  <2>1. CASE k = n
    BY <1>2, <1>3, <1>7, <1>9, <2>1 DEF Peer, Situation, Still
  <2>2. CASE k # n
    <3>1. E[k] = D[k] /\ Bare(D[k])
      BY <1>3, <1>4, <2>2 DEF SameOthers, Held, Peer
    <3> QED
      BY <1>6, <1>7, <2>2, <3>1 DEF Peer, Situation, Still
  <2> QED
    BY <2>1, <2>2
<1>11. Buffers(E, W, S)
  <2>1. Buffers(D, W, S)
    BY DEF Core
  <2>2. S \subseteq u.content /\ u.content \subseteq W
    BY <1>2, <2>1 DEF Buffers
  <2> QED
    BY <1>2, <2>1, <2>2, BuffersSet DEF SameLists, E
<1> QED
  BY <1>5, <1>8, <1>10, <1>11 DEF Core, Unheld, E

(* The owner of a block that is being destroyed tells every node that has  *)
(* a copy to drop it.                                                      *)
LEMMA CoreDestroyed ==
  ASSUME NEW D, NEW o, NEW f, NEW W, NEW S, Core(D, o, f, W, S),
         NEW L \in SUBSET Nodes, Unheld(D, o, f, W, S, L), Still(f),
         NEW p, p.master = Destroyed, p.target = Destroyed, p.masterWaitlist # <<>>,
         NEW g, g[NoNode] = {}, Sent(g, Owner, L, Plain("invalidate_copy")), SameElse(g, f, L)
  PROVE  Core(D, p, g, W, S)
<1>1. Loose(p, g, {})
  BY DEF Loose
<1>2. ASSUME NEW k \in Nodes PROVE Peer(D[k], g[k], k, Owner, {}, W, S)
  <2>1. Peer(D[k], f[k], k, Owner, L, W, S) /\ f[k] = {}
    BY DEF Unheld, Still
  <2>2. Bare(D[k]) /\ (k \in L => D[k].state = "copy") /\ (k \notin L => D[k].state = "invalid")
    BY <2>1, NotEmpty DEF Peer, Situation
  <2> QED
    BY <2>1, <2>2 DEF Peer, Situation, Sent, SameElse
<1> QED
  BY <1>1, <1>2 DEF Core, Unheld

(* The owner passes the copylist to the next master.                       *)
LEMMA CorePassed ==
  ASSUME NEW D, NEW o, NEW f, NEW W, NEW S, Core(D, o, f, W, S),
         NEW L \in SUBSET Nodes, Unheld(D, o, f, W, S, L), Still(f), L # {}, Moving(o), o.target \in Nodes,
         NEW g, SameCopies(g, f), Lone(g[NoNode], Owner, o.target, Listing("take_master", L))
  PROVE  Core(D, o, g, W, S)
<1>1. Loose(o, g, L)
  BY DEF Loose, Still, SameCopies
<1>2. \A k \in Nodes : Peer(D[k], g[k], k, Owner, L, W, S)
  BY DEF Unheld, SameCopies
<1> QED
  BY <1>1, <1>2 DEF Core, Unheld

(* The next master d receives the copylist L: its record v becomes u.  It  *)
(* has a copy itself, or asks one of those who have for the contents.      *)
TakesOver(g, u, v, d, L) ==
  \/ /\ d \in L
     /\ u = [v EXCEPT !.hasCopylist = TRUE, !.copylist = L \ {d}, !.state = "master"]
     /\ Lone(g[NoNode], d, Owner, Plain("is_master"))
  \/ /\ d \notin L
     /\ u = [v EXCEPT !.hasCopylist = TRUE, !.copylist = L]
     /\ \E k \in L : Lone(g[NoNode], d, k, DataRequest(d))

(* Then the role is there, or on the way.                                  *)
LEMMA CoreTaken ==
  ASSUME NEW D \in [Nodes -> DbRecord], NEW o, NEW f, NEW W, NEW S, Core(D, o, f, W, S),
         NEW L \in SUBSET Nodes, Unheld(D, o, f, W, S, L), Still(f), L # {}, Moving(o),
         NEW d \in Nodes, o.target = d, NEW u \in DbRecord,
         NEW g, SameCopies(g, f), TakesOver(g, u, D[d], d, L)
  PROVE  /\ Core(Set(D, d, u), o, g, W, S)
         /\ d \in L => D[d].state = "copy"
         /\ d \notin L => D[d].state = "invalid"
<1> DEFINE E == Set(D, d, u)
<1>1. D[d] \in DbRecord
  OBVIOUS
<1>2. /\ u.hasCopylist /\ u.copylist = L \ {d} /\ u.content = D[d].content
      /\ u.pendingCopies = D[d].pendingCopies /\ u.pendingInvalidations = D[d].pendingInvalidations
      /\ SameLists(u, D[d]) /\ u.state = IF d \in L THEN "master" ELSE D[d].state
  <2>1. CASE d \in L
    <3>1. u = [D[d] EXCEPT !.hasCopylist = TRUE, !.copylist = L \ {d}, !.state = "master"]
      BY <2>1 DEF TakesOver
    <3> QED
      BY <1>1, <2>1, <3>1 DEF DbRecord, SameLists
  <2>2. CASE d \notin L
    <3>1. u = [D[d] EXCEPT !.hasCopylist = TRUE, !.copylist = L] /\ L = L \ {d}
      BY <2>2 DEF TakesOver
    <3> QED
      BY <1>1, <2>2, <3>1 DEF DbRecord, SameLists
  <2> QED
    BY <2>1, <2>2
<1>3. E[d] = u /\ SameOthers(E, D, d)
  BY SetFacts DEF SameOthers
<1>4. \A k \in Nodes : /\ Bare(D[k]) /\ (k \in L => D[k].state = "copy")
                       /\ (k \notin L => D[k].state = "invalid")
  BY NotEmpty DEF Unheld, Peer, Situation, Still
<1>5. Still(g) /\ Copying(g) = {} /\ Invalidating(g) = {}
  BY NoKind DEF Still, SameCopies, Copying, Invalidating
<1>6. W = S
  BY NoWriterMoving
<1>7. d \in L => D[d].content = W
  BY <1>4, <1>6 DEF Core, Buffers
<1>8. Cardinality({}) = 0
  BY FS_EmptySet
<1>9. Holder(u, d, g, W)
  <2>1. ~WriteLocked(u) /\ u.copyWaitlist = {} /\ u.waiters = {}
    BY <1>2, <1>4 DEF Bare, SameLists, WriteLocked
  <2>2. u.pendingCopies = 0 /\ u.pendingInvalidations = 0
    BY <1>2, <1>4 DEF Bare
  <2>3. u.state # "invalid" => u.content = W
    BY <1>2, <1>4, <1>7
  <2> QED
    BY <1>2, <1>5, <1>8, <2>1, <2>2, <2>3 DEF Holder, Still
<1>10. Role(u, d, o, g, W, S)
  <2>1. CASE d \in L
    BY <1>2, <2>1 DEF Role, TakesOver
  <2>2. CASE d \notin L
    <3>1. \E k \in u.copylist : Lone(g[NoNode], d, k, DataRequest(d))
      BY <1>2, <2>2 DEF TakesOver
    <3> QED
      BY <1>2, <1>4, <1>5, <2>2, <3>1 DEF Role
  <2> QED
    BY <2>1, <2>2
<1> HIDE DEF E
<1>11. ASSUME NEW k \in Nodes \ {d} PROVE Peer(E[k], g[k], k, d, u.copylist, W, S)
  <2>1. E[k] = D[k] /\ g[k] = {} /\ (k \in u.copylist <=> k \in L)
    BY <1>2, <1>3, <1>5 DEF SameOthers, Still
  <2> QED
    BY <1>4, <2>1 DEF Peer, Situation
<1>12. Buffers(E, W, S)
  <2>1. Buffers(D, W, S)
    BY DEF Core
  <2>2. /\ u.state = "invalid" => u.content = NoBuffer
        /\ u.state # "invalid" => u.content = W
    BY <1>2, <1>4, <1>7, <2>1 DEF Buffers
  <2> QED
    BY <1>2, <1>6, <2>1, <2>2, BuffersSet DEF SameLists, E
<1>13. Held(E, o, g, W, S, d)
  BY <1>3, <1>9, <1>10, <1>11 DEF Held
<1> QED
  BY <1>4, <1>12, <1>13 DEF Core, E

(* The owner asks the master, which has nobody waiting, to give up the role.*)
LEMMA CoreElevated ==
  ASSUME NEW D, NEW o, NEW f, NEW W, NEW S, Core(D, o, f, W, S), o.masterWaitlist = <<>>,
         NEW g, SameCopies(g, f), Lone(g[NoNode], Owner, o.master, Plain("release_master_request")),
         NEW p, Moving(p)
  PROVE  Core(D, p, g, W, S) /\ o.master \in Nodes /\ D[o.master].state = "master"
<1>1. PICK h \in Nodes : Held(D, o, f, W, S, h)
  BY DEF Core, Unheld, Loose, Moving
<1>2. o.master = h /\ D[h].state = "master"
  BY <1>1 DEF Held, Role, Moving
<1>3. Role(D[h], h, p, g, W, S)
  BY <1>2 DEF Role
<1>4. D[h].content = W
  BY <1>1, <1>2 DEF Held, Holder
<1>5. SameOthers(D, D, h) /\ SameCounts(D[h], D[h]) /\ SameLists(D[h], D[h])
  BY DEF SameOthers, SameCounts, SameLists
<1>6. Held(D, p, g, W, S, h)
  BY <1>1, <1>2, <1>3, <1>4, <1>5, HeldMove
<1> QED
  BY <1>2, <1>6 DEF Core

(* A node is put at the end of one of the owner's waiting lists.           *)
LEMMA CoreQueued ==
  ASSUME NEW D, NEW o, NEW f, NEW W, NEW S, Core(D, o, f, W, S),
         NEW p, p.master = o.master, p.target = o.target,
         o.masterWaitlist = <<>> => p.masterWaitlist = <<>>,
         o.masterWaitlist # <<>> => p.masterWaitlist # <<>> /\ Head(p.masterWaitlist) = Head(o.masterWaitlist)
  PROVE  Core(D, p, f, W, S)
<1>1. Moving(o) => Moving(p)
  BY DEF Moving
<1>2. ASSUME NEW h \in Nodes, Held(D, o, f, W, S, h) PROVE Held(D, p, f, W, S, h)
  BY <1>1, <1>2 DEF Held, Role
<1>3. ASSUME NEW L \in SUBSET Nodes, Unheld(D, o, f, W, S, L) PROVE Unheld(D, p, f, W, S, L)
  BY <1>1, <1>3 DEF Unheld, Loose
<1> QED
  BY <1>2, <1>3 DEF Core

(* While the role is not moving, the owner knows the master.               *)
LEMMA CoreKnown ==
  ASSUME NEW D, NEW o, NEW f, NEW W, NEW S, Core(D, o, f, W, S),
         o.target = o.master, o.target \in Nodes
  PROVE  D[o.master].state = "master"
<1>1. o.master # NoNode /\ o.target # Destroyed
  BY MasterAssumption, StreamAssumption
<1>2. ASSUME NEW h \in Nodes, Held(D, o, f, W, S, h) PROVE D[o.master].state = "master"
  BY <1>1, <1>2 DEF Held, Role, Moving
<1>3. ASSUME NEW L \in SUBSET Nodes, Unheld(D, o, f, W, S, L) PROVE FALSE
  BY <1>1, <1>3 DEF Unheld, Loose, Moving
<1> QED
  BY <1>2, <1>3 DEF Core

-----------------------------------------------------------------------------
(***************************************************************************)
(* Steps of the copies.                                                    *)
(***************************************************************************)
SameButTwo(E, D, h, q) == \A k \in Nodes \ {h, q} : E[k] = D[k]
SameSlots(g, f, q) == \A p \in Slots \ {q} : g[p] = f[p]

(* A change in the slot of one node and in the holder's counts.            *)
LEMMA HeldStep ==
  ASSUME NEW D, NEW o, NEW f, NEW W, NEW S, NEW h \in Nodes, Held(D, o, f, W, S, h),
         NEW q \in Nodes \ {h}, f[q] # {}, NEW g, SameSlots(g, f, q),
         NEW E, SameButTwo(E, D, h, q),
         Peer(E[q], g[q], q, h, E[h].copylist, W, S),
         E[h].state = D[h].state, E[h].content = D[h].content,
         E[h].hasCopylist = D[h].hasCopylist, E[h].copylist = D[h].copylist,
         E[h].pendingCopies = Cardinality(Copying(g)),
         E[h].pendingInvalidations = Cardinality(Invalidating(g)),
         E[h].pendingInvalidations > 0 => E[h].copylist = {},
         ListsFit(E[h], h, W)
  PROVE  Held(E, o, g, W, S, h)
<1>1. g[h] = f[h] /\ g[NoNode] = f[NoNode] /\ \A k \in Nodes \ {q} : g[k] = f[k]
  BY SlotsAre DEF SameSlots
<1>2. Holder(E[h], h, g, W)
  BY <1>1 DEF Held, Holder, ListsFit
<1>3. ~Still(f)
  BY DEF Still
<1>4. Role(E[h], h, o, g, W, S)
  BY <1>1, <1>3 DEF Held, Role
<1>5. ASSUME NEW k \in Nodes \ {h, q} PROVE Peer(E[k], g[k], k, h, E[h].copylist, W, S)
  BY <1>1 DEF Held, SameButTwo
<1> QED
  BY <1>2, <1>4, <1>5 DEF Held

(* The slots of the other nodes are of the same kind.                      *)
LEMMA KindsBut ==
  ASSUME NEW f, NEW g, NEW q \in Nodes, SameSlots(g, f, q)
  PROVE  /\ CopyingOn(g[q]) => Copying(g) = Copying(f) \cup {q}
         /\ ~CopyingOn(g[q]) => Copying(g) = Copying(f) \ {q}
         /\ InvalidatingOn(g[q]) => Invalidating(g) = Invalidating(f) \cup {q}
         /\ ~InvalidatingOn(g[q]) => Invalidating(g) = Invalidating(f) \ {q}
         /\ CopyingOn(f[q]) <=> q \in Copying(f)
         /\ InvalidatingOn(f[q]) <=> q \in Invalidating(f)
  BY SlotsAre DEF SameSlots, Copying, Invalidating

(* A node receives a copy.                                                 *)
LEMMA CoreCopied ==
  ASSUME NEW D \in [Nodes -> DbRecord], NEW o, NEW f, NEW W, NEW S, Core(D, o, f, W, S),
         NEW i \in Nodes, NEW d \in Nodes, Held(D, o, f, W, S, i), d # i, d \in D[i].copylist,
         CopyingOn(f[d]), ~InvalidatingOn(f[d]), D[d].state = "invalid", Bare(D[d]),
         NEW u \in DbRecord, u.state = "copy", u.content \subseteq W, S \subseteq u.content,
         SameCounts(u, D[d]), SameLists(u, D[d]),
         NEW g, SameSlots(g, f, d), Lone(g[d], d, i, Plain("copy_received"))
  PROVE  Core(Set(D, d, u), o, g, W, S) /\ D[d].content = NoBuffer
<1> DEFINE E == Set(D, d, u)
<1>1. D[d] \in DbRecord
  OBVIOUS
<1>3. E[d] = u /\ \A k \in Nodes \ {d} : E[k] = D[k]
  BY SetFacts
<1>5. CopyingOn(g[d]) /\ ~InvalidatingOn(g[d])
  BY ReceivedKind
<1>6. Copying(g) = Copying(f) /\ Invalidating(g) = Invalidating(f)
  <2>1. d \in Copying(f) /\ d \notin Invalidating(f)
    BY DEF Copying, Invalidating
  <2>2. Copying(g) = Copying(f) \cup {d} /\ Invalidating(g) = Invalidating(f) \ {d}
    BY <1>5, KindsBut
  <2> QED
    BY <2>1, <2>2
<1>7. f[d] # {}
  BY SlotKinds
<1>8. Peer(u, g[d], d, i, D[i].copylist, W, S)
  <2>1. Bare(u)
    BY DEF Bare, SameCounts, SameLists, WriteLocked
  <2> QED
    BY <2>1 DEF Peer, Situation
<1> HIDE DEF E
<1>9. Held(E, o, g, W, S, i)
  <2>1. E[i] = D[i] /\ Peer(E[d], g[d], d, i, E[i].copylist, W, S)
    BY <1>3, <1>8
  <2>2. /\ E[i].pendingCopies = Cardinality(Copying(g))
        /\ E[i].pendingInvalidations = Cardinality(Invalidating(g))
        /\ E[i].pendingInvalidations > 0 => E[i].copylist = {}
        /\ ListsFit(E[i], i, W)
    BY <1>6, <2>1 DEF Held, Holder, ListsFit
  <2>3. SameButTwo(E, D, i, d)
    BY <1>3 DEF SameButTwo
  <2> QED
    BY <1>7, <2>1, <2>2, <2>3, HeldStep
<1>10. Buffers(E, W, S)
  <2>1. Buffers(D, W, S)
    BY DEF Core
  <2> QED
    BY <2>1, BuffersSet DEF SameLists, E
<1>11. D[d].content = NoBuffer
  BY DEF Core, Buffers
<1> QED
  BY <1>9, <1>10, <1>11 DEF Core, E

(* The holder learns that a copy has been received.                        *)
LEMMA CoreReceived ==
  ASSUME NEW D \in [Nodes -> DbRecord], NEW o, NEW f, NEW W, NEW S, Core(D, o, f, W, S),
         NEW i \in Nodes, NEW d \in Nodes, Held(D, o, f, W, S, d), i # d, i \in D[d].copylist,
         NEW m, m.type = "copy_received", Lone(f[i], i, d, m), D[i].state = "copy",
         NEW u \in DbRecord, u = [D[d] EXCEPT !.pendingCopies = D[d].pendingCopies - 1],
         NEW g, SameSlots(g, f, i), g[i] = {}
  PROVE  Core(Set(D, d, u), o, g, W, S) /\ D[d].pendingCopies > 0
<1> DEFINE E == Set(D, d, u)
<1>1. D[d] \in DbRecord
  OBVIOUS
<1>2. /\ u.state = D[d].state /\ u.content = D[d].content
      /\ u.hasCopylist = D[d].hasCopylist /\ u.copylist = D[d].copylist
      /\ u.pendingCopies = D[d].pendingCopies - 1
      /\ u.pendingInvalidations = D[d].pendingInvalidations /\ SameLists(u, D[d])
  BY <1>1 DEF DbRecord, SameLists
<1>3. E[d] = u /\ \A k \in Nodes \ {d} : E[k] = D[k]
  BY SetIs DEF Replaced
<1>4. CopyingOn(f[i]) /\ ~InvalidatingOn(f[i])
  <2>1. m.type \notin {"invalidate_copy", "copy_invalidated"}
    OBVIOUS
  <2> QED
    BY <2>1, SlotKinds
<1>5. ~CopyingOn(g[i]) /\ ~InvalidatingOn(g[i])
  BY NoKind
<1>6. /\ Copying(g) = Copying(f) \ {i} /\ i \in Copying(f)
      /\ Invalidating(g) = Invalidating(f) \ {i} /\ i \notin Invalidating(f)
  BY <1>4, <1>5, KindsBut
<1>7. f[i] # {}
  BY NotEmpty
<1>8. Holder(D[d], d, f, W) /\ Peer(D[i], f[i], i, d, D[d].copylist, W, S)
  BY DEF Held
<1>9. Copying(f) \in SUBSET Nodes /\ IsFiniteSet(Copying(f)) /\ Cardinality(Copying(f)) \in Nat
  BY CountsFinite DEF Copying
<1>10. Cardinality(Copying(g)) = Cardinality(Copying(f)) - 1 /\ Cardinality(Copying(f)) > 0
  BY <1>6, <1>9, FS_RemoveElement, CountsFinite
<1>11. Peer(D[i], g[i], i, d, u.copylist, W, S)
  BY <1>2, <1>8 DEF Peer, Situation
<1> HIDE DEF E
<1>12. Held(E, o, g, W, S, d)
  <2>1. E[d] = u /\ Peer(E[i], g[i], i, d, E[d].copylist, W, S)
    BY <1>3, <1>11
  <2>2. /\ E[d].pendingCopies = Cardinality(Copying(g))
        /\ E[d].pendingInvalidations = Cardinality(Invalidating(g))
        /\ E[d].pendingInvalidations > 0 => E[d].copylist = {}
    <3>1. Invalidating(g) = Invalidating(f)
      BY <1>6
    <3> QED
      BY <1>2, <1>8, <1>10, <2>1, <3>1 DEF Holder
  <2>3. ListsFit(E[d], d, W)
    BY <1>2, <1>8, <2>1 DEF Holder, ListsFit, SameLists, WriteLocked
  <2>4. SameButTwo(E, D, d, i)
    BY <1>3 DEF SameButTwo
  <2>5. /\ E[d].state = D[d].state /\ E[d].content = D[d].content
        /\ E[d].hasCopylist = D[d].hasCopylist /\ E[d].copylist = D[d].copylist
    BY <1>2, <2>1
  <2> HIDE DEF E
  <2> QED
    BY <1>7, <2>1, <2>2, <2>3, <2>4, <2>5, HeldStep
<1>13. Buffers(E, W, S)
  <2>1. Buffers(D, W, S)
    BY DEF Core
  <2>2. /\ u.state = "invalid" => u.content = NoBuffer
        /\ u.state # "invalid" => S \subseteq u.content /\ u.content \subseteq W
    BY <1>2, <2>1 DEF Buffers
  <2> QED
    BY <1>2, <2>1, <2>2, BuffersSet DEF SameLists, E
<1>14. D[d].pendingCopies > 0
  BY <1>8, <1>10 DEF Holder
<1> QED
  BY <1>12, <1>13, <1>14 DEF Core, E

(* A node drops its copy.                                                  *)
LEMMA CoreDropped ==
  ASSUME NEW D \in [Nodes -> DbRecord], NEW o, NEW f, NEW W, NEW S, Core(D, o, f, W, S),
         NEW i \in Nodes, NEW d \in Nodes,
         NEW m, m.type = "invalidate_copy", Lone(f[d], i, d, m), D[d].state = "copy", Bare(D[d]),
         \/ Held(D, o, f, W, S, i) /\ d # i /\ d \notin D[i].copylist
         \/ i = Owner /\ Unheld(D, o, f, W, S, {}),
         NEW u \in DbRecord, u = [D[d] EXCEPT !.state = "invalid", !.content = NoBuffer],
         NEW g, SameSlots(g, f, d), Lone(g[d], d, i, Plain("copy_invalidated"))
  PROVE  Core(Set(D, d, u), o, g, W, S)
<1> DEFINE E == Set(D, d, u)
<1>1. D[d] \in DbRecord
  OBVIOUS
<1>2. u.state = "invalid" /\ u.content = NoBuffer /\ SameCounts(u, D[d]) /\ SameLists(u, D[d])
  BY <1>1 DEF DbRecord, SameCounts, SameLists
<1>3. E[d] = u /\ \A k \in Nodes \ {d} : E[k] = D[k]
  BY SetIs DEF Replaced
<1>4. ~CopyingOn(f[d]) /\ InvalidatingOn(f[d])
  <2>1. m.type \notin {"data_copy", "copy_received"}
    OBVIOUS
  <2> QED
    BY <2>1, SlotKinds
<1>5. ~CopyingOn(g[d]) /\ InvalidatingOn(g[d])
  BY InvalidatedKind
<1>6. Copying(g) = Copying(f) /\ Invalidating(g) = Invalidating(f)
  <2>1. Copying(g) = Copying(f) \ {d} /\ d \notin Copying(f)
    BY <1>4, <1>5, KindsBut
  <2>2. Invalidating(g) = Invalidating(f) \cup {d} /\ d \in Invalidating(f)
    BY <1>4, <1>5, KindsBut
  <2> QED
    BY <2>1, <2>2
<1>7. f[d] # {}
  BY NotEmpty
<1>8. Bare(u)
  BY <1>2 DEF Bare, SameCounts, SameLists, WriteLocked
<1> HIDE DEF E
<1>9. ASSUME Held(D, o, f, W, S, i), d # i, d \notin D[i].copylist PROVE Held(E, o, g, W, S, i)
  <2>0. Peer(u, g[d], d, i, D[i].copylist, W, S)
    BY <1>2, <1>8, <1>9 DEF Peer, Situation
  <2>1. E[i] = D[i] /\ Peer(E[d], g[d], d, i, E[i].copylist, W, S)
    BY <1>3, <1>9, <2>0
  <2>2. /\ E[i].pendingCopies = Cardinality(Copying(g))
        /\ E[i].pendingInvalidations = Cardinality(Invalidating(g))
        /\ E[i].pendingInvalidations > 0 => E[i].copylist = {}
        /\ ListsFit(E[i], i, W)
    BY <1>6, <1>9, <2>1 DEF Held, Holder, ListsFit
  <2>3. SameButTwo(E, D, i, d)
    BY <1>3 DEF SameButTwo
  <2> QED
    BY <1>7, <1>9, <2>1, <2>2, <2>3, HeldStep
<1>10. ASSUME i = Owner, Unheld(D, o, f, W, S, {}) PROVE Unheld(E, o, g, W, S, {})
  <2>1. g[NoNode] = f[NoNode] /\ \A k \in Nodes \ {d} : g[k] = f[k]
    BY SlotsAre DEF SameSlots
  <2>2. Loose(o, g, {})
    BY <1>10, <2>1 DEF Unheld, Loose
  <2>3. Peer(u, g[d], d, Owner, {}, W, S)
    BY <1>2, <1>8, <1>10 DEF Peer, Situation
  <2>4. \A k \in Nodes : Peer(E[k], g[k], k, Owner, {}, W, S)
    BY <1>3, <1>10, <2>1, <2>3 DEF Unheld
  <2> QED
    BY <2>2, <2>4 DEF Unheld
<1>11. Buffers(E, W, S)
  <2>1. Buffers(D, W, S)
    BY DEF Core
  <2> QED
    BY <1>2, <2>1, BuffersSet DEF SameLists, E
<1>12. {} \in SUBSET Nodes
  OBVIOUS
<1> QED
  BY <1>9, <1>10, <1>11, <1>12 DEF Core, E

(* The holder's record v counts one copy less to be dropped.               *)
Confirmed(u, v) ==
  /\ u.state = v.state /\ u.content = v.content
  /\ u.hasCopylist = v.hasCopylist /\ u.copylist = v.copylist
  /\ u.pendingCopies = v.pendingCopies /\ u.pendingInvalidations = v.pendingInvalidations - 1
  /\ u.copyWaitlist = v.copyWaitlist /\ u.lockers = v.lockers
  /\ u.waiters = IF v.pendingInvalidations = 1 THEN {} ELSE v.waiters

(* The holder learns that a copy has been dropped; the last one ends the   *)
(* round.                                                                  *)
LEMMA CoreConfirmed ==
  ASSUME NEW D \in [Nodes -> DbRecord], NEW o, NEW f, NEW W, NEW S, Core(D, o, f, W, S),
         NEW i \in Nodes, NEW d \in Nodes, Held(D, o, f, W, S, d), i # d, i \notin D[d].copylist,
         NEW m, m.type = "copy_invalidated", Lone(f[i], i, d, m), D[i].state = "invalid",
         NEW u \in DbRecord, Confirmed(u, D[d]), NEW g, SameSlots(g, f, i), g[i] = {}
  PROVE  Core(Set(D, d, u), o, g, W, S) /\ D[d].pendingInvalidations > 0 /\ D[d].copylist = {}
<1> DEFINE E == Set(D, d, u)
<1>1. D[d] \in DbRecord
  OBVIOUS
<1>2. /\ u.state = D[d].state /\ u.content = D[d].content
      /\ u.hasCopylist = D[d].hasCopylist /\ u.copylist = D[d].copylist
      /\ u.pendingCopies = D[d].pendingCopies
      /\ u.pendingInvalidations = D[d].pendingInvalidations - 1
      /\ u.copyWaitlist = D[d].copyWaitlist /\ u.lockers = D[d].lockers
      /\ u.waiters = IF D[d].pendingInvalidations = 1 THEN {} ELSE D[d].waiters
  BY DEF Confirmed
<1>3. E[d] = u /\ \A k \in Nodes \ {d} : E[k] = D[k]
  BY SetIs DEF Replaced
<1>4. ~CopyingOn(f[i]) /\ InvalidatingOn(f[i])
  <2>1. m.type \notin {"data_copy", "copy_received"}
    OBVIOUS
  <2> QED
    BY <2>1, SlotKinds
<1>5. ~CopyingOn(g[i]) /\ ~InvalidatingOn(g[i])
  BY NoKind
<1>6. /\ Copying(g) = Copying(f) \ {i} /\ i \notin Copying(f)
      /\ Invalidating(g) = Invalidating(f) \ {i} /\ i \in Invalidating(f)
  BY <1>4, <1>5, KindsBut
<1>7. f[i] # {}
  BY NotEmpty
<1>8. Holder(D[d], d, f, W) /\ Peer(D[i], f[i], i, d, D[d].copylist, W, S)
  BY DEF Held
<1>9. Invalidating(f) \in SUBSET Nodes /\ IsFiniteSet(Invalidating(f)) /\ Cardinality(Invalidating(f)) \in Nat
  BY CountsFinite DEF Invalidating
<1>10. Cardinality(Invalidating(g)) = Cardinality(Invalidating(f)) - 1 /\ Cardinality(Invalidating(f)) > 0
  BY <1>6, <1>9, FS_RemoveElement, CountsFinite
<1>11. Peer(D[i], g[i], i, d, u.copylist, W, S)
  BY <1>2, <1>8 DEF Peer, Situation
<1>12. D[d].pendingInvalidations > 0 /\ D[d].copylist = {}
  BY <1>8, <1>10 DEF Holder
<1> HIDE DEF E
<1>13. Held(E, o, g, W, S, d)
  <2>1. E[d] = u /\ Peer(E[i], g[i], i, d, E[d].copylist, W, S)
    BY <1>3, <1>11
  <2>2. /\ E[d].pendingCopies = Cardinality(Copying(g))
        /\ E[d].pendingInvalidations = Cardinality(Invalidating(g))
        /\ E[d].pendingInvalidations > 0 => E[d].copylist = {}
    <3>1. Copying(g) = Copying(f)
      BY <1>6
    <3> QED
      BY <1>2, <1>8, <1>10, <1>12, <2>1, <3>1 DEF Holder
  <2>3. ListsFit(E[d], d, W)
    <3>1. u.waiters # {} => u.pendingInvalidations > 0
      BY <1>1, <1>2, <1>12 DEF DbRecord
    <3>2. u.waiters \subseteq D[d].waiters
      BY <1>2
    <3> QED
      BY <1>2, <1>8, <2>1, <3>1, <3>2 DEF Holder, ListsFit, WriteLocked
  <2>4. SameButTwo(E, D, d, i)
    BY <1>3 DEF SameButTwo
  <2>5. /\ E[d].state = D[d].state /\ E[d].content = D[d].content
        /\ E[d].hasCopylist = D[d].hasCopylist /\ E[d].copylist = D[d].copylist
    BY <1>2, <2>1
  <2> HIDE DEF E
  <2> QED
    BY <1>7, <2>1, <2>2, <2>3, <2>4, <2>5, HeldStep
<1>14. Buffers(E, W, S)
  <2>1. Buffers(D, W, S)
    BY DEF Core
  <2>2. /\ u.state = "invalid" => u.content = NoBuffer
        /\ u.state # "invalid" => S \subseteq u.content /\ u.content \subseteq W
    BY <1>2, <2>1 DEF Buffers
  <2> QED
    BY <1>2, <2>1, <2>2, BuffersSet DEF E
<1> QED
  BY <1>12, <1>13, <1>14 DEF Core, E

(* The owner of a destroyed block learns that a copy has been dropped.     *)
LEMMA CoreGone ==
  ASSUME NEW D, NEW o, NEW f, NEW W, NEW S, Core(D, o, f, W, S), Unheld(D, o, f, W, S, {}),
         NEW i \in Nodes, D[i].state = "invalid", NEW g, SameSlots(g, f, i), g[i] = {}
  PROVE  Core(D, o, g, W, S)
<1>1. g[NoNode] = f[NoNode] /\ \A k \in Nodes \ {i} : g[k] = f[k]
  BY SlotsAre DEF SameSlots
<1>2. Loose(o, g, {})
  BY <1>1 DEF Unheld, Loose
<1>3. Peer(D[i], g[i], i, Owner, {}, W, S)
  BY DEF Unheld, Peer, Situation
<1>4. \A k \in Nodes : Peer(D[k], g[k], k, Owner, {}, W, S)
  BY <1>1, <1>3 DEF Unheld
<1>5. {} \in SUBSET Nodes
  OBVIOUS
<1> QED
  BY <1>2, <1>4, <1>5 DEF Core, Unheld

(* A writer writes.                                                        *)
LEMMA CoreWrite ==
  ASSUME NEW D \in [Nodes -> DbRecord], NEW o, NEW f, NEW W, NEW S, Core(D, o, f, W, S),
         NEW t \in Writers, t \in D[Home[t]].lockers,
         NEW u \in DbRecord, u = [D[Home[t]] EXCEPT !.content = D[Home[t]].content \cup {t}]
  PROVE  Core(Set(D, Home[t], u), o, f, W \cup {t}, S)
<1> DEFINE n == Home[t]
           E == Set(D, n, u)
           V == W \cup {t}
<1>1. n \in Nodes /\ D[n] \in DbRecord
  BY TaskAssumption DEF Writers
<1>2. WriteLocked(D[n])
  BY DEF WriteLocked
<1>3. Held(D, o, f, W, S, n) /\ D[n].state # "invalid" /\ D[n].content = W
  BY <1>1, <1>2, HolderIs DEF Bare, Held, Holder
<1>4. u.content = V /\ u.state = D[n].state /\ SameCounts(u, D[n]) /\ SameLists(u, D[n])
  BY <1>1, <1>3 DEF DbRecord, SameCounts, SameLists
<1> HIDE DEF n
<1>5. E[n] = u /\ \A k \in Nodes \ {n} : E[k] = D[k]
  BY <1>1, SetIs DEF Replaced
<1> HIDE DEF E
<1>6. Holder(u, n, f, V)
  BY <1>3, <1>4 DEF Held, Holder, SameCounts, SameLists
<1>7. Role(u, n, o, f, V, S)
  BY <1>3, <1>4 DEF Held, Role
<1>8. ASSUME NEW k \in Nodes \ {n} PROVE Peer(E[k], f[k], k, n, u.copylist, V, S)
  <2>1. Peer(D[k], f[k], k, n, D[n].copylist, W, S)
    BY <1>3 DEF Held
  <2>2. \A b \in SUBSET W : b \in SUBSET V
    OBVIOUS
  <2> QED
    BY <1>4, <1>5, <2>1, <2>2 DEF Peer, Situation, SameCounts
<1>9. Held(E, o, f, V, S, n)
  BY <1>5, <1>6, <1>7, <1>8 DEF Held
<1>10. Buffers(E, V, S)
  <2>1. Buffers(D, W, S)
    BY DEF Core
  <2>2. ASSUME NEW x \in V \ S PROVE x \in E[Home[x]].lockers
    <3>1. x \in D[Home[x]].lockers
      BY <2>1 DEF Buffers
    <3>2. x \in Writers
      BY <2>1 DEF Buffers
    <3>3. Home[x] \in Nodes
      BY <3>2, TaskAssumption DEF Writers
    <3> QED
      BY <1>4, <1>5, <3>1, <3>3 DEF SameLists
  <2>3. ASSUME NEW k \in Nodes
        PROVE  /\ E[k].state = "invalid" => E[k].content = NoBuffer
               /\ E[k].state # "invalid" => S \subseteq E[k].content /\ E[k].content \subseteq V
    <3>1. CASE k = n
      BY <1>3, <1>4, <1>5, <2>1, <3>1 DEF Buffers
    <3>2. CASE k # n
      BY <1>5, <2>1, <3>2 DEF Buffers
    <3> QED
      BY <3>1, <3>2
  <2> QED
    BY <2>1, <2>2, <2>3 DEF Buffers
<1> QED
  BY <1>1, <1>9, <1>10 DEF Core, E, n

(* The holder counts the finished writer t among those that wait.          *)
LEMMA CoreWaiter ==
  ASSUME NEW D \in [Nodes -> DbRecord], NEW o, NEW f, NEW W, NEW S, Core(D, o, f, W, S),
         NEW n \in Nodes, D[n].hasCopylist,
         D[n].copylist # {} \/ D[n].pendingInvalidations > 0 \/ D[n].pendingCopies > 0,
         NEW t \in D[n].lockers \cap Writers \cap W,
         NEW u \in DbRecord, u = [D[n] EXCEPT !.waiters = D[n].waiters \cup {t}]
  PROVE  Core(Set(D, n, u), o, f, W, S)
<1>1. D[n] \in DbRecord
  OBVIOUS
<1>2. /\ SameBooks(u, D[n]) /\ u.copyWaitlist = D[n].copyWaitlist /\ u.lockers = D[n].lockers
      /\ u.waiters = D[n].waiters \cup {t}
  BY <1>1 DEF DbRecord, SameBooks
<1>3. Held(D, o, f, W, S, n)
  BY HolderIs DEF Bare
<1>4. D[n].pendingCopies > 0 => D[n].copylist # {}
  <2>1. SUFFICES ASSUME D[n].pendingCopies > 0, D[n].copylist = {} PROVE FALSE
    OBVIOUS
  <2>2. Copying(f) = {}
    <3>1. ASSUME NEW k \in Nodes PROVE ~CopyingOn(f[k])
      <4>1. CASE k = n
        BY <1>3, <4>1, NoKind DEF Held, Holder
      <4>2. CASE k # n
        <5>1. Situation(D[k], f[k], k, n, D[n].copylist, W, S)
          BY <1>3, <4>2 DEF Held, Peer
        <5> QED
          BY <2>1, <5>1, SituationKinds
      <4> QED
        BY <4>1, <4>2
    <3> QED
      BY <3>1 DEF Copying
  <2>3. Cardinality(Copying(f)) = 0
    BY <2>2, FS_EmptySet
  <2> QED
    BY <1>3, <2>1, <2>3 DEF Held, Holder
<1>5. D[n].waiters \subseteq D[n].lockers \cap Writers \cap W /\ n \notin D[n].copyWaitlist
  BY <1>3 DEF Held, Holder
<1>6. WriteLocked(D[n])
  BY DEF WriteLocked
<1>7. ListsFit(u, n, W)
  <2>1. u.copylist # {} \/ u.pendingInvalidations > 0
    BY <1>2, <1>4 DEF SameBooks
  <2>2. u.state # "invalid"
    BY <1>2, <1>3, <1>6 DEF Held, Holder, SameBooks
  <2> QED
    BY <1>2, <1>5, <2>1, <2>2 DEF ListsFit
<1>8. \A x \in W \ S : Home[x] = n => x \in u.lockers
  BY <1>2 DEF Core, Buffers
<1> QED
  BY <1>2, <1>7, <1>8, CoreKeep DEF Bare

-----------------------------------------------------------------------------
(***************************************************************************)
(* What a handler has done so far: from the records D and the channels C,  *)
(* with the result r, on the stream s of node n.                           *)
(***************************************************************************)
After(D, C, n, s, r, o, W, S) ==
  /\ r \in NodeResults /\ r.err = "none"
  /\ Sound(Set(D, n, r.s), Post(C, n, s, r.out), o, W, S)

(* A second replacement overrides the first.                               *)
LEMMA SetSet ==
  ASSUME NEW D \in [Nodes -> DbRecord], NEW n \in Nodes, NEW u \in DbRecord, NEW v \in DbRecord
  PROVE  Set(Set(D, n, u), n, v) = Set(D, n, v) /\ Set(D, n, D[n]) = D
  BY DEF Set

(* Nothing sent, nothing under way.                                        *)
LEMMA PostNothing ==
  ASSUME NEW C \in ChanType, NEW n \in Nodes, NEW s \in Streams, NEW u
  PROVE  Post(C, n, s, Result(u).out) = C
<1>1. C \in [Nodes -> [Streams -> [Nodes -> Seq(Messages)]]]
  BY DEF ChanType
<1>2. \A d \in Nodes : C[n][s][d] \in Seq(Messages) /\ Result(u).out[d] = <<>>
  BY <1>1 DEF Result, NoMessages
<1>3. \A w \in Seq(Messages) : w \o <<>> = w
  OBVIOUS
<1>4. [d \in Nodes |-> C[n][s][d] \o Result(u).out[d]] = C[n][s]
  <2>1. \A d \in Nodes : C[n][s][d] \o Result(u).out[d] = C[n][s][d]
    BY <1>2, <1>3
  <2> QED
    BY <1>1, <2>1
<1> HIDE DEF Result
<1>5. Post(C, n, s, Result(u).out) = [C EXCEPT ![n] = [C[n] EXCEPT ![s] = C[n][s]]]
  BY <1>4 DEF Post
<1> QED
  BY <1>1, <1>5

(* Whom a copy is asked of, after a change of one record.                  *)
LEMMA AnsweredKeep ==
  ASSUME NEW D \in [Nodes -> DbRecord], NEW C, NEW C1, Answered(D, C), Asked(C1) \subseteq Asked(C),
         NEW n \in Nodes, NEW u \in DbRecord, n \in Asked(C1) => u.state = "master"
  PROVE  Answered(Set(D, n, u), C1)
<1>1. Replaced(Set(D, n, u), D, n, u)
  BY SetIs
<1>2. Asked(C1) \subseteq Nodes
  BY PlacesAre DEF Asked
<1> QED
  BY <1>1, <1>2 DEF Answered, Replaced

(* A handler changes its record and sends a message.                       *)
LEMMA SendFacts ==
  ASSUME NEW C \in ChanType, NEW n \in Nodes, NEW s \in Streams,
         NEW r \in NodeResults, NEW u \in DbRecord, NEW T \in SUBSET Nodes, NEW m \in Messages
  PROVE  LET C1 == Post(C, n, s, r.out)
             q  == Send([r EXCEPT !.s = u], T, m)
         IN  /\ q \in NodeResults /\ q.s = u /\ q.err = r.err /\ C1 \in ChanType
             /\ Post(C, n, s, q.out) = Add(C1, n, s, T, m)
<1> DEFINE x == [r EXCEPT !.s = u]
<1>1. x \in NodeResults /\ x.s = u
  BY NodeUpdate
<1>2. x.out = r.out /\ x.err = r.err
  BY DEF NodeResults, ResultOf
<1>3. Send(x, T, m) \in NodeResults /\ Send(x, T, m).s = u
  BY <1>1, NodeSend
<1>4. Send(x, T, m).err = x.err
  BY <1>1 DEF Send, NodeResults, ResultOf
<1> HIDE DEF x
<1>5. Post(C, n, s, x.out) \in ChanType /\ Post(C, n, s, Send(x, T, m).out) = Add(Post(C, n, s, x.out), n, s, T, m)
  BY <1>1, PostSend DEF NodeResults
<1> QED
  BY <1>2, <1>3, <1>4, <1>5 DEF x

(* Messages for the move of the master role.                               *)
LEMMA SendRole ==
  ASSUME NEW C \in ChanType, Tidy(C), NEW n \in Nodes, NEW s \in Streams, NEW e \in Nodes,
         NEW m \in Messages, m.type \in RoleTypes, Flight(C)[NoNode] = {},
         m.type = "release_master_request" => n = Owner /\ s = NodeStream
  PROVE  LET C1 == Add(C, n, s, {e}, m) IN
         /\ C1 \in ChanType /\ Tidy(C1) /\ Asked(C1) = Asked(C)
         /\ SameCopies(Flight(C1), Flight(C)) /\ Lone(Flight(C1)[NoNode], n, e, m)
<1> DEFINE T  == {e}
           C1 == Add(C, n, s, T, m)
<1>1. \A d : Slot(n, d, m) = NoNode
  BY DEF Slot
<1>2. m.type # "transfer_data_to_copy"
  BY DEF RoleTypes
<1>0. T = {e}
  OBVIOUS
<1>9. T \in SUBSET Nodes
  OBVIOUS
<1> HIDE DEF T
<1>3. Fits(C, n, s, T, m)
  BY <1>0, <1>1, <1>2 DEF Fits, OwnerAsks
<1>4. /\ C1 \in ChanType /\ Tidy(C1)
      /\ Grown(Flight(C1), Flight(C), n, T, m)
      /\ Asked(C1) = Asked(C) \cup AskedBy(T, m)
  BY <1>9, <1>3, AddFlight
<1> HIDE DEF C1
<1>5. Asked(C1) = Asked(C)
  BY <1>2, <1>4 DEF AskedBy
<1>6. ASSUME NEW k \in Nodes PROVE Flight(C1)[k] = Flight(C)[k]
  <2>1. k \in Slots /\ k # NoNode
    BY SlotsAre
  <2>2. {z \in T : Slot(n, z, m) = k} = {}
    BY <1>1, <2>1
  <2>3. Flight(C1)[k] = Flight(C)[k] \cup {<<n, d, m>> : d \in {z \in T : Slot(n, z, m) = k}}
    BY <1>4, <2>1 DEF Grown, Landed
  <2> QED
    BY <2>2, <2>3
<1>7. Flight(C1)[NoNode] = {<<n, e, m>>}
  <2>1. NoNode \in Slots
    BY SlotsAre
  <2>2. {z \in T : Slot(n, z, m) = NoNode} = {e}
    BY <1>0, <1>1
  <2> QED
    BY <1>4, <2>1, <2>2 DEF Grown, Landed
<1> QED
  BY <1>4, <1>5, <1>6, <1>7 DEF T, C1, SameCopies, Lone

(* Messages to the copies.                                                 *)
LEMMA SendCopies ==
  ASSUME NEW C \in ChanType, Tidy(C), NEW n \in Nodes, NEW s \in Streams, NEW T \in SUBSET Nodes,
         NEW m \in Messages, m.type \in {"data_copy", "invalidate_copy"}, Free(Flight(C), T)
  PROVE  LET C1 == Add(C, n, s, T, m) IN
         /\ C1 \in ChanType /\ Tidy(C1) /\ Asked(C1) = Asked(C)
         /\ SameBut(Flight(C1), Flight(C), T) /\ Sent(Flight(C1), n, T, m)
<1> DEFINE C1 == Add(C, n, s, T, m)
<1>1. \A d : Slot(n, d, m) = d
  BY DEF Slot, RoleTypes
<1>2. m.type # "transfer_data_to_copy" /\ m.type \notin OwnerAsks
  BY DEF OwnerAsks
<1>3. Fits(C, n, s, T, m)
  BY <1>1, <1>2 DEF Fits, Free
<1>4. /\ C1 \in ChanType /\ Tidy(C1)
      /\ Grown(Flight(C1), Flight(C), n, T, m)
      /\ Asked(C1) = Asked(C) \cup AskedBy(T, m)
  BY <1>3, AddFlight
<1> HIDE DEF C1
<1>5. Asked(C1) = Asked(C)
  BY <1>2, <1>4 DEF AskedBy
<1>6. ASSUME NEW q \in Slots \ T PROVE Flight(C1)[q] = Flight(C)[q]
  <2>2. {z \in T : Slot(n, z, m) = q} = {}
    BY <1>1
  <2> QED
    BY <1>4, <2>2 DEF Grown, Landed
<1>7. ASSUME NEW q \in T PROVE Flight(C1)[q] = {<<n, q, m>>}
  <2>1. q \in Slots /\ Flight(C)[q] = {}
    BY SlotsAre DEF Free
  <2>2. {z \in T : Slot(n, z, m) = q} = {q}
    BY <1>1
  <2> QED
    BY <1>4, <2>1, <2>2 DEF Grown, Landed
<1> QED
  BY <1>4, <1>5, <1>6, <1>7 DEF C1, SameBut, Sent, Lone

(* A copy's answer.                                                        *)
LEMMA SendAnswer ==
  ASSUME NEW C \in ChanType, Tidy(C), NEW n \in Nodes, NEW s \in Streams, NEW e \in Nodes,
         NEW m \in Messages, m.type \in {"copy_received", "copy_invalidated"}, Flight(C)[n] = {}
  PROVE  LET C1 == Add(C, n, s, {e}, m) IN
         /\ C1 \in ChanType /\ Tidy(C1) /\ Asked(C1) = Asked(C)
         /\ SameSlots(Flight(C1), Flight(C), n) /\ Lone(Flight(C1)[n], n, e, m)
<1> DEFINE T  == {e}
           C1 == Add(C, n, s, T, m)
<1>1. \A d : Slot(n, d, m) = n
  BY DEF Slot, RoleTypes
<1>2. m.type # "transfer_data_to_copy" /\ m.type \notin OwnerAsks
  BY DEF OwnerAsks
<1>0. T = {e}
  OBVIOUS
<1>9. T \in SUBSET Nodes
  OBVIOUS
<1> HIDE DEF T
<1>3. Fits(C, n, s, T, m)
  BY <1>0, <1>1, <1>2 DEF Fits
<1>4. /\ C1 \in ChanType /\ Tidy(C1)
      /\ Grown(Flight(C1), Flight(C), n, T, m)
      /\ Asked(C1) = Asked(C) \cup AskedBy(T, m)
  BY <1>9, <1>3, AddFlight
<1> HIDE DEF C1
<1>5. Asked(C1) = Asked(C)
  BY <1>2, <1>4 DEF AskedBy
<1>6. ASSUME NEW q \in Slots \ {n} PROVE Flight(C1)[q] = Flight(C)[q]
  <2>2. {z \in T : Slot(n, z, m) = q} = {}
    BY <1>1
  <2>3. Flight(C1)[q] = Flight(C)[q] \cup {<<n, d, m>> : d \in {z \in T : Slot(n, z, m) = q}}
    BY <1>4 DEF Grown, Landed
  <2> QED
    BY <2>2, <2>3
<1>7. Flight(C1)[n] = {<<n, e, m>>}
  <2>1. n \in Slots
    BY SlotsAre
  <2>2. {z \in T : Slot(n, z, m) = n} = {e}
    BY <1>0, <1>1
  <2> QED
    BY <1>4, <2>1, <2>2 DEF Grown, Landed
<1> QED
  BY <1>4, <1>5, <1>6, <1>7 DEF T, C1, SameSlots, Lone

(* A request occupies no slot.                                             *)
LEMMA SendRequest ==
  ASSUME NEW C \in ChanType, Tidy(C), NEW n \in Nodes, NEW s \in Streams, NEW e \in Nodes,
         NEW m \in Messages, m.type \in {"elevation_request", "db_destroy"}
  PROVE  LET C1 == Add(C, n, s, {e}, m) IN
         C1 \in ChanType /\ Tidy(C1) /\ Asked(C1) = Asked(C) /\ Flight(C1) = Flight(C)
<1> DEFINE T  == {e}
           C1 == Add(C, n, s, T, m)
<1>1. \A d : Slot(n, d, m) \notin Slots
  <2>1. Destroyed \notin Slots
    BY MasterAssumption DEF Slots
  <2> QED
    BY <2>1 DEF Slot, RoleTypes
<1>2. m.type # "transfer_data_to_copy" /\ m.type \notin OwnerAsks
  BY DEF OwnerAsks
<1>0. T = {e}
  OBVIOUS
<1>9. T \in SUBSET Nodes
  OBVIOUS
<1> HIDE DEF T
<1>3. Fits(C, n, s, T, m)
  BY <1>0, <1>1, <1>2 DEF Fits
<1>4. /\ C1 \in ChanType /\ Tidy(C1)
      /\ Grown(Flight(C1), Flight(C), n, T, m)
      /\ Asked(C1) = Asked(C) \cup AskedBy(T, m)
  BY <1>9, <1>3, AddFlight
<1> HIDE DEF C1
<1>5. Asked(C1) = Asked(C)
  BY <1>2, <1>4 DEF AskedBy
<1>6. ASSUME NEW q \in Slots PROVE Flight(C1)[q] = Flight(C)[q]
  <2>2. {z \in T : Slot(n, z, m) = q} = {}
    BY <1>1
  <2>3. Flight(C1)[q] = Flight(C)[q] \cup {<<n, d, m>> : d \in {z \in T : Slot(n, z, m) = q}}
    BY <1>4 DEF Grown, Landed
  <2> QED
    BY <2>2, <2>3
<1>7. Flight(C1) = Flight(C)
  <2>1. Flight(C1) = [q \in Slots |-> Flight(C1)[q]] /\ Flight(C) = [q \in Slots |-> Flight(C)[q]]
    BY DEF Flight
  <2> QED
    BY <1>6, <2>1
<1> QED
  BY <1>4, <1>5, <1>7 DEF T, C1

(* The owner asks a master for a copy for another node.                    *)
LEMMA SendAsk ==
  ASSUME NEW C \in ChanType, Tidy(C), NEW e \in Nodes, Flight(C)[NoNode] = {},
         NEW m \in Messages, m.type = "transfer_data_to_copy", m.node # e
  PROVE  LET C1 == Add(C, Owner, NodeStream, {e}, m) IN
         C1 \in ChanType /\ Tidy(C1) /\ Asked(C1) = Asked(C) \cup {e} /\ Flight(C1) = Flight(C)
<1> DEFINE T  == {e}
           C1 == Add(C, Owner, NodeStream, T, m)
<1>0. Owner \in Nodes /\ NodeStream \in Streams /\ T = {e}
  BY OwnerAssumption DEF Streams
<1>9. T \in SUBSET Nodes
  OBVIOUS
<1>10. Owner \in Nodes /\ NodeStream \in Streams
  BY OwnerAssumption DEF Streams
<1> HIDE DEF T
<1>1. \A d : Slot(Owner, d, m) \notin Slots
  <2>1. Destroyed \notin Slots
    BY MasterAssumption DEF Slots
  <2> QED
    BY <2>1 DEF Slot, RoleTypes
<1>3. Fits(C, Owner, NodeStream, T, m)
  BY <1>0, <1>1 DEF Fits, OwnerAsks
<1>4. /\ C1 \in ChanType /\ Tidy(C1)
      /\ Grown(Flight(C1), Flight(C), Owner, T, m)
      /\ Asked(C1) = Asked(C) \cup AskedBy(T, m)
  BY <1>9, <1>10, <1>3, AddFlight
<1> HIDE DEF C1
<1>5. Asked(C1) = Asked(C) \cup {e}
  BY <1>0, <1>4 DEF AskedBy
<1>6. ASSUME NEW q \in Slots PROVE Flight(C1)[q] = Flight(C)[q]
  <2>2. {z \in T : Slot(Owner, z, m) = q} = {}
    BY <1>1
  <2>3. Flight(C1)[q] = Flight(C)[q] \cup {<<Owner, d, m>> : d \in {z \in T : Slot(Owner, z, m) = q}}
    BY <1>4 DEF Grown, Landed
  <2> QED
    BY <2>2, <2>3
<1>7. Flight(C1) = Flight(C)
  <2>1. Flight(C1) = [q \in Slots |-> Flight(C1)[q]] /\ Flight(C) = [q \in Slots |-> Flight(C)[q]]
    BY DEF Flight
  <2> QED
    BY <1>6, <2>1
<1> QED
  BY <1>4, <1>5, <1>7 DEF T, C1

(* A handler that changes its record.                                      *)
LEMMA AfterSets ==
  ASSUME NEW D, NEW C, NEW n \in Nodes, NEW s \in Streams, NEW r \in NodeResults, r.err = "none",
         NEW u \in DbRecord, NEW o, NEW W, NEW S, Sound(Set(D, n, u), Post(C, n, s, r.out), o, W, S)
  PROVE  After(D, C, n, s, [r EXCEPT !.s = u], o, W, S) /\ [r EXCEPT !.s = u].s = u
<1> DEFINE q == [r EXCEPT !.s = u]
<1>1. q \in NodeResults /\ q.s = u
  BY NodeUpdate
<1>2. q.out = r.out /\ q.err = "none"
  BY DEF NodeResults, ResultOf
<1> HIDE DEF q
<1> QED
  BY <1>1, <1>2 DEF After, q

(* A handler that changes its record and sends a message.                  *)
LEMMA AfterSends ==
  ASSUME NEW D, NEW C \in ChanType, NEW n \in Nodes, NEW s \in Streams,
         NEW r \in NodeResults, r.err = "none",
         NEW u \in DbRecord, NEW T \in SUBSET Nodes, NEW m \in Messages, NEW o, NEW W, NEW S,
         Sound(Set(D, n, u), Add(Post(C, n, s, r.out), n, s, T, m), o, W, S)
  PROVE  LET q == Send([r EXCEPT !.s = u], T, m)
         IN  After(D, C, n, s, q, o, W, S) /\ q.s = u
  BY SendFacts DEF After

(* Where no message is under way.                                          *)
LEMMA CoreFree ==
  ASSUME NEW D, NEW o, NEW f, NEW W, NEW S, Core(D, o, f, W, S),
         NEW h \in Nodes, D[h].hasCopylist
  PROVE  /\ Held(D, o, f, W, S, h) /\ D[h].copylist \cap {h} = {}
         /\ D[h].pendingCopies = 0 => Free(f, D[h].copylist \cap Nodes)
         /\ \A T \in SUBSET Nodes :
              D[h].pendingInvalidations = 0 /\ T \cap D[h].copylist = {} /\ h \notin T => Free(f, T)
<1>1. Held(D, o, f, W, S, h)
  BY HolderIs DEF Bare
<1>2. D[h].copylist \cap {h} = {}
  BY <1>1 DEF Held, Holder
<1> QED
  BY <1>1, <1>2, HeldQuiet DEF Free

(* The holder sends copies.                                                *)
LEMMA CoreProvide ==
  ASSUME NEW D \in [Nodes -> DbRecord], NEW o, NEW f, NEW W, NEW S, Core(D, o, f, W, S),
         NEW h \in Nodes, D[h].hasCopylist, D[h].state # "invalid", D[h].pendingInvalidations = 0,
         NEW T \in SUBSET Nodes, T \cap D[h].copylist = {}, h \notin T,
         NEW u \in DbRecord,
         u = [D[h] EXCEPT !.pendingCopies = D[h].pendingCopies + Cardinality(T),
                          !.copylist = D[h].copylist \cup T],
         NEW g, SameBut(g, f, T), Sent(g, h, T, DataCopy(D[h].content))
  PROVE  Core(Set(D, h, u), o, g, W, S)
<1>1. Held(D, o, f, W, S, h)
  BY CoreFree
<1>2. Buffers(D, W, S) /\ S \subseteq W
  BY DEF Core, Buffers
<1>5. Held(Set(D, h, u), o, g, W, S, h)
  BY <1>1, <1>2, HeldCopies
<1>6. u.lockers = D[h].lockers /\ u.state = D[h].state /\ u.content = D[h].content
  BY DEF DbRecord
<1>7. Buffers(Set(D, h, u), W, S)
  <2>1. u.state # "invalid" => S \subseteq u.content /\ u.content \subseteq W
    BY <1>2, <1>6 DEF Buffers
  <2>2. u.state # "invalid" /\ D[h].lockers \subseteq u.lockers
    BY <1>6
  <2> QED
    BY <1>2, <2>1, <2>2, BuffersSet
<1> QED
  BY <1>5, <1>7 DEF Core

(* The holder starts a round.                                              *)
LEMMA CoreRound ==
  ASSUME NEW D \in [Nodes -> DbRecord], NEW o, NEW f, NEW W, NEW S, Core(D, o, f, W, S),
         NEW h \in Nodes, D[h].hasCopylist, D[h].waiters # {},
         D[h].pendingCopies = 0, D[h].pendingInvalidations = 0,
         NEW u \in DbRecord,
         u = [D[h] EXCEPT !.pendingInvalidations = Cardinality(D[h].copylist), !.copylist = {}],
         NEW g, SameBut(g, f, D[h].copylist), Sent(g, h, D[h].copylist, Plain("invalidate_copy"))
  PROVE  Core(Set(D, h, u), o, g, W, S) /\ D[h].copylist # {} /\ u.pendingInvalidations > 0
<1>1. Held(D, o, f, W, S, h)
  BY CoreFree
<1>2. Buffers(D, W, S) /\ S \subseteq W
  BY DEF Core, Buffers
<1>5. Held(Set(D, h, u), o, g, W, S, h) /\ D[h].copylist # {} /\ u.pendingInvalidations > 0
  BY <1>1, <1>2, HeldRound
<1>6. u.lockers = D[h].lockers /\ u.state = D[h].state /\ u.content = D[h].content
  BY DEF DbRecord
<1>7. Buffers(Set(D, h, u), W, S)
  <2>1. u.state # "invalid" => S \subseteq u.content /\ u.content \subseteq W
    BY <1>2, <1>6 DEF Buffers
  <2>2. u.state = "invalid" => u.content = NoBuffer
    BY <1>2, <1>6 DEF Buffers
  <2>3. D[h].lockers \subseteq u.lockers
    BY <1>6
  <2> QED
    BY <1>2, <2>1, <2>2, <2>3, BuffersSet
<1> QED
  BY <1>5, <1>7 DEF Core

(* What a handler's result so far says.                                    *)
LEMMA AfterFacts ==
  ASSUME NEW D \in [Nodes -> DbRecord], NEW C, NEW n \in Nodes, NEW s \in Streams, NEW r,
         NEW o, NEW W, NEW S, After(D, C, n, s, r, o, W, S)
  PROVE  LET E  == Set(D, n, r.s)
             C1 == Post(C, n, s, r.out)
         IN  /\ r \in NodeResults /\ r.err = "none" /\ r.s \in DbRecord
             /\ E \in [Nodes -> DbRecord] /\ E[n] = r.s
             /\ C1 \in ChanType /\ Tidy(C1) /\ Answered(E, C1)
             /\ Core(E, o, Flight(C1), W, S)
             /\ \A u \in DbRecord : Set(E, n, u) = Set(D, n, u)
<1>1. r \in NodeResults /\ r.err = "none" /\ Sound(Set(D, n, r.s), Post(C, n, s, r.out), o, W, S)
  BY DEF After
<1>2. r.s \in DbRecord
  BY <1>1, NodeUpdate
<1>3. Set(D, n, r.s)[n] = r.s
  BY <1>2, SetFacts
<1>4. \A u \in DbRecord : Set(Set(D, n, r.s), n, u) = Set(D, n, u)
  BY <1>2, SetSet
<1> QED
  BY <1>1, <1>2, <1>3, <1>4 DEF Sound

(* The record changes and nothing is sent.                                 *)
LEMMA AfterChange ==
  ASSUME NEW D \in [Nodes -> DbRecord], NEW C, NEW n \in Nodes, NEW s \in Streams, NEW r,
         NEW o, NEW W, NEW S, After(D, C, n, s, r, o, W, S),
         NEW u \in DbRecord, u.state = r.s.state,
         Core(Set(Set(D, n, r.s), n, u), o, Flight(Post(C, n, s, r.out)), W, S)
  PROVE  After(D, C, n, s, [r EXCEPT !.s = u], o, W, S) /\ [r EXCEPT !.s = u].s = u
<1> DEFINE E  == Set(D, n, r.s)
           C1 == Post(C, n, s, r.out)
<1>1. /\ r \in NodeResults /\ r.err = "none" /\ r.s \in DbRecord
      /\ E \in [Nodes -> DbRecord] /\ E[n] = r.s
      /\ C1 \in ChanType /\ Tidy(C1) /\ Answered(E, C1)
      /\ \A v \in DbRecord : Set(E, n, v) = Set(D, n, v)
  BY AfterFacts
<1>2. Core(Set(E, n, u), o, Flight(C1), W, S)
  OBVIOUS
<1> HIDE DEF E, C1
<1>3. n \in Asked(C1) => u.state = "master"
  BY <1>1 DEF Answered
<1>4. Answered(Set(E, n, u), C1)
  BY <1>1, <1>3, AnsweredKeep
<1>5. Set(E, n, u) \in [Nodes -> DbRecord] /\ Set(E, n, u) = Set(D, n, u)
  BY <1>1, SetFacts
<1>6. Sound(Set(D, n, u), C1, o, W, S)
  BY <1>1, <1>2, <1>4, <1>5 DEF Sound
<1> QED
  BY <1>1, <1>6, AfterSets DEF C1

(* A handler changes the lists of its record.                              *)
LEMMA AfterKeep ==
  ASSUME NEW D \in [Nodes -> DbRecord], NEW C, NEW n \in Nodes, NEW s \in Streams, NEW r,
         NEW o, NEW W, NEW S, After(D, C, n, s, r, o, W, S),
         NEW u \in DbRecord, SameBooks(u, r.s), Bare(r.s) => Bare(u),
         r.s.hasCopylist => ListsFit(u, n, W), r.s.lockers \subseteq u.lockers
  PROVE  After(D, C, n, s, [r EXCEPT !.s = u], o, W, S) /\ [r EXCEPT !.s = u].s = u
<1> DEFINE E  == Set(D, n, r.s)
           f == Flight(Post(C, n, s, r.out))
<1>1. E \in [Nodes -> DbRecord] /\ E[n] = r.s /\ Core(E, o, f, W, S)
  BY AfterFacts
<1> HIDE DEF E, f
<1>2. SameBooks(u, E[n]) /\ (Bare(E[n]) => Bare(u)) /\ (E[n].hasCopylist => ListsFit(u, n, W))
  BY <1>1
<1>3. \A t \in W \ S : Home[t] = n => t \in u.lockers
  BY <1>1 DEF Core, Buffers
<1>4. Core(Set(E, n, u), o, f, W, S)
  BY <1>1, <1>2, <1>3, CoreKeep
<1>5. u.state = r.s.state
  BY DEF SameBooks
<1> QED
  BY <1>4, <1>5, AfterChange DEF E, f

(* A handler grants locks.                                                 *)
LEMMA AfterLocks ==
  ASSUME NEW D \in [Nodes -> DbRecord], NEW C, NEW n \in Nodes, NEW s \in Streams, NEW r,
         NEW o, NEW W, NEW S, After(D, C, n, s, r, o, W, S),
         NEW u \in DbRecord, SameBooks(u, r.s),
         u.copyWaitlist = r.s.copyWaitlist, u.waiters = r.s.waiters,
         r.s.lockers \subseteq u.lockers,
         r.s.state # "master" => (u.lockers \ r.s.lockers) \cap Writers = {}
  PROVE  After(D, C, n, s, [r EXCEPT !.s = u], o, W, S) /\ [r EXCEPT !.s = u].s = u
<1> DEFINE E  == Set(D, n, r.s)
           f == Flight(Post(C, n, s, r.out))
<1>1. E \in [Nodes -> DbRecord] /\ E[n] = r.s /\ Core(E, o, f, W, S)
  BY AfterFacts
<1> HIDE DEF E, f
<1>2. /\ SameBooks(u, E[n]) /\ u.copyWaitlist = E[n].copyWaitlist /\ u.waiters = E[n].waiters
      /\ E[n].lockers \subseteq u.lockers
      /\ E[n].state # "master" => (u.lockers \ E[n].lockers) \cap Writers = {}
  BY <1>1
<1>4. Core(Set(E, n, u), o, f, W, S)
  BY <1>1, <1>2, CoreLocks
<1>5. u.state = r.s.state
  BY DEF SameBooks
<1> QED
  BY <1>4, <1>5, AfterChange DEF E, f

(* A node with the record u may send copies to the nodes of T.             *)
CanServe(u, n, T) ==
  /\ u.hasCopylist /\ u.state # "invalid" /\ u.pendingInvalidations = 0
  /\ T \in SUBSET Nodes /\ T \cap u.copylist = {} /\ n \notin T
Served(v, u, T) ==
  v = [u EXCEPT !.pendingCopies = u.pendingCopies + Cardinality(T), !.copylist = u.copylist \cup T]

(* A handler sends copies to the nodes of T.                               *)
LEMMA AfterProvide ==
  ASSUME NEW D \in [Nodes -> DbRecord], NEW C \in ChanType, NEW n \in Nodes, NEW s \in Streams, NEW r,
         NEW o, NEW W, NEW S, After(D, C, n, s, r, o, W, S), NEW T, CanServe(r.s, n, T)
  PROVE  After(D, C, n, s, ProvideCopies(r, T), o, W, S) /\ Served(ProvideCopies(r, T).s, r.s, T)
<1> DEFINE E  == Set(D, n, r.s)
           C1 == Post(C, n, s, r.out)
           u  == [r.s EXCEPT !.pendingCopies = r.s.pendingCopies + Cardinality(T),
                             !.copylist = r.s.copylist \cup T]
           m  == DataCopy(r.s.content)
           C2 == Add(C1, n, s, T, m)
<1>0. /\ r.s.hasCopylist /\ r.s.state # "invalid" /\ r.s.pendingInvalidations = 0
      /\ T \in SUBSET Nodes /\ T \cap r.s.copylist = {} /\ n \notin T
  BY DEF CanServe
<1>1. /\ r \in NodeResults /\ r.err = "none" /\ r.s \in DbRecord
      /\ E \in [Nodes -> DbRecord] /\ E[n] = r.s
      /\ C1 \in ChanType /\ Tidy(C1) /\ Answered(E, C1)
      /\ Core(E, o, Flight(C1), W, S)
      /\ \A v \in DbRecord : Set(E, n, v) = Set(D, n, v)
  BY AfterFacts
<1>2. u \in DbRecord /\ u.state = r.s.state
  <2>1. r.s.pendingCopies + Cardinality(T) \in Nat /\ r.s.copylist \cup T \in SUBSET Nodes
    BY <1>0, <1>1, CountsFinite DEF DbRecord
  <2> QED
    BY <1>1, <2>1 DEF DbRecord
<1>3. m \in Messages /\ m.type = "data_copy"
  BY <1>1, PlainMessages DEF DataCopy, DbRecord
<1>4. ProvideCopies(r, T) = Send([r EXCEPT !.s = u], T, m)
  BY <1>1 DEF ProvideCopies, DataCopy, DbRecord, NodeResults, ResultOf
<1>5. u = [E[n] EXCEPT !.pendingCopies = E[n].pendingCopies + Cardinality(T),
                       !.copylist = E[n].copylist \cup T]
      /\ m = DataCopy(E[n].content)
  BY <1>1
<1> HIDE DEF E, C1, u, m
<1>6. Free(Flight(C1), T)
  BY <1>0, <1>1, CoreFree
<1>7. /\ C2 \in ChanType /\ Tidy(C2) /\ Asked(C2) = Asked(C1)
      /\ SameBut(Flight(C2), Flight(C1), T) /\ Sent(Flight(C2), n, T, m)
  BY <1>0, <1>1, <1>3, <1>6, SendCopies
<1> HIDE DEF C2
<1>8. Core(Set(E, n, u), o, Flight(C2), W, S)
  BY <1>0, <1>1, <1>2, <1>5, <1>7, CoreProvide
<1>9. n \in Asked(C2) => u.state = "master"
  BY <1>1, <1>2, <1>7 DEF Answered
<1>10. Answered(Set(E, n, u), C2)
  BY <1>1, <1>2, <1>7, <1>9, AnsweredKeep
<1>11. Set(E, n, u) = Set(D, n, u) /\ Set(E, n, u) \in [Nodes -> DbRecord]
  BY <1>1, <1>2, SetFacts
<1>12. Sound(Set(D, n, u), C2, o, W, S)
  BY <1>7, <1>8, <1>10, <1>11 DEF Sound
<1>13. Sound(Set(D, n, u), Add(Post(C, n, s, r.out), n, s, T, m), o, W, S)
  BY <1>12 DEF C2, C1
<1>14. LET q == Send([r EXCEPT !.s = u], T, m)
       IN  After(D, C, n, s, q, o, W, S) /\ q.s = u
  <2>1. r \in NodeResults /\ r.err = "none" /\ u \in DbRecord
    BY <1>1, <1>2
  <2> QED
    BY <1>0, <1>3, <1>13, <2>1, AfterSends
<1>15. After(D, C, n, s, ProvideCopies(r, T), o, W, S) /\ ProvideCopies(r, T).s = u
  BY <1>4, <1>14
<1> QED
  BY <1>15 DEF u, Served

(* The record u is that of an idle ex-master.                              *)
CanHandOver(u) ==
  /\ u.hasCopylist /\ u.state = "copy" /\ u.pendingCopies = 0 /\ u.pendingInvalidations = 0
  /\ ~WriteLocked(u) /\ u.copyWaitlist = {}

(* An idle ex-master hands the copylist over.                              *)
LEMMA AfterRelease ==
  ASSUME NEW D \in [Nodes -> DbRecord], NEW C \in ChanType, NEW n \in Nodes, NEW s \in Streams, NEW r,
         NEW o, NEW W, NEW S, After(D, C, n, s, r, o, W, S), CanHandOver(r.s)
  PROVE  After(D, C, n, s, ReleaseCopylist(n, r), o, W, S) /\ ReleaseCopylist(n, r).s.copyWaitlist = {}
<1> DEFINE E  == Set(D, n, r.s)
           C1 == Post(C, n, s, r.out)
           u  == [r.s EXCEPT !.hasCopylist = FALSE, !.copylist = {}]
           m  == Listing("copylist_released", r.s.copylist \cup {n})
           C2 == Add(C1, n, s, {Owner}, m)
<1>0. /\ r.s.hasCopylist /\ r.s.state = "copy" /\ r.s.pendingCopies = 0
      /\ r.s.pendingInvalidations = 0 /\ ~WriteLocked(r.s) /\ r.s.copyWaitlist = {}
  BY DEF CanHandOver
<1>1. /\ r \in NodeResults /\ r.err = "none" /\ r.s \in DbRecord
      /\ E \in [Nodes -> DbRecord] /\ E[n] = r.s
      /\ C1 \in ChanType /\ Tidy(C1) /\ Answered(E, C1)
      /\ Core(E, o, Flight(C1), W, S)
      /\ \A v \in DbRecord : Set(E, n, v) = Set(D, n, v)
  BY AfterFacts
<1>2. u \in DbRecord /\ u.copyWaitlist = {}
  BY <1>0, <1>1 DEF DbRecord
<1>3. m \in Messages /\ m.type \in RoleTypes /\ m.type # "release_master_request"
  <2>1. r.s.copylist \cup {n} \in SUBSET Nodes
    BY <1>1 DEF DbRecord
  <2> QED
    BY <2>1, PlainMessages DEF Listing, RoleTypes
<1>4. ReleaseCopylist(n, r) = Send([r EXCEPT !.s = u], {Owner}, m)
  BY <1>1 DEF ReleaseCopylist, Listing, DbRecord, NodeResults, ResultOf
<1>5. u = [E[n] EXCEPT !.hasCopylist = FALSE, !.copylist = {}]
      /\ m = Listing("copylist_released", E[n].copylist \cup {n})
  BY <1>1
<1> HIDE DEF E, C1, u, m
<1>6. Flight(C1)[NoNode] = {}
  <2>1. Held(E, o, Flight(C1), W, S, n)
    BY <1>0, <1>1, CoreFree
  <2> QED
    BY <1>0, <1>1, <2>1 DEF Held, Role
<1>7. /\ C2 \in ChanType /\ Tidy(C2) /\ Asked(C2) = Asked(C1)
      /\ SameCopies(Flight(C2), Flight(C1)) /\ Lone(Flight(C2)[NoNode], n, Owner, m)
  BY <1>1, <1>3, <1>6, SendRole, OwnerAssumption
<1> HIDE DEF C2
<1>8. Core(Set(E, n, u), o, Flight(C2), W, S)
  BY <1>0, <1>1, <1>2, <1>5, <1>7, CoreHandOver
<1>9. n \notin Asked(C2)
  BY <1>0, <1>1, <1>7 DEF Answered
<1>10. Answered(Set(E, n, u), C2)
  BY <1>1, <1>2, <1>7, <1>9, AnsweredKeep
<1>11. Set(E, n, u) = Set(D, n, u) /\ Set(E, n, u) \in [Nodes -> DbRecord]
  BY <1>1, <1>2, SetFacts
<1>12. Sound(Set(D, n, u), C2, o, W, S)
  BY <1>7, <1>8, <1>10, <1>11 DEF Sound
<1>13. Sound(Set(D, n, u), Add(Post(C, n, s, r.out), n, s, {Owner}, m), o, W, S)
  BY <1>12 DEF C2, C1
<1>14. LET q == Send([r EXCEPT !.s = u], {Owner}, m)
       IN  After(D, C, n, s, q, o, W, S) /\ q.s = u
  <2>1. r \in NodeResults /\ r.err = "none" /\ u \in DbRecord /\ {Owner} \in SUBSET Nodes
    BY <1>1, <1>2, OwnerAssumption
  <2> QED
    BY <1>3, <1>13, <2>1, AfterSends
<1>15. After(D, C, n, s, ReleaseCopylist(n, r), o, W, S) /\ ReleaseCopylist(n, r).s = u
  BY <1>4, <1>14
<1> QED
  BY <1>2, <1>15

(* A master with finished writers starts a round.                          *)
LEMMA AfterRound ==
  ASSUME NEW D \in [Nodes -> DbRecord], NEW C \in ChanType, NEW n \in Nodes, NEW s \in Streams, NEW r,
         NEW o, NEW W, NEW S, After(D, C, n, s, r, o, W, S)
  PROVE  LET q == TryStartRound(r)
         IN  /\ After(D, C, n, s, q, o, W, S)
             /\ q.s.copyWaitlist = r.s.copyWaitlist /\ q.s.busy = r.s.busy
<1> DEFINE E  == Set(D, n, r.s)
           C1 == Post(C, n, s, r.out)
           T  == r.s.copylist
           u  == [r.s EXCEPT !.pendingInvalidations = Cardinality(T), !.copylist = {}]
           m  == Plain("invalidate_copy")
           C2 == Add(C1, n, s, T, m)
<1>1. /\ r \in NodeResults /\ r.err = "none" /\ r.s \in DbRecord
      /\ E \in [Nodes -> DbRecord] /\ E[n] = r.s
      /\ C1 \in ChanType /\ Tidy(C1) /\ Answered(E, C1)
      /\ Core(E, o, Flight(C1), W, S)
      /\ \A v \in DbRecord : Set(E, n, v) = Set(D, n, v)
  BY AfterFacts
<1>2. CASE r.s.waiters = {} \/ r.s.pendingInvalidations > 0 \/ r.s.pendingCopies > 0
  BY <1>2 DEF TryStartRound
<1>3. CASE ~(r.s.waiters = {} \/ r.s.pendingInvalidations > 0 \/ r.s.pendingCopies > 0)
  <2>1. r.s.waiters # {} /\ r.s.pendingInvalidations = 0 /\ r.s.pendingCopies = 0 /\ T \in SUBSET Nodes
    BY <1>1, <1>3 DEF DbRecord
  <2>2. /\ u \in DbRecord /\ u.state = r.s.state
        /\ u.copyWaitlist = r.s.copyWaitlist /\ u.busy = r.s.busy
    <3>1. Cardinality(T) \in Nat
      BY <2>1, CountsFinite
    <3> QED
      BY <1>1, <3>1 DEF DbRecord
  <2>3. m \in Messages /\ m.type = "invalidate_copy"
    BY PlainMessages DEF Plain
  <2>4. E[n].hasCopylist
    <3>1. ~Bare(E[n])
      BY <1>1, <2>1 DEF Bare
    <3>2. Held(E, o, Flight(C1), W, S, n)
      BY <1>1, <3>1, HolderIs
    <3> QED
      BY <3>2 DEF Held, Holder
  <2>5. u = [E[n] EXCEPT !.pendingInvalidations = Cardinality(E[n].copylist), !.copylist = {}]
        /\ T = E[n].copylist
    BY <1>1
  <2>6. TryStartRound(r) =
          Send([Expect(r, T # {}, "round_without_copies") EXCEPT
                  !.s.pendingInvalidations = Cardinality(T), !.s.copylist = {}], T, m)
    BY <1>3 DEF TryStartRound, Plain
  <2>7. T # {} => TryStartRound(r) = Send([r EXCEPT !.s = u], T, m)
    <3>1. ASSUME T # {} PROVE Expect(r, T # {}, "round_without_copies") = r
      BY <3>1 DEF Expect
    <3>2. [r EXCEPT !.s.pendingInvalidations = Cardinality(T), !.s.copylist = {}] = [r EXCEPT !.s = u]
      BY <1>1 DEF DbRecord, NodeResults, ResultOf
    <3> HIDE DEF u
    <3> QED
      BY <2>6, <3>1, <3>2
  <2> HIDE DEF E, C1, u, m, T
  <2>8. Free(Flight(C1), T)
    <3>1. Free(Flight(C1), E[n].copylist \cap Nodes)
      BY <1>1, <2>1, <2>4, CoreFree
    <3>2. E[n].copylist \cap Nodes = T
      BY <2>1, <2>5
    <3> QED
      BY <3>1, <3>2
  <2>9. /\ C2 \in ChanType /\ Tidy(C2) /\ Asked(C2) = Asked(C1)
        /\ SameBut(Flight(C2), Flight(C1), T) /\ Sent(Flight(C2), n, T, m)
    BY <1>1, <2>1, <2>3, <2>8, SendCopies
  <2> HIDE DEF C2
  <2>10. /\ E[n].waiters # {} /\ E[n].pendingCopies = 0 /\ E[n].pendingInvalidations = 0
         /\ SameBut(Flight(C2), Flight(C1), E[n].copylist)
         /\ Sent(Flight(C2), n, E[n].copylist, Plain("invalidate_copy"))
    BY <1>1, <2>1, <2>5, <2>9 DEF m
  <2>11. Core(Set(E, n, u), o, Flight(C2), W, S) /\ T # {}
    BY <1>1, <2>2, <2>4, <2>5, <2>10, CoreRound
  <2>12. n \in Asked(C2) => u.state = "master"
    BY <1>1, <2>2, <2>9 DEF Answered
  <2>13. Answered(Set(E, n, u), C2)
    BY <1>1, <2>2, <2>9, <2>12, AnsweredKeep
  <2>14. Set(E, n, u) = Set(D, n, u) /\ Set(E, n, u) \in [Nodes -> DbRecord]
    BY <1>1, <2>2, SetFacts
  <2>15. Sound(Set(D, n, u), C2, o, W, S)
    BY <2>9, <2>11, <2>13, <2>14 DEF Sound
  <2>16. Sound(Set(D, n, u), Add(Post(C, n, s, r.out), n, s, T, m), o, W, S)
    BY <2>15 DEF C2, C1
  <2>17. LET q == Send([r EXCEPT !.s = u], T, m)
         IN  After(D, C, n, s, q, o, W, S) /\ q.s = u
    <3>1. r \in NodeResults /\ r.err = "none" /\ u \in DbRecord
      BY <1>1, <2>2
    <3> QED
      BY <2>1, <2>3, <2>16, <3>1, AfterSends
  <2> QED
    BY <2>2, <2>7, <2>11, <2>17
<1> QED
  BY <1>2, <1>3

Idle(u) == ~WriteLocked(u) /\ u.pendingInvalidations = 0
(* Copy requests are put off while the node is busy.                       *)
PutOff(u) == u.copyWaitlist # {} => u.busy

(* What Core says of the lists of a node.                                  *)
LEMMA CoreLists ==
  ASSUME NEW D, NEW o, NEW f, NEW W, NEW S, Core(D, o, f, W, S), NEW n \in Nodes
  PROVE  /\ ~D[n].hasCopylist => Bare(D[n])
         /\ D[n].hasCopylist => ListsFit(D[n], n, W) /\ n \notin D[n].copylist
<1>1. ASSUME Bare(D[n]) PROVE ~D[n].hasCopylist
  BY <1>1 DEF Bare
<1>2. ASSUME ~Bare(D[n]) PROVE D[n].hasCopylist /\ ListsFit(D[n], n, W) /\ n \notin D[n].copylist
  BY <1>2, HolderIs DEF Held, Holder, ListsFit
<1> QED
  BY <1>1, <1>2

(* A master that becomes idle serves the copy requests it has put off.     *)
LEMMA AfterServe ==
  ASSUME NEW D \in [Nodes -> DbRecord], NEW C \in ChanType, NEW n \in Nodes, NEW s \in Streams, NEW r,
         NEW o, NEW W, NEW S, After(D, C, n, s, r, o, W, S),
         r.s.hasCopylist, r.s.state # "invalid", Idle(r.s)
  PROVE  LET q == ProvideCopies([r EXCEPT !.s.copyWaitlist = {}], r.s.copyWaitlist \ r.s.copylist)
         IN  /\ After(D, C, n, s, q, o, W, S)
             /\ q.s.hasCopylist /\ q.s.state = r.s.state /\ Idle(q.s) /\ q.s.copyWaitlist = {}
<1> DEFINE u == [r.s EXCEPT !.copyWaitlist = {}]
           r1 == [r EXCEPT !.s = u]
           T == r.s.copyWaitlist \ r.s.copylist
           q == ProvideCopies(r1, T)
<1>1. r \in NodeResults /\ r.s \in DbRecord
  BY AfterFacts
<1>2. Set(D, n, r.s)[n] = r.s /\ Core(Set(D, n, r.s), o, Flight(Post(C, n, s, r.out)), W, S)
  BY AfterFacts
<1>3. ListsFit(r.s, n, W) /\ n \notin r.s.copylist
  BY <1>2, CoreLists
<1>4. u \in DbRecord /\ SameBooks(u, r.s) /\ u.lockers = r.s.lockers /\ u.copyWaitlist = {}
      /\ u.waiters = r.s.waiters
  BY <1>1 DEF DbRecord, SameBooks
<1>5. [r EXCEPT !.s.copyWaitlist = {}] = r1
  BY <1>1 DEF NodeResults, ResultOf, DbRecord
<1> HIDE DEF u, r1
<1>6. ListsFit(u, n, W)
  BY <1>3, <1>4 DEF ListsFit, SameBooks, WriteLocked
<1>7. Bare(r.s) => Bare(u)
  BY DEF Bare
<1>8. After(D, C, n, s, r1, o, W, S) /\ r1.s = u
  <2>1. r.s.lockers \subseteq u.lockers /\ (r.s.hasCopylist => ListsFit(u, n, W))
    BY <1>4, <1>6
  <2> QED
    BY <1>4, <1>7, <2>1, AfterKeep DEF r1
<1>9. T \in SUBSET Nodes /\ T \cap u.copylist = {} /\ n \notin T
  <2>1. n \notin r.s.copyWaitlist /\ u.copylist = r.s.copylist
    BY <1>3, <1>4 DEF ListsFit, SameBooks
  <2> QED
    BY <1>1, <2>1 DEF DbRecord
<1>10. u.hasCopylist /\ u.state # "invalid" /\ u.pendingInvalidations = 0 /\ u.state = r.s.state
  BY <1>4 DEF SameBooks, Idle
<1> HIDE DEF T
<1>11. /\ After(D, C, n, s, q, o, W, S)
       /\ q.s = [u EXCEPT !.pendingCopies = u.pendingCopies + Cardinality(T), !.copylist = u.copylist \cup T]
  <2>1. After(D, C, n, s, r1, o, W, S) /\ CanServe(r1.s, n, T)
    BY <1>8, <1>9, <1>10 DEF CanServe
  <2>2. After(D, C, n, s, q, o, W, S) /\ Served(q.s, r1.s, T)
    BY <2>1, AfterProvide
  <2> QED
    BY <1>8, <2>2 DEF Served
<1>12. q.s.hasCopylist /\ q.s.state = r.s.state /\ Idle(q.s) /\ q.s.copyWaitlist = {}
  BY <1>4, <1>10, <1>11 DEF DbRecord, Idle, WriteLocked
<1> HIDE DEF q
<1> QED
  BY <1>5, <1>11, <1>12 DEF q, T

(* The flag of a master that waits for writers or invalidations.           *)
Mark(r, b) == [r EXCEPT !.s.busy = b]

(* It is set and cleared.                                                  *)
LEMMA AfterBusy ==
  ASSUME NEW D \in [Nodes -> DbRecord], NEW C \in ChanType, NEW n \in Nodes, NEW s \in Streams, NEW r,
         NEW o, NEW W, NEW S, After(D, C, n, s, r, o, W, S), NEW b \in BOOLEAN
  PROVE  LET q == Mark(r, b)
         IN  /\ After(D, C, n, s, q, o, W, S)
             /\ q.s.copyWaitlist = r.s.copyWaitlist /\ q.s.busy = b
<1> DEFINE u == [r.s EXCEPT !.busy = b]
           q == [r EXCEPT !.s = u]
<1>1. r \in NodeResults /\ r.s \in DbRecord
  BY AfterFacts
<1>2. Set(D, n, r.s)[n] = r.s /\ Core(Set(D, n, r.s), o, Flight(Post(C, n, s, r.out)), W, S)
  BY AfterFacts
<1>3. r.s.hasCopylist => ListsFit(r.s, n, W)
  BY <1>2, CoreLists
<1>4. u \in DbRecord /\ SameBooks(u, r.s) /\ u.lockers = r.s.lockers
      /\ u.waiters = r.s.waiters /\ u.copyWaitlist = r.s.copyWaitlist /\ u.busy = b
  BY <1>1 DEF DbRecord, SameBooks
<1>5. Mark(r, b) = q
  BY <1>1 DEF Mark, NodeResults, ResultOf, DbRecord
<1> HIDE DEF u
<1>6. r.s.hasCopylist => ListsFit(u, n, W)
  BY <1>3, <1>4 DEF ListsFit, SameBooks, WriteLocked
<1>7. (Bare(r.s) => Bare(u)) /\ r.s.lockers \subseteq u.lockers
  BY <1>4 DEF Bare, SameBooks, WriteLocked
<1>8. After(D, C, n, s, q, o, W, S) /\ q.s = u
  BY <1>4, <1>6, <1>7, AfterKeep
<1> HIDE DEF q
<1> QED
  BY <1>4, <1>5, <1>8

(* The master's state is brought up to date.                               *)
LEMMA AfterUpdate ==
  ASSUME NEW D \in [Nodes -> DbRecord], NEW C \in ChanType, NEW n \in Nodes, NEW s \in Streams, NEW r,
         NEW o, NEW W, NEW S, After(D, C, n, s, r, o, W, S), PutOff(r.s) \/ ~Idle(r.s)
  PROVE  After(D, C, n, s, UpdateMasterState(n, r), o, W, S) /\ PutOff(UpdateMasterState(n, r).s)
<1> DEFINE idle == ~WriteLocked(r.s) /\ r.s.pendingInvalidations = 0
           a    == ProvideCopies([r EXCEPT !.s.copyWaitlist = {}], r.s.copyWaitlist \ r.s.copylist)
           r1   == IF idle /\ r.s.busy THEN a ELSE r
           b    == ReleaseCopylist(n, Expect(r1, CopylistCanBeReleased(r1.s), "copylist_not_releasable"))
           r2   == IF idle /\ r.s.state = "copy" /\ r1.s.pendingCopies = 0 THEN b ELSE r1
           q    == [r2 EXCEPT !.s.busy = ~idle]
<1>1. UpdateMasterState(n, r) =
        IF r.s.state = "master" \/ (r.s.state = "copy" /\ r.s.hasCopylist) THEN q ELSE r
  BY DEF UpdateMasterState
<1>2. Set(D, n, r.s)[n] = r.s /\ Core(Set(D, n, r.s), o, Flight(Post(C, n, s, r.out)), W, S)
      /\ r.s \in DbRecord
  BY AfterFacts
<1>3. /\ ~r.s.hasCopylist => Bare(r.s)
      /\ r.s.hasCopylist => ListsFit(r.s, n, W)
  BY <1>2, CoreLists
<1>4. CASE ~(r.s.state = "master" \/ (r.s.state = "copy" /\ r.s.hasCopylist))
  <2>1. r.s.copyWaitlist = {}
    <3>1. CASE ~r.s.hasCopylist
      BY <1>3, <3>1 DEF Bare
    <3>2. CASE r.s.hasCopylist
      BY <1>2, <1>3, <1>4, <3>2 DEF ListsFit, DbRecord
    <3> QED
      BY <3>1, <3>2
  <2>2. UpdateMasterState(n, r) = r
    BY <1>1, <1>4
  <2> QED
    BY <2>1, <2>2 DEF PutOff
<1>5. CASE r.s.state = "master" \/ (r.s.state = "copy" /\ r.s.hasCopylist)
  <2>1. r.s.hasCopylist /\ r.s.state # "invalid"
    BY <1>3, <1>5 DEF Bare
  <2>2. idle <=> Idle(r.s)
    BY DEF Idle
  <2>3. UpdateMasterState(n, r) = q
    BY <1>1, <1>5
  <2>4. /\ After(D, C, n, s, r1, o, W, S) /\ r1.s.hasCopylist /\ r1.s.state = r.s.state
        /\ idle => Idle(r1.s) /\ r1.s.copyWaitlist = {}
    <3>1. CASE idle /\ r.s.busy
      <4>1. /\ After(D, C, n, s, a, o, W, S)
            /\ a.s.hasCopylist /\ a.s.state = r.s.state /\ Idle(a.s) /\ a.s.copyWaitlist = {}
        <5> HIDE DEF idle
        <5> QED
          BY <2>1, <2>2, <3>1, AfterServe
      <4>2. r1 = a
        BY <3>1
      <4> HIDE DEF idle, r1, a
      <4> QED
        BY <4>1, <4>2
    <3>2. CASE ~(idle /\ r.s.busy)
      <4>1. r1 = r
        BY <3>2
      <4>2. idle => r.s.copyWaitlist = {}
        BY <2>2, <3>2 DEF PutOff
      <4> HIDE DEF idle, r1
      <4> QED
        BY <2>1, <2>2, <4>1, <4>2
    <3> QED
      BY <3>1, <3>2
  <2> HIDE DEF r1
  <2>5. /\ After(D, C, n, s, r2, o, W, S)
        /\ idle => r2.s.copyWaitlist = {}
    <3>1. CASE idle /\ r.s.state = "copy" /\ r1.s.pendingCopies = 0
      <4>1. Expect(r1, CopylistCanBeReleased(r1.s), "copylist_not_releasable") = r1
        <5>1. CopylistCanBeReleased(r1.s)
          BY <2>4, <3>1 DEF CopylistCanBeReleased, Idle
        <5> QED
          BY <5>1 DEF Expect
      <4>2. r2 = ReleaseCopylist(n, r1)
        BY <3>1, <4>1
      <4>3. After(D, C, n, s, r1, o, W, S) /\ CanHandOver(r1.s)
        BY <2>4, <3>1 DEF Idle, CanHandOver
      <4> HIDE DEF idle, r2, a, b, q
      <4>4. After(D, C, n, s, ReleaseCopylist(n, r1), o, W, S) /\ ReleaseCopylist(n, r1).s.copyWaitlist = {}
        BY <4>3, AfterRelease
      <4> QED
        BY <4>2, <4>4
    <3>2. CASE ~(idle /\ r.s.state = "copy" /\ r1.s.pendingCopies = 0)
      <4>1. r2 = r1
        BY <3>2
      <4> HIDE DEF r2
      <4> QED
        BY <2>4, <4>1
    <3> QED
      BY <3>1, <3>2
  <2> HIDE DEF r2
  <2>6. /\ After(D, C, n, s, q, o, W, S)
        /\ q.s.copyWaitlist = r2.s.copyWaitlist /\ q.s.busy = ~idle
    <3> DEFINE yes == Mark(r2, TRUE)
               no  == Mark(r2, FALSE)
    <3>1. After(D, C, n, s, r2, o, W, S)
      BY <2>5
    <3>2. (idle => q = no) /\ (~idle => q = yes)
      BY DEF Mark
    <3> HIDE DEF idle, a, b, q
    <3>3. /\ After(D, C, n, s, yes, o, W, S) /\ After(D, C, n, s, no, o, W, S)
          /\ yes.s.copyWaitlist = r2.s.copyWaitlist /\ yes.s.busy = TRUE
          /\ no.s.copyWaitlist = r2.s.copyWaitlist /\ no.s.busy = FALSE
      <4>1. ASSUME NEW x \in BOOLEAN
            PROVE  LET p == Mark(r2, x)
                   IN  /\ After(D, C, n, s, p, o, W, S)
                       /\ p.s.copyWaitlist = r2.s.copyWaitlist /\ p.s.busy = x
        BY <3>1, AfterBusy
      <4>2. TRUE \in BOOLEAN /\ FALSE \in BOOLEAN
        OBVIOUS
      <4> QED
        BY <4>1, <4>2
    <3> HIDE DEF yes, no
    <3> QED
      BY <3>2, <3>3
  <2>7. PutOff(q.s)
    BY <2>5, <2>6 DEF PutOff
  <2> HIDE DEF q
  <2> QED
    BY <2>3, <2>6, <2>7
<1> QED
  BY <1>4, <1>5

(* What granting locks leaves alone in a record.                           *)
Keeps(u, v)  == u.copyWaitlist = v.copyWaitlist /\ u.busy = v.busy

(* The waiters at the places I get the lock.                               *)
LEMMA AfterGrants ==
  ASSUME NEW D \in [Nodes -> DbRecord], NEW C \in ChanType, NEW n \in Nodes, NEW s \in Streams, NEW r,
         NEW o, NEW W, NEW S, After(D, C, n, s, r, o, W, S),
         NEW I \in SUBSET (1..Len(r.s.waitlist)), LetIn(r.s, I)
  PROVE  After(D, C, n, s, Grant(r, I), o, W, S) /\ Keeps(Grant(r, I).s, r.s)
<1> DEFINE G == {r.s.waitlist[i] : i \in I}
           w == Without(r.s.waitlist, G)
           u == [r.s EXCEPT !.lockers = r.s.lockers \cup G, !.waitlist = w]
           q == [r EXCEPT !.s = u]
<1>1. r \in NodeResults /\ r.s \in DbRecord
  BY AfterFacts
<1>2. w \in Seq(Tasks)
  BY <1>1, QueueFacts
<1>3. G \subseteq Tasks
  <2>1. G \subseteq Queued(r.s)
    BY DEF Queued
  <2> QED
    BY <2>1, <1>1, QueueFacts
<1>4. Grant(r, I) = q
  BY <1>1 DEF Grant, NodeResults, ResultOf, DbRecord
<1>5. r.s.state # "master" => G \cap Writers = {}
  BY DEF LetIn, Suffices
<1> HIDE DEF G, w
<1>6. /\ u \in DbRecord /\ u.lockers = r.s.lockers \cup G /\ SameBooks(u, r.s)
      /\ u.copyWaitlist = r.s.copyWaitlist /\ u.waiters = r.s.waiters /\ u.busy = r.s.busy
  BY <1>1, <1>2, <1>3 DEF DbRecord, SameBooks
<1> HIDE DEF u
<1>7. /\ r.s.lockers \subseteq u.lockers
      /\ r.s.state # "master" => (u.lockers \ r.s.lockers) \cap Writers = {}
  BY <1>5, <1>6
<1>8. After(D, C, n, s, q, o, W, S) /\ q.s = u
  BY <1>6, <1>7, AfterLocks
<1> HIDE DEF q
<1> QED
  BY <1>4, <1>6, <1>8 DEF Keeps

(* The queue of a node changes.                                            *)
LEMMA AfterQueue ==
  ASSUME NEW D \in [Nodes -> DbRecord], NEW C \in ChanType, NEW n \in Nodes, NEW s \in Streams, NEW r,
         NEW o, NEW W, NEW S, After(D, C, n, s, r, o, W, S), NEW w \in Seq(Tasks)
  PROVE  LET q == [r EXCEPT !.s.waitlist = w]
         IN  After(D, C, n, s, q, o, W, S) /\ Keeps(q.s, r.s)
<1> DEFINE u == [r.s EXCEPT !.waitlist = w]
           q == [r EXCEPT !.s = u]
<1>1. r \in NodeResults /\ r.s \in DbRecord
  BY AfterFacts
<1>4. [r EXCEPT !.s.waitlist = w] = q
  BY <1>1 DEF NodeResults, ResultOf, DbRecord
<1>6. /\ u \in DbRecord /\ u.lockers = r.s.lockers /\ SameBooks(u, r.s)
      /\ u.copyWaitlist = r.s.copyWaitlist /\ u.waiters = r.s.waiters /\ u.busy = r.s.busy
  BY <1>1 DEF DbRecord, SameBooks
<1> HIDE DEF u
<1>7. /\ r.s.lockers \subseteq u.lockers
      /\ r.s.state # "master" => (u.lockers \ r.s.lockers) \cap Writers = {}
  BY <1>6
<1>8. After(D, C, n, s, q, o, W, S) /\ q.s = u
  BY <1>6, <1>7, AfterLocks
<1> HIDE DEF q
<1> QED
  BY <1>4, <1>6, <1>8 DEF Keeps

AskOwner(r, m) == Send(r, {Owner}, m)
(* A handler sends a request to the owner.                                 *)
LEMMA AfterAsk ==
  ASSUME NEW D \in [Nodes -> DbRecord], NEW C \in ChanType, NEW n \in Nodes, NEW s \in Streams, NEW r,
         NEW o, NEW W, NEW S, After(D, C, n, s, r, o, W, S),
         NEW m \in Messages, m.type \in {"elevation_request", "db_destroy"}
  PROVE  After(D, C, n, s, AskOwner(r, m), o, W, S) /\ AskOwner(r, m).s = r.s
<1> DEFINE E  == Set(D, n, r.s)
           C1 == Post(C, n, s, r.out)
           C2 == Add(C1, n, s, {Owner}, m)
<1>1. /\ r \in NodeResults /\ r.err = "none" /\ r.s \in DbRecord
      /\ E \in [Nodes -> DbRecord]
      /\ C1 \in ChanType /\ Tidy(C1) /\ Answered(E, C1)
      /\ Core(E, o, Flight(C1), W, S)
  BY AfterFacts
<1>2. [r EXCEPT !.s = r.s] = r
  BY <1>1 DEF NodeResults, ResultOf
<1> HIDE DEF E, C1
<1>3. C2 \in ChanType /\ Tidy(C2) /\ Asked(C2) = Asked(C1) /\ Flight(C2) = Flight(C1)
  BY <1>1, SendRequest, OwnerAssumption
<1> HIDE DEF C2
<1>4. Sound(E, C2, o, W, S)
  BY <1>1, <1>3 DEF Sound, Answered
<1>5. Sound(Set(D, n, r.s), Add(Post(C, n, s, r.out), n, s, {Owner}, m), o, W, S)
  BY <1>4 DEF C2, C1, E
<1>6. LET q == Send([r EXCEPT !.s = r.s], {Owner}, m)
      IN  After(D, C, n, s, q, o, W, S) /\ q.s = r.s
  <2>1. r \in NodeResults /\ r.err = "none" /\ r.s \in DbRecord /\ {Owner} \in SUBSET Nodes
    BY <1>1, OwnerAssumption
  <2> QED
    BY <1>5, <2>1, AfterSends
<1> QED
  BY <1>2, <1>6 DEF AskOwner

(* A task asks the owner for the state it needs and joins the queue.       *)
LEMMA AfterRequest ==
  ASSUME NEW D \in [Nodes -> DbRecord], NEW C \in ChanType, NEW n \in Nodes, NEW s \in Streams, NEW r,
         NEW o, NEW W, NEW S, After(D, C, n, s, r, o, W, S), NEW t \in Tasks
  PROVE  After(D, C, n, s, RequestFor(n, r, t), o, W, S) /\ Keeps(RequestFor(n, r, t).s, r.s)
<1> DEFINE m == ElevationRequest(n, t)
           e == AskOwner(r, m)
           w == Append(r.s.waitlist, t)
           q == [e EXCEPT !.s.waitlist = w]
<1>1. r \in NodeResults /\ r.s \in DbRecord
  BY AfterFacts
<1>2. w \in Seq(Tasks)
  BY <1>1 DEF DbRecord
<1>3. m \in Messages /\ m.type \in {"elevation_request", "db_destroy"}
  BY PlainMessages DEF ElevationRequest
<1> HIDE DEF m
<1>4. After(D, C, n, s, e, o, W, S) /\ e.s = r.s
  BY <1>3, AfterAsk
<1>5. RequestFor(n, r, t) = q
  <2>1. RequestFor(n, r, t) = [e EXCEPT !.s.waitlist = Append(@, t)]
    BY DEF RequestFor, Enqueue, m, AskOwner
  <2>2. e \in NodeResults
    BY <1>4, AfterFacts
  <2> HIDE DEF e
  <2> QED
    BY <1>4, <2>1, <2>2
<1> HIDE DEF e, w
<1>6. After(D, C, n, s, q, o, W, S) /\ Keeps(q.s, e.s)
  BY <1>2, <1>4, AfterQueue
<1> QED
  BY <1>4, <1>5, <1>6

(* A failed retry.                                                         *)
LEMMA AfterRetry ==
  ASSUME NEW D \in [Nodes -> DbRecord], NEW C \in ChanType, NEW n \in Nodes, NEW s \in Streams, NEW r,
         NEW o, NEW W, NEW S, After(D, C, n, s, r, o, W, S), NEW t \in Tasks
  PROVE  After(D, C, n, s, Retry(n, r, t), o, W, S) /\ Keeps(Retry(n, r, t).s, r.s)
<1> DEFINE w == Without(r.s.waitlist, {t})
           e == [r EXCEPT !.s.waitlist = w]
<1>1. r \in NodeResults /\ r.s \in DbRecord
  BY AfterFacts
<1>2. w \in Seq(Tasks)
  BY <1>1, QueueFacts
<1>3. Retry(n, r, t) = RequestFor(n, e, t)
  BY <1>1 DEF Retry, NodeResults, ResultOf, DbRecord
<1> HIDE DEF w
<1>4. After(D, C, n, s, e, o, W, S) /\ Keeps(e.s, r.s)
  BY <1>2, AfterQueue
<1> HIDE DEF e
<1>5. After(D, C, n, s, RequestFor(n, e, t), o, W, S) /\ Keeps(RequestFor(n, e, t).s, e.s)
  BY <1>4, AfterRequest
<1> QED
  BY <1>3, <1>4, <1>5 DEF Keeps

(* grant_locks lets waiters in whose state the node has.                   *)
LEMMA AfterGrantLocks ==
  ASSUME NEW D \in [Nodes -> DbRecord], NEW C \in ChanType, NEW n \in Nodes, NEW s \in Streams, NEW r,
         NEW o, NEW W, NEW S, After(D, C, n, s, r, o, W, S)
  PROVE  After(D, C, n, s, GrantLocks(n, r), o, W, S) /\ Keeps(GrantLocks(n, r).s, r.s)
<1> DEFINE v       == r.s
           ew      == Waiting(v, {"EW"})
           const   == Waiting(v, {"CONST"})
           shared  == Waiting(v, {"RW", "RO"})
           lacking == {i \in shared : ~Suffices(v, v.waitlist[i])}
           task(I) == v.waitlist[First(I)]
           places  == 1..Len(v.waitlist)
           Good(q) == After(D, C, n, s, q, o, W, S) /\ Keeps(q.s, r.s)
<1>1. v \in DbRecord /\ Len(v.waitlist) \in Nat
  <2>1. v \in DbRecord
    BY AfterFacts
  <2> QED
    BY <2>1 DEF DbRecord
<1>2. ASSUME NEW I \in SUBSET places, I # {}
      PROVE  First(I) \in I /\ task(I) \in Tasks
  <2>1. I \in SUBSET Nat
    BY <1>1
  <2>2. First(I) \in I
    BY <1>2, <2>1, FirstPlace
  <2>3. task(I) \in Queued(v)
    BY <2>2 DEF Queued
  <2> QED
    BY <1>1, <2>2, <2>3, QueueFacts
<1>3. /\ ew \in SUBSET places /\ const \in SUBSET places /\ shared \in SUBSET places
      /\ shared \subseteq Nat
      /\ \A i \in ew : Mode[v.waitlist[i]] = "EW"
      /\ \A i \in const : Mode[v.waitlist[i]] = "CONST"
  BY <1>1, WaitingPlaces
<1>4. Good(r)
  BY DEF Keeps
<1>5. ASSUME NEW I \in SUBSET places, LetIn(v, I)
      PROVE  Good(Grant(r, I))
  BY <1>5, AfterGrants
<1>6. ASSUME NEW t \in Tasks
      PROVE  Good(Retry(n, r, t))
  BY AfterRetry
<1>7. CASE v.lockers = {} /\ ew # {}
  <2>1. First(ew) \in ew /\ task(ew) \in Tasks
    BY <1>2, <1>3, <1>7
  <2>2. CASE v.state = "master"
    <3>1. LetIn(v, {First(ew)})
      BY <1>1, <2>2 DEF LetIn, Suffices
    <3>2. GrantLocks(n, r) = Grant(r, {First(ew)})
      BY <1>7, <2>2 DEF GrantLocks
    <3>3. {First(ew)} \in SUBSET places
      BY <1>3, <2>1
    <3>4. Good(Grant(r, {First(ew)}))
      BY <1>5, <3>1, <3>3
    <3> QED
      BY <3>2, <3>4
  <2>3. CASE v.state # "master"
    <3>1. GrantLocks(n, r) = Retry(n, r, task(ew))
      BY <1>7, <2>3 DEF GrantLocks
    <3>2. Good(Retry(n, r, task(ew)))
      BY <1>6, <2>1
    <3> QED
      BY <3>1, <3>2
  <2> QED
    BY <2>2, <2>3
<1>8. CASE ~(v.lockers = {} /\ ew # {}) /\ const # {} /\ \A u \in v.lockers : Mode[u] = "CONST"
  <2>1. First(const) \in const /\ task(const) \in Tasks
    BY <1>2, <1>3, <1>8
  <2>2. CASE v.state # "invalid"
    <3>1. LetIn(v, const)
      <4>1. \A i \in const : v.waitlist[i] \notin Writers
        BY <1>3 DEF Writers
      <4> QED
        BY <2>2, <4>1 DEF LetIn, Suffices
    <3>2. GrantLocks(n, r) = Grant(r, const)
      BY <1>8, <2>2 DEF GrantLocks
    <3>3. Good(Grant(r, const))
      BY <1>3, <1>5, <3>1
    <3> QED
      BY <3>2, <3>3
  <2>3. CASE v.state = "invalid"
    <3>1. GrantLocks(n, r) = Retry(n, r, task(const))
      BY <1>8, <2>3 DEF GrantLocks
    <3>2. Good(Retry(n, r, task(const)))
      BY <1>6, <2>1
    <3> QED
      BY <3>1, <3>2
  <2> QED
    BY <2>2, <2>3
<1>9. CASE /\ ~(v.lockers = {} /\ ew # {})
           /\ ~(const # {} /\ \A u \in v.lockers : Mode[u] = "CONST")
           /\ v.lockers \cap Exclusive = {}
  <2>4. CASE lacking = {}
    <3>1. GrantLocks(n, r) = Grant(r, shared)
      BY <1>9, <2>4 DEF GrantLocks
    <3>2. LetIn(v, shared)
      BY <2>4 DEF LetIn
    <3>3. Good(Grant(r, shared))
      BY <1>3, <1>5, <3>2
    <3> QED
      BY <3>1, <3>3
  <2>5. CASE lacking # {}
    <3> DEFINE before == {i \in shared : i < First(lacking)}
               g      == Grant(r, before)
               t      == task(lacking)
    <3>1. First(lacking) \in lacking /\ t \in Tasks
      BY <1>2, <1>3, <2>5
    <3>2. \A j \in lacking : First(lacking) <= j
      BY <1>3, <2>5, FirstPlace
    <3>3. LetIn(v, before)
      <4>1. ASSUME NEW i \in before PROVE i \notin lacking
        <5>1. i < First(lacking) /\ i \in Nat /\ First(lacking) \in Nat
          BY <1>3, <3>1
        <5> QED
          BY <3>2, <5>1
      <4> QED
        BY <4>1 DEF LetIn
    <3>4. GrantLocks(n, r) = Retry(n, g, t)
      BY <1>9, <2>5 DEF GrantLocks
    <3>5. before \in SUBSET places
      BY <1>3
    <3> HIDE DEF before, t
    <3>6. Good(g)
      BY <1>5, <3>3, <3>5
    <3> HIDE DEF g
    <3>7. After(D, C, n, s, Retry(n, g, t), o, W, S) /\ Keeps(Retry(n, g, t).s, g.s)
      BY <3>1, <3>6, AfterRetry
    <3> QED
      BY <3>4, <3>6, <3>7 DEF Keeps
  <2> QED
    BY <2>4, <2>5
<1>10. CASE v.lockers \cap Exclusive # {} /\ ~(const # {} /\ \A u \in v.lockers : Mode[u] = "CONST")
  <2>1. GrantLocks(n, r) = r
    BY <1>10 DEF GrantLocks
  <2> QED
    BY <1>4, <2>1
<1> QED
  BY <1>7, <1>8, <1>9, <1>10

(* A task that tries the lock gets it, or waits for it.                    *)
LEMMA AfterTryLock ==
  ASSUME NEW D \in [Nodes -> DbRecord], NEW C \in ChanType, NEW n \in Nodes, NEW s \in Streams, NEW r,
         NEW o, NEW W, NEW S, After(D, C, n, s, r, o, W, S), NEW t \in Tasks
  PROVE  After(D, C, n, s, TryLock(n, r, t), o, W, S) /\ Keeps(TryLock(n, r, t).s, r.s)
<1>1. r \in NodeResults /\ r.s \in DbRecord
  BY AfterFacts
<1>2. CASE ~Suffices(r.s, t)
  BY <1>2, AfterRequest DEF TryLock
<1>3. CASE Suffices(r.s, t) /\ Compatible(r.s, t)
  <2> DEFINE u == [r.s EXCEPT !.lockers = @ \cup {t}]
             q == [r EXCEPT !.s = u]
  <2>1. TryLock(n, r, t) = q
    BY <1>1, <1>3 DEF TryLock, NodeResults, ResultOf, DbRecord
  <2>2. /\ u \in DbRecord /\ u.lockers = r.s.lockers \cup {t} /\ SameBooks(u, r.s)
        /\ u.copyWaitlist = r.s.copyWaitlist /\ u.waiters = r.s.waiters /\ u.busy = r.s.busy
    BY <1>1 DEF DbRecord, SameBooks
  <2> HIDE DEF u
  <2>3. /\ r.s.lockers \subseteq u.lockers
        /\ r.s.state # "master" => (u.lockers \ r.s.lockers) \cap Writers = {}
    BY <1>3, <2>2 DEF Suffices
  <2>4. After(D, C, n, s, q, o, W, S) /\ q.s = u
    BY <2>2, <2>3, AfterLocks
  <2> HIDE DEF q
  <2> QED
    BY <2>1, <2>2, <2>4 DEF Keeps
<1>4. CASE Suffices(r.s, t) /\ ~Compatible(r.s, t)
  <2> DEFINE w == Append(r.s.waitlist, t)
             q == [r EXCEPT !.s.waitlist = w]
  <2>1. TryLock(n, r, t) = q
    BY <1>4 DEF TryLock, Enqueue
  <2>2. w \in Seq(Tasks)
    BY <1>1 DEF DbRecord
  <2> HIDE DEF w
  <2>3. After(D, C, n, s, q, o, W, S) /\ Keeps(q.s, r.s)
    BY <2>2, AfterQueue
  <2> QED
    BY <2>1, <2>3
<1> QED
  BY <1>2, <1>3, <1>4

(* Granting locks after the master's work.                                 *)
LEMMA AfterUpdateGrant ==
  ASSUME NEW D \in [Nodes -> DbRecord], NEW C \in ChanType, NEW n \in Nodes, NEW s \in Streams, NEW r,
         NEW o, NEW W, NEW S, After(D, C, n, s, r, o, W, S), PutOff(r.s) \/ ~Idle(r.s)
  PROVE  LET q == GrantLocks(n, UpdateMasterState(n, r))
         IN  After(D, C, n, s, q, o, W, S) /\ PutOff(q.s)
<1> DEFINE e == UpdateMasterState(n, r)
           q == GrantLocks(n, e)
<1>1. After(D, C, n, s, e, o, W, S) /\ PutOff(e.s)
  BY AfterUpdate
<1> HIDE DEF e
<1>2. After(D, C, n, s, q, o, W, S) /\ Keeps(q.s, e.s)
  BY <1>1, AfterGrantLocks
<1> HIDE DEF q
<1>3. PutOff(q.s)
  BY <1>1, <1>2 DEF Keeps, PutOff
<1> QED
  BY <1>2, <1>3 DEF q, e

-----------------------------------------------------------------------------
(***************************************************************************)
(* The handlers.  The message m arrives at d from i's stream z; the        *)
(* channels are C0 before it is taken and C after.                         *)
(***************************************************************************)
Arrives(D, C0, o, W, S, i, z, d, m) ==
  Sound(D, C0, o, W, S) /\ C0[i][z][d] # <<>> /\ m = Head(C0[i][z][d])

(* Nobody is asked for copies who was not.                                 *)
LEMMA AnsweredLess ==
  ASSUME NEW D, NEW C, NEW C0, Answered(D, C0), Asked(C) \subseteq Asked(C0)
  PROVE  Answered(D, C)
  BY DEF Answered

(* A message of the move of the master role arrives.                       *)
LEMMA TakenRole ==
  ASSUME NEW D, NEW C0, NEW o, NEW W, NEW S, NEW i \in Nodes, NEW z \in Streams, NEW d \in Nodes,
         NEW m, Arrives(D, C0, o, W, S, i, z, d, m), m.type \in RoleTypes
  PROVE  LET C == Taken(C0, i, z, d) IN
         /\ m \in Messages /\ C \in ChanType /\ Tidy(C) /\ Answered(D, C)
         /\ m.type = "release_master_request" => d \notin Asked(C)
         /\ Core(D, o, Flight(C0), W, S) /\ Lone(Flight(C0)[NoNode], i, d, m)
         /\ SameCopies(Flight(C), Flight(C0)) /\ Flight(C)[NoNode] = {}
<1> DEFINE C == Taken(C0, i, z, d)
<1>1. /\ C0 \in ChanType /\ Tidy(C0) /\ C0[i][z][d] # <<>> /\ m = Head(C0[i][z][d])
      /\ Answered(D, C0) /\ Core(D, o, Flight(C0), W, S)
  BY DEF Arrives, Sound
<1>2. Slot(i, d, m) = NoNode /\ NoNode \in Slots
  BY SlotsAre DEF Slot
<1>3. /\ C \in ChanType /\ Tidy(C) /\ m \in Messages
      /\ \A q \in Slots \ {NoNode} : Flight(C)[q] = Flight(C0)[q]
      /\ Flight(C0)[NoNode] = {<<i, d, m>>} /\ Flight(C)[NoNode] = {}
      /\ Asked(C) \subseteq Asked(C0)
      /\ m.type = "release_master_request" => d \notin Asked(C)
  BY <1>1, <1>2, TakenFlight
<1> HIDE DEF C
<1>4. SameCopies(Flight(C), Flight(C0))
  <2>1. \A k \in Nodes : k \in Slots \ {NoNode}
    BY SlotsAre
  <2> QED
    BY <1>3, <2>1 DEF SameCopies
<1>5. Answered(D, C) /\ Lone(Flight(C0)[NoNode], i, d, m)
  BY <1>1, <1>3, AnsweredLess DEF Lone
<1> QED
  BY <1>1, <1>3, <1>4, <1>5 DEF C

(* The message m from i to d concerns q's copy.                            *)
Concerns(q, i, d, m) == Slot(i, d, m) = q

(* A message about d's copy arrives there, or the answer of i.             *)
LEMMA TakenCopy ==
  ASSUME NEW D, NEW C0, NEW o, NEW W, NEW S, NEW i \in Nodes, NEW z \in Streams, NEW d \in Nodes,
         NEW m, Arrives(D, C0, o, W, S, i, z, d, m),
         NEW q \in Nodes, Concerns(q, i, d, m)
  PROVE  LET C == Taken(C0, i, z, d) IN
         /\ m \in Messages /\ C \in ChanType /\ Tidy(C) /\ Answered(D, C)
         /\ Core(D, o, Flight(C0), W, S) /\ Lone(Flight(C0)[q], i, d, m)
         /\ SameSlots(Flight(C), Flight(C0), q) /\ Flight(C)[q] = {}
<1> DEFINE C == Taken(C0, i, z, d)
<1>1. /\ C0 \in ChanType /\ Tidy(C0) /\ C0[i][z][d] # <<>> /\ m = Head(C0[i][z][d])
      /\ Answered(D, C0) /\ Core(D, o, Flight(C0), W, S)
  BY DEF Arrives, Sound
<1>2. Slot(i, d, m) = q /\ q \in Slots
  BY SlotsAre DEF Concerns
<1>3. /\ C \in ChanType /\ Tidy(C) /\ m \in Messages
      /\ \A p \in Slots \ {q} : Flight(C)[p] = Flight(C0)[p]
      /\ Flight(C0)[q] = {<<i, d, m>>} /\ Flight(C)[q] = {}
      /\ Asked(C) \subseteq Asked(C0)
  BY <1>1, <1>2, TakenFlight
<1> HIDE DEF C
<1>5. Answered(D, C) /\ Lone(Flight(C0)[q], i, d, m)
  BY <1>1, <1>3, AnsweredLess DEF Lone
<1> QED
  BY <1>1, <1>3, <1>5 DEF C, SameSlots

(* A request arrives.                                                      *)
LEMMA TakenRequest ==
  ASSUME NEW D, NEW C0, NEW o, NEW W, NEW S, NEW i \in Nodes, NEW z \in Streams, NEW d \in Nodes,
         NEW m, Arrives(D, C0, o, W, S, i, z, d, m),
         m.type \in {"elevation_request", "db_destroy", "transfer_data_to_copy"}
  PROVE  /\ m \in Messages /\ Sound(D, Taken(C0, i, z, d), o, W, S)
         /\ m.type = "transfer_data_to_copy" => D[d].state = "master" /\ m.node # d
<1> DEFINE C == Taken(C0, i, z, d)
<1>1. /\ C0 \in ChanType /\ Tidy(C0) /\ C0[i][z][d] # <<>> /\ m = Head(C0[i][z][d])
      /\ Answered(D, C0) /\ Core(D, o, Flight(C0), W, S) /\ D \in [Nodes -> DbRecord]
  BY DEF Arrives, Sound
<1>2. Slot(i, d, m) \notin Slots
  BY MasterAssumption DEF Slot, RoleTypes, Slots
<1>3. /\ C \in ChanType /\ Tidy(C) /\ m \in Messages
      /\ \A p \in Slots \ {Slot(i, d, m)} : Flight(C)[p] = Flight(C0)[p]
      /\ Asked(C) \subseteq Asked(C0)
      /\ m.type = "transfer_data_to_copy" => d \in Asked(C0) /\ m.node # d
  BY <1>1, TakenFlight
<1> HIDE DEF C
<1>4. Flight(C) = Flight(C0)
  <2>1. Flight(C) = [p \in Slots |-> Flight(C)[p]] /\ Flight(C0) = [p \in Slots |-> Flight(C0)[p]]
    BY DEF Flight
  <2>2. \A p \in Slots : Flight(C)[p] = Flight(C0)[p]
    BY <1>2, <1>3
  <2> QED
    BY <2>1, <2>2
<1>5. Answered(D, C) /\ (m.type = "transfer_data_to_copy" => D[d].state = "master" /\ m.node # d)
  BY <1>1, <1>3, AnsweredLess DEF Answered
<1> QED
  BY <1>1, <1>3, <1>4, <1>5 DEF C, Sound

(* A handler starts from the node's record.                                *)
LEMMA AfterStart ==
  ASSUME NEW D, NEW C, NEW n \in Nodes, NEW s \in Streams, NEW o, NEW W, NEW S, Sound(D, C, o, W, S)
  PROVE  After(D, C, n, s, Result(D[n]), o, W, S) /\ Result(D[n]).s = D[n]
<1>1. D \in [Nodes -> DbRecord] /\ C \in ChanType
  BY DEF Sound
<1>2. D[n] \in DbRecord
  BY <1>1
<1>3. Result(D[n]) \in NodeResults /\ Result(D[n]).s = D[n] /\ Result(D[n]).err = "none"
  BY <1>2, ResultType DEF NodeResults
<1>4. Post(C, n, s, Result(D[n]).out) = C
  BY <1>1, PostNothing
<1>5. Set(D, n, D[n]) = D
  BY <1>1, <1>2, SetSet
<1> QED
  BY <1>3, <1>4, <1>5 DEF After

(* A handler's first change of the record.                                 *)
LEMMA FirstSets ==
  ASSUME NEW D \in [Nodes -> DbRecord], NEW C \in ChanType, NEW n \in Nodes, NEW s \in Streams,
         NEW o, NEW W, NEW S, NEW u \in DbRecord,
         Tidy(C), Answered(Set(D, n, u), C), Core(Set(D, n, u), o, Flight(C), W, S)
  PROVE  LET q == [Result(D[n]) EXCEPT !.s = u] IN After(D, C, n, s, q, o, W, S) /\ q.s = u
<1>1. D[n] \in DbRecord
  OBVIOUS
<1>2. Result(D[n]) \in NodeResults /\ Result(D[n]).err = "none"
  BY <1>1, ResultType DEF NodeResults
<1>3. Post(C, n, s, Result(D[n]).out) = C
  BY PostNothing
<1>4. Sound(Set(D, n, u), Post(C, n, s, Result(D[n]).out), o, W, S)
  BY <1>3, SetFacts DEF Sound
<1> HIDE DEF Result
<1> QED
  BY <1>2, <1>4, AfterSets

(* A handler's first change of the record, with a message.                 *)
LEMMA FirstSends ==
  ASSUME NEW D \in [Nodes -> DbRecord], NEW C \in ChanType, NEW n \in Nodes, NEW s \in Streams,
         NEW o, NEW W, NEW S, NEW u \in DbRecord, NEW T \in SUBSET Nodes, NEW m \in Messages,
         Tidy(Add(C, n, s, T, m)), Answered(Set(D, n, u), Add(C, n, s, T, m)),
         Core(Set(D, n, u), o, Flight(Add(C, n, s, T, m)), W, S)
  PROVE  LET q == Send([Result(D[n]) EXCEPT !.s = u], T, m)
         IN  After(D, C, n, s, q, o, W, S) /\ q.s = u
<1>1. D[n] \in DbRecord
  OBVIOUS
<1>2. Result(D[n]) \in NodeResults /\ Result(D[n]).err = "none"
  BY <1>1, ResultType DEF NodeResults
<1>3. Post(C, n, s, Result(D[n]).out) = C
  BY PostNothing
<1>4. Sound(Set(D, n, u), Add(Post(C, n, s, Result(D[n]).out), n, s, T, m), o, W, S)
  BY <1>3, SetFacts, AddType DEF Sound
<1> HIDE DEF Result
<1> QED
  BY <1>2, <1>4, AfterSends

(* A handler that only sends a message.                                    *)
LEMMA OnlySends ==
  ASSUME NEW D \in [Nodes -> DbRecord], NEW C \in ChanType, NEW n \in Nodes, NEW s \in Streams,
         NEW o, NEW W, NEW S, NEW T \in SUBSET Nodes, NEW m \in Messages,
         Tidy(Add(C, n, s, T, m)), Answered(D, Add(C, n, s, T, m)),
         Core(D, o, Flight(Add(C, n, s, T, m)), W, S)
  PROVE  LET q == Send(Result(D[n]), T, m) IN After(D, C, n, s, q, o, W, S) /\ q.s = D[n]
<1> DEFINE r == Result(D[n])
           q == Send(r, T, m)
<1>1. r \in NodeResults /\ r.err = "none" /\ r.s \in DbRecord /\ r.s = D[n]
  BY ResultType DEF NodeResults, Result
<1>2. [r EXCEPT !.s = r.s] = r
  BY DEF Result
<1>3. Set(D, n, D[n]) = D /\ Add(C, n, s, T, m) \in ChanType
  BY SetSet, AddType
<1>4. Post(C, n, s, r.out) = C
  BY PostNothing
<1> HIDE DEF r
<1>5. Sound(Set(D, n, r.s), Add(Post(C, n, s, r.out), n, s, T, m), o, W, S)
  BY <1>1, <1>3, <1>4 DEF Sound
<1>6. LET v == Send([r EXCEPT !.s = r.s], T, m)
      IN  After(D, C, n, s, v, o, W, S) /\ v.s = r.s
  <2>1. r \in NodeResults /\ r.err = "none" /\ r.s \in DbRecord
    BY <1>1
  <2> QED
    BY <1>5, <2>1, AfterSends
<1>7. After(D, C, n, s, q, o, W, S) /\ q.s = D[n]
  BY <1>1, <1>2, <1>6
<1> QED
  BY <1>7 DEF r

(* A handler has kept the invariant, put-off copies included.              *)
Handled(D, C, d, q, o, W, S) == After(D, C, d, NodeStream, q, o, W, S) /\ PutOff(q.s)

(* The master is asked to give up the role.                                *)
LEMMA ReleaseRequestHandled ==
  ASSUME NEW D \in [Nodes -> DbRecord], NEW C0, NEW o, NEW W, NEW S, NEW i \in Nodes,
         NEW z \in Streams, NEW d \in Nodes, NEW m, Arrives(D, C0, o, W, S, i, z, d, m),
         m.type = "release_master_request", PutOff(D[d])
  PROVE  Handled(D, Taken(C0, i, z, d), d, HandleReleaseRequest(d, Result(D[d])), o, W, S)
<1> DEFINE C == Taken(C0, i, z, d)
           u == [D[d] EXCEPT !.state = "copy"]
           e == [Result(D[d]) EXCEPT !.s = u]
<1>0. NodeStream \in Streams /\ D[d] \in DbRecord
  BY DEF Streams
<1>1. /\ m \in Messages /\ C \in ChanType /\ Tidy(C) /\ Answered(D, C) /\ d \notin Asked(C)
      /\ Core(D, o, Flight(C0), W, S) /\ Lone(Flight(C0)[NoNode], i, d, m)
      /\ SameCopies(Flight(C), Flight(C0)) /\ Flight(C)[NoNode] = {}
  <2>1. m.type \in RoleTypes
    BY DEF RoleTypes
  <2> QED
    BY <2>1, TakenRole
<1>2. Held(D, o, Flight(C0), W, S, d) /\ D[d].state = "master" /\ Moving(o)
  <2>1. RoleTells(D, o, Flight(C0), W, S, i, d, m)
    BY <1>1, RoleMessage
  <2> QED
    BY <2>1 DEF RoleTells
<1>3. u \in DbRecord /\ PutOff(u)
  BY <1>0 DEF DbRecord, PutOff
<1>4. HandleReleaseRequest(d, Result(D[d])) = UpdateMasterState(d, e)
  BY <1>0, <1>2 DEF HandleReleaseRequest, Expect, Result, DbRecord
<1> HIDE DEF C
<1>5. Core(Set(D, d, u), o, Flight(C), W, S)
  BY <1>1, <1>2, <1>3, CoreGiveUp
<1> HIDE DEF u
<1>6. Answered(Set(D, d, u), C)
  BY <1>1, <1>3, AnsweredKeep
<1>7. After(D, C, d, NodeStream, e, o, W, S) /\ e.s = u
  BY <1>0, <1>1, <1>3, <1>5, <1>6, FirstSets
<1> HIDE DEF e
<1>8. /\ After(D, C, d, NodeStream, UpdateMasterState(d, e), o, W, S)
      /\ PutOff(UpdateMasterState(d, e).s)
  BY <1>0, <1>1, <1>3, <1>7, AfterUpdate
<1> QED
  BY <1>4, <1>8 DEF C, Handled

(* A copy is asked for its data.                                           *)
LEMMA TransferToNewMasterHandled ==
  ASSUME NEW D \in [Nodes -> DbRecord], NEW C0, NEW o, NEW W, NEW S, NEW i \in Nodes,
         NEW z \in Streams, NEW d \in Nodes, NEW m, Arrives(D, C0, o, W, S, i, z, d, m),
         m.type = "transfer_data_to_new_master", PutOff(D[d])
  PROVE  Handled(D, Taken(C0, i, z, d), d, HandleTransferToNewMaster(Result(D[d]), m.node), o, W, S)
<1> DEFINE C == Taken(C0, i, z, d)
           x == DataMessage(D[d].content)
           C1 == Add(C, d, NodeStream, {i}, x)
<1>0. NodeStream \in Streams /\ D[d] \in DbRecord
  BY DEF Streams
<1>1. /\ m \in Messages /\ C \in ChanType /\ Tidy(C) /\ Answered(D, C)
      /\ Core(D, o, Flight(C0), W, S) /\ Lone(Flight(C0)[NoNode], i, d, m)
      /\ SameCopies(Flight(C), Flight(C0)) /\ Flight(C)[NoNode] = {}
  <2>1. m.type \in RoleTypes
    BY DEF RoleTypes
  <2> QED
    BY <2>1, TakenRole
<1>2. /\ m.node = i /\ Held(D, o, Flight(C0), W, S, i) /\ D[i].state = "invalid"
      /\ d \in D[i].copylist /\ Still(Flight(C0)) /\ o.target = i /\ Moving(o)
  <2>1. RoleTells(D, o, Flight(C0), W, S, i, d, m)
    BY <1>1, RoleMessage
  <2> QED
    BY <2>1 DEF RoleTells
<1>3. x \in Messages /\ x.type \in RoleTypes /\ x.type # "release_master_request"
  BY <1>0, PlainMessages DEF DataMessage, DbRecord, RoleTypes
<1> HIDE DEF C, x
<1>5. /\ C1 \in ChanType /\ Tidy(C1) /\ Asked(C1) = Asked(C)
      /\ SameCopies(Flight(C1), Flight(C)) /\ Lone(Flight(C1)[NoNode], d, i, x)
  BY <1>0, <1>1, <1>3, SendRole
<1> HIDE DEF C1
<1>6. SameCopies(Flight(C1), Flight(C0))
  BY <1>1, <1>5 DEF SameCopies
<1>7. Core(D, o, Flight(C1), W, S) /\ D[d].state = "copy" /\ ~D[d].hasCopylist
  <2>1. Lone(Flight(C1)[NoNode], d, i, DataMessage(D[d].content))
    BY <1>5 DEF x
  <2> QED
    BY <1>1, <1>2, <1>6, <2>1, CoreRequest
<1>9. Answered(D, C1)
  BY <1>1, <1>5 DEF Answered
<1>10. LET q == Send(Result(D[d]), {i}, x) IN After(D, C, d, NodeStream, q, o, W, S) /\ q.s = D[d]
  <2>1. {i} \in SUBSET Nodes
    OBVIOUS
  <2>2. Tidy(Add(C, d, NodeStream, {i}, x)) /\ Answered(D, Add(C, d, NodeStream, {i}, x))
        /\ Core(D, o, Flight(Add(C, d, NodeStream, {i}, x)), W, S)
    BY <1>5, <1>7, <1>9 DEF C1
  <2> QED
    BY <1>0, <1>1, <1>3, <2>1, <2>2, OnlySends
<1>11. HandleTransferToNewMaster(Result(D[d]), m.node) = Send(Result(D[d]), {i}, x)
  <2>1. Result(D[d]).s = D[d]
    BY DEF Result
  <2>2. Expect(Result(D[d]), D[d].state = "copy" /\ ~D[d].hasCopylist, "data_asked_of_noncopy") = Result(D[d])
    BY <1>7 DEF Expect
  <2> QED
    BY <1>2, <2>1, <2>2 DEF HandleTransferToNewMaster, DataMessage, x
<1> QED
  BY <1>10, <1>11 DEF C, Handled

(* A master is asked for a copy for the node m.node.                       *)
LEMMA TransferToCopyHandled ==
  ASSUME NEW D \in [Nodes -> DbRecord], NEW C0, NEW o, NEW W, NEW S, NEW i \in Nodes,
         NEW z \in Streams, NEW d \in Nodes, NEW m, Arrives(D, C0, o, W, S, i, z, d, m),
         m.type = "transfer_data_to_copy", PutOff(D[d])
  PROVE  Handled(D, Taken(C0, i, z, d), d, HandleTransferToCopy(d, Result(D[d]), m.node), o, W, S)
<1> DEFINE C == Taken(C0, i, z, d)
           r == Result(D[d])
           k == m.node
<1>0. NodeStream \in Streams /\ D[d] \in DbRecord
  BY DEF Streams
<1>1. m \in Messages /\ Sound(D, C, o, W, S) /\ D[d].state = "master" /\ k # d
  BY TakenRequest
<1>2. k \in Nodes
  BY <1>1 DEF Messages
<1>3. C \in ChanType /\ Core(D, o, Flight(C), W, S)
  BY <1>1 DEF Sound
<1>4. D[d].hasCopylist /\ ListsFit(D[d], d, W)
  BY <1>1, <1>3, CoreLists DEF Bare
<1>5. After(D, C, d, NodeStream, r, o, W, S) /\ r.s = D[d]
  BY <1>0, <1>1, AfterStart
<1>6. Expect(r, r.s.hasCopylist, "copy_asked_of_nonmaster") = r
  BY <1>4, <1>5 DEF Expect
<1>7. HandleTransferToCopy(d, r, k) =
        IF k \in r.s.copylist THEN r
        ELSE UpdateMasterState(d, IF CanProvideCopies(r.s) THEN ProvideCopies(r, {k})
                                  ELSE [r EXCEPT !.s.copyWaitlist = @ \cup {k}])
  BY <1>6 DEF HandleTransferToCopy
<1>8. {k} \in SUBSET Nodes
  BY <1>2
<1>16. r.out = NoMessages /\ r.err = "none"
  BY DEF Result
<1>17. r = [s |-> D[d], out |-> NoMessages, err |-> "none"]
  BY DEF Result
<1> HIDE DEF C, r, k
<1>9. CASE k \in D[d].copylist
  BY <1>5, <1>7, <1>9 DEF Handled, C, r, k
<1>10. ASSUME k \notin D[d].copylist, CanProvideCopies(D[d])
       PROVE  LET q == UpdateMasterState(d, ProvideCopies(r, {k}))
              IN  After(D, C, d, NodeStream, q, o, W, S) /\ PutOff(q.s)
  <2> DEFINE e == ProvideCopies(r, {k})
  <2>1. CanServe(r.s, d, {k})
    BY <1>1, <1>4, <1>5, <1>8, <1>10 DEF CanServe, CanProvideCopies
  <2>2. After(D, C, d, NodeStream, e, o, W, S) /\ Served(e.s, r.s, {k})
    BY <1>0, <1>3, <1>5, <2>1, AfterProvide
  <2> HIDE DEF e
  <2>3. PutOff(e.s)
    BY <1>0, <1>5, <2>2 DEF Served, PutOff, DbRecord
  <2>4. After(D, C, d, NodeStream, UpdateMasterState(d, e), o, W, S) /\ PutOff(UpdateMasterState(d, e).s)
    BY <1>0, <1>3, <2>2, <2>3, AfterUpdate
  <2> QED
    BY <2>4 DEF e
<1>11. ASSUME k \notin D[d].copylist, ~CanProvideCopies(D[d])
       PROVE  LET q == UpdateMasterState(d, [r EXCEPT !.s.copyWaitlist = @ \cup {k}])
              IN  After(D, C, d, NodeStream, q, o, W, S) /\ PutOff(q.s)
  <2> DEFINE u == [D[d] EXCEPT !.copyWaitlist = D[d].copyWaitlist \cup {k}]
             e == [r EXCEPT !.s = u]
  <2>1. u \in DbRecord /\ SameBooks(u, D[d]) /\ u.lockers = D[d].lockers /\ ~Bare(D[d]) /\ ~Idle(u)
    BY <1>0, <1>1, <1>2, <1>11 DEF DbRecord, SameBooks, Bare, Idle, CanProvideCopies, WriteLocked
  <2>2. ListsFit(u, d, W)
    BY <1>0, <1>1, <1>2, <1>4 DEF ListsFit, DbRecord, WriteLocked
  <2>3. [r EXCEPT !.s.copyWaitlist = @ \cup {k}] = e
    BY <1>0, <1>17 DEF DbRecord
  <2> HIDE DEF u
  <2>4. After(D, C, d, NodeStream, e, o, W, S) /\ e.s = u
    <3>1. /\ SameBooks(u, r.s) /\ (Bare(r.s) => Bare(u)) /\ (r.s.hasCopylist => ListsFit(u, d, W))
          /\ r.s.lockers \subseteq u.lockers
      BY <1>5, <2>1, <2>2
    <3> QED
      BY <1>0, <1>5, <2>1, <3>1, AfterKeep
  <2> HIDE DEF e
  <2>5. ~Idle(e.s)
    BY <2>1, <2>4
  <2>6. After(D, C, d, NodeStream, UpdateMasterState(d, e), o, W, S) /\ PutOff(UpdateMasterState(d, e).s)
    BY <1>0, <1>3, <2>4, <2>5, AfterUpdate
  <2> QED
    BY <2>3, <2>6
<1> QED
  BY <1>5, <1>7, <1>9, <1>10, <1>11 DEF Handled, C, r, k

(* The next master is sent the data.                                       *)
LEMMA DataHandled ==
  ASSUME NEW D \in [Nodes -> DbRecord], NEW C0, NEW o, NEW W, NEW S, NEW i \in Nodes,
         NEW z \in Streams, NEW d \in Nodes, NEW m, Arrives(D, C0, o, W, S, i, z, d, m),
         m.type = "data", PutOff(D[d])
  PROVE  Handled(D, Taken(C0, i, z, d), d, HandleData(d, Result(D[d]), m.content), o, W, S)
<1> DEFINE C == Taken(C0, i, z, d)
           b == m.content
           u == [D[d] EXCEPT !.content = b, !.state = "master"]
           x == Plain("is_master")
           C1 == Add(C, d, NodeStream, {Owner}, x)
           e == Send([Result(D[d]) EXCEPT !.s = u], {Owner}, x)
<1>0. NodeStream \in Streams /\ D[d] \in DbRecord /\ Owner \in Nodes
  BY OwnerAssumption DEF Streams
<1>1. /\ m \in Messages /\ C \in ChanType /\ Tidy(C) /\ Answered(D, C)
      /\ Core(D, o, Flight(C0), W, S) /\ Lone(Flight(C0)[NoNode], i, d, m)
      /\ SameCopies(Flight(C), Flight(C0)) /\ Flight(C)[NoNode] = {}
  <2>1. m.type \in RoleTypes
    BY DEF RoleTypes
  <2> QED
    BY <2>1, TakenRole
<1>2. /\ Held(D, o, Flight(C0), W, S, d) /\ D[d].state = "invalid" /\ o.target = d
      /\ b \subseteq W /\ S \subseteq b /\ Moving(o)
  <2>1. RoleTells(D, o, Flight(C0), W, S, i, d, m)
    BY <1>1, RoleMessage
  <2> QED
    BY <2>1 DEF RoleTells
<1>3. b \in SUBSET (Writers \cup NoBuffer)
  BY <1>1 DEF Messages
<1>4. u \in DbRecord /\ PutOff(u) /\ u.state = "master"
  BY <1>0, <1>3 DEF DbRecord, PutOff
<1>5. x \in Messages /\ x.type \in RoleTypes /\ x.type # "release_master_request"
  BY PlainMessages DEF Plain, RoleTypes
<1> HIDE DEF C, b, x
<1>6. /\ C1 \in ChanType /\ Tidy(C1) /\ Asked(C1) = Asked(C)
      /\ SameCopies(Flight(C1), Flight(C)) /\ Lone(Flight(C1)[NoNode], d, Owner, x)
  BY <1>0, <1>1, <1>5, SendRole
<1> HIDE DEF C1
<1>7. SameCopies(Flight(C1), Flight(C0)) /\ Lone(Flight(C1)[NoNode], d, Owner, Plain("is_master"))
  BY <1>1, <1>6 DEF SameCopies, x
<1>8. Core(Set(D, d, u), o, Flight(C1), W, S) /\ D[d].hasCopylist /\ D[d].content = NoBuffer
  BY <1>1, <1>2, <1>4, <1>7, CoreData
<1> HIDE DEF u
<1>9. Answered(Set(D, d, u), C1)
  <2>1. Asked(C1) \subseteq Asked(C) /\ (d \in Asked(C1) => u.state = "master")
    BY <1>4, <1>6
  <2> QED
    BY <1>1, <1>4, <2>1, AnsweredKeep
<1>10. After(D, C, d, NodeStream, e, o, W, S) /\ e.s = u
  <2>1. {Owner} \in SUBSET Nodes
    BY <1>0
  <2>2. /\ Tidy(Add(C, d, NodeStream, {Owner}, x)) /\ Answered(Set(D, d, u), Add(C, d, NodeStream, {Owner}, x))
        /\ Core(Set(D, d, u), o, Flight(Add(C, d, NodeStream, {Owner}, x)), W, S)
    BY <1>6, <1>8, <1>9 DEF C1
  <2> QED
    BY <1>0, <1>1, <1>4, <1>5, <2>1, <2>2, FirstSends
<1>11. HandleData(d, Result(D[d]), b) = GrantLocks(d, e)
  <2>1. [Result(D[d]) EXCEPT !.s.content = b, !.s.state = "master"] = [Result(D[d]) EXCEPT !.s = u]
    BY <1>0 DEF Result, u, DbRecord
  <2>2. Result(D[d]).s = D[d]
    BY DEF Result
  <2>3. Expect(Result(D[d]), D[d].state = "invalid" /\ D[d].hasCopylist /\ D[d].content = NoBuffer,
               "unexpected_master_data") = Result(D[d])
    BY <1>2, <1>8 DEF Expect
  <2> QED
    BY <2>1, <2>2, <2>3 DEF HandleData, Plain, x
<1> HIDE DEF e
<1>12. After(D, C, d, NodeStream, GrantLocks(d, e), o, W, S) /\ Keeps(GrantLocks(d, e).s, e.s)
  BY <1>0, <1>1, <1>10, AfterGrantLocks
<1>13. PutOff(GrantLocks(d, e).s)
  BY <1>4, <1>10, <1>12 DEF Keeps, PutOff
<1> QED
  BY <1>11, <1>12, <1>13 DEF C, b, Handled

(* A node is sent a read copy.                                             *)
LEMMA DataCopyHandled ==
  ASSUME NEW D \in [Nodes -> DbRecord], NEW C0, NEW o, NEW W, NEW S, NEW i \in Nodes,
         NEW z \in Streams, NEW d \in Nodes, NEW m, Arrives(D, C0, o, W, S, i, z, d, m),
         m.type = "data_copy", PutOff(D[d])
  PROVE  Handled(D, Taken(C0, i, z, d), d, HandleDataCopy(d, Result(D[d]), i, m.content), o, W, S)
<1> DEFINE C == Taken(C0, i, z, d)
           b == m.content
           u == [D[d] EXCEPT !.content = b, !.state = "copy"]
           x == Plain("copy_received")
           C1 == Add(C, d, NodeStream, {i}, x)
           e == Send([Result(D[d]) EXCEPT !.s = u], {i}, x)
<1>0. NodeStream \in Streams /\ D[d] \in DbRecord
  BY DEF Streams
<1>1. /\ m \in Messages /\ C \in ChanType /\ Tidy(C) /\ Answered(D, C)
      /\ Core(D, o, Flight(C0), W, S) /\ Lone(Flight(C0)[d], i, d, m)
      /\ SameSlots(Flight(C), Flight(C0), d) /\ Flight(C)[d] = {}
  <2>1. Concerns(d, i, d, m)
    BY DEF Concerns, Slot, RoleTypes
  <2> QED
    BY <2>1, TakenCopy
<1>2. /\ Held(D, o, Flight(C0), W, S, i) /\ d # i /\ d \in D[i].copylist
      /\ D[d].state = "invalid" /\ Bare(D[d]) /\ b \subseteq W /\ S \subseteq b
  <2>1. CopyTells(D, o, Flight(C0), W, S, d, i, d, m)
    BY <1>1, CopyMessage
  <2> QED
    BY <2>1 DEF CopyTells
<1>3. b \in SUBSET (Writers \cup NoBuffer)
  BY <1>1 DEF Messages
<1>4. u \in DbRecord /\ PutOff(u)
  BY <1>0, <1>3 DEF DbRecord, PutOff
<1>5. x \in Messages /\ x.type \in {"copy_received", "copy_invalidated"}
  BY PlainMessages DEF Plain
<1> HIDE DEF C, b, x
<1>6. /\ C1 \in ChanType /\ Tidy(C1) /\ Asked(C1) = Asked(C)
      /\ SameSlots(Flight(C1), Flight(C), d) /\ Lone(Flight(C1)[d], d, i, x)
  BY <1>0, <1>1, <1>5, SendAnswer
<1> HIDE DEF C1
<1>7. SameSlots(Flight(C1), Flight(C0), d) /\ Lone(Flight(C1)[d], d, i, Plain("copy_received"))
  BY <1>1, <1>6 DEF SameSlots, x
<1>14. /\ u.state = "copy" /\ u.content \subseteq W /\ S \subseteq u.content
       /\ SameCounts(u, D[d]) /\ SameLists(u, D[d])
  BY <1>0, <1>2 DEF DbRecord, SameCounts, SameLists
<1>15. CopyingOn(Flight(C0)[d]) /\ ~InvalidatingOn(Flight(C0)[d])
  <2>1. m.type \notin {"invalidate_copy", "copy_invalidated"}
    OBVIOUS
  <2> QED
    BY <1>1, <2>1, SlotKinds
<1> HIDE DEF u
<1>8. Core(Set(D, d, u), o, Flight(C1), W, S) /\ D[d].content = NoBuffer
  BY <1>1, <1>2, <1>4, <1>7, <1>14, <1>15, CoreCopied
<1>9. Answered(Set(D, d, u), C1)
  <2>1. Asked(C1) \subseteq Asked(C) /\ d \notin Asked(C1)
    BY <1>1, <1>2, <1>6 DEF Answered
  <2> QED
    BY <1>1, <1>4, <2>1, AnsweredKeep
<1>10. After(D, C, d, NodeStream, e, o, W, S) /\ e.s = u
  <2>1. {i} \in SUBSET Nodes
    OBVIOUS
  <2>2. /\ Tidy(Add(C, d, NodeStream, {i}, x)) /\ Answered(Set(D, d, u), Add(C, d, NodeStream, {i}, x))
        /\ Core(Set(D, d, u), o, Flight(Add(C, d, NodeStream, {i}, x)), W, S)
    BY <1>6, <1>8, <1>9 DEF C1
  <2> QED
    BY <1>0, <1>1, <1>4, <1>5, <2>1, <2>2, FirstSends
<1>11. HandleDataCopy(d, Result(D[d]), i, b) = GrantLocks(d, e)
  <2>1. [Result(D[d]) EXCEPT !.s.content = b, !.s.state = "copy"] = [Result(D[d]) EXCEPT !.s = u]
    BY <1>0 DEF Result, u, DbRecord
  <2>2. Result(D[d]).s = D[d]
    BY DEF Result
  <2>3. Expect(Result(D[d]), D[d].content = NoBuffer, "unexpected_copy_data") = Result(D[d])
    BY <1>8 DEF Expect
  <2> QED
    BY <2>1, <2>2, <2>3 DEF HandleDataCopy, Plain, x
<1> HIDE DEF e
<1>12. After(D, C, d, NodeStream, GrantLocks(d, e), o, W, S) /\ Keeps(GrantLocks(d, e).s, e.s)
  BY <1>0, <1>1, <1>10, AfterGrantLocks
<1>13. PutOff(GrantLocks(d, e).s)
  BY <1>4, <1>10, <1>12 DEF Keeps, PutOff
<1> QED
  BY <1>11, <1>12, <1>13 DEF C, b, Handled

(* A node is asked to drop its copy.                                       *)
LEMMA InvalidateCopyHandled ==
  ASSUME NEW D \in [Nodes -> DbRecord], NEW C0, NEW o, NEW W, NEW S, NEW i \in Nodes,
         NEW z \in Streams, NEW d \in Nodes, NEW m, Arrives(D, C0, o, W, S, i, z, d, m),
         m.type = "invalidate_copy", PutOff(D[d])
  PROVE  Handled(D, Taken(C0, i, z, d), d, HandleInvalidateCopy(Result(D[d]), i), o, W, S)
<1> DEFINE C == Taken(C0, i, z, d)
           u == [D[d] EXCEPT !.state = "invalid", !.content = NoBuffer]
           x == Plain("copy_invalidated")
           C1 == Add(C, d, NodeStream, {i}, x)
           e == Send([Result(D[d]) EXCEPT !.s = u], {i}, x)
<1>0. NodeStream \in Streams /\ D[d] \in DbRecord
  BY DEF Streams
<1>1. /\ m \in Messages /\ C \in ChanType /\ Tidy(C) /\ Answered(D, C)
      /\ Core(D, o, Flight(C0), W, S) /\ Lone(Flight(C0)[d], i, d, m)
      /\ SameSlots(Flight(C), Flight(C0), d) /\ Flight(C)[d] = {}
  <2>1. Concerns(d, i, d, m)
    BY DEF Concerns, Slot, RoleTypes
  <2> QED
    BY <2>1, TakenCopy
<1>2. /\ D[d].state = "copy" /\ Bare(D[d])
      /\ \/ Held(D, o, Flight(C0), W, S, i) /\ d # i /\ d \notin D[i].copylist
         \/ i = Owner /\ Unheld(D, o, Flight(C0), W, S, {})
  <2>1. CopyTells(D, o, Flight(C0), W, S, d, i, d, m)
    BY <1>1, CopyMessage
  <2> QED
    BY <2>1 DEF CopyTells
<1>4. u \in DbRecord /\ PutOff(u)
  BY <1>0 DEF DbRecord, PutOff
<1>5. x \in Messages /\ x.type \in {"copy_received", "copy_invalidated"}
  BY PlainMessages DEF Plain
<1> HIDE DEF C, x
<1>6. /\ C1 \in ChanType /\ Tidy(C1) /\ Asked(C1) = Asked(C)
      /\ SameSlots(Flight(C1), Flight(C), d) /\ Lone(Flight(C1)[d], d, i, x)
  BY <1>0, <1>1, <1>5, SendAnswer
<1> HIDE DEF C1
<1>7. SameSlots(Flight(C1), Flight(C0), d) /\ Lone(Flight(C1)[d], d, i, Plain("copy_invalidated"))
  BY <1>1, <1>6 DEF SameSlots, x
<1>8. Core(Set(D, d, u), o, Flight(C1), W, S)
  BY <1>1, <1>2, <1>4, <1>7, CoreDropped
<1> HIDE DEF u
<1>9. Answered(Set(D, d, u), C1)
  <2>1. Asked(C1) \subseteq Asked(C) /\ d \notin Asked(C1)
    BY <1>1, <1>2, <1>6 DEF Answered
  <2> QED
    BY <1>1, <1>4, <2>1, AnsweredKeep
<1>10. After(D, C, d, NodeStream, e, o, W, S) /\ e.s = u
  <2>1. {i} \in SUBSET Nodes
    OBVIOUS
  <2>2. /\ Tidy(Add(C, d, NodeStream, {i}, x)) /\ Answered(Set(D, d, u), Add(C, d, NodeStream, {i}, x))
        /\ Core(Set(D, d, u), o, Flight(Add(C, d, NodeStream, {i}, x)), W, S)
    BY <1>6, <1>8, <1>9 DEF C1
  <2> QED
    BY <1>0, <1>1, <1>4, <1>5, <2>1, <2>2, FirstSends
<1>11. HandleInvalidateCopy(Result(D[d]), i) = e
  <2>1. [Result(D[d]) EXCEPT !.s.state = "invalid", !.s.content = NoBuffer] = [Result(D[d]) EXCEPT !.s = u]
    BY <1>0 DEF Result, u, DbRecord
  <2>2. Result(D[d]).s = D[d]
    BY DEF Result
  <2>3. Expect(Result(D[d]), D[d].state = "copy", "invalidation_of_noncopy") = Result(D[d])
    BY <1>2 DEF Expect
  <2> QED
    BY <2>1, <2>2, <2>3 DEF HandleInvalidateCopy, Plain, x
<1> HIDE DEF e
<1>12. PutOff(e.s)
  BY <1>4, <1>10
<1> QED
  BY <1>10, <1>11, <1>12 DEF C, Handled

(* A holder learns that a copy has arrived.                                *)
LEMMA CopyReceivedHandled ==
  ASSUME NEW D \in [Nodes -> DbRecord], NEW C0, NEW o, NEW W, NEW S, NEW i \in Nodes,
         NEW z \in Streams, NEW d \in Nodes, NEW m, Arrives(D, C0, o, W, S, i, z, d, m),
         m.type = "copy_received", PutOff(D[d])
  PROVE  Handled(D, Taken(C0, i, z, d), d, HandleCopyReceived(d, Result(D[d])), o, W, S)
<1> DEFINE C == Taken(C0, i, z, d)
           u == [D[d] EXCEPT !.pendingCopies = D[d].pendingCopies - 1]
           e == [Result(D[d]) EXCEPT !.s = u]
           h == TryStartRound(e)
<1>0. NodeStream \in Streams /\ D[d] \in DbRecord
  BY DEF Streams
<1>1. /\ C \in ChanType /\ Tidy(C) /\ Answered(D, C)
      /\ Core(D, o, Flight(C0), W, S) /\ Lone(Flight(C0)[i], i, d, m)
      /\ SameSlots(Flight(C), Flight(C0), i) /\ Flight(C)[i] = {}
  <2>1. Concerns(i, i, d, m)
    BY DEF Concerns, Slot, RoleTypes
  <2> QED
    BY <2>1, TakenCopy
<1>2. /\ Held(D, o, Flight(C0), W, S, d) /\ i # d /\ i \in D[d].copylist /\ D[i].state = "copy"
  <2>1. CopyTells(D, o, Flight(C0), W, S, i, i, d, m)
    BY <1>1, CopyMessage
  <2> QED
    BY <2>1 DEF CopyTells
<1>3. D[d].hasCopylist
  BY <1>2 DEF Held, Holder
<1> HIDE DEF C
<1>4. D[d].pendingCopies > 0
  <2>1. D[d].pendingCopies = Cardinality(Copying(Flight(C0)))
    BY <1>2 DEF Held, Holder
  <2>2. i \in Copying(Flight(C0))
    BY <1>1, SlotKinds DEF Copying
  <2>3. Copying(Flight(C0)) \in SUBSET Nodes
    BY DEF Copying
  <2> HIDE DEF Copying
  <2> QED
    BY <2>1, <2>2, <2>3, CountsFinite
<1>5. u \in DbRecord /\ PutOff(u) /\ u.state = D[d].state
  <2>1. D[d].pendingCopies - 1 \in Nat
    BY <1>0, <1>4 DEF DbRecord
  <2> QED
    BY <1>0, <2>1 DEF DbRecord, PutOff
<1>6. Core(Set(D, d, u), o, Flight(C), W, S)
  BY <1>1, <1>2, <1>5, CoreReceived
<1>7. HandleCopyReceived(d, Result(D[d])) = IF u.pendingCopies = 0 THEN UpdateMasterState(d, h) ELSE e
  <2>1. [Result(D[d]) EXCEPT !.s.pendingCopies = IF @ > 0 THEN @ - 1 ELSE 0] = e
    BY <1>0, <1>4 DEF Result, DbRecord
  <2>2. Result(D[d]).s = D[d] /\ e.s = u
    BY DEF Result
  <2>3. Expect(Result(D[d]), D[d].hasCopylist /\ D[d].pendingCopies > 0, "unexpected_copy_receipt") = Result(D[d])
    BY <1>3, <1>4 DEF Expect
  <2>4. HandleCopyReceived(d, Result(D[d])) =
          LET r == [Expect(Result(D[d]), D[d].hasCopylist /\ D[d].pendingCopies > 0, "unexpected_copy_receipt")
                      EXCEPT !.s.pendingCopies = IF @ > 0 THEN @ - 1 ELSE 0]
          IN  IF r.s.pendingCopies = 0 THEN UpdateMasterState(d, TryStartRound(r)) ELSE r
    BY <2>2 DEF HandleCopyReceived
  <2> HIDE DEF u, e
  <2> QED
    BY <2>1, <2>2, <2>3, <2>4
<1> HIDE DEF u
<1>8. Answered(Set(D, d, u), C)
  <2>1. Asked(C) \subseteq Asked(C) /\ (d \in Asked(C) => u.state = "master")
    BY <1>1, <1>5 DEF Answered
  <2> QED
    BY <1>1, <1>5, <2>1, AnsweredKeep
<1>9. After(D, C, d, NodeStream, e, o, W, S) /\ e.s = u
  BY <1>0, <1>1, <1>5, <1>6, <1>8, FirstSets
<1> HIDE DEF e
<1>10. After(D, C, d, NodeStream, h, o, W, S) /\ PutOff(h.s)
  <2>1. /\ After(D, C, d, NodeStream, h, o, W, S)
        /\ h.s.copyWaitlist = e.s.copyWaitlist /\ h.s.busy = e.s.busy
    BY <1>0, <1>1, <1>9, AfterRound
  <2> HIDE DEF h
  <2> QED
    BY <1>5, <1>9, <2>1 DEF PutOff
<1> HIDE DEF h
<1>11. /\ After(D, C, d, NodeStream, UpdateMasterState(d, h), o, W, S)
       /\ PutOff(UpdateMasterState(d, h).s)
  BY <1>0, <1>1, <1>10, AfterUpdate
<1> QED
  BY <1>5, <1>7, <1>9, <1>11 DEF C, Handled

(* The next master gets the copylist; it has a copy itself.                *)
LEMMA TakeMasterKnown ==
  ASSUME NEW D \in [Nodes -> DbRecord], NEW C0, NEW o, NEW W, NEW S, NEW i \in Nodes,
         NEW z \in Streams, NEW d \in Nodes, NEW m, Arrives(D, C0, o, W, S, i, z, d, m),
         m.type = "take_master", PutOff(D[d]), d \in m.copylist, NEW supplier
  PROVE  Handled(D, Taken(C0, i, z, d), d,
                 HandleTakeMaster(d, Result(D[d]), m.copylist, supplier), o, W, S)
<1> DEFINE C == Taken(C0, i, z, d)
           L == m.copylist
           u == [D[d] EXCEPT !.hasCopylist = TRUE, !.copylist = L \ {d}, !.state = "master"]
           x == Plain("is_master")
           C1 == Add(C, d, NodeStream, {Owner}, x)
           e == Send([Result(D[d]) EXCEPT !.s = u], {Owner}, x)
<1>0. NodeStream \in Streams /\ D[d] \in DbRecord /\ Owner \in Nodes
  BY OwnerAssumption DEF Streams
<1>1. /\ C \in ChanType /\ Tidy(C) /\ Answered(D, C)
      /\ Core(D, o, Flight(C0), W, S) /\ Lone(Flight(C0)[NoNode], i, d, m)
      /\ SameCopies(Flight(C), Flight(C0)) /\ Flight(C)[NoNode] = {}
  <2>1. m.type \in RoleTypes
    BY DEF RoleTypes
  <2> QED
    BY <2>1, TakenRole
<1>2. /\ L \in SUBSET Nodes /\ Unheld(D, o, Flight(C0), W, S, L)
      /\ L # {} /\ Moving(o) /\ Still(Flight(C0)) /\ o.target = d
  <2>1. RoleTells(D, o, Flight(C0), W, S, i, d, m)
    BY <1>1, RoleMessage
  <2> QED
    BY <2>1 DEF RoleTells
<1>3. d \in L
  OBVIOUS
<1> HIDE DEF L
<1>4. u \in DbRecord /\ PutOff(u) /\ u.state = "master"
  <2>1. L \ {d} \in SUBSET Nodes
    BY <1>2
  <2> QED
    BY <1>0, <2>1 DEF DbRecord, PutOff
<1>5. x \in Messages /\ x.type \in RoleTypes /\ x.type # "release_master_request"
  BY PlainMessages DEF Plain, RoleTypes
<1> HIDE DEF C, x
<1>6. /\ C1 \in ChanType /\ Tidy(C1) /\ Asked(C1) = Asked(C)
      /\ SameCopies(Flight(C1), Flight(C)) /\ Lone(Flight(C1)[NoNode], d, Owner, x)
  BY <1>0, <1>1, <1>5, SendRole
<1> HIDE DEF C1
<1>7. SameCopies(Flight(C1), Flight(C0)) /\ TakesOver(Flight(C1), u, D[d], d, L)
  BY <1>1, <1>3, <1>6 DEF SameCopies, x, TakesOver
<1>14. [Result(D[d]) EXCEPT !.s.hasCopylist = TRUE, !.s.copylist = L \ {d}, !.s.state = "master"]
         = [Result(D[d]) EXCEPT !.s = u]
  BY <1>0 DEF Result, DbRecord
<1>15. [[Result(D[d]) EXCEPT !.s.hasCopylist = TRUE, !.s.copylist = L]
         EXCEPT !.s.state = "master", !.s.copylist = @ \ {d}] = [Result(D[d]) EXCEPT !.s = u]
  BY <1>0 DEF Result, DbRecord
<1> HIDE DEF u
<1>8. Core(Set(D, d, u), o, Flight(C1), W, S) /\ (d \in L => D[d].state = "copy")
  BY <1>1, <1>2, <1>4, <1>7, CoreTaken
<1>9. Answered(Set(D, d, u), C1)
  <2>1. Asked(C1) \subseteq Asked(C) /\ (d \in Asked(C1) => u.state = "master")
    BY <1>4, <1>6
  <2> QED
    BY <1>1, <1>4, <2>1, AnsweredKeep
<1>10. After(D, C, d, NodeStream, e, o, W, S) /\ e.s = u
  <2>1. {Owner} \in SUBSET Nodes
    BY <1>0
  <2>2. /\ Tidy(Add(C, d, NodeStream, {Owner}, x)) /\ Answered(Set(D, d, u), Add(C, d, NodeStream, {Owner}, x))
        /\ Core(Set(D, d, u), o, Flight(Add(C, d, NodeStream, {Owner}, x)), W, S)
    BY <1>6, <1>8, <1>9 DEF C1
  <2> QED
    BY <1>0, <1>1, <1>4, <1>5, <2>1, <2>2, FirstSends
<1>11. HandleTakeMaster(d, Result(D[d]), L, supplier) = GrantLocks(d, e)
  <2> DEFINE r == [Result(D[d]) EXCEPT !.s.hasCopylist = TRUE, !.s.copylist = L]
  <2>1. r.s.state = "copy"
    BY <1>0, <1>3, <1>8 DEF Result, DbRecord
  <2>2. Expect(r, r.s.state = "copy", "listed_without_a_copy") = r
    BY <2>1 DEF Expect
  <2>3. HandleTakeMaster(d, Result(D[d]), L, supplier) =
          GrantLocks(d, Send([r EXCEPT !.s.state = "master", !.s.copylist = @ \ {d}],
                             {Owner}, [type |-> "is_master"]))
    BY <1>3, <2>2 DEF HandleTakeMaster
  <2> QED
    BY <1>15, <2>3 DEF Plain, x
<1> HIDE DEF e
<1>12. After(D, C, d, NodeStream, GrantLocks(d, e), o, W, S) /\ Keeps(GrantLocks(d, e).s, e.s)
  BY <1>0, <1>1, <1>10, AfterGrantLocks
<1>13. PutOff(GrantLocks(d, e).s)
  BY <1>4, <1>10, <1>12 DEF Keeps, PutOff
<1> QED
  BY <1>11, <1>12, <1>13 DEF C, L, Handled

(* The next master gets the copylist; it must ask for the contents.        *)
LEMMA TakeMasterUnknown ==
  ASSUME NEW D \in [Nodes -> DbRecord], NEW C0, NEW o, NEW W, NEW S, NEW i \in Nodes,
         NEW z \in Streams, NEW d \in Nodes, NEW m, Arrives(D, C0, o, W, S, i, z, d, m),
         m.type = "take_master", PutOff(D[d]), d \notin m.copylist, NEW supplier \in m.copylist
  PROVE  Handled(D, Taken(C0, i, z, d), d,
                 HandleTakeMaster(d, Result(D[d]), m.copylist, supplier), o, W, S)
<1> DEFINE C == Taken(C0, i, z, d)
           L == m.copylist
           u == [D[d] EXCEPT !.hasCopylist = TRUE, !.copylist = L]
           x == DataRequest(d)
           C1 == Add(C, d, NodeStream, {supplier}, x)
           e == Send([Result(D[d]) EXCEPT !.s = u], {supplier}, x)
<1>0. NodeStream \in Streams /\ D[d] \in DbRecord
  BY DEF Streams
<1>1. /\ C \in ChanType /\ Tidy(C) /\ Answered(D, C)
      /\ Core(D, o, Flight(C0), W, S) /\ Lone(Flight(C0)[NoNode], i, d, m)
      /\ SameCopies(Flight(C), Flight(C0)) /\ Flight(C)[NoNode] = {}
  <2>1. m.type \in RoleTypes
    BY DEF RoleTypes
  <2> QED
    BY <2>1, TakenRole
<1>2. /\ L \in SUBSET Nodes /\ Unheld(D, o, Flight(C0), W, S, L)
      /\ L # {} /\ Moving(o) /\ Still(Flight(C0)) /\ o.target = d
  <2>1. RoleTells(D, o, Flight(C0), W, S, i, d, m)
    BY <1>1, RoleMessage
  <2> QED
    BY <2>1 DEF RoleTells
<1>3. d \notin L /\ supplier \in L /\ supplier \in Nodes
  BY <1>2
<1> HIDE DEF L
<1>4. u \in DbRecord /\ PutOff(u) /\ u.state = D[d].state
  BY <1>0, <1>2 DEF DbRecord, PutOff
<1>5. x \in Messages /\ x.type \in RoleTypes /\ x.type # "release_master_request"
  BY PlainMessages DEF DataRequest, RoleTypes
<1> HIDE DEF C, x
<1>6. /\ C1 \in ChanType /\ Tidy(C1) /\ Asked(C1) = Asked(C)
      /\ SameCopies(Flight(C1), Flight(C)) /\ Lone(Flight(C1)[NoNode], d, supplier, x)
  BY <1>0, <1>1, <1>3, <1>5, SendRole
<1> HIDE DEF C1
<1>7. SameCopies(Flight(C1), Flight(C0)) /\ TakesOver(Flight(C1), u, D[d], d, L)
  BY <1>1, <1>3, <1>6 DEF SameCopies, x, TakesOver
<1>14. [Result(D[d]) EXCEPT !.s.hasCopylist = TRUE, !.s.copylist = L] = [Result(D[d]) EXCEPT !.s = u]
  BY <1>0 DEF Result, DbRecord
<1> HIDE DEF u
<1>8. Core(Set(D, d, u), o, Flight(C1), W, S) /\ (d \notin L => D[d].state = "invalid")
  BY <1>1, <1>2, <1>4, <1>7, CoreTaken
<1>9. Answered(Set(D, d, u), C1)
  <2>1. Asked(C1) \subseteq Asked(C) /\ (d \in Asked(C1) => u.state = "master")
    BY <1>1, <1>4, <1>6 DEF Answered
  <2> QED
    BY <1>1, <1>4, <2>1, AnsweredKeep
<1>10. After(D, C, d, NodeStream, e, o, W, S) /\ e.s = u
  <2>1. {supplier} \in SUBSET Nodes
    BY <1>3
  <2>2. /\ Tidy(Add(C, d, NodeStream, {supplier}, x))
        /\ Answered(Set(D, d, u), Add(C, d, NodeStream, {supplier}, x))
        /\ Core(Set(D, d, u), o, Flight(Add(C, d, NodeStream, {supplier}, x)), W, S)
    BY <1>6, <1>8, <1>9 DEF C1
  <2> QED
    BY <1>0, <1>1, <1>4, <1>5, <2>1, <2>2, FirstSends
<1>11. HandleTakeMaster(d, Result(D[d]), L, supplier) = e
  <2> DEFINE r == [Result(D[d]) EXCEPT !.s.hasCopylist = TRUE, !.s.copylist = L]
  <2>1. r.s.state = "invalid"
    BY <1>0, <1>3, <1>8 DEF Result, DbRecord
  <2>2. Expect(r, r.s.state = "invalid" /\ L # {}, "copy_without_being_listed") = r
    BY <1>2, <2>1 DEF Expect
  <2>3. HandleTakeMaster(d, Result(D[d]), L, supplier) =
          Send(r, {supplier}, [type |-> "transfer_data_to_new_master", node |-> d])
    BY <1>3, <2>2 DEF HandleTakeMaster
  <2> QED
    BY <1>14, <2>3 DEF DataRequest, x
<1> HIDE DEF e
<1>12. PutOff(e.s)
  BY <1>4, <1>10
<1> QED
  BY <1>10, <1>11, <1>12 DEF C, L, Handled

(* A holder, or the owner of a destroyed block, learns that a copy has been*)
(* dropped.  The last answer of a round settles the finished writers.      *)
LEMMA CopyInvalidatedHandled ==
  ASSUME NEW D \in [Nodes -> DbRecord], NEW C0, NEW o, NEW W, NEW S, NEW i \in Nodes,
         NEW z \in Streams, NEW d \in Nodes, NEW m, Arrives(D, C0, o, W, S, i, z, d, m),
         m.type = "copy_invalidated", PutOff(D[d])
  PROVE  LET q == IF d = Owner /\ o.master = Destroyed THEN Result(D[d])
                  ELSE HandleCopyInvalidated(d, Result(D[d]))
         IN  Handled(D, Taken(C0, i, z, d), d, q, o, W, S \cup (D[d].waiters \ q.s.waiters))
<1> DEFINE C == Taken(C0, i, z, d)
           last == D[d].pendingInvalidations = 1
           u == [D[d] EXCEPT !.pendingInvalidations = D[d].pendingInvalidations - 1,
                             !.waiters = IF D[d].pendingInvalidations = 1 THEN {} ELSE D[d].waiters]
           e == [Result(D[d]) EXCEPT !.s = u]
           h == UpdateMasterState(d, e)
           S1 == S \cup (D[d].waiters \ u.waiters)
<1>0. NodeStream \in Streams /\ D[d] \in DbRecord
  BY DEF Streams
<1>1. /\ C \in ChanType /\ Tidy(C) /\ Answered(D, C)
      /\ Core(D, o, Flight(C0), W, S) /\ Lone(Flight(C0)[i], i, d, m)
      /\ SameSlots(Flight(C), Flight(C0), i) /\ Flight(C)[i] = {}
  <2>1. Concerns(i, i, d, m)
    BY DEF Concerns, Slot, RoleTypes
  <2> QED
    BY <2>1, TakenCopy
<1>2. /\ D[i].state = "invalid"
      /\ \/ /\ Held(D, o, Flight(C0), W, S, d) /\ i # d /\ i \notin D[d].copylist
            /\ ~(d = Owner /\ o.master = Destroyed)
         \/ d = Owner /\ Unheld(D, o, Flight(C0), W, S, {}) /\ o.master = Destroyed
  <2>1. CopyTells(D, o, Flight(C0), W, S, i, i, d, m)
    BY <1>1, CopyMessage
  <2> QED
    BY <2>1 DEF CopyTells
<1> HIDE DEF C
<1>3. ASSUME d = Owner, Unheld(D, o, Flight(C0), W, S, {}), o.master = Destroyed
      PROVE  Handled(D, C, d, Result(D[d]), o, W, S \cup (D[d].waiters \ Result(D[d]).s.waiters))
  <2>1. Core(D, o, Flight(C), W, S)
    BY <1>1, <1>2, <1>3, CoreGone
  <2>2. Sound(D, C, o, W, S)
    BY <1>1, <2>1 DEF Sound
  <2>3. After(D, C, d, NodeStream, Result(D[d]), o, W, S) /\ Result(D[d]).s = D[d]
    BY <1>0, <2>2, AfterStart
  <2>4. S \cup (D[d].waiters \ Result(D[d]).s.waiters) = S
    BY <2>3
  <2> QED
    BY <2>3, <2>4 DEF Handled
<1>4. ASSUME Held(D, o, Flight(C0), W, S, d), i # d, i \notin D[d].copylist
      PROVE  LET q == HandleCopyInvalidated(d, Result(D[d]))
             IN  Handled(D, C, d, q, o, W, S \cup (D[d].waiters \ q.s.waiters))
  <2>1. /\ D[d].hasCopylist
        /\ D[d].pendingInvalidations = Cardinality(Invalidating(Flight(C0)))
        /\ D[d].waiters \subseteq W /\ (D[d].pendingInvalidations > 0 => D[d].copylist = {})
    BY <1>4 DEF Held, Holder
  <2>2. D[d].pendingInvalidations > 0 /\ D[d].pendingInvalidations \in Nat
    <3>1. i \in Invalidating(Flight(C0))
      BY <1>1, SlotKinds DEF Invalidating
    <3>2. Invalidating(Flight(C0)) \in SUBSET Nodes
      BY DEF Invalidating
    <3> HIDE DEF Invalidating
    <3> QED
      BY <2>1, <3>1, <3>2, CountsFinite
  <2>3. /\ u \in DbRecord /\ PutOff(u) /\ u.state = D[d].state /\ u.hasCopylist = D[d].hasCopylist
        /\ u.copylist = D[d].copylist
        /\ u.pendingInvalidations = D[d].pendingInvalidations - 1
        /\ u.waiters = IF last THEN {} ELSE D[d].waiters
        /\ Confirmed(u, D[d])
    <3>1. D[d].pendingInvalidations - 1 \in Nat
      BY <2>2
    <3> QED
      BY <1>0, <3>1 DEF DbRecord, PutOff, Confirmed
  <2> HIDE DEF u, last
  <2>4. Core(Set(D, d, u), o, Flight(C), W, S)
    BY <1>1, <1>2, <1>4, <2>3, CoreConfirmed
  <2> USE DEF u, last
  <2> DEFINE v  == [D[d] EXCEPT !.pendingInvalidations = D[d].pendingInvalidations - 1]
             r  == [Result(D[d]) EXCEPT !.s = v]
             v0 == [v EXCEPT !.waiters = {}]
  <2>5. HandleCopyInvalidated(d, Result(D[d])) =
          IF last THEN UpdateMasterState(d, [Result(D[d]) EXCEPT !.s = v0]) ELSE r
    <3>1. Expect(Result(D[d]), Result(D[d]).s.hasCopylist /\ Result(D[d]).s.pendingInvalidations > 0,
                 "unexpected_invalidation") = Result(D[d])
      BY <2>1, <2>2 DEF Expect, Result
    <3>2. [Result(D[d]) EXCEPT !.s.pendingInvalidations = IF @ > 0 THEN @ - 1 ELSE 0] = r
      BY <1>0, <2>2 DEF Result, DbRecord
    <3>3. [r EXCEPT !.s.waiters = {}] = [Result(D[d]) EXCEPT !.s = v0]
      BY <1>0 DEF Result, DbRecord
    <3>4. r.s.pendingInvalidations = 0 <=> last
      <4>1. r.s.pendingInvalidations = D[d].pendingInvalidations - 1
        BY <1>0 DEF Result, DbRecord
      <4> HIDE DEF r
      <4> QED
        BY <2>2, <4>1
    <3>5. HandleCopyInvalidated(d, Result(D[d])) =
            LET x == [Expect(Result(D[d]), Result(D[d]).s.hasCopylist /\ Result(D[d]).s.pendingInvalidations > 0,
                             "unexpected_invalidation")
                        EXCEPT !.s.pendingInvalidations = IF @ > 0 THEN @ - 1 ELSE 0]
            IN  IF x.s.pendingInvalidations = 0
                  THEN UpdateMasterState(d, [x EXCEPT !.s.waiters = {}]) ELSE x
      BY DEF HandleCopyInvalidated
    <3> HIDE DEF r, v0, last
    <3> QED
      BY <3>1, <3>2, <3>3, <3>4, <3>5
  <2>6. /\ last => HandleCopyInvalidated(d, Result(D[d])) = h
        /\ ~last => HandleCopyInvalidated(d, Result(D[d])) = e
    <3>1. (last => u = v0) /\ (~last => u = v)
      BY <1>0 DEF DbRecord
    <3> HIDE DEF u, v, v0, last
    <3> QED
      BY <2>5, <3>1
  <2> HIDE DEF v, v0
  <2> HIDE DEF u
  <2>7. Core(Set(D, d, u), o, Flight(C), W, S1)
    <3>1. CASE last
      <4>1. Set(D, d, u)[d] = u
        BY <2>3, SetFacts
      <4>2. S \subseteq S1 /\ S1 \subseteq W
        BY <1>1, <2>1 DEF Core, Buffers
      <4>3. /\ Set(D, d, u)[d].hasCopylist /\ Set(D, d, u)[d].copylist = {}
            /\ Set(D, d, u)[d].pendingInvalidations = 0
        <5>1. u.pendingInvalidations = 0
          BY <2>2, <2>3, <3>1 DEF last
        <5> QED
          BY <2>1, <2>2, <2>3, <4>1, <5>1
      <4> HIDE DEF S1
      <4> QED
        BY <2>4, <4>2, <4>3, CoreSettle
    <3>2. CASE ~last
      <4>1. S1 = S
        BY <2>3, <3>2
      <4> QED
        BY <2>4, <4>1
    <3> QED
      BY <3>1, <3>2
  <2> HIDE DEF S1, last
  <2>8. Answered(Set(D, d, u), C)
    <3>1. Asked(C) \subseteq Asked(C) /\ (d \in Asked(C) => u.state = "master")
      BY <1>1, <2>3 DEF Answered
    <3> QED
      BY <1>1, <2>3, <3>1, AnsweredKeep
  <2>9. After(D, C, d, NodeStream, e, o, W, S1) /\ e.s = u
    BY <1>0, <1>1, <2>3, <2>7, <2>8, FirstSets
  <2> HIDE DEF e
  <2>10. e \in NodeResults /\ PutOff(e.s)
    BY <2>3, <2>9 DEF After
  <2>11. After(D, C, d, NodeStream, h, o, W, S1) /\ PutOff(h.s)
    BY <1>0, <1>1, <2>9, <2>10, AfterUpdate
  <2>12. h.s.waiters = u.waiters
    BY <2>9, <2>10, UpdateMasterStateType DEF SameLocks
  <2> HIDE DEF h
  <2> QED
    BY <2>6, <2>9, <2>10, <2>11, <2>12 DEF Handled, S1
<1> QED
  BY <1>2, <1>3, <1>4 DEF C

(* When no finishing writer is freed, the settled writers stay the same.   *)
LEMMA NothingFreed ==
  ASSUME NEW D, NEW C, NEW d, NEW q, NEW o, NEW W, NEW S, Handled(D, C, d, q, o, W, S),
         q.s.waiters = D[d].waiters
  PROVE  Handled(D, C, d, q, o, W, S \cup (D[d].waiters \ q.s.waiters))
<1>1. S \cup (D[d].waiters \ q.s.waiters) = S
  OBVIOUS
<1> QED
  BY <1>1

(* Every message of a node is handled without a failed assertion.          *)
LEMMA NodeHandled ==
  ASSUME TypeOK, NEW S, NEW i \in Nodes, NEW z \in Streams, NEW d \in Nodes, NEW m,
         Arrives(db, chan, owner, written, S, i, z, d, m), m.type \notin ToOwner, PutOff(db[d]),
         NEW supplier \in Suppliers(d, m)
  PROVE  LET q == NodeResult(d, m, i, supplier)
         IN  /\ q \in NodeResults /\ Advances(db[d], q.s)
             /\ Handled(db, Taken(chan, i, z, d), d, q, owner, written,
                        S \cup (db[d].waiters \ q.s.waiters))
<1> DEFINE q == NodeResult(d, m, i, supplier)
           C == Taken(chan, i, z, d)
<1>1. db \in [Nodes -> DbRecord]
  BY DEF TypeOK
<1>2. m \in Messages
  BY TakenFlight DEF Arrives, Sound
<1>3. /\ q \in NodeResults /\ Advances(db[d], q.s)
      /\ m.type # "copy_invalidated" => q.s.waiters = db[d].waiters
  BY <1>2, NodeResultType
<1>4. CASE m.type = "release_master_request"
  <2>1. q = HandleReleaseRequest(d, Result(db[d]))
    BY <1>4 DEF NodeResult
  <2>2. Handled(db, C, d, HandleReleaseRequest(d, Result(db[d])), owner, written, S)
    BY <1>1, <1>4, ReleaseRequestHandled
  <2> QED
    BY <1>3, <1>4, <2>1, <2>2, NothingFreed
<1>5. CASE m.type = "transfer_data_to_copy"
  <2>1. q = HandleTransferToCopy(d, Result(db[d]), m.node)
    BY <1>5 DEF NodeResult
  <2>2. Handled(db, C, d, HandleTransferToCopy(d, Result(db[d]), m.node), owner, written, S)
    BY <1>1, <1>5, TransferToCopyHandled
  <2> QED
    BY <1>3, <1>5, <2>1, <2>2, NothingFreed
<1>6. CASE m.type = "transfer_data_to_new_master"
  <2>1. q = HandleTransferToNewMaster(Result(db[d]), m.node)
    BY <1>6 DEF NodeResult
  <2>2. Handled(db, C, d, HandleTransferToNewMaster(Result(db[d]), m.node), owner, written, S)
    BY <1>1, <1>6, TransferToNewMasterHandled
  <2> QED
    BY <1>3, <1>6, <2>1, <2>2, NothingFreed
<1>7. CASE m.type = "data"
  <2>1. q = HandleData(d, Result(db[d]), m.content)
    BY <1>7 DEF NodeResult
  <2>2. Handled(db, C, d, HandleData(d, Result(db[d]), m.content), owner, written, S)
    BY <1>1, <1>7, DataHandled
  <2> QED
    BY <1>3, <1>7, <2>1, <2>2, NothingFreed
<1>8. CASE m.type = "data_copy"
  <2>1. q = HandleDataCopy(d, Result(db[d]), i, m.content)
    BY <1>8 DEF NodeResult
  <2>2. Handled(db, C, d, HandleDataCopy(d, Result(db[d]), i, m.content), owner, written, S)
    BY <1>1, <1>8, DataCopyHandled
  <2> QED
    BY <1>3, <1>8, <2>1, <2>2, NothingFreed
<1>9. CASE m.type = "copy_received"
  <2>1. q = HandleCopyReceived(d, Result(db[d]))
    BY <1>9 DEF NodeResult
  <2>2. Handled(db, C, d, HandleCopyReceived(d, Result(db[d])), owner, written, S)
    BY <1>1, <1>9, CopyReceivedHandled
  <2> QED
    BY <1>3, <1>9, <2>1, <2>2, NothingFreed
<1>10. CASE m.type = "invalidate_copy"
  <2>1. q = HandleInvalidateCopy(Result(db[d]), i)
    BY <1>10 DEF NodeResult
  <2>2. Handled(db, C, d, HandleInvalidateCopy(Result(db[d]), i), owner, written, S)
    BY <1>1, <1>10, InvalidateCopyHandled
  <2> QED
    BY <1>3, <1>10, <2>1, <2>2, NothingFreed
<1>11. CASE m.type = "take_master"
  <2>1. q = HandleTakeMaster(d, Result(db[d]), m.copylist, supplier)
    BY <1>11 DEF NodeResult
  <2>2. CASE d \in m.copylist
    <3>1. Handled(db, C, d, HandleTakeMaster(d, Result(db[d]), m.copylist, supplier), owner, written, S)
      BY <1>1, <1>11, <2>2, TakeMasterKnown
    <3> QED
      BY <1>3, <1>11, <2>1, <3>1, NothingFreed
  <2>3. CASE d \notin m.copylist
    <3>1. supplier \in m.copylist
      BY <1>11, <2>3 DEF Suppliers
    <3>2. Handled(db, C, d, HandleTakeMaster(d, Result(db[d]), m.copylist, supplier), owner, written, S)
      BY <1>1, <1>11, <2>3, <3>1, TakeMasterUnknown
    <3> QED
      BY <1>3, <1>11, <2>1, <3>2, NothingFreed
  <2> QED
    BY <2>2, <2>3
<1>12. CASE m.type = "copy_invalidated"
  <2> DEFINE x == IF d = Owner /\ owner.master = Destroyed THEN Result(db[d])
                  ELSE HandleCopyInvalidated(d, Result(db[d]))
  <2>1. q = x
    BY <1>12 DEF NodeResult
  <2>2. Handled(db, C, d, x, owner, written, S \cup (db[d].waiters \ x.s.waiters))
    BY <1>1, <1>12, CopyInvalidatedHandled
  <2> HIDE DEF x
  <2> QED
    BY <1>3, <2>1, <2>2
<1> HIDE DEF q, C
<1> QED
  BY <1>2, <1>4, <1>5, <1>6, <1>7, <1>8, <1>9, <1>10, <1>11, <1>12 DEF Messages, ToOwner, q, C

-----------------------------------------------------------------------------
(***************************************************************************)
(* The handlers of the owner.                                              *)
(***************************************************************************)
(* The sequence w of messages is appended to the owner's stream towards e. *)
AddAll(C, e, w) == Post(C, Owner, NodeStream, [NoMessages EXCEPT ![e] = w])

(* The places of the channels after such an addition.                      *)
LEMMA AddAllPlaces ==
  ASSUME NEW C \in ChanType, NEW e \in Nodes, NEW w \in Seq(Messages)
  PROVE  LET C1 == AddAll(C, e, w) IN
         /\ C1 \in ChanType
         /\ \A x \in Places(C) : x \in Places(C1) /\ At(C1, x) = At(C, x)
         /\ \A x \in Places(C1) \ Places(C) :
              /\ x[1] = Owner /\ x[2] = NodeStream /\ x[3] = e
              /\ \E j \in 1..Len(w) : At(C1, x) = w[j]
<1> DEFINE out == [NoMessages EXCEPT ![e] = w]
           C1  == Post(C, Owner, NodeStream, out)
           row == [d \in Nodes |-> C[Owner][NodeStream][d] \o out[d]]
<1>0. Owner \in Nodes /\ NodeStream \in Streams
  BY OwnerAssumption DEF Streams
<1>1. out \in [Nodes -> Seq(Messages)] /\ out[e] = w /\ \A d \in Nodes \ {e} : out[d] = <<>>
  <2>1. <<>> \in Seq(Messages)
    OBVIOUS
  <2> QED
    BY <2>1 DEF NoMessages
<1> HIDE DEF out
<1>2. C1 \in ChanType
  BY <1>0, <1>1, PostType
<1>3. \A k \in Nodes, z \in Streams, d \in Nodes : C[k][z][d] \in Seq(Messages)
  BY DEF ChanType
<1>4. C1 = [C EXCEPT ![Owner] = [C[Owner] EXCEPT ![NodeStream] = row]]
  BY DEF Post
<1> HIDE DEF C1
<1>5. ASSUME NEW k \in Nodes, NEW z \in Streams, NEW d \in Nodes
      PROVE  /\ k = Owner /\ z = NodeStream /\ d = e => C1[k][z][d] = C[k][z][d] \o w
             /\ ~(k = Owner /\ z = NodeStream /\ d = e) => C1[k][z][d] = C[k][z][d]
  <2>1. \A v \in Seq(Messages) : v \o <<>> = v
    OBVIOUS
  <2>2. k = Owner /\ z = NodeStream => C1[k][z] = row
    <3> HIDE DEF row
    <3> QED
      BY <1>0, <1>4 DEF ChanType
  <2>3. ~(k = Owner /\ z = NodeStream) => C1[k][z] = C[k][z]
    <3> HIDE DEF row
    <3> QED
      BY <1>0, <1>4 DEF ChanType
  <2>4. row[d] = C[Owner][NodeStream][d] \o out[d]
    OBVIOUS
  <2>5. C[Owner][NodeStream][d] \in Seq(Messages)
    BY <1>0, <1>3
  <2> HIDE DEF row
  <2>6. d # e => row[d] = C[Owner][NodeStream][d]
    BY <1>1, <2>1, <2>4, <2>5
  <2> QED
    BY <1>1, <2>2, <2>3, <2>4, <2>6
<1>6. ASSUME NEW v \in Seq(Messages)
      PROVE  /\ DOMAIN v = 1..Len(v) /\ Len(v) \in Nat
             /\ Len(w) \in Nat /\ DOMAIN (v \o w) = 1..(Len(v) + Len(w))
             /\ \A i \in 1..Len(v) : (v \o w)[i] = v[i]
             /\ \A i \in 1..(Len(v) + Len(w)) : i > Len(v) => (v \o w)[i] = w[i - Len(v)]
  OBVIOUS
<1>7. ASSUME NEW x \in Places(C) PROVE x \in Places(C1) /\ At(C1, x) = At(C, x)
  <2> DEFINE v == C[x[1]][x[2]][x[3]]
             v1 == C1[x[1]][x[2]][x[3]]
  <2>1. /\ x[1] \in Nodes /\ x[2] \in Streams /\ x[3] \in Nodes
        /\ x[4] \in DOMAIN v /\ x = <<x[1], x[2], x[3], x[4]>>
    BY PlacesAre
  <2>2. v \in Seq(Messages) /\ (v1 = v \/ v1 = v \o w)
    BY <1>3, <1>5, <2>1, Zenon
  <2> HIDE DEF v, v1
  <2>3. x[4] \in DOMAIN v1 /\ v1[x[4]] = v[x[4]]
    <3>1. x[4] \in 1..Len(v) /\ Len(v) \in Nat /\ Len(w) \in Nat
      BY <1>6, <2>1, <2>2
    <3>2. x[4] \in 1..(Len(v) + Len(w))
      BY <3>1
    <3> QED
      BY <1>6, <2>1, <2>2, <3>1, <3>2
  <2> QED
    BY <2>1, <2>3, PlacesIn DEF At, v, v1
<1>8. ASSUME NEW x \in Places(C1) \ Places(C)
      PROVE  /\ x[1] = Owner /\ x[2] = NodeStream /\ x[3] = e
             /\ \E j \in 1..Len(w) : At(C1, x) = w[j]
  <2> DEFINE v == C[x[1]][x[2]][x[3]]
  <2>1. /\ x[1] \in Nodes /\ x[2] \in Streams /\ x[3] \in Nodes
        /\ x[4] \in DOMAIN C1[x[1]][x[2]][x[3]] /\ x = <<x[1], x[2], x[3], x[4]>>
    BY PlacesAre
  <2>2. x[4] \notin DOMAIN v
    BY <2>1, PlacesIn
  <2>3. x[1] = Owner /\ x[2] = NodeStream /\ x[3] = e
    BY <1>5, <2>1, <2>2
  <2>8. C1[x[1]][x[2]][x[3]] = v \o w /\ v \in Seq(Messages)
    BY <1>3, <1>5, <2>1, <2>3, Zenon
  <2>4. v \in Seq(Messages) /\ x[4] \in DOMAIN (v \o w) /\ At(C1, x) = (v \o w)[x[4]]
    <3> HIDE DEF v
    <3> QED
      BY <2>1, <2>8 DEF At
  <2> HIDE DEF v
  <2>5. /\ x[4] \in 1..(Len(v) + Len(w)) /\ x[4] \notin 1..Len(v)
        /\ Len(v) \in Nat /\ Len(w) \in Nat
    BY <1>6, <2>2, <2>4
  <2>6. x[4] > Len(v) /\ x[4] - Len(v) \in 1..Len(w)
    BY <2>5
  <2>7. At(C1, x) = w[x[4] - Len(v)]
    BY <1>6, <2>4, <2>5, <2>6
  <2> QED
    BY <2>3, <2>6, <2>7
<1> QED
  BY <1>2, <1>7, <1>8 DEF C1, out, AddAll

(* Every message of w asks for a copy for another node than e.             *)
AsksOnly(w, e) ==
  \A j \in 1..Len(w) : w[j].type = "transfer_data_to_copy" /\ w[j].node # e

(* The owner asks a master for copies for several other nodes.             *)
LEMMA SendAsks ==
  ASSUME NEW C \in ChanType, Tidy(C), NEW e \in Nodes, Flight(C)[NoNode] = {},
         NEW w \in Seq(Messages), AsksOnly(w, e)
  PROVE  LET C1 == AddAll(C, e, w) IN
         /\ C1 \in ChanType /\ Tidy(C1) /\ Asked(C1) \subseteq Asked(C) \cup {e}
         /\ Flight(C1) = Flight(C)
<1> DEFINE C1 == AddAll(C, e, w)
<1>1. /\ C1 \in ChanType
      /\ \A x \in Places(C) : x \in Places(C1) /\ At(C1, x) = At(C, x)
      /\ \A x \in Places(C1) \ Places(C) :
           /\ x[1] = Owner /\ x[2] = NodeStream /\ x[3] = e
           /\ \E j \in 1..Len(w) : At(C1, x) = w[j]
  BY AddAllPlaces
<1> HIDE DEF C1
<1>2. \A x \in Places(C1) \ Places(C) :
        /\ x[1] = Owner /\ x[2] = NodeStream /\ x[3] = e
        /\ At(C1, x).type = "transfer_data_to_copy" /\ At(C1, x).node # e
  BY <1>1 DEF AsksOnly
<1>3. \A x \in Places(C) : SlotAt(C1, x) = SlotAt(C, x)
  BY <1>1 DEF SlotAt
<1>4. \A x \in Places(C1) \ Places(C) : SlotAt(C1, x) \notin Slots
  <2>1. Destroyed \notin Slots
    BY MasterAssumption DEF Slots
  <2> QED
    BY <1>2, <2>1 DEF SlotAt, Slot, RoleTypes
<1>5. ASSUME NEW x \in Places(C1), NEW y \in Places(C1),
             SlotAt(C1, x) \in Slots, SlotAt(C1, x) = SlotAt(C1, y)
      PROVE  x = y
  <2>1. x \in Places(C) /\ y \in Places(C)
    BY <1>4, <1>5
  <2> QED
    BY <1>3, <1>5, <2>1 DEF Tidy, Unique
<1>6. ASSUME NEW x \in Places(C1)
      PROVE  /\ At(C1, x).type \in OwnerAsks => x[1] = Owner /\ x[2] = NodeStream
             /\ At(C1, x).type = "transfer_data_to_copy" =>
                  /\ At(C1, x).node # x[3]
                  /\ \A y \in Places(C1) :
                       At(C1, y).type = "release_master_request" /\ y[3] = x[3] => x[4] < y[4]
  <2>1. ASSUME NEW y \in Places(C1) PROVE At(C1, y).type # "release_master_request"
    <3>1. CASE y \in Places(C1) \ Places(C)
      BY <1>2, <3>1
    <3>2. CASE y \in Places(C)
      <4>1. SlotAt(C, y) # NoNode
        BY <3>2, SlotsAre, FlightIn
      <4> QED
        BY <1>1, <3>2, <4>1 DEF SlotAt, Slot, RoleTypes
    <3> QED
      BY <3>1, <3>2
  <2>2. /\ At(C1, x).type \in OwnerAsks => x[1] = Owner /\ x[2] = NodeStream
        /\ At(C1, x).type = "transfer_data_to_copy" => At(C1, x).node # x[3]
    <3>1. CASE x \in Places(C)
      BY <1>1, <3>1 DEF Tidy, Ordered
    <3>2. CASE x \notin Places(C)
      BY <1>2, <3>2
    <3> QED
      BY <3>1, <3>2
  <2> QED
    BY <2>1, <2>2
<1>7. Asked(C1) \subseteq Asked(C) \cup {e}
  <2> SUFFICES ASSUME NEW k \in Asked(C1) PROVE k \in Asked(C) \cup {e}
    OBVIOUS
  <2>1. PICK x \in Places(C1) : k = x[3] /\ At(C1, x).type = "transfer_data_to_copy"
    BY DEF Asked
  <2> QED
    BY <1>1, <1>2, <2>1 DEF Asked
<1>8. Flight(C1) = Flight(C)
  <2>1. ASSUME NEW q \in Slots PROVE Flight(C1)[q] = Flight(C)[q]
    <3>1. ASSUME NEW z \in Flight(C1)[q] PROVE z \in Flight(C)[q]
      <4>1. PICK x \in Places(C1) : SlotAt(C1, x) = q /\ z = <<x[1], x[3], At(C1, x)>>
        BY FlightIn
      <4>2. x \in Places(C)
        BY <1>4, <4>1
      <4> QED
        BY <1>1, <1>3, <4>1, <4>2, FlightIn
    <3>2. ASSUME NEW z \in Flight(C)[q] PROVE z \in Flight(C1)[q]
      <4>1. PICK x \in Places(C) : SlotAt(C, x) = q /\ z = <<x[1], x[3], At(C, x)>>
        BY FlightIn
      <4> QED
        BY <1>1, <1>3, <4>1, FlightIn
    <3> QED
      BY <3>1, <3>2
  <2>2. Flight(C1) = [q \in Slots |-> Flight(C1)[q]] /\ Flight(C) = [q \in Slots |-> Flight(C)[q]]
    BY DEF Flight
  <2> QED
    BY <2>1, <2>2
<1> QED
  BY <1>1, <1>5, <1>6, <1>7, <1>8 DEF C1, Tidy, Unique, Ordered

(* The owner has handled a message without a failed assertion but the one  *)
(* of a late request, and the channels and roles agree.                    *)
OwnerErrors == {"none", "elevation_after_destroy"}
OwnerHandled(D, C, q, W, S) ==
  /\ q \in OwnerResults /\ q.err \in OwnerErrors
  /\ Sound(D, Post(C, Owner, NodeStream, q.out), q.s, W, S)

(* The owner's result r before it changes its record or sends.             *)
Fresh(r) == r \in OwnerResults /\ r.out = NoMessages /\ r.err \in OwnerErrors

(* The owner changes its record.                                           *)
LEMMA OwnerSets ==
  ASSUME NEW D, NEW C \in ChanType, NEW r, Fresh(r), NEW p \in OwnerRecord, NEW W, NEW S,
         Sound(D, C, p, W, S)
  PROVE  OwnerHandled(D, C, [r EXCEPT !.s = p], W, S)
<1> DEFINE q == [r EXCEPT !.s = p]
<1>1. q \in OwnerResults /\ q.s = p
  BY OwnerUpdate DEF Fresh
<1>2. q.out = NoMessages /\ q.err \in OwnerErrors
  BY DEF Fresh, OwnerResults, ResultOf
<1>3. Owner \in Nodes /\ NodeStream \in Streams /\ Result(p).out = NoMessages
  BY OwnerAssumption DEF Streams, Result
<1>4. Post(C, Owner, NodeStream, NoMessages) = C
  BY <1>3, PostNothing
<1> HIDE DEF q
<1> QED
  BY <1>1, <1>2, <1>4 DEF OwnerHandled, q

(* The owner changes its record and sends one message.                     *)
LEMMA OwnerSends ==
  ASSUME NEW D, NEW C \in ChanType, NEW r, Fresh(r), NEW p \in OwnerRecord, NEW W, NEW S,
         NEW T, NEW m \in Messages, Sound(D, Add(C, Owner, NodeStream, T, m), p, W, S)
  PROVE  OwnerHandled(D, C, Send([r EXCEPT !.s = p], T, m), W, S)
<1> DEFINE x == [r EXCEPT !.s = p]
           q == Send(x, T, m)
<1>1. x \in OwnerResults /\ x.s = p
  BY OwnerUpdate DEF Fresh
<1>2. x.out = NoMessages /\ x.err \in OwnerErrors
  BY DEF Fresh, OwnerResults, ResultOf
<1>3. Owner \in Nodes /\ NodeStream \in Streams /\ Result(p).out = NoMessages
  BY OwnerAssumption DEF Streams, Result
<1>4. Post(C, Owner, NodeStream, NoMessages) = C
  BY <1>3, PostNothing
<1> HIDE DEF x
<1>5. q \in OwnerResults /\ q.s = p
  BY <1>1, SendType DEF OwnerResults
<1>6. q.err = x.err
  BY <1>1 DEF Send, OwnerResults, ResultOf
<1>7. Post(C, Owner, NodeStream, q.out) = Add(Post(C, Owner, NodeStream, x.out), Owner, NodeStream, T, m)
  BY <1>1, <1>3, PostSend DEF OwnerResults
<1> HIDE DEF q
<1> QED
  BY <1>2, <1>4, <1>5, <1>6, <1>7 DEF OwnerHandled, q, x

(* While nobody asks for the role, nothing is under way for it.            *)
LEMMA CoreIdle ==
  ASSUME NEW D, NEW o, NEW f, NEW W, NEW S, Core(D, o, f, W, S),
         \/ o.masterWaitlist = <<>>
         \/ o.target = o.master /\ o.target \in Nodes
  PROVE  /\ f[NoNode] = {} /\ o.master \in Nodes /\ o.target = o.master
         /\ D[o.master].state = "master"
<1>1. o.target = o.master => o.master # NoNode \/ o.target \notin Nodes
  BY StreamAssumption
<1>2. ~Moving(o)
  BY <1>1, MasterAssumption DEF Moving
<1>3. ASSUME NEW h \in Nodes, Held(D, o, f, W, S, h)
      PROVE  /\ f[NoNode] = {} /\ o.master \in Nodes /\ o.target = o.master
             /\ D[o.master].state = "master"
  BY <1>2, <1>3 DEF Held, Role
<1>4. ASSUME NEW L \in SUBSET Nodes, Unheld(D, o, f, W, S, L) PROVE FALSE
  BY <1>2, <1>4, MasterAssumption DEF Unheld, Loose
<1> QED
  BY <1>3, <1>4 DEF Core

(* Nothing is sent to a block that is gone.                                *)
LEMMA AddNowhere ==
  ASSUME NEW C \in ChanType, NEW m
  PROVE  Add(C, Owner, NodeStream, {Destroyed}, m) = C
<1>1. C \in [Nodes -> [Streams -> [Nodes -> Seq(Messages)]]]
  BY DEF ChanType
<1>2. Owner \in Nodes /\ NodeStream \in Streams /\ Destroyed \notin Nodes
  BY OwnerAssumption, MasterAssumption DEF Streams
<1> DEFINE row == [d \in Nodes |-> IF d \in {Destroyed} THEN Append(C[Owner][NodeStream][d], m)
                                   ELSE C[Owner][NodeStream][d]]
<1>3. row = C[Owner][NodeStream]
  BY <1>1, <1>2
<1>4. Add(C, Owner, NodeStream, {Destroyed}, m) = [C EXCEPT ![Owner] = [C[Owner] EXCEPT ![NodeStream] = row]]
  BY DEF Add
<1> HIDE DEF row
<1>5. [C[Owner] EXCEPT ![NodeStream] = C[Owner][NodeStream]] = C[Owner]
  BY <1>1, <1>2
<1>6. [C EXCEPT ![Owner] = C[Owner]] = C
  BY <1>1, <1>2
<1> QED
  BY <1>3, <1>4, <1>5, <1>6

(* A node asks for the master role or for a copy, or the block is to be    *)
(* destroyed.                                                              *)
LEMMA ElevationHandled ==
  ASSUME NEW D \in [Nodes -> DbRecord], NEW C, NEW o \in OwnerRecord, NEW W, NEW S,
         Sound(D, C, o, W, S), NEW node \in Nodes \cup {Destroyed}, NEW level,
         level # "master" => node \in Nodes
  PROVE  OwnerHandled(D, C, OwnerElevation(o, node, level), W, S)
<1> DEFINE r == Expect(Result(o), o.target # Destroyed, "elevation_after_destroy")
           q == OwnerElevation(o, node, level)
<1>1. Fresh(r) /\ r.s = o
  <2>1. Result(o) \in OwnerResults /\ Result(o).s = o /\ Result(o).out = NoMessages /\ Result(o).err = "none"
    BY OwnerSteps DEF Result
  <2>2. r \in OwnerResults /\ r.s = Result(o).s
    BY <2>1, OwnerExpect DEF Assertions
  <2>3. r.out = NoMessages /\ r.err \in OwnerErrors
    BY <2>1 DEF Expect, OwnerErrors, OwnerResults, ResultOf
  <2> QED
    BY <2>1, <2>2, <2>3 DEF Fresh
<1>2. /\ o.masterWaitlist \in Seq(Nodes \cup {Destroyed}) /\ o.copyWaitlist \in Seq(Nodes)
      /\ o.target \in Nodes \cup {Destroyed} /\ o.master \in Masters
  BY DEF OwnerRecord
<1>3. /\ C \in ChanType /\ Tidy(C) /\ Answered(D, C) /\ Core(D, o, Flight(C), W, S)
  BY DEF Sound
<1>4. [r EXCEPT !.s = o] = r
  BY <1>1 DEF Fresh, OwnerResults, ResultOf
<1>14. SUFFICES OwnerHandled(D, C, q, W, S)
  OBVIOUS
<1>5. OwnerHandled(D, C, r, W, S)
  BY <1>1, <1>3, <1>4, OwnerSets
<1>6. NodeStream \in Streams /\ Owner \in Nodes
  BY OwnerAssumption DEF Streams
<1>7. q = IF level = "master"
            THEN IF o.masterWaitlist = <<>>
                   THEN Send([r EXCEPT !.s.target = node, !.s.masterWaitlist = <<node>>,
                                       !.s.master = NoNode],
                             {o.master}, [type |-> "release_master_request"])
                   ELSE IF o.masterWaitlist[Len(o.masterWaitlist)] = node THEN r
                   ELSE [r EXCEPT !.s.masterWaitlist = Append(@, node)]
          ELSE IF node = o.master THEN r
          ELSE IF o.target = o.master
            THEN Send(r, {o.master}, [type |-> "transfer_data_to_copy", node |-> node])
            ELSE [r EXCEPT !.s.copyWaitlist = Append(@, node)]
  BY DEF OwnerElevation
<1> HIDE DEF q, r
<1>8. CASE level = "master" /\ o.masterWaitlist = <<>>
  <2> DEFINE p == [o EXCEPT !.target = node, !.masterWaitlist = <<node>>, !.master = NoNode]
             m == Plain("release_master_request")
             C1 == Add(C, Owner, NodeStream, {o.master}, m)
  <2>12. <<node>> \in Seq(Nodes \cup {Destroyed})
    OBVIOUS
  <2>1. p \in OwnerRecord /\ p.master = NoNode /\ p.masterWaitlist = <<node>> /\ p.target = node
    BY <2>12 DEF OwnerRecord, Masters
  <2>2. Moving(p)
    BY <2>1 DEF Moving
  <2>3. [r EXCEPT !.s.target = node, !.s.masterWaitlist = <<node>>, !.s.master = NoNode]
          = [r EXCEPT !.s = p]
    BY <1>1 DEF Fresh, OwnerResults, ResultOf, OwnerRecord
  <2>4. q = Send([r EXCEPT !.s = p], {o.master}, m)
    BY <1>7, <1>8, <2>3 DEF Plain
  <2> HIDE DEF p
  <2>5. Flight(C)[NoNode] = {} /\ o.master \in Nodes /\ D[o.master].state = "master"
    BY <1>3, <1>8, CoreIdle
  <2>6. m \in Messages /\ m.type \in RoleTypes /\ m = Plain("release_master_request")
    BY PlainMessages DEF RoleTypes, Plain
  <2> HIDE DEF m
  <2>7. /\ C1 \in ChanType /\ Tidy(C1) /\ Asked(C1) = Asked(C)
        /\ SameCopies(Flight(C1), Flight(C)) /\ Lone(Flight(C1)[NoNode], Owner, o.master, m)
    BY <1>3, <1>6, <2>5, <2>6, SendRole
  <2> HIDE DEF C1
  <2>8. Core(D, p, Flight(C1), W, S)
    BY <1>3, <1>8, <2>2, <2>6, <2>7, CoreElevated
  <2>9. Sound(D, C1, p, W, S)
    BY <1>3, <2>7, <2>8 DEF Sound, Answered
  <2>10. Sound(D, Add(C, Owner, NodeStream, {o.master}, m), p, W, S)
    BY <2>9 DEF C1
  <2>11. OwnerHandled(D, C, Send([r EXCEPT !.s = p], {o.master}, m), W, S)
    BY <1>1, <1>3, <2>1, <2>6, <2>10, OwnerSends
  <2> QED
    BY <2>4, <2>11
<1>9. CASE level = "master" /\ o.masterWaitlist # <<>>
  <2> DEFINE w == Append(o.masterWaitlist, node)
             p == [o EXCEPT !.masterWaitlist = w]
  <2>1. w \in Seq(Nodes \cup {Destroyed}) /\ w # <<>> /\ Head(w) = Head(o.masterWaitlist)
    BY <1>2, <1>9
  <2> HIDE DEF w
  <2>2. /\ p \in OwnerRecord /\ p.master = o.master /\ p.target = o.target
        /\ p.masterWaitlist = w
    BY <2>1 DEF OwnerRecord
  <2>3. [r EXCEPT !.s.masterWaitlist = Append(@, node)] = [r EXCEPT !.s = p]
    BY <1>1 DEF Fresh, OwnerResults, ResultOf, OwnerRecord, w
  <2> HIDE DEF p
  <2>4. Core(D, p, Flight(C), W, S)
    BY <1>3, <1>9, <2>1, <2>2, CoreQueued
  <2>5. Sound(D, C, p, W, S)
    BY <1>3, <2>4 DEF Sound
  <2>6. OwnerHandled(D, C, [r EXCEPT !.s = p], W, S)
    BY <1>1, <1>3, <2>2, <2>5, OwnerSets
  <2>7. q = r \/ q = [r EXCEPT !.s = p]
    BY <1>7, <1>9, <2>3
  <2> QED
    BY <1>5, <2>6, <2>7
<1>10. CASE level # "master" /\ node # o.master /\ o.target = o.master
  <2> DEFINE m == [type |-> "transfer_data_to_copy", node |-> node]
             C1 == Add(C, Owner, NodeStream, {o.master}, m)
  <2>1. q = Send(r, {o.master}, m) /\ node \in Nodes
    BY <1>7, <1>10
  <2>2. m \in Messages /\ m.type = "transfer_data_to_copy" /\ m.node = node
    BY <2>1, PlainMessages
  <2> HIDE DEF m
  <2>3. Sound(D, C1, o, W, S)
    <3>1. CASE o.target = Destroyed
      BY <1>3, <1>10, <3>1, AddNowhere DEF Sound
    <3>2. CASE o.target \in Nodes
      <4>1. Flight(C)[NoNode] = {} /\ o.master \in Nodes /\ D[o.master].state = "master"
        BY <1>3, <1>10, <3>2, CoreIdle
      <4>2. /\ C1 \in ChanType /\ Tidy(C1) /\ Asked(C1) = Asked(C) \cup {o.master}
            /\ Flight(C1) = Flight(C)
        BY <1>3, <1>10, <2>2, <4>1, SendAsk
      <4> HIDE DEF C1
      <4> QED
        BY <1>3, <4>1, <4>2 DEF Sound, Answered
    <3> QED
      BY <1>2, <3>1, <3>2
  <2>4. OwnerHandled(D, C, Send([r EXCEPT !.s = o], {o.master}, m), W, S)
    BY <1>1, <1>3, <2>2, <2>3, OwnerSends
  <2>5. q = Send([r EXCEPT !.s = o], {o.master}, m)
    BY <1>4, <2>1, Zenon
  <2> QED
    BY <2>4, <2>5
<1>11. CASE level # "master" /\ node # o.master /\ o.target # o.master
  <2> DEFINE w == Append(o.copyWaitlist, node)
             p == [o EXCEPT !.copyWaitlist = w]
  <2>1. w \in Seq(Nodes)
    BY <1>2, <1>11
  <2> HIDE DEF w
  <2>2. /\ p \in OwnerRecord /\ p.master = o.master /\ p.target = o.target
        /\ p.masterWaitlist = o.masterWaitlist
    BY <2>1 DEF OwnerRecord
  <2>3. [r EXCEPT !.s.copyWaitlist = Append(@, node)] = [r EXCEPT !.s = p]
    BY <1>1 DEF Fresh, OwnerResults, ResultOf, OwnerRecord, w
  <2> HIDE DEF p
  <2>4. Core(D, p, Flight(C), W, S)
    BY <1>3, <2>2, CoreQueued
  <2>5. Sound(D, C, p, W, S)
    BY <1>3, <2>4 DEF Sound
  <2>6. OwnerHandled(D, C, [r EXCEPT !.s = p], W, S)
    BY <1>1, <1>3, <2>2, <2>5, OwnerSets
  <2>7. q = [r EXCEPT !.s = p]
    BY <1>7, <1>11, <2>3
  <2> QED
    BY <2>6, <2>7
<1>12. CASE level # "master" /\ node = o.master
  BY <1>5, <1>7, <1>12
<1>13. OwnerHandled(D, C, q, W, S)
  BY <1>8, <1>9, <1>10, <1>11, <1>12
<1> QED
  BY <1>13 DEF q

(* A master has given up the role: its copylist goes to the next master,   *)
(* or the copies of a destroyed block are invalidated.                     *)
LEMMA MasterReleasedHandled ==
  ASSUME NEW D \in [Nodes -> DbRecord], NEW C0, NEW o \in OwnerRecord, NEW W, NEW S,
         NEW i \in Nodes, NEW z \in Streams, NEW m, Arrives(D, C0, o, W, S, i, z, Owner, m),
         m.type = "copylist_released"
  PROVE  OwnerHandled(D, Taken(C0, i, z, Owner), OwnerMasterReleased(o, m.copylist), W, S)
<1> DEFINE C  == Taken(C0, i, z, Owner)
           L  == m.copylist
           r0 == Result(o)
           r  == Expect(r0, o.target = Head(o.masterWaitlist), "target_is_not_first")
           p  == [o EXCEPT !.master = Destroyed]
           x  == Plain("invalidate_copy")
           y  == Listing("take_master", L)
           q  == OwnerMasterReleased(o, L)
<1>1. Owner \in Nodes /\ NodeStream \in Streams
  BY OwnerAssumption DEF Streams
<1>2. /\ m \in Messages /\ C \in ChanType /\ Tidy(C) /\ Answered(D, C)
      /\ Core(D, o, Flight(C0), W, S) /\ Lone(Flight(C0)[NoNode], i, Owner, m)
      /\ SameCopies(Flight(C), Flight(C0)) /\ Flight(C)[NoNode] = {}
  <2>1. m.type \in RoleTypes
    BY DEF RoleTypes
  <2> QED
    BY <1>1, <2>1, TakenRole
<1>3. /\ L \in SUBSET Nodes /\ Unheld(D, o, Flight(C0), W, S, L)
      /\ L # {} /\ Moving(o) /\ Still(Flight(C0))
  <2>1. RoleTells(D, o, Flight(C0), W, S, i, Owner, m)
    BY <1>2, RoleMessage
  <2> QED
    BY <2>1 DEF RoleTells
<1>4. q = IF o.target = Destroyed
            THEN Send([r0 EXCEPT !.s.master = Destroyed], L, [type |-> "invalidate_copy"])
            ELSE Send(r, {o.target}, [type |-> "take_master", copylist |-> L])
  BY DEF OwnerMasterReleased
<1>5. Fresh(r0) /\ r0.s = o /\ [r0 EXCEPT !.s = o] = r0
  BY OwnerSteps DEF Result, Fresh, OwnerErrors
<1>6. r = r0
  BY <1>3 DEF Expect, Moving
<1>7. [r0 EXCEPT !.s.master = Destroyed] = [r0 EXCEPT !.s = p]
  BY DEF Result
<1>8. /\ p \in OwnerRecord /\ p.master = Destroyed /\ p.target = o.target
      /\ p.masterWaitlist = o.masterWaitlist
  BY DEF OwnerRecord, Masters
<1>9. x \in Messages /\ x.type = "invalidate_copy" /\ y \in Messages /\ y.type \in RoleTypes
      /\ y.type # "release_master_request"
  BY <1>3, PlainMessages DEF Plain, Listing, RoleTypes
<1>10. /\ o.target = Destroyed => q = Send([r0 EXCEPT !.s = p], L, x)
       /\ o.target # Destroyed => q = Send([r0 EXCEPT !.s = o], {o.target}, y)
  BY <1>4, <1>5, <1>6, <1>7 DEF Plain, Listing
<1>11. o.target \in Nodes \cup {Destroyed} /\ Destroyed \notin Nodes
  BY MasterAssumption DEF OwnerRecord
<1> SUFFICES OwnerHandled(D, C, q, W, S)
  OBVIOUS
<1> HIDE DEF q, r0, r, p, C, L
<1>12. CASE o.target = Destroyed
  <2> DEFINE C1 == Add(C, Owner, NodeStream, L, x)
  <2>1. Free(Flight(C), L)
    BY <1>2, <1>3 DEF Free, SameCopies, Still
  <2> HIDE DEF x
  <2>2. /\ C1 \in ChanType /\ Tidy(C1) /\ Asked(C1) = Asked(C)
        /\ SameBut(Flight(C1), Flight(C), L) /\ Sent(Flight(C1), Owner, L, x)
    <3>1. x.type \in {"data_copy", "invalidate_copy"}
      BY <1>9
    <3> QED
      BY <1>1, <1>2, <1>3, <1>9, <2>1, <3>1, SendCopies
  <2> HIDE DEF C1
  <2>3. Flight(C1)[NoNode] = {} /\ SameElse(Flight(C1), Flight(C0), L)
    <3>1. NoNode \in Slots \ L /\ \A k \in Nodes \ L : k \in Slots \ L
      BY <1>3, SlotsAre
    <3> QED
      BY <1>2, <2>2, <3>1 DEF SameBut, SameCopies, SameElse
  <2>4. o.masterWaitlist # <<>>
    BY <1>3 DEF Moving
  <2>5. Core(D, p, Flight(C1), W, S)
    <3>1. p.target = Destroyed /\ p.masterWaitlist # <<>> /\ p.master = Destroyed
      BY <1>8, <1>12, <2>4
    <3>2. Sent(Flight(C1), Owner, L, Plain("invalidate_copy"))
      BY <2>2 DEF x
    <3> QED
      BY <1>2, <1>3, <2>3, <3>1, <3>2, CoreDestroyed
  <2>6. Sound(D, C1, p, W, S)
    BY <1>2, <2>2, <2>5 DEF Sound, Answered
  <2>7. Sound(D, Add(C, Owner, NodeStream, L, x), p, W, S)
    BY <2>6 DEF C1
  <2>8. OwnerHandled(D, C, Send([r0 EXCEPT !.s = p], L, x), W, S)
    BY <1>2, <1>5, <1>8, <1>9, <2>7, OwnerSends
  <2> QED
    BY <1>10, <1>12, <2>8
<1>13. CASE o.target # Destroyed
  <2> DEFINE C1 == Add(C, Owner, NodeStream, {o.target}, y)
  <2>1. o.target \in Nodes
    BY <1>11, <1>13
  <2> HIDE DEF y
  <2>2. /\ C1 \in ChanType /\ Tidy(C1) /\ Asked(C1) = Asked(C)
        /\ SameCopies(Flight(C1), Flight(C)) /\ Lone(Flight(C1)[NoNode], Owner, o.target, y)
    BY <1>1, <1>2, <1>9, <2>1, SendRole
  <2> HIDE DEF C1
  <2>3. SameCopies(Flight(C1), Flight(C0))
    BY <1>2, <2>2 DEF SameCopies
  <2>4. Core(D, o, Flight(C1), W, S)
    <3>1. Lone(Flight(C1)[NoNode], Owner, o.target, Listing("take_master", L))
      BY <2>2 DEF y
    <3> QED
      BY <1>2, <1>3, <2>1, <2>3, <3>1, CorePassed
  <2>5. Sound(D, C1, o, W, S)
    BY <1>2, <2>2, <2>4 DEF Sound, Answered
  <2>6. Sound(D, Add(C, Owner, NodeStream, {o.target}, y), o, W, S)
    BY <2>5 DEF C1
  <2>7. OwnerHandled(D, C, Send([r0 EXCEPT !.s = o], {o.target}, y), W, S)
    BY <1>2, <1>5, <1>9, <2>6, OwnerSends
  <2> QED
    BY <1>10, <1>13, <2>7
<1> QED
  BY <1>12, <1>13

(* The next master is ready: it is asked for the copies that were put off, *)
(* and for the role itself if somebody waits for it.                       *)
LEMMA NewMasterReadyHandled ==
  ASSUME NEW D \in [Nodes -> DbRecord], NEW C0, NEW o \in OwnerRecord, NEW W, NEW S,
         NEW i \in Nodes, NEW z \in Streams, NEW m, Arrives(D, C0, o, W, S, i, z, Owner, m),
         m.type = "is_master"
  PROVE  OwnerHandled(D, Taken(C0, i, z, Owner), OwnerNewMasterReady(o, i), W, S)
<1> DEFINE C      == Taken(C0, i, z, Owner)
           copies == Without(o.copyWaitlist, {o.target})
           toCopy == [j \in 1..Len(copies) |-> [type |-> "transfer_data_to_copy", node |-> copies[j]]]
           rest   == Tail(o.masterWaitlist)
           v      == [o EXCEPT !.masterWaitlist = rest, !.copyWaitlist = <<>>, !.master = i]
           out    == [NoMessages EXCEPT ![i] = toCopy]
           r      == [Result(v) EXCEPT !.out[i] = toCopy]
           p      == [v EXCEPT !.target = Head(rest), !.master = NoNode]
           y      == Plain("release_master_request")
           q      == OwnerNewMasterReady(o, i)
           C2     == AddAll(C, i, toCopy)
           C3     == Add(C2, Owner, NodeStream, {i}, y)
<1>1. Owner \in Nodes /\ NodeStream \in Streams
  BY OwnerAssumption DEF Streams
<1>2. /\ C \in ChanType /\ Tidy(C) /\ Answered(D, C)
      /\ Core(D, o, Flight(C0), W, S) /\ Lone(Flight(C0)[NoNode], i, Owner, m)
      /\ SameCopies(Flight(C), Flight(C0)) /\ Flight(C)[NoNode] = {}
  <2>1. m.type \in RoleTypes
    BY DEF RoleTypes
  <2> QED
    BY <1>1, <2>1, TakenRole
<1>3. Held(D, o, Flight(C0), W, S, i) /\ D[i].state = "master" /\ o.target = i /\ Moving(o)
  <2>1. RoleTells(D, o, Flight(C0), W, S, i, Owner, m)
    BY <1>2, RoleMessage
  <2> QED
    BY <2>1 DEF RoleTells
<1>4. /\ rest = <<>> => q = r
      /\ rest # <<>> => q = Send([r EXCEPT !.s.target = Head(rest), !.s.master = NoNode],
                                 {i}, [type |-> "release_master_request"])
  BY <1>3 DEF OwnerNewMasterReady, Moving
<1>5. /\ o.copyWaitlist \in Seq(Nodes) /\ o.masterWaitlist \in Seq(Nodes \cup {Destroyed})
      /\ o.masterWaitlist # <<>>
  BY <1>3 DEF OwnerRecord, Moving
<1>6. copies \in Seq(Nodes \ {i})
  BY <1>3, <1>5, WithoutType
<1> HIDE DEF copies
<1>7. toCopy \in Seq(Messages) /\ AsksOnly(toCopy, i)
  <2>1. ASSUME NEW j \in 1..Len(copies)
        PROVE  /\ [type |-> "transfer_data_to_copy", node |-> copies[j]] \in Messages
               /\ copies[j] # i
    <3>1. copies[j] \in Nodes \ {i}
      BY <1>6
    <3> QED
      BY <3>1, PlainMessages
  <2>2. toCopy \in Seq(Messages) /\ Len(toCopy) = Len(copies)
    BY <1>6, <2>1
  <2> QED
    BY <2>1, <2>2 DEF AsksOnly
<1>8. rest \in Seq(Nodes \cup {Destroyed}) /\ (rest # <<>> => Head(rest) \in Nodes \cup {Destroyed})
  BY <1>5
<1> HIDE DEF toCopy, rest
<1>9. /\ v \in OwnerRecord /\ v.masterWaitlist = rest /\ v.master = i /\ v.target = i
  <2>1. <<>> \in Seq(Nodes)
    OBVIOUS
  <2> QED
    BY <1>3, <1>8, <2>1 DEF OwnerRecord, Masters
<1>10. rest # <<>> => /\ p \in OwnerRecord /\ p.masterWaitlist = rest /\ p.master = NoNode
                      /\ p.target = Head(rest)
  BY <1>8, <1>9 DEF OwnerRecord, Masters
<1> HIDE DEF v
<1>11. Result(v) \in OwnerResults /\ Result(v).s = v /\ Result(v).out = NoMessages /\ Result(v).err = "none"
  BY <1>9, OwnerSteps DEF Result
<1>12. r \in OwnerResults /\ r.s = v /\ r.out = out /\ r.err = "none"
  <2>1. r = [Result(v) EXCEPT !.out = out]
    BY <1>11 DEF OwnerResults, ResultOf
  <2>2. out \in [Nodes -> Seq(Messages)]
    BY <1>7, <1>11 DEF OwnerResults, ResultOf
  <2> HIDE DEF out, r
  <2> QED
    BY <1>11, <2>1, <2>2 DEF OwnerResults, ResultOf
<1>13. Post(C, Owner, NodeStream, r.out) = C2
  <2> HIDE DEF r
  <2> QED
    BY <1>12 DEF AddAll
<1>14. [r EXCEPT !.s.target = Head(rest), !.s.master = NoNode] = [r EXCEPT !.s = p]
  <2> HIDE DEF r
  <2> QED
    BY <1>9, <1>12 DEF OwnerResults, ResultOf, OwnerRecord
<1>15. rest # <<>> => q = Send([r EXCEPT !.s = p], {i}, y)
  <2> HIDE DEF r, p, q
  <2> QED
    BY <1>4, <1>14 DEF Plain
<1> SUFFICES OwnerHandled(D, C, q, W, S)
  OBVIOUS
<1> HIDE DEF q, r, p, C, y, out
<1>16. /\ C2 \in ChanType /\ Tidy(C2) /\ Asked(C2) \subseteq Asked(C) \cup {i}
       /\ Flight(C2) = Flight(C)
  BY <1>2, <1>7, SendAsks
<1> HIDE DEF C2
<1>17. Answered(D, C2)
  BY <1>2, <1>3, <1>16 DEF Answered
<1>18. CASE rest = <<>>
  <2>1. Ready(v, i, Flight(C2)[NoNode]) /\ SameCopies(Flight(C2), Flight(C0))
    BY <1>2, <1>9, <1>16, <1>18 DEF Ready
  <2>2. Core(D, v, Flight(C2), W, S)
    BY <1>2, <1>3, <2>1, HeldReady
  <2>3. Sound(D, C2, v, W, S)
    BY <1>16, <1>17, <2>2 DEF Sound
  <2>4. OwnerHandled(D, C, r, W, S)
    BY <1>12, <1>13, <2>3 DEF OwnerHandled, OwnerErrors
  <2> QED
    BY <1>4, <1>18, <2>4
<1>19. CASE rest # <<>>
  <2>1. y \in Messages /\ y.type \in RoleTypes /\ y = Plain("release_master_request")
    BY PlainMessages DEF Plain, RoleTypes, y
  <2>2. Flight(C2)[NoNode] = {}
    BY <1>2, <1>16
  <2>3. /\ C3 \in ChanType /\ Tidy(C3) /\ Asked(C3) = Asked(C2)
        /\ SameCopies(Flight(C3), Flight(C2)) /\ Lone(Flight(C3)[NoNode], Owner, i, y)
    BY <1>1, <1>16, <2>1, <2>2, SendRole
  <2> HIDE DEF C3
  <2>4. Ready(p, i, Flight(C3)[NoNode]) /\ SameCopies(Flight(C3), Flight(C0))
    BY <1>2, <1>10, <1>16, <1>19, <2>1, <2>3 DEF Ready, Moving, SameCopies
  <2>5. Core(D, p, Flight(C3), W, S)
    BY <1>2, <1>3, <2>4, HeldReady
  <2>6. Sound(D, C3, p, W, S)
    BY <1>17, <2>3, <2>5 DEF Sound, Answered
  <2> DEFINE x == [r EXCEPT !.s = p]
             a == Send(x, {i}, y)
  <2>7. x \in OwnerResults /\ x.s = p /\ x.out = r.out /\ x.err = r.err
    <3>1. x \in OwnerResults /\ x.s = p
      BY <1>10, <1>12, <1>19, OwnerUpdate
    <3> QED
      BY <1>12, <3>1 DEF OwnerResults, ResultOf
  <2> HIDE DEF x
  <2>8. a \in OwnerResults /\ a.s = p /\ a.err = x.err
    <3>1. a \in OwnerResults /\ a.s = p
      BY <2>1, <2>7, SendType DEF OwnerResults
    <3> QED
      BY <2>7, <3>1 DEF Send, OwnerResults, ResultOf
  <2>9. Post(C, Owner, NodeStream, a.out) = Add(Post(C, Owner, NodeStream, x.out), Owner, NodeStream, {i}, y)
    BY <1>1, <1>2, <2>1, <2>7, PostSend DEF OwnerResults
  <2>10. Post(C, Owner, NodeStream, x.out) = C2
    BY <1>13, <2>7
  <2>11. Post(C, Owner, NodeStream, a.out) = C3
    BY <2>9, <2>10 DEF C3
  <2>12. q = a
    BY <1>15, <1>19 DEF x
  <2> HIDE DEF a
  <2> QED
    BY <1>12, <2>6, <2>7, <2>8, <2>11, <2>12 DEF OwnerHandled, OwnerErrors
<1> QED
  BY <1>18, <1>19

(* Every message to the owner.                                             *)
LEMMA OwnerAnswers ==
  ASSUME TypeOK, NEW S, NEW i \in Nodes, NEW z \in Streams, NEW m,
         Arrives(db, chan, owner, written, S, i, z, Owner, m), m.type \in ToOwner
  PROVE  OwnerHandled(db, Taken(chan, i, z, Owner), OwnerResult(m, i), written, S)
<1> DEFINE C == Taken(chan, i, z, Owner)
           q == OwnerResult(m, i)
<1>1. db \in [Nodes -> DbRecord] /\ owner \in OwnerRecord /\ Owner \in Nodes
  BY OwnerAssumption DEF TypeOK
<1>2. m.type = "elevation_request" \/ m.type = "db_destroy" \/ m.type = "copylist_released"
      \/ m.type = "is_master"
  BY DEF ToOwner
<1>3. CASE m.type = "elevation_request"
  <2>1. m \in Messages /\ Sound(db, C, owner, written, S)
    BY <1>1, <1>3, TakenRequest
  <2>2. m.node \in Nodes \cup {Destroyed} /\ (m.level # "master" => m.node \in Nodes)
    BY <1>3, <2>1 DEF Messages
  <2>3. q = OwnerElevation(owner, m.node, m.level)
    BY <1>3 DEF OwnerResult
  <2> QED
    BY <1>1, <2>1, <2>2, <2>3, ElevationHandled
<1>4. CASE m.type = "db_destroy"
  <2>1. m \in Messages /\ Sound(db, C, owner, written, S)
    BY <1>1, <1>4, TakenRequest
  <2>2. q = OwnerElevation(owner, Destroyed, "master")
    BY <1>4 DEF OwnerResult
  <2>3. Destroyed \in Nodes \cup {Destroyed}
    OBVIOUS
  <2> QED
    BY <1>1, <2>1, <2>2, <2>3, ElevationHandled
<1>5. CASE m.type = "copylist_released"
  <2>1. q = OwnerMasterReleased(owner, m.copylist)
    BY <1>5 DEF OwnerResult
  <2> QED
    BY <1>1, <1>5, <2>1, MasterReleasedHandled
<1>6. CASE m.type = "is_master"
  <2>1. q = OwnerNewMasterReady(owner, i)
    BY <1>6 DEF OwnerResult
  <2> QED
    BY <1>1, <1>6, <2>1, NewMasterReadyHandled
<1> QED
  BY <1>2, <1>3, <1>4, <1>5, <1>6

-----------------------------------------------------------------------------
(***************************************************************************)
(* The invariant.  A writer is settled once a round, or the lack of copies,*)
(* has allowed it to release.                                              *)
(***************************************************************************)
Over         == {"notified", "done", "destroyer"}
SettledIn(p) == {t \in Writers : p[t] \in Over}
Settled      == SettledIn(pc)

CohInv ==
  /\ Sound(db, chan, owner, written, Settled)
  /\ \A n \in Nodes : PutOff(db[n])
  /\ released \subseteq Settled
  /\ OnlyLateElevationAborts

(* Nobody who gets the lock by the result r of node n is over, or waits for*)
(* copies, in the progress p.                                              *)
Newcomers(n, r, p) ==
  \A t \in r.s.lockers \ db[n].lockers : p[t] \notin Over /\ t \notin db[n].waiters
FreedBy(n, r) == db[n].waiters \ r.s.waiters

(* Who is settled after node n takes the result r.                         *)
LEMMA InstallSettles ==
  ASSUME TypeOK, NEW n \in Nodes, NEW r, NEW p, Install(n, r, p), Newcomers(n, r, p)
  PROVE  Settled' = SettledIn(p) \cup (FreedBy(n, r) \cap Writers)
<1>1. pc' = [t \in Tasks |->
              IF t \in r.s.lockers \ db[n].lockers THEN "running"
              ELSE IF t \in db[n].waiters \ r.s.waiters THEN "notified"
              ELSE p[t]]
  BY DEF Install
<1>2. Writers \subseteq Tasks
  BY DEF Writers
<1>3. ASSUME NEW t \in Writers
      PROVE  pc'[t] \in Over <=> p[t] \in Over \/ t \in FreedBy(n, r)
  <2>1. "running" \notin Over /\ "notified" \in Over
    BY DEF Over
  <2>2. t \in Tasks
    BY <1>2
  <2>3. CASE t \in r.s.lockers \ db[n].lockers
    <3>1. pc'[t] = "running"
      BY <1>1, <2>2, <2>3
    <3> QED
      BY <2>1, <2>3, <3>1 DEF Newcomers, FreedBy
  <2>4. CASE t \notin r.s.lockers \ db[n].lockers /\ t \in FreedBy(n, r)
    <3>1. pc'[t] = "notified"
      BY <1>1, <2>2, <2>4 DEF FreedBy
    <3> QED
      BY <2>1, <2>4, <3>1
  <2>5. CASE t \notin r.s.lockers \ db[n].lockers /\ t \notin FreedBy(n, r)
    <3>1. pc'[t] = p[t]
      BY <1>1, <2>2, <2>5 DEF FreedBy
    <3> QED
      BY <2>5, <3>1
  <2> QED
    BY <2>3, <2>4, <2>5
<1>4. Settled' = {t \in Writers : pc'[t] \in Over}
  BY DEF Settled, SettledIn
<1> QED
  BY <1>3, <1>4 DEF SettledIn

(* A handler's result that agrees with the roles keeps the invariant.      *)
LEMMA InstallKeeps ==
  ASSUME TypeOK, CohInv, NEW n \in Nodes, NEW s, NEW r, NEW p, Install(n, r, p),
         NEW C, chan' = Post(C, n, s, r.out), NEW S, Settled' = S,
         After(db, C, n, s, r, owner', written', S), PutOff(r.s), released' \subseteq S
  PROVE  CohInv'
<1>1. db' = Set(db, n, r.s) /\ aborted' = r.err
  BY DEF Install, Set
<1>2. r.err = "none" /\ Sound(db', chan', owner', written', S)
  BY <1>1 DEF After
<1>3. \A k \in Nodes : PutOff(db'[k])
  <2>1. db'[n] = r.s /\ \A k \in Nodes \ {n} : db'[k] = db[k]
    BY <1>1 DEF Set, TypeOK
  <2> QED
    BY <2>1 DEF CohInv
<1>4. OnlyLateElevationAborts'
  BY <1>1, <1>2 DEF OnlyLateElevationAborts
<1> QED
  BY <1>2, <1>3, <1>4 DEF CohInv

(* The tasks of a queue are waiting.                                       *)
LEMMA QueuedWait ==
  ASSUME IInv, NEW n \in Nodes, NEW r, Advances(db[n], r.s)
  PROVE  Newcomers(n, r, pc)
<1>1. NodeLocks(db[n], n, pc)
  BY DEF IInv, LockInv
<1>2. \A t \in r.s.lockers \ db[n].lockers : pc[t] = "waiting"
  BY <1>1 DEF NodeLocks, Advances
<1>3. \A t \in db[n].waiters : pc[t] = "finishing"
  BY <1>1 DEF NodeLocks
<1> QED
  BY <1>2, <1>3 DEF Newcomers, Over

(* What holds in a state of the invariant.                                 *)
LEMMA CohFacts ==
  ASSUME IInv, CohInv
  PROVE  /\ TypeOK /\ db \in [Nodes -> DbRecord] /\ chan \in ChanType /\ pc \in [Tasks -> Progress]
         /\ Tidy(chan) /\ Answered(db, chan)
         /\ Core(db, owner, Flight(chan), written, Settled)
         /\ NodeStream \in Streams /\ Tasks \subseteq Streams
         /\ \A t \in Tasks : Home[t] \in Nodes
  BY TaskAssumption DEF IInv, CohInv, Sound, TypeOK, ChanType, Streams

(* The writers that wait for copies.                                       *)
LEMMA WaitersWrite ==
  ASSUME NEW D, NEW o, NEW f, NEW W, NEW S, Core(D, o, f, W, S), NEW n \in Nodes
  PROVE  D[n].waiters \subseteq Writers
<1>1. CASE D[n].hasCopylist
  BY <1>1, CoreLists DEF ListsFit
<1>2. CASE ~D[n].hasCopylist
  BY <1>2, CoreLists DEF Bare
<1> QED
  BY <1>1, <1>2

(***************************************************************************)
(* Every action keeps it.                                                  *)
(***************************************************************************)
(* A ready task tries to lock.                                             *)
LEMMA SatisfyKeeps ==
  ASSUME IInv, CohInv, NEW t \in Tasks, Satisfy(t)
  PROVE  CohInv'
<1> DEFINE n == Home[t]
           r == Result(db[n])
           q == TryLock(n, r, t)
           p == [pc EXCEPT ![t] = "waiting"]
<1>1. /\ TypeOK /\ db \in [Nodes -> DbRecord] /\ chan \in ChanType /\ pc \in [Tasks -> Progress]
      /\ Sound(db, chan, owner, written, Settled) /\ NodeStream \in Streams
      /\ n \in Nodes /\ PutOff(db[n]) /\ NodeLocks(db[n], n, pc)
  BY CohFacts DEF CohInv, IInv, LockInv
<1>2. /\ pc[t] = "unsatisfied" /\ Install(n, q, p) /\ chan' = Post(chan, n, NodeStream, q.out)
      /\ UNCHANGED <<owner, written, released>>
  BY DEF Satisfy
<1> HIDE DEF n
<1>3. After(db, chan, n, NodeStream, r, owner, written, Settled) /\ r.s = db[n] /\ r \in NodeResults
  <2>1. After(db, chan, n, NodeStream, r, owner, written, Settled) /\ r.s = db[n]
    BY <1>1, AfterStart
  <2> QED
    BY <2>1 DEF After
<1> HIDE DEF r
<1>4. After(db, chan, n, NodeStream, q, owner, written, Settled) /\ Keeps(q.s, r.s)
  BY <1>1, <1>3, AfterTryLock
<1>5. q.s.waiters = r.s.waiters /\ q.s.lockers \subseteq r.s.lockers \cup {t}
  <2>1. /\ q.s.waiters = r.s.waiters
        /\ \/ q.s.lockers = r.s.lockers
           \/ q.s.lockers = r.s.lockers \cup {t}
    BY <1>1, <1>3, TryLockType
  <2> QED
    BY <2>1
<1> HIDE DEF q
<1>6. Newcomers(n, q, p)
  <2>1. t \notin db[n].waiters /\ p[t] = "waiting"
    BY <1>1, <1>2 DEF NodeLocks
  <2> QED
    BY <1>3, <1>5, <2>1 DEF Newcomers, Over
<1>7. SettledIn(p) = Settled
  BY <1>1, <1>2 DEF Settled, SettledIn, Over
<1>8. FreedBy(n, q) = {}
  BY <1>3, <1>5 DEF FreedBy
<1> HIDE DEF p
<1>9. Settled' = Settled
  BY <1>1, <1>2, <1>6, <1>7, <1>8, InstallSettles
<1>10. PutOff(q.s)
  BY <1>1, <1>3, <1>4 DEF PutOff, Keeps
<1>11. released' \subseteq Settled
  BY <1>2 DEF CohInv
<1>12. After(db, chan, n, NodeStream, q, owner', written', Settled)
  BY <1>2, <1>4
<1> QED
  BY <1>1, <1>2, <1>9, <1>10, <1>11, <1>12, InstallKeeps

(* A writer with the lock writes.                                          *)
LEMMA WriteKeeps ==
  ASSUME IInv, CohInv, NEW t \in Tasks, Write(t)
  PROVE  CohInv'
<1> DEFINE n == Home[t]
           u == [db[n] EXCEPT !.content = db[n].content \cup {t}]
<1>1. /\ TypeOK /\ db \in [Nodes -> DbRecord] /\ chan \in ChanType /\ pc \in [Tasks -> Progress]
      /\ Core(db, owner, Flight(chan), written, Settled) /\ Tidy(chan) /\ Answered(db, chan)
      /\ n \in Nodes /\ NodeLocks(db[n], n, pc)
  BY CohFacts DEF IInv, LockInv
<1>2. /\ pc[t] = "running" /\ t \in Writers
      /\ db' = [db EXCEPT ![n] = u] /\ written' = written \cup {t}
      /\ UNCHANGED <<owner, chan, pc, aborted, released>>
  BY DEF Write
<1>3. t \in db[n].lockers
  BY <1>1, <1>2 DEF NodeLocks, Holding
<1>4. /\ u \in DbRecord /\ u.state = db[n].state
      /\ u.copyWaitlist = db[n].copyWaitlist /\ u.busy = db[n].busy
  <2> DEFINE c == db[n].content \cup {t}
  <2>1. c \in SUBSET (Writers \cup NoBuffer)
    BY <1>1, <1>2 DEF DbRecord
  <2>2. u = [db[n] EXCEPT !.content = c] /\ db[n] \in DbRecord
    BY <1>1
  <2> HIDE DEF c, u
  <2> QED
    BY <2>1, <2>2 DEF DbRecord
<1>5. Core(Set(db, n, u), owner, Flight(chan), written \cup {t}, Settled)
  BY <1>1, <1>2, <1>3, <1>4, CoreWrite
<1> HIDE DEF u
<1>6. Set(db, n, u) \in [Nodes -> DbRecord] /\ db' = Set(db, n, u)
  BY <1>1, <1>2, <1>4, SetFacts DEF Set
<1>7. \A k \in Nodes : db'[k].state = db[k].state /\ PutOff(db'[k])
  BY <1>1, <1>2, <1>4 DEF CohInv, PutOff
<1>8. Answered(db', chan)
  <2>1. Asked(chan) \subseteq Nodes
    <3>1. \A x \in Places(chan) : x[3] \in Nodes
      BY PlacesAre
    <3> QED
      BY <3>1 DEF Asked
  <2> QED
    BY <1>1, <1>7, <2>1 DEF Answered
<1>9. Settled' = Settled
  BY <1>2 DEF Settled, SettledIn
<1>10. Sound(db', chan', owner', written', Settled)
  BY <1>1, <1>2, <1>5, <1>6, <1>8 DEF Sound
<1> QED
  BY <1>2, <1>7, <1>9, <1>10 DEF CohInv, OnlyLateElevationAborts

(* A request to destroy the block moves no role.                           *)
LEMMA DestroyKeeps ==
  ASSUME IInv, CohInv, NEW t \in Tasks, Destroy(t)
  PROVE  CohInv'
<1> DEFINE n   == Home[t]
           m   == [type |-> "db_destroy"]
           w   == Append(chan[n][t][Owner], m)
           row == [d \in Nodes |-> IF d \in {Owner} THEN Append(chan[n][t][d], m) ELSE chan[n][t][d]]
           C1  == Add(chan, n, t, {Owner}, m)
<1>1. /\ chan \in ChanType /\ pc \in [Tasks -> Progress] /\ Tidy(chan) /\ n \in Nodes /\ t \in Streams
      /\ Sound(db, chan, owner, written, Settled) /\ Owner \in Nodes
  BY CohFacts, OwnerAssumption DEF CohInv
<1>2. /\ chan' = [chan EXCEPT ![n] = [chan[n] EXCEPT ![t] = [chan[n][t] EXCEPT ![Owner] = w]]]
      /\ pc' = [pc EXCEPT ![t] = "destroyer"] /\ pc[t] = "done"
      /\ UNCHANGED <<db, owner, aborted, written, released>>
  BY DEF Destroy, history
<1>3. chan[n][t] \in [Nodes -> Seq(Messages)]
  BY <1>1 DEF ChanType
<1>4. [chan[n][t] EXCEPT ![Owner] = w] = row
  BY <1>3
<1>5. C1 = [chan EXCEPT ![n] = [chan[n] EXCEPT ![t] = row]]
  BY DEF Add
<1>6. m \in Messages /\ m.type \in {"elevation_request", "db_destroy"}
  BY PlainMessages
<1> HIDE DEF w, row, m
<1>7. C1 = chan'
  BY <1>2, <1>4, <1>5
<1>8. C1 \in ChanType /\ Tidy(C1) /\ Asked(C1) = Asked(chan) /\ Flight(C1) = Flight(chan)
  BY <1>1, <1>6, SendRequest
<1> HIDE DEF C1
<1>9. Sound(db', chan', owner', written', Settled)
  BY <1>1, <1>2, <1>7, <1>8 DEF Sound, Answered
<1>10. Settled' = Settled
  BY <1>1, <1>2 DEF Settled, SettledIn, Over
<1> QED
  BY <1>2, <1>9, <1>10 DEF CohInv, OnlyLateElevationAborts

(* A task that finishes: the result q of its node grants and frees nobody. *)
LEMMA FinishInstalls ==
  ASSUME IInv, CohInv, NEW t \in Tasks, NEW x, NEW q,
         Install(Home[t], q, [pc EXCEPT ![t] = x]), chan' = Post(chan, Home[t], t, q.out),
         UNCHANGED <<owner, history>>,
         q.s.lockers = db[Home[t]].lockers, db[Home[t]].waiters \subseteq q.s.waiters,
         NEW S, SettledIn([pc EXCEPT ![t] = x]) = S, Settled \subseteq S,
         After(db, chan, Home[t], t, q, owner, written, S), PutOff(q.s)
  PROVE  CohInv'
<1> DEFINE n == Home[t]
           p == [pc EXCEPT ![t] = x]
<1>1. TypeOK /\ n \in Nodes /\ t \in Streams
  BY CohFacts
<1>2. Install(n, q, p) /\ chan' = Post(chan, n, t, q.out) /\ SettledIn(p) = S
      /\ After(db, chan, n, t, q, owner, written, S)
      /\ q.s.lockers = db[n].lockers /\ db[n].waiters \subseteq q.s.waiters
  OBVIOUS
<1> HIDE DEF n, p
<1>3. Newcomers(n, q, p) /\ FreedBy(n, q) = {}
  BY <1>2 DEF Newcomers, FreedBy
<1>4. Settled' = S
  BY <1>1, <1>2, <1>3, InstallSettles
<1>5. owner' = owner /\ written' = written /\ released' = released
  BY DEF history
<1>6. released' \subseteq S /\ After(db, chan, n, t, q, owner', written', S)
  BY <1>2, <1>5 DEF CohInv
<1> QED
  BY <1>1, <1>2, <1>4, <1>6, InstallKeeps

(* The progress of a finishing task t that is a writer, or is not.         *)
LEMMA FinishSettles ==
  ASSUME NEW p \in [Tasks -> Progress], NEW t \in Tasks, p[t] = "running"
  PROVE  /\ t \notin Writers => SettledIn([p EXCEPT ![t] = "notified"]) = SettledIn(p)
         /\ SettledIn([p EXCEPT ![t] = "finishing"]) = SettledIn(p)
         /\ t \in Writers => SettledIn([p EXCEPT ![t] = "notified"]) = SettledIn(p) \cup {t}
<1>1. Writers \subseteq Tasks
  BY DEF Writers
<1>2. "running" \notin Over /\ "finishing" \notin Over /\ "notified" \in Over
  BY DEF Over
<1> DEFINE p1 == [p EXCEPT ![t] = "notified"]
           p2 == [p EXCEPT ![t] = "finishing"]
<1>3. p1[t] = "notified" /\ p2[t] = "finishing"
      /\ \A u \in Tasks \ {t} : p1[u] = p[u] /\ p2[u] = p[u]
  OBVIOUS
<1> HIDE DEF p1, p2
<1>4. /\ t \notin Writers => SettledIn(p1) = SettledIn(p)
      /\ SettledIn(p2) = SettledIn(p)
      /\ t \in Writers => SettledIn(p1) = SettledIn(p) \cup {t}
  BY <1>1, <1>2, <1>3 DEF SettledIn
<1> QED
  BY <1>4 DEF p1, p2

(* A task ends or releases early.                                          *)
LEMMA FinishKeeps ==
  ASSUME IInv, CohInv, NEW t \in Tasks, Finish(t)
  PROVE  CohInv'
<1> DEFINE n  == Home[t]
           s  == db[n]
           mustWait == /\ s.hasCopylist
                       /\ s.copylist # {} \/ s.pendingInvalidations > 0 \/ s.pendingCopies > 0
           v  == [s EXCEPT !.waiters = s.waiters \cup {t}]
           r0 == Result(s)
           r1 == [r0 EXCEPT !.s = v]
           r2 == TryStartRound(r1)
           q1 == UpdateMasterState(n, r2)
           e  == Expect(r0, s.waiters = {}, "forgotten_waiter")
           q2 == UpdateMasterState(n, e)
           q  == IF t \notin Writers \/ ~s.hasCopylist THEN r0 ELSE IF mustWait THEN q1 ELSE q2
           x  == IF t \in Writers /\ mustWait THEN "finishing" ELSE "notified"
           p  == [pc EXCEPT ![t] = x]
           S1 == Settled \cup {t}
<1>1. /\ TypeOK /\ db \in [Nodes -> DbRecord] /\ chan \in ChanType /\ pc \in [Tasks -> Progress]
      /\ Core(db, owner, Flight(chan), written, Settled) /\ Tidy(chan) /\ Answered(db, chan)
      /\ Sound(db, chan, owner, written, Settled)
      /\ n \in Nodes /\ t \in Streams /\ s \in DbRecord /\ PutOff(s) /\ NodeLocks(s, n, pc)
  BY CohFacts DEF CohInv, IInv, LockInv
<1>2. pc[t] = "running" /\ (t \in Writers => t \in written)
  BY DEF Finish
<1>3. r0 \in NodeResults /\ r0.s = s /\ r0.err = "none"
  BY <1>1, ResultType DEF NodeResults
<1>4. r1 = [Result(s) EXCEPT !.s.waiters = @ \cup {t}]
  BY <1>3 DEF NodeResults, ResultOf
<1>5. Install(n, q, p) /\ chan' = Post(chan, n, t, q.out) /\ UNCHANGED <<owner, history>>
  BY <1>4 DEF Finish
<1>6. t \in s.lockers
  BY <1>1, <1>2 DEF NodeLocks, Holding
<1>7. After(db, chan, n, t, r0, owner, written, Settled)
  BY <1>1, AfterStart
<1>8. CASE t \notin Writers
  <2>1. q = r0 /\ x = "notified"
    BY <1>8
  <2> HIDE DEF q, r0, x
  <2>2. SettledIn(p) = Settled
    BY <1>1, <1>2, <1>8, <2>1, FinishSettles DEF Settled
  <2>3. PutOff(q.s) /\ q.s.lockers = s.lockers /\ s.waiters \subseteq q.s.waiters
        /\ After(db, chan, n, t, q, owner, written, Settled)
    BY <1>1, <1>3, <1>7, <2>1
  <2> QED
    BY <1>5, <2>2, <2>3, FinishInstalls
<1>9. CASE t \in Writers /\ ~s.hasCopylist
  <2>1. ~WriteLocked(s)
    BY <1>1, <1>9, CoreLists DEF Bare
  <2> QED
    BY <1>6, <1>9, <2>1 DEF WriteLocked
<1>10. CASE t \in Writers /\ mustWait
  <2>1. q = q1 /\ x = "finishing"
    BY <1>10
  <2>2. /\ v \in DbRecord /\ v.waiters = s.waiters \cup {t} /\ v.lockers = s.lockers
        /\ v.copyWaitlist = s.copyWaitlist /\ v.busy = s.busy /\ v.state = s.state
    BY <1>1 DEF DbRecord
  <2>3. Core(Set(db, n, v), owner, Flight(chan), written, Settled)
    <3>1. t \in s.lockers \cap Writers \cap written /\ s.hasCopylist
          /\ (s.copylist # {} \/ s.pendingInvalidations > 0 \/ s.pendingCopies > 0)
      BY <1>2, <1>6, <1>10
    <3> QED
      BY <1>1, <2>2, <3>1, CoreWaiter
  <2> HIDE DEF v
  <2>4. Answered(Set(db, n, v), chan)
    <3>1. n \in Asked(chan) => v.state = "master"
      BY <1>1, <2>2 DEF Answered
    <3> QED
      BY <1>1, <2>2, <3>1, AnsweredKeep
  <2>5. After(db, chan, n, t, r1, owner, written, Settled) /\ r1.s = v
    BY <1>1, <2>2, <2>3, <2>4, FirstSets
  <2> HIDE DEF r0, r1
  <2>6. After(db, chan, n, t, r2, owner, written, Settled)
        /\ r2.s.copyWaitlist = r1.s.copyWaitlist /\ r2.s.busy = r1.s.busy
    BY <1>1, <2>5, AfterRound
  <2>7. r1 \in NodeResults /\ SameLocks(r1, r2)
    BY <2>5, TryStartRoundType DEF After
  <2> HIDE DEF r2
  <2>8. PutOff(r2.s) /\ r2 \in NodeResults
    BY <1>1, <2>2, <2>5, <2>6 DEF PutOff, After
  <2>9. After(db, chan, n, t, q1, owner, written, Settled) /\ PutOff(q1.s)
    BY <1>1, <2>6, <2>8, AfterUpdate
  <2>10. SameLocks(r2, q1)
    BY <1>1, <2>8, UpdateMasterStateType
  <2> HIDE DEF q1, q, x
  <2>11. SettledIn(p) = Settled
    BY <1>1, <1>2, <2>1, FinishSettles DEF Settled
  <2>12. q.s.lockers = s.lockers /\ s.waiters \subseteq q.s.waiters
    BY <2>1, <2>2, <2>5, <2>7, <2>10 DEF SameLocks
  <2>13. PutOff(q.s) /\ After(db, chan, n, t, q, owner, written, Settled)
    BY <2>1, <2>9
  <2> QED
    BY <1>5, <2>11, <2>12, <2>13, FinishInstalls
<1>11. CASE t \in Writers /\ s.hasCopylist /\ ~mustWait
  <2>1. q = q2 /\ x = "notified"
    BY <1>11
  <2>2. s.copylist = {} /\ s.pendingInvalidations = 0
    BY <1>1, <1>11 DEF DbRecord
  <2>3. s.waiters = {}
    <3>1. ListsFit(s, n, written)
      BY <1>1, <1>11, CoreLists
    <3> QED
      BY <2>2, <3>1 DEF ListsFit
  <2>4. e = r0
    BY <2>3 DEF Expect
  <2>5. Core(db, owner, Flight(chan), written, S1)
    <3>1. Settled \subseteq S1 /\ S1 \subseteq written
      BY <1>1, <1>2, <1>11 DEF Core, Buffers
    <3> HIDE DEF S1
    <3> QED
      BY <1>1, <1>11, <2>2, <3>1, CoreSettle
  <2>6. Sound(db, chan, owner, written, S1)
    BY <1>1, <2>5 DEF Sound
  <2>7. After(db, chan, n, t, r0, owner, written, S1)
    BY <1>1, <2>6, AfterStart
  <2> HIDE DEF r0, e
  <2>8. After(db, chan, n, t, e, owner, written, S1) /\ e.s = s /\ e \in NodeResults
    BY <1>3, <2>4, <2>7
  <2>9. After(db, chan, n, t, q2, owner, written, S1) /\ PutOff(q2.s)
    <3>1. PutOff(e.s)
      BY <1>1, <2>8
    <3> HIDE DEF S1
    <3> QED
      BY <1>1, <2>8, <3>1, AfterUpdate
  <2>10. SameLocks(e, q2)
    BY <1>1, <2>8, UpdateMasterStateType
  <2> HIDE DEF q2, q, x
  <2>11. SettledIn(p) = S1
    BY <1>1, <1>2, <1>11, <2>1, FinishSettles DEF Settled
  <2>12. q.s.lockers = s.lockers /\ s.waiters \subseteq q.s.waiters
    BY <2>1, <2>8, <2>10 DEF SameLocks
  <2>13. PutOff(q.s) /\ After(db, chan, n, t, q, owner, written, S1) /\ Settled \subseteq S1
    BY <2>1, <2>9
  <2> HIDE DEF S1
  <2> QED
    BY <1>5, <2>11, <2>12, <2>13, FinishInstalls
<1> QED
  BY <1>8, <1>9, <1>10, <1>11

(* A task gives up its lock, and its node serves who waits.                *)
LEMMA ReleaseKeeps ==
  ASSUME IInv, CohInv, NEW t \in Tasks, Release(t)
  PROVE  CohInv'
<1> DEFINE n  == Home[t]
           s  == db[n]
           u  == [s EXCEPT !.lockers = s.lockers \ {t}]
           r0 == Result(s)
           r1 == [r0 EXCEPT !.s = u]
           q  == Unlock(n, r0, t)
           p  == [pc EXCEPT ![t] = "done"]
<1>1. /\ TypeOK /\ db \in [Nodes -> DbRecord] /\ chan \in ChanType /\ pc \in [Tasks -> Progress]
      /\ Core(db, owner, Flight(chan), written, Settled) /\ Tidy(chan) /\ Answered(db, chan)
      /\ n \in Nodes /\ t \in Streams /\ s \in DbRecord /\ PutOff(s) /\ NodeLocks(s, n, pc)
  BY CohFacts DEF CohInv, IInv, LockInv
<1>2. /\ pc[t] = "notified" /\ Install(n, q, p) /\ chan' = Post(chan, n, t, q.out)
      /\ released' = released \cup ({t} \cap Writers) /\ UNCHANGED <<owner, written>>
  BY DEF Release
<1>3. t \in s.lockers /\ t \notin s.waiters /\ t \notin Queued(s)
  BY <1>1, <1>2 DEF NodeLocks, Holding
<1>4. r0 \in NodeResults /\ r0.s = s /\ r0.err = "none"
  BY <1>1, ResultType DEF NodeResults
<1>5. q = GrantLocks(n, UpdateMasterState(n, r1))
  <2>1. Expect(r0, t \in r0.s.lockers, "unlock_without_lock") = r0
    BY <1>3, <1>4 DEF Expect
  <2>2. [r0 EXCEPT !.s.lockers = @ \ {t}] = r1
    BY <1>4 DEF NodeResults, ResultOf
  <2> HIDE DEF r0, r1
  <2> QED
    BY <2>1, <2>2 DEF Unlock
<1>6. /\ u \in DbRecord /\ SameBooks(u, s) /\ u.lockers = s.lockers \ {t} /\ u.waiters = s.waiters
      /\ u.copyWaitlist = s.copyWaitlist /\ u.busy = s.busy /\ u.state = s.state
      /\ u.waitlist = s.waitlist
  <2> DEFINE w == s.lockers \ {t}
  <2>1. w \in SUBSET Tasks
    BY <1>1 DEF DbRecord
  <2> HIDE DEF w
  <2> QED
    BY <1>1, <2>1 DEF DbRecord, SameBooks, w
<1> HIDE DEF u
<1>7. WriteLocked(u) => WriteLocked(s)
  BY <1>6 DEF WriteLocked
<1>8. Bare(s) => Bare(u)
  BY <1>6, <1>7 DEF Bare, SameBooks
<1>9. s.hasCopylist => ListsFit(u, n, written)
  <2>1. s.hasCopylist => ListsFit(s, n, written)
    BY <1>1, CoreLists
  <2> QED
    BY <1>3, <1>6, <1>7, <2>1 DEF ListsFit, SameBooks
<1>10. \A y \in written \ Settled : Home[y] = n => y \in u.lockers
  <2>1. written \subseteq Writers /\ \A y \in written \ Settled : y \in db[Home[y]].lockers
    BY <1>1 DEF Core, Buffers
  <2>2. t \in Writers => t \in Settled
    BY <1>2 DEF Settled, SettledIn, Over
  <2> QED
    BY <1>6, <2>1, <2>2
<1>11. Core(Set(db, n, u), owner, Flight(chan), written, Settled)
  BY <1>1, <1>6, <1>8, <1>9, <1>10, CoreKeep
<1>12. Answered(Set(db, n, u), chan)
  <2>1. n \in Asked(chan) => u.state = "master"
    BY <1>1, <1>6 DEF Answered
  <2> QED
    BY <1>1, <1>6, <2>1, AnsweredKeep
<1>13. After(db, chan, n, t, r1, owner, written, Settled) /\ r1.s = u
  BY <1>1, <1>6, <1>11, <1>12, FirstSets
<1> HIDE DEF r1
<1>14. After(db, chan, n, t, q, owner, written, Settled) /\ PutOff(q.s)
  <2>1. PutOff(r1.s)
    BY <1>1, <1>6, <1>13 DEF PutOff
  <2> HIDE DEF q
  <2> QED
    BY <1>1, <1>5, <1>13, <2>1, AfterUpdateGrant
<1>15. Serves(u, q.s)
  <2>1. Serves([r0.s EXCEPT !.lockers = @ \ {t}], q.s)
    BY <1>1, <1>4, UnlockType
  <2>2. [r0.s EXCEPT !.lockers = @ \ {t}] = u
    BY <1>4 DEF u
  <2> HIDE DEF q
  <2> QED
    BY <2>1, <2>2
<1> HIDE DEF q, r0
<1>16. Newcomers(n, q, p) /\ FreedBy(n, q) = {}
  <2>1. q.s.lockers \ u.lockers \subseteq Queued(s) /\ q.s.waiters = s.waiters /\ u.lockers \subseteq s.lockers
    BY <1>6, <1>15 DEF Serves, Advances, Queued
  <2>2. ASSUME NEW y \in q.s.lockers \ s.lockers PROVE p[y] = "waiting" /\ y \notin s.waiters
    <3>1. y \in Queued(s) /\ y # t
      BY <1>3, <2>1
    <3>2. pc[y] = "waiting" /\ y \notin s.waiters
      BY <1>1, <3>1 DEF NodeLocks
    <3> QED
      BY <1>1, <3>1, <3>2
  <2> HIDE DEF p
  <2> QED
    BY <2>1, <2>2 DEF Newcomers, FreedBy, Over
<1>17. SettledIn(p) = Settled
  BY <1>1, <1>2 DEF Settled, SettledIn, Over
<1> HIDE DEF p
<1>18. Settled' = Settled
  BY <1>1, <1>2, <1>16, <1>17, InstallSettles
<1>19. released' \subseteq Settled
  BY <1>2 DEF CohInv, Settled, SettledIn, Over
<1>20. After(db, chan, n, t, q, owner', written', Settled)
  BY <1>2, <1>14
<1> HIDE DEF n
<1> QED
  BY <1>1, <1>2, <1>14, <1>18, <1>19, <1>20, InstallKeeps

(* A node handles a message.                                               *)
LEMMA DeliverToNodeKeeps ==
  ASSUME IInv, CohInv, NEW i \in Nodes, NEW z \in Streams, NEW d \in Nodes, DeliverToNode(i, z, d)
  PROVE  CohInv'
<1> DEFINE m == Head(chan[i][z][d])
           C == Taken(chan, i, z, d)
<1>1. /\ TypeOK /\ Sound(db, chan, owner, written, Settled) /\ NodeStream \in Streams
      /\ Core(db, owner, Flight(chan), written, Settled) /\ PutOff(db[d])
  BY CohFacts DEF CohInv
<1>2. m.type \notin ToOwner /\ UNCHANGED <<owner, history>> /\ chan[i][z][d] # <<>>
  BY DEF DeliverToNode, Pending
<1>3. PICK supplier \in Suppliers(d, m) :
        /\ Install(d, NodeResult(d, m, i, supplier), pc)
        /\ chan' = Post(C, d, NodeStream, NodeResult(d, m, i, supplier).out)
  BY DEF DeliverToNode, Pop, Taken
<1> DEFINE q == NodeResult(d, m, i, supplier)
           S == Settled \cup (db[d].waiters \ q.s.waiters)
<1>4. Arrives(db, chan, owner, written, Settled, i, z, d, m)
  BY <1>1, <1>2 DEF Arrives
<1> HIDE DEF m
<1>5. Advances(db[d], q.s) /\ Handled(db, C, d, q, owner, written, S)
  BY <1>1, <1>2, <1>4, NodeHandled
<1>6. Install(d, q, pc) /\ chan' = Post(C, d, NodeStream, q.out)
  BY <1>3
<1> HIDE DEF q, C
<1>7. Newcomers(d, q, pc)
  BY <1>5, QueuedWait
<1>8. db[d].waiters \subseteq Writers
  BY <1>1, WaitersWrite
<1>9. Settled' = S
  <2>1. Settled' = SettledIn(pc) \cup (FreedBy(d, q) \cap Writers)
    BY <1>1, <1>6, <1>7, InstallSettles
  <2> QED
    BY <1>8, <2>1 DEF FreedBy, Settled
<1>10. owner' = owner /\ written' = written /\ released' = released
  BY <1>2 DEF history
<1>11. /\ After(db, C, d, NodeStream, q, owner', written', S) /\ PutOff(q.s)
       /\ released' \subseteq S
  BY <1>5, <1>10 DEF Handled, CohInv
<1> HIDE DEF S
<1> QED
  BY <1>1, <1>6, <1>9, <1>11, InstallKeeps

(* The owner handles a message.                                            *)
LEMMA DeliverToOwnerKeeps ==
  ASSUME IInv, CohInv, NEW i \in Nodes, NEW z \in Streams, DeliverToOwner(i, z)
  PROVE  CohInv'
<1> DEFINE m == Head(chan[i][z][Owner])
           C == Taken(chan, i, z, Owner)
           q == OwnerResult(m, i)
<1>1. TypeOK /\ Sound(db, chan, owner, written, Settled)
  BY CohFacts DEF CohInv
<1>2. /\ m.type \in ToOwner /\ owner' = q.s /\ aborted' = q.err
      /\ chan' = Post(C, Owner, NodeStream, q.out) /\ chan[i][z][Owner] # <<>>
      /\ UNCHANGED <<db, pc, history, view>>
  BY DEF DeliverToOwner, Pending, Pop, Taken
<1>3. Arrives(db, chan, owner, written, Settled, i, z, Owner, m)
  BY <1>1, <1>2 DEF Arrives
<1> HIDE DEF m
<1>4. OwnerHandled(db, C, q, written, Settled)
  BY <1>1, <1>2, <1>3, OwnerAnswers
<1> HIDE DEF q, C
<1>5. Sound(db', chan', owner', written', Settled) /\ aborted' \in OwnerErrors
  BY <1>2, <1>4 DEF OwnerHandled, history
<1>6. Settled' = Settled
  BY <1>2 DEF Settled, SettledIn
<1>7. \A k \in Nodes : PutOff(db'[k])
  BY <1>2 DEF CohInv
<1>8. released' \subseteq Settled
  BY <1>2 DEF CohInv, history
<1> QED
  BY <1>5, <1>6, <1>7, <1>8 DEF CohInv, OnlyLateElevationAborts, OwnerErrors

(* At first the node that created the block is its master.                 *)
LEMMA InitCoh == ASSUME Init PROVE CohInv
<1> DEFINE h == InitialMaster
<1>1. /\ h \in Nodes /\ db \in [Nodes -> DbRecord] /\ chan \in ChanType
      /\ owner = [master |-> h, target |-> h, masterWaitlist |-> <<>>, copyWaitlist |-> <<>>]
      /\ written = {} /\ released = {} /\ aborted = "none"
  <2>1. TypeOK
    BY InitInv DEF IInv
  <2> QED
    BY <2>1, OwnerAssumption DEF Init, TypeOK, ChanType
<1>2. /\ db[h] = [Invalid EXCEPT !.state = "master", !.hasCopylist = TRUE, !.content = {}]
      /\ \A k \in Nodes \ {h} : db[k] = Invalid
  BY <1>1 DEF Init
<1> HIDE DEF h
<1>3. Places(chan) = {}
  <2>1. ASSUME NEW x \in Places(chan) PROVE FALSE
    <3>1. /\ x[1] \in Nodes /\ x[2] \in Streams /\ x[3] \in Nodes
          /\ x[4] \in DOMAIN chan[x[1]][x[2]][x[3]]
      BY PlacesAre
    <3>2. chan[x[1]][x[2]][x[3]] = <<>>
      BY <3>1 DEF Init, NoMessages
    <3>3. x[4] \in DOMAIN <<>>
      BY <3>1, <3>2
    <3> QED
      BY <3>3
  <2> QED
    BY <2>1
<1>4. \A k \in Slots : Flight(chan)[k] = {}
  BY <1>3 DEF Flight, Flying
<1>5. Tidy(chan) /\ Asked(chan) = {}
  BY <1>3 DEF Tidy, Unique, Ordered, Asked
<1>6. Settled = {}
  BY DEF Init, Settled, SettledIn, Over, Writers
<1> DEFINE f == Flight(chan)
<1>7. f[NoNode] = {} /\ \A k \in Nodes : f[k] = {}
  BY <1>4, SlotsAre
<1> HIDE DEF f
<1>8. Copying(f) = {} /\ Invalidating(f) = {}
  BY <1>7, NoKind DEF Copying, Invalidating
<1>9. Cardinality(Copying(f)) = 0 /\ Cardinality(Invalidating(f)) = 0
  BY <1>8, FS_EmptySet
<1>10. /\ db[h].state = "master" /\ db[h].hasCopylist /\ db[h].content = {} /\ db[h].copylist = {}
       /\ db[h].pendingCopies = 0 /\ db[h].pendingInvalidations = 0 /\ db[h].copyWaitlist = {}
       /\ db[h].waiters = {} /\ db[h].lockers = {} /\ db[h].busy = FALSE
  BY <1>2 DEF Invalid
<1>11. Invalid.state = "invalid" /\ Bare(Invalid) /\ Invalid.content = NoBuffer /\ PutOff(Invalid)
  BY DEF Invalid, Bare, WriteLocked, PutOff
<1>12. \A k \in Nodes \ {h} : /\ db[k].state = "invalid" /\ Bare(db[k])
                              /\ db[k].content = NoBuffer /\ PutOff(db[k])
  BY <1>2, <1>11
<1>13. Holder(db[h], h, f, {})
  BY <1>1, <1>7, <1>9, <1>10 DEF Holder
<1>14. Role(db[h], h, owner, f, {}, {})
  BY <1>1, <1>7, <1>10 DEF Role
<1>15. \A k \in Nodes \ {h} : Peer(db[k], f[k], k, h, db[h].copylist, {}, {})
  BY <1>7, <1>10, <1>12 DEF Peer, Situation
<1>16. Held(db, owner, f, {}, {}, h)
  BY <1>13, <1>14, <1>15 DEF Held
<1>17. Buffers(db, {}, {})
  <2>1. \A k \in Nodes : /\ db[k].state = "invalid" => db[k].content = NoBuffer
                         /\ db[k].state # "invalid" => db[k].content = {}
    BY <1>10, <1>12
  <2> QED
    BY <2>1 DEF Buffers
<1>18. Core(db, owner, f, {}, {})
  BY <1>1, <1>16, <1>17 DEF Core
<1>19. Sound(db, chan, owner, written, Settled)
  BY <1>1, <1>5, <1>6, <1>18 DEF Sound, Answered, f
<1>20. \A k \in Nodes : PutOff(db[k])
  BY <1>10, <1>12 DEF PutOff
<1> QED
  BY <1>1, <1>19, <1>20 DEF CohInv, OnlyLateElevationAborts

(* Every step keeps the invariant.                                         *)
LEMMA NextCoh == ASSUME IInv, CohInv, [Next]_vars PROVE CohInv'
<1>1. ASSUME NEW t \in Tasks, TaskStep(t) PROVE CohInv'
  BY <1>1, SatisfyKeeps, WriteKeeps, FinishKeeps, ReleaseKeeps DEF TaskStep
<1>2. ASSUME NEW t \in Tasks, Destroy(t) PROVE CohInv'
  BY <1>2, DestroyKeeps
<1>3. ASSUME NEW d \in Nodes, Receive(d) PROVE CohInv'
  BY <1>3, DeliverToNodeKeeps, DeliverToOwnerKeeps DEF Receive
<1>4. ASSUME UNCHANGED vars PROVE CohInv'
  <2>1. db' = db /\ chan' = chan /\ owner' = owner /\ written' = written /\ released' = released
        /\ aborted' = aborted /\ pc' = pc
    BY <1>4 DEF vars, history
  <2>2. Settled' = Settled
    BY <2>1 DEF Settled, SettledIn
  <2> QED
    BY <2>1, <2>2 DEF CohInv, OnlyLateElevationAborts
<1>5. Terminated => UNCHANGED vars
  BY DEF Terminated
<1> QED
  BY <1>1, <1>2, <1>3, <1>4, <1>5 DEF Next

(* The roles and the messages under way agree in every reachable state.    *)
THEOREM RolesAgree == Spec => []CohInv
<1>1. Init => IInv /\ CohInv
  BY InitInv, InitCoh
<1>2. IInv /\ CohInv /\ [Next]_vars => IInv' /\ CohInv'
  BY NextInv, NextCoh
<1> QED
  BY <1>1, <1>2, PTL DEF Spec

-----------------------------------------------------------------------------
(***************************************************************************)
(* What the roles imply for the block.                                     *)
(***************************************************************************)
(* The messages of a type, by their places.                                *)
LEMMA InFlightPlaces ==
  ASSUME NEW type
  PROVE  InFlight(type) = {x \in Places(chan) : At(chan, x).type = type}
  BY DEF InFlight, Places, At, Message

(* A message about the master role occupies the slot of the role.          *)
LEMMA RoleMessages ==
  ASSUME NEW type \in RoleTypes, NEW x \in InFlight(type)
  PROVE  /\ x \in Places(chan) /\ Message(x).type = type
         /\ NoNode \in Slots /\ SlotAt(chan, x) = NoNode
         /\ <<x[1], x[3], Message(x)>> \in Flight(chan)[NoNode]
<1>1. x \in Places(chan) /\ At(chan, x).type = type /\ At(chan, x) = Message(x)
  BY InFlightPlaces DEF At, Message
<1>2. NoNode \in Slots
  BY DEF Slots
<1>3. SlotAt(chan, x) = NoNode
  BY <1>1 DEF SlotAt, Slot
<1> QED
  BY <1>1, <1>2, <1>3, FlightIn

(* None is under way when the slot holds none of its type.                 *)
LEMMA NoneUnderWay ==
  ASSUME NEW type \in RoleTypes, \A z \in Flight(chan)[NoNode] : z[3].type # type
  PROVE  InFlight(type) = {}
<1>1. ASSUME NEW x \in InFlight(type) PROVE FALSE
  <2> DEFINE z == <<x[1], x[3], Message(x)>>
  <2>1. z \in Flight(chan)[NoNode] /\ Message(x).type = type
    BY RoleMessages
  <2>2. z[3] = Message(x)
    OBVIOUS
  <2> HIDE DEF z
  <2> QED
    BY <2>1, <2>2
<1> QED
  BY <1>1

(* One is under way when the slot holds it.                                *)
LEMMA OneUnderWay ==
  ASSUME NEW type \in RoleTypes, Unique(chan), NEW i, NEW j, NEW m,
         Lone(Flight(chan)[NoNode], i, j, m), m.type = type
  PROVE  \E x : InFlight(type) = {x} /\ Message(x) = m
<1>1. NoNode \in Slots
  BY DEF Slots
<1> DEFINE z == <<i, j, m>>
<1>2. z \in Flight(chan)[NoNode] /\ z[3] = m
  BY DEF Lone
<1> HIDE DEF z
<1>3. PICK x \in Places(chan) : SlotAt(chan, x) = NoNode /\ z = <<x[1], x[3], At(chan, x)>>
  BY <1>1, <1>2, FlightIn
<1>4. At(chan, x) = m
  BY <1>2, <1>3
<1>5. x \in InFlight(type) /\ Message(x) = m
  BY <1>3, <1>4, InFlightPlaces DEF At, Message
<1>6. \A y \in InFlight(type) : y = x
  BY <1>1, <1>3, RoleMessages DEF Unique
<1> QED
  BY <1>5, <1>6

(* The invariant by cases: a node holds the copylist, or a message does,   *)
(* or the block is destroyed.                                              *)
LEMMA CohCases ==
  ASSUME IInv, CohInv
  PROVE  /\ Buffers(db, written, Settled) /\ released \subseteq Settled /\ Tidy(chan)
         /\ \/ \E h \in Nodes : Held(db, owner, Flight(chan), written, Settled, h)
            \/ \E L \in SUBSET Nodes : Unheld(db, owner, Flight(chan), written, Settled, L)
  BY CohFacts DEF Core, CohInv

(* Writers run at the holder of the copylist, which has a buffer.          *)
LEMMA CohWriters == ASSUME IInv, CohInv PROVE WritersOnOneNode
<1> SUFFICES ASSUME NEW n \in Nodes, WriteLocked(db[n])
             PROVE  /\ db[n].hasCopylist /\ db[n].state # "invalid"
                    /\ \A k \in Nodes \ {n} : ~WriteLocked(db[k]) /\ ~db[k].hasCopylist
  BY DEF WritersOnOneNode
<1>1. CASE \E h \in Nodes : Held(db, owner, Flight(chan), written, Settled, h)
  <2>1. PICK h \in Nodes : Held(db, owner, Flight(chan), written, Settled, h)
    BY <1>1
  <2>2. \A k \in Nodes \ {h} : ~WriteLocked(db[k]) /\ ~db[k].hasCopylist
    BY <2>1 DEF Held, Peer, Bare
  <2>3. n = h
    BY <2>2
  <2> QED
    BY <2>1, <2>2, <2>3 DEF Held, Holder
<1>2. CASE \E L \in SUBSET Nodes : Unheld(db, owner, Flight(chan), written, Settled, L)
  BY <1>2 DEF Unheld, Peer, Bare
<1> QED
  BY <1>1, <1>2, CohCases

(* The copylist is where the roles say, and nowhere else.                  *)
LEMMA CohToken == ASSUME IInv, CohInv PROVE OneCopylist
<1> DEFINE f == Flight(chan)
           H == {n \in Nodes : db[n].hasCopylist}
           R == InFlight("copylist_released")
           T == InFlight("take_master")
<1>1. Unique(chan) /\ owner.master \in Masters
  BY CohFacts, CohCases DEF Tidy, TypeOK, OwnerRecord
<1>2. NoNode # Destroyed /\ Destroyed \notin Nodes
  BY MasterAssumption
<1>3. {"copylist_released", "take_master"} \subseteq RoleTypes
  BY DEF RoleTypes
<1>4. Cardinality({}) = 0 /\ \A x : Cardinality({x}) = 1
  BY FS_EmptySet, FS_Singleton
<1>5. SUFFICES Cardinality(H) + Cardinality(R) + Cardinality(T) =
                 (IF owner.master = Destroyed THEN 0 ELSE 1)
  BY DEF OneCopylist
<1>6. CASE \E h \in Nodes : Held(db, owner, f, written, Settled, h)
  <2>1. PICK h \in Nodes : Held(db, owner, f, written, Settled, h)
    BY <1>6
  <2>2. H = {h}
    BY <2>1 DEF Held, Holder, Peer, Bare
  <2>3. owner.master # Destroyed
    BY <1>2, <2>1 DEF Held, Role, Moving
  <2>4. \A z \in f[NoNode] : z[3].type \notin {"copylist_released", "take_master"}
    BY <2>1 DEF Held, Role, Lone, Plain, DataRequest, DataMessage
  <2>5. R = {} /\ T = {}
    BY <1>3, <2>4, NoneUnderWay
  <2>6. Cardinality(H) = 1 /\ Cardinality(R) = 0 /\ Cardinality(T) = 0
    BY <1>4, <2>2, <2>5, Zenon
  <2> HIDE DEF H, R, T
  <2> QED
    BY <2>3, <2>6
<1>7. CASE \E L \in SUBSET Nodes : Unheld(db, owner, f, written, Settled, L)
  <2>1. PICK L \in SUBSET Nodes : Unheld(db, owner, f, written, Settled, L)
    BY <1>7
  <2>2. H = {}
    BY <2>1 DEF Unheld, Peer, Bare
  <2>3. CASE \E k \in Nodes : Lone(f[NoNode], k, Owner, Listing("copylist_released", L)) /\ Moving(owner)
    <3>1. PICK k \in Nodes : Lone(f[NoNode], k, Owner, Listing("copylist_released", L)) /\ Moving(owner)
      BY <2>3
    <3> DEFINE m == Listing("copylist_released", L)
    <3>2. m.type = "copylist_released"
      BY DEF Listing
    <3> HIDE DEF m
    <3>3. Lone(f[NoNode], k, Owner, m)
      BY <3>1 DEF m
    <3>4. PICK x : R = {x}
      BY <1>1, <1>3, <3>2, <3>3, OneUnderWay
    <3>5. T = {}
      BY <1>3, <3>2, <3>3, NoneUnderWay DEF Lone
    <3>6. owner.master # Destroyed
      BY <1>2, <3>1 DEF Moving
    <3>7. Cardinality(H) = 0 /\ Cardinality(R) = 1 /\ Cardinality(T) = 0
      BY <1>4, <2>2, <3>4, <3>5, Zenon
    <3> HIDE DEF H, R, T
    <3> QED
      BY <3>6, <3>7
  <2>4. CASE Lone(f[NoNode], Owner, owner.target, Listing("take_master", L)) /\ Moving(owner)
    <3> DEFINE m == Listing("take_master", L)
    <3>2. m.type = "take_master"
      BY DEF Listing
    <3> HIDE DEF m
    <3>3. Lone(f[NoNode], Owner, owner.target, m)
      BY <2>4 DEF m
    <3>4. PICK x : T = {x}
      BY <1>1, <1>3, <3>2, <3>3, OneUnderWay
    <3>5. R = {}
      BY <1>3, <3>2, <3>3, NoneUnderWay DEF Lone
    <3>6. owner.master # Destroyed
      BY <1>2, <2>4 DEF Moving
    <3>7. Cardinality(H) = 0 /\ Cardinality(R) = 0 /\ Cardinality(T) = 1
      BY <1>4, <2>2, <3>4, <3>5, Zenon
    <3> HIDE DEF H, R, T
    <3> QED
      BY <3>6, <3>7
  <2>5. CASE f[NoNode] = {} /\ owner.master = Destroyed
    <3>1. R = {} /\ T = {}
      BY <1>3, <2>5, NoneUnderWay
    <3> HIDE DEF H, R, T
    <3> QED
      BY <1>4, <2>2, <2>5, <3>1
  <2> QED
    BY <2>1, <2>3, <2>4, <2>5 DEF Unheld, Loose
<1> QED
  BY <1>6, <1>7, CohCases

(* The invalidation of a node's copy is under way when its slot says so.   *)
LEMMA InvalidationUnderWay ==
  ASSUME NEW k \in Nodes, NEW i, Lone(Flight(chan)[k], i, k, Plain("invalidate_copy"))
  PROVE  \E x \in InFlight("invalidate_copy") : x[3] = k
<1> DEFINE m == Plain("invalidate_copy")
           z == <<i, k, m>>
<1>1. m.type = "invalidate_copy" /\ k \in Slots
  BY DEF Plain, Slots
<1>2. z \in Flight(chan)[k] /\ z[2] = k /\ z[3] = m
  BY DEF Lone
<1> HIDE DEF z, m
<1>3. PICK x \in Places(chan) : SlotAt(chan, x) = k /\ z = <<x[1], x[3], At(chan, x)>>
  BY <1>1, <1>2, FlightIn
<1>4. x[3] = k /\ At(chan, x) = m
  BY <1>2, <1>3
<1> QED
  BY <1>1, <1>3, <1>4, InFlightPlaces

(* A copy is on the copylist, or its invalidation is on the way.           *)
LEMMA CohTracked == ASSUME IInv, CohInv PROVE CopiesTracked
<1> DEFINE f == Flight(chan)
<1>1. Unique(chan) /\ {"copylist_released", "take_master"} \subseteq RoleTypes
  BY CohCases DEF Tidy, RoleTypes
<1>2. ASSUME NEW n \in Nodes, NEW h, NEW L, Peer(db[n], f[n], n, h, L, written, Settled),
             db[n].state = "copy"
      PROVE  n \in L \/ \E x \in InFlight("invalidate_copy") : x[3] = n
  <2>1. n \in L \/ Lone(f[n], h, n, Plain("invalidate_copy"))
    BY <1>2 DEF Peer, Situation
  <2> QED
    BY <2>1, InvalidationUnderWay
<1>3. SUFFICES ASSUME NEW n \in Nodes, db[n].state = "copy", ~db[n].hasCopylist
               PROVE  \/ \E k \in Nodes : db[k].hasCopylist /\ n \in db[k].copylist
                      \/ \E x \in InFlight("copylist_released") \cup InFlight("take_master") :
                           n \in Message(x).copylist
                      \/ \E x \in InFlight("invalidate_copy") : x[3] = n
  BY DEF CopiesTracked
<1> HIDE DEF f
<1>4. CASE \E h \in Nodes : Held(db, owner, f, written, Settled, h)
  <2>1. PICK h \in Nodes : Held(db, owner, f, written, Settled, h)
    BY <1>4
  <2>2. db[h].hasCopylist /\ n # h
    BY <1>3, <2>1 DEF Held, Holder
  <2>3. Peer(db[n], f[n], n, h, db[h].copylist, written, Settled)
    BY <2>1, <2>2 DEF Held
  <2> QED
    BY <1>2, <1>3, <2>2, <2>3
<1>5. CASE \E L \in SUBSET Nodes : Unheld(db, owner, f, written, Settled, L)
  <2>1. PICK L \in SUBSET Nodes : Unheld(db, owner, f, written, Settled, L)
    BY <1>5
  <2>2. Peer(db[n], f[n], n, Owner, L, written, Settled)
    BY <2>1 DEF Unheld
  <2>3. SUFFICES ASSUME n \in L
                 PROVE  \E x \in InFlight("copylist_released") \cup InFlight("take_master") :
                          n \in Message(x).copylist
    BY <1>2, <1>3, <2>2
  <2>4. PICK type \in {"copylist_released", "take_master"} :
          \E i, j : Lone(f[NoNode], i, j, Listing(type, L))
    BY <2>1, <2>3 DEF Unheld, Loose
  <2>5. PICK i, j : Lone(f[NoNode], i, j, Listing(type, L))
    BY <2>4
  <2> DEFINE m == Listing(type, L)
  <2>6. m.type = type /\ m.copylist = L
    BY DEF Listing
  <2> HIDE DEF m
  <2>7. Lone(Flight(chan)[NoNode], i, j, m)
    BY <2>5 DEF m, f
  <2>8. PICK x : InFlight(type) = {x} /\ Message(x) = m
    BY <1>1, <2>6, <2>7, OneUnderWay
  <2>9. x \in InFlight("copylist_released") \cup InFlight("take_master")
    BY <2>8
  <2> QED
    BY <2>3, <2>6, <2>8, <2>9
<1> QED
  BY <1>4, <1>5, CohCases DEF f

(* A master's buffer holds every write.                                    *)
LEMMA CohWrites == ASSUME IInv, CohInv PROVE NoLostWrites
<1> SUFFICES ASSUME NEW n \in Nodes, db[n].state = "master" PROVE db[n].content = written
  BY DEF NoLostWrites
<1>1. CASE \E h \in Nodes : Held(db, owner, Flight(chan), written, Settled, h)
  <2>1. PICK h \in Nodes : Held(db, owner, Flight(chan), written, Settled, h)
    BY <1>1
  <2>2. n = h
    BY <2>1 DEF Held, Peer, Bare
  <2> QED
    BY <2>1, <2>2 DEF Held, Holder
<1>2. CASE \E L \in SUBSET Nodes : Unheld(db, owner, Flight(chan), written, Settled, L)
  BY <1>2 DEF Unheld, Peer, Bare
<1> QED
  BY <1>1, <1>2, CohCases

(* Every buffer holds the settled writes, the released ones among them.    *)
LEMMA CohVisible == ASSUME IInv, CohInv PROVE ReleasedWritesVisible
  BY CohCases DEF Buffers, ReleasedWritesVisible

(* With nothing under way, a destroyed block has no copies.                *)
LEMMA CohDestroyed == ASSUME IInv, CohInv PROVE DestroyReachesEveryCopy
<1> SUFFICES ASSUME owner.master = Destroyed, Quiet
             PROVE  \A n \in Nodes : db[n].state = "invalid" /\ ~db[n].hasCopylist
  BY DEF DestroyReachesEveryCopy
<1> DEFINE f == Flight(chan)
<1>1. ASSUME NEW x \in Places(chan) PROVE FALSE
  <2>1. x[1] \in Nodes /\ x[2] \in Streams /\ x[3] \in Nodes /\ x[4] \in DOMAIN chan[x[1]][x[2]][x[3]]
    BY <1>1, PlacesAre
  <2>2. chan[x[1]][x[2]][x[3]] = <<>>
    BY <2>1 DEF Quiet
  <2> QED
    BY <2>1, <2>2
<1>2. \A n \in Nodes : f[n] = {}
  BY <1>1 DEF Flight, Flying, Slots
<1>3. NoNode # Destroyed /\ Destroyed \notin Nodes
  BY MasterAssumption
<1> HIDE DEF f
<1>4. ~\E h \in Nodes : Held(db, owner, f, written, Settled, h)
  BY <1>3 DEF Held, Role, Moving
<1>5. PICK L \in SUBSET Nodes : Unheld(db, owner, f, written, Settled, L)
  BY <1>4, CohCases DEF f
<1>6. L = {}
  BY <1>3, <1>5 DEF Unheld, Loose, Moving
<1> QED
  BY <1>2, <1>5, <1>6 DEF Unheld, Peer, Bare, Situation, Lone

(* The copies of the block stay coherent: one node writes, the copylist is *)
(* neither lost nor doubled, every copy is known to whoever must invalidate*)
(* it, the master's buffer holds every write, a released write is in every *)
(* buffer, and a destroyed block leaves no copy.                           *)
THEOREM CoherenceHolds == Spec => []Coherence
<1>1. IInv /\ CohInv => Coherence
  BY CohWriters, CohToken, CohTracked, CohWrites, CohVisible, CohDestroyed DEF Coherence
<1> QED
  BY <1>1, Invariance, RolesAgree, PTL

(* No assertion of a handler fails but the one an elevation request meets  *)
(* when it reaches the owner after the destruction.                        *)
THEOREM AssertionsHold == Spec => []OnlyLateElevationAborts
<1>1. CohInv => OnlyLateElevationAborts
  BY DEF CohInv
<1> QED
  BY <1>1, RolesAgree, PTL

-----------------------------------------------------------------------------
(***************************************************************************)
(* What the block promises its tasks: the protocol implements DbPromise.   *)
(***************************************************************************)
(* What had been released when a task asked for the block still is.        *)
NeededKnown == \A t \in Tasks : needed[t] \subseteq released

(* The holders may hold the block together, a buffer shows every released  *)
(* write and none that was not made, a holding writer's shows every write. *)
HoldersShare ==
  \A t, u \in Tasks : pc[t] \in Holding /\ pc[u] \in Holding /\ t # u =>
    /\ Home[t] = Home[u] => Mode[t] # "EW" /\ (Mode[t] = "CONST" => Mode[u] = "CONST")
    /\ t \in Writers /\ u \in Writers => Home[t] = Home[u]
BuffersShow ==
  \A n \in Nodes : db[n].state # "invalid" =>
    released \subseteq db[n].content /\ db[n].content \subseteq written
WritersSee == \A t \in Writers : pc[t] \in Holding => db[Home[t]].content = written

(* The invariant gives all three.                                          *)
LEMMA CohPromises == IInv /\ CohInv => HoldersShare /\ BuffersShow /\ WritersSee
<1> SUFFICES ASSUME IInv, CohInv PROVE HoldersShare /\ BuffersShow /\ WritersSee
  OBVIOUS
<1>1. LocksCompatible /\ WritersOnOneNode
  BY InvImplies, CohWriters
<1>2. \A t \in Tasks : Home[t] \in Nodes
  BY TaskAssumption
<1>3. ASSUME NEW t \in Writers, pc[t] \in Holding PROVE WriteLocked(db[Home[t]])
  BY <1>1, <1>3 DEF LocksCompatible, WriteLocked, Writers
<1>4. HoldersShare
  <2> SUFFICES ASSUME NEW t \in Tasks, NEW u \in Tasks,
                      pc[t] \in Holding, pc[u] \in Holding, t # u
               PROVE  /\ Home[t] = Home[u] => Mode[t] # "EW" /\ (Mode[t] = "CONST" => Mode[u] = "CONST")
                      /\ t \in Writers /\ u \in Writers => Home[t] = Home[u]
    BY DEF HoldersShare
  <2>1. t \in db[Home[t]].lockers /\ u \in db[Home[u]].lockers
    BY <1>1 DEF LocksCompatible
  <2>2. Home[t] = Home[u] => Mode[t] # "EW" /\ (Mode[t] = "CONST" => Mode[u] = "CONST")
    BY <1>1, <1>2, <2>1 DEF LocksCompatible
  <2>3. t \in Writers /\ u \in Writers => Home[t] = Home[u]
    BY <1>1, <1>2, <1>3 DEF WritersOnOneNode
  <2> QED
    BY <2>2, <2>3
<1>5. BuffersShow
  BY CohCases DEF Buffers, BuffersShow
<1>6. WritersSee
  <2> SUFFICES ASSUME NEW t \in Writers, pc[t] \in Holding
               PROVE  db[Home[t]].content = written
    BY DEF WritersSee
  <2>1. Home[t] \in Nodes /\ WriteLocked(db[Home[t]])
    BY <1>2, <1>3 DEF Writers
  <2>2. CASE \E h \in Nodes : Held(db, owner, Flight(chan), written, Settled, h)
    <3>1. PICK h \in Nodes : Held(db, owner, Flight(chan), written, Settled, h)
      BY <2>2
    <3>2. Home[t] = h
      BY <2>1, <3>1 DEF Held, Peer, Bare
    <3> QED
      BY <2>1, <3>1, <3>2 DEF Held, Holder
  <2>3. CASE \E L \in SUBSET Nodes : Unheld(db, owner, Flight(chan), written, Settled, L)
    BY <2>1, <2>3 DEF Unheld, Peer, Bare
  <2> QED
    BY <2>2, <2>3, CohCases
<1> QED
  BY <1>4, <1>5, <1>6

(* The phase that a task's progress stands for.                            *)
PhaseOf(x) ==
  CASE x = "unsatisfied"         -> "idle"
    [] x \in Holding            -> "holding"
    [] x \in {"done", "destroyer"} -> "done"
    [] OTHER                     -> "waiting"

(* The phases tell the parts of a task's life apart.                       *)
LEMMA PhaseFacts ==
  ASSUME NEW x \in Progress
  PROVE  /\ x = "unsatisfied" => PhaseOf(x) = "idle"
         /\ x \in Holding => PhaseOf(x) = "holding"
         /\ x \in {"done", "destroyer"} => PhaseOf(x) = "done"
         /\ x = "waiting" => PhaseOf(x) = "waiting"
         /\ PhaseOf(x) = "holding" => x \in Holding
  BY DEF Progress, Holding, PhaseOf

(* A step of node n with the result r, in the progress p, lets the tasks A *)
(* ask for the block and the tasks B give it back.                         *)
Asks(p, A, B) ==
  /\ A \subseteq Tasks /\ B \subseteq Tasks
  /\ \A t \in A : pc[t] = "unsatisfied"
  /\ \A t \in B : pc[t] \in Holding
  /\ B \cap Writers \subseteq written
  /\ \A t \in Tasks : p[t] = IF t \in A THEN "waiting" ELSE IF t \in B THEN "done" ELSE pc[t]
LetsIn(n, r, p) ==
  /\ \A t \in r.s.lockers \ db[n].lockers : p[t] = "waiting"
  /\ r.s.lockers \ db[n].lockers # {} => r.s.state # "invalid"
  /\ \A t \in db[n].waiters \ r.s.waiters : p[t] = "finishing"
Notes(A, B) ==
  /\ needed' = [t \in Tasks |-> IF t \in A THEN released ELSE needed[t]]
  /\ released' = released \cup (B \cap Writers)
  /\ written' = written

(* Such a step is a move of the promise.                                   *)
LEMMA InstallMoves ==
  ASSUME TypeOK, TypeOK', LockInv', HoldersShare', BuffersShow', WritersSee', NeededKnown',
         NEW n \in Nodes, NEW r, NEW p, Install(n, r, p), NEW A, NEW B,
         Asks(p, A, B), LetsIn(n, r, p), Notes(A, B)
  PROVE  Promise!Move(A, B)
<1> DEFINE N == r.s.lockers \ db[n].lockers
           H == (Promise!In("holding") \ B) \cup N
<1>1. /\ db'[n] = r.s /\ r.s.lockers \subseteq Tasks
      /\ pc \in [Tasks -> Progress] /\ pc' \in [Tasks -> Progress]
      /\ needed' \in [Tasks -> SUBSET Writers]
  <2>1. db'[n] = r.s /\ db'[n] \in DbRecord
    BY DEF Install, TypeOK
  <2> QED
    BY <2>1 DEF TypeOK, DbRecord
<1>2. /\ \A t \in Tasks : t \in N => pc'[t] = "running" /\ view'[t] = r.s.content
      /\ \A t \in Tasks \ N : /\ view'[t] = view[t]
                              /\ pc'[t] = IF t \in db[n].waiters \ r.s.waiters THEN "notified" ELSE p[t]
  BY DEF Install
<1>3. \A t \in N : p[t] = "waiting" /\ t \in Tasks /\ t \notin B /\ (t \in A \/ pc[t] = "waiting")
  BY <1>1 DEF LetsIn, Asks, Holding
<1>4. \A t \in Tasks \ N : \/ pc'[t] = p[t]
                           \/ pc'[t] = "notified" /\ p[t] = "finishing"
  BY <1>2 DEF LetsIn
<1> HIDE DEF N
<1>5. \A t \in Tasks : Phase(t) = PhaseOf(pc[t]) /\ Phase(t)' = PhaseOf(pc'[t])
  BY DEF Phase, PhaseOf
<1>6. \A t \in Tasks : pc[t] \in Progress /\ pc'[t] \in Progress
  BY <1>1
<1>7. \A x : Promise!In(x) = {t \in Tasks : Phase(t) = x}
  BY DEF Promise!In
<1>8. A \subseteq Promise!In("idle") /\ B \subseteq Promise!In("holding")
  BY <1>5, <1>6, <1>7, PhaseFacts DEF Asks
<1>9. N \in SUBSET (Promise!In("waiting") \cup A)
  BY <1>3, <1>5, <1>6, <1>7, PhaseFacts
<1>10. \A t \in H : t \in Tasks /\ pc'[t] \in Holding
  <2>1. ASSUME NEW t \in Tasks, Phase(t) = "holding", t \notin B PROVE pc'[t] \in Holding
    <3>1. pc[t] \in Holding
      BY <1>5, <1>6, <2>1, PhaseFacts
    <3>2. p[t] = pc[t]
      BY <2>1, <3>1 DEF Asks, Holding
    <3> QED
      BY <1>2, <1>4, <3>1, <3>2 DEF Holding
  <2> QED
    BY <1>2, <1>3, <1>7, <2>1 DEF Holding
<1>11. Promise!MayHold(H)
  <2>1. Promise!Writers = Writers
    BY DEF Promise!Writers, Writers
  <2> HIDE DEF H
  <2> QED
    BY <1>10, <2>1 DEF Promise!MayHold, HoldersShare
<1>12. [t \in Tasks |-> Phase(t)]' =
         [t \in Tasks |-> CASE t \in N -> "holding"
                            [] t \in B -> "done"
                            [] t \in A \ N -> "waiting"
                            [] OTHER -> [u \in Tasks |-> Phase(u)][t]]
  <2>1. ASSUME NEW t \in Tasks
        PROVE  Phase(t)' = CASE t \in N -> "holding"
                             [] t \in B -> "done"
                             [] t \in A \ N -> "waiting"
                             [] OTHER -> Phase(t)
    <3>1. CASE t \in N
      <4>1. pc'[t] \in Holding
        BY <1>2, <3>1 DEF Holding
      <4>2. PhaseOf(pc'[t]) = "holding" /\ t \notin B
        BY <1>3, <1>6, <3>1, <4>1, PhaseFacts
      <4> QED
        BY <1>5, <3>1, <4>2
    <3>2. CASE t \notin N /\ t \in B
      <4>1. p[t] = "done" /\ t \notin A
        BY <3>2 DEF Asks, Holding
      <4>2. pc'[t] = "done"
        BY <1>4, <3>2, <4>1
      <4>3. PhaseOf(pc'[t]) = "done"
        BY <1>6, <4>2, PhaseFacts
      <4> QED
        BY <1>5, <3>2, <4>1, <4>3
    <3>3. CASE t \notin N /\ t \notin B /\ t \in A
      <4>1. pc'[t] = "waiting"
        BY <1>4, <3>3 DEF Asks
      <4>2. PhaseOf(pc'[t]) = "waiting"
        BY <1>6, <4>1, PhaseFacts
      <4> QED
        BY <1>5, <3>3, <4>2
    <3>4. CASE t \notin N /\ t \notin B /\ t \notin A
      <4>1. p[t] = pc[t]
        BY <3>4 DEF Asks
      <4>2. PhaseOf(pc'[t]) = PhaseOf(pc[t])
        <5>1. CASE pc'[t] = p[t]
          BY <4>1, <5>1
        <5>2. CASE pc'[t] = "notified" /\ p[t] = "finishing"
          <6>1. pc[t] \in Holding /\ pc'[t] \in Holding
            BY <4>1, <5>2 DEF Holding
          <6> QED
            BY <1>6, <6>1, PhaseFacts
        <5> QED
          BY <1>4, <3>4, <5>1, <5>2
      <4> QED
        BY <1>5, <3>4, <4>2
    <3> QED
      BY <3>1, <3>2, <3>3, <3>4
  <2> QED
    BY <2>1
<1>13. ASSUME NEW t \in N
       PROVE  /\ needed'[t] \subseteq view'[t] /\ view'[t] \subseteq written'
              /\ t \in Writers => view'[t] = written'
  <2>1. t \in Tasks /\ view'[t] = db'[n].content /\ db'[n].state # "invalid" /\ pc'[t] \in Holding
    BY <1>1, <1>2, <1>3 DEF LetsIn, N, Holding
  <2>2. needed'[t] \subseteq released' /\ released' \subseteq db'[n].content
        /\ db'[n].content \subseteq written'
    BY <2>1 DEF NeededKnown, BuffersShow
  <2>3. Home[t] = n
    BY <1>1 DEF N, LockInv, NodeLocks
  <2> QED
    BY <2>1, <2>2, <2>3 DEF WritersSee
<1>14. /\ needed' = [t \in Tasks |-> IF t \in A THEN released ELSE needed[t]]
       /\ released' = released \cup (B \cap Writers) /\ written' = written
       /\ B \cap Writers \subseteq written
  BY DEF Notes, Asks
<1>15. Promise!Writers = Writers
  BY DEF Promise!Writers, Writers
<1>16. \A t \in Tasks \ N : view'[t] = view[t]
  BY <1>2
<1> QED
  BY <1>8, <1>9, <1>11, <1>12, <1>13, <1>14, <1>15, <1>16 DEF Promise!Move

(* What a step of the invariant makes known of the state it leads to.      *)
LEMMA PrimedFacts ==
  IInv' /\ CohInv' => TypeOK' /\ LockInv' /\ HoldersShare' /\ BuffersShow' /\ WritersSee'
<1>1. IInv' => TypeOK' /\ LockInv'
  BY DEF IInv
<1> QED
  BY <1>1, CohPromises, PTL

(* A ready task asks for the block.                                        *)
LEMMA SatisfyMoves ==
  ASSUME IInv, IInv', CohInv', NeededKnown', NEW t \in Tasks, Satisfy(t)
  PROVE  Promise!Move({t}, {})
<1> DEFINE n == Home[t]
           r == Result(db[n])
           q == TryLock(n, r, t)
           p == [pc EXCEPT ![t] = "waiting"]
<1>1. /\ TypeOK /\ n \in Nodes /\ db[n] \in DbRecord /\ pc \in [Tasks -> Progress]
      /\ needed \in [Tasks -> SUBSET Writers] /\ NodeLocks(db[n], n, pc)
  BY TaskAssumption DEF IInv, TypeOK, LockInv
<1>2. /\ pc[t] = "unsatisfied" /\ Install(n, q, p) /\ needed' = [needed EXCEPT ![t] = released]
      /\ released' = released /\ written' = written
  BY DEF Satisfy
<1> HIDE DEF n
<1>3. r \in NodeResults /\ r.s = db[n]
  BY <1>1, ResultType DEF NodeResults
<1> HIDE DEF r
<1>4. /\ q.s.waiters = r.s.waiters
      /\ \/ q.s.lockers = r.s.lockers
         \/ q.s.lockers = r.s.lockers \cup {t} /\ q.s.state # "invalid"
  BY <1>1, <1>3, TryLockType
<1> HIDE DEF q
<1>5. p[t] = "waiting" /\ \A u \in Tasks \ {t} : p[u] = pc[u]
  BY <1>1
<1> HIDE DEF p
<1>6. LetsIn(n, q, p)
  BY <1>3, <1>4, <1>5 DEF LetsIn
<1>7. Asks(p, {t}, {}) /\ Notes({t}, {})
  BY <1>1, <1>2, <1>5 DEF Asks, Notes
<1> QED
  BY <1>1, <1>2, <1>6, <1>7, PrimedFacts, InstallMoves

(* A task gives the block back, and others may get it.                     *)
LEMMA ReleaseMoves ==
  ASSUME IInv, CohInv, IInv', CohInv', NeededKnown', NEW t \in Tasks, Release(t)
  PROVE  Promise!Move({}, {t})
<1> DEFINE n == Home[t]
           s == db[n]
           r == Result(s)
           q == Unlock(n, r, t)
           p == [pc EXCEPT ![t] = "done"]
           b == [s EXCEPT !.lockers = @ \ {t}]
<1>1. /\ TypeOK /\ n \in Nodes /\ s \in DbRecord /\ pc \in [Tasks -> Progress]
      /\ needed \in [Tasks -> SUBSET Writers] /\ NodeLocks(s, n, pc)
  BY TaskAssumption DEF IInv, TypeOK, LockInv
<1>2. /\ pc[t] = "notified" /\ Install(n, q, p) /\ needed' = needed
      /\ released' = released \cup ({t} \cap Writers) /\ written' = written
  BY DEF Release
<1> HIDE DEF n
<1>3. r \in NodeResults /\ r.s = s
  BY <1>1, ResultType DEF NodeResults
<1> HIDE DEF r
<1>4. Serves(b, q.s)
  <2>1. Serves([r.s EXCEPT !.lockers = @ \ {t}], q.s)
    BY <1>1, <1>3, UnlockType
  <2> QED
    BY <1>3, <2>1
<1> HIDE DEF q
<1>5. b.lockers = s.lockers \ {t} /\ b.waiters = s.waiters /\ b.waitlist = s.waitlist
  BY <1>1 DEF DbRecord
<1> HIDE DEF b
<1>6. t \in s.lockers /\ t \notin Queued(s)
  BY <1>1, <1>2 DEF NodeLocks, Holding, n
<1>7. /\ q.s.waiters = s.waiters /\ q.s.lockers \ s.lockers \subseteq Queued(s)
      /\ q.s.lockers \ s.lockers # {} => q.s.state # "invalid"
  BY <1>4, <1>5, <1>6 DEF Serves, Advances, Queued
<1>8. p[t] = "done" /\ \A u \in Tasks \ {t} : p[u] = pc[u]
  BY <1>1
<1> HIDE DEF p
<1>9. LetsIn(n, q, p)
  <2>1. Queued(s) \subseteq Tasks /\ \A u \in Queued(s) : pc[u] = "waiting"
    BY <1>1, QueueFacts DEF NodeLocks
  <2> QED
    BY <1>6, <1>7, <1>8, <2>1 DEF LetsIn
<1>10. {t} \cap Writers \subseteq written
  BY <1>2, CohCases DEF Buffers, Settled, SettledIn, Over
<1>11. Asks(p, {}, {t})
  BY <1>2, <1>8, <1>10 DEF Asks, Holding
<1>12. Notes({}, {t})
  BY <1>1, <1>2 DEF Notes
<1> QED
  BY <1>1, <1>2, <1>9, <1>11, <1>12, PrimedFacts, InstallMoves

(* A node handles a message, and waiting tasks may get the block.          *)
LEMMA DeliverToNodeMoves ==
  ASSUME IInv, IInv', CohInv', NeededKnown', NEW i \in Nodes, NEW z \in Streams, NEW d \in Nodes,
         DeliverToNode(i, z, d)
  PROVE  Promise!Move({}, {})
<1> DEFINE m == Head(chan[i][z][d])
<1>1. /\ TypeOK /\ pc \in [Tasks -> Progress]
      /\ needed \in [Tasks -> SUBSET Writers] /\ NodeLocks(db[d], d, pc)
  BY DEF IInv, TypeOK, LockInv
<1>2. m.type \notin ToOwner /\ UNCHANGED <<owner, history>> /\ m \in Messages
  BY <1>1, PopType DEF DeliverToNode
<1>3. PICK supplier \in Suppliers(d, m) : Install(d, NodeResult(d, m, i, supplier), pc)
  BY DEF DeliverToNode
<1> DEFINE q == NodeResult(d, m, i, supplier)
<1> HIDE DEF m
<1>4. Advances(db[d], q.s)
  BY <1>1, <1>2, NodeResultType
<1>5. Install(d, q, pc)
  BY <1>3
<1> HIDE DEF q
<1>6. LetsIn(d, q, pc)
  BY <1>1, <1>4 DEF LetsIn, Advances, NodeLocks
<1>7. Asks(pc, {}, {}) /\ Notes({}, {})
  BY <1>1, <1>2 DEF Asks, Notes, history
<1> QED
  BY <1>1, <1>5, <1>6, <1>7, PrimedFacts, InstallMoves

(* A task that waits before it gives the block back keeps it.              *)
LEMMA FinishHolds ==
  ASSUME IInv, NEW t \in Tasks, Finish(t)
  PROVE  \E r : \E x \in {"finishing", "notified"} :
           Install(Home[t], r, [pc EXCEPT ![t] = x]) /\ r.s.lockers = db[Home[t]].lockers
<1> DEFINE n  == Home[t]
           s  == db[n]
           mustWait == /\ s.hasCopylist
                       /\ s.copylist # {} \/ s.pendingInvalidations > 0 \/ s.pendingCopies > 0
           v  == [s EXCEPT !.waiters = @ \cup {t}]
           r0 == Result(s)
           r1 == [r0 EXCEPT !.s = v]
           r2 == TryStartRound(r1)
           q1 == UpdateMasterState(n, r2)
           e  == Expect(r0, s.waiters = {}, "forgotten_waiter")
           q2 == UpdateMasterState(n, e)
           q  == IF t \notin Writers \/ ~s.hasCopylist THEN r0 ELSE IF mustWait THEN q1 ELSE q2
           x  == IF t \in Writers /\ mustWait THEN "finishing" ELSE "notified"
<1>1. n \in Nodes /\ s \in DbRecord
  BY TaskAssumption DEF IInv, TypeOK
<1>2. v \in DbRecord /\ v.lockers = s.lockers
  BY <1>1 DEF DbRecord
<1>3. r0 \in NodeResults /\ r0.s = s
  BY <1>1, ResultType DEF NodeResults
<1>4. r1 = [Result(s) EXCEPT !.s.waiters = @ \cup {t}]
  BY <1>3 DEF NodeResults, ResultOf
<1>5. Install(n, q, [pc EXCEPT ![t] = x])
  BY <1>4 DEF Finish
<1> HIDE DEF n, r0, v
<1>6. r1 \in NodeResults /\ r1.s = v
  BY <1>2, <1>3, NodeUpdate
<1>7. e \in NodeResults /\ e.s = s
  BY <1>3, NodeExpect DEF Assertions
<1> HIDE DEF r1, e
<1>8. r2 \in NodeResults /\ SameLocks(r1, r2)
  BY <1>6, TryStartRoundType
<1> HIDE DEF r2
<1>9. SameLocks(r2, q1)
  BY <1>1, <1>8, UpdateMasterStateType
<1>10. SameLocks(e, q2)
  BY <1>1, <1>7, UpdateMasterStateType
<1> HIDE DEF q1, q2
<1>11. q.s.lockers = s.lockers
  BY <1>2, <1>3, <1>6, <1>7, <1>8, <1>9, <1>10 DEF SameLocks
<1>12. x \in {"finishing", "notified"}
  OBVIOUS
<1> HIDE DEF q, x
<1> QED
  BY <1>5, <1>11, <1>12 DEF n

(* Phases that stay, with the rest, make a stutter of the promise.         *)
LEMMA SamePhases ==
  ASSUME NEW q, \A u \in Tasks : PhaseOf(q[u]) = PhaseOf(pc[u]), pc' = q,
         view' = view, UNCHANGED history
  PROVE  UNCHANGED Promise!vars
<1>1. \A u \in Tasks : Phase(u) = PhaseOf(pc[u]) /\ Phase(u)' = PhaseOf(pc'[u])
  BY DEF Phase, PhaseOf
<1>2. [u \in Tasks |-> Phase(u)]' = [u \in Tasks |-> Phase(u)]
  BY <1>1
<1> QED
  BY <1>2 DEF history, Promise!vars

(* Finishing is no step of the promise.                                    *)
LEMMA FinishStutters ==
  ASSUME IInv, IInv', NEW t \in Tasks, Finish(t)
  PROVE  UNCHANGED Promise!vars
<1> DEFINE n == Home[t]
           s == db[n]
<1>1. /\ pc \in [Tasks -> Progress] /\ pc' \in [Tasks -> Progress] /\ n \in Nodes
      /\ view \in [Tasks -> SUBSET (Writers \cup NoBuffer)] /\ NodeLocks(s, n, pc)
      /\ pc[t] = "running" /\ UNCHANGED history
  BY TaskAssumption DEF IInv, TypeOK, LockInv, Finish
<1>2. PICK r : \E x \in {"finishing", "notified"} :
                 Install(n, r, [pc EXCEPT ![t] = x]) /\ r.s.lockers = s.lockers
  BY FinishHolds
<1>3. PICK x \in {"finishing", "notified"} :
        Install(n, r, [pc EXCEPT ![t] = x]) /\ r.s.lockers = s.lockers
  BY <1>2
<1> DEFINE p == [pc EXCEPT ![t] = x]
<1>4. p[t] = x /\ \A u \in Tasks \ {t} : p[u] = pc[u]
  BY <1>1
<1>5. /\ pc' = [u \in Tasks |->
                  IF u \in r.s.lockers \ s.lockers THEN "running"
                  ELSE IF u \in s.waiters \ r.s.waiters THEN "notified"
                  ELSE p[u]]
      /\ view' = [u \in Tasks |->
                    IF u \in r.s.lockers \ s.lockers THEN r.s.content ELSE view[u]]
  BY <1>3 DEF Install
<1> HIDE DEF p, s
<1>6. view' = view
  BY <1>1, <1>3, <1>5
<1>7. ASSUME NEW u \in Tasks PROVE PhaseOf(pc'[u]) = PhaseOf(pc[u])
  <2>1. pc[u] \in Progress /\ pc'[u] \in Progress
    BY <1>1
  <2>2. \/ pc'[u] = pc[u]
        \/ pc'[u] \in Holding /\ pc[u] \in Holding
    <3>1. pc'[u] = IF u \in s.waiters \ r.s.waiters THEN "notified" ELSE p[u]
      BY <1>3, <1>5
    <3>2. u \in s.waiters => pc[u] = "finishing"
      BY <1>1 DEF NodeLocks
    <3> QED
      BY <1>1, <1>4, <3>1, <3>2 DEF Holding
  <2> QED
    BY <2>1, <2>2, PhaseFacts
<1> QED
  BY <1>1, <1>6, <1>7, SamePhases

(* Asking for the block notes what has been released; releases only add.   *)
LEMMA NeededKept ==
  ASSUME IInv, NeededKnown, [Next]_vars
  PROVE  NeededKnown'
<1>1. needed \in [Tasks -> SUBSET Writers]
  BY DEF IInv, TypeOK
<1>2. ASSUME needed' = needed, released \subseteq released' PROVE NeededKnown'
  BY <1>2 DEF NeededKnown
<1>3. ASSUME NEW t \in Tasks, Satisfy(t) PROVE NeededKnown'
  BY <1>1, <1>3 DEF Satisfy, NeededKnown
<1>4. ASSUME NEW t \in Tasks, Write(t) \/ Finish(t) \/ Release(t) \/ Destroy(t) PROVE NeededKnown'
  BY <1>2, <1>4 DEF Write, Finish, Release, Destroy, history
<1>5. ASSUME NEW d \in Nodes, Receive(d) PROVE NeededKnown'
  BY <1>2, <1>5 DEF Receive, DeliverToNode, DeliverToOwner, history
<1>6. ASSUME UNCHANGED vars PROVE NeededKnown'
  BY <1>2, <1>6 DEF vars, history
<1>7. Terminated => UNCHANGED vars
  BY DEF Terminated
<1> QED
  BY <1>3, <1>4, <1>5, <1>6, <1>7 DEF Next, TaskStep

(* At first nobody has asked.                                              *)
LEMMA PromiseInit == ASSUME Init PROVE NeededKnown /\ Promise!Init
<1>0. \A t \in Tasks : pc[t] = "unsatisfied"
  BY DEF Init
<1>1. \A t \in Tasks : Phase(t) = "idle"
  BY <1>0 DEF Phase, Holding
<1>2. [t \in Tasks |-> Phase(t)] = [t \in Tasks |-> "idle"]
  BY <1>1
<1> QED
  BY <1>2 DEF Init, NeededKnown, Promise!Init

(* Every step is a step of the promise or none.                            *)
LEMMA NextPromises ==
  ASSUME IInv, CohInv, IInv', CohInv', NeededKnown', [Next]_vars
  PROVE  [Promise!Next]_Promise!vars
<1> USE DEF Promise!Next
<1>1. ASSUME NEW t \in Tasks, Satisfy(t) PROVE Promise!Next
  BY <1>1, SatisfyMoves
<1>2. ASSUME NEW t \in Tasks, Release(t) PROVE Promise!Next
  BY <1>2, ReleaseMoves
<1>3. ASSUME NEW t \in Tasks, Write(t) PROVE Promise!Next
  <2>1. /\ pc[t] = "running" /\ t \in Writers /\ written' = written \cup {t} /\ pc' = pc
        /\ released' = released /\ needed' = needed /\ view' = view
    BY <1>3 DEF Write
  <2>2. Phase(t) = "holding" /\ [u \in Tasks |-> Phase(u)]' = [u \in Tasks |-> Phase(u)]
    BY <2>1 DEF Phase, Holding
  <2>3. Promise!Write(t)
    BY <2>1, <2>2 DEF Promise!Write, Promise!Writers, Writers
  <2> QED
    BY <2>3
<1>4. ASSUME NEW d \in Nodes, Receive(d) PROVE Promise!Next \/ UNCHANGED Promise!vars
  <2>1. PICK i \in Nodes, z \in Streams : DeliverToNode(i, z, d) \/ DeliverToOwner(i, z)
    BY <1>4 DEF Receive
  <2>2. CASE DeliverToNode(i, z, d)
    BY <2>2, DeliverToNodeMoves
  <2>3. CASE DeliverToOwner(i, z)
    <3>1. pc' = pc /\ view' = view /\ UNCHANGED history
      BY <2>3 DEF DeliverToOwner
    <3> QED
      BY <3>1, SamePhases
  <2> QED
    BY <2>1, <2>2, <2>3
<1>5. ASSUME NEW t \in Tasks, Destroy(t) PROVE UNCHANGED Promise!vars
  <2>1. /\ pc' = [pc EXCEPT ![t] = "destroyer"] /\ view' = view /\ UNCHANGED history
        /\ pc[t] = "done" /\ pc \in [Tasks -> Progress]
    BY <1>5 DEF Destroy, IInv, TypeOK
  <2>2. \A u \in Tasks : PhaseOf([pc EXCEPT ![t] = "destroyer"][u]) = PhaseOf(pc[u])
    BY <2>1 DEF PhaseOf, Holding
  <2> QED
    BY <2>1, <2>2, SamePhases
<1>6. ASSUME UNCHANGED vars PROVE UNCHANGED Promise!vars
  <2>1. pc' = pc /\ view' = view /\ UNCHANGED history
    BY <1>6 DEF vars
  <2> QED
    BY <2>1, SamePhases
<1>7. Terminated => UNCHANGED vars
  BY DEF Terminated
<1> HIDE DEF Promise!Next
<1> QED
  BY <1>1, <1>2, <1>3, <1>4, <1>5, <1>6, <1>7, FinishStutters DEF Next, TaskStep

(* The protocol keeps what the block promises: holders exclude each other, *)
(* writers are on one node and see every write, and who gets the block sees*)
(* every write released before it asked.                                   *)
THEOREM PromiseKept == Spec => ImplementsPromise
<1>1. Init => IInv /\ CohInv /\ NeededKnown /\ Promise!Init
  BY InitInv, InitCoh, PromiseInit
<1>2. IInv /\ CohInv /\ NeededKnown /\ [Next]_vars =>
        IInv' /\ CohInv' /\ NeededKnown' /\ [Promise!Next]_Promise!vars
  BY NextInv, NextCoh, NeededKept, NextPromises
<1> QED
  BY <1>1, <1>2, PTL DEF Spec, ImplementsPromise, Promise!Spec
=============================================================================
