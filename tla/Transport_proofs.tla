-------------------------- MODULE Transport_proofs --------------------------
(***************************************************************************)
(* The processes end up connected, for every number of processes and every *)
(* order in which they connect: proof of ConnectionsSound.                 *)
(*                                                                         *)
(* A run with sockets has three phases.  While the master gathers the      *)
(* slaves, each has met it up to some point of one conversation; while the *)
(* processes connect, each connection is untouched, offered or taken; when *)
(* all run, the connections are what they are with MPI from the beginning. *)
(***************************************************************************)
EXTENDS Transport, FiniteSetTheorems, TLAPS

Kinds  == {"main", "fetch"}
Slaves == Live \ {0}
Boots  == {Boot(p) : p \in Slaves}
Places == {"file", "listen", "accept", "port", "ready", "slave", "failed", "id", "count", "book",
           "connect", "time", "dup", "run", "stopping", "join", "done", "unsent", "unconfirmed",
           "received", "sent", "reduce", "exit"}
Early  == {"file", "listen", "accept", "port", "ready", "slave", "failed", "id", "count", "book",
           "connect"}
Items  == {"id", "count", "port", "listening", "time", "address", "type", "node"} \X (Int \cup Kinds)

(* A sequence without repetition.                                          *)
Once(s) == \A i, j \in DOMAIN s : s[i] = s[j] => i = j

(* The domains of what the processes connect with.                         *)
BootType ==
  /\ id \in [Procs -> Int] /\ listener \in [Procs -> {"none", "bound", "open", "closed"}]
  /\ pending \in [Procs -> Seq(Conns)] /\ accepts \in [Procs -> Nat]
  /\ up \in [Conns -> Seq(Items)] /\ down \in [Conns -> Seq(Items)]
  /\ book \in [Procs -> Seq(Conns \cup Procs)]
  /\ portsIn \in [Procs -> [Live -> [Kinds -> Conns \cup {Null}]]]
  /\ portsOut \in [Procs -> [Live -> [Kinds -> Conns \cup {Null}]]]
  /\ hand \in [Procs -> {<<>>, [i \in Live |-> Nobody]}]

(* No task has run, and nothing is there to be run.                        *)
Still ==
  /\ queue = [p \in Procs |-> <<>>] /\ local = [p \in Procs |-> <<>>]
  /\ due = [p \in Procs |-> Null] /\ left = [t \in Tasks |-> Null]
  /\ open = [p \in Procs |-> TRUE]
-----------------------------------------------------------------------------
(* While the master gathers the slaves: the conversation of a slave that   *)
(* is not accepted yet, and that of the slave with the number k.           *)
Newcomer(p) ==
  /\ At(p) \in {"slave", "failed", "id"}
  /\ Boot(p) \notin Range(book[0]) /\ up[Boot(p)] = <<>> /\ down[Boot(p)] = <<>>
  /\ Boot(p) \in Range(pending[0]) <=> At(p) = "id"

Numbered(p, k) ==
  \/ At(p) = "id" /\ up[Boot(p)] = <<>> /\ down[Boot(p)] = <<<<"id", k>>>>
  \/ At(p) = "count" /\ id[p] = k /\ up[Boot(p)] = <<<<"port", p>>>> /\ down[Boot(p)] = <<>>
Counted(p, k) ==
  /\ id[p] = k
  /\ \/ At(p) = "count" /\ up[Boot(p)] = <<>> /\ down[Boot(p)] = <<<<"count", Size[build]>>>>
     \/ /\ At(p) = "book" /\ listener[p] = "open"
        /\ up[Boot(p)] = <<<<"listening", 0>>, <<"time", 0>>>> /\ down[Boot(p)] = <<>>
Ready(p, k) ==
  /\ id[p] = k /\ At(p) = "book" /\ listener[p] = "open"
  /\ up[Boot(p)] = <<>> /\ down[Boot(p)] = <<>>

Welcome(p, k) ==
  /\ book[0][k] = Boot(p) /\ Boot(p) \notin Range(pending[0])
  /\ IF k = Len(book[0]) /\ At(0) = "port" THEN Numbered(p, k)
     ELSE IF k = Len(book[0]) /\ At(0) = "ready" THEN Counted(p, k)
     ELSE Ready(p, k)

(* Nobody has connected to anybody but the master.                         *)
Unlinked ==
  /\ \A p, q \in Live, k \in Kinds : up[<<p, q, k>>] = <<>>
  /\ \A p \in Slaves : pending[p] = <<>>
  /\ \A p \in Live : accepts[p] = 0 /\ main[p].n = 0 /\ hand[p] = <<>>
  /\ \A p \in Live : portsIn[p] = Unset /\ portsOut[p] = Unset

Hosting ==
  /\ At(0) \in {"file", "listen", "accept", "port", "ready"} /\ id[0] = 0
  /\ listener[0] = IF At(0) \in {"file", "listen"} THEN "none" ELSE "open"
  /\ book[0] \in Seq(Boots) /\ Once(book[0])
  /\ At(0) \in {"port", "ready"} => book[0] # <<>>
  /\ pending[0] \in Seq(Boots) /\ Once(pending[0])

Gathering ==
  /\ build = "sock" /\ BootType /\ Still /\ Unlinked /\ Hosting
  /\ \A p \in Slaves : Newcomer(p) \/ \E k \in 1..Len(book[0]) : Welcome(p, k)
-----------------------------------------------------------------------------
(* While the processes connect.  The address book is the inverse of id.    *)
BookSound ==
  /\ Len(book[0]) = Size[build] /\ id[0] = 0
  /\ \A p \in Live : id[p] \in Live /\ book[0][id[p] + 1] = p
  /\ \A i \in Live : book[0][i + 1] \in Live /\ id[book[0][i + 1]] = i

Reached(p, q) == At(p) = "run" \/ (At(p) = "connect" /\ id[q] < main[p].n)

Untouched(p, q, k) ==
  up[<<p, q, k>>] = <<>> /\ portsIn[q][id[p]][k] = Null /\ <<p, q, k>> \notin Range(pending[q])
Offered(p, q, k) ==
  /\ up[<<p, q, k>>] = <<<<"type", k>>, <<"node", id[p]>>>> /\ portsIn[q][id[p]][k] = Null
  /\ <<p, q, k>> \in Range(pending[q])
Taken(p, q, k) ==
  /\ up[<<p, q, k>>] = <<>> /\ portsIn[q][id[p]][k] = <<p, q, k>>
  /\ <<p, q, k>> \notin Range(pending[q])

LinkSound(p, q, k) ==
  IF Reached(p, q) THEN portsOut[p][id[q]][k] = <<p, q, k>> /\ (Offered(p, q, k) \/ Taken(p, q, k))
  ELSE portsOut[p][id[q]][k] = Null /\ Untouched(p, q, k)

(* The connections q has accepted.                                         *)
Accepted(q) == {e \in Live \X Kinds : portsIn[q][id[e[1]]][e[2]] # Null}

Waiting(p) ==
  /\ At(p) = "book" /\ p # 0 /\ main[p].n = 0 /\ hand[p] = <<>>
  /\ listener[p] = "open" /\ accepts[p] = 0 /\ Accepted(p) = {}
  /\ down[Boot(p)] = [i \in 1..(Size[build] - 1) |-> <<"address", book[0][i + 1]>>]
Meeting(p) ==
  /\ At(p) = "connect" /\ main[p].n <= Size[build] /\ hand[p] = <<>> /\ book[p] = book[0]
  /\ listener[p] = "open" /\ accepts[p] = 2 * Size[build] - Cardinality(Accepted(p))
Talking(p) ==
  /\ At(p) = "run" /\ accepts[p] = 0 /\ hand[p] = [i \in Live |-> Nobody]
  /\ Accepted(p) = Live \X Kinds

Connecting ==
  /\ build = "sock" /\ BootType /\ Still /\ BookSound
  /\ \A p \in Live : Waiting(p) \/ Meeting(p) \/ Talking(p)
  /\ \E p \in Live : At(p) # "run"
  /\ \A p \in Live : pending[p] \in Seq(Live \X {p} \X Kinds) /\ Once(pending[p])
  /\ \A p, q \in Live, k \in Kinds : LinkSound(p, q, k)
-----------------------------------------------------------------------------
(* All processes are connected.                                            *)
Wired ==
  /\ \A p \in Live : At(p) \notin Early /\ accepts[p] = 0 /\ id[p] \in Live
  /\ \A i \in Live : \E p \in Live : id[p] = i
  /\ \A p, q \in Live, k \in Kinds :
       portsOut[p][id[q]][k] = <<p, q, k>> /\ portsIn[q][id[p]][k] = <<p, q, k>>

Inv ==
  /\ build \in Builds /\ main \in [Procs -> [at : Places, n : Nat]] /\ faults \subseteq {<<"refused", "boot">>}
  /\ Gathering \/ Connecting \/ Wired
-----------------------------------------------------------------------------
(***************************************************************************)
(* Sequences without repetition, and how many processes there are.         *)
(***************************************************************************)
(* The tail of such a sequence has lost the head only.                     *)
LEMMA TailOnce ==
  ASSUME NEW S, NEW s \in Seq(S), s # <<>>, Once(s)
  PROVE  /\ Tail(s) \in Seq(S) /\ Head(s) \in S /\ Head(s) \in Range(s)
         /\ Once(Tail(s)) /\ Range(Tail(s)) = Range(s) \ {Head(s)}
<1> DEFINE t == Tail(s)
<1>1. /\ t \in Seq(S) /\ Head(s) \in S /\ Head(s) = s[1] /\ Len(s) \in Nat /\ Len(s) > 0
      /\ DOMAIN s = 1..Len(s) /\ DOMAIN t = 1..Len(s) - 1
      /\ \A i \in 1..Len(s) - 1 : t[i] = s[i + 1]
  OBVIOUS
<1>2. Once(t)
  BY <1>1 DEF Once
<1>3. Range(t) \subseteq Range(s) \ {Head(s)}
  BY <1>1 DEF Range, Once
<1>4. ASSUME NEW x \in Range(s) \ {Head(s)} PROVE x \in Range(t)
  <2>1. PICK i \in 1..Len(s) : x = s[i]
    BY <1>1 DEF Range
  <2>2. i # 1 /\ i - 1 \in 1..Len(s) - 1 /\ t[i - 1] = x
    BY <2>1, <1>1
  <2> QED BY <2>2, <1>1 DEF Range
<1> QED BY <1>1, <1>2, <1>3, <1>4 DEF Range

(* Appending an element that is not there adds that element only.          *)
LEMMA AppendOnce ==
  ASSUME NEW S, NEW s \in Seq(S), NEW x \in S, Once(s), x \notin Range(s)
  PROVE  /\ Append(s, x) \in Seq(S) /\ Append(s, x) # <<>>
         /\ Len(Append(s, x)) = Len(s) + 1 /\ Append(s, x)[Len(s) + 1] = x
         /\ \A i \in 1..Len(s) : Append(s, x)[i] = s[i]
         /\ Once(Append(s, x)) /\ Range(Append(s, x)) = Range(s) \cup {x}
<1> DEFINE t == Append(s, x)
<1>1. /\ t \in Seq(S) /\ t # <<>> /\ Len(s) \in Nat /\ Len(t) = Len(s) + 1
      /\ DOMAIN s = 1..Len(s) /\ DOMAIN t = 1..Len(s) + 1
      /\ \A i \in 1..Len(s) : t[i] = s[i]
      /\ t[Len(s) + 1] = x
  OBVIOUS
<1>2. \A i \in 1..Len(s) : s[i] # x
  BY <1>1 DEF Range
<1>3. Once(t)
  BY <1>1, <1>2 DEF Once
<1>4. Range(t) \subseteq Range(s) \cup {x}
  BY <1>1 DEF Range
<1>5. Range(s) \subseteq Range(t)
  BY <1>1 DEF Range
<1>6. x \in Range(t)
  BY <1>1 DEF Range
<1> QED BY <1>1, <1>3, <1>4, <1>5, <1>6

(* Two elements appended at once.                                          *)
LEMMA PairOnce ==
  ASSUME NEW S, NEW s \in Seq(S), NEW x \in S, NEW y \in S, Once(s),
         x # y, x \notin Range(s), y \notin Range(s)
  PROVE  /\ s \o <<x, y>> \in Seq(S) /\ Once(s \o <<x, y>>)
         /\ Range(s \o <<x, y>>) = Range(s) \cup {x, y}
<1>1. s \o <<x, y>> = Append(Append(s, x), y)
  <2>1. Len(s \o <<x, y>>) = Len(s) + 2 /\ Len(Append(Append(s, x), y)) = Len(s) + 2
    OBVIOUS
  <2>2. ASSUME NEW i \in 1..Len(s) + 2 PROVE (s \o <<x, y>>)[i] = Append(Append(s, x), y)[i]
    <3>1. CASE i \in 1..Len(s)
      BY <3>1
    <3>2. CASE i = Len(s) + 1
      BY <3>2
    <3>3. CASE i = Len(s) + 2
      BY <3>3
    <3> QED BY <3>1, <3>2, <3>3
  <2> QED BY <2>1, <2>2
<1>2. /\ Append(s, x) \in Seq(S) /\ Once(Append(s, x)) /\ Range(Append(s, x)) = Range(s) \cup {x}
  BY AppendOnce
<1>3. y \notin Range(Append(s, x))
  BY <1>2
<1> DEFINE u == Append(s, x)
<1>4. u \in Seq(S) /\ Once(u) /\ y \notin Range(u)
  BY <1>2, <1>3
<1> HIDE DEF u
<1>5. Append(u, y) \in Seq(S) /\ Once(Append(u, y)) /\ Range(Append(u, y)) = Range(u) \cup {y}
  BY <1>4, AppendOnce
<1> QED BY <1>1, <1>2, <1>5 DEF u

(* Such a sequence is as long as the set of its elements.                  *)
LEMMA OnceCounts ==
  ASSUME NEW S, NEW s \in Seq(S), Once(s)
  PROVE  IsFiniteSet(Range(s)) /\ Cardinality(Range(s)) = Len(s)
<1>1. Len(s) \in Nat /\ DOMAIN s = 1..Len(s) /\ s \in [1..Len(s) -> Range(s)]
  BY DEF Range
<1>2. s \in Bijection(1..Len(s), Range(s))
  BY <1>1 DEF Bijection, Injection, Surjection, IsInjective, Once, Range
<1>3. IsFiniteSet(1..Len(s)) /\ Cardinality(1..Len(s)) = Len(s)
  BY <1>1, FS_Interval
<1>4. ExistsBijection(1..Len(s), Range(s))
  BY <1>2 DEF ExistsBijection
<1> QED BY <1>3, <1>4, FS_Bijection

LEMMA SeqWider ==
  ASSUME NEW S, NEW T, S \subseteq T, NEW s \in Seq(S)
  PROVE  s \in Seq(T)
OBVIOUS

LEMMA ConcatType ==
  ASSUME NEW S, NEW s \in Seq(S), NEW t \in Seq(S)
  PROVE  s \o t \in Seq(S)
OBVIOUS

(* The short sequences of the conversations.                               *)
LEMMA ShortSequences ==
  /\ \A x : Append(<<>>, x) = <<x>> /\ <<x>> # <<>> /\ Head(<<x>>) = x /\ Tail(<<x>>) = <<>>
  /\ \A x, y : <<>> \o <<x, y>> = <<x, y>> /\ Len(<<x, y>>) = 2 /\ After(2, <<x, y>>) = <<>>
  /\ \A x, y : <<x, y>>[1] = x /\ <<x, y>>[2] = y
  /\ \A x : Len(<<x>>) = 1 /\ <<x>>[1] = x
<1>1. ASSUME NEW x PROVE Append(<<>>, x) = <<x>> /\ <<x>> # <<>> /\ Head(<<x>>) = x /\ Tail(<<x>>) = <<>>
  <2>1. Append(<<>>, x) = <<x>>
    OBVIOUS
  <2>2. <<x>> # <<>> /\ Head(<<x>>) = x
    OBVIOUS
  <2>3. Tail(<<x>>) = <<>>
    OBVIOUS
  <2> QED BY <2>1, <2>2, <2>3
<1>2. ASSUME NEW x, NEW y
      PROVE  <<>> \o <<x, y>> = <<x, y>> /\ Len(<<x, y>>) = 2 /\ After(2, <<x, y>>) = <<>>
  <2>1. <<>> \o <<x, y>> = <<x, y>>
    OBVIOUS
  <2>2. Len(<<x, y>>) = 2
    OBVIOUS
  <2>3. SubSeq(<<x, y>>, 2 + 1, 2) = <<>>
    OBVIOUS
  <2> QED BY <2>1, <2>2, <2>3 DEF After
<1> QED BY <1>1, <1>2

LEMMA TwoKinds == IsFiniteSet(Kinds) /\ Cardinality(Kinds) = 2
<1>1. IsFiniteSet({"main"}) /\ Cardinality({"main"}) = 1
  BY FS_Singleton
<1>2. "fetch" \notin {"main"}
  OBVIOUS
<1> DEFINE One == {"main"}
<1>3. IsFiniteSet(One) /\ Cardinality(One) = 1 /\ "fetch" \notin One /\ Kinds = One \cup {"fetch"}
  BY <1>1, <1>2 DEF Kinds
<1> HIDE DEF One
<1>4. IsFiniteSet(One \cup {"fetch"}) /\ Cardinality(One \cup {"fetch"}) = Cardinality(One) + 1
  BY <1>3, FS_AddElement
<1> QED BY <1>3, <1>4

(* The processes of the build are among those of the model.                *)
LEMMA SomeProcesses ==
  ASSUME build \in Builds
  PROVE  /\ Size[build] \in Nat \ {0} /\ Live \subseteq Procs /\ 0 \in Live /\ Procs \subseteq Nat
         /\ IsFiniteSet(Live) /\ Cardinality(Live) = Size[build] /\ Live \subseteq Nat
<1> DEFINE T == {Size[b] : b \in Builds}
<1>1. Size[build] \in T /\ T \subseteq Nat \ {0} /\ Builds \subseteq {"sock", "mpi"}
  BY TransportAssumption
<1>2. \E x \in T : \A y \in T : x >= y
  <2>1. CASE \E b \in Builds : Builds = {b}
    BY <2>1, <1>1
  <2>2. CASE "sock" \in Builds /\ "mpi" \in Builds
    <3>1. T = {Size["sock"], Size["mpi"]}
      BY <2>2, <1>1
    <3>2. Size["sock"] \in Nat /\ Size["mpi"] \in Nat
      BY <2>2, <1>1
    <3> QED BY <3>1, <3>2
  <2> QED BY <2>1, <2>2, <1>1
<1> HIDE DEF T
<1>3. Max(T) \in T /\ \A y \in T : Max(T) >= y
  BY <1>2 DEF Max
<1>4. Procs = 0..(Max(T) - 1)
  BY DEF Procs, T
<1>5. Size[build] \in Nat \ {0} /\ Max(T) \in Nat /\ Max(T) >= Size[build]
  BY <1>1, <1>3
<1>6. IsFiniteSet(Live) /\ Cardinality(Live) = Size[build]
  <2>1. 0 \in Int /\ Size[build] - 1 \in Int /\ ~(0 > Size[build] - 1) /\ (Size[build] - 1) - 0 + 1 = Size[build]
    BY <1>5
  <2>2. /\ IsFiniteSet(0..(Size[build] - 1))
        /\ Cardinality(0..(Size[build] - 1)) = IF 0 > Size[build] - 1 THEN 0 ELSE (Size[build] - 1) - 0 + 1
    BY <2>1, FS_Interval, Zenon
  <2> QED BY <2>1, <2>2 DEF Live
<1> QED BY <1>4, <1>5, <1>6 DEF Live
-----------------------------------------------------------------------------
(***************************************************************************)
(* Connected processes stay connected: nothing touches the sockets.        *)
(***************************************************************************)
MainType == main \in [Procs -> [at : Places, n : Nat]]

(* A step of the main thread to a place p can be at when it is connected.  *)
LEMMA GoesOn ==
  ASSUME build \in Builds, MainType, Wired, NEW p \in Live, NEW w \in Places \ Early, GoTo(p, w)
  PROVE  MainType' /\ \A q \in Live : main'[q].at \notin Early
<1>1. p \in Procs /\ Live \subseteq Procs
  BY SomeProcesses
<1>2. main' = [main EXCEPT ![p] = [at |-> w, n |-> 0]]
  BY DEF GoTo
<1>3. MainType'
  BY <1>1, <1>2 DEF MainType
<1>4. ASSUME NEW q \in Live PROVE main'[q].at \notin Early
  BY <1>1, <1>2 DEF MainType, Wired, At
<1> QED BY <1>3, <1>4

(* What a step of connected processes leaves alone.                        *)
Keeps ==
  /\ MainType' /\ (\A p \in Live : main'[p].at \notin Early)
  /\ UNCHANGED <<build, accepts, id, portsIn, portsOut, faults>>

LEMMA WiredKeeps ==
  ASSUME build \in Builds, MainType, Wired, Next
  PROVE  Keeps
<1>1. /\ Live \subseteq Procs /\ 0 \in Live
      /\ \A p \in Live : At(p) \notin Early /\ accepts[p] = 0
  BY SomeProcesses DEF Wired
<1> DEFINE Rest == UNCHANGED <<build, accepts, id, portsIn, portsOut, faults>>
<1>2. ASSUME UNCHANGED main, Rest PROVE Keeps
  BY <1>1, <1>2 DEF Keeps, MainType, At
<1>3. ASSUME NEW p \in Live, NEW w \in Places \ Early, GoTo(p, w), Rest PROVE Keeps
  BY <1>3, GoesOn DEF Keeps
<1>4. CASE Master
  <2>1. HearTimes
    BY <1>1, <1>4 DEF Master, WriteBootFile, Listen, AcceptSlave, HearPort, HearReady, SendBook, Early
  <2>2. GoTo(0, "dup") /\ Rest /\ "dup" \in Places \ Early
    BY <2>1 DEF HearTimes, boot, Places, Early
  <2> QED BY <2>2, <1>1, <1>3
<1>5. CASE Duplicate
  <2>1. /\ main' = [p \in Procs |-> IF p \in Live THEN [at |-> "run", n |-> 0] ELSE main[p]] /\ Rest
    BY <1>5 DEF Duplicate, boot
  <2>2. MainType'
    BY <2>1 DEF MainType, Places
  <2>3. \A p \in Live : main'[p].at \notin Early
    BY <2>1, <1>1 DEF Early
  <2> QED BY <2>1, <2>2, <2>3 DEF Keeps
<1>6. ASSUME NEW t \in Tasks, StartRoot(t) PROVE Keeps
  BY <1>6, <1>2 DEF StartRoot, boot
<1>7. ASSUME NEW p \in Live, Slave(p) PROVE Keeps
  <2>1. SendTime(p)
    BY <1>1, <1>7 DEF Slave, GreetMaster, HearId, HearCount, HearBook, Early
  <2>2. GoTo(p, "dup") /\ Rest /\ "dup" \in Places \ Early
    BY <2>1 DEF SendTime, boot, Places, Early
  <2> QED BY <2>2, <1>3
<1>8. ASSUME NEW p \in Live, AcceptPeer(p) PROVE Keeps
  <2>1. accepts[p] > 0
    BY <1>8 DEF AcceptPeer
  <2> QED BY <2>1, <1>1
<1>9. ASSUME NEW p \in Live, Runner(p) PROVE Keeps
  <2>1. CASE RunStandard(p)
    BY <2>1, <1>2 DEF RunStandard, boot
  <2>2. CASE RunConfirmation(p)
    BY <2>2, <1>2 DEF RunConfirmation, boot
  <2>3. CASE SendHeld(p)
    BY <2>3, <1>2 DEF SendHeld, boot
  <2>4. CASE RunDirect(p)
    BY <2>4, <1>2 DEF RunDirect, boot
  <2>5. CASE RunStop(p)
    BY <2>5, <1>2 DEF RunStop, boot
  <2> QED BY <1>9, <2>1, <2>2, <2>3, <2>4, <2>5 DEF Runner
<1>10. ASSUME NEW p \in Live, NEW t \in Tasks, TaskSends(p, t) PROVE Keeps
  BY <1>10, <1>2 DEF TaskSends, boot
<1>11. ASSUME NEW p \in Live, NEW i \in Live, Receive(p, i) \/ Handle(p, i) PROVE Keeps
  BY <1>11, <1>2 DEF Receive, Handle, boot
<1>12. ASSUME NEW p \in Live, Main(p) PROVE Keeps
  <2>1. /\ \/ SockStop(p) \/ SockExit(p) \/ SockJoin(p)
           \/ Wait(p) \/ ReadUnsent(p) \/ ReadUnconfirmed(p) \/ ReadReceived(p) \/ ReadSent(p)
           \/ Reduce(p) \/ MpiExit(p) \/ MpiStop(p) \/ Finalize(p)
    BY <1>1, <1>12 DEF Main, Connect, Connected, Early
  <2>2. \E w \in Places \ Early : GoTo(p, w) /\ Rest
    <3>1. CASE SockStop(p)
      BY <3>1 DEF SockStop, boot, Places, Early
    <3>2. CASE SockExit(p)
      BY <3>2 DEF SockExit, boot, Places, Early
    <3>3. CASE SockJoin(p)
      BY <3>3 DEF SockJoin, boot, Places, Early
    <3>4. CASE Wait(p)
      BY <3>4 DEF Wait, boot, Places, Early
    <3>5. CASE ReadUnsent(p)
      BY <3>5 DEF ReadUnsent, boot, Places, Early
    <3>6. CASE ReadUnconfirmed(p)
      BY <3>6 DEF ReadUnconfirmed, boot, Places, Early
    <3>7. CASE ReadReceived(p)
      BY <3>7 DEF ReadReceived, boot, Places, Early
    <3>8. CASE ReadSent(p)
      BY <3>8 DEF ReadSent, boot, Places, Early
    <3>9. CASE Reduce(p)
      <4> DEFINE total(f) == MapThenSumSet(LAMBDA q : drain[q].given[drain[p].round % 2][f], Live)
      <4> DEFINE ends == total("sent") = total("received") /\ total("sent") + total("received") = drain[p].prev
      <4>1. GoTo(p, IF ends THEN "exit" ELSE "run") /\ Rest
        BY <3>9 DEF Reduce, boot
      <4> HIDE DEF ends
      <4>2. (IF ends THEN "exit" ELSE "run") \in Places \ Early
        BY DEF Places, Early
      <4> QED BY <4>1, <4>2
    <3>10. CASE MpiExit(p)
      BY <3>10 DEF MpiExit, boot, Places, Early
    <3>11. CASE MpiStop(p)
      BY <3>11 DEF MpiStop, boot, Places, Early
    <3>12. CASE Finalize(p)
      BY <3>12 DEF Finalize, boot, Places, Early
    <3> QED BY <2>1, <3>1, <3>2, <3>3, <3>4, <3>5, <3>6, <3>7, <3>8, <3>9, <3>10, <3>11, <3>12
  <2> QED BY <2>2, <1>3
<1>13. CASE Terminated
  BY <1>13, <1>2 DEF Terminated, vars, boot
<1> QED
  BY <1>4, <1>5, <1>6, <1>7, <1>8, <1>9, <1>10, <1>11, <1>12, <1>13 DEF Next, Others

LEMMA WiredStays ==
  ASSUME build \in Builds, MainType, Wired, Next
  PROVE  Wired' /\ MainType' /\ UNCHANGED <<build, faults>>
<1>1. Keeps
  BY WiredKeeps
<1>2. Live' = Live
  BY <1>1 DEF Keeps, Live
<1> QED BY <1>1, <1>2 DEF Keeps, Wired, At
-----------------------------------------------------------------------------
(***************************************************************************)
(* The master gathers the slaves.                                          *)
(***************************************************************************)
(* The connections of the first phase and of the second are different.     *)
LEMMA LinkFacts ==
  ASSUME build \in Builds
  PROVE  /\ Live \subseteq Procs /\ 0 \in Live /\ 0 \in Procs /\ 0 \notin Slaves /\ Slaves \subseteq Live
         /\ \A p \in Live : Boot(p) \in Conns /\ \A q \in Live : Boot(p) = Boot(q) => p = q
         /\ \A p, q \in Live, k \in Kinds : <<p, q, k>> \in Conns /\ <<p, q, k>> # Null
         /\ \A p, q, r \in Live, k \in Kinds : <<p, q, k>> # Boot(r)
         /\ Boots \subseteq Conns
<1>1. Live \subseteq Procs /\ 0 \in Live
  BY SomeProcesses
<1>2. \A p \in Live : Boot(p) \in Conns /\ \A q \in Live : Boot(p) = Boot(q) => p = q
  BY <1>1 DEF Boot, Conns
<1>3. \A p, q \in Live, k \in Kinds : <<p, q, k>> \in Conns /\ <<p, q, k>> # Null
  BY <1>1, TransportAssumption DEF Conns, Kinds
<1>4. \A p, q, r \in Live, k \in Kinds : <<p, q, k>> # Boot(r)
  BY DEF Boot, Kinds
<1> QED BY <1>1, <1>2, <1>3, <1>4 DEF Slaves, Boots

(* Whoever is in the book is welcome under its number.                     *)
LEMMA BookedIsWelcome ==
  ASSUME build \in Builds, Gathering, NEW n \in 1..Len(book[0])
  PROVE  \E p \in Slaves : book[0][n] = Boot(p) /\ Welcome(p, n)
<1>1. book[0] \in Seq(Boots) /\ Once(book[0]) /\ DOMAIN book[0] = 1..Len(book[0])
  BY DEF Gathering, Hosting
<1>2. PICK p \in Slaves : book[0][n] = Boot(p)
  BY <1>1 DEF Boots
<1>3. Boot(p) \in Range(book[0])
  BY <1>1, <1>2 DEF Range
<1>4. PICK k \in 1..Len(book[0]) : Welcome(p, k)
  BY <1>3 DEF Gathering, Newcomer
<1>5. k = n
  BY <1>1, <1>2, <1>4 DEF Welcome, Once
<1> QED BY <1>2, <1>4, <1>5

(* While the master waits for an answer, it waits for the last in the book.*)
LEMMA GuestIsLast ==
  ASSUME build \in Builds, Gathering, At(0) \in {"port", "ready"}
  PROVE  /\ Len(book[0]) \in Nat \ {0} /\ Guest = book[0][Len(book[0])]
         /\ \E p \in Slaves : Guest = Boot(p) /\ Welcome(p, Len(book[0]))
<1>1. book[0] \in Seq(Boots) /\ book[0] # <<>>
  BY DEF Gathering, Hosting
<1>2. Len(book[0]) \in Nat \ {0} /\ Guest = book[0][Len(book[0])]
  BY <1>1 DEF Guest, Last
<1> QED BY <1>2, BookedIsWelcome

(* What a slave's part of the invariant looks at.                          *)
SameSlave(p) ==
  /\ main'[p] = main[p] /\ id'[p] = id[p] /\ listener'[p] = listener[p]
  /\ up'[Boot(p)] = up[Boot(p)] /\ down'[Boot(p)] = down[Boot(p)]
  /\ Boot(p) \in Range(pending'[0]) <=> Boot(p) \in Range(pending[0])

(* A step of one slave leaves the others as they were.                     *)
LEMMA OthersStay ==
  ASSUME build \in Builds, Gathering, UNCHANGED <<build, book>>, main'[0] = main[0],
         NEW p \in Slaves, SameSlave(p)
  PROVE  Newcomer(p)' \/ \E k \in 1..Len(book'[0]) : Welcome(p, k)'
<1>1. CASE Newcomer(p)
  BY <1>1 DEF Newcomer, SameSlave, At
<1>2. ASSUME NEW k \in 1..Len(book[0]), Welcome(p, k)
      PROVE  Welcome(p, k)'
  BY <1>2 DEF Welcome, SameSlave, At, Numbered, Counted, Ready
<1> QED BY <1>1, <1>2 DEF Gathering

(* When the master turns to another slave, those it has done with stay     *)
(* ready.                                                                  *)
LEMMA ReadyStay ==
  ASSUME build \in Builds, Gathering, NEW p \in Slaves, NEW k \in 1..Len(book[0]), Welcome(p, k),
         k # Len(book[0]) \/ At(0) \notin {"port", "ready"}, SameSlave(p), build' = build,
         book'[0][k] = book[0][k], k # Len(book'[0]) \/ main'[0].at \notin {"port", "ready"}
  PROVE  Welcome(p, k)'
  BY DEF Welcome, SameSlave, At, Ready

LEMMA NewcomersStay ==
  ASSUME NEW p \in Slaves, Newcomer(p), SameSlave(p), Boot(p) \notin Range(book'[0])
  PROVE  Newcomer(p)'
  BY DEF Newcomer, SameSlave, At

(* A conversation does not touch the connections of the next phase.        *)
LEMMA LinksUntouched ==
  ASSUME build \in Builds, NEW g \in Slaves, \A e \in Conns \ {Boot(g)} : up'[e] = up[e]
  PROVE  \A p, q \in Live, k \in Kinds : up'[<<p, q, k>>] = up[<<p, q, k>>]
<1> TAKE p \in Live, q \in Live, k \in Kinds
<1>1. <<p, q, k>> \in Conns /\ <<p, q, k>> # Boot(g)
  BY LinkFacts
<1> QED BY <1>1

LEMMA UnlinkedStays ==
  ASSUME Unlinked, UNCHANGED <<build, accepts, hand, portsIn, portsOut>>,
         \A p \in Slaves : pending'[p] = pending[p],
         \A p, q \in Live, k \in Kinds : up'[<<p, q, k>>] = up[<<p, q, k>>],
         \A p \in Live : main'[p].n = 0
  PROVE  Unlinked'
<1>1. Live' = Live /\ Slaves' = Slaves /\ Unset' = Unset
  BY DEF Live, Slaves, Unset
<1> QED BY <1>1 DEF Unlinked

(* What every step of this phase has to show.                              *)
Gathers == Gathering' /\ MainType' /\ faults' \subseteq {<<"refused", "boot">>}
SoundSoFar == build \in Builds /\ MainType /\ faults \subseteq {<<"refused", "boot">>}

(* The master moves on, and nothing else happens.                          *)
LEMMA MasterTurns ==
  ASSUME MainType, NEW w \in Places, 0 \in Procs, GoTo(0, w)
  PROVE  MainType' /\ main'[0] = [at |-> w, n |-> 0] /\ \A p \in Procs \ {0} : main'[p] = main[p]
  BY DEF MainType, GoTo

LEMMA WriteBootFileGathers ==
  ASSUME SoundSoFar, Gathering, WriteBootFile
  PROVE  Gathers
<1>1. build \in Builds /\ MainType /\ "listen" \in Places
  BY DEF SoundSoFar, Places
<1>2. UNCHANGED <<build, up, listener, pending, down, book, accepts, portsIn, portsOut, id, work, faults>>
  BY DEF WriteBootFile, boot
<1>3. At(0) = "file" /\ MainType' /\ main'[0] = [at |-> "listen", n |-> 0]
      /\ \A p \in Procs \ {0} : main'[p] = main[p]
  BY <1>1, LinkFacts, MasterTurns DEF WriteBootFile
<1>4. Live' = Live /\ Slaves' = Slaves /\ Unset' = Unset /\ Boots' = Boots
  BY <1>2 DEF Live, Slaves, Unset, Boots
<1>5. BootType' /\ Still'
  BY <1>2, <1>4 DEF Gathering, BootType, Still, work
<1>6. Unlinked'
  BY <1>1, <1>2, <1>3, <1>4, LinkFacts DEF Gathering, Unlinked, work
<1>7. Hosting'
  BY <1>2, <1>3, <1>4 DEF Gathering, Hosting, At
<1>8. ASSUME NEW p \in Slaves PROVE Newcomer(p)' \/ \E k \in 1..Len(book'[0]) : Welcome(p, k)'
  <2>1. SameSlave(p) /\ p \in Procs \ {0}
    BY <1>1, <1>2, <1>3, LinkFacts DEF SameSlave
  <2>2. CASE Newcomer(p)
    BY <1>2, <2>1, <2>2, NewcomersStay DEF Newcomer
  <2>3. ASSUME NEW k \in 1..Len(book[0]), Welcome(p, k) PROVE Welcome(p, k)'
    <3>1. main'[0].at \notin {"port", "ready"} /\ At(0) \notin {"port", "ready"}
      BY <1>3
    <3> QED BY <1>1, <1>2, <2>1, <2>3, <3>1, ReadyStay
  <2> QED BY <1>2, <2>2, <2>3 DEF Gathering
<1>9. build' = "sock" /\ faults' \subseteq {<<"refused", "boot">>}
  BY <1>2 DEF Gathering, SoundSoFar
<1> QED BY <1>3, <1>4, <1>5, <1>6, <1>7, <1>8, <1>9 DEF Gathers, Gathering

LEMMA ListenGathers ==
  ASSUME SoundSoFar, Gathering, Listen
  PROVE  Gathers
<1>1. build \in Builds /\ MainType /\ "accept" \in Places
  BY DEF SoundSoFar, Places
<1>2. /\ UNCHANGED <<build, up, pending, down, book, accepts, portsIn, portsOut, id, work, faults>>
      /\ listener' = [listener EXCEPT ![0] = "open"]
  BY DEF Listen
<1>3. At(0) = "listen" /\ MainType' /\ main'[0] = [at |-> "accept", n |-> 0]
      /\ \A p \in Procs \ {0} : main'[p] = main[p]
  BY <1>1, LinkFacts, MasterTurns DEF Listen
<1>4. Live' = Live /\ Slaves' = Slaves /\ Unset' = Unset /\ Boots' = Boots
  BY <1>2 DEF Live, Slaves, Unset, Boots
<1>5. BootType' /\ Still'
  BY <1>2, <1>4 DEF Gathering, BootType, Still, work
<1>6. Unlinked'
  BY <1>1, <1>2, <1>3, <1>4, LinkFacts DEF Gathering, Unlinked, work
<1>7. Hosting'
  <2>1. listener'[0] = "open"
    BY <1>1, <1>2, LinkFacts DEF Gathering, BootType
  <2> QED BY <1>2, <1>3, <1>4, <2>1 DEF Gathering, Hosting, At
<1>8. ASSUME NEW p \in Slaves PROVE Newcomer(p)' \/ \E k \in 1..Len(book'[0]) : Welcome(p, k)'
  <2>1. SameSlave(p) /\ p \in Procs \ {0}
    BY <1>1, <1>2, <1>3, LinkFacts DEF SameSlave, Gathering, BootType
  <2>2. CASE Newcomer(p)
    BY <1>2, <2>1, <2>2, NewcomersStay DEF Newcomer
  <2>3. ASSUME NEW k \in 1..Len(book[0]), Welcome(p, k) PROVE Welcome(p, k)'
    <3>1. main'[0].at \notin {"port", "ready"} /\ At(0) \notin {"port", "ready"}
      BY <1>3
    <3> QED BY <1>1, <1>2, <2>1, <2>3, <3>1, ReadyStay
  <2> QED BY <1>2, <2>2, <2>3 DEF Gathering
<1>9. build' = "sock" /\ faults' \subseteq {<<"refused", "boot">>}
  BY <1>2 DEF Gathering, SoundSoFar
<1> QED BY <1>3, <1>4, <1>5, <1>6, <1>7, <1>8, <1>9 DEF Gathers, Gathering

LEMMA AcceptSlaveGathers ==
  ASSUME SoundSoFar, Gathering, AcceptSlave
  PROVE  Gathers
<1>0. Head(pending[0]) = Head(pending[0]) /\ Len(book[0]) \in Nat
  BY DEF Gathering, Hosting
<1> PICK c : c = Head(pending[0])
  OBVIOUS
<1> PICK n \in Nat : n = Len(book[0])
  BY <1>0
<1>1. build \in Builds /\ MainType /\ "port" \in Places
  BY DEF SoundSoFar, Places
<1>2. /\ UNCHANGED <<build, up, listener, accepts, portsIn, portsOut, id, work, faults>>
      /\ pending[0] # <<>> /\ pending' = [pending EXCEPT ![0] = Tail(@)]
      /\ down' = [down EXCEPT ![c] = Append(@, <<"id", n + 1>>)]
      /\ book' = [book EXCEPT ![0] = Append(@, c)]
  BY DEF AcceptSlave
<1>3. At(0) = "accept" /\ MainType' /\ main'[0] = [at |-> "port", n |-> 0]
      /\ \A p \in Procs \ {0} : main'[p] = main[p]
  BY <1>1, LinkFacts, MasterTurns DEF AcceptSlave
<1>4. Live' = Live /\ Slaves' = Slaves /\ Unset' = Unset /\ Boots' = Boots
  BY <1>2 DEF Live, Slaves, Unset, Boots
<1>5. /\ Tail(pending[0]) \in Seq(Boots) /\ c \in Boots /\ c \in Range(pending[0])
      /\ Once(Tail(pending[0])) /\ Range(Tail(pending[0])) = Range(pending[0]) \ {c}
  BY <1>2, TailOnce DEF Gathering, Hosting
<1>6. PICK g \in Slaves : c = Boot(g)
  BY <1>5 DEF Boots
<1>7. Newcomer(g)
  BY <1>5, <1>6 DEF Gathering, Welcome
<1>8. /\ book'[0] \in Seq(Boots) /\ book'[0] # <<>> /\ Len(book'[0]) = n + 1 /\ book'[0][n + 1] = c
      /\ (\A i \in 1..n : book'[0][i] = book[0][i])
      /\ Once(book'[0]) /\ Range(book'[0]) = Range(book[0]) \cup {c}
  <2>1. book'[0] = Append(book[0], c)
    BY <1>1, <1>2, LinkFacts DEF Gathering, BootType
  <2>2. c \notin Range(book[0]) /\ book[0] \in Seq(Boots) /\ Once(book[0])
    BY <1>6, <1>7 DEF Newcomer, Gathering, Hosting
  <2> QED BY <1>5, <2>1, <2>2, AppendOnce
<1>9. pending'[0] = Tail(pending[0]) /\ (\A p \in Slaves : pending'[p] = pending[p])
  BY <1>1, <1>2, LinkFacts DEF Gathering, BootType
<1>10. /\ down'[c] = <<<<"id", n + 1>>>> /\ (\A e \in Conns \ {c} : down'[e] = down[e])
  <2>1. down[c] = <<>> /\ c \in Conns
    BY <1>1, <1>5, <1>6, <1>7, LinkFacts DEF Newcomer
  <2>2. Append(down[c], <<"id", n + 1>>) = <<<<"id", n + 1>>>>
    BY <2>1, ShortSequences
  <2> QED BY <1>2, <2>1, <2>2 DEF Gathering, BootType
<1>11. BootType' /\ Still'
  <2>1. c \in Conns /\ Boots \subseteq Conns /\ 0 \in Procs
    BY <1>1, <1>5, LinkFacts
  <2>2. pending' \in [Procs -> Seq(Conns)]
    BY <1>2, <1>5, <2>1 DEF Gathering, BootType
  <2>3. down' \in [Conns -> Seq(Items)]
    <3>1. n + 1 \in Int /\ <<"id", n + 1>> \in Items
      BY <1>8 DEF Items
    <3> QED BY <1>2, <2>1, <3>1 DEF Gathering, BootType
  <2>4. book' \in [Procs -> Seq(Conns \cup Procs)]
    BY <1>2, <2>1 DEF Gathering, BootType
  <2> QED BY <1>2, <1>4, <2>2, <2>3, <2>4 DEF Gathering, BootType, Still, work
<1>12. Unlinked'
  <2>1. \A p \in Live : main'[p].n = 0
    BY <1>1, <1>3, LinkFacts DEF Gathering, Unlinked
  <2>2. \A p \in Slaves : pending'[p] = <<>>
    BY <1>9 DEF Gathering, Unlinked
  <2> QED BY <1>2, <1>4, <2>1, <2>2 DEF Gathering, Unlinked, work
<1>13. Hosting'
  BY <1>2, <1>3, <1>4, <1>5, <1>8, <1>9 DEF Gathering, Hosting, At
<1>14. ASSUME NEW p \in Slaves PROVE Newcomer(p)' \/ \E k \in 1..Len(book'[0]) : Welcome(p, k)'
  <2>1. CASE p = g
    <3>1. up'[Boot(p)] = <<>> /\ main'[p] = main[p] /\ main[p].at = "id"
      BY <1>1, <1>2, <1>3, <1>5, <1>6, <1>7, <2>1, LinkFacts DEF Newcomer, At
    <3>2. Numbered(p, n + 1)'
      BY <1>6, <1>10, <2>1, <3>1 DEF Numbered, At
    <3>3. Boot(p) \notin Range(pending'[0])
      BY <1>5, <1>6, <1>9, <2>1
    <3>4. Welcome(p, n + 1)' /\ n + 1 \in 1..Len(book'[0])
      BY <1>3, <1>6, <1>8, <2>1, <3>2, <3>3 DEF Welcome, At
    <3> QED BY <3>4
  <2>2. CASE p # g
    <3>1. Boot(p) # c /\ Boot(p) \in Conns /\ p \in Procs \ {0}
      BY <1>1, <1>6, <2>2, LinkFacts
    <3>2. SameSlave(p)
      BY <1>2, <1>3, <1>5, <1>9, <1>10, <3>1 DEF SameSlave
    <3>3. CASE Newcomer(p)
      BY <1>8, <3>1, <3>2, <3>3, NewcomersStay DEF Newcomer
    <3>4. ASSUME NEW k \in 1..Len(book[0]), Welcome(p, k)
          PROVE  Welcome(p, k)' /\ k \in 1..Len(book'[0])
      <4>1. At(0) \notin {"port", "ready"} /\ k # Len(book'[0]) /\ k \in 1..Len(book'[0])
            /\ book'[0][k] = book[0][k]
        BY <1>3, <1>8
      <4> QED BY <1>1, <1>2, <3>2, <3>4, <4>1, ReadyStay
    <3> QED BY <3>3, <3>4 DEF Gathering
  <2> QED BY <2>1, <2>2
<1>15. build' = "sock" /\ faults' \subseteq {<<"refused", "boot">>}
  BY <1>2 DEF Gathering, SoundSoFar
<1> QED BY <1>3, <1>4, <1>11, <1>12, <1>13, <1>14, <1>15 DEF Gathers, Gathering

(* A slave moves on: only its own place changes.                           *)
LEMMA SlaveTurns ==
  ASSUME build \in Builds, MainType, NEW w \in Places, NEW p \in Slaves, GoTo(p, w)
  PROVE  /\ MainType' /\ main'[p] = [at |-> w, n |-> 0] /\ main'[0] = main[0]
         /\ \A q \in Slaves \ {p} : main'[q] = main[q]
<1>1. p \in Procs /\ p # 0 /\ 0 \in Procs /\ Slaves \subseteq Procs
  BY LinkFacts
<1> QED BY <1>1 DEF MainType, GoTo

LEMMA HearPortGathers ==
  ASSUME SoundSoFar, Gathering, HearPort
  PROVE  Gathers
<1>1. build \in Builds /\ MainType /\ "ready" \in Places
  BY DEF SoundSoFar, Places
<1>2. PICK n \in Nat \ {0} : n = Len(book[0])
  BY <1>1, GuestIsLast DEF HearPort
<1>3. PICK g \in Slaves : Guest = Boot(g) /\ Welcome(g, n)
  BY <1>1, <1>2, GuestIsLast DEF HearPort
<1>4. /\ UNCHANGED <<build, book, listener, pending, accepts, portsIn, portsOut, id, work>>
      /\ up[Boot(g)] # <<>> /\ Check(up[Boot(g)], <<"port">>)
      /\ up' = [up EXCEPT ![Boot(g)] = Tail(@)]
      /\ down' = [down EXCEPT ![Boot(g)] = Append(@, <<"count", Size[build]>>)]
  BY <1>3 DEF HearPort
<1>5. /\ At(0) = "port" /\ MainType' /\ main'[0] = [at |-> "ready", n |-> 0]
      /\ \A p \in Procs \ {0} : main'[p] = main[p]
  BY <1>1, LinkFacts, MasterTurns DEF HearPort
<1>6. Live' = Live /\ Slaves' = Slaves /\ Unset' = Unset /\ Boots' = Boots
  BY <1>4 DEF Live, Slaves, Unset, Boots
<1>7. At(g) = "count" /\ id[g] = n /\ up[Boot(g)] = <<<<"port", g>>>> /\ down[Boot(g)] = <<>>
  BY <1>2, <1>3, <1>4, <1>5 DEF Welcome, Numbered
<1>8. UNCHANGED faults
  <2>1. up[Boot(g)][1] = <<"port", g>> /\ DOMAIN <<"port">> = {1} /\ <<"port">>[1] = "port"
    BY <1>7
  <2>2. <<"port", g>>[1] = "port"
    OBVIOUS
  <2>3. Meant(up[Boot(g)], <<"port">>)
    BY <2>1, <2>2 DEF Meant
  <2> QED BY <1>4, <2>3 DEF Check
<1>9. Boot(g) \in Conns /\ Size[build] \in Nat
  BY <1>1, LinkFacts, SomeProcesses
<1>10. /\ up'[Boot(g)] = <<>> /\ down'[Boot(g)] = <<<<"count", Size[build]>>>>
       /\ \A e \in Conns \ {Boot(g)} : up'[e] = up[e] /\ down'[e] = down[e]
  <2>1. Tail(up[Boot(g)]) = <<>> /\ Append(down[Boot(g)], <<"count", Size[build]>>) = <<<<"count", Size[build]>>>>
    BY <1>7, ShortSequences
  <2> QED BY <1>4, <1>9, <2>1 DEF Gathering, BootType
<1>11. BootType' /\ Still'
  <2>1. up' \in [Conns -> Seq(Items)]
    BY <1>4, <1>9 DEF Gathering, BootType
  <2>2. down' \in [Conns -> Seq(Items)]
    <3>1. <<"count", Size[build]>> \in Items
      BY <1>9 DEF Items
    <3> QED BY <1>4, <1>9, <3>1 DEF Gathering, BootType
  <2> QED BY <1>4, <1>6, <2>1, <2>2 DEF Gathering, BootType, Still, work
<1>12. Unlinked'
  <2>1. \A p, q \in Live, k \in Kinds : up'[<<p, q, k>>] = up[<<p, q, k>>]
    BY <1>1, <1>10, LinkFacts
  <2> QED BY <1>1, <1>4, <1>5, <1>6, <2>1, LinkFacts DEF Gathering, Unlinked, work
<1>13. Hosting'
  BY <1>4, <1>5, <1>6 DEF Gathering, Hosting, At
<1>14. ASSUME NEW p \in Slaves PROVE Newcomer(p)' \/ \E k \in 1..Len(book'[0]) : Welcome(p, k)'
  <2>1. CASE p = g
    <3>1. main'[p] = main[p] /\ Size[build] = Size[build']
      BY <1>1, <1>4, <1>5, LinkFacts
    <3>2. Counted(p, n)'
      BY <1>4, <1>7, <1>10, <2>1, <3>1 DEF Counted, At
    <3>3. Welcome(p, n)' /\ n \in 1..Len(book'[0])
      BY <1>2, <1>3, <1>4, <1>5, <2>1, <3>2 DEF Welcome, At
    <3> QED BY <3>3
  <2>2. CASE p # g
    <3>1. Boot(p) # Boot(g) /\ Boot(p) \in Conns /\ p \in Procs \ {0}
      BY <1>1, <2>2, LinkFacts
    <3>2. SameSlave(p)
      BY <1>4, <1>5, <1>10, <3>1 DEF SameSlave
    <3>3. CASE Newcomer(p)
      BY <1>4, <3>2, <3>3, NewcomersStay DEF Newcomer
    <3>4. ASSUME NEW k \in 1..Len(book[0]), Welcome(p, k)
          PROVE  Welcome(p, k)'
      <4>1. k # Len(book[0])
        BY <1>2, <1>3, <3>1, <3>4 DEF Welcome
      <4> QED BY <1>1, <1>4, <3>2, <3>4, <4>1, ReadyStay
    <3> QED BY <1>4, <3>3, <3>4 DEF Gathering
  <2> QED BY <2>1, <2>2
<1>15. build' = "sock" /\ faults' \subseteq {<<"refused", "boot">>}
  BY <1>4, <1>8 DEF Gathering, SoundSoFar
<1> QED BY <1>5, <1>6, <1>11, <1>12, <1>13, <1>14, <1>15 DEF Gathers, Gathering

LEMMA HearReadyGathers ==
  ASSUME SoundSoFar, Gathering, HearReady
  PROVE  Gathers
<1>1. build \in Builds /\ MainType /\ "accept" \in Places
  BY DEF SoundSoFar, Places
<1>2. PICK n \in Nat \ {0} : n = Len(book[0])
  BY <1>1, GuestIsLast DEF HearReady
<1>3. PICK g \in Slaves : Guest = Boot(g) /\ Welcome(g, n)
  BY <1>1, <1>2, GuestIsLast DEF HearReady
<1>4. /\ UNCHANGED <<build, book, down, listener, pending, accepts, portsIn, portsOut, id, work>>
      /\ Len(up[Boot(g)]) >= 2 /\ Check(up[Boot(g)], <<"listening", "time">>)
      /\ up' = [up EXCEPT ![Boot(g)] = After(2, @)]
  BY <1>3 DEF HearReady, boot
<1>5. /\ At(0) = "ready" /\ MainType' /\ main'[0] = [at |-> "accept", n |-> 0]
      /\ \A p \in Procs \ {0} : main'[p] = main[p]
  BY <1>1, LinkFacts, MasterTurns DEF HearReady
<1>6. Live' = Live /\ Slaves' = Slaves /\ Unset' = Unset /\ Boots' = Boots
  BY <1>4 DEF Live, Slaves, Unset, Boots
<1>7. /\ At(g) = "book" /\ id[g] = n /\ listener[g] = "open" /\ down[Boot(g)] = <<>>
      /\ up[Boot(g)] = <<<<"listening", 0>>, <<"time", 0>>>>
  BY <1>2, <1>3, <1>4, <1>5 DEF Welcome, Counted
<1>8. UNCHANGED faults
  <2>1. /\ up[Boot(g)][1] = <<"listening", 0>> /\ up[Boot(g)][2] = <<"time", 0>>
        /\ DOMAIN <<"listening", "time">> = {1, 2}
        /\ <<"listening", "time">>[1] = "listening" /\ <<"listening", "time">>[2] = "time"
    BY <1>7
  <2>2. <<"listening", 0>>[1] = "listening" /\ <<"time", 0>>[1] = "time"
    OBVIOUS
  <2>3. Meant(up[Boot(g)], <<"listening", "time">>)
    BY <2>1, <2>2 DEF Meant
  <2> QED BY <1>4, <2>3 DEF Check
<1>9. Boot(g) \in Conns
  BY <1>1, LinkFacts
<1>10. /\ up'[Boot(g)] = <<>> /\ \A e \in Conns \ {Boot(g)} : up'[e] = up[e]
  <2>1. After(2, up[Boot(g)]) = <<>>
    BY <1>7, ShortSequences
  <2> QED BY <1>4, <1>9, <2>1 DEF Gathering, BootType
<1>11. BootType' /\ Still'
  <2>1. up' \in [Conns -> Seq(Items)]
    <3>1. After(2, up[Boot(g)]) = <<>> /\ <<>> \in Seq(Items)
      BY <1>7, ShortSequences
    <3> QED BY <1>4, <1>9, <3>1 DEF Gathering, BootType
  <2> QED BY <1>4, <1>6, <2>1 DEF Gathering, BootType, Still, work
<1>12. Unlinked'
  <2>1. \A p, q \in Live, k \in Kinds : up'[<<p, q, k>>] = up[<<p, q, k>>]
    BY <1>1, <1>10, LinkFacts
  <2> QED BY <1>1, <1>4, <1>5, <1>6, <2>1, LinkFacts DEF Gathering, Unlinked, work
<1>13. Hosting'
  BY <1>4, <1>5, <1>6 DEF Gathering, Hosting, At
<1>14. ASSUME NEW p \in Slaves PROVE Newcomer(p)' \/ \E k \in 1..Len(book'[0]) : Welcome(p, k)'
  <2>1. CASE p = g
    <3>1. main'[p] = main[p]
      BY <1>1, <1>4, <1>5, LinkFacts
    <3>2. Ready(p, n)'
      BY <1>4, <1>7, <1>10, <2>1, <3>1 DEF Ready, At
    <3>3. Welcome(p, n)' /\ n \in 1..Len(book'[0])
      BY <1>2, <1>3, <1>4, <1>5, <2>1, <3>2 DEF Welcome, At
    <3> QED BY <3>3
  <2>2. CASE p # g
    <3>1. Boot(p) # Boot(g) /\ Boot(p) \in Conns /\ p \in Procs \ {0}
      BY <1>1, <2>2, LinkFacts
    <3>2. SameSlave(p)
      BY <1>4, <1>5, <1>10, <3>1 DEF SameSlave
    <3>3. CASE Newcomer(p)
      BY <1>4, <3>2, <3>3, NewcomersStay DEF Newcomer
    <3>4. ASSUME NEW k \in 1..Len(book[0]), Welcome(p, k)
          PROVE  Welcome(p, k)'
      <4>1. k # Len(book[0]) /\ main'[0].at \notin {"port", "ready"}
        BY <1>2, <1>3, <1>5, <3>1, <3>4 DEF Welcome
      <4> QED BY <1>1, <1>4, <3>2, <3>4, <4>1, ReadyStay
    <3> QED BY <1>4, <3>3, <3>4 DEF Gathering
  <2> QED BY <2>1, <2>2
<1>15. build' = "sock" /\ faults' \subseteq {<<"refused", "boot">>}
  BY <1>4, <1>8 DEF Gathering, SoundSoFar
<1> QED BY <1>5, <1>6, <1>11, <1>12, <1>13, <1>14, <1>15 DEF Gathers, Gathering

LEMMA GreetMasterGathers ==
  ASSUME SoundSoFar, Gathering, NEW g \in Slaves, GreetMaster(g)
  PROVE  Gathers
<1>1. build \in Builds /\ MainType
  BY DEF SoundSoFar
<1>2. /\ UNCHANGED <<build, up, down, book, id, accepts, portsIn, portsOut, work>>
      /\ listener' = [listener EXCEPT ![g] = "bound"] /\ At(g) = "slave"
  BY DEF GreetMaster
<1>3. /\ g \in Live /\ g \in Procs /\ 0 \in Procs /\ g # 0 /\ Boot(g) \in Conns /\ Boot(g) \in Boots
      /\ Slaves \subseteq Procs \ {0} /\ Boots \subseteq Conns
  BY <1>1, LinkFacts DEF Boots
<1>4. Live' = Live /\ Slaves' = Slaves /\ Unset' = Unset /\ Boots' = Boots
  BY <1>2 DEF Live, Slaves, Unset, Boots
<1>5. Newcomer(g)
  <2>1. ASSUME NEW k \in 1..Len(book[0]), Welcome(g, k) PROVE FALSE
    BY <1>2, <2>1 DEF Welcome, Numbered, Counted, Ready
  <2> QED BY <2>1 DEF Gathering
<1>6. Boot(g) \notin Range(pending[0]) /\ Boot(g) \notin Range(book[0]) /\ up[Boot(g)] = <<>> /\ down[Boot(g)] = <<>>
  BY <1>2, <1>5 DEF Newcomer
<1>7. PICK w \in {"id", "failed"} :
        /\ GoTo(g, w) /\ faults' \subseteq {<<"refused", "boot">>}
        /\ pending' = IF w = "id" THEN [pending EXCEPT ![0] = Append(@, Boot(g))] ELSE pending
  <2>1. CASE listener[0] = "open"
    BY <2>1 DEF GreetMaster, SoundSoFar
  <2>2. CASE listener[0] # "open"
    BY <2>2 DEF GreetMaster, SoundSoFar, Fault
  <2> QED BY <2>1, <2>2
<1>8. MainType' /\ main'[g] = [at |-> w, n |-> 0] /\ main'[0] = main[0]
      /\ \A q \in Slaves \ {g} : main'[q] = main[q]
  <2>1. w \in Places
    BY DEF Places
  <2> QED BY <1>1, <1>7, <2>1, SlaveTurns
<1>9. /\ pending'[0] \in Seq(Boots) /\ Once(pending'[0])
      /\ Range(pending'[0]) = IF w = "id" THEN Range(pending[0]) \cup {Boot(g)} ELSE Range(pending[0])
      /\ \A p \in Slaves : pending'[p] = pending[p]
  <2>1. pending[0] \in Seq(Boots) /\ Once(pending[0])
    BY DEF Gathering, Hosting
  <2>2. CASE w = "id"
    <3>1. /\ pending'[0] = Append(pending[0], Boot(g)) /\ \A p \in Slaves : pending'[p] = pending[p]
      BY <1>3, <1>7, <2>2 DEF Gathering, BootType
    <3> QED BY <1>3, <1>6, <2>1, <2>2, <3>1, AppendOnce
  <2>3. CASE w = "failed"
    BY <1>7, <2>1, <2>3
  <2> QED BY <2>2, <2>3
<1>10. BootType' /\ Still'
  <2>1. pending' \in [Procs -> Seq(Conns)]
    <3>1. CASE w = "id"
      BY <1>3, <1>7, <3>1 DEF Gathering, BootType
    <3>2. CASE w = "failed"
      BY <1>7, <3>2 DEF Gathering, BootType
    <3> QED BY <3>1, <3>2
  <2>2. listener' \in [Procs -> {"none", "bound", "open", "closed"}]
    BY <1>2, <1>3 DEF Gathering, BootType
  <2> QED BY <1>2, <1>4, <2>1, <2>2 DEF Gathering, BootType, Still, work
<1>11. Unlinked'
  <2>1. \A p \in Live : main'[p].n = 0
    <3>1. ASSUME NEW p \in Live PROVE main'[p].n = 0
      <4>1. CASE p = g
        BY <1>8, <4>1
      <4>2. CASE p # g
        BY <1>8, <4>2 DEF Slaves, Gathering, Unlinked
      <4> QED BY <4>1, <4>2
    <3> QED BY <3>1
  <2> QED BY <1>2, <1>4, <1>9, <2>1 DEF Gathering, Unlinked, work
<1>12. Hosting'
  <2>1. listener'[0] = listener[0]
    BY <1>2, <1>3 DEF Gathering, BootType
  <2> QED BY <1>2, <1>4, <1>8, <1>9, <2>1 DEF Gathering, Hosting, At
<1>13. ASSUME NEW p \in Slaves PROVE Newcomer(p)' \/ \E k \in 1..Len(book'[0]) : Welcome(p, k)'
  <2>1. CASE p = g
    BY <1>2, <1>6, <1>8, <1>9, <2>1 DEF Newcomer, At
  <2>2. CASE p # g
    <3>1. Boot(p) # Boot(g)
      BY <1>1, <1>3, <2>2, LinkFacts
    <3>2. SameSlave(p)
      BY <1>2, <1>3, <1>8, <1>9, <2>2, <3>1 DEF SameSlave, Gathering, BootType
    <3> QED BY <1>1, <1>2, <1>8, <3>2, OthersStay
  <2> QED BY <2>1, <2>2
<1> QED BY <1>2, <1>4, <1>7, <1>8, <1>10, <1>11, <1>12, <1>13 DEF Gathers, Gathering

LEMMA HearIdGathers ==
  ASSUME SoundSoFar, Gathering, NEW g \in Slaves, HearId(g)
  PROVE  Gathers
<1>1. build \in Builds /\ MainType /\ "count" \in Places
  BY DEF SoundSoFar, Places
<1>2. /\ UNCHANGED <<build, book, listener, pending, accepts, portsIn, portsOut, work>>
      /\ At(g) = "id" /\ down[Boot(g)] # <<>> /\ Check(down[Boot(g)], <<"id">>)
      /\ id' = [id EXCEPT ![g] = Head(down[Boot(g)])[2]]
      /\ down' = [down EXCEPT ![Boot(g)] = Tail(@)]
      /\ up' = [up EXCEPT ![Boot(g)] = Append(@, <<"port", g>>)]
  BY DEF HearId
<1>3. /\ g \in Live /\ g \in Procs /\ 0 \in Procs /\ g # 0 /\ Boot(g) \in Conns /\ g \in Nat
      /\ Slaves \subseteq Procs \ {0}
  BY <1>1, LinkFacts, SomeProcesses
<1>4. MainType' /\ main'[g] = [at |-> "count", n |-> 0] /\ main'[0] = main[0]
      /\ \A q \in Slaves \ {g} : main'[q] = main[q]
  BY <1>1, SlaveTurns DEF HearId
<1>5. Live' = Live /\ Slaves' = Slaves /\ Unset' = Unset /\ Boots' = Boots
  BY <1>2 DEF Live, Slaves, Unset, Boots
<1>6. PICK n \in 1..Len(book[0]) : Welcome(g, n)
  BY <1>2 DEF Gathering, Newcomer
<1>7. /\ n = Len(book[0]) /\ At(0) = "port" /\ up[Boot(g)] = <<>> /\ down[Boot(g)] = <<<<"id", n>>>>
  BY <1>2, <1>6 DEF Welcome, Numbered, Counted, Ready
<1>8. n \in Nat
  BY <1>6 DEF Gathering, Hosting
<1>9. Head(down[Boot(g)])[2] = n /\ Tail(down[Boot(g)]) = <<>>
      /\ Append(up[Boot(g)], <<"port", g>>) = <<<<"port", g>>>>
  <2>1. <<"id", n>>[2] = n
    OBVIOUS
  <2> QED BY <1>7, <2>1, ShortSequences
<1>10. UNCHANGED faults
  <2>1. down[Boot(g)][1] = <<"id", n>> /\ DOMAIN <<"id">> = {1} /\ <<"id">>[1] = "id"
    BY <1>7
  <2>2. <<"id", n>>[1] = "id"
    OBVIOUS
  <2>3. Meant(down[Boot(g)], <<"id">>)
    BY <2>1, <2>2 DEF Meant
  <2> QED BY <1>2, <2>3 DEF Check
<1>11. /\ up'[Boot(g)] = <<<<"port", g>>>> /\ down'[Boot(g)] = <<>> /\ id'[g] = n /\ id'[0] = id[0]
       /\ (\A e \in Conns \ {Boot(g)} : up'[e] = up[e] /\ down'[e] = down[e])
       /\ \A q \in Slaves \ {g} : id'[q] = id[q]
  BY <1>2, <1>3, <1>9 DEF Gathering, BootType
<1>12. BootType' /\ Still'
  <2>1. up' \in [Conns -> Seq(Items)]
    <3>1. <<"port", g>> \in Items
      BY <1>3 DEF Items
    <3> QED BY <1>2, <1>3, <3>1 DEF Gathering, BootType
  <2>2. down' \in [Conns -> Seq(Items)]
    BY <1>2, <1>3 DEF Gathering, BootType
  <2>3. id' \in [Procs -> Int]
    <3>1. id' = [id EXCEPT ![g] = n]
      BY <1>2, <1>9
    <3>2. n \in Int /\ id \in [Procs -> Int]
      BY <1>8 DEF Gathering, BootType
    <3> QED BY <3>1, <3>2
  <2> QED BY <1>2, <1>5, <2>1, <2>2, <2>3 DEF Gathering, BootType, Still, work
<1>13. Unlinked'
  <2>1. \A p, q \in Live, k \in Kinds : up'[<<p, q, k>>] = up[<<p, q, k>>]
    BY <1>1, <1>11, LinksUntouched
  <2>2. ASSUME NEW p \in Live PROVE main'[p].n = 0
    <3>1. CASE p = g
      BY <1>4, <3>1
    <3>2. CASE p # g
      BY <1>4, <3>2 DEF Slaves, Gathering, Unlinked
    <3> QED BY <3>1, <3>2
  <2>3. Unlinked /\ UNCHANGED <<build, accepts, hand, portsIn, portsOut, pending>>
    BY <1>2 DEF Gathering, work
  <2> QED BY <2>1, <2>2, <2>3, UnlinkedStays
<1>14. Hosting'
  BY <1>2, <1>4, <1>5, <1>11 DEF Gathering, Hosting, At
<1>15. ASSUME NEW p \in Slaves PROVE Newcomer(p)' \/ \E k \in 1..Len(book'[0]) : Welcome(p, k)'
  <2>1. CASE p = g
    <3>1. Numbered(p, n)'
      BY <1>4, <1>11, <2>1 DEF Numbered, At
    <3>2. Welcome(p, n)'
      BY <1>2, <1>4, <1>6, <1>7, <2>1, <3>1 DEF Welcome, At
    <3> QED BY <1>2, <3>2
  <2>2. CASE p # g
    <3>1. Boot(p) # Boot(g) /\ Boot(p) \in Conns
      BY <1>1, <1>3, <2>2, LinkFacts
    <3>2. SameSlave(p)
      BY <1>2, <1>4, <1>11, <2>2, <3>1 DEF SameSlave
    <3> QED BY <1>1, <1>2, <1>4, <3>2, OthersStay
  <2> QED BY <2>1, <2>2
<1>16. build' = "sock" /\ faults' \subseteq {<<"refused", "boot">>}
  BY <1>2, <1>10 DEF Gathering, SoundSoFar
<1> QED BY <1>4, <1>5, <1>12, <1>13, <1>14, <1>15, <1>16 DEF Gathers, Gathering

LEMMA HearCountGathers ==
  ASSUME SoundSoFar, Gathering, NEW g \in Slaves, HearCount(g)
  PROVE  Gathers
<1>1. build \in Builds /\ MainType /\ "book" \in Places
  BY DEF SoundSoFar, Places
<1>2. /\ UNCHANGED <<build, book, id, pending, accepts, portsIn, portsOut, work>>
      /\ At(g) = "count" /\ down[Boot(g)] # <<>> /\ Check(down[Boot(g)], <<"count">>)
      /\ listener' = [listener EXCEPT ![g] = "open"]
      /\ down' = [down EXCEPT ![Boot(g)] = Tail(@)]
      /\ up' = [up EXCEPT ![Boot(g)] = @ \o <<<<"listening", 0>>, <<"time", 0>>>>]
  BY DEF HearCount
<1>3. /\ g \in Live /\ g \in Procs /\ 0 \in Procs /\ g # 0 /\ Boot(g) \in Conns
      /\ Slaves \subseteq Procs \ {0}
  BY <1>1, LinkFacts
<1>4. MainType' /\ main'[g] = [at |-> "book", n |-> 0] /\ main'[0] = main[0]
      /\ \A q \in Slaves \ {g} : main'[q] = main[q]
  BY <1>1, SlaveTurns DEF HearCount
<1>5. Live' = Live /\ Slaves' = Slaves /\ Unset' = Unset /\ Boots' = Boots
  BY <1>2 DEF Live, Slaves, Unset, Boots
<1>6. PICK n \in 1..Len(book[0]) : Welcome(g, n)
  BY <1>2 DEF Gathering, Newcomer
<1>7. /\ n = Len(book[0]) /\ At(0) = "ready" /\ up[Boot(g)] = <<>> /\ id[g] = n
      /\ down[Boot(g)] = <<<<"count", Size[build]>>>>
  BY <1>2, <1>6 DEF Welcome, Numbered, Counted, Ready
<1>8. Tail(down[Boot(g)]) = <<>>
      /\ up[Boot(g)] \o <<<<"listening", 0>>, <<"time", 0>>>> = <<<<"listening", 0>>, <<"time", 0>>>>
  BY <1>7, ShortSequences
<1>9. UNCHANGED faults
  <2>1. down[Boot(g)][1] = <<"count", Size[build]>> /\ DOMAIN <<"count">> = {1} /\ <<"count">>[1] = "count"
    BY <1>7
  <2>2. <<"count", Size[build]>>[1] = "count"
    OBVIOUS
  <2>3. Meant(down[Boot(g)], <<"count">>)
    BY <2>1, <2>2 DEF Meant
  <2> QED BY <1>2, <2>3 DEF Check
<1>10. /\ up'[Boot(g)] = <<<<"listening", 0>>, <<"time", 0>>>> /\ down'[Boot(g)] = <<>>
       /\ (\A e \in Conns \ {Boot(g)} : up'[e] = up[e] /\ down'[e] = down[e])
       /\ listener'[g] = "open" /\ \A q \in Procs \ {g} : listener'[q] = listener[q]
  BY <1>2, <1>3, <1>8 DEF Gathering, BootType
<1>11. BootType' /\ Still'
  <2>1. up' \in [Conns -> Seq(Items)]
    <3>1. <<"listening", 0>> \in Items /\ <<"time", 0>> \in Items
      BY DEF Items
    <3>2. <<<<"listening", 0>>, <<"time", 0>>>> \in Seq(Items)
      BY <3>1
    <3> QED BY <1>2, <1>3, <1>8, <3>2 DEF Gathering, BootType
  <2>2. down' \in [Conns -> Seq(Items)]
    BY <1>2, <1>3 DEF Gathering, BootType
  <2>3. listener' \in [Procs -> {"none", "bound", "open", "closed"}]
    BY <1>2, <1>3 DEF Gathering, BootType
  <2> QED BY <1>2, <1>5, <2>1, <2>2, <2>3 DEF Gathering, BootType, Still, work
<1>12. Unlinked'
  <2>1. \A p, q \in Live, k \in Kinds : up'[<<p, q, k>>] = up[<<p, q, k>>]
    BY <1>1, <1>10, LinksUntouched
  <2>2. ASSUME NEW p \in Live PROVE main'[p].n = 0
    <3>1. CASE p = g
      BY <1>4, <3>1
    <3>2. CASE p # g
      BY <1>4, <3>2 DEF Slaves, Gathering, Unlinked
    <3> QED BY <3>1, <3>2
  <2>3. Unlinked /\ UNCHANGED <<build, accepts, hand, portsIn, portsOut, pending>>
    BY <1>2 DEF Gathering, work
  <2> QED BY <2>1, <2>2, <2>3, UnlinkedStays
<1>13. Hosting'
  BY <1>2, <1>3, <1>4, <1>5, <1>10 DEF Gathering, Hosting, At
<1>14. ASSUME NEW p \in Slaves PROVE Newcomer(p)' \/ \E k \in 1..Len(book'[0]) : Welcome(p, k)'
  <2>1. CASE p = g
    <3>1. Counted(p, n)'
      BY <1>2, <1>4, <1>7, <1>10, <2>1 DEF Counted, At
    <3>2. Welcome(p, n)'
      BY <1>2, <1>4, <1>6, <1>7, <2>1, <3>1 DEF Welcome, At
    <3> QED BY <1>2, <3>2
  <2>2. CASE p # g
    <3>1. Boot(p) # Boot(g) /\ Boot(p) \in Conns /\ p \in Procs \ {g}
      BY <1>1, <1>3, <2>2, LinkFacts
    <3>2. SameSlave(p)
      BY <1>2, <1>4, <1>10, <2>2, <3>1 DEF SameSlave
    <3> QED BY <1>1, <1>2, <1>4, <3>2, OthersStay
  <2> QED BY <2>1, <2>2
<1>15. build' = "sock" /\ faults' \subseteq {<<"refused", "boot">>}
  BY <1>2, <1>9 DEF Gathering, SoundSoFar
<1> QED BY <1>4, <1>5, <1>11, <1>12, <1>13, <1>14, <1>15 DEF Gathers, Gathering
-----------------------------------------------------------------------------
(***************************************************************************)
(* The master sends the address book: everybody has been numbered.         *)
(***************************************************************************)
Connects == Connecting' /\ MainType' /\ faults' \subseteq {<<"refused", "boot">>}

(* The book lists every slave once.                                        *)
LEMMA BookIsFull ==
  ASSUME build \in Builds, Gathering, At(0) = "accept", Len(book[0]) = Size[build] - 1,
         NEW s, s = [i \in DOMAIN book[0] |-> book[0][i][1]]
  PROVE  /\ s \in Seq(Slaves) /\ Len(s) = Size[build] - 1 /\ DOMAIN s = 1..(Size[build] - 1)
         /\ \A i \in 1..(Size[build] - 1) : book[0][i] = Boot(s[i]) /\ Ready(s[i], i)
                                            /\ Boot(s[i]) \notin Range(pending[0])
         /\ \A p \in Slaves : \E i \in 1..(Size[build] - 1) : s[i] = p
<1>1. /\ book[0] \in Seq(Boots) /\ Once(book[0]) /\ DOMAIN book[0] = 1..(Size[build] - 1)
      /\ Size[build] - 1 \in Nat
  BY SomeProcesses DEF Gathering, Hosting
<1>2. ASSUME NEW i \in 1..(Size[build] - 1)
      PROVE  /\ s[i] \in Slaves /\ book[0][i] = Boot(s[i]) /\ Ready(s[i], i)
             /\ Boot(s[i]) \notin Range(pending[0])
  <2>1. PICK p \in Slaves : book[0][i] = Boot(p) /\ Welcome(p, i)
    BY BookedIsWelcome
  <2>2. s[i] = p
    BY <1>1, <2>1 DEF Boot
  <2> QED BY <2>1, <2>2 DEF Welcome
<1>3. s \in [1..(Size[build] - 1) -> Slaves]
  BY <1>1, <1>2
<1>4. s \in Seq(Slaves) /\ Len(s) = Size[build] - 1 /\ DOMAIN s = 1..(Size[build] - 1)
  BY <1>1, <1>3
<1>5. Once(s)
  <2>1. ASSUME NEW i \in DOMAIN s, NEW j \in DOMAIN s, s[i] = s[j] PROVE i = j
    <3>1. i \in 1..(Size[build] - 1) /\ j \in 1..(Size[build] - 1)
      BY <1>4
    <3>2. book[0][i] = book[0][j]
      BY <1>2, <2>1, <3>1
    <3> QED BY <1>1, <3>1, <3>2 DEF Once
  <2> QED BY <2>1 DEF Once
<1>6. Cardinality(Range(s)) = Size[build] - 1 /\ Range(s) \subseteq Slaves
  BY <1>3, <1>4, <1>5, OnceCounts DEF Range
<1>7. IsFiniteSet(Slaves) /\ Cardinality(Slaves) = Size[build] - 1
  BY SomeProcesses, FS_RemoveElement DEF Slaves
<1>8. Range(s) = Slaves
  BY <1>6, <1>7, FS_Subset
<1> QED BY <1>2, <1>4, <1>8 DEF Range

LEMMA SendBookConnects ==
  ASSUME SoundSoFar, Gathering, SendBook
  PROVE  Connects
<1>1. build \in Builds /\ MainType /\ "connect" \in Places
  BY DEF SoundSoFar, Places
<1> DEFINE Sent(s, t) ==
      /\ down' = [c \in Conns |-> IF c \in Range(book[0]) THEN down[c] \o t ELSE down[c]]
      /\ book' = [book EXCEPT ![0] = <<0>> \o s]
<1>2. PICK s : s = [i \in DOMAIN book[0] |-> book[0][i][1]]
  OBVIOUS
<1>3. PICK t : t = [i \in DOMAIN s |-> <<"address", s[i]>>]
  OBVIOUS
<1>4. /\ UNCHANGED <<build, up, listener, pending, portsIn, portsOut, id, work, faults>>
      /\ At(0) = "accept" /\ Len(book[0]) = Size[build] - 1
      /\ accepts' = [accepts EXCEPT ![0] = 2 * Size[build]] /\ Sent(s, t)
  BY <1>2, <1>3 DEF SendBook
<1>5. PICK m \in Nat : /\ m = Size[build] - 1 /\ Size[build] = m + 1 /\ Size[build] \in Nat
                       /\ (\A i \in 1..m : i \in Live) /\ \A i \in Live : i # 0 => i \in 1..m
  <2>1. Size[build] \in Nat \ {0}
    BY <1>1, SomeProcesses
  <2> QED BY <2>1 DEF Live
<1>6. /\ s \in Seq(Slaves) /\ Len(s) = m /\ DOMAIN s = 1..m
      /\ \A i \in 1..m : book[0][i] = Boot(s[i]) /\ Ready(s[i], i) /\ Boot(s[i]) \notin Range(pending[0])
      /\ \A p \in Slaves : \E i \in 1..m : s[i] = p
  <2>1. At(0) = "accept" /\ Len(book[0]) = Size[build] - 1 /\ m = Size[build] - 1 /\ m \in Nat
    BY <1>4, <1>5
  <2>2. /\ s \in Seq(Slaves) /\ Len(s) = Size[build] - 1 /\ DOMAIN s = 1..(Size[build] - 1)
        /\ \A i \in 1..(Size[build] - 1) : book[0][i] = Boot(s[i]) /\ Ready(s[i], i)
                                           /\ Boot(s[i]) \notin Range(pending[0])
        /\ \A p \in Slaves : \E i \in 1..(Size[build] - 1) : s[i] = p
    BY <1>1, <1>2, <2>1, BookIsFull
  <2> QED BY <2>1, <2>2
<1>7. /\ MainType' /\ main'[0] = [at |-> "connect", n |-> 0]
      /\ \A p \in Procs \ {0} : main'[p] = main[p]
  BY <1>1, LinkFacts, MasterTurns DEF SendBook
<1>8. Live' = Live /\ Slaves' = Slaves /\ Unset' = Unset /\ Size[build'] = Size[build] /\ build' = build
  BY <1>4 DEF Live, Slaves, Unset
<1>9. /\ Slaves \subseteq Live /\ Live \subseteq Procs /\ 0 \in Live /\ 0 \notin Slaves /\ Live \subseteq Nat
      /\ Slaves = Live \ {0}
  BY <1>1, LinkFacts, SomeProcesses DEF Slaves
<1>10. /\ book'[0] = <<0>> \o s /\ Len(book'[0]) = m + 1 /\ book'[0][1] = 0
       /\ \A i \in 1..m : book'[0][i + 1] = s[i]
  <2>1. book'[0] = <<0>> \o s
    BY <1>4, <1>9 DEF Gathering, BootType
  <2> QED BY <1>6, <2>1
<1>11. \A i \in 1..m : id[s[i]] = i /\ s[i] \in Slaves
  BY <1>6 DEF Ready
<1>12. BookSound'
  <2>1. id'[0] = 0 /\ Len(book'[0]) = Size[build']
    BY <1>4, <1>5, <1>8, <1>10 DEF Gathering, Hosting
  <2>2. ASSUME NEW p \in Live PROVE id[p] \in Live /\ book'[0][id[p] + 1] = p
    <3>1. CASE p = 0
      BY <1>9, <1>10, <3>1 DEF Gathering, Hosting
    <3>2. CASE p # 0
      <4>1. PICK i \in 1..m : s[i] = p
        BY <1>6, <1>9, <3>2
      <4> QED BY <1>5, <1>10, <1>11, <4>1
    <3> QED BY <3>1, <3>2
  <2>3. ASSUME NEW i \in Live PROVE book'[0][i + 1] \in Live /\ id[book'[0][i + 1]] = i
    <3>1. CASE i = 0
      BY <1>9, <1>10, <3>1 DEF Gathering, Hosting
    <3>2. CASE i # 0
      <4>1. i \in 1..m
        BY <1>5, <3>2, Zenon
      <4> QED BY <1>9, <1>10, <1>11, <4>1
    <3> QED BY <3>1, <3>2
  <2> QED BY <1>4, <1>8, <2>1, <2>2, <2>3 DEF BookSound
<1>13. BootType' /\ Still'
  <2>1. t \in Seq(Items) /\ DOMAIN t = 1..m /\ \A i \in 1..m : t[i] = <<"address", s[i]>>
    <3>1. ASSUME NEW i \in 1..m PROVE <<"address", s[i]>> \in Items
      <4>1. s[i] \in Nat
        BY <1>9, <1>11
      <4>2. s[i] \in Int
        BY <4>1
      <4> QED BY <4>2 DEF Items
    <3>2. t = [i \in 1..m |-> <<"address", s[i]>>]
      BY <1>3, <1>6
    <3>3. t \in [1..m -> Items]
      BY <3>1, <3>2
    <3>4. t \in Seq(Items)
      BY <3>3
    <3> QED BY <3>2, <3>4
  <2>2. down' \in [Conns -> Seq(Items)]
    BY <1>4, <2>1 DEF Gathering, BootType
  <2>3. book' \in [Procs -> Seq(Conns \cup Procs)]
    <3>1. <<0>> \o s \in Seq(Conns \cup Procs)
      <4>1. <<0>> \in Seq(Procs) /\ s \in Seq(Procs)
        <5>1. 0 \in Procs /\ Slaves \subseteq Procs
          BY <1>9
        <5>2. <<0>> \in Seq(Procs)
          BY <5>1
        <5>3. s \in Seq(Procs)
          BY <1>6, <5>1, SeqWider
        <5> QED BY <5>2, <5>3
      <4>2. <<0>> \o s \in Seq(Procs)
        BY <4>1, ConcatType
      <4> QED BY <4>2, SeqWider
    <3> QED BY <1>4, <3>1 DEF Gathering, BootType
  <2>4. accepts' \in [Procs -> Nat]
    <3>1. 2 * Size[build] \in Nat
      BY <1>5
    <3> QED BY <1>4, <3>1 DEF Gathering, BootType
  <2> QED BY <1>4, <1>8, <2>2, <2>3, <2>4 DEF Gathering, BootType, Still, work
<1>14. \A p, q \in Live, k \in Kinds :
         portsIn'[q][id'[p]][k] = Null /\ portsOut'[p][id'[q]][k] = Null /\ up'[<<p, q, k>>] = <<>>
  <2> TAKE p \in Live, q \in Live, k \in Kinds
  <2>1. id'[p] \in Live /\ id'[q] \in Live
    BY <1>8, <1>12 DEF BookSound
  <2>2. portsIn'[q] = Unset /\ portsOut'[p] = Unset /\ up'[<<p, q, k>>] = <<>>
    BY <1>4 DEF Gathering, Unlinked
  <2>3. \A i \in Live : Unset[i][k] = Null
    BY DEF Unset, Kinds
  <2> QED BY <2>1, <2>2, <2>3
<1>15. ASSUME NEW p \in Live PROVE Accepted(p)' = {} /\ hand'[p] = <<>>
  <2>1. \A e \in Live \X Kinds : portsIn'[p][id'[e[1]]][e[2]] = Null
    BY <1>14
  <2>2. hand'[p] = <<>>
    BY <1>4 DEF Gathering, Unlinked, work
  <2> QED BY <1>8, <2>1, <2>2 DEF Accepted
<1>16. ASSUME NEW p \in Slaves PROVE Waiting(p)'
  <2>1. PICK i \in 1..m : s[i] = p
    BY <1>6
  <2>2. Ready(p, i) /\ book[0][i] = Boot(p)
    BY <1>6, <2>1
  <2>3. /\ main'[p] = main[p] /\ accepts'[p] = 0 /\ p \in Live /\ p # 0
    BY <1>4, <1>7, <1>9 DEF Gathering, Unlinked, BootType
  <2>4. main'[p].at = "book" /\ main'[p].n = 0 /\ listener'[p] = "open"
    BY <1>4, <2>2, <2>3 DEF Ready, At, Gathering, Unlinked
  <2>5. down'[Boot(p)] = <<>> \o t
    <3>1. Boot(p) \in Range(book[0]) /\ Boot(p) \in Conns /\ down[Boot(p)] = <<>>
      <4>1. i \in DOMAIN book[0]
        BY <1>4, <1>5 DEF Gathering, Hosting
      <4> QED BY <1>1, <1>9, <2>2, <4>1, LinkFacts DEF Range, Ready
    <3> QED BY <1>4, <3>1
  <2>6. <<>> \o t = [j \in 1..m |-> <<"address", book'[0][j + 1]>>]
    <3>1. t = [j \in 1..m |-> <<"address", book'[0][j + 1]>>]
      BY <1>3, <1>6, <1>10
    <3>2. t \in Seq({<<"address", q>> : q \in Slaves})
      BY <1>3, <1>6
    <3>3. <<>> \o t = t
      BY <3>2
    <3> QED BY <3>1, <3>3
  <2> QED BY <1>5, <1>8, <1>15, <2>3, <2>4, <2>5, <2>6 DEF Waiting, At
<1>17. Meeting(0)'
  <2>1. accepts'[0] = 2 * Size[build] /\ listener'[0] = "open"
    BY <1>4, <1>9 DEF Gathering, BootType, Hosting
  <2>2. Cardinality(Accepted(0)') = 0
    BY <1>9, <1>15, FS_EmptySet
  <2>3. hand'[0] = <<>>
    BY <1>9, <1>15
  <2> QED BY <1>5, <1>7, <1>8, <2>1, <2>2, <2>3 DEF Meeting, At
<1>18. ASSUME NEW p \in Live PROVE pending'[p] = <<>>
  <2>1. CASE p = 0
    <3>1. pending[0] \in Seq(Boots)
      BY DEF Gathering, Hosting
    <3>2. \A c \in Boots : c \notin Range(pending[0])
      BY <1>6 DEF Boots
    <3>3. pending[0] = <<>>
      <4>1. SUFFICES ASSUME pending[0] # <<>> PROVE FALSE
        OBVIOUS
      <4>2. 1 \in DOMAIN pending[0] /\ pending[0][1] \in Boots
        BY <3>1, <4>1
      <4> QED BY <3>2, <4>2 DEF Range
    <3> QED BY <1>4, <2>1, <3>3
  <2>2. CASE p # 0
    BY <1>4, <1>9, <2>2 DEF Gathering, Unlinked
  <2> QED BY <2>1, <2>2
<1>19. ASSUME NEW p \in Live, NEW q \in Live, NEW k \in Kinds PROVE LinkSound(p, q, k)'
  <2>1. ~Reached(p, q)'
    <3>1. CASE p = 0
      <4>1. id'[q] \in Nat /\ ~(id'[q] < 0)
        <5>1. id'[q] \in Live
          BY <1>8, <1>12 DEF BookSound
        <5>2. id'[q] \in Nat
          BY <1>9, <5>1
        <5> QED BY <5>2
      <4> QED BY <1>7, <3>1, <4>1 DEF Reached, At
    <3>2. CASE p # 0
      <4>1. Waiting(p)'
        BY <1>9, <1>16, <3>2
      <4> QED BY <4>1 DEF Reached, At, Waiting
    <3> QED BY <3>1, <3>2
  <2>2. <<p, q, k>> \notin Range(pending'[q])
    BY <1>18 DEF Range
  <2>3. Untouched(p, q, k)' /\ portsOut'[p][id'[q]][k] = Null
    BY <1>14, <2>2 DEF Untouched
  <2> QED BY <2>1, <2>3 DEF LinkSound
<1>20. \A p \in Live : Waiting(p)' \/ Meeting(p)'
  BY <1>9, <1>16, <1>17
<1>21. main'[0].at # "run"
  BY <1>7
<1>22. \A p \in Live : pending'[p] \in Seq(Live \X {p} \X Kinds) /\ Once(pending'[p])
  <2>1. Once(<<>>)
    BY DEF Once
  <2>2. \A p : <<>> \in Seq(Live \X {p} \X Kinds)
    OBVIOUS
  <2> QED BY <1>18, <2>1, <2>2
<1>23. build' = "sock" /\ faults' \subseteq {<<"refused", "boot">>}
  BY <1>4 DEF Gathering, SoundSoFar
<1>24. Connecting'
  BY <1>8, <1>9, <1>12, <1>13, <1>19, <1>20, <1>21, <1>22, <1>23 DEF Connecting, At
<1> QED BY <1>7, <1>23, <1>24 DEF Connects
-----------------------------------------------------------------------------
(***************************************************************************)
(* Nothing else happens in this phase.                                     *)
(***************************************************************************)
(* No task and no runner has anything to do.                               *)
LEMMA NothingRuns ==
  ASSUME build \in Builds, Still, NEW p \in Live
  PROVE  ~Runner(p) /\ \A t \in Tasks : ~TaskSends(p, t)
<1>1. queue[p] = <<>> /\ due[p] = Null /\ \A t \in Tasks : left[t] = Null
  BY LinkFacts DEF Still
<1>2. \A mode : ~Takes(p, mode)
  BY <1>1 DEF Takes
<1>3. ~Runner(p)
  BY <1>1, <1>2 DEF Runner, RunStandard, RunConfirmation, SendHeld, RunDirect, RunStop
<1>4. \A t \in Tasks : ~TaskSends(p, t)
  BY <1>1 DEF TaskSends, Running
<1> QED BY <1>3, <1>4

(* Where the processes are.                                                *)
LEMMA GatherPlaces ==
  ASSUME build \in Builds, Gathering
  PROVE  /\ At(0) \in {"file", "listen", "accept", "port", "ready"}
         /\ \A p \in Slaves : At(p) \in {"slave", "failed", "id", "count", "book"}
         /\ \A p \in Slaves : At(p) = "book" => down[Boot(p)] = <<>>
<1>1. ASSUME NEW p \in Slaves
      PROVE  /\ At(p) \in {"slave", "failed", "id", "count", "book"}
             /\ At(p) = "book" => down[Boot(p)] = <<>>
  <2>1. CASE Newcomer(p)
    BY <2>1 DEF Newcomer
  <2>2. ASSUME NEW k \in 1..Len(book[0]), Welcome(p, k)
        PROVE  At(p) \in {"id", "count", "book"} /\ (At(p) = "book" => down[Boot(p)] = <<>>)
    BY <2>2 DEF Welcome, Numbered, Counted, Ready
  <2> QED BY <2>1, <2>2 DEF Gathering
<1> QED BY <1>1 DEF Gathering, Hosting

(* Nor a main thread outside the conversations.                            *)
LEMMA GatherMainRests ==
  ASSUME build \in Builds, Gathering, NEW p \in Live
  PROVE  ~Main(p)
<1>1. At(p) \in {"file", "listen", "accept", "port", "ready", "slave", "failed", "id", "count", "book"}
  BY GatherPlaces DEF Slaves
<1>2. ~Connect(p) /\ ~Connected(p) /\ ~SockStop(p) /\ ~SockExit(p) /\ ~SockJoin(p)
  BY <1>1 DEF Connect, Connected, SockStop, SockExit, SockJoin
<1>3. ~Wait(p) /\ ~ReadUnsent(p) /\ ~ReadUnconfirmed(p) /\ ~ReadReceived(p) /\ ~ReadSent(p)
  BY <1>1 DEF Wait, ReadUnsent, ReadUnconfirmed, ReadReceived, ReadSent
<1>4. ~Reduce(p) /\ ~MpiExit(p) /\ ~MpiStop(p) /\ ~Finalize(p)
  <2>1. ~Reduce(p)
    BY <1>1 DEF Reduce
  <2> QED BY <1>1, <2>1 DEF MpiExit, MpiStop, Finalize
<1> QED BY <1>2, <1>3, <1>4 DEF Main

LEMMA GatheringStep ==
  ASSUME SoundSoFar, Gathering, Next
  PROVE  Gathers \/ Connects \/ UNCHANGED vars
<1>1. build \in Builds /\ Still /\ Live \subseteq Procs /\ 0 \in Live /\ 0 \notin Slaves
      /\ \A p \in Live : p = 0 \/ p \in Slaves
  BY LinkFacts DEF SoundSoFar, Gathering, Slaves
<1>2. CASE Master
  <2>1. ~HearTimes
    BY <1>1, GatherPlaces DEF HearTimes
  <2> QED BY <1>2, <2>1, WriteBootFileGathers, ListenGathers, AcceptSlaveGathers, HearPortGathers,
             HearReadyGathers, SendBookConnects DEF Master
<1>3. CASE Duplicate
  BY <1>1, <1>3, GatherPlaces DEF Duplicate
<1>4. ASSUME NEW t \in Tasks, StartRoot(t) PROVE FALSE
  BY <1>1, <1>4, GatherPlaces DEF StartRoot, Started
<1>5. ASSUME NEW p \in Live, Slave(p) PROVE Gathers
  <2>1. CASE p = 0
    BY <1>1, <1>5, <2>1, GatherPlaces DEF Slave, GreetMaster, HearId, HearCount, HearBook, SendTime
  <2>2. CASE p \in Slaves
    <3>1. ~HearBook(p)
      <4>1. SUFFICES ASSUME HearBook(p) PROVE FALSE
        OBVIOUS
      <4>2. At(p) = "book" /\ Len(down[Boot(p)]) >= Size[build] - 1
        BY <4>1 DEF HearBook
      <4>3. Len(<<>>) = 0 /\ down[Boot(p)] = <<>>
        BY <1>1, <2>2, <4>2, GatherPlaces
      <4>4. Size[build] - 1 > 0
        <5>1. Size[build] \in Nat \ {0} /\ p \in 0..(Size[build] - 1) /\ p # 0
          BY <1>1, <1>5, <2>2, SomeProcesses DEF Live
        <5> QED BY <5>1
      <4>5. 0 >= Size[build] - 1 /\ Size[build] \in Nat
        BY <1>1, <4>2, <4>3, SomeProcesses
      <4> QED BY <4>4, <4>5
    <3>2. ~SendTime(p)
      BY <1>1, <2>2, GatherPlaces DEF SendTime
    <3> QED BY <1>5, <2>2, <3>1, <3>2, GreetMasterGathers, HearIdGathers, HearCountGathers DEF Slave
  <2> QED BY <1>1, <2>1, <2>2
<1>6. ASSUME NEW p \in Live PROVE ~AcceptPeer(p)
  <2>1. accepts[p] = 0
    BY DEF Gathering, Unlinked
  <2> QED BY <2>1 DEF AcceptPeer
<1>7. ASSUME NEW p \in Live PROVE ~Runner(p) /\ \A t \in Tasks : ~TaskSends(p, t)
  BY <1>1, NothingRuns
<1>8. ASSUME NEW p \in Live, NEW i \in Live PROVE ~Receive(p, i) /\ ~Handle(p, i)
  <2>1. hand[p] = <<>>
    BY DEF Gathering, Unlinked
  <2>2. i \notin DOMAIN hand[p]
    BY <2>1
  <2> QED BY <2>2 DEF Receive, Handle
<1>9. ASSUME NEW p \in Live PROVE ~Main(p)
  BY <1>1, GatherMainRests
<1>10. CASE Terminated
  BY <1>10 DEF Terminated
<1> QED BY <1>2, <1>3, <1>4, <1>5, <1>6, <1>7, <1>8, <1>9, <1>10 DEF Next, Others
-----------------------------------------------------------------------------
(***************************************************************************)
(* The processes connect.                                                  *)
(***************************************************************************)
(* Different processes have different numbers, and each has a place.       *)
LEMMA ConnectFacts ==
  ASSUME build \in Builds, Connecting
  PROVE  /\ Live \subseteq Procs /\ 0 \in Live /\ Live \subseteq Nat
         /\ Size[build] \in Nat \ {0} /\ Live = 0..(Size[build] - 1)
         /\ \A p \in Live : id[p] \in Live /\ \A q \in Live : id[p] = id[q] => p = q
         /\ \A p \in Live : At(p) \in {"book", "connect", "run"}
         /\ At(0) # "book"
<1>1. Live \subseteq Procs /\ 0 \in Live /\ Live \subseteq Nat /\ Size[build] \in Nat \ {0}
  BY SomeProcesses
<1>2. \A p \in Live : id[p] \in Live /\ book[0][id[p] + 1] = p
  BY DEF Connecting, BookSound
<1>3. \A p \in Live, q \in Live : id[p] = id[q] => p = q
  BY <1>2
<1>4. \A p \in Live : At(p) \in {"book", "connect", "run"} /\ (At(p) = "book" => p # 0)
  BY DEF Connecting, Waiting, Meeting, Talking
<1> QED BY <1>1, <1>2, <1>3, <1>4 DEF Live

(* What the invariant says of a process, and of a connection, looks at     *)
(* these parts of the state.                                               *)
SameProcess(p) ==
  /\ main'[p] = main[p] /\ listener'[p] = listener[p] /\ accepts'[p] = accepts[p]
  /\ hand'[p] = hand[p] /\ book'[p] = book[p] /\ down'[Boot(p)] = down[Boot(p)]
  /\ Accepted(p)' = Accepted(p)

SameLink(p, q, k) ==
  /\ up'[<<p, q, k>>] = up[<<p, q, k>>]
  /\ Reached(p, q)' <=> Reached(p, q)
  /\ portsIn'[q][id[p]][k] = portsIn[q][id[p]][k] /\ portsOut'[p][id[q]][k] = portsOut[p][id[q]][k]
  /\ <<p, q, k>> \in Range(pending'[q]) <=> <<p, q, k>> \in Range(pending[q])

LEMMA ProcessStays ==
  ASSUME Connecting, UNCHANGED build, book'[0] = book[0], NEW p \in Live, SameProcess(p)
  PROVE  Waiting(p)' \/ Meeting(p)' \/ Talking(p)'
<1>1. Live' = Live /\ Size[build'] = Size[build]
  BY DEF Live
<1>2. CASE Waiting(p)
  BY <1>1, <1>2 DEF Waiting, SameProcess, At
<1>3. CASE Meeting(p)
  BY <1>1, <1>3 DEF Meeting, SameProcess, At
<1>4. CASE Talking(p)
  BY <1>1, <1>4 DEF Talking, SameProcess, At
<1> QED BY <1>2, <1>3, <1>4 DEF Connecting

LEMMA LinkStays ==
  ASSUME Connecting, UNCHANGED id, NEW p \in Live, NEW q \in Live, NEW k \in Kinds, SameLink(p, q, k)
  PROVE  LinkSound(p, q, k)'
<1>1. LinkSound(p, q, k)
  BY DEF Connecting
<1>2. CASE Reached(p, q)
  <2>1. portsOut[p][id[q]][k] = <<p, q, k>> /\ (Offered(p, q, k) \/ Taken(p, q, k))
    BY <1>1, <1>2 DEF LinkSound
  <2>2. portsOut'[p][id'[q]][k] = <<p, q, k>> /\ Reached(p, q)'
    BY <1>2, <2>1 DEF SameLink
  <2>3. CASE Offered(p, q, k)
    <3>1. Offered(p, q, k)'
      BY <2>3 DEF Offered, SameLink
    <3> QED BY <2>2, <3>1 DEF LinkSound
  <2>4. CASE Taken(p, q, k)
    <3>1. Taken(p, q, k)'
      BY <2>4 DEF Taken, SameLink
    <3> QED BY <2>2, <3>1 DEF LinkSound
  <2> QED BY <2>1, <2>3, <2>4
<1>3. CASE ~Reached(p, q)
  BY <1>1, <1>3 DEF LinkSound, SameLink, Untouched
<1> QED BY <1>2, <1>3

(* A process takes the book: it has connected to nobody yet.               *)
LEMMA HearBookConnects ==
  ASSUME SoundSoFar, Connecting, NEW g \in Live, HearBook(g)
  PROVE  Connects
<1>1. build \in Builds /\ MainType /\ "connect" \in Places
  BY DEF SoundSoFar, Places
<1>2. PICK m \in Nat : m = Size[build] - 1 /\ Size[build] = m + 1 /\ Size[build] \in Nat
  BY <1>1, ConnectFacts
<1>3. /\ UNCHANGED <<build, up, listener, pending, portsIn, portsOut, id, work>>
      /\ At(g) = "book" /\ Check(down[Boot(g)], [i \in 1..m |-> "address"]) /\ GoTo(g, "connect")
      /\ book' = [book EXCEPT ![g] = <<0>> \o [i \in 1..m |-> down[Boot(g)][i][2]]]
      /\ down' = [down EXCEPT ![Boot(g)] = After(m, @)]
      /\ accepts' = [accepts EXCEPT ![g] = 2 * Size[build]]
  BY <1>2 DEF HearBook
<1>4. Waiting(g) /\ g \in Procs /\ g # 0 /\ 0 \in Procs /\ Live \subseteq Procs /\ Boot(g) \in Conns
  BY <1>1, <1>3, ConnectFacts, LinkFacts DEF Connecting, Meeting, Talking, Waiting
<1>5. /\ down[Boot(g)] = [i \in 1..m |-> <<"address", book[0][i + 1]>>]
      /\ \A i \in 1..m : down[Boot(g)][i] = <<"address", book[0][i + 1]>>
  BY <1>2, <1>4 DEF Waiting
<1>6. UNCHANGED faults
  <2>1. \A i \in 1..m : down[Boot(g)][i][1] = "address"
    BY <1>5
  <2>2. Meant(down[Boot(g)], [i \in 1..m |-> "address"])
    BY <2>1 DEF Meant
  <2> QED BY <1>3, <2>2 DEF Check
<1>7. book[0] \in Seq(Conns \cup Procs) /\ Len(book[0]) = m + 1 /\ book[0][1] = 0
  <2>1. id[0] = 0 /\ book[0][id[0] + 1] = 0 /\ Len(book[0]) = m + 1
    BY <1>1, <1>2, ConnectFacts DEF Connecting, BookSound
  <2> QED BY <1>4, <2>1 DEF Connecting, BootType
<1>8. <<0>> \o [i \in 1..m |-> down[Boot(g)][i][2]] = book[0]
  <2>1. PICK d : d = [i \in 1..m |-> down[Boot(g)][i][2]]
    OBVIOUS
  <2>2. d = [i \in 1..m |-> book[0][i + 1]]
    BY <1>5, <2>1
  <2>3. \A i \in 1..m : book[0][i + 1] \in Conns \cup Procs
    BY <1>7
  <2>4. d \in Seq(Conns \cup Procs) /\ Len(d) = m /\ \A i \in 1..m : d[i] = book[0][i + 1]
    BY <2>2, <2>3
  <2>5. <<0>> \in Seq(Conns \cup Procs)
    BY <1>4
  <2>6. /\ <<0>> \o d \in Seq(Conns \cup Procs) /\ Len(<<0>> \o d) = m + 1 /\ (<<0>> \o d)[1] = 0
        /\ \A i \in 1..m : (<<0>> \o d)[i + 1] = d[i]
    BY <2>4, <2>5
  <2>7. ASSUME NEW j \in 1..(m + 1) PROVE (<<0>> \o d)[j] = book[0][j]
    <3>1. CASE j = 1
      BY <1>7, <2>6, <3>1
    <3>2. CASE j # 1
      <4>1. PICK i \in 1..m : j = i + 1
        BY <3>2
      <4> QED BY <2>4, <2>6, <4>1
    <3> QED BY <3>1, <3>2
  <2>8. <<0>> \o d = book[0]
    <3>1. PICK e : e = <<0>> \o d
      OBVIOUS
    <3>2. e \in Seq(Conns \cup Procs) /\ Len(e) = Len(book[0]) /\ \A j \in 1..Len(e) : e[j] = book[0][j]
      BY <1>7, <2>6, <2>7, <3>1
    <3>3. e = book[0]
      BY <1>7, <3>2
    <3> QED BY <3>1, <3>3
  <2> QED BY <2>1, <2>8
<1>9. /\ book' = [book EXCEPT ![g] = book[0]] /\ book'[g] = book[0] /\ book'[0] = book[0]
      /\ \A p \in Live \ {g} : book'[p] = book[p]
  BY <1>3, <1>4, <1>8 DEF Connecting, BootType
<1>10. MainType' /\ main'[g] = [at |-> "connect", n |-> 0] /\ \A p \in Procs \ {g} : main'[p] = main[p]
  BY <1>1, <1>3, <1>4 DEF MainType, GoTo
<1>11. Live' = Live /\ Size[build'] = Size[build] /\ build' = "sock"
  BY <1>3 DEF Live, Connecting
<1>12. BootType' /\ Still'
  <2>1. down' \in [Conns -> Seq(Items)]
    <3>1. After(m, down[Boot(g)]) \in Seq(Items)
      <4>1. down[Boot(g)] \in Seq(Items)
        BY <1>4 DEF Connecting, BootType
      <4>2. Len(down[Boot(g)]) = m
        BY <1>5
      <4>3. SubSeq(down[Boot(g)], m + 1, m) = <<>>
        BY <4>1, <4>2
      <4> QED BY <4>2, <4>3 DEF After
    <3> QED BY <1>3, <1>4, <3>1 DEF Connecting, BootType
  <2>2. book' \in [Procs -> Seq(Conns \cup Procs)]
    BY <1>7, <1>9 DEF Connecting, BootType
  <2>3. accepts' \in [Procs -> Nat]
    <3>1. 2 * Size[build] \in Nat
      BY <1>2
    <3> QED BY <1>3, <3>1 DEF Connecting, BootType
  <2> QED BY <1>3, <1>11, <2>1, <2>2, <2>3 DEF Connecting, BootType, Still, work
<1>13. BookSound'
  BY <1>3, <1>9, <1>11 DEF Connecting, BookSound
<1>14. ASSUME NEW p \in Live PROVE Accepted(p)' = Accepted(p)
  BY <1>3, <1>11 DEF Accepted
<1>15. ASSUME NEW p \in Live PROVE Waiting(p)' \/ Meeting(p)' \/ Talking(p)'
  <2>1. CASE p = g
    <3>1. Accepted(g)' = {} /\ Cardinality({}) = 0
      BY <1>4, <1>14, FS_EmptySet DEF Waiting
    <3>2. accepts'[g] = 2 * Size[build] /\ listener'[g] = "open" /\ hand'[g] = <<>>
      BY <1>3, <1>4 DEF Connecting, BootType, Waiting, work
    <3>3. Meeting(g)'
      BY <1>2, <1>9, <1>10, <1>11, <3>1, <3>2 DEF Meeting, At
    <3> QED BY <2>1, <3>3
  <2>2. CASE p # g
    <3>1. Boot(p) # Boot(g) /\ p \in Procs
      BY <1>1, <1>4, <2>2, LinkFacts
    <3>2. accepts'[p] = accepts[p] /\ down'[Boot(p)] = down[Boot(p)]
      BY <1>1, <1>3, <2>2, <3>1, LinkFacts DEF Connecting, BootType
    <3>3. SameProcess(p)
      BY <1>3, <1>9, <1>10, <1>14, <2>2, <3>1, <3>2 DEF SameProcess, work
    <3> QED BY <1>3, <1>9, <3>3, ProcessStays
  <2> QED BY <2>1, <2>2
<1>16. ASSUME NEW p \in Live, NEW q \in Live, NEW k \in Kinds PROVE LinkSound(p, q, k)'
  <2>1. Reached(p, q)' <=> Reached(p, q)
    <3>1. CASE p = g
      <4>1. ~Reached(p, q)
        BY <1>3, <3>1 DEF Reached
      <4>2. id[q] \in Nat
        BY <1>1, ConnectFacts
      <4>3. ~(id[q] < 0)
        BY <4>2
      <4> QED BY <1>3, <1>10, <3>1, <4>1, <4>3 DEF Reached, At
    <3>2. CASE p # g
      BY <1>3, <1>4, <1>10, <3>2 DEF Reached, At
    <3> QED BY <3>1, <3>2
  <2>2. SameLink(p, q, k)
    BY <1>3, <2>1 DEF SameLink
  <2> QED BY <1>3, <2>2, LinkStays
<1>17. main'[g].at # "run"
  BY <1>10
<1>18. Connecting'
  BY <1>3, <1>11, <1>12, <1>13, <1>15, <1>16, <1>17 DEF Connecting, At
<1> QED BY <1>6, <1>10, <1>18 DEF Connects, SoundSoFar

(* Whoever a process connects to listens, and has room: it holds at most   *)
(* the two connections of each of the others.                              *)
LEMMA PeerHasRoom ==
  ASSUME build \in Builds, Connecting, NEW p \in Live, NEW q \in Live, ~Reached(p, q)
  PROVE  listener[q] = "open" /\ Len(pending[q]) + 2 <= 2 * Size[build]
<1>1. \A k \in Kinds : portsIn[q][id[p]][k] = Null /\ <<p, q, k>> \notin Range(pending[q])
  BY DEF Connecting, LinkSound, Untouched
<1>2. listener[q] = "open"
  <2>1. ~Talking(q)
    <3>1. "main" \in Kinds /\ <<p, "main">> \notin Accepted(q)
      BY <1>1 DEF Accepted, Kinds
    <3>2. <<p, "main">> \in Live \X Kinds
      BY <3>1
    <3> QED BY <3>1, <3>2 DEF Talking
  <2> QED BY <2>1 DEF Connecting, Waiting, Meeting
<1> DEFINE others == (Live \ {p}) \X Kinds
<1>3. IsFiniteSet(others) /\ Cardinality(others) = (Size[build] - 1) * 2
  <2>1. IsFiniteSet(Live \ {p}) /\ Cardinality(Live \ {p}) = Size[build] - 1
    BY SomeProcesses, FS_RemoveElement
  <2>2. IsFiniteSet(Kinds) /\ Cardinality(Kinds) = 2
    BY TwoKinds
  <2> QED BY <2>1, <2>2, FS_Product
<1>4. /\ pending[q] \in Seq(Live \X {q} \X Kinds) /\ Once(pending[q])
  BY DEF Connecting
<1>5. IsFiniteSet(Range(pending[q])) /\ Cardinality(Range(pending[q])) = Len(pending[q])
  BY <1>4, OnceCounts
<1> DEFINE f == [c \in Range(pending[q]) |-> <<c[1], c[3]>>]
<1>6. \A c \in Range(pending[q]) : \E r \in Live \ {p}, k \in Kinds : c = <<r, q, k>>
  BY <1>1, <1>4 DEF Range
<1>7. f \in Injection(Range(pending[q]), others)
  <2>1. \A c \in Range(pending[q]) : <<c[1], c[3]>> \in others
    BY <1>6
  <2>2. \A c, e \in Range(pending[q]) : <<c[1], c[3]>> = <<e[1], e[3]>> => c = e
    BY <1>6
  <2> QED BY <2>1, <2>2 DEF Injection, IsInjective
<1> HIDE DEF f, others
<1>8. Len(pending[q]) <= (Size[build] - 1) * 2
  BY <1>3, <1>5, <1>7, FS_Injection
<1>9. Len(pending[q]) \in Nat /\ Size[build] \in Nat
  BY <1>4, SomeProcesses
<1> QED BY <1>2, <1>8, <1>9

LEMMA ConnectConnects ==
  ASSUME SoundSoFar, Connecting, NEW p \in Live, Connect(p)
  PROVE  Connects
<1>1. build \in Builds /\ MainType
  BY DEF SoundSoFar
<1>2. /\ Live \subseteq Procs /\ Size[build] \in Nat \ {0} /\ Live = 0..(Size[build] - 1) /\ Live \subseteq Nat
      /\ \A a \in Live : id[a] \in Live /\ \A b \in Live : id[a] = id[b] => a = b
  BY <1>1, ConnectFacts
<1>3. At(p) = "connect" /\ main[p].n < Size[build] /\ Meeting(p) /\ book[p] = book[0] /\ main[p].n \in Nat
  BY <1>1, <1>2 DEF Connect, Connecting, Waiting, Meeting, Talking, MainType
<1>4. PICK n \in Live : n = main[p].n
  BY <1>2, <1>3
<1>5. PICK q \in Live : q = book[p][n + 1] /\ id[q] = n
  BY <1>3 DEF Connecting, BookSound
<1>6. ~Reached(p, q)
  <2>1. ~(n < n)
    BY <1>2
  <2> QED BY <1>3, <1>4, <1>5, <2>1 DEF Reached
<1>7. PICK out : out = [kind \in {"main", "fetch"} |-> <<p, q, kind>>]
  OBVIOUS
<1>8. /\ UNCHANGED <<build, listener, down, book, accepts, portsIn, id, work, faults>>
      /\ Count(p)
      /\ pending' = [pending EXCEPT ![q] = @ \o <<out["main"], out["fetch"]>>]
      /\ portsOut' = [portsOut EXCEPT ![p][n] = out]
      /\ up' = [up EXCEPT ![out["main"]]  = @ \o <<<<"type", "main">>, <<"node", id[p]>>>>,
                          ![out["fetch"]] = @ \o <<<<"type", "fetch">>, <<"node", id[p]>>>>]
  <2>1. listener[q] = "open" /\ Len(pending[q]) + 2 <= 2 * Size[build]
    BY <1>1, <1>6, PeerHasRoom
  <2> QED BY <1>4, <1>5, <1>7, <2>1 DEF Connect
<1>9. out["main"] = <<p, q, "main">> /\ out["fetch"] = <<p, q, "fetch">> /\ \A k \in Kinds : out[k] = <<p, q, k>>
  BY <1>7 DEF Kinds
<1>10. \A k \in Kinds : /\ up[<<p, q, k>>] = <<>> /\ portsIn[q][id[p]][k] = Null
                        /\ <<p, q, k>> \notin Range(pending[q])
  BY <1>6 DEF Connecting, LinkSound, Untouched
<1>11. "main" \in Kinds /\ "fetch" \in Kinds /\ (\A k \in Kinds : k = "main" \/ k = "fetch")
       /\ \A k \in Kinds : <<p, q, k>> \in Conns
  BY <1>1, LinkFacts DEF Kinds
<1>12. /\ pending'[q] \in Seq(Live \X {q} \X Kinds) /\ Once(pending'[q])
       /\ Range(pending'[q]) = Range(pending[q]) \cup {<<p, q, "main">>, <<p, q, "fetch">>}
       /\ \A a \in Procs \ {q} : pending'[a] = pending[a]
  <2>1. pending'[q] = pending[q] \o <<<<p, q, "main">>, <<p, q, "fetch">>>>
    BY <1>2, <1>8, <1>9 DEF Connecting, BootType
  <2>2. \A a \in Procs \ {q} : pending'[a] = pending[a]
    BY <1>8 DEF Connecting, BootType
  <2>3. pending[q] \in Seq(Live \X {q} \X Kinds) /\ Once(pending[q])
    BY DEF Connecting
  <2>4. /\ <<p, q, "main">> \in Live \X {q} \X Kinds /\ <<p, q, "fetch">> \in Live \X {q} \X Kinds
        /\ <<p, q, "main">> # <<p, q, "fetch">>
    BY <1>11
  <2>5. <<p, q, "main">> \notin Range(pending[q]) /\ <<p, q, "fetch">> \notin Range(pending[q])
    BY <1>10, <1>11
  <2> DEFINE S == Live \X {q} \X Kinds  x == <<p, q, "main">>  y == <<p, q, "fetch">>
  <2>6. /\ pending[q] \in Seq(S) /\ Once(pending[q]) /\ x \in S /\ y \in S /\ x # y
        /\ x \notin Range(pending[q]) /\ y \notin Range(pending[q])
    BY <2>3, <2>4, <2>5
  <2>7. pending'[q] = pending[q] \o <<x, y>>
    BY <2>1
  <2> HIDE DEF S, x, y
  <2>8. /\ pending'[q] \in Seq(S) /\ Once(pending'[q])
        /\ Range(pending'[q]) = Range(pending[q]) \cup {x, y}
    BY <2>6, <2>7, PairOnce
  <2> QED BY <2>2, <2>8 DEF S, x, y
<1>13. /\ \A k \in Kinds : up'[<<p, q, k>>] = <<<<"type", k>>, <<"node", id[p]>>>>
       /\ \A c \in Conns : c \notin {<<p, q, "main">>, <<p, q, "fetch">>} => up'[c] = up[c]
       /\ up' \in [Conns -> Seq(Items)]
  <2>1. /\ up[<<p, q, "main">>] \o <<<<"type", "main">>, <<"node", id[p]>>>>
             = <<<<"type", "main">>, <<"node", id[p]>>>>
        /\ up[<<p, q, "fetch">>] \o <<<<"type", "fetch">>, <<"node", id[p]>>>>
             = <<<<"type", "fetch">>, <<"node", id[p]>>>>
    <3>1. up[<<p, q, "main">>] = <<>> /\ up[<<p, q, "fetch">>] = <<>>
      BY <1>10, <1>11
    <3>2. \A x, y : <<>> \o <<x, y>> = <<x, y>>
      BY ShortSequences
    <3> QED BY <3>1, <3>2
  <2>2. <<p, q, "main">> # <<p, q, "fetch">>
    OBVIOUS
  <2>3. up' = [up EXCEPT ![<<p, q, "main">>]  = <<<<"type", "main">>, <<"node", id[p]>>>>,
                         ![<<p, q, "fetch">>] = <<<<"type", "fetch">>, <<"node", id[p]>>>>]
    BY <1>8, <1>9, <1>11, <2>1, <2>2 DEF Connecting, BootType
  <2>4. \A k \in Kinds : <<<<"type", k>>, <<"node", id[p]>>>> \in Seq(Items)
    <3> TAKE k \in Kinds
    <3>1. id[p] \in Nat
      BY <1>2
    <3>2. <<"type", k>> \in Items /\ <<"node", id[p]>> \in Items
      BY <3>1 DEF Items
    <3> QED BY <3>2
  <2> QED BY <1>11, <2>2, <2>3, <2>4 DEF Connecting, BootType
<1>14. /\ portsOut' \in [Procs -> [Live -> [Kinds -> Conns \cup {Null}]]]
       /\ \A k \in Kinds : portsOut'[p][n][k] = <<p, q, k>>
       /\ \A a \in Live, i \in Live : a # p \/ i # n => portsOut'[a][i] = portsOut[a][i]
  <2>1. out \in [Kinds -> Conns \cup {Null}]
    BY <1>7, <1>11 DEF Kinds
  <2> QED BY <1>2, <1>8, <1>9, <2>1 DEF Connecting, BootType
<1>15. /\ MainType' /\ main'[p].at = "connect" /\ main'[p].n = n + 1
       /\ \A a \in Procs \ {p} : main'[a] = main[a]
  <2>1. main' = [main EXCEPT ![p].n = @ + 1] /\ main[p].n + 1 \in Nat
    BY <1>2, <1>3, <1>8 DEF Count
  <2>2. p \in Procs /\ main \in [Procs -> [at : Places, n : Nat]]
    BY <1>1, <1>2 DEF MainType
  <2>3. main'[p] = [main[p] EXCEPT !.n = main[p].n + 1] /\ \A a \in Procs \ {p} : main'[a] = main[a]
    BY <2>1, <2>2
  <2>4. main'[p].at = main[p].at /\ main'[p].n = main[p].n + 1
    BY <2>2, <2>3
  <2>5. main' \in [Procs -> [at : Places, n : Nat]]
    BY <2>1, <2>2
  <2> QED BY <1>3, <1>4, <2>3, <2>4, <2>5 DEF MainType, At
<1>16. Live' = Live /\ Size[build'] = Size[build] /\ build' = "sock"
  BY <1>8 DEF Live, Connecting
<1>17. BootType' /\ Still'
  <2>1. pending' \in [Procs -> Seq(Conns)]
    <3>1. <<out["main"], out["fetch"]>> \in Seq(Conns)
      BY <1>9, <1>11
    <3>2. pending[q] \o <<out["main"], out["fetch"]>> \in Seq(Conns)
      BY <1>2, <3>1, ConcatType DEF Connecting, BootType
    <3> QED BY <1>8, <3>2 DEF Connecting, BootType
  <2> QED BY <1>8, <1>13, <1>14, <1>16, <2>1 DEF Connecting, BootType, Still, work
<1>18. BookSound'
  BY <1>8, <1>16 DEF Connecting, BookSound
<1>19. ASSUME NEW a \in Live PROVE Waiting(a)' \/ Meeting(a)' \/ Talking(a)'
  <2>1. Accepted(a)' = Accepted(a)
    BY <1>8, <1>16 DEF Accepted
  <2>2. CASE a = p
    <3>1. n + 1 <= Size[build]
      BY <1>2, <1>3, <1>4
    <3>2. Meeting(a)'
      BY <1>3, <1>8, <1>15, <1>16, <2>1, <2>2, <3>1 DEF Meeting, At, work
    <3> QED BY <3>2
  <2>3. CASE a # p
    <3>1. SameProcess(a)
      BY <1>2, <1>8, <1>15, <2>1, <2>3 DEF SameProcess, work
    <3> QED BY <1>8, <3>1, ProcessStays
  <2> QED BY <2>2, <2>3
<1>20. ASSUME NEW a \in Live, NEW b \in Live, NEW k \in Kinds PROVE LinkSound(a, b, k)'
  <2>0. id[a] \in Live /\ id[b] \in Live /\ a \in Procs /\ b \in Procs /\ <<a, b, k>> \in Conns
    BY <1>1, <1>2, LinkFacts
  <2>1. CASE a = p /\ b = q
    <3>1. Reached(a, b)'
      <4>1. n < n + 1
        BY <1>2
      <4> QED BY <1>5, <1>8, <1>15, <2>1, <4>1 DEF Reached, At
    <3>2. portsOut'[a][id'[b]][k] = <<a, b, k>>
      BY <1>5, <1>8, <1>14, <2>1
    <3>3. Offered(a, b, k)'
      BY <1>8, <1>10, <1>11, <1>12, <1>13, <2>1 DEF Offered
    <3> QED BY <3>1, <3>2, <3>3 DEF LinkSound
  <2>2. CASE a = p /\ b # q
    <3>1. id[b] # n
      BY <1>2, <1>5, <2>2
    <3>2. Reached(a, b)' <=> Reached(a, b)
      <4>1. id[b] \in Nat /\ n \in Nat
        BY <1>2, <2>0
      <4>2. id[b] < n + 1 <=> id[b] < n
        BY <3>1, <4>1
      <4> QED BY <1>3, <1>4, <1>8, <1>15, <2>2, <4>2 DEF Reached, At
    <3>3. portsOut'[a][id[b]] = portsOut[a][id[b]]
      BY <1>14, <2>0, <3>1
    <3>4. up'[<<a, b, k>>] = up[<<a, b, k>>] /\ pending'[b] = pending[b]
      BY <1>12, <1>13, <2>0, <2>2
    <3>5. SameLink(a, b, k)
      BY <1>8, <3>2, <3>3, <3>4 DEF SameLink
    <3> QED BY <1>8, <3>5, LinkStays
  <2>3. CASE a # p
    <3>1. Reached(a, b)' <=> Reached(a, b)
      BY <1>8, <1>15, <2>0, <2>3 DEF Reached, At
    <3>2. portsOut'[a][id[b]] = portsOut[a][id[b]]
      BY <1>14, <2>0, <2>3
    <3>3. up'[<<a, b, k>>] = up[<<a, b, k>>]
      BY <1>13, <2>0, <2>3
    <3>4. <<a, b, k>> \in Range(pending'[b]) <=> <<a, b, k>> \in Range(pending[b])
      BY <1>12, <2>0, <2>3
    <3>5. SameLink(a, b, k)
      BY <1>8, <3>1, <3>2, <3>3, <3>4 DEF SameLink
    <3> QED BY <1>8, <3>5, LinkStays
  <2> QED BY <2>1, <2>2, <2>3
<1>21. \A a \in Live : pending'[a] \in Seq(Live \X {a} \X Kinds) /\ Once(pending'[a])
  BY <1>2, <1>12 DEF Connecting
<1>22. main'[p].at # "run"
  BY <1>15
<1>23. Connecting'
  BY <1>16, <1>17, <1>18, <1>19, <1>20, <1>21, <1>22 DEF Connecting, At
<1> QED BY <1>8, <1>15, <1>23 DEF Connects, SoundSoFar

(* Accepting takes the first offered connection for what its two items say.*)
LEMMA AcceptPeerConnects ==
  ASSUME SoundSoFar, Connecting, NEW p \in Live, AcceptPeer(p)
  PROVE  Connects
<1>1. build \in Builds /\ MainType
  BY DEF SoundSoFar
<1>2. /\ Live \subseteq Procs /\ Size[build] \in Nat \ {0} /\ Live \subseteq Nat
      /\ \A a \in Live : id[a] \in Live /\ \A b \in Live : id[a] = id[b] => a = b
  BY <1>1, ConnectFacts
<1>3. accepts[p] > 0 /\ pending[p] # <<>> /\ Meeting(p)
  <2>1. accepts[p] > 0 /\ pending[p] # <<>>
    BY DEF AcceptPeer
  <2>2. accepts[p] # 0
    BY <2>1
  <2> QED BY <2>1, <2>2 DEF Connecting, Waiting, Talking
<1>4. PICK c : c = Head(pending[p])
  OBVIOUS
<1>5. /\ c \in Live \X {p} \X Kinds /\ c \in Range(pending[p])
      /\ Tail(pending[p]) \in Seq(Live \X {p} \X Kinds)
      /\ Once(Tail(pending[p])) /\ Range(Tail(pending[p])) = Range(pending[p]) \ {c}
  <2>1. pending[p] \in Seq(Live \X {p} \X Kinds) /\ Once(pending[p])
    BY DEF Connecting
  <2> DEFINE S == Live \X {p} \X Kinds
  <2>2. pending[p] \in Seq(S)
    BY <2>1
  <2> HIDE DEF S
  <2>3. /\ c \in S /\ c \in Range(pending[p]) /\ Tail(pending[p]) \in Seq(S)
        /\ Once(Tail(pending[p])) /\ Range(Tail(pending[p])) = Range(pending[p]) \ {c}
    BY <1>3, <1>4, <2>1, <2>2, TailOnce
  <2> QED BY <2>3 DEF S
<1>6. PICK r \in Live, k \in Kinds : c = <<r, p, k>>
  BY <1>5
<1>7. Reached(r, p) /\ portsOut[r][id[p]][k] = c /\ Offered(r, p, k)
  BY <1>5, <1>6 DEF Connecting, LinkSound, Untouched, Taken
<1>8. /\ up[c] = <<<<"type", k>>, <<"node", id[r]>>>> /\ portsIn[p][id[r]][k] = Null /\ c \in Conns /\ c # Null
  BY <1>1, <1>6, <1>7, LinkFacts DEF Offered
<1>9. Meant(up[c], <<"type", "node">>) /\ up[c][1][2] = k /\ up[c][2][2] = id[r] /\ After(2, up[c]) = <<>>
  <2>1. up[c][1] = <<"type", k>> /\ up[c][2] = <<"node", id[r]>>
    BY <1>8
  <2>2. /\ <<"type", k>>[1] = "type" /\ <<"type", k>>[2] = k
        /\ <<"node", id[r]>>[1] = "node" /\ <<"node", id[r]>>[2] = id[r]
        /\ DOMAIN <<"type", "node">> = {1, 2}
        /\ <<"type", "node">>[1] = "type" /\ <<"type", "node">>[2] = "node"
    OBVIOUS
  <2>3. After(2, up[c]) = <<>>
    BY <1>8, ShortSequences
  <2> QED BY <2>1, <2>2, <2>3 DEF Meant
<1>10. /\ UNCHANGED <<build, main, listener, down, book, portsOut, id, work>>
       /\ pending' = [pending EXCEPT ![p] = Tail(@)]
       /\ portsIn' = [portsIn EXCEPT ![p][id[r]] = [@ EXCEPT ![k] = c]]
       /\ up' = [up EXCEPT ![c] = <<>>]
       /\ accepts' = [accepts EXCEPT ![p] = @ - 1]
       /\ UNCHANGED faults
  BY <1>4, <1>9 DEF AcceptPeer, Check
<1>11. p \in Procs /\ id[r] \in Live /\ id[p] \in Live
  BY <1>2
<1>12. /\ portsIn' \in [Procs -> [Live -> [Kinds -> Conns \cup {Null}]]]
       /\ portsIn'[p][id[r]][k] = c
       /\ \A b \in Live, i \in Live, j \in Kinds :
            b # p \/ i # id[r] \/ j # k => portsIn'[b][i][j] = portsIn[b][i][j]
  <2>1. portsIn \in [Procs -> [Live -> [Kinds -> Conns \cup {Null}]]]
    BY DEF Connecting, BootType
  <2>2. [portsIn[p][id[r]] EXCEPT ![k] = c] \in [Kinds -> Conns \cup {Null}]
    BY <1>8, <1>11, <2>1
  <2>3. portsIn' \in [Procs -> [Live -> [Kinds -> Conns \cup {Null}]]]
    BY <1>10, <1>11, <2>1, <2>2
  <2>4. portsIn'[p][id[r]] = [portsIn[p][id[r]] EXCEPT ![k] = c]
    BY <1>10, <1>11, <2>1
  <2>5. \A b \in Live, i \in Live : b # p \/ i # id[r] => portsIn'[b][i] = portsIn[b][i]
    BY <1>2, <1>10, <1>11, <2>1
  <2>6. portsIn[p][id[r]] \in [Kinds -> Conns \cup {Null}]
    BY <1>11, <2>1
  <2>7. portsIn'[p][id[r]][k] = c /\ \A j \in Kinds : j # k => portsIn'[p][id[r]][j] = portsIn[p][id[r]][j]
    BY <2>4, <2>6
  <2> QED BY <2>3, <2>5, <2>7
<1>13. up' \in [Conns -> Seq(Items)] /\ up'[c] = <<>> /\ \A e \in Conns \ {c} : up'[e] = up[e]
  BY <1>8, <1>10 DEF Connecting, BootType
<1>14. pending'[p] = Tail(pending[p]) /\ \A b \in Procs \ {p} : pending'[b] = pending[b]
  BY <1>10, <1>11 DEF Connecting, BootType
<1>15. accepts[p] \in Nat /\ accepts[p] - 1 \in Nat
  <2>1. accepts[p] \in Nat
    BY <1>11 DEF Connecting, BootType
  <2> QED BY <1>3, <2>1
<1>16. Live' = Live /\ Size[build'] = Size[build] /\ build' = "sock"
  BY <1>10 DEF Live, Connecting
<1>17. BootType' /\ Still'
  <2>1. pending' \in [Procs -> Seq(Conns)]
    <3>1. pending[p] \in Seq(Conns)
      BY <1>11 DEF Connecting, BootType
    <3>2. Tail(pending[p]) \in Seq(Conns)
      BY <1>3, <3>1
    <3> QED BY <1>10, <3>2 DEF Connecting, BootType
  <2>2. accepts' \in [Procs -> Nat]
    BY <1>10, <1>15 DEF Connecting, BootType
  <2> QED BY <1>10, <1>12, <1>13, <1>16, <2>1, <2>2 DEF Connecting, BootType, Still, work
<1>18. BookSound'
  BY <1>10, <1>16 DEF Connecting, BookSound
<1>19. ASSUME NEW a \in Live PROVE Waiting(a)' \/ Meeting(a)' \/ Talking(a)'
  <2>1. CASE a = p
    <3>1. Accepted(p)' = Accepted(p) \cup {<<r, k>>} /\ <<r, k>> \notin Accepted(p)
      <4>1. Accepted(p)' = {e \in Live \X Kinds : portsIn'[p][id[e[1]]][e[2]] # Null}
        BY <1>10, <1>16 DEF Accepted
      <4>2. ASSUME NEW e \in Live \X Kinds, e # <<r, k>>
            PROVE  portsIn'[p][id[e[1]]][e[2]] = portsIn[p][id[e[1]]][e[2]]
        <5>1. e[1] \in Live /\ e[2] \in Kinds /\ (e[1] # r \/ e[2] # k)
          BY <4>2
        <5>2. id[e[1]] \in Live /\ (id[e[1]] # id[r] \/ e[2] # k)
          BY <1>2, <5>1
        <5> QED BY <1>12, <5>1, <5>2
      <4>3. portsIn'[p][id[r]][k] # Null /\ portsIn[p][id[r]][k] = Null /\ <<r, k>> \in Live \X Kinds
        BY <1>8, <1>12
      <4> QED BY <4>1, <4>2, <4>3 DEF Accepted
    <3>2. IsFiniteSet(Accepted(p))
      <4>1. IsFiniteSet(Live \X Kinds)
        BY <1>1, TwoKinds, SomeProcesses, FS_Product
      <4> QED BY <4>1, FS_Subset DEF Accepted
    <3>3. Cardinality(Accepted(p)') = Cardinality(Accepted(p)) + 1 /\ Cardinality(Accepted(p)) \in Nat
      BY <3>1, <3>2, FS_AddElement, FS_CardinalityType
    <3>4. accepts'[p] = accepts[p] - 1
      BY <1>10, <1>11 DEF Connecting, BootType
    <3>5. accepts'[p] = 2 * Size[build] - Cardinality(Accepted(p)')
      <4>1. accepts[p] = 2 * Size[build] - Cardinality(Accepted(p)) /\ 2 * Size[build] \in Int
        BY <1>2, <1>3 DEF Meeting
      <4> QED BY <3>3, <3>4, <4>1
    <3>6. Meeting(p)'
      BY <1>3, <1>10, <1>16, <3>5 DEF Meeting, At, work
    <3> QED BY <2>1, <3>6
  <2>2. CASE a # p
    <3>1. Accepted(a)' = Accepted(a)
      <4>1. \A e \in Live \X Kinds : portsIn'[a][id[e[1]]][e[2]] = portsIn[a][id[e[1]]][e[2]]
        BY <1>2, <1>12, <2>2
      <4> QED BY <1>10, <1>16, <4>1 DEF Accepted
    <3>2. accepts'[a] = accepts[a]
      BY <1>2, <1>10, <2>2 DEF Connecting, BootType
    <3>3. SameProcess(a)
      BY <1>10, <3>1, <3>2 DEF SameProcess, work
    <3> QED BY <1>10, <3>3, ProcessStays
  <2> QED BY <2>1, <2>2
<1>20. ASSUME NEW a \in Live, NEW b \in Live, NEW j \in Kinds PROVE LinkSound(a, b, j)'
  <2>1. Reached(a, b)' <=> Reached(a, b)
    BY <1>10 DEF Reached, At
  <2>2. CASE a = r /\ b = p /\ j = k
    <3>1. Taken(a, b, j)'
      BY <1>5, <1>6, <1>10, <1>12, <1>13, <1>14, <2>2 DEF Taken
    <3> QED BY <1>6, <1>7, <1>10, <2>1, <2>2, <3>1 DEF LinkSound
  <2>3. CASE a # r \/ b # p \/ j # k
    <3>1. <<a, b, j>> \in Conns /\ <<a, b, j>> # c /\ b \in Procs
      BY <1>1, <1>2, <1>6, <2>3, LinkFacts
    <3>2. up'[<<a, b, j>>] = up[<<a, b, j>>]
      BY <1>13, <3>1
    <3>3. portsIn'[b][id[a]][j] = portsIn[b][id[a]][j]
      <4>1. id[a] \in Live /\ (b # p \/ id[a] # id[r] \/ j # k)
        BY <1>2, <2>3
      <4> QED BY <1>12, <4>1
    <3>4. <<a, b, j>> \in Range(pending'[b]) <=> <<a, b, j>> \in Range(pending[b])
      BY <1>5, <1>14, <3>1
    <3>5. SameLink(a, b, j)
      BY <1>10, <2>1, <3>2, <3>3, <3>4 DEF SameLink
    <3> QED BY <1>10, <3>5, LinkStays
  <2> QED BY <2>2, <2>3
<1>21. \A a \in Live : pending'[a] \in Seq(Live \X {a} \X Kinds) /\ Once(pending'[a])
  BY <1>2, <1>5, <1>14 DEF Connecting
<1>22. Connecting'
  BY <1>10, <1>16, <1>17, <1>18, <1>19, <1>20, <1>21 DEF Connecting, At
<1> QED BY <1>1, <1>10, <1>22 DEF Connects, SoundSoFar, MainType

(* A process that has connected to all and accepted from all runs; with    *)
(* the last one, all are wired.                                            *)
LEMMA AllAccepted ==
  ASSUME build \in Builds, Connecting, NEW p \in Live, Meeting(p), accepts[p] = 0
  PROVE  Accepted(p) = Live \X Kinds
<1>1. IsFiniteSet(Live \X Kinds) /\ Cardinality(Live \X Kinds) = Size[build] * 2
  <2>1. IsFiniteSet(Kinds) /\ Cardinality(Kinds) = 2
    BY TwoKinds
  <2> QED BY <2>1, SomeProcesses, FS_Product
<1>2. Accepted(p) \subseteq Live \X Kinds
  BY DEF Accepted
<1>3. IsFiniteSet(Accepted(p)) /\ Cardinality(Accepted(p)) \in Nat
  BY <1>1, <1>2, FS_Subset, FS_CardinalityType
<1>4. Cardinality(Accepted(p)) = Size[build] * 2
  <2>1. 0 = 2 * Size[build] - Cardinality(Accepted(p)) /\ Size[build] \in Nat
    BY SomeProcesses DEF Meeting
  <2> QED BY <1>3, <2>1
<1> QED BY <1>1, <1>2, <1>4, FS_Subset

LEMMA ConnectedConnects ==
  ASSUME SoundSoFar, Connecting, NEW p \in Live, Connected(p)
  PROVE  (Connecting' \/ Wired') /\ MainType' /\ UNCHANGED <<build, faults>>
<1>1. build \in Builds /\ MainType /\ "run" \in Places
  BY DEF SoundSoFar, Places
<1>2. /\ Live \subseteq Procs /\ Live \subseteq Nat /\ Size[build] \in Nat /\ Live = 0..(Size[build] - 1)
      /\ \A a \in Live : id[a] \in Live
  BY <1>1, ConnectFacts
<1>3. /\ UNCHANGED <<build, up, pending, down, book, accepts, portsIn, portsOut, id,
                     queue, due, local, left, open, faults>>
      /\ At(p) = "connect" /\ main[p].n = Size[build] /\ accepts[p] = 0
      /\ GoTo(p, "run") /\ listener' = [listener EXCEPT ![p] = "closed"]
      /\ hand' = [hand EXCEPT ![p] = [i \in Live |-> Nobody]]
  BY DEF Connected
<1>4. Meeting(p) /\ p \in Procs
  BY <1>2, <1>3 DEF Connecting, Waiting, Talking
<1>5. Accepted(p) = Live \X Kinds
  BY <1>1, <1>3, <1>4, AllAccepted
<1>6. MainType' /\ main'[p] = [at |-> "run", n |-> 0] /\ \A a \in Procs \ {p} : main'[a] = main[a]
  BY <1>1, <1>3, <1>4 DEF MainType, GoTo
<1>7. Live' = Live /\ Size[build'] = Size[build] /\ build' = "sock"
  BY <1>3 DEF Live, Connecting
<1>8. BootType' /\ Still'
  BY <1>3, <1>4, <1>7 DEF Connecting, BootType, Still
<1>9. BookSound'
  BY <1>3, <1>7 DEF Connecting, BookSound
<1>10. \A a \in Live : Accepted(a)' = Accepted(a)
  BY <1>3, <1>7 DEF Accepted
<1>11. ASSUME NEW a \in Live PROVE Waiting(a)' \/ Meeting(a)' \/ Talking(a)'
  <2>1. CASE a = p
    <3>1. hand'[p] = [i \in Live |-> Nobody]
      BY <1>3, <1>4 DEF Connecting, BootType
    <3>2. Talking(p)'
      BY <1>3, <1>5, <1>6, <1>7, <1>10, <3>1 DEF Talking, At
    <3> QED BY <2>1, <3>2
  <2>2. CASE a # p
    <3>1. SameProcess(a)
      BY <1>2, <1>3, <1>6, <1>10, <2>2 DEF SameProcess, Connecting, BootType
    <3> QED BY <1>3, <3>1, ProcessStays
  <2> QED BY <2>1, <2>2
<1>12. ASSUME NEW a \in Live, NEW b \in Live, NEW k \in Kinds PROVE LinkSound(a, b, k)'
  <2>1. Reached(a, b)' <=> Reached(a, b)
    <3>1. CASE a = p
      <4>1. id[b] < Size[build]
        BY <1>2
      <4> QED BY <1>3, <1>6, <3>1, <4>1 DEF Reached, At
    <3>2. CASE a # p
      BY <1>2, <1>3, <1>6, <3>2 DEF Reached, At
    <3> QED BY <3>1, <3>2
  <2>2. SameLink(a, b, k)
    BY <1>3, <2>1 DEF SameLink
  <2> QED BY <1>3, <2>2, LinkStays
<1>13. CASE \E a \in Live : main'[a].at # "run"
  <2>1. Connecting'
    BY <1>3, <1>7, <1>8, <1>9, <1>11, <1>12, <1>13 DEF Connecting, At
  <2> QED BY <1>3, <1>6, <2>1
<1>14. CASE \A a \in Live : main'[a].at = "run"
  <2>1. ASSUME NEW a \in Live
        PROVE  accepts'[a] = 0 /\ Accepted(a)' = Live \X Kinds /\ id'[a] \in Live /\ main'[a].at \notin Early
    BY <1>2, <1>3, <1>7, <1>11, <1>14 DEF Waiting, Meeting, Talking, At, Early
  <2>2. \A i \in Live : \E a \in Live : id'[a] = i
    BY <1>3 DEF Connecting, BookSound
  <2>3. ASSUME NEW a \in Live, NEW b \in Live, NEW k \in Kinds
        PROVE  portsOut'[a][id'[b]][k] = <<a, b, k>> /\ portsIn'[b][id'[a]][k] = <<a, b, k>>
    <3>1. Reached(a, b)'
      BY <1>14 DEF Reached, At
    <3>2. portsIn'[b][id'[a]][k] # Null
      <4>1. <<a, k>> \in Accepted(b)'
        BY <2>1
      <4> QED BY <4>1 DEF Accepted
    <3> QED BY <1>12, <3>1, <3>2 DEF LinkSound, Offered, Taken
  <2>4. Wired'
    BY <1>7, <2>1, <2>2, <2>3 DEF Wired, At
  <2> QED BY <1>3, <1>6, <2>4
<1> QED BY <1>13, <1>14

(* Nothing else happens in this phase: nobody has started a task, and a    *)
(* receiver finds its connection empty.                                    *)
LEMMA ConnectMainRests ==
  ASSUME build \in Builds, Connecting, NEW p \in Live, Main(p)
  PROVE  Connect(p) \/ Connected(p)
<1>1. At(p) \in {"book", "connect", "run"} /\ build = "sock"
  BY ConnectFacts DEF Connecting
<1>2. ~Idle(p)
  BY ConnectFacts DEF Connecting, Still, Idle
<1>3. ~SockStop(p) /\ ~SockExit(p) /\ ~SockJoin(p)
  BY <1>1, <1>2 DEF SockStop, SockExit, SockJoin
<1>4. ~Wait(p) /\ ~ReadUnsent(p) /\ ~ReadUnconfirmed(p) /\ ~ReadReceived(p) /\ ~ReadSent(p)
  BY <1>1 DEF Wait, ReadUnsent, ReadUnconfirmed, ReadReceived, ReadSent
<1>5. ~Reduce(p)
  BY <1>1 DEF Reduce
<1>6. ~MpiExit(p) /\ ~MpiStop(p) /\ ~Finalize(p)
  BY <1>1 DEF MpiExit, MpiStop, Finalize
<1> QED BY <1>3, <1>4, <1>5, <1>6 DEF Main

LEMMA NothingReceived ==
  ASSUME build \in Builds, Connecting, NEW p \in Live, NEW i \in Live
  PROVE  ~Receive(p, i) /\ ~Handle(p, i)
<1>1. CASE hand[p] = <<>>
  <2>1. i \notin DOMAIN hand[p]
    BY <1>1
  <2> QED BY <2>1 DEF Receive, Handle
<1>2. CASE hand[p] # <<>>
  <2>1. Talking(p)
    BY <1>2 DEF Connecting, Waiting, Meeting
  <2>2. hand[p][i] = Nobody
    BY <2>1 DEF Talking
  <2>3. ~Handle(p, i)
    BY <2>2 DEF Handle
  <2>4. local[p] = <<>>
    BY ConnectFacts DEF Connecting, Still
  <2>5. PICK q \in Live : id[q] = i
    BY DEF Connecting, BookSound
  <2>6. portsIn[p][i]["main"] # Null /\ "main" \in Kinds
    <3>1. <<q, "main">> \in Accepted(p)
      BY <2>1 DEF Talking, Kinds
    <3> QED BY <2>5, <3>1 DEF Accepted, Kinds
  <2>7. up[portsIn[p][i]["main"]] = <<>>
    <3>1. LinkSound(q, p, "main")
      BY <2>6 DEF Connecting
    <3>2. portsIn[p][id[q]]["main"] # Null
      BY <2>5, <2>6
    <3>3. Taken(q, p, "main")
      BY <3>1, <3>2 DEF LinkSound, Untouched, Offered
    <3> QED BY <2>5, <3>3 DEF Taken
  <2>8. ~Receive(p, i)
    BY <2>4, <2>7 DEF Receive
  <2> QED BY <2>3, <2>8
<1> QED BY <1>1, <1>2

LEMMA ConnectingStep ==
  ASSUME SoundSoFar, Connecting, Next
  PROVE  \/ Connects
         \/ (Connecting' \/ Wired') /\ MainType' /\ UNCHANGED <<build, faults>>
         \/ UNCHANGED vars
<1>1. /\ build \in Builds /\ Still /\ 0 \in Live
      /\ \A p \in Live : At(p) \in {"book", "connect", "run"}
      /\ At(0) \in {"connect", "run"}
  BY ConnectFacts DEF SoundSoFar, Connecting
<1>2. ~Master
  BY <1>1 DEF Master, WriteBootFile, Listen, AcceptSlave, HearPort, HearReady, SendBook, HearTimes
<1>3. ~Duplicate
  BY <1>1 DEF Duplicate
<1>4. ~Started
  BY <1>1 DEF Connecting, Started
<1>5. \A t \in Tasks : ~StartRoot(t)
  BY <1>4 DEF StartRoot
<1>6. ASSUME NEW p \in Live, Slave(p) PROVE HearBook(p)
  BY <1>1, <1>6 DEF Slave, GreetMaster, HearId, HearCount, SendTime
<1>7. ASSUME NEW p \in Live PROVE ~Runner(p) /\ \A t \in Tasks : ~TaskSends(p, t)
  BY <1>1, NothingRuns
<1>8. ASSUME NEW p \in Live, NEW i \in Live PROVE ~Receive(p, i) /\ ~Handle(p, i)
  BY <1>1, NothingReceived
<1>9. ASSUME NEW p \in Live, Main(p) PROVE Connect(p) \/ Connected(p)
  BY <1>1, <1>9, ConnectMainRests
<1>10. Terminated => UNCHANGED vars
  BY DEF Terminated
<1>11. \/ \E p \in Live : HearBook(p) \/ AcceptPeer(p) \/ Connect(p) \/ Connected(p)
       \/ UNCHANGED vars
  BY <1>2, <1>3, <1>5, <1>6, <1>7, <1>8, <1>9, <1>10 DEF Next, Others
<1> QED BY <1>11, HearBookConnects, AcceptPeerConnects, ConnectConnects, ConnectedConnects
-----------------------------------------------------------------------------
(***************************************************************************)
(* The theorem.                                                            *)
(***************************************************************************)
(* With MPI the connections are given; with sockets the gathering begins.  *)
LEMMA InitSound ==
  ASSUME Init
  PROVE  Inv
<1>1. build \in Builds /\ faults = {}
  BY DEF Init
<1>2. Live \subseteq Procs /\ 0 \in Live /\ 0 \notin Slaves /\ Slaves \subseteq Live /\ Procs \subseteq Nat
  BY <1>1, SomeProcesses DEF Slaves
<1>3. build = "sock" \/ build = "mpi"
  BY <1>1, TransportAssumption
<1>4. main = [p \in Procs |-> [at |-> IF build = "mpi" THEN "time" ELSE IF p = 0 THEN "file" ELSE "slave",
                               n |-> 0]]
  BY DEF Init
<1>5. MainType
  BY <1>4 DEF MainType, Places
<1>6. CASE build = "mpi"
  <2>1. \A p \in Live : At(p) \notin Early /\ accepts[p] = 0 /\ id[p] = p
    BY <1>2, <1>4, <1>6 DEF Init, At, Early
  <2>2. ASSUME NEW p \in Live, NEW q \in Live, NEW k \in Kinds
        PROVE  portsOut[p][q][k] = <<p, q, k>> /\ portsIn[q][p][k] = <<p, q, k>>
    BY <1>2, <1>6 DEF Init, Kinds
  <2>3. Wired
    BY <2>1, <2>2 DEF Wired
  <2> QED BY <1>1, <1>5, <2>3 DEF Inv, MainType
<1>7. CASE build = "sock"
  <2>1. /\ \A p \in Live : At(p) = IF p = 0 THEN "file" ELSE "slave"
        /\ \A p \in Live : main[p].n = 0
    BY <1>2, <1>4, <1>7 DEF At
  <2>2. /\ listener = [p \in Procs |-> "none"] /\ pending = [p \in Procs |-> <<>>]
        /\ up = [c \in Conns |-> <<>>] /\ down = [c \in Conns |-> <<>>]
        /\ book = [p \in Procs |-> <<>>] /\ accepts = [p \in Procs |-> 0]
        /\ portsOut = [p \in Procs |-> Unset] /\ portsIn = [p \in Procs |-> Unset]
        /\ hand = [p \in Procs |-> <<>>] /\ id = [p \in Procs |-> IF p = 0 THEN p ELSE -1]
    BY <1>7 DEF Init
  <2>3. Unset \in [Live -> [Kinds -> Conns \cup {Null}]]
    BY DEF Unset, Kinds
  <2>4. BootType
    BY <1>2, <2>2, <2>3 DEF BootType
  <2>5. Still
    BY DEF Init, Still
  <2>6. Unlinked
    BY <1>1, <1>2, <2>1, <2>2, LinkFacts DEF Unlinked
  <2>7. Hosting
    BY <1>2, <2>1, <2>2 DEF Hosting, Once
  <2>8. ASSUME NEW p \in Slaves PROVE Newcomer(p)
    <3>1. At(p) = "slave" /\ Boot(p) \in Conns
      BY <1>1, <1>2, <2>1, LinkFacts
    <3>2. book[0] = <<>> /\ pending[0] = <<>> /\ Range(<<>>) = {}
      BY <1>2, <2>2 DEF Range
    <3> QED BY <2>2, <3>1, <3>2 DEF Newcomer
  <2>9. Gathering
    BY <1>7, <2>4, <2>5, <2>6, <2>7, <2>8 DEF Gathering
  <2> QED BY <1>1, <1>5, <2>9 DEF Inv, MainType
<1> QED BY <1>3, <1>6, <1>7

LEMMA InvStays ==
  ASSUME Inv, [Next]_vars
  PROVE  Inv'
<1>1. SoundSoFar /\ (Gathering \/ Connecting \/ Wired)
  BY DEF Inv, SoundSoFar, MainType
<1>2. CASE UNCHANGED vars
  <2>1. /\ UNCHANGED <<build, main, up, listener, pending, down, book, accepts, portsIn, portsOut, id>>
        /\ UNCHANGED <<queue, due, local, hand, left, open, faults>>
    BY <1>2 DEF vars, boot, work
  <2>2. Live' = Live /\ Slaves' = Slaves /\ Unset' = Unset /\ Boots' = Boots
    BY <2>1 DEF Live, Slaves, Unset, Boots
  <2>3. CASE Gathering
    <3>1. ASSUME NEW p \in Slaves PROVE Newcomer(p)' \/ \E k \in 1..Len(book'[0]) : Welcome(p, k)'
      <4>1. SameSlave(p)
        BY <2>1 DEF SameSlave
      <4> QED BY <1>1, <2>1, <2>3, <4>1, OthersStay DEF SoundSoFar
    <3>2. BootType' /\ Still' /\ Unlinked' /\ Hosting'
      BY <2>1, <2>2, <2>3 DEF Gathering, BootType, Still, Unlinked, Hosting, At
    <3>3. Gathering'
      BY <2>1, <2>2, <2>3, <3>1, <3>2 DEF Gathering
    <3> QED BY <2>1, <3>3 DEF Inv
  <2>4. CASE Connecting
    <3>1. \A p \in Live : Accepted(p)' = Accepted(p)
      BY <2>1, <2>2 DEF Accepted
    <3>2. ASSUME NEW p \in Live PROVE Waiting(p)' \/ Meeting(p)' \/ Talking(p)'
      <4>1. SameProcess(p)
        BY <2>1, <3>1 DEF SameProcess
      <4> QED BY <2>1, <2>4, <4>1, ProcessStays
    <3>3. ASSUME NEW p \in Live, NEW q \in Live, NEW k \in Kinds PROVE LinkSound(p, q, k)'
      <4>1. SameLink(p, q, k)
        BY <2>1 DEF SameLink, Reached, At
      <4> QED BY <2>1, <2>4, <4>1, LinkStays
    <3>4. BootType' /\ Still' /\ BookSound'
      BY <2>1, <2>2, <2>4 DEF Connecting, BootType, Still, BookSound
    <3>5. Connecting'
      BY <2>1, <2>2, <2>4, <3>2, <3>3, <3>4 DEF Connecting, At
    <3> QED BY <2>1, <3>5 DEF Inv
  <2>5. CASE Wired
    <3>1. \A p \in Live : At(p)' \notin Early /\ accepts'[p] = 0 /\ id'[p] \in Live
      BY <2>1, <2>5 DEF Wired, At
    <3>2. /\ \A i \in Live : \E p \in Live : id'[p] = i
          /\ \A p, q \in Live, k \in Kinds :
               portsOut'[p][id'[q]][k] = <<p, q, k>> /\ portsIn'[q][id'[p]][k] = <<p, q, k>>
      BY <2>1, <2>5 DEF Wired
    <3>3. Wired'
      BY <2>2, <3>1, <3>2 DEF Wired
    <3> QED BY <2>1, <3>3 DEF Inv
  <2> QED BY <1>1, <2>3, <2>4, <2>5
<1>3. CASE Next /\ Gathering /\ ~UNCHANGED vars
  <2>1. Gathers \/ Connects
    BY <1>1, <1>3, GatheringStep
  <2>2. build' = "sock" /\ build = "sock"
    BY <1>3, <2>1 DEF Gathers, Connects, Gathering, Connecting
  <2> QED BY <1>1, <2>1, <2>2 DEF Gathers, Connects, Inv, MainType, SoundSoFar
<1>4. CASE Next /\ Connecting /\ ~UNCHANGED vars
  <2>1. Connects \/ ((Connecting' \/ Wired') /\ MainType' /\ UNCHANGED <<build, faults>>)
    BY <1>1, <1>4, ConnectingStep
  <2>2. CASE Connects
    <3>1. build' = "sock" /\ build = "sock"
      BY <1>4, <2>2 DEF Connects, Connecting
    <3> QED BY <1>1, <2>2, <3>1 DEF Connects, Inv, MainType, SoundSoFar
  <2>3. CASE (Connecting' \/ Wired') /\ MainType' /\ UNCHANGED <<build, faults>>
    BY <1>1, <2>3 DEF Inv, MainType, SoundSoFar
  <2> QED BY <2>1, <2>2, <2>3
<1>5. CASE Next /\ Wired
  <2>1. Wired' /\ MainType' /\ UNCHANGED <<build, faults>>
    BY <1>1, <1>5, WiredStays DEF SoundSoFar
  <2> QED BY <1>1, <2>1 DEF Inv, MainType, SoundSoFar
<1> QED BY <1>1, <1>2, <1>3, <1>4, <1>5

(* Each phase has its sockets paired.                                      *)
LEMMA InvPairs ==
  ASSUME Inv
  PROVE  ConnectionsSound
<1>1. build \in Builds /\ OnlyEarlySlavesFail
  BY DEF Inv, OnlyEarlySlavesFail
<1>2. SUFFICES ASSUME NEW q \in Live, NEW j \in Live, NEW kind \in Kinds
               PROVE  LET c == portsIn[q][j][kind] IN
                        /\ c # Null => /\ c[2] = q /\ c[3] = kind /\ id[c[1]] = j
                                       /\ portsOut[c[1]][id[q]][kind] = c
                        /\ hand[q] # <<>> => c # Null /\ portsOut[q][j][kind] # Null
  BY <1>1 DEF ConnectionsSound, PortsPaired, Kinds
<1>3. CASE Gathering
  <2>1. portsIn[q][j][kind] = Null /\ hand[q] = <<>>
    <3>1. portsIn[q] = Unset /\ hand[q] = <<>>
      BY <1>3 DEF Gathering, Unlinked
    <3> QED BY <3>1 DEF Unset, Kinds
  <2> QED BY <2>1
<1>4. CASE Connecting
  <2>1. PICK p \in Live : id[p] = j
    BY <1>4 DEF Connecting, BookSound
  <2>2. LinkSound(p, q, kind) /\ LinkSound(q, p, kind)
    BY <1>4 DEF Connecting
  <2>3. <<p, q, kind>> # Null /\ <<q, p, kind>> # Null
    BY <1>1, LinkFacts
  <2>4. ASSUME portsIn[q][j][kind] # Null
        PROVE  portsIn[q][j][kind] = <<p, q, kind>> /\ portsOut[p][id[q]][kind] = <<p, q, kind>>
    BY <2>1, <2>2, <2>4 DEF LinkSound, Untouched, Offered, Taken
  <2>5. ASSUME hand[q] # <<>>
        PROVE  portsIn[q][j][kind] # Null /\ portsOut[q][j][kind] # Null
    <3>1. Talking(q)
      BY <1>4, <2>5 DEF Connecting, Waiting, Meeting
    <3>2. <<p, kind>> \in Accepted(q)
      BY <3>1 DEF Talking
    <3>3. portsIn[q][j][kind] # Null
      BY <2>1, <3>2 DEF Accepted
    <3>4. Reached(q, p)
      BY <3>1 DEF Talking, Reached
    <3> QED BY <2>1, <2>2, <2>3, <3>3, <3>4 DEF LinkSound
  <2>6. LET c == <<p, q, kind>> IN c[1] = p /\ c[2] = q /\ c[3] = kind
    OBVIOUS
  <2> QED BY <2>1, <2>4, <2>5, <2>6
<1>5. CASE Wired
  <2>1. PICK p \in Live : id[p] = j
    BY <1>5 DEF Wired
  <2>2. /\ portsIn[q][j][kind] = <<p, q, kind>> /\ portsOut[p][id[q]][kind] = <<p, q, kind>>
        /\ portsOut[q][j][kind] = <<q, p, kind>>
    BY <1>5, <2>1 DEF Wired
  <2>3. <<p, q, kind>> # Null /\ <<q, p, kind>> # Null
    BY <1>1, LinkFacts
  <2>4. LET c == <<p, q, kind>> IN c[1] = p /\ c[2] = q /\ c[3] = kind
    OBVIOUS
  <2> QED BY <2>1, <2>2, <2>3, <2>4
<1> QED BY <1>3, <1>4, <1>5 DEF Inv

(* However many processes there are and in whatever order they meet: the   *)
(* master and a slave never misread each other in their conversation, all  *)
(* listen with room for all before anybody learns an address, and every    *)
(* socket a process receives on is the other end of the one that its peer  *)
(* sends on, of the same kind (socket_communicator's constructor,          *)
(* connect_all and accept_all).                                            *)
THEOREM ProcessesConnect == Spec => []ConnectionsSound
<1>1. Spec => []Inv
  BY InitSound, InvStays, PTL DEF Spec
<1>2. Inv => ConnectionsSound
  BY InvPairs
<1> QED BY <1>1, <1>2, PTL

(* The three phases of a run: the inductive invariant of that theorem.     *)
THEOREM AlwaysInPhase == Spec => []Inv
  BY InitSound, InvStays, PTL DEF Spec
=============================================================================
