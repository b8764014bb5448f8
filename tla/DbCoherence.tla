---------------------------- MODULE DbCoherence ----------------------------
(***************************************************************************)
(* The coherence protocol of one data block of the distributed runtime.    *)
(*                                                                         *)
(* Every node keeps a db object (struct synchro_data): its protocol state, *)
(* the local lock table and, on one node at a time, the copylist that      *)
(* names the nodes holding a read copy.  The owner (the node in the guid)  *)
(* serialises the moves of the master role.  A task (EDT) runs on its home *)
(* node, locks the block there in its access mode, and releases it when it *)
(* ends or calls ocrDbRelease.                                             *)
(*                                                                         *)
(* Each handler runs under the db's mutex, so it is one action.  It is     *)
(* written as a function from the node's record to a result holding the    *)
(* new record, the messages sent and the assertion that failed, if any.    *)
(*                                                                         *)
(* Messages: the sender thread delivers each sender stream in order; a     *)
(* handler sends on the node's own stream, a finishing task on the task's. *)
(* Streams of one node are not ordered against each other, because the     *)
(* sender may hold one back until a confirmation arrives.                  *)
(***************************************************************************)
EXTENDS Naturals, Sequences, FiniteSets

CONSTANTS
  Nodes,          \* the compute nodes
  Owner,          \* the node of the block's guid
  InitialMaster,  \* the node that created the block (Owner unless mapped)
  Tasks,          \* the EDTs that depend on the block; each runs once
  Home,           \* Home[t]: the node the task was created on
  Mode,           \* Mode[t]: "RO", "CONST", "RW" or "EW"
  Destroyers,     \* the tasks that may destroy the block when all are done
  NodeStream,     \* the stream of messages sent with no current task
  NoNode          \* owner_data.master == -1: the master role is moving

Modes == {"RO", "CONST", "RW", "EW"}

ASSUME NodesAssumption  == IsFiniteSet(Nodes)
ASSUME OwnerAssumption  == Owner \in Nodes /\ InitialMaster \in Nodes
ASSUME TaskAssumption   == Home \in [Tasks -> Nodes] /\ Mode \in [Tasks -> Modes]
ASSUME StreamAssumption == NodeStream \notin Tasks /\ NoNode \notin Nodes
(* mapped blocks cannot be destroyed (assertion in owner__destroy)         *)
ASSUME DestroyAssumption ==
  Destroyers \subseteq Tasks /\ (Destroyers # {} => InitialMaster = Owner)

(* The steps of a task: it gets the block between "waiting" and "running", *)
(* and may release it once its copies are invalidated ("notified").        *)
Progress == {"unsatisfied", "waiting", "running", "finishing", "notified", "done", "destroyer"}
Holding  == {"running", "finishing", "notified"}

VARIABLES
  db,        \* db[n]: the synchro_data of node n
  owner,     \* owner_data at Owner
  chan,      \* chan[n][s][d]: messages of n's stream s under way to d
  pc,        \* pc[t]: progress of task t
  aborted,   \* the assertion that stopped the program, or "none"
  written,   \* history: the tasks that have written the block
  released,  \* history: the writers whose release has taken effect
  needed,    \* history: needed[t]: released when t asked for the block
  view       \* history: view[t]: the contents t found when it got the block

history == <<written, released, needed>>
vars    == <<db, owner, chan, pc, aborted, history, view>>

Streams   == Tasks \cup {NodeStream}
Destroyed == "destroyed"                     \* master == -2
Masters   == Nodes \cup {NoNode, Destroyed}
(* The owner's two marks are no node ids and differ.                       *)
ASSUME MasterAssumption == Destroyed \notin Nodes \cup {NoNode}

Writers   == {t \in Tasks : Mode[t] \in {"RW", "EW"}}
Exclusive == {t \in Tasks : Mode[t] \in {"CONST", "EW"}}
(* A buffer's contents: the writers whose modifications it includes.       *)
NoBuffer  == {"no_buffer"}                   \* buf_ == 0

(* The sequence w without the elements of G (an erase loop).               *)
Without(w, G) ==
  LET kept[i \in 0..Len(w)] ==
        IF i = 0 THEN <<>>
        ELSE IF w[i] \in G THEN kept[i - 1] ELSE Append(kept[i - 1], w[i])
  IN  kept[Len(w)]

(***************************************************************************)
(* Results of handlers.                                                    *)
(***************************************************************************)
NoMessages == [d \in Nodes |-> <<>>]
Result(s)  == [s |-> s, out |-> NoMessages, err |-> "none"]

Send(r, D, m) ==
  [r EXCEPT !.out = [d \in Nodes |-> IF d \in D THEN Append(@[d], m) ELSE @[d]]]

(* The assertions of the handlers, as they appear below.                   *)
Assertions ==
  {"unlock_without_lock", "forgotten_waiter", "round_without_copies", "copylist_not_releasable",
   "release_by_nonmaster", "copy_asked_of_nonmaster", "data_asked_of_noncopy",
   "listed_without_a_copy", "copy_without_being_listed", "unexpected_master_data",
   "unexpected_copy_data", "unexpected_copy_receipt", "invalidation_of_noncopy",
   "unexpected_invalidation", "elevation_after_destroy", "target_is_not_first",
   "not_the_awaited_master"}

Expect(r, cond, name) ==
  IF cond \/ r.err # "none" THEN r ELSE [r EXCEPT !.err = name]

(***************************************************************************)
(* Local locks.                                                            *)
(***************************************************************************)
WriteLocked(s) == s.lockers \cap Writers # {}

(* Mutant: a writer is let in on a read copy.                              *)
AnyCopySuffices(s, t) == s.state # "invalid"

(* The node's copy is good enough for the task's mode.                     *)
Suffices(s, t) ==
  IF t \in Writers THEN s.state = "master" ELSE s.state # "invalid"

(* Mutant: CONST and EW are checked against the exclusive locks only.      *)
CompatibleIgnoringShared(s, t) == s.lockers \cap Exclusive = {}

(* The counters checked by try_lock for each mode.                         *)
Compatible(s, t) ==
  CASE Mode[t] = "EW"    -> s.lockers = {}
    [] Mode[t] = "CONST" -> \A u \in s.lockers : Mode[u] = "CONST"
    [] OTHER             -> s.lockers \cap Exclusive = {}

ElevationRequest(n, t) ==
  [type |-> "elevation_request", node |-> n,
   level |-> IF t \in Writers THEN "master" ELSE "copy"]

Enqueue(r, t) == [r EXCEPT !.s.waitlist = Append(@, t)]

(* Ask the owner for the state the task needs and wait.                    *)
RequestFor(n, r, t) == Enqueue(Send(r, {Owner}, ElevationRequest(n, t)), t)

TryLock(n, r, t) ==
  IF ~Suffices(r.s, t) THEN RequestFor(n, r, t)
  ELSE IF Compatible(r.s, t) THEN [r EXCEPT !.s.lockers = @ \cup {t}]
  ELSE Enqueue(r, t)

Waiting(s, M) == {i \in 1..Len(s.waitlist) : Mode[s.waitlist[i]] \in M}
First(I)      == CHOOSE i \in I : \A j \in I : i <= j

(* The entries I of the waitlist get the lock.                             *)
Grant(r, I) ==
  LET G == {r.s.waitlist[i] : i \in I}
  IN  [r EXCEPT !.s.lockers = @ \cup G, !.s.waitlist = Without(@, G)]

(* A failed retry: try_lock has sent a request and re-added the entry.     *)
Retry(n, r, t) == RequestFor(n, [r EXCEPT !.s.waitlist = Without(@, {t})], t)

(* grant_locks: one EW waiter if nobody holds a lock, else every CONST     *)
(* waiter if only CONST locks are held, else the RW and RO waiters in      *)
(* order; a waiter whose state is missing re-requests it and ends the scan.*)
GrantLocks(n, r) ==
  LET s       == r.s
      ew      == Waiting(s, {"EW"})
      const   == Waiting(s, {"CONST"})
      shared  == Waiting(s, {"RW", "RO"})
      lacking == {i \in shared : ~Suffices(s, s.waitlist[i])}
      task(I) == s.waitlist[First(I)]
  IN  IF s.lockers = {} /\ ew # {}
        THEN IF s.state = "master" THEN Grant(r, {First(ew)})
                                   ELSE Retry(n, r, task(ew))
      ELSE IF const # {} /\ \A u \in s.lockers : Mode[u] = "CONST"
        THEN IF s.state # "invalid" THEN Grant(r, const)
                                    ELSE Retry(n, r, task(const))
      ELSE IF s.lockers \cap Exclusive # {} THEN r
      ELSE IF lacking = {} THEN Grant(r, shared)
      ELSE Retry(n, Grant(r, {i \in shared : i < First(lacking)}), task(lacking))

(***************************************************************************)
(* The master's work: copies, invalidation rounds, release of the copylist.*)
(***************************************************************************)
CanProvideCopies(s) == s.pendingInvalidations = 0 /\ ~WriteLocked(s)

CopylistCanBeReleased(s) ==
  ~WriteLocked(s) /\ s.pendingCopies = 0 /\ s.pendingInvalidations = 0 /\ s.copyWaitlist = {}

(* Mutant: the copy is sent but not noted.                                 *)
ProvideUnnotedCopies(r, D) ==
  Send([r EXCEPT !.s.pendingCopies = @ + Cardinality(D)],
       D, [type |-> "data_copy", content |-> r.s.content])

(* Send a data copy to every node of D and note it in the copylist.        *)
ProvideCopies(r, D) ==
  Send([r EXCEPT !.s.pendingCopies = @ + Cardinality(D), !.s.copylist = @ \cup D],
       D, [type |-> "data_copy", content |-> r.s.content])

ReleaseCopylist(n, r) ==
  Send([r EXCEPT !.s.hasCopylist = FALSE, !.s.copylist = {}],
       {Owner}, [type |-> "copylist_released", copylist |-> r.s.copylist \cup {n}])

(* master__update_master_state: on becoming idle, serve the copy requests  *)
(* that were put off; an idle ex-master hands the copylist to the owner.   *)
UpdateMasterState(n, r) ==
  LET s     == r.s
      idle  == ~WriteLocked(s) /\ s.pendingInvalidations = 0
      r1    == IF idle /\ s.busy
                 THEN ProvideCopies([r EXCEPT !.s.copyWaitlist = {}], s.copyWaitlist \ s.copylist)
                 ELSE r
      r2    == IF idle /\ s.state = "copy" /\ r1.s.pendingCopies = 0
                 THEN ReleaseCopylist(n, Expect(r1, CopylistCanBeReleased(r1.s), "copylist_not_releasable"))
                 ELSE r1
  IN  IF s.state = "master" \/ (s.state = "copy" /\ s.hasCopylist)
        THEN [r2 EXCEPT !.s.busy = ~idle]
        ELSE r

(* Mutant: a round does not wait for the copies still being received.      *)
StartRoundEarly(r) ==
  LET D == r.s.copylist
  IN  IF r.s.waiters = {} \/ r.s.pendingInvalidations > 0 \/ D = {} THEN r
      ELSE Send([r EXCEPT !.s.pendingInvalidations = Cardinality(D), !.s.copylist = {}],
                D, [type |-> "invalidate_copy"])

(* master__try_start_invalidation_round: for finished writers, and only    *)
(* when no round is in flight and every copy sent has been received.       *)
TryStartRound(r) ==
  LET s == r.s
      D == s.copylist
  IN  IF s.waiters = {} \/ s.pendingInvalidations > 0 \/ s.pendingCopies > 0 THEN r
      ELSE Send([Expect(r, D # {}, "round_without_copies") EXCEPT
                   !.s.pendingInvalidations = Cardinality(D), !.s.copylist = {}],
                D, [type |-> "invalidate_copy"])

(* unlock: drop the lock, let the master continue, then grant.             *)
Unlock(n, r, t) ==
  LET r1 == [Expect(r, t \in r.s.lockers, "unlock_without_lock") EXCEPT !.s.lockers = @ \ {t}]
  IN  GrantLocks(n, UpdateMasterState(n, r1))

(***************************************************************************)
(* Handlers of a node's messages (r is the node's record on entry).        *)
(***************************************************************************)
HandleReleaseRequest(n, r) ==
  UpdateMasterState(n, [Expect(r, r.s.state = "master", "release_by_nonmaster")
                          EXCEPT !.s.state = "copy"])

HandleTransferToCopy(n, r0, target) ==
  LET r == Expect(r0, r0.s.hasCopylist, "copy_asked_of_nonmaster")
  IN  IF target \in r.s.copylist THEN r
      ELSE UpdateMasterState(n,
             IF CanProvideCopies(r.s) THEN ProvideCopies(r, {target})
             ELSE [r EXCEPT !.s.copyWaitlist = @ \cup {target}])

HandleTransferToNewMaster(r, target) ==
  Send(Expect(r, r.s.state = "copy" /\ ~r.s.hasCopylist, "data_asked_of_noncopy"),
       {target}, [type |-> "data", content |-> r.s.content])

(* copy__handle_will_be_master.  supplier stands for copylist.front().     *)
HandleTakeMaster(n, r0, list, supplier) ==
  LET r == [r0 EXCEPT !.s.hasCopylist = TRUE, !.s.copylist = list]
  IN  IF n \in list
        THEN GrantLocks(n, Send([Expect(r, r.s.state = "copy", "listed_without_a_copy")
                                   EXCEPT !.s.state = "master", !.s.copylist = @ \ {n}],
                                {Owner}, [type |-> "is_master"]))
        ELSE Send(Expect(r, r.s.state = "invalid" /\ list # {}, "copy_without_being_listed"),
                  {supplier}, [type |-> "transfer_data_to_new_master", node |-> n])

HandleData(n, r0, content) ==
  LET r == Expect(r0, r0.s.state = "invalid" /\ r0.s.hasCopylist /\ r0.s.content = NoBuffer,
                  "unexpected_master_data")
  IN  GrantLocks(n, Send([r EXCEPT !.s.content = content, !.s.state = "master"],
                         {Owner}, [type |-> "is_master"]))

(* Mutant: the tasks waiting for the copy are not granted it.              *)
HandleDataCopyNoGrant(n, r0, from, content) ==
  Send([r0 EXCEPT !.s.content = content, !.s.state = "copy"], {from}, [type |-> "copy_received"])

HandleDataCopy(n, r0, from, content) ==
  LET r == Expect(r0, r0.s.content = NoBuffer, "unexpected_copy_data")
  IN  GrantLocks(n, Send([r EXCEPT !.s.content = content, !.s.state = "copy"],
                         {from}, [type |-> "copy_received"]))

HandleCopyReceived(n, r0) ==
  LET r == [Expect(r0, r0.s.hasCopylist /\ r0.s.pendingCopies > 0, "unexpected_copy_receipt")
              EXCEPT !.s.pendingCopies = IF @ > 0 THEN @ - 1 ELSE 0]
  IN  IF r.s.pendingCopies = 0 THEN UpdateMasterState(n, TryStartRound(r)) ELSE r

HandleInvalidateCopy(r, from) ==
  Send([Expect(r, r.s.state = "copy", "invalidation_of_noncopy")
          EXCEPT !.s.state = "invalid", !.s.content = NoBuffer],
       {from}, [type |-> "copy_invalidated"])

(* The last acknowledgement ends the round and frees the finished writers. *)
HandleCopyInvalidated(n, r0) ==
  LET r == [Expect(r0, r0.s.hasCopylist /\ r0.s.pendingInvalidations > 0, "unexpected_invalidation")
              EXCEPT !.s.pendingInvalidations = IF @ > 0 THEN @ - 1 ELSE 0]
  IN  IF r.s.pendingInvalidations = 0
        THEN UpdateMasterState(n, [r EXCEPT !.s.waiters = {}])
        ELSE r

(***************************************************************************)
(* Handlers of the owner (o is owner_data; the result holds it as s).      *)
(***************************************************************************)
(* Mutant: the target is cleared instead of the master.                    *)
OwnerElevationClearsTarget(o, node, level) ==
  IF level # "master" \/ o.masterWaitlist # <<>> THEN Result(o)
  ELSE Send([Result(o) EXCEPT !.s.masterWaitlist = <<node>>, !.s.target = NoNode],
            {o.master}, [type |-> "release_master_request"])

OwnerElevation(o, node, level) ==
  LET r == Expect(Result(o), o.target # Destroyed, "elevation_after_destroy")
  IN  IF level = "master"
        THEN IF o.masterWaitlist = <<>>
               THEN Send([r EXCEPT !.s.target = node, !.s.masterWaitlist = <<node>>,
                                   !.s.master = NoNode],
                         {o.master}, [type |-> "release_master_request"])
               ELSE IF o.masterWaitlist[Len(o.masterWaitlist)] = node THEN r
               ELSE [r EXCEPT !.s.masterWaitlist = Append(@, node)]
      ELSE IF node = o.master THEN r
      ELSE IF o.target = o.master
        THEN Send(r, {o.master}, [type |-> "transfer_data_to_copy", node |-> node])
        ELSE [r EXCEPT !.s.copyWaitlist = Append(@, node)]

OwnerMasterReleased(o, list) ==
  IF o.target = Destroyed
    THEN Send([Result(o) EXCEPT !.s.master = Destroyed], list, [type |-> "invalidate_copy"])
    ELSE Send(Expect(Result(o), o.target = Head(o.masterWaitlist), "target_is_not_first"),
              {o.target}, [type |-> "take_master", copylist |-> list])

OwnerNewMasterReady(o, from) ==
  LET awaited == o.masterWaitlist # <<>> /\ o.target = Head(o.masterWaitlist) /\ from = o.target
      copies  == Without(o.copyWaitlist, {o.target})
      toCopy  == [i \in 1..Len(copies) |-> [type |-> "transfer_data_to_copy", node |-> copies[i]]]
      rest    == Tail(o.masterWaitlist)
      r       == [Result([o EXCEPT !.masterWaitlist = rest, !.copyWaitlist = <<>>,
                                   !.master = from])
                    EXCEPT !.out[from] = toCopy]
  IN  IF ~awaited THEN Expect(Result(o), FALSE, "not_the_awaited_master")
      ELSE IF rest = <<>> THEN r
      ELSE Send([r EXCEPT !.s.target = Head(rest), !.s.master = NoNode],
                {from}, [type |-> "release_master_request"])

-----------------------------------------------------------------------------
Invalid == [state |-> "invalid", hasCopylist |-> FALSE, copylist |-> {}, busy |-> FALSE,
            pendingCopies |-> 0, pendingInvalidations |-> 0, copyWaitlist |-> {},
            waiters |-> {}, lockers |-> {}, waitlist |-> <<>>, content |-> NoBuffer]

Init ==
  /\ db = [n \in Nodes |-> IF n # InitialMaster THEN Invalid
             ELSE [Invalid EXCEPT !.state = "master", !.hasCopylist = TRUE, !.content = {}]]
  /\ owner = [master |-> InitialMaster, target |-> InitialMaster,
              masterWaitlist |-> <<>>, copyWaitlist |-> <<>>]
  /\ chan = [n \in Nodes |-> [s \in Streams |-> NoMessages]]
  /\ pc = [t \in Tasks |-> "unsatisfied"]
  /\ aborted = "none"
  /\ written = {} /\ released = {}
  /\ needed = [t \in Tasks |-> {}]
  /\ view = [t \in Tasks |-> {}]

(* Append a handler's messages to the channels of its stream.              *)
Post(c, n, s, out) == [c EXCEPT ![n][s] = [d \in Nodes |-> @[d] \o out[d]]]

(* Node n takes the result r of a handler: the tasks that got the lock run *)
(* and the writers freed by a round can release.                           *)
Install(n, r, p) ==
  /\ db' = [db EXCEPT ![n] = r.s]
  /\ aborted' = r.err
  /\ pc' = [t \in Tasks |->
              IF t \in r.s.lockers \ db[n].lockers THEN "running"
              ELSE IF t \in db[n].waiters \ r.s.waiters THEN "notified"
              ELSE p[t]]
  /\ view' = [t \in Tasks |->
                IF t \in r.s.lockers \ db[n].lockers THEN r.s.content ELSE view[t]]

-----------------------------------------------------------------------------
(* All preslots of t are satisfied: it tries to lock the block at home.    *)
Satisfy(t) ==
  LET n == Home[t]
      r == TryLock(n, Result(db[n]), t)
  IN  /\ aborted = "none" /\ pc[t] = "unsatisfied"
      /\ Install(n, r, [pc EXCEPT ![t] = "waiting"])
      /\ chan' = Post(chan, n, NodeStream, r.out)
      /\ needed' = [needed EXCEPT ![t] = released]
      /\ UNCHANGED <<owner, written, released>>

(* A running writer modifies the node's buffer in place.                   *)
Write(t) ==
  /\ aborted = "none" /\ pc[t] = "running" /\ t \in Writers \ written
  /\ db' = [db EXCEPT ![Home[t]].content = @ \cup {t}]
  /\ written' = written \cup {t}
  /\ UNCHANGED <<owner, chan, pc, aborted, released, needed, view>>

(* The task ends or releases early.  A reader has nothing to publish; a    *)
(* writer waits for the copies it left to be invalidated.                  *)
Finish(t) ==
  LET n  == Home[t]
      s  == db[n]
      mustWait == /\ s.hasCopylist
                  /\ s.copylist # {} \/ s.pendingInvalidations > 0 \/ s.pendingCopies > 0
      r  == IF t \notin Writers \/ ~s.hasCopylist THEN Result(s)
            ELSE IF mustWait
              THEN UpdateMasterState(n, TryStartRound([Result(s) EXCEPT !.s.waiters = @ \cup {t}]))
              ELSE UpdateMasterState(n, Expect(Result(s), s.waiters = {}, "forgotten_waiter"))
  IN  /\ aborted = "none" /\ pc[t] = "running"
      /\ t \notin Writers \ written
      /\ Install(n, r, [pc EXCEPT ![t] = IF t \in Writers /\ mustWait THEN "finishing" ELSE "notified"])
      /\ chan' = Post(chan, n, t, r.out)
      /\ UNCHANGED <<owner, history>>

(* release_all / release_db_early: the lock is given up.  From here on     *)
(* the task's completion may satisfy other tasks anywhere.                 *)
Release(t) ==
  LET n == Home[t]
      r == Unlock(n, Result(db[n]), t)
  IN  /\ aborted = "none" /\ pc[t] = "notified"
      /\ Install(n, r, [pc EXCEPT ![t] = "done"])
      /\ chan' = Post(chan, n, t, r.out)
      /\ released' = released \cup ({t} \cap Writers)
      /\ UNCHANGED <<owner, written, needed>>

(* Once every task is done with the block, one of them destroys it.        *)
Destroy(t) ==
  /\ aborted = "none" /\ t \in Destroyers
  /\ \A u \in Tasks : pc[u] = "done"
  /\ pc' = [pc EXCEPT ![t] = "destroyer"]
  /\ chan' = [chan EXCEPT ![Home[t]][t][Owner] = Append(@, [type |-> "db_destroy"])]
  /\ UNCHANGED <<db, owner, aborted, history, view>>

-----------------------------------------------------------------------------
(* process_command at node d: the first message of a stream is handled.    *)
Pop(n, s, d)     == [chan EXCEPT ![n][s][d] = Tail(@)]
Pending(n, s, d) == aborted = "none" /\ chan[n][s][d] # <<>>

ToOwner == {"elevation_request", "copylist_released", "is_master", "db_destroy"}

OwnerResult(m, from) ==
  CASE m.type = "elevation_request" -> OwnerElevation(owner, m.node, m.level)
    [] m.type = "db_destroy"        -> OwnerElevation(owner, Destroyed, "master")
    [] m.type = "copylist_released" -> OwnerMasterReleased(owner, m.copylist)
    [] m.type = "is_master"         -> OwnerNewMasterReady(owner, from)

DeliverToOwner(n, s) ==
  /\ Pending(n, s, Owner)
  /\ LET m == Head(chan[n][s][Owner])
         r == OwnerResult(m, n)
     IN  /\ m.type \in ToOwner
         /\ owner' = r.s
         /\ aborted' = r.err
         /\ chan' = Post(Pop(n, s, Owner), Owner, NodeStream, r.out)
         /\ UNCHANGED <<db, pc, history, view>>

NodeResult(d, m, from, supplier) ==
  LET r == Result(db[d])
  IN  CASE m.type = "release_master_request"      -> HandleReleaseRequest(d, r)
        [] m.type = "transfer_data_to_copy"       -> HandleTransferToCopy(d, r, m.node)
        [] m.type = "transfer_data_to_new_master" -> HandleTransferToNewMaster(r, m.node)
        [] m.type = "take_master"                 -> HandleTakeMaster(d, r, m.copylist, supplier)
        [] m.type = "data"                        -> HandleData(d, r, m.content)
        [] m.type = "data_copy"                   -> HandleDataCopy(d, r, from, m.content)
        [] m.type = "copy_received"               -> HandleCopyReceived(d, r)
        [] m.type = "invalidate_copy"             -> HandleInvalidateCopy(r, from)
        [] m.type = "copy_invalidated"            ->
             IF d = Owner /\ owner.master = Destroyed THEN r ELSE HandleCopyInvalidated(d, r)

(* The front of the copylist vector is some listed node.                   *)
Suppliers(d, m) ==
  IF m.type = "take_master" /\ d \notin m.copylist THEN m.copylist ELSE {d}

DeliverToNode(n, s, d) ==
  /\ Pending(n, s, d)
  /\ LET m == Head(chan[n][s][d])
     IN  /\ m.type \notin ToOwner
         /\ \E supplier \in Suppliers(d, m) :
              LET r == NodeResult(d, m, n, supplier)
              IN  /\ Install(d, r, pc)
                  /\ chan' = Post(Pop(n, s, d), d, NodeStream, r.out)
         /\ UNCHANGED <<owner, history>>

(* Every task has run and nothing is under way (or an assertion stopped    *)
(* the program).                                                           *)
Quiet == \A n \in Nodes, s \in Streams, d \in Nodes : chan[n][s][d] = <<>>

Terminated ==
  /\ \/ aborted # "none"
     \/ Quiet /\ \A t \in Tasks : pc[t] \in {"done", "destroyer"}
  /\ UNCHANGED vars

TaskStep(t) == Satisfy(t) \/ Write(t) \/ Finish(t) \/ Release(t)

(* Node d handles one of the messages that have arrived.                   *)
Receive(d) ==
  \E n \in Nodes, s \in Streams :
    DeliverToNode(n, s, d) \/ (d = Owner /\ DeliverToOwner(n, s))

Next ==
  \/ \E t \in Tasks : TaskStep(t) \/ Destroy(t)
  \/ \E d \in Nodes : Receive(d)
  \/ Terminated

Spec == Init /\ [][Next]_vars

(* User code ends and message threads keep running, so the system does not *)
(* stop while some task or some handler can go on.  That much is enough.   *)
Fairness == WF_vars((\E t \in Tasks : TaskStep(t)) \/ \E d \in Nodes : Receive(d))

FairSpec == Spec /\ Fairness

-----------------------------------------------------------------------------
(***************************************************************************)
(* Properties.                                                             *)
(***************************************************************************)
Messages ==
  [type : {"elevation_request"}, node : Nodes, level : {"master", "copy"}]
    \cup [type : {"copylist_released", "take_master"}, copylist : SUBSET Nodes]
    \cup [type : {"transfer_data_to_copy", "transfer_data_to_new_master"}, node : Nodes]
    \cup [type : {"data", "data_copy"}, content : SUBSET (Writers \cup NoBuffer)]
    \cup [type : {"release_master_request", "copy_received", "is_master", "invalidate_copy",
                  "copy_invalidated", "db_destroy"}]

DbRecord ==
  [state : {"invalid", "copy", "master"}, hasCopylist : BOOLEAN, copylist : SUBSET Nodes,
   busy : BOOLEAN, pendingCopies : Nat, pendingInvalidations : Nat, copyWaitlist : SUBSET Nodes,
   waiters : SUBSET Tasks, lockers : SUBSET Tasks, waitlist : Seq(Tasks),
   content : SUBSET (Writers \cup NoBuffer)]

OwnerRecord ==
  [master : Masters, target : Nodes \cup {Destroyed},
   masterWaitlist : Seq(Nodes \cup {Destroyed}), copyWaitlist : Seq(Nodes)]

(* Every variable keeps to its domain.                                     *)
TypeOK ==
  /\ db \in [Nodes -> DbRecord]
  /\ owner \in OwnerRecord
  /\ chan \in [Nodes -> [Streams -> [Nodes -> Seq(Messages)]]]
  /\ pc \in [Tasks -> Progress]
  /\ aborted \in {"none"} \cup Assertions
  /\ written \subseteq Writers /\ released \subseteq Writers
  /\ needed \in [Tasks -> SUBSET Writers]
  /\ view \in [Tasks -> SUBSET (Writers \cup NoBuffer)]

(* No assertion of the protocol's handlers fails, except the one of        *)
(* owner__request_elevation: "the DB must not have been destroyed". That   *)
(* one can fail: try_lock sends a request per waiting reader, the copy that*)
(* answers the first lets them all finish, and the second request may reach*)
(* the owner after the destruction.                                        *)
OnlyLateElevationAborts == aborted \in {"none", "elevation_after_destroy"}

(* When the block has been destroyed and every message has arrived, no node*)
(* keeps a copy of it.                                                     *)
DestroyReachesEveryCopy ==
  owner.master = Destroyed /\ Quiet /\ aborted = "none"
    => \A n \in Nodes : db[n].state = "invalid" /\ ~db[n].hasCopylist

(* The tasks holding the block on a node may hold it together: EW excludes *)
(* everyone, CONST excludes every other mode, and exactly the tasks between*)
(* grant and release are counted.                                          *)
LocksCompatible ==
  /\ \A n \in Nodes : \A t, u \in db[n].lockers :
       t # u => /\ Mode[t] # "EW"
                /\ Mode[t] = "CONST" => Mode[u] = "CONST"
  /\ \A t \in Tasks : pc[t] \in Holding <=> t \in db[Home[t]].lockers

(* All tasks that may modify the block at one time are on one node, the    *)
(* node that holds the copylist.                                           *)
WritersOnOneNode ==
  \A n \in Nodes : WriteLocked(db[n]) =>
    /\ db[n].hasCopylist /\ db[n].state # "invalid"
    /\ \A k \in Nodes \ {n} : ~WriteLocked(db[k]) /\ ~db[k].hasCopylist

(* The messages of a type that are under way, by sender, stream, receiver  *)
(* and place in the stream.                                                *)
Message(x) == chan[x[1]][x[2]][x[3]][x[4]]
InFlight(type) ==
  {x \in UNION {{<<n, s, d, i>> : i \in DOMAIN chan[n][s][d]} :
                  n \in Nodes, s \in Streams, d \in Nodes} : Message(x).type = type}

(* The copylist is a token: it is at one node or in one message, and gone  *)
(* only once the block is destroyed.                                       *)
OneCopylist ==
  Cardinality({n \in Nodes : db[n].hasCopylist}) + Cardinality(InFlight("copylist_released"))
    + Cardinality(InFlight("take_master")) = (IF owner.master = Destroyed THEN 0 ELSE 1)

(* Whoever holds a read copy is on the copylist, or its invalidation or its*)
(* data is on the way to or from it: no copy is forgotten.                 *)
CopiesTracked ==
  \A n \in Nodes : db[n].state = "copy" /\ ~db[n].hasCopylist =>
    \/ \E k \in Nodes : db[k].hasCopylist /\ n \in db[k].copylist
    \/ \E x \in InFlight("copylist_released") \cup InFlight("take_master") :
         n \in Message(x).copylist
    \/ \E x \in InFlight("invalidate_copy") : x[3] = n

(* The master's buffer holds every write ever made: no move of the master  *)
(* role loses one.                                                         *)
NoLostWrites == \A n \in Nodes : db[n].state = "master" => db[n].content = written

(* A write whose writer has released is in every buffer a task may read.   *)
ReleasedWritesVisible ==
  \A n \in Nodes : db[n].state # "invalid" => released \subseteq db[n].content

(* The copies of the block stay coherent while the master role, the        *)
(* copylist and the buffers move: one node writes, every copy is known to  *)
(* whoever must invalidate it, no write is lost, and a destroyed block     *)
(* leaves nothing behind.                                                  *)
Coherence ==
  /\ WritersOnOneNode
  /\ OneCopylist
  /\ CopiesTracked
  /\ NoLostWrites
  /\ ReleasedWritesVisible
  /\ DestroyReachesEveryCopy

(* What the block promises its tasks (DbPromise): locks that exclude each  *)
(* other, writers on one node that see every write, readers that see every *)
(* write released before they were ready, on whatever node they run.       *)
Phase(t) ==
  CASE pc[t] = "unsatisfied"            -> "idle"
    [] pc[t] \in Holding               -> "holding"
    [] pc[t] \in {"done", "destroyer"} -> "done"
    [] OTHER                            -> "waiting"
Promise == INSTANCE DbPromise WITH phase <- [t \in Tasks |-> Phase(t)]
ImplementsPromise == Promise!Spec

(* Every task eventually gets the block and is done with it.               *)
EveryTaskCompletes == <>(\A t \in Tasks : pc[t] = "done")
=============================================================================
