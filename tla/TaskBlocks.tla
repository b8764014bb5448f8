------------------------------ MODULE TaskBlocks ------------------------------
(***************************************************************************)
(* The tasks of one node of the distributed runtime, and the data blocks   *)
(* they use: in which order and in which mode a task acquires the blocks   *)
(* of its slots, what it may do with them while it runs (release one       *)
(* early, group operations, give one away by value), and how it releases   *)
(* the rest when it ends.                                                  *)
(*                                                                         *)
(* DbCoherence models the protocol between the nodes for a single block.   *)
(* Here the other nodes are the environment of the node: they ask for      *)
(* copies and for the master copy, and answer this node's requests.        *)
(*                                                                         *)
(* A task locks one block at a time.  In the code a task that is granted a *)
(* block goes on locking under the mutex of that block; here that is a     *)
(* step of its own, which allows more interleavings.                       *)
(***************************************************************************)
EXTENDS Integers, Sequences, FiniteSets

CONSTANTS
  Tasks,
  Blocks,      \* the guids: their order is the order of locking
  Slots,       \* Slots[t]: the [data, mode] of the slots of t; data may be Null
  Body,        \* Body[t]: the calls t makes: [op, db]
  Remote,      \* the blocks whose master is another node
  Copied,      \* the blocks another node has a copy of
  Asks,        \* BOUND: the copies of a block another node asks for
  Moves,       \* BOUND: how often another node asks for the master of a block
  Pauses,      \* BOUND: how often the runtime is paused
  Null

Modes == {"NULL", "RO", "RW", "CONST", "EW"}
Calls == [op : {"begin", "end", "ending", "value", "release", "destroy"}, db : Blocks \cup {Null}]

ASSUME TaskBlocksAssumption ==
  /\ IsFiniteSet(Tasks) /\ Blocks \subseteq Nat /\ IsFiniteSet(Blocks) /\ Null \notin Blocks
  /\ Remote \cup Copied \subseteq Blocks /\ Remote \cap Copied = {}
  /\ Asks \in Nat /\ Moves \in Nat /\ Pauses \in Nat
  /\ Slots \in [Tasks -> Seq([data : Blocks \cup {Null}, mode : Modes])]
  /\ Body \in [Tasks -> Seq(Calls)]

VARIABLES
  task,        \* task[t]: see NewTask
  block,       \* block[b]: see NewBlock
  paused,      \* is_paused_
  pauses, asked, moved,   \* the counters of the bounds
  unseen,      \* history: unseen[b]: who wrote b after the copy outside was made
  faults       \* the assertions that have failed

vars == <<task, block, paused, pauses, asked, moved, unseen, faults>>

-----------------------------------------------------------------------------
(***************************************************************************)
(* Modes.                                                                  *)
(***************************************************************************)
ModeOrder == <<"NULL", "RO", "RW", "CONST", "EW">>
Rank(m)   == CHOOSE i \in DOMAIN ModeOrder : ModeOrder[i] = m
Writes(m) == m \in {"RW", "EW"}

(* Reading that must not see changes and writing add up to exclusive use.  *)
CombineModes(m1, m2) ==
  IF {m1, m2} = {"RW", "CONST"} THEN "EW" ELSE IF Rank(m1) > Rank(m2) THEN m1 ELSE m2

(* The modes M combined one by one, in any order.                          *)
CombinedByOrder(M) ==          \* Mutant: the strongest of them.
  IF M = {} THEN "NULL" ELSE CHOOSE m \in M : \A n \in M : Rank(n) <= Rank(m)
Combined(M) ==
  IF {"RW", "CONST"} \subseteq M THEN "EW"
  ELSE IF M = {} THEN "NULL" ELSE CHOOSE m \in M : \A n \in M : Rank(n) <= Rank(m)

(* order_preslots: every block that some slot needs, in the order of the   *)
(* guids, in the combined mode of its slots.                               *)
SlotsOn(t, b)   == {i \in DOMAIN Slots[t] : Slots[t][i].data = b}
SlotModes(t, b) == {Slots[t][i].mode : i \in SlotsOn(t, b)}
Needed(t)       == {b \in Blocks : SlotModes(t, b) \ {"NULL"} # {}}
LockMode(t, b)  == Combined(SlotModes(t, b))
Sorted(I)       == CHOOSE s \in [1..Cardinality(I) -> I] : \A i, j \in DOMAIN s : i < j => s[i] < s[j]
OrderedBySlot(t) ==            \* Mutant: in the order of the slots.
  LET slots == Sorted({CHOOSE i \in SlotsOn(t, b) : \A j \in SlotsOn(t, b) : i <= j : b \in Needed(t)})
  IN [i \in DOMAIN slots |-> Slots[t][slots[i]].data]
OrderedGuids(t) == Sorted(Needed(t))

-----------------------------------------------------------------------------
(***************************************************************************)
(* What the code asserts of the calls of a task: groups are closed and not *)
(* nested; a block given by value is one of the task's own, and not        *)
(* released before, except by a call in the same group.                    *)
(***************************************************************************)
Bracket(c)      == c.op \in {"begin", "end"}
Gives(c, b)     == c.op = "value" /\ c.db = b
Drops(c, b)     == c.op \in {"release", "destroy"} /\ c.db = b
NoneIn(s, i, j) == \A k \in i..j : ~Bracket(s[k])
Inside(s, g, i) ==      \* s[i] is in a group; g: s begins in one
  \/ g /\ NoneIn(s, 1, i - 1)
  \/ \E k \in 1..(i - 1) : s[k].op = "begin" /\ NoneIn(s, k + 1, i - 1)
Bracketed(s, g) ==
  /\ \A i \in DOMAIN s : s[i].op = "begin" => \E j \in DOMAIN s : i < j /\ s[j].op = "end" /\ NoneIn(s, i + 1, j - 1)
  /\ \A j \in DOMAIN s : s[j].op = "end" => Inside(s, g, j)
  /\ g => \E j \in DOMAIN s : s[j].op = "end" /\ NoneIn(s, 1, j - 1)
DroppedLast(s, g) ==
  \A b \in Blocks : \A i, j \in DOMAIN s : i < j /\ Drops(s[i], b) /\ Gives(s[j], b) =>
    Inside(s, g, i) /\ \A k \in i..j : s[k].op # "end"

ASSUME ProgramAssumption == \A t \in Tasks :
  /\ Bracketed(Body[t], FALSE) /\ DroppedLast(Body[t], FALSE)
  /\ \A i \in DOMAIN Body[t] :
       /\ Body[t][i].op # "ending"
       /\ Body[t][i].op \in {"value", "release", "destroy"} => Body[t][i].db \in Blocks
       /\ Body[t][i].op = "value" => Body[t][i].db \in Needed(t)

-----------------------------------------------------------------------------
(***************************************************************************)
(* The lock of a block, and its copy outside (one other node asks for it). *)
(***************************************************************************)
NewBlock(b) ==
  [read |-> 0, write |-> 0, excl |-> 0, exwrite |-> FALSE,   \* the locks held
   waitlist |-> <<>>,                      \* the [task, mode] that wait for one
   valid    |-> IF b \in Remote THEN "invalid" ELSE "master",  \* state
   asked    |-> {},                        \* the elevations requested
   listed   |-> b \notin Remote,           \* has_copylist
   copy     |-> IF b \in Copied THEN "held" ELSE "none",
              \* none; sent: pending_copies = 1; held: in the copylist;
              \* recalled: pending_invalidations = 1
   wanted   |-> FALSE,                     \* copy_waitlist
   waiters  |-> {},                        \* tasks_waiting_for_invalidation
   gates    |-> {},                        \* release_waiters
   told     |-> {}]                        \* tasks: those whose wait is over

Writing(k)    == k.write > 0 \/ k.exwrite
Free(k)       == k.read = 0 /\ k.write = 0 /\ k.excl = 0
Valid(k, m)   == IF Writes(m) THEN k.valid = "master" ELSE k.valid # "invalid"
Admits(k, m)  ==
  CASE m \in {"RW", "RO"} -> k.excl = 0
    [] m = "CONST"        -> k.read = 0 /\ k.write = 0 /\ ~k.exwrite
    [] m = "EW"           -> Free(k)
Locked(k, m)  ==
  CASE m = "RW"    -> [k EXCEPT !.write = @ + 1]
    [] m = "RO"    -> [k EXCEPT !.read = @ + 1]
    [] m = "CONST" -> [k EXCEPT !.excl = @ + 1]
    [] m = "EW"    -> [k EXCEPT !.excl = @ + 1, !.exwrite = TRUE]
Unlocked(k, m) ==
  CASE m = "RW"    -> [k EXCEPT !.write = @ - 1]
    [] m = "RO"    -> [k EXCEPT !.read = @ - 1]
    [] m = "CONST" -> [k EXCEPT !.excl = @ - 1]
    [] m = "EW"    -> [k EXCEPT !.excl = @ - 1, !.exwrite = FALSE]
Held(k, m) ==
  CASE m = "RW" -> k.write > 0 [] m = "RO" -> k.read > 0
    [] m = "CONST" -> k.excl > 0 [] m = "EW" -> k.excl > 0 /\ k.exwrite

Queued(k, x)  == [k EXCEPT !.waitlist = Append(@, x)]
Request(k, m) == [k EXCEPT !.asked = @ \cup {IF Writes(m) THEN "master" ELSE "copy"}]

(* try_lock: without a copy that is good enough the node asks for one.     *)
TryLock(k, t, m) ==
  LET x == [task |-> t, mode |-> m] IN
  IF ~Valid(k, m) THEN [block |-> Queued(Request(k, m), x), to |-> {}]
  ELSE IF Admits(k, m) THEN [block |-> Locked(k, m), to |-> {t}]
  ELSE [block |-> Queued(k, x), to |-> {}]

(* grant_locks.  If nobody holds a lock, the first EW waiter; if only      *)
(* CONST locks are held, every CONST waiter; else RW and RO waiters.       *)
Waiting(k, S) == {i \in DOMAIN k.waitlist : k.waitlist[i].mode \in S}
First(I)      == {i \in I : \A j \in I : i <= j}
Without(k, I) == LET rest == Sorted(DOMAIN k.waitlist \ I) IN
                 [k EXCEPT !.waitlist = [n \in DOMAIN rest |-> k.waitlist[rest[n]]]]
LockedAll(k, I) ==      \* the locks of the entries I of the waitlist
  [k EXCEPT !.read    = @ + Cardinality(I \cap Waiting(k, {"RO"})),
            !.write   = @ + Cardinality(I \cap Waiting(k, {"RW"})),
            !.excl    = @ + Cardinality(I \cap Waiting(k, {"CONST", "EW"})),
            !.exwrite = @ \/ I \cap Waiting(k, {"EW"}) # {}]
Granting(k, I) ==       \* grants I in turn, up to the first that the copy is not good for
  LET bad  == First({i \in I : ~Valid(k, k.waitlist[i].mode)})
      good == {i \in I : \A j \in bad : i < j}
      kk   == Without(LockedAll(k, good), good \cup bad)
      x    == k.waitlist[CHOOSE i \in bad : TRUE]
  IN [block |-> IF bad = {} THEN kk ELSE Queued(Request(kk, x.mode), x),
      to    |-> {k.waitlist[i].task : i \in good}]
Grant(k) ==
  LET ew == Waiting(k, {"EW"})
      co == Waiting(k, {"CONST"})
      sh == Waiting(k, {"RW", "RO"})
  IN IF Free(k) /\ ew # {} THEN Granting(k, First(ew))
     ELSE IF k.read = 0 /\ k.write = 0 /\ ~k.exwrite /\ co # {} THEN Granting(k, co)
     ELSE IF k.excl = 0 THEN Granting(k, sh)
     ELSE [block |-> k, to |-> {}]

(* master__update_master_state.                                            *)
Updated(k) ==
  LET idle == k.listed /\ ~Writing(k) /\ k.copy # "recalled"
      k1   == IF idle /\ k.wanted
              THEN [k EXCEPT !.wanted = FALSE, !.copy = IF @ = "none" THEN "sent" ELSE @] ELSE k
  IN IF idle /\ k1.valid = "copy" /\ k1.copy # "sent"
     THEN [k1 EXCEPT !.listed = FALSE, !.copy = "none"] ELSE k1

(* master__try_start_invalidation_round.                                   *)
TryRound(k) ==
  IF k.waiters \cup k.gates # {} /\ k.copy = "held" THEN [k EXCEPT !.copy = "recalled"] ELSE k

(* master__handle_writer_finished: a copy outside has to be recalled first. *)
UnconfirmedIgnored(k) == k.listed /\ k.copy \in {"held", "recalled"}   \* Mutant: not pending_copies.
MustRecall(k) == k.listed /\ k.copy # "none"
Registered(k, t, gate) ==
  Updated(TryRound(IF gate THEN [k EXCEPT !.gates = @ \cup {t}] ELSE [k EXCEPT !.waiters = @ \cup {t}]))

-----------------------------------------------------------------------------
(***************************************************************************)
(* Tasks.                                                                  *)
(***************************************************************************)
Env == <<paused, pauses, asked, moved>>

NoGroup == [values |-> 0, ends |-> "none"]
NewTask ==
  [state    |-> "created",    \* created, locking, spawned, aside, running, done, releasing, ended
   ordered  |-> <<>>,         \* ordered_guids_, Null where released early
   modes    |-> <<>>,         \* lock_modes_
   acquired |-> 0,            \* acquired_data_count_
   trying   |-> FALSE,        \* it goes on locking
   reading  |-> FALSE,        \* it has locked the next block, and has no handle yet
   rest     |-> {},           \* the indices a loop over ordered_guids_ has still to visit
   blank    |-> {},           \* the blocks whose handle was empty
   torn     |-> {},           \* history: the blocks invalidated while it was reading
   todo     |-> <<>>,         \* the calls it has still to make
   gate     |-> "none",       \* its release gate: none, shut, open
   cut      |-> FALSE,        \* history: it left a gate that was shut
   grouped  |-> FALSE,        \* in_group_
   groups   |-> [b \in Blocks |-> NoGroup]]   \* groups_

Owns(o, b)  == \E i \in DOMAIN o.ordered : o.ordered[i] = b
Index(o, b) == CHOOSE i \in DOMAIN o.ordered : o.ordered[i] = b
Mode(o, b)  == o.modes[Index(o, b)]
Kept(o)     == {i \in DOMAIN o.ordered : o.ordered[i] # Null}

Failed(ok, what) == IF ok THEN {} ELSE {what}

(* A task takes the handle of the block it has locked: it may be empty.    *)
Given(o, b, k) == [o EXCEPT !.acquired = @ + 1, !.trying = TRUE, !.reading = FALSE,
                            !.blank = IF k.valid = "invalid" THEN @ \cup {b} ELSE @]

(* handle_block_acquired: tasks are granted the block they wait for.       *)
Awaits(o, b)  == o.acquired < Len(o.ordered) /\ o.ordered[o.acquired + 1] = b
Granted(b, r)  == [u \in Tasks |-> IF u \in r.to THEN Given(task[u], b, r.block) ELSE task[u]]
InOrder(b, r)  == Failed(\A u \in r.to : Awaits(task[u], b), "handle_block_acquired")

(* t unlocks b, and becomes o.                                             *)
UnlockBlock(t, b, o, failed) ==
  LET m == Mode(task[t], b)
      r == Grant(Updated(Unlocked(block[b], m)))
  IN /\ block' = [block EXCEPT ![b] = r.block]
     /\ task' = [Granted(b, r) EXCEPT ![t] = o]
     /\ faults' = faults \cup failed \cup Failed(Held(block[b], m), "unlock") \cup InOrder(b, r)

(* handle_remote_updated: one block less; after the last one, the end.     *)
RemoteUpdated(o) ==
  IF o.acquired = 1 THEN [o EXCEPT !.acquired = 0, !.state = "releasing", !.rest = Kept(o)]
  ELSE [o EXCEPT !.acquired = @ - 1]
Counted(o) == Failed(o.acquired > 0, "handle_remote_updated")

-----------------------------------------------------------------------------
(***************************************************************************)
(* Acquiring.                                                              *)
(***************************************************************************)
(* satisfy_preslot: the last slot of t is satisfied.                       *)
Satisfied(t) ==
  /\ task[t].state = "created" /\ ~paused
  /\ LET bs == OrderedGuids(t) IN
     task' = [task EXCEPT ![t].state = "locking", ![t].ordered = bs, ![t].trying = TRUE,
                          ![t].modes = [i \in DOMAIN bs |-> LockMode(t, bs[i])]]
  /\ UNCHANGED <<block, Env, unseen, faults>>

(* try_acquire_all.  The handle is read after the mutex of the block, which *)
(* held the lock together with the state, has been let go.                 *)
TryNext(t) ==
  /\ task[t].trying /\ task[t].acquired < Len(task[t].ordered)
  /\ LET o == task[t]
         i == o.acquired + 1
         r == TryLock(block[o.ordered[i]], t, o.modes[i])
     IN /\ block' = [block EXCEPT ![o.ordered[i]] = r.block]
        /\ task' = [task EXCEPT ![t].trying = FALSE, ![t].reading = t \in r.to]
  /\ UNCHANGED <<Env, unseen, faults>>
ReadHandle(t) ==
  /\ task[t].reading
  /\ LET b == task[t].ordered[task[t].acquired + 1] IN task' = [task EXCEPT ![t] = Given(@, b, block[b])]
  /\ UNCHANGED <<block, Env, unseen, faults>>

(* handle_all_acquired, spawn: a paused node puts the task aside.          *)
Spawn(t) ==
  /\ task[t].trying /\ task[t].acquired = Len(task[t].ordered)
  /\ task' = [task EXCEPT ![t].trying = FALSE, ![t].state = IF paused THEN "aside" ELSE "spawned"]
  /\ UNCHANGED <<block, Env, unseen, faults>>

Start(t) ==
  /\ task[t].state = "spawned"
  /\ task' = [task EXCEPT ![t].state = "running", ![t].todo = Body[t],
                          ![t].acquired = Len(task[t].ordered) + 1]
  /\ UNCHANGED <<block, Env, unseen, faults>>

-----------------------------------------------------------------------------
(***************************************************************************)
(* The calls of a running task.                                            *)
(***************************************************************************)
Op(x, b)  == [op |-> x, db |-> b]

(* What group_end does for a block: first what is sent by value.           *)
GroupCalls(g, b) ==
  [i \in 1..(IF g.ends = "none" THEN g.values ELSE g.values + 1) |->
     IF i <= g.values THEN Op("value", b) ELSE Op(g.ends, b)]

CallIs(t, op) == task[t].state = "running" /\ task[t].todo # <<>> /\ Head(task[t].todo).op = op
Db(t)         == Head(task[t].todo).db
Advanced(o)   == [o EXCEPT !.todo = Tail(@)]
Proceed(t, o, failed) ==
  /\ task' = [task EXCEPT ![t] = Advanced(o)] /\ faults' = faults \cup failed
  /\ UNCHANGED <<block, Env, unseen>>

GroupBegin(t) ==
  /\ CallIs(t, "begin")
  /\ Proceed(t, [task[t] EXCEPT !.grouped = TRUE], Failed(~task[t].grouped, "group_begin"))

(* The groups are gone through in an unspecified order.                    *)
GroupEnd(t) ==
  /\ CallIs(t, "end")
  /\ task' = [task EXCEPT ![t].grouped = FALSE, ![t].todo = <<Op("ending", Null)>> \o Tail(@)]
  /\ faults' = faults \cup Failed(task[t].grouped, "group_end")
  /\ UNCHANGED <<block, Env, unseen>>
EndGroup(t) ==
  /\ CallIs(t, "ending")
  /\ LET gs == task[t].groups
         bs == {b \in Blocks : gs[b] # NoGroup}
     IN \/ bs = {} /\ task' = [task EXCEPT ![t] = Advanced(@)]
        \/ \E b \in bs : task' = [task EXCEPT ![t].groups[b] = NoGroup, ![t].todo = GroupCalls(gs[b], b) \o @]
  /\ UNCHANGED <<block, faults, Env, unseen>>

(* ocrAddDependenceByValue: the block must be owned.                       *)
ByValue(t) ==
  /\ CallIs(t, "value")
  /\ LET o == task[t] IN
     Proceed(t, IF o.grouped THEN [o EXCEPT !.groups[Db(t)].values = @ + 1] ELSE o, Failed(Owns(o, Db(t)), "owns_db"))

(* ocrDbDestroy: a release, and a message to the owner (DbCoherence).      *)
Destroy(t) ==
  /\ CallIs(t, "destroy")
  /\ task' = IF task[t].grouped
             THEN [task EXCEPT ![t] = [Advanced(@) EXCEPT !.groups[Db(t)].ends = "destroy"]]
             ELSE [task EXCEPT ![t].todo = <<Op("release", Db(t))>> \o Tail(@)]
  /\ UNCHANGED <<block, Env, unseen, faults>>

(* History: t stops using bs.                                              *)
Seen(t, bs) == [b \in Blocks |->
  IF b \in bs /\ Writes(Mode(task[t], b)) /\ block[b].copy # "none" THEN unseen[b] \cup {t} ELSE unseen[b]]

(* release_db_early.  A writer waits at a gate until every copy outside    *)
(* is gone; the task has to own something still: itself.                   *)
Leave(t, b) ==
  UnlockBlock(t, b, [task[t] EXCEPT !.acquired = @ - 1, !.ordered[Index(task[t], b)] = Null,
                                    !.gate = "none", !.todo = Tail(@)],
              Failed(task[t].acquired > 1, "release_db_early"))
Release(t) ==
  /\ CallIs(t, "release") /\ task[t].gate = "none"
  /\ LET o == task[t]
         b == Db(t)
     IN \/ /\ o.grouped
           /\ task' = [task EXCEPT ![t] = [Advanced(o) EXCEPT !.groups[b].ends = IF @ = "none" THEN "release" ELSE @]]
           /\ UNCHANGED <<block, faults, unseen>>
        \/ /\ ~o.grouped /\ ~Owns(o, b)
           /\ task' = [task EXCEPT ![t] = Advanced(@)]
           /\ UNCHANGED <<block, faults, unseen>>
        \/ /\ ~o.grouped /\ Owns(o, b) /\ Writes(Mode(o, b)) /\ MustRecall(block[b])
           /\ block' = [block EXCEPT ![b] = Registered(@, t, TRUE)]
           /\ task' = [task EXCEPT ![t].gate = "shut"]
           /\ unseen' = Seen(t, {b})
           /\ UNCHANGED faults
        \/ /\ ~o.grouped /\ Owns(o, b) /\ ~(Writes(Mode(o, b)) /\ MustRecall(block[b]))
           /\ Leave(t, b) /\ unseen' = Seen(t, {b})
  /\ UNCHANGED Env
PassGate(t) ==
  /\ CallIs(t, "release") /\ task[t].gate = "open"
  /\ Leave(t, Db(t))
  /\ UNCHANGED <<Env, unseen>>

(* The wait is cut short when the runtime does not run: it was shut down,   *)
(* or (is_running does not tell the two apart) it is paused.               *)
CutGate(t) ==
  /\ CallIs(t, "release") /\ task[t].gate = "shut" /\ paused
  /\ task' = [task EXCEPT ![t].gate = "open", ![t].cut = TRUE]
  /\ UNCHANGED <<block, Env, unseen, faults>>

(* The end of run.                                                         *)
EndTask(t) ==
  /\ task[t].state = "running" /\ task[t].todo = <<>>
  /\ LET last == task[t].acquired = 1 IN
     task' = [task EXCEPT ![t].state = IF last THEN "ended" ELSE "done", ![t].acquired = @ - 1,
                          ![t].rest = IF last THEN {} ELSE Kept(task[t])]
  /\ faults' = faults \cup Failed(~task[t].grouped, "in_group")
  /\ unseen' = Seen(t, {task[t].ordered[i] : i \in Kept(task[t])})
  /\ UNCHANGED <<block, Env>>

(* update_remote_data: the block counts as done at once, unless a copy of  *)
(* what the task wrote has to be recalled.                                 *)
UpdateData(t) ==
  /\ task[t].state = "done"
  /\ \E i \in First(task[t].rest) :
       LET b == task[t].ordered[i]
           o == [task[t] EXCEPT !.rest = @ \ {i}]
           writer == Writes(task[t].modes[i])
       IN IF writer /\ MustRecall(block[b])
          THEN /\ block' = [block EXCEPT ![b] = Registered(@, t, FALSE)]
               /\ task' = [task EXCEPT ![t] = o] /\ UNCHANGED faults
          ELSE /\ block' = IF writer THEN [block EXCEPT ![b] = Updated(@)] ELSE block
               /\ task' = [task EXCEPT ![t] = RemoteUpdated(o)] /\ faults' = faults \cup Counted(o)
  /\ UNCHANGED <<Env, unseen>>

(* realse_data_and_notify_postslots, release_all.                          *)
ReleaseNext(t) ==
  /\ task[t].state = "releasing"
  /\ \E i \in First(task[t].rest) :
       UnlockBlock(t, task[t].ordered[i],
                   [task[t] EXCEPT !.rest = @ \ {i}, !.state = IF task[t].rest = {i} THEN "ended" ELSE @], {})
  /\ UNCHANGED <<Env, unseen>>

-----------------------------------------------------------------------------
(***************************************************************************)
(* The other nodes.  A paused node puts their messages aside.              *)
(***************************************************************************)
Changes(b, k) ==
  block' = [block EXCEPT ![b] = k] /\ UNCHANGED <<task, paused, pauses, unseen, faults>>

(* The answer to an elevation request; the node that was the master keeps  *)
(* a copy.                                                                 *)
Elevated(b, s) ==
  /\ ~paused /\ s \in block[b].asked /\ ~block[b].listed
  /\ s = "copy" => block[b].valid = "invalid"
  /\ LET r == Grant(IF s = "master" THEN [block[b] EXCEPT !.valid = "master", !.listed = TRUE,
                                                          !.copy = "held", !.asked = {}]
                    ELSE [block[b] EXCEPT !.valid = "copy", !.asked = @ \ {s}])
     IN /\ block' = [block EXCEPT ![b] = r.block] /\ task' = Granted(b, r)
        /\ faults' = faults \cup InOrder(b, r)
  /\ UNCHANGED <<Env, unseen>>

(* Another node asks for a copy.                                           *)
AskCopy(b) ==
  /\ ~paused /\ block[b].listed /\ block[b].copy = "none" /\ ~block[b].wanted /\ asked[b] < Asks
  /\ asked' = [asked EXCEPT ![b] = @ + 1]
  /\ Changes(b, Updated(IF Writing(block[b]) THEN [block[b] EXCEPT !.wanted = TRUE]
                        ELSE [block[b] EXCEPT !.copy = "sent"]))
  /\ UNCHANGED moved
CopyReceived(b) ==
  /\ ~paused /\ block[b].copy = "sent"
  /\ Changes(b, Updated(TryRound([block[b] EXCEPT !.copy = "held"])))
  /\ UNCHANGED <<asked, moved>>

(* master__handle_invalidation: gates are opened, and, without the mutex   *)
(* of the block, the tasks that have ended are told.                       *)
CopyInvalidated(b) ==
  /\ ~paused /\ block[b].copy = "recalled"
  /\ LET k == block[b] IN
     /\ block' = [block EXCEPT ![b] = Updated([k EXCEPT !.copy = "none", !.waiters = {}, !.gates = {},
                                                        !.told = @ \cup k.waiters])]
     /\ task' = [t \in Tasks |-> IF t \in k.gates /\ task[t].gate = "shut"
                                 THEN [task[t] EXCEPT !.gate = "open"] ELSE task[t]]
  /\ unseen' = [unseen EXCEPT ![b] = {}]
  /\ UNCHANGED <<faults, Env>>
Tell(t, b) ==
  /\ t \in block[b].told /\ task[t].rest = {}      \* run holds the mutex of the task until then
  /\ block' = [block EXCEPT ![b].told = @ \ {t}]
  /\ task' = [task EXCEPT ![t] = RemoteUpdated(@)] /\ faults' = faults \cup Counted(task[t])
  /\ UNCHANGED <<Env, unseen>>

(* Another node asks for the master, or writes to what is a copy here.     *)
AskMaster(b) ==
  /\ ~paused /\ moved[b] < Moves /\ block[b].valid # "invalid"
  /\ block[b].valid = "copy" => ~block[b].listed
  /\ moved' = [moved EXCEPT ![b] = @ + 1]
  /\ block' = [block EXCEPT ![b] = IF @.valid = "master" THEN Updated([@ EXCEPT !.valid = "copy"])
                                   ELSE [@ EXCEPT !.valid = "invalid"]]
  /\ task' = IF block[b].valid = "master" THEN task
             ELSE [t \in Tasks |-> IF task[t].reading /\ task[t].ordered[task[t].acquired + 1] = b
                                   THEN [task[t] EXCEPT !.torn = @ \cup {b}] ELSE task[t]]
  /\ UNCHANGED <<paused, pauses, asked, unseen, faults>>

Stopped == paused /\ \A t \in Tasks : task[t].state \notin {"spawned", "running"} /\ task[t].rest = {}
Pause ==
  /\ ~paused /\ pauses < Pauses
  /\ paused' = TRUE /\ pauses' = pauses + 1
  /\ UNCHANGED <<task, block, asked, moved, unseen, faults>>
Resume ==
  /\ Stopped
  /\ paused' = FALSE
  /\ task' = [t \in Tasks |-> IF task[t].state = "aside" THEN [task[t] EXCEPT !.state = "spawned"] ELSE task[t]]
  /\ UNCHANGED <<block, pauses, asked, moved, unseen, faults>>

-----------------------------------------------------------------------------
Init ==
  /\ task = [t \in Tasks |-> NewTask]
  /\ block = [b \in Blocks |-> NewBlock(b)]
  /\ paused = FALSE /\ pauses = 0
  /\ asked = [b \in Blocks |-> 0] /\ moved = [b \in Blocks |-> 0]
  /\ unseen = [b \in Blocks |-> {}] /\ faults = {}

TaskStep(t) ==
  \/ Satisfied(t) \/ TryNext(t) \/ ReadHandle(t) \/ Spawn(t) \/ Start(t)
  \/ GroupBegin(t) \/ GroupEnd(t) \/ EndGroup(t) \/ ByValue(t) \/ Destroy(t)
  \/ Release(t) \/ PassGate(t) \/ CutGate(t)
  \/ EndTask(t) \/ UpdateData(t) \/ ReleaseNext(t)
Answers ==
  \/ \E b \in Blocks : \/ \E s \in {"copy", "master"} : Elevated(b, s)
                       \/ CopyReceived(b) \/ CopyInvalidated(b) \/ \E t \in Tasks : Tell(t, b)
  \/ Resume
Requests == Pause \/ \E b \in Blocks : AskCopy(b) \/ AskMaster(b)
AllEnded   == \A t \in Tasks : task[t].state = "ended"
Terminated == AllEnded /\ UNCHANGED vars

Next == (\E t \in Tasks : TaskStep(t)) \/ Answers \/ Requests \/ Terminated

Spec     == Init /\ [][Next]_vars
(* Tasks run, requests of this node are answered, and a pause ends: weak   *)
(* fairness of these steps, with what enables them written out.            *)
Fair    == (\E t \in Tasks : TaskStep(t)) \/ Answers
MayStep ==
  \/ \E t \in Tasks : \/ task[t].state = "created" /\ ~paused
                      \/ task[t].trying \/ task[t].reading \/ task[t].state = "spawned" \/ task[t].rest # {}
                      \/ task[t].state = "running" /\ (task[t].gate = "shut" => paused)
  \/ \E b \in Blocks : block[b].told # {}
  \/ ~paused /\ \E b \in Blocks :
       \/ block[b].copy \in {"sent", "recalled"}
       \/ ~block[b].listed /\ ("master" \in block[b].asked
                              \/ ("copy" \in block[b].asked /\ block[b].valid = "invalid"))
  \/ Stopped
FairSpec == Spec /\ ([]<>~MayStep \/ []<><<Fair>>_vars)

-----------------------------------------------------------------------------
(***************************************************************************)
(* Properties.                                                             *)
(***************************************************************************)

(* The assertions of the code: a task is granted the blocks in the order   *)
(* it asks for them, nothing is unlocked that is not locked, a block given *)
(* by value is owned (also in a group that ends with its release), and     *)
(* every group is ended.                                                   *)
AssertionsHold == faults = {}

(* A lock is counted exactly as long as a task holds it: through grants,   *)
(* early releases, ends that wait for other nodes, and moves of the block. *)
HoldsOf(o, b) ==
  CASE o.state \in {"locking", "spawned", "aside"} -> \E i \in 1..(IF o.reading THEN o.acquired + 1 ELSE o.acquired) : o.ordered[i] = b
    [] o.state \in {"running", "done"}             -> Owns(o, b)
    [] o.state = "releasing"                       -> \E i \in o.rest : o.ordered[i] = b
    [] OTHER                                       -> FALSE
Holds(t, b)   == HoldsOf(task[t], b)
Holders(b, S) == {t \in Tasks : Holds(t, b) /\ Mode(task[t], b) \in S}
LocksAccounted == \A b \in Blocks :
  /\ block[b].read  = Cardinality(Holders(b, {"RO"}))
  /\ block[b].write = Cardinality(Holders(b, {"RW"}))
  /\ block[b].excl  = Cardinality(Holders(b, {"CONST", "EW"}))
  /\ block[b].exwrite <=> Holders(b, {"EW"}) # {}

(* Two running tasks of a node never use a block in ways that the modes of *)
(* their slots exclude: the one lock a task takes for all its slots on a   *)
(* block is as strong as each of them, and together.                       *)
Exclude(m1, m2) == ("EW" \in {m1, m2} /\ "NULL" \notin {m1, m2}) \/ {m1, m2} = {"CONST", "RW"}
Uses(t, b) == {m \in SlotModes(t, b) : task[t].state = "running" /\ Owns(task[t], b)}
SlotsRespected == \A b \in Blocks : \A s, t \in Tasks : s # t =>
  \A m1 \in Uses(s, b), m2 \in Uses(t, b) : ~Exclude(m1, m2)

(* A task never runs on a block of which its node had no copy when it took *)
(* the handle, unless the copy was recalled just then: after the task had   *)
(* locked the block, and before it read the handle without the mutex.      *)
OnlyUnlockedReadsAreBlank == \A t \in Tasks : task[t].blank \subseteq task[t].torn

(* Tasks and blocks agree on who holds what, with every mode respected.    *)
BlocksSound ==
  /\ AssertionsHold
  /\ LocksAccounted
  /\ SlotsRespected
  /\ OnlyUnlockedReadsAreBlank

(* A task that has released a block it wrote, early or at its end, has     *)
(* waited until no copy from before is left anywhere, unless the runtime   *)
(* was paused while it waited at the gate.                                 *)
ReleaseIsSynchronous == \A b \in Blocks : \A t \in unseen[b] : Holds(t, b) \/ task[t].cut

(* Every task gets its blocks, whatever the others of its node hold and    *)
(* wherever the blocks have gone, and ends.                                *)
EveryTaskEnds == <>AllEnded
=============================================================================
