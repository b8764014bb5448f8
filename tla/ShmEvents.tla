------------------------------ MODULE ShmEvents ------------------------------
(***************************************************************************)
(* Events, tasks and finish scopes of the shared-memory runtime (the event *)
(* side of wait_for_graph).                                                *)
(*                                                                         *)
(* Every node of the graph, event or task (EDT), has a mutex.  Satisfying  *)
(* an event holds its mutex while the nodes on its post-slots are satisfied*)
(* in turn, each under its own mutex, as deep as events are chained.       *)
(* Adding a dependence takes the mutexes of both nodes, in the order of    *)
(* their types and guids.  Creating a task links its output event, and     *)
(* counts it in the latch of the finish scope it is created in.            *)
(*                                                                         *)
(* A step is what a thread does from taking one mutex to wanting the next. *)
(* A task runs a fixed sequence of calls; its blocks are always granted    *)
(* (ShmLocking is about those), so a task is spawned when its last pre-slot*)
(* is satisfied.                                                           *)
(***************************************************************************)
EXTENDS Integers, Sequences, FiniteSets, Bags

CONSTANTS
  Tasks,        \* the EDTs
  Main,         \* the EDT that is running first
  Finish,       \* those created with EDT_PROP_FINISH
  Depc,         \* Depc[t]: the number of pre-slots of t
  Output,       \* Output[t]: the output event created with t
  Program,      \* Program[t]: the calls t makes
  Result,       \* Result[t]: the block t returns, or Null
  Events,       \* all events, those of the program and the output events
  Type,         \* Type[e]: ONCE, IDEM, STICKY, LATCH or CHANNEL
  Guid,         \* Guid[e]: the address of the event
  Data,         \* data blocks
  Null,         \* NULL_GUID
  Unsatisfied,  \* the state of a pre-slot that has not been satisfied
  Free,         \* an unlocked mutex
  CounterSize   \* the latch counter is unsigned: 2^32 in the code

DecrSlot == 0   \* OCR_EVENT_LATCH_DECR_SLOT, and the only slot of other events
IncrSlot == 1   \* OCR_EVENT_LATCH_INCR_SLOT
Nodes    == Tasks \cup Events

(* The calls of a program.                                                 *)
SatisfyCall(e, d, s) == [op |-> "satisfy", node |-> e, data |-> d, slot |-> s]
AddCall(x, n, s)     == [op |-> "add", source |-> x, node |-> n, slot |-> s]
CreateCall(t, deps)  == [op |-> "create", node |-> t, deps |-> deps]
DestroyCall(e)       == [op |-> "destroy", node |-> e]
SpawnCall(t)         == [op |-> "spawn", node |-> t]   \* inside the constructor of edt

ASSUME GraphAssumption ==
  /\ Main \in Tasks /\ Finish \subseteq Tasks \ {Main}
  /\ Depc \in [Tasks -> Nat]
  /\ Output \in [Tasks -> Events] /\ \A t, u \in Tasks : Output[t] = Output[u] => t = u
  /\ Type \in [Events -> {"ONCE", "IDEM", "STICKY", "LATCH", "CHANNEL"}]
  /\ \A t \in Tasks : Type[Output[t]] = IF t \in Finish THEN "LATCH" ELSE "ONCE"
  /\ Guid \in [Events -> Nat] /\ \A e, f \in Events : Guid[e] = Guid[f] => e = f
  /\ Result \in [Tasks -> Data \cup {Null}]
ASSUME DistinctAssumption ==
  /\ Null \notin Data /\ Unsatisfied \notin Data \cup {Null} /\ Free \notin Tasks
  /\ Tasks \cap Events = {} /\ Data \cap Nodes = {} /\ Null \notin Nodes
ASSUME CounterAssumption == CounterSize \in Nat \ {0, 1}

VARIABLES
  mutex,      \* mutex[n]: the task whose thread holds n's mutex, or Free
  event,      \* event[e]: the state of the event
  post,       \* post[n]: the post-slots of n, a sequence of [node, slot]
  pre,        \* pre[t]: the pre-slots of task t
  pc,         \* pc[t]: progress of task t
  scope,      \* scope[t]: finish_for_children_, an event or Null
  calls,      \* calls[t]: the calls t has still to make
  stack,      \* stack[t]: the nested calls t's thread is in
  deleted,    \* the nodes whose memory has been freed
  faults,     \* the assertions that have failed
  spawns,     \* history: spawns[t], how often t was handed to the scheduler
  sent,       \* history: the bag of <<source, node, slot>> that were satisfied
  fed,        \* history: fed[e], the data given to the channel e, in order
  asked       \* history: asked[e], the post-slots added to the channel e

vars == <<mutex, event, post, pc, pre, scope, calls, stack, deleted, faults,
          spawns, sent, fed, asked>>

-----------------------------------------------------------------------------
(***************************************************************************)
(* Satisfying one node (satisfy_event_internal__locked).                   *)
(***************************************************************************)
NewEvent == [triggered |-> FALSE, destroyed |-> FALSE, count |-> 0, data |-> Null,
             items |-> <<>>, sinks |-> <<>>]

(* Only an idempotent event may be satisfied after it has triggered.       *)
Refuses(e) == event[e].triggered /\ Type[e] # "IDEM"

(* The counter of a latch, unsigned.                                       *)
Counted(c, slot) == IF slot = IncrSlot THEN (c + 1) % CounterSize
                                       ELSE (c + CounterSize - 1) % CounterSize

(* Does satisfying the slot trigger the event (satisfy_preslot)?           *)
Triggers(e, slot) ==
  /\ ~event[e].triggered
  /\ Type[e] # "CHANNEL"
  /\ Type[e] = "LATCH" => slot = DecrSlot /\ Counted(event[e].count, slot) = 0

Satisfied(e, slot, d) ==
  LET v == event[e]
      w == [v EXCEPT !.triggered = v.triggered \/ Triggers(e, slot),
                     !.destroyed = v.destroyed \/ (Triggers(e, slot) /\ Type[e] \in {"ONCE", "LATCH"})]
  IN  CASE Refuses(e)        -> v
        [] Type[e] = "LATCH" -> [w EXCEPT !.count = Counted(@, slot)]
        [] Type[e] = "CHANNEL" /\ v.sinks # <<>> -> [v EXCEPT !.sinks = Tail(@)]
        [] Type[e] = "CHANNEL" /\ v.sinks = <<>> -> [v EXCEPT !.items = Append(@, d)]
        [] Type[e] \in {"ONCE", "IDEM", "STICKY"} -> [w EXCEPT !.data = d]

(* The post-slots that are satisfied next, while n's mutex is held.        *)
Serves(n, slot) ==
  IF n \in Tasks THEN <<>>
  ELSE IF Type[n] = "CHANNEL" /\ event[n].sinks # <<>> THEN <<Head(event[n].sinks)>>
  ELSE IF Triggers(n, slot) THEN post[n] ELSE <<>>

(* Mutant: a task is spawned when its last slot is satisfied.              *)
SpawnedByLastSlot(t, slot) == slot = Depc[t] - 1

(* all_satisfied, once the slot is.                                        *)
Complete(t, slot) == \A s \in DOMAIN pre[t] \ {slot} : pre[t][s] # Unsatisfied

(* The effect of satisfying slot s of node n with d, n's mutex being held; *)
(* events is what the caller has made of the events.                       *)
Satisfy(n, s, d, events) ==
  LET spawned == n \in Tasks /\ Complete(n, s)
  IN  /\ event' = IF n \in Events THEN [events EXCEPT ![n] = Satisfied(n, s, d)] ELSE events
      /\ fed' = IF n \in Events /\ Type[n] = "CHANNEL" THEN [fed EXCEPT ![n] = Append(@, d)] ELSE fed
      /\ pre' = IF n \in Tasks THEN [pre EXCEPT ![n][s] = d] ELSE pre
      /\ pc' = IF spawned THEN [pc EXCEPT ![n] = "ready"] ELSE pc
      /\ spawns' = IF spawned THEN [spawns EXCEPT ![n] = @ + 1] ELSE spawns

-----------------------------------------------------------------------------
(***************************************************************************)
(* The thread of a task.  A frame of its stack stands for one call that    *)
(* holds mutexes, or serves post-slots, or is about to eliminate an event. *)
(***************************************************************************)
Frame(n, holds, todo, d) == [node |-> n, holds |-> holds, todo |-> todo, data |-> d]

Idle(t)       == pc[t] = "running" /\ stack[t] = <<>>
Calls(t, op)  == Idle(t) /\ calls[t] # <<>> /\ Head(calls[t]).op = op
Top(t)        == stack[t][Len(stack[t])]
Below(t)      == SubSeq(stack[t], 1, Len(stack[t]) - 1)
Link(x, n, s) == SetToBag({<<x, n, s>>})
Slot(n, s)    == [node |-> n, slot |-> s]

Lock(t, n) ==
  /\ mutex[n] = Free /\ mutex' = [mutex EXCEPT ![n] = t]
  /\ faults' = IF n \in deleted THEN faults \cup {"used after deletion"} ELSE faults

Init ==
  /\ mutex = [n \in Nodes |-> Free]
  /\ event = [e \in Events |-> NewEvent]
  /\ post = [n \in Nodes |-> IF n = Main THEN <<Slot(Output[Main], DecrSlot)>> ELSE <<>>]
  /\ pre = [t \in Tasks |-> [s \in 0..Depc[t] - 1 |-> Unsatisfied]]
  /\ pc = [t \in Tasks |-> IF t = Main THEN "running" ELSE "absent"]
  /\ scope = [t \in Tasks |-> Null]
  /\ calls = [t \in Tasks |-> Program[t]]
  /\ stack = [t \in Tasks |-> <<>>]
  /\ deleted = {} /\ faults = {}
  /\ spawns = [t \in Tasks |-> IF t = Main THEN 1 ELSE 0]
  /\ sent = EmptyBag
  /\ fed = [e \in Events |-> <<>>]
  /\ asked = [e \in Events |-> <<>>]

(* add_dependency refuses a slot the node does not have; every event has   *)
(* one pre-slot.                                                           *)
HasSlot(n, s) == IF n \in Tasks THEN s < Depc[n] ELSE s = 0

RefuseSlot(t) ==
  /\ Calls(t, "add") /\ ~HasSlot(Head(calls[t]).node, Head(calls[t]).slot)
  /\ calls' = [calls EXCEPT ![t] = Tail(@)]
  /\ UNCHANGED <<mutex, event, post, pre, pc, scope, stack, deleted, faults, spawns, sent, fed, asked>>

(* satisfy_event, or add_dependency with a block or NULL_GUID as source:   *)
(* the node is satisfied under its mutex.                                  *)
SatisfyNode(t) ==
  LET c == Head(calls[t])
      n == c.node
      d == IF c.op = "satisfy" THEN c.data ELSE c.source
  IN  /\ \/ Calls(t, "satisfy")
         \/ Calls(t, "add") /\ c.source \notin Nodes /\ HasSlot(n, c.slot)
      /\ Lock(t, n)
      /\ Satisfy(n, c.slot, d, event)
      /\ stack' = [stack EXCEPT ![t] = <<Frame(n, {n}, Serves(n, c.slot), d)>>]
      /\ calls' = [calls EXCEPT ![t] = Tail(@)]
      /\ UNCHANGED <<post, scope, deleted, sent, asked>>

(* Mutant: dual_lock takes the mutex of the destination first.             *)
DestinationFirst(x, n) == n

(* dual_lock: events before tasks, events in the order of their guids.     *)
FirstLocked(x, n) ==
  IF x \in Events /\ (n \in Tasks \/ Guid[x] < Guid[n]) THEN x ELSE n

(* add_dependency between two nodes takes the first of their mutexes ...   *)
LockFirst(t) ==
  LET c == Head(calls[t])
      n == FirstLocked(c.source, c.node)
  IN  /\ Calls(t, "add") /\ c.source \in Nodes /\ HasSlot(c.node, c.slot)
      /\ Lock(t, n)
      /\ stack' = [stack EXCEPT ![t] = <<Frame(Null, {n}, <<>>, Null)>>]
      /\ UNCHANGED <<event, post, pre, pc, scope, calls, deleted, spawns, sent, fed, asked>>

IsChannel(x) == x \in Events /\ Type[x] = "CHANNEL"

(* Has the source something to pass on at once, and what?                  *)
Passes(x) == x \in Events /\ IF IsChannel(x) THEN event[x].items # <<>> ELSE event[x].triggered
Passed(x) == IF IsChannel(x) THEN Head(event[x].items) ELSE event[x].data

(* ... and then the second: the link is added and, if the source has been  *)
(* satisfied already, used.                                                *)
LockSecond(t) ==
  LET c == Head(calls[t])
      x == c.source
      n == c.node
      s == c.slot
      linked == IF ~IsChannel(x) THEN event
                ELSE IF Passes(x) THEN [event EXCEPT ![x].items = Tail(@)]
                ELSE [event EXCEPT ![x].sinks = Append(@, Slot(n, s))]
  IN  /\ stack[t] # <<>> /\ Top(t).node = Null
      /\ \E m \in {x, n} \ Top(t).holds : Lock(t, m)
      /\ post' = IF IsChannel(x) THEN post ELSE [post EXCEPT ![x] = Append(@, Slot(n, s))]
      /\ asked' = IF IsChannel(x) THEN [asked EXCEPT ![x] = Append(@, Slot(n, s))] ELSE asked
      /\ IF Passes(x)
           THEN /\ Satisfy(n, s, Passed(x), linked)
                /\ sent' = sent (+) Link(x, n, s)
                /\ stack' = [stack EXCEPT ![t] = <<Frame(n, {x, n}, Serves(n, s), Passed(x))>>]
           ELSE /\ event' = linked
                /\ stack' = [stack EXCEPT ![t] = <<Frame(n, {x, n}, <<>>, Null)>>]
                /\ UNCHANGED <<pre, pc, spawns, fed, sent>>
      /\ calls' = [calls EXCEPT ![t] = Tail(@)]
      /\ UNCHANGED <<scope, deleted>>

(* The next post-slot of a triggered event, of a channel or of a task that *)
(* has ended: its node is satisfied under its own mutex as well.           *)
ServeNext(t) ==
  LET f == Top(t)
      p == Head(f.todo)
  IN  /\ stack[t] # <<>> /\ f.todo # <<>>
      /\ Lock(t, p.node)
      /\ Satisfy(p.node, p.slot, f.data, event)
      /\ stack' = [stack EXCEPT ![t] =
                     Below(t) \o <<[f EXCEPT !.todo = Tail(@)],
                                   Frame(p.node, {p.node}, Serves(p.node, p.slot), f.data)>>]
      /\ sent' = sent (+) Link(f.node, p.node, p.slot)
      /\ UNCHANGED <<post, scope, calls, deleted, asked>>

(* The call is done and releases its mutexes.  An event that was destroyed *)
(* as it triggered is eliminated after that.                               *)
Leave(t) ==
  LET f == Top(t)
      over == f.node \in Events /\ event[f.node].destroyed
  IN  /\ stack[t] # <<>> /\ f.todo = <<>> /\ f.holds # {} /\ f.node # Null
      /\ mutex' = [n \in Nodes |-> IF n \in f.holds THEN Free ELSE mutex[n]]
      /\ stack' = [stack EXCEPT ![t] =
                     IF over THEN Append(Below(t), Frame(f.node, {}, <<>>, Null)) ELSE Below(t)]
      /\ UNCHANGED <<event, post, pre, pc, scope, calls, deleted, faults, spawns, sent, fed, asked>>

(* eliminate: "assert(!was_locked)", and the memory is freed.              *)
Deleting(e) ==
  /\ deleted' = deleted \cup {e}
  /\ faults' = faults \cup {f \in {"deleted while locked"} : mutex[e] # Free}
                      \cup {f \in {"deleted twice"} : e \in deleted}

Eliminate(t) ==
  /\ stack[t] # <<>> /\ Top(t).holds = {} /\ Top(t).node \in Events
  /\ Deleting(Top(t).node)
  /\ stack' = [stack EXCEPT ![t] = Below(t)]
  /\ UNCHANGED <<mutex, event, post, pre, pc, scope, calls, spawns, sent, fed, asked>>

(* ocrEventDestroy takes no mutex.                                         *)
DestroyEvent(t) ==
  LET e == Head(calls[t]).node
  IN  /\ Calls(t, "destroy")
      /\ Deleting(e)
      /\ event' = [event EXCEPT ![e].destroyed = TRUE]
      /\ calls' = [calls EXCEPT ![t] = Tail(@)]
      /\ UNCHANGED <<mutex, post, pre, pc, scope, stack, spawns, sent, fed, asked>>

-----------------------------------------------------------------------------
(***************************************************************************)
(* The life of a task.                                                     *)
(***************************************************************************)
(* Mutant: only the tasks that a finish task creates itself are counted.   *)
ScopeOfFinish(t, u) == IF u \in Finish THEN Output[u] ELSE Null

(* finish_for_children_ of a task u that t creates.                        *)
ScopeOf(t, u) == IF u \in Finish THEN Output[u] ELSE scope[t]

(* The calls of the constructor of edt.                                    *)
Construction(t, u, deps) ==
  (IF scope[t] = Null THEN <<>>
   ELSE <<SatisfyCall(scope[t], Null, IncrSlot), AddCall(Output[u], scope[t], DecrSlot)>>)
  \o (IF u \in Finish THEN <<SatisfyCall(Output[u], Null, IncrSlot)>> ELSE <<>>)
  \o <<AddCall(u, Output[u], DecrSlot)>>
  \o (IF Depc[u] = 0 THEN <<SpawnCall(u)>> ELSE <<>>)
  \o [i \in DOMAIN deps |-> AddCall(deps[i], u, i - 1)]

(* ocrEdtCreate: the output event, then the task.                          *)
CreateTask(t) ==
  LET u == Head(calls[t]).node
  IN  /\ Calls(t, "create")
      /\ pc' = [pc EXCEPT ![u] = "waiting"]
      /\ scope' = [scope EXCEPT ![u] = ScopeOf(t, u)]
      /\ calls' = [calls EXCEPT ![t] = Construction(t, u, Head(@).deps) \o Tail(@)]
      /\ UNCHANGED <<mutex, event, post, pre, stack, deleted, faults, spawns, sent, fed, asked>>

(* A task without pre-slots is spawned by its constructor.                 *)
SpawnTask(t) ==
  LET u == Head(calls[t]).node
  IN  /\ Calls(t, "spawn")
      /\ pc' = [pc EXCEPT ![u] = "ready"]
      /\ spawns' = [spawns EXCEPT ![u] = @ + 1]
      /\ calls' = [calls EXCEPT ![t] = Tail(@)]
      /\ UNCHANGED <<mutex, event, post, pre, scope, stack, deleted, faults, sent, fed, asked>>

(* edt_task::execute: the user function begins ...                         *)
Start(t) ==
  /\ pc[t] = "ready"
  /\ pc' = [pc EXCEPT ![t] = "running"]
  /\ UNCHANGED <<mutex, event, post, pre, scope, calls, stack, deleted, faults, spawns, sent, fed, asked>>

(* ... and returns; notify_task_finished serves the task's post-slots      *)
(* without the task's mutex ...                                            *)
End(t) ==
  /\ Idle(t) /\ calls[t] = <<>>
  /\ pc' = [pc EXCEPT ![t] = "ending"]
  /\ stack' = [stack EXCEPT ![t] = <<Frame(t, {}, post[t], Result[t])>>]
  /\ UNCHANGED <<mutex, event, post, pre, scope, calls, deleted, faults, spawns, sent, fed, asked>>

(* ... and the task is deleted.                                            *)
Finished(t) ==
  /\ stack[t] # <<>> /\ Top(t).node = t /\ Top(t).todo = <<>>
  /\ pc' = [pc EXCEPT ![t] = "done"]
  /\ stack' = [stack EXCEPT ![t] = <<>>]
  /\ deleted' = deleted \cup {t}
  /\ UNCHANGED <<mutex, event, post, pre, scope, calls, faults, spawns, sent, fed, asked>>

Thread(t) ==
  \/ RefuseSlot(t) \/ SatisfyNode(t) \/ LockFirst(t) \/ LockSecond(t)
  \/ ServeNext(t) \/ Leave(t) \/ Eliminate(t) \/ DestroyEvent(t)
  \/ CreateTask(t) \/ SpawnTask(t) \/ Start(t) \/ End(t) \/ Finished(t)

Terminated == (\A t \in Tasks : pc[t] = "done") /\ UNCHANGED vars

Next == (\E t \in Tasks : Thread(t)) \/ Terminated

Spec == Init /\ [][Next]_vars

(* Threads keep running, the scheduler runs every spawned task and user    *)
(* functions return.                                                       *)
FairSpec == Spec /\ \A t \in Tasks : WF_vars(Thread(t))

-----------------------------------------------------------------------------
(***************************************************************************)
(* Properties.                                                             *)
(***************************************************************************)
Progress == {"absent", "waiting", "ready", "running", "ending", "done"}
EventState == [triggered : BOOLEAN, destroyed : BOOLEAN, count : 0..CounterSize - 1,
               data : Data \cup {Null}, items : Seq(Data \cup {Null}),
               sinks : Seq([node : Nodes, slot : Nat])]

(* Every variable keeps to its domain, and a mutex is held by the frames   *)
(* of one thread.                                                          *)
TypeOK ==
  /\ mutex \in [Nodes -> Tasks \cup {Free}]
  /\ event \in [Events -> EventState]
  /\ pc \in [Tasks -> Progress]
  /\ scope \in [Tasks -> Events \cup {Null}]
  /\ \A t \in Tasks : pre[t] \in [0..Depc[t] - 1 -> Data \cup {Null, Unsatisfied}]
  /\ deleted \subseteq Nodes
  /\ \A t \in Tasks : UNION {stack[t][i].holds : i \in DOMAIN stack[t]} = {n \in Nodes : mutex[n] = t}

Times(q, p) == Cardinality({i \in DOMAIN q : q[i] = p})

(* Exactly-once: whether a link was added before or after its source was   *)
(* satisfied, or while it was, it satisfies its destination once if the    *)
(* source has triggered and not at all if it has not.  A link of a channel *)
(* does so unless it is still queued as a sink.                            *)
LinksUsedOnce ==
  \A x \in Events : mutex[x] = Free =>
    \A n \in Nodes : \A s \in {DecrSlot, IncrSlot} :
      CopiesIn(<<x, n, s>>, sent) =
        IF IsChannel(x) THEN Times(asked[x], Slot(n, s)) - Times(event[x].sinks, Slot(n, s))
        ELSE IF event[x].triggered THEN Times(post[x], Slot(n, s)) ELSE 0

(* The i-th block put into a channel goes to the i-th dependence added to  *)
(* it, and a channel never holds blocks and waiting dependences at once.   *)
ChannelsPairInOrder ==
  \A e \in Events : IsChannel(e) /\ mutex[e] = Free =>
    /\ event[e].items = <<>> \/ event[e].sinks = <<>>
    /\ \A i \in DOMAIN fed[e] \cap DOMAIN asked[e] :
         LET p == asked[e][i] IN p.node \in Tasks => pre[p.node][p.slot] = fed[e][i]

(* A task is handed to the scheduler once, when all its pre-slots are      *)
(* satisfied, although several threads may satisfy them at the same time.  *)
SpawnedOnceWhenComplete ==
  \A t \in Tasks :
    /\ spawns[t] <= 1
    /\ spawns[t] = 1 /\ t # Main => \A s \in DOMAIN pre[t] : pre[t][s] # Unsatisfied
    /\ pc[t] \in {"absent", "waiting"} <=> spawns[t] = 0

(* No thread meets a node that has been deleted or deletes one twice, and  *)
(* eliminate finds the mutex of the event released.                        *)
AssertionsHold == faults = {}

(* Racing calls leave events and tasks consistent: links are used once,    *)
(* channels pair in order, tasks are spawned once, and no thread uses what *)
(* another has deleted.                                                    *)
EventsSound ==
  /\ TypeOK
  /\ LinksUsedOnce
  /\ ChannelsPairInOrder
  /\ SpawnedOnceWhenComplete
  /\ AssertionsHold

(* Every task ends: nested calls never wait for each other's mutexes, and  *)
(* no scope stays open.                                                    *)
EveryTaskEnds == <>(\A t \in Tasks : pc[t] = "done")

-----------------------------------------------------------------------------
(* The task that creates u, the finish tasks around u, the tasks whose     *)
(* output events feed u: as the programs say.                              *)
Creates(t, u) == \E i \in DOMAIN Program[t] : Program[t][i].op = "create" /\ Program[t][i].node = u
Creator == [u \in Tasks |-> CHOOSE t \in Tasks : u = Main \/ Creates(t, u)]
Scopes[u \in Tasks] ==
  IF u = Main THEN {} ELSE Scopes[Creator[u]] \cup ({Creator[u]} \cap Finish)
Feeds(t, u) ==
  \E v \in Tasks : \E i \in DOMAIN Program[v] :
    LET c == Program[v][i]
    IN  /\ c.op \in {"create", "add"} /\ c.node = u
        /\ IF c.op = "add" THEN c.source = Output[t]
                           ELSE \E j \in DOMAIN c.deps : c.deps[j] = Output[t]

Feeders == [u \in Tasks |-> {t \in Tasks : Feeds(t, u)}]

Promise == INSTANCE FinishPromise WITH
  Needs  <- Feeders,
  phase  <- [t \in Tasks |-> CASE pc[t] \in {"waiting", "ready"} -> "waiting"
                                [] pc[t] \in {"ending", "done"}   -> "ended"
                                [] OTHER                         -> pc[t]],
  scopes <- [t \in Tasks |-> IF pc[t] = "absent" THEN {} ELSE Scopes[t]],
  fired  <- {t \in Tasks : event[Output[t]].triggered}

(* Latches and post-slots implement finish scopes: a task begins after all *)
(* it depends on, and a scope closes once, after everything created in it. *)
ImplementsPromise == Promise!Spec

=============================================================================
