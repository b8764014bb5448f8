----------------------------- MODULE OneRuntime -----------------------------
(***************************************************************************)
(* The single-process runtime "one".                                       *)
(*                                                                         *)
(* Tasks run one after the other, in the order in which their last         *)
(* pre-slot was satisfied.  A call is executed to its end before it        *)
(* returns: an event that is satisfied satisfies what is linked to it by   *)
(* recursion, and is deleted on the way back.  work is that recursion: the *)
(* calls in progress, the innermost first, and behind each what its caller *)
(* has still to do.                                                        *)
(*                                                                         *)
(* The runtime leaves open only what the program does: the calls of a task *)
(* come in groups, and those of a group in any order.                      *)
(***************************************************************************)
EXTENDS Integers, Sequences, FiniteSets, Functions, SequencesExt

CONSTANTS
  Tasks, Main,
  Finish,       \* the tasks created with EDT_PROP_FINISH
  Depc,         \* Depc[t]: the number of pre-slots of t
  Output,       \* Output[t]: the output event created with t
  Result,       \* Result[t]: what t returns
  Program,      \* Program[t]: a sequence of sets of calls
  Templates,
  TemplateOf,   \* TemplateOf[t]: the template t is created from
  CopyTemplate, \* copy_edt_template_, which the runtime creates
  Events,       \* all events, the output events among them
  Type,         \* Type[e]: ONCE, IDEM, STICKY, LATCH or CHANNEL
  Blocks,
  Files,
  Contents,     \* Contents[f]: what is in the file at first
  Names,        \* variables of the program that hold the guid of a label ...
  Lids,         \* ... and local identifiers it gets from a map
  Labels,       \* indices of a range, and ...
  Guids,        \* ... the guids the runtime will draw for one of them, in order
  Null          \* NULL_GUID

DecrSlot == 0   \* OCR_EVENT_LATCH_DECR_SLOT, and the only slot of other events
IncrSlot == 1   \* OCR_EVENT_LATCH_INCR_SLOT
Modes == {"RW", "RO", "NULL"}

ASSUME OneAssumption ==
  /\ Main \in Tasks /\ Finish \subseteq Tasks \ {Main}
  /\ Depc \in [Tasks -> Nat] /\ Depc[Main] = 0
  /\ Output \in [Tasks -> Events] /\ \A t, u \in Tasks : Output[t] = Output[u] => t = u
  /\ \A t \in Tasks : Type[Output[t]] = IF t \in Finish THEN "LATCH" ELSE "ONCE"
  /\ Result \in [Tasks -> Blocks \cup {Null}]
  /\ TemplateOf \in [Tasks -> Templates] /\ CopyTemplate \in Templates
  /\ \A i \in Labels : Range(Guids[i]) \subseteq Events

(* Calls.  The dependences given to ocrEdtCreate are the first sources, and *)
(* Uninitialized for a slot that is left to ocrAddDependence.              *)
Uninitialized == "uninitialized"
TemplateCall(x)       == [op |-> "template", template |-> x]
DestroyTemplateCall(x) == [op |-> "destroy_template", template |-> x]
EventCall(e, how)     == [op |-> "event", node |-> e, how |-> how]
DestroyCall(e)        == [op |-> "destroy", node |-> e]
SatisfyCall(e, s, d)  == [op |-> "api_satisfy", node |-> e, slot |-> s, data |-> d]
AddCall(x, n, s, m)   == [op |-> "add", source |-> x, node |-> n, slot |-> s, mode |-> m]
CreateCall(t, deps)   == [op |-> "create", node |-> t, deps |-> deps]
IndexCall(i, v)       == [op |-> "index", label |-> i, name |-> v]
MapGetCall(e, l)      == [op |-> "map_get", node |-> e, lid |-> l]
BlockCall(b, n, a)    == [op |-> "block", block |-> b, size |-> n, acquire |-> a]
WriteCall(b, v)       == [op |-> "write", block |-> b, value |-> v]
ReleaseCall(b)        == [op |-> "release", block |-> b]
DestroyDbCall(b)      == [op |-> "destroy_db", block |-> b]
OpenCall(f, b)        == [op |-> "open", file |-> f, block |-> b]
ChunkCall(b, f, o, n) == [op |-> "chunk", block |-> b, file |-> f, offset |-> o, size |-> n]
CloseCall(f)          == [op |-> "close", file |-> f]
CopyDbCall(t, to, from) == [op |-> "copy_db", node |-> t, to |-> to, from |-> from]
CopyCall(o, from, n, back) == [op |-> "memcpy", offset |-> o, from |-> from, size |-> n, back |-> back]
ShutdownCall          == [op |-> "shutdown"]

(* Steps of the runtime in the course of a call.                           *)
SatisfyItem(n, s, d)  == [op |-> "satisfy", node |-> n, slot |-> s, data |-> d]
DeleteItem(e)         == [op |-> "delete", node |-> e]
PopItem(e)            == [op |-> "pop", node |-> e]
SpawnItem(t)          == [op |-> "spawn", node |-> t]
LeaveItem             == [op |-> "leave"]

VARIABLES
  work,     \* the calls in progress
  calls,    \* calls[t]: the calls t has still to make
  ready,    \* ready_tasks_
  current,  \* this_edt_
  down,     \* shutdown_issued_
  exists,   \* objects_: the guids of the objects that exist
  event,    \* event[e]: the state of an event
  post,     \* post[e]: postslots_ of an event
  edt,      \* edt[t]: the state of a task
  db,       \* db[b]: the state of a block
  file,     \* file[f]: the state of a file
  name,     \* name[v]: the guid that a variable or local identifier stands for
  drawn,    \* drawn[i]: how many guids were drawn for the label
  mapped,   \* the events that map entries hold
  triggered \* history: the events that have triggered

vars == <<work, calls, ready, current, down, exists, event, post, edt, db, file,
          name, drawn, mapped, triggered>>
graph == <<event, post, triggered>>
labels == <<name, drawn, mapped>>
loop == <<calls, current, down>>

-----------------------------------------------------------------------------
(***************************************************************************)
(* Objects.                                                                *)
(***************************************************************************)
NewEvent == [satisfied |-> FALSE, data |-> Null, count |-> 0, null |-> {},
             items |-> <<>>, sinks |-> <<>>]
Link(n, s, m) == [node |-> n, slot |-> s, mode |-> m]
Unset == [satisfied |-> FALSE, data |-> Null, mode |-> "RW"]
NewBlock(n) == [acquired |-> FALSE, mode |-> "RW", priv |-> [i \in 1..n |-> 0], pub |-> <<>>,
                file |-> Null, offset |-> 0]

(* resolve_lid, and the program's own use of a variable.                   *)
Guid(x) == IF x \in Names \cup Lids THEN name[x] ELSE x
Live(x) == (x \in Lids => x \in exists) /\ Guid(x) \in exists

Modified(b) == db[b].acquired /\ db[b].mode = "RW" /\ db[b].priv # db[b].pub

(* Part of a file, and a file after part of it was written.                *)
Segment(s, o, n) == [i \in 1..n |-> IF o + i <= Len(s) THEN s[o + i] ELSE 0]
Written(s, o, v) ==
  [i \in 1..(IF o + Len(v) > Len(s) THEN o + Len(v) ELSE Len(s)) |->
     IF i \in o + 1..o + Len(v) THEN v[i - o] ELSE IF i <= Len(s) THEN s[i] ELSE 0]

-----------------------------------------------------------------------------
(***************************************************************************)
(* The assertions of the code, and of memory that is used after it was     *)
(* deleted: what must hold for an item to be executed.                     *)
(***************************************************************************)
Held(b) == b \in exists /\ db[b].acquired /\ b \in edt[current].held

Satisfiable(e, s) ==
  CASE Type[e] \in {"ONCE", "STICKY"} -> ~event[e].satisfied
    [] Type[e] = "LATCH" -> s = IncrSlot \/ event[e].count > 0
    [] OTHER -> TRUE

LegalSatisfy(n, s) ==
  IF n \in Tasks THEN n \in exists /\ s \in DOMAIN edt[n].pre /\ ~edt[n].pre[s].satisfied
  ELSE n \in exists /\ Satisfiable(n, s)

Legal(i) ==
  CASE i.op = "satisfy"     -> LegalSatisfy(i.node, i.slot)
    [] i.op = "api_satisfy" -> Live(i.node) /\ (i.data # Null => i.data \in exists /\ ~Modified(i.data))
    [] i.op = "event"       -> i.how = "check" \/ Guid(i.node) \notin exists
    [] i.op = "add"         -> Live(i.node) /\ (i.source # Null => Live(i.source))
    [] i.op \in {"template", "destroy_template"} -> (i.template \in exists) = (i.op = "destroy_template")
    [] i.op = "copy_db"     -> {i.to, i.from} \subseteq exists
    [] i.op = "create"      -> TemplateOf[i.node] \in exists /\ i.node \notin exists /\ Output[i.node] \notin exists
    [] i.op \in {"destroy", "delete", "spawn"} -> Live(i.node)
    [] i.op = "index"       -> drawn[i.label] < Len(Guids[i.label]) \/ Last(Guids[i.label]) \in exists
    [] i.op = "write"       -> Held(i.block) /\ db[i.block].mode = "RW"
    [] i.op = "release"     -> Held(i.block)
    [] i.op = "destroy_db"  -> i.block \in exists /\ (db[i.block].acquired => i.block \in edt[current].held)
    [] i.op \in {"chunk", "close"} -> i.file \in exists
    [] i.op = "memcpy"      -> Held(edt[current].pre[0].data) /\ Held(edt[current].pre[1].data)
    [] OTHER -> TRUE

Item == Head(work)
Doing(op) == work # <<>> /\ Item.op = op /\ Legal(Item)
Then(items) == work' = items \o Tail(work)

-----------------------------------------------------------------------------
(***************************************************************************)
(* Events.                                                                 *)
(***************************************************************************)
Fires(e, s) ==
  CASE Type[e] = "IDEM"  -> ~event[e].satisfied
    [] Type[e] = "LATCH" -> s = DecrSlot /\ event[e].count = 1
    [] OTHER -> Type[e] # "CHANNEL"

(* event::handle_satisfied, and handle_delete for what triggers once.      *)
Announcements(e, d) ==
  [j \in DOMAIN post[e] |->
     SatisfyItem(post[e][j].node, post[e][j].slot, IF post[e][j].mode = "NULL" THEN Null ELSE d)]

Triggering(e, d) ==
  Announcements(e, d) \o (IF Type[e] \in {"ONCE", "LATCH"} THEN <<DeleteItem(e)>> ELSE <<>>)

(* A channel with a datum and a sink: satisfy_preslot, then pop_front.     *)
Matching(v, e) ==
  <<[op |-> "api_satisfy", node |-> v.sinks[1].node, slot |-> v.sinks[1].slot, data |-> v.items[1]],
    PopItem(e)>>

SatisfyEvent(e, s, dat) ==
  LET d == IF s \in event[e].null THEN Null ELSE dat
      v == [event[e] EXCEPT !.data = d]
      c == [event[e] EXCEPT !.data = d, !.items = Append(@, d)]
  IN  /\ IF Type[e] = "CHANNEL"
           THEN IF c.sinks # <<>>
                  THEN event' = [event EXCEPT ![e] = [c EXCEPT !.items = Tail(@)]] /\ Then(Matching(c, e))
                  ELSE event' = [event EXCEPT ![e] = c] /\ Then(<<>>)
           ELSE /\ event' = [event EXCEPT ![e] =
                     [v EXCEPT !.satisfied = @ \/ Type[e] # "LATCH",
                               !.count = IF Type[e] # "LATCH" THEN @
                                         ELSE IF s = IncrSlot THEN @ + 1 ELSE @ - 1]]
                /\ Then(IF Fires(e, s) THEN Triggering(e, d) ELSE <<>>)
      /\ triggered' = IF Fires(e, s) THEN triggered \cup {e} ELSE triggered
      /\ UNCHANGED <<post, edt, ready>>

SatisfyTask(t, s, d) ==
  LET pre == [edt[t].pre EXCEPT ![s].satisfied = TRUE, ![s].data = d]
  IN  /\ edt' = [edt EXCEPT ![t].pre = pre]
      /\ ready' = IF \A i \in DOMAIN pre : pre[i].satisfied THEN Append(ready, t) ELSE ready
      /\ Then(<<>>)
      /\ UNCHANGED graph

(* event::satisfy and edt::satisfy.                                        *)
Satisfy ==
  /\ Doing("satisfy")
  /\ IF Item.node \in Tasks THEN SatisfyTask(Item.node, Item.slot, Item.data)
     ELSE SatisfyEvent(Item.node, Item.slot, Item.data)
  /\ UNCHANGED <<loop, labels, exists, db, file>>

(* satisfy_event, satisfy_preslot: a latch takes no argument.              *)
ApiSatisfy ==
  LET n == Guid(Item.node)
  IN  /\ Doing("api_satisfy")
      /\ Then(<<SatisfyItem(n, Item.slot, IF n \in Events /\ Type[n] = "LATCH" THEN Null ELSE Item.data)>>)
      /\ UNCHANGED <<loop, labels, graph, exists, edt, db, file, ready>>

Delete ==
  /\ Doing("delete")
  /\ exists' = exists \ {Item.node} /\ Then(<<>>)
  /\ UNCHANGED <<loop, labels, graph, edt, db, file, ready>>

Pop ==
  /\ Doing("pop")
  /\ event' = [event EXCEPT ![Item.node].sinks = Tail(@)] /\ Then(<<>>)
  /\ UNCHANGED <<loop, labels, post, triggered, exists, edt, db, file, ready>>

(* create_event: "if (objects_.exists( *guid)) return 0" with               *)
(* GUID_PROP_CHECK.                                                        *)
CreateEvent ==
  LET e == Guid(Item.node)
  IN  /\ Doing("event")
      /\ exists' = exists \cup {e}
      /\ event' = IF e \in exists THEN event ELSE [event EXCEPT ![e] = NewEvent]
      /\ post' = IF e \in exists THEN post ELSE [post EXCEPT ![e] = <<>>]
      /\ Then(<<>>)
      /\ UNCHANGED <<loop, labels, triggered, edt, db, file, ready>>

DestroyEvent ==
  /\ Doing("destroy")
  /\ exists' = exists \ {Guid(Item.node)} /\ Then(<<>>)
  /\ UNCHANGED <<loop, labels, graph, edt, db, file, ready>>

(* The source of a new link is satisfied already.                          *)
LinkedDatum(e, n, s) == IF event[e].satisfied THEN <<SatisfyItem(n, s, event[e].data)>> ELSE <<>>

SetMode(n, s, m) ==
  IF n \in Tasks THEN edt' = [edt EXCEPT ![n].pre[s].mode = m] ELSE UNCHANGED edt
NullSlots(n, s, m) ==
  IF n \notin Events THEN event
  ELSE [event EXCEPT ![n].null = IF m = "NULL" THEN @ \cup {s} ELSE @ \ {s}]

(* add_dependence: set_preslot, then pass the datum on or link the event.  *)
AddDependence ==
  LET x == Guid(Item.source)
      n == Guid(Item.node)
      s == Item.slot
      m == Item.mode
      ev == NullSlots(n, s, m)
      c == [ev[x] EXCEPT !.sinks = Append(@, Link(n, s, m))]
  IN  /\ Doing("add")
      /\ SetMode(n, s, m)
      /\ IF x \notin Events
           THEN Then(<<SatisfyItem(n, s, x)>>) /\ event' = ev /\ UNCHANGED post
         ELSE IF Type[x] = "CHANNEL"
           THEN /\ UNCHANGED post
                /\ IF c.items # <<>>
                     THEN event' = [ev EXCEPT ![x] = [c EXCEPT !.items = Tail(@)]] /\ Then(Matching(c, x))
                     ELSE event' = [ev EXCEPT ![x] = c] /\ Then(<<>>)
           ELSE /\ event' = ev
                /\ post' = [post EXCEPT ![x] = Append(@, Link(n, s, m))]
                /\ Then(LinkedDatum(x, n, s))
      /\ UNCHANGED <<loop, labels, triggered, exists, db, file, ready>>

(* guid_from_index: a new guid is drawn while no object has the last one.  *)
FromIndex ==
  LET i == Item.label
      k == IF drawn[i] > 0 /\ Guids[i][drawn[i]] \in exists THEN drawn[i] ELSE drawn[i] + 1
  IN  /\ Doing("index")
      /\ drawn' = [drawn EXCEPT ![i] = k]
      /\ name' = [name EXCEPT ![Item.name] = Guids[i][k]]
      /\ Then(<<>>)
      /\ UNCHANGED <<loop, graph, mapped, exists, edt, db, file, ready>>

(* get_from_map: the creator of the map creates the event of the entry at  *)
(* its first use; the caller gets a local identifier for it.               *)
MapGet ==
  LET e == Item.node
  IN  /\ Doing("map_get")
      /\ exists' = exists \cup {Item.lid} \cup (IF e \in mapped THEN {} ELSE {e})
      /\ event' = IF e \in mapped THEN event ELSE [event EXCEPT ![e] = NewEvent]
      /\ mapped' = mapped \cup {e}
      /\ name' = [name EXCEPT ![Item.lid] = e]
      /\ edt' = [edt EXCEPT ![current].lids = @ \cup {Item.lid}]
      /\ Then(<<>>)
      /\ UNCHANGED <<loop, post, triggered, drawn, db, file, ready>>

-----------------------------------------------------------------------------
(***************************************************************************)
(* Tasks.                                                                  *)
(***************************************************************************)
(* The post-slot of a task.                                                *)
Completion(t) ==
  IF t \in Finish THEN Link(Output[t], DecrSlot, "NULL") ELSE Link(Output[t], 0, "RW")

(* Mutant: the scope of the creator is not told of the new task.           *)
EnrolledUncounted(t) ==
  LET l == edt[current].latch
  IN  (IF l = Null THEN <<>> ELSE <<AddCall(Output[t], l, DecrSlot, "NULL")>>)
      \o (IF t \in Finish THEN <<SatisfyCall(Output[t], IncrSlot, Null)>> ELSE <<>>)

(* The constructor of edt: the scope of the creator counts the task, which *)
(* counts itself if it is a finish task.                                   *)
Enrolled(t) ==
  LET l == edt[current].latch
  IN  (IF l = Null THEN <<>>
       ELSE <<SatisfyCall(l, IncrSlot, Null), AddCall(Output[t], l, DecrSlot, "NULL")>>)
      \o (IF t \in Finish THEN <<SatisfyCall(Output[t], IncrSlot, Null)>> ELSE <<>>)

(* create_edt_template, destroy_edt_template.                              *)
CreateTemplate ==
  /\ Doing("template")
  /\ exists' = exists \cup {Item.template} /\ Then(<<>>)
  /\ UNCHANGED <<loop, labels, graph, edt, db, file, ready>>

DestroyTemplate ==
  /\ Doing("destroy_template")
  /\ exists' = exists \ {Item.template} /\ Then(<<>>)
  /\ UNCHANGED <<loop, labels, graph, edt, db, file, ready>>

(* initialize_deps: in the order of the slots, with DB_DEFAULT_MODE.       *)
Dependences(t, deps) ==
  LET given == SelectSeq([j \in DOMAIN deps |-> j], LAMBDA j : deps[j] # Uninitialized)
  IN  [k \in DOMAIN given |-> AddCall(deps[given[k]], t, given[k] - 1, "RW")]

(* create_edt: the output event, the task and then its dependences.        *)
CreateTask ==
  LET t == Item.node
  IN  /\ Doing("create")
      /\ exists' = exists \cup {t, Output[t]}
      /\ event' = [event EXCEPT ![Output[t]] = NewEvent]
      /\ edt' = [edt EXCEPT ![t].pc = "waiting",
                            ![t].latch = IF t \in Finish THEN Output[t] ELSE edt[current].latch]
      /\ Then(Enrolled(t) \o Dependences(t, Item.deps)
              \o (IF Depc[t] = 0 THEN <<SpawnItem(t)>> ELSE <<>>))
      /\ UNCHANGED <<loop, labels, post, triggered, db, file, ready>>

Spawn ==
  /\ Doing("spawn")
  /\ ready' = Append(ready, Item.node) /\ Then(<<>>)
  /\ UNCHANGED <<loop, labels, graph, exists, edt, db, file>>

(* The blocks a task is given, and the mode of the first slot of each.     *)
Given(t) == {edt[t].pre[s].data : s \in {i \in DOMAIN edt[t].pre : edt[t].pre[i].mode # "NULL"}} \ {Null}
FirstMode(t, b) ==
  LET slots == {i \in DOMAIN edt[t].pre : edt[t].pre[i].data = b /\ edt[t].pre[i].mode # "NULL"}
  IN  edt[t].pre[CHOOSE s \in slots : \A i \in slots : s <= i].mode

(* edt::run up to the call of the task's function.                         *)
Begin ==
  /\ work = <<>> /\ current = Null /\ ~down /\ ready # <<>>
  /\ LET t == Head(ready)
     IN  /\ current' = t
         /\ exists' = exists \ {t}
         /\ edt' = [edt EXCEPT ![t].pc = "running", ![t].held = Given(t)]
         /\ db' = [b \in Blocks |->
                     IF b \in Given(t)
                       THEN [db[b] EXCEPT !.acquired = TRUE, !.mode = FirstMode(t, b), !.pub = db[b].priv]
                     ELSE db[b]]
  /\ ready' = Tail(ready)
  /\ UNCHANGED <<work, calls, down, graph, labels, file>>

(* The task makes one of the calls of its current group.                   *)
Call ==
  /\ work = <<>> /\ current # Null /\ calls[current] # <<>>
  /\ \E c \in Head(calls[current]) :
       /\ work' = <<c>>
       /\ calls' = [calls EXCEPT ![current] =
                      IF Head(@) = {c} THEN Tail(@) ELSE <<Head(@) \ {c}>> \o Tail(@)]
  /\ UNCHANGED <<ready, current, down, exists, graph, edt, db, file, labels>>

Released(b) ==
  [db[b] EXCEPT !.acquired = FALSE, !.pub = <<>>,
                !.priv = IF db[b].mode = "RW" THEN db[b].pub ELSE @]

(* The rest of edt::run: blocks are released, the output event satisfied.  *)
End ==
  /\ work = <<>> /\ current # Null /\ calls[current] = <<>>
  /\ edt[current].pc = "running"
  /\ db' = [b \in Blocks |-> IF b \in edt[current].held THEN Released(b) ELSE db[b]]
  /\ edt' = [edt EXCEPT ![current].pc = "ended", ![current].held = {}]
  /\ LET l == Completion(current)
     IN  work' = <<SatisfyItem(l.node, l.slot, IF l.mode = "NULL" THEN Null ELSE Result[current]),
                   LeaveItem>>
  /\ UNCHANGED <<ready, loop, exists, graph, file, labels>>

(* handle_delete of the task: its local identifiers go.                    *)
Leave ==
  /\ Doing("leave")
  /\ exists' = exists \ edt[current].lids
  /\ edt' = [edt EXCEPT ![current].lids = {}]
  /\ current' = Null /\ Then(<<>>)
  /\ UNCHANGED <<calls, down, ready, graph, db, file, labels>>

Shutdown ==
  /\ Doing("shutdown")
  /\ down' = TRUE /\ Then(<<>>)
  /\ UNCHANGED <<calls, current, ready, exists, graph, edt, db, file, labels>>

-----------------------------------------------------------------------------
(***************************************************************************)
(* Blocks and files.                                                       *)
(***************************************************************************)
CreateBlock ==
  LET b == Item.block
      x == NewBlock(Item.size)
  IN  /\ Doing("block")
      /\ exists' = exists \cup {b}
      /\ db' = [db EXCEPT ![b] = IF Item.acquire THEN [x EXCEPT !.acquired = TRUE, !.pub = x.priv] ELSE x]
      /\ edt' = IF Item.acquire THEN [edt EXCEPT ![current].held = @ \cup {b}] ELSE edt
      /\ Then(<<>>)
      /\ UNCHANGED <<loop, labels, graph, file, ready>>

(* The task writes through the pointer it has.                             *)
Write ==
  /\ Doing("write")
  /\ db' = [db EXCEPT ![Item.block].pub = Item.value]
  /\ Then(<<>>)
  /\ UNCHANGED <<loop, labels, graph, exists, edt, file, ready>>

Release ==
  /\ Doing("release")
  /\ db' = [db EXCEPT ![Item.block] = Released(Item.block)]
  /\ edt' = [edt EXCEPT ![current].held = @ \ {Item.block}]
  /\ Then(<<>>)
  /\ UNCHANGED <<loop, labels, graph, exists, file, ready>>

(* db::prepare_destroy and file::remove_ref.                               *)
WrittenBack(b) ==
  LET x == db[b]
      f == file[x.file]
  IN  [f EXCEPT !.data = Written(@, x.offset, x.priv), !.pos = x.offset + Len(x.priv), !.refs = @ - 1]

(* Mutant: a chunk that goes leaves its reference to the file.             *)
UnreferencedNever(f, v) == {}

(* The file is deleted with its last chunk, once it was released.          *)
Unreferenced(f, v) == IF v.refs = 0 /\ v.destroy THEN {f} ELSE {}

(* destroy_db: prepare_destroy, then release_db if the block is acquired.  *)
DestroyBlock ==
  LET b == Item.block
      f == db[b].file
  IN  /\ Doing("destroy_db")
      /\ file' = IF f = Null THEN file ELSE [file EXCEPT ![f] = WrittenBack(b)]
      /\ exists' = exists \ ({b} \cup IF f = Null THEN {} ELSE Unreferenced(f, file'[f]))
      /\ db' = IF db[b].acquired THEN [db EXCEPT ![b] = Released(b)] ELSE db
      /\ edt' = [edt EXCEPT ![current].held = @ \ {b}]
      /\ Then(<<>>)
      /\ UNCHANGED <<loop, labels, graph, ready>>

(* open_file: the descriptor is a block the task has acquired.             *)
OpenFile ==
  /\ Doing("open")
  /\ exists' = exists \cup {Item.file}
  /\ Then(<<BlockCall(Item.block, 1, TRUE)>>)
  /\ UNCHANGED <<loop, labels, graph, edt, db, file, ready>>

(* get_chunk: what there is of the chunk is read from where the file       *)
(* stands, which is not changed first.                                     *)
GetChunk ==
  LET b == Item.block
      f == file[Item.file]
      end == IF Item.offset + Item.size > Len(f.data) THEN Len(f.data) ELSE Item.offset + Item.size
      got == IF Item.offset >= Len(f.data) THEN 0
             ELSE IF end - Item.offset > Len(f.data) - f.pos THEN Len(f.data) - f.pos
             ELSE end - Item.offset
  IN  /\ Doing("chunk")
      /\ exists' = exists \cup {b}
      /\ db' = [db EXCEPT ![b] =
                  [NewBlock(Item.size) EXCEPT !.file = Item.file, !.offset = Item.offset,
                     !.priv = [i \in DOMAIN @ |-> IF i <= got THEN f.data[f.pos + i] ELSE 0]]]
      /\ file' = [file EXCEPT ![Item.file].pos = @ + got, ![Item.file].refs = @ + 1]
      /\ Then(<<>>)
      /\ UNCHANGED <<loop, labels, graph, edt, ready>>

CloseFile ==
  LET f == Item.file
      v == [file[f] EXCEPT !.destroy = TRUE]
  IN  /\ Doing("close")
      /\ file' = [file EXCEPT ![f] = v]
      /\ exists' = exists \ (IF v.refs = 0 THEN {f} ELSE {})
      /\ Then(<<>>)
      /\ UNCHANGED <<loop, labels, graph, edt, db, ready>>

(* copy_db: a task that waits for the source and the destination.          *)
CopyDb ==
  LET t == Item.node
  IN  /\ Doing("copy_db")
      /\ Then(<<CreateCall(t, <<>>), AddCall(Item.from, t, 0, "RO"), AddCall(Item.to, t, 1, "RW")>>)
      /\ UNCHANGED <<loop, labels, graph, exists, edt, db, file, ready>>

(* The function copy_edt, of the tasks that copy_db creates.               *)
Copy ==
  LET src == edt[current].pre[0].data
      dst == edt[current].pre[1].data
  IN  /\ Doing("memcpy")
      /\ db' = [db EXCEPT ![dst].pub = Written(@, Item.offset, Segment(db[src].pub, Item.from, Item.size))]
      /\ Then(IF Item.back THEN <<ReleaseCall(src), DestroyDbCall(src)>> ELSE <<>>)
      /\ UNCHANGED <<loop, labels, graph, exists, edt, file, ready>>

-----------------------------------------------------------------------------
Execute ==
  \/ Satisfy \/ ApiSatisfy \/ Delete \/ Pop \/ CreateEvent \/ DestroyEvent \/ AddDependence
  \/ FromIndex \/ MapGet \/ CreateTemplate \/ DestroyTemplate \/ CreateTask \/ Spawn \/ Leave \/ Shutdown
  \/ CreateBlock \/ Write \/ Release \/ DestroyBlock \/ OpenFile \/ GetChunk \/ CloseFile
  \/ CopyDb \/ Copy

Init ==
  /\ work = <<>> /\ current = Main /\ ready = <<>> /\ down = FALSE
  /\ calls = Program
  /\ exists = {Output[Main], CopyTemplate}
  /\ event = [e \in Events |-> NewEvent]
  /\ post = [e \in Events |-> <<>>]
  /\ edt = [t \in Tasks |-> [pc |-> IF t = Main THEN "running" ELSE "absent", latch |-> Null,
                             pre |-> [s \in 0..Depc[t] - 1 |-> Unset], held |-> {}, lids |-> {}]]
  /\ db = [b \in Blocks |-> NewBlock(0)]
  /\ file = [f \in Files |-> [data |-> Contents[f], pos |-> 0, refs |-> 0, destroy |-> FALSE]]
  /\ name = [v \in Names \cup Lids |-> Null]
  /\ drawn = [i \in Labels |-> 0]
  /\ mapped = {} /\ triggered = {}

Done == down /\ current = Null
Stopped == Done /\ UNCHANGED vars

Next == Execute \/ Begin \/ Call \/ End \/ Stopped

Spec == Init /\ [][Next]_vars

-----------------------------------------------------------------------------
(***************************************************************************)
(* Properties.                                                             *)
(***************************************************************************)
(* The recursion never reaches an object that was deleted on the way, no   *)
(* slot is satisfied twice, no latch counts below zero, a task finds its   *)
(* blocks there and free, and the list of ready tasks is never empty       *)
(* before shutdown ("-> deadlock").                                        *)
AssertionsHold ==
  /\ work # <<>> => Legal(Item)
  /\ current = Null /\ ~down =>
       /\ ready # <<>>
       /\ Head(ready) \in exists
       /\ \A b \in Given(Head(ready)) : b \in exists /\ ~db[b].acquired
  /\ current # Null => \A b \in edt[current].held : b \in exists /\ db[b].acquired

(* What the program leaves behind when it is over.                         *)
CONSTANTS Left, \* the objects that are left
          Saved \* Saved[f]: what is in the file

(* The program is deterministic: whatever the order of its calls, the same *)
(* objects are left, no event or file that should have deleted itself      *)
(* among them, and the files hold the same data.                           *)
ResultIndependentOfOrder ==
  Done => exists = Left /\ \A f \in Files : file[f].data = Saved[f]

(* A program without races has one result, and gets to it (a program that  *)
(* does not come to its end deadlocks).                                    *)
RunsToOneResult == AssertionsHold /\ ResultIndependentOfOrder

(* The scopes around a task in the program text.                           *)
CallsOf(t) == UNION Range(Program[t])
Creators(u) == {t \in Tasks : \E c \in CallsOf(t) : c.op \in {"create", "copy_db"} /\ c.node = u}
Creator == [u \in Tasks \ {Main} |-> CHOOSE t \in Tasks : t \in Creators(u)]
ScopesOf[t \in Tasks] ==
  IF t = Main THEN {} ELSE ScopesOf[Creator[t]] \cup ({Creator[t]} \cap Finish)

(* The tasks whose output events are linked to a task.                     *)
Sources(u) ==
  LET all == UNION {CallsOf(t) : t \in Tasks}
  IN  {c.source : c \in {d \in all : d.op = "add" /\ d.node = u}}
      \cup UNION {Range(c.deps) : c \in {d \in all : d.op = "create" /\ d.node = u}}
      \cup {c.from : c \in {d \in all : d.op = "copy_db" /\ d.node = u}}
Feeders == [u \in Tasks |-> {t \in Tasks : Output[t] \in Sources(u)}]

Promise == INSTANCE FinishPromise WITH
  Needs  <- Feeders,
  phase  <- [t \in Tasks |-> edt[t].pc],
  scopes <- [t \in Tasks |-> IF edt[t].pc = "absent" THEN {} ELSE ScopesOf[t]],
  fired  <- {t \in Tasks : Output[t] \in triggered}

(* The recursive satisfaction of events implements finish scopes.          *)
ImplementsPromise == Promise!Spec
=============================================================================
