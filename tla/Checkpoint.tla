------------------------------ MODULE Checkpoint ------------------------------
(***************************************************************************)
(* Saving the distributed runtime to files, and starting it again from     *)
(* them after a crash.                                                     *)
(*                                                                         *)
(* A manager thread on the root pauses all nodes, flushes the channels,    *)
(* has every node write its memory to a file, and resumes them             *)
(* (do_periodic_save).  A runtime started with --ocr:load pauses, has      *)
(* every node read its file, and resumes (loader_body).  How pausing and   *)
(* flushing work is in RuntimeControl; here the manager waits for it.      *)
(*                                                                         *)
(* A file is a sequence of items, as the templates write them: the reader  *)
(* takes the items one by one, and what it takes for what is only a matter *)
(* of the order.  A reader that does not find the item it expects has      *)
(* misread the file (in the code it goes on with arbitrary values).        *)
(*                                                                         *)
(* The program is small: tasks that decrement one latch event of the root, *)
(* create other tasks, use a data block of the root, or destroy a labelled *)
(* event.  Its messages are in the streams of the tasks (MsgStream).       *)
(***************************************************************************)
EXTENDS Integers, Sequences, FiniteSets, FiniteSetsExt, SequencesExt, TLC

CONSTANTS
  Nodes, Root,
  Builds,      \* the builds: TRUE keeps the assertions, FALSE compiles them out
  Saves,       \* BOUND: how often the runtime is saved
  Tasks,
  First,       \* the tasks spawned at the start
  Home,        \* Home[t]: the node that runs t
  Program,     \* Program[t]: the messages t sends: "decr" to the latch, "label" to E
  Child,       \* Child[t]: the task that t creates on its node, or Null
  Local,       \* the tasks that use the block of their own node
  Remote,      \* the tasks that wait for a copy of the root's block
  Label,       \* the label of the event E, which a message destroys
  Null

ASSUME CheckpointAssumption ==
  /\ IsFiniteSet(Nodes) /\ Root \in Nodes /\ Saves \in Nat
  /\ Builds \subseteq BOOLEAN /\ Null \notin Tasks
  /\ First \subseteq Tasks /\ Local \cup Remote \subseteq Tasks
  /\ Home \in [Tasks -> Nodes] /\ Program \in [Tasks -> Seq({"decr", "label"})]
  /\ Child \in [Tasks -> Tasks \cup {Null}]

VARIABLES
  asserts,     \* the assertions are compiled in
  memory,      \* memory[n]: what node n would write
  runnable,    \* runnable[n]: the tasks its task group will run
  paused,      \* is_paused_
  wire,        \* wire[m][n]: the messages from m to n not received yet
  backlog,     \* backlog[n]: what resume has to process: it was put aside by n
  main,        \* main[n]: where n's main thread is
  manager,     \* the manager thread: [at, does, left]; left is nodes_to_pause_
  file,        \* file[n]: the items in p<n>.bdump; Null before the first save
  writing,     \* the nodes that have opened their file and not closed it
  saves,       \* how often a save was started
  crashed,     \* the program has crashed once
  saved,       \* history: saved[n]: the memory n wrote last, and in which save
  read,        \* history: read[n]: the memory n got from its file, and saved[n]
  early,       \* history: the nodes that loaded before they had joined the barrier
  faults       \* what went wrong

live    == <<memory, runnable, paused, wire, backlog, main, manager>>
disk    == <<file, writing, saves, saved>>
history == <<asserts, crashed, read, early, faults>>
vars    == <<live, disk, history>>

-----------------------------------------------------------------------------
(***************************************************************************)
(* Objects.  An object is a record: its type, the fields that are written, *)
(* and those that are not.  Layout lists the fields in the order of        *)
(* write_impl and of the reading constructor.                              *)
(***************************************************************************)
NodeFields   == <<"postslots">>
EdtFields    == NodeFields \o <<"self", "func", "ordered", "acquired", "state">>
EventFields  == NodeFields \o <<"triggered", "destroyed", "latch">>
OwnerFields  == <<"master", "wanted">>        \* owner_data
MasterFields == <<"pending", "phase">>        \* master_data
DbFields     == <<"destroyed", "locks", "waitlist">> \o OwnerFields \o MasterFields
                \o <<"self", "state", "copylist">>

Layout == [edt |-> EdtFields, event |-> EventFields, db |-> DbFields, template |-> <<"func">>]

(* What a reading constructor leaves as the default constructors make it.  *)
Unwritten == [
  edt      |-> ("pointers" :> {}),
  event    |-> ("self" :> Null),
  db       |-> ("waiters" :> {}),
  template |-> <<>>]

Edt(t) ==
  [type |-> "edt", postslots |-> {}, self |-> t, func |-> t, acquired |-> 0,
   ordered |-> IF t \in Local \cup Remote THEN {"block"} ELSE {},
   pointers |-> IF t \in Local THEN {"block"} ELSE {},
   state |-> IF t \in Remote THEN "created" ELSE "spawning"]
Latch(k) ==
  [type |-> "event", postslots |-> {}, triggered |-> k = 0, destroyed |-> k = 0,
   latch |-> k, self |-> Null]
Labelled ==
  [type |-> "event", postslots |-> {}, triggered |-> FALSE, destroyed |-> FALSE,
   latch |-> 0, self |-> Label]
Block(state, buffer) ==
  [type |-> "db", destroyed |-> FALSE, locks |-> 0, waitlist |-> <<>>, master |-> Root,
   wanted |-> <<>>, pending |-> 0, phase |-> "MS_idle", self |-> "block", state |-> state,
   copylist |-> {}, waiters |-> {}, buffer |-> buffer]
Template == [type |-> "template", func |-> "f"]

NoCache  == [objects |-> <<>>, next |-> 0, max |-> 0]

-----------------------------------------------------------------------------
(***************************************************************************)
(* Memory: what runtime::write goes through.                               *)
(***************************************************************************)
N == Cardinality(Nodes)

(* A node that has just been started: data_ has two reserved slots.        *)
Fresh == [
  done     |-> TRUE,               \* barrier_done_: the barrier of the start
  count    |-> N,                  \* barrier_count_
  messages |-> <<>>,               \* paused_messages_
  tasks    |-> <<>>,               \* paused_tasks_
  streams  |-> <<>>,               \* edt_queues
  data     |-> <<Null, Null>>,     \* data_ of the repository
  mapped   |-> <<>>,               \* mapped_objects_
  graves   |-> <<>>,               \* mapped_objects_graveyard_
  cache    |-> [m \in Nodes |-> NoCache]]

(* runtime::clear; the flags of the barrier are left.  The repository has   *)
(* no reserved slots afterwards: they are in the file.                      *)
EmptyStreams(m)    == [m EXCEPT !.streams = <<>>]
EmptyRepository(m) == [m EXCEPT !.data = <<>>, !.mapped = <<>>, !.graves = <<>>]
EmptyCache(m)      == [m EXCEPT !.cache = [n \in Nodes |-> NoCache]]
ClearedButRepository(m) ==     \* Mutant: the repository is kept.
  EmptyCache(EmptyStreams([m EXCEPT !.messages = <<>>, !.tasks = <<>>]))
Cleared(m) ==
  EmptyCache(EmptyRepository(EmptyStreams([m EXCEPT !.messages = <<>>, !.tasks = <<>>])))

-----------------------------------------------------------------------------
(***************************************************************************)
(* Writing: memory as a sequence of items.                                 *)
(***************************************************************************)
Item(what, value) == <<what, value>>
Items(whats, values) == [i \in DOMAIN whats |-> Item(whats[i], values[whats[i]])]

(* A block without data writes no buffer.                                  *)
WriteBuffer(o) ==
  IF o.type = "db" /\ ~o.destroyed /\ o.buffer # Null THEN <<Item("buffer", o.buffer)>> ELSE <<>>

WriteObject(o) ==
  IF o = Null THEN <<Item("type", "none")>>
  ELSE <<Item("type", o.type)>> \o Items(Layout[o.type], o) \o WriteBuffer(o)

WriteEntries(f) ==
  LET gs == SetToSeq(DOMAIN f) IN
  FlattenSeq([i \in DOMAIN gs |-> <<Item("guid", gs[i])>> \o WriteObject(f[gs[i]])])

WriteStreams(f) ==
  LET ts == SetToSeq(DOMAIN f) IN
  FlattenSeq([i \in DOMAIN ts |-> <<Item("stream", ts[i])>>
              \o Items(<<"sent", "confirmed", "next">>, f[ts[i]])])

(* The communicator: the number of nodes and the streams.                  *)
WriteCommunicator(m) ==
  <<Item("size", N), Item("streams", Cardinality(DOMAIN m.streams))>> \o WriteStreams(m.streams)

WriteCache(c) ==
  <<Item("entries", Cardinality(DOMAIN c.objects))>> \o WriteEntries(c.objects)
  \o Items(<<"next", "max">>, c)

NodeSeq == SetToSeq(Nodes)

(* runtime::write.  Only the number of the messages put aside is written,  *)
(* and no message that a stream holds back.                                *)
WriteMemory(m) ==
  Items(<<"done", "count">>, m)
  \o <<Item("messages", Len(m.messages)), Item("tasks", m.tasks)>> \o WriteCommunicator(m)
  \o <<Item("repository", Len(m.data))>> \o FlattenSeq([i \in DOMAIN m.data |-> WriteObject(m.data[i])])
  \o <<Item("mapped", Cardinality(DOMAIN m.mapped))>> \o WriteEntries(m.mapped)
  \o <<Item("graves", Len(m.graves))>>
  \o FlattenSeq([i \in DOMAIN m.graves |-> <<Item("guid", m.graves[i].guid)>> \o WriteObject(m.graves[i].object)])
  \o <<Item("cache", N)>> \o FlattenSeq([i \in DOMAIN NodeSeq |-> WriteCache(m.cache[NodeSeq[i]])])

(* The assertions that guard what is UNIMPLEMENTED.                        *)
Writable(m) == m.messages = <<>> /\ m.streams = <<>>
Readable(m) == m.streams = <<>> /\ \A i \in DOMAIN m.data : m.data[i] = Null \/ m.data[i].type # "edt"

-----------------------------------------------------------------------------
(***************************************************************************)
(* Reading.  A cursor is the rest of the file, whether everything was      *)
(* found where it was expected, and the value read last.                   *)
(***************************************************************************)
Cursor(items) == [rest |-> items, ok |-> TRUE, value |-> Null]
Value(c, v)   == [c EXCEPT !.value = v]

Take(c, what) ==
  IF c.ok /\ c.rest # <<>> /\ Head(c.rest)[1] = what
  THEN [rest |-> Tail(c.rest), ok |-> TRUE, value |-> Head(c.rest)[2]]
  ELSE [rest |-> <<>>, ok |-> FALSE, value |-> Null]

(* One value after another, Read by name, as a record.                      *)
TakeEach(c, whats, Read(_, _)) ==
  FoldLeft(LAMBDA a, w : LET r == Read(a, w) IN Value(r, (w :> r.value) @@ a.value),
           Value(c, <<>>), whats)

TakeAll(c, whats) == TakeEach(c, whats, Take)

(* A number, and then that many values, each read by Read.                 *)
TakeMany(c, what, Read(_)) ==
  LET k == Take(c, what) IN
  FoldLeft(LAMBDA a, i : LET r == Read(a) IN Value(r, Append(a.value, r.value)),
           Value(k, <<>>), [i \in 1..(IF k.ok THEN k.value ELSE 0) |-> i])

(* The buffer of a block that is not destroyed is expected.                *)
ReadBuffer(o) ==
  IF o.ok /\ ~o.value.destroyed
  THEN LET r == Take(o, "buffer") IN Value(r, ("buffer" :> r.value) @@ o.value)
  ELSE o

ReadObject(c) ==
  LET t == Take(c, "type")
      o == TakeAll(t, Layout[t.value])
      b == IF t.value = "db" THEN ReadBuffer(o) ELSE o
  IN IF ~t.ok \/ t.value = "none" THEN Value(t, Null)
     ELSE Value(b, ("type" :> t.value) @@ b.value @@ Unwritten[t.value])

ReadEntry(c) ==
  LET g == Take(c, "guid")
      o == ReadObject(g)
  IN Value(o, [guid |-> g.value, object |-> o.value])

ReadStream(c) ==
  LET t == Take(c, "stream")
      q == TakeAll(t, <<"sent", "confirmed", "next">>)
  IN Value(q, [guid |-> t.value, object |-> q.value @@ ("todo" :> <<>>)])

(* The entries as a map: an insert does not overwrite.                     *)
AsMap(entries) ==
  [g \in {e.guid : e \in Range(entries)} |->
     entries[CHOOSE i \in DOMAIN entries : entries[i].guid = g].object]

ReadCache(c) ==
  LET e == TakeMany(c, "entries", ReadEntry)
      k == TakeAll(e, <<"next", "max">>)
  IN Value(k, k.value @@ ("objects" :> AsMap(e.value)))

(* runtime::read, into a memory that was cleared.                          *)
Sections == <<"flags", "messages", "tasks", "size", "streams", "repository", "mapped", "graves", "cache">>
ReadSection(c, s) ==
  CASE s = "flags"                         -> TakeAll(c, <<"done", "count">>)
    [] s \in {"messages", "tasks", "size"} -> Take(c, s)
    [] s = "streams"                       -> TakeMany(c, s, ReadStream)
    [] s = "repository"                    -> TakeMany(c, s, ReadObject)
    [] s \in {"mapped", "graves"}          -> TakeMany(c, s, ReadEntry)
    [] s = "cache"                         -> TakeMany(c, s, ReadCache)

Restored(m, c) ==
  LET v == c.value IN
  Value(c, IF ~c.ok THEN Null ELSE
    [m EXCEPT !.done = v.flags.done, !.count = v.flags.count,
              !.tasks = @ \o v.tasks, !.streams = AsMap(v.streams) @@ @,
              !.data = @ \o v.repository, !.mapped = @ @@ AsMap(v.mapped),
              !.graves = @ \o v.graves,
              !.cache = [n \in Nodes |-> v.cache[CHOOSE i \in DOMAIN NodeSeq : NodeSeq[i] = n]]])
ReadMemory(m, items) == Restored(m, TakeEach(Cursor(items), Sections, ReadSection))

-----------------------------------------------------------------------------
(***************************************************************************)
(* The program.                                                            *)
(***************************************************************************)
LatchAt == 4
BlockAt == 5
latch   == memory[Root].data[LatchAt]
Finished == Len(memory[Root].data) >= LatchAt /\ latch.triggered
Up       == faults = {}

IsEdt(o, t)  == o # Null /\ o.type = "edt" /\ o.self = t
Position(t)  == CHOOSE i \in DOMAIN memory[Home[t]].data : IsEdt(memory[Home[t]].data[i], t)
Task(t)      == memory[Home[t]].data[Position(t)]

Message(kind, t) == [kind |-> kind, task |-> t]
Goal(x) == IF x.kind = "decr" THEN Root ELSE Home[x.task]
Fails(what, n) == faults' = faults \cup {[what |-> what, node |-> n]}

(* spawn__locked: a paused node puts the task aside.                       *)
Spawned(m, n, t) == IF t = Null \/ ~paused[n] THEN m ELSE [m EXCEPT !.tasks = Append(@, t)]
Runs(n, t)       == IF t = Null \/ paused[n] THEN {} ELSE {t}

(* The node runs a task.  It creates its child, and its stream sends the   *)
(* first message.  A task read from a file has no handle to its block.     *)
Run(n, t) ==
  /\ Up /\ t \in runnable[n]
  /\ LET m     == memory[n]
         o     == Task(t)
         child == Child[t]
         pos   == Position(t)
         msgs  == [i \in DOMAIN Program[t] |-> Message(Program[t][i], t)]
         ran   == [m EXCEPT !.data[pos].state = "done", !.data[pos].pointers = {},
                            !.data = @ \o (IF child = Null THEN <<>> ELSE <<Edt(child)>>),
                            !.streams = IF msgs = <<>> THEN @
                                        ELSE (t :> [sent |-> 1, confirmed |-> 0, next |-> Len(msgs) + 1,
                                                    todo |-> Tail(msgs)]) @@ @]
     IN IF o.ordered # {} /\ o.pointers = {}
        THEN Fails("no handle", n) /\ UNCHANGED <<memory, runnable, wire>>
        ELSE /\ memory' = [memory EXCEPT ![n] = Spawned(ran, n, child)]
             /\ runnable' = [runnable EXCEPT ![n] = (@ \ {t}) \cup Runs(n, child)]
             /\ wire' = IF msgs = <<>> THEN wire
                        ELSE [wire EXCEPT ![n][Goal(Head(msgs))] = Append(@, Head(msgs))]
             /\ UNCHANGED faults
  /\ UNCHANGED <<paused, backlog, main, manager, disk, asserts, crashed, read, early>>

(* What handling x does to the memory of n.                                *)
Decremented(m) == [m EXCEPT !.data[LatchAt] = Latch(@.latch - 1)]
Buried(m, e)   == [m EXCEPT !.mapped = [g \in DOMAIN @ \ {Label} |-> @[g]],
                            !.graves = Append(@, [guid |-> Label, object |-> e])]
Destroyed(m)   == LET e == [m.mapped[Label] EXCEPT !.triggered = TRUE, !.destroyed = TRUE]
                  IN IF e.self = Label THEN Buried(m, e) ELSE [m EXCEPT !.mapped[Label] = e]
Fetched(m, t)  == [m EXCEPT !.cache[Root].objects = ("block" :> Block("DBS_invalid", Null)) @@ @,
                            !.data[Position(t)].state = "acquiring"]
Copied(m)      == [m EXCEPT !.data[BlockAt].copylist = Nodes]
Arrived(m, t)  == [m EXCEPT !.cache[Root].objects["block"] = Block("DBS_copy", "data"),
                            !.data[Position(t)].pointers = {"block"},
                            !.data[Position(t)].state = "spawning"]
Confirmed(m, t) ==
  LET q == m.streams[t] IN
  [m EXCEPT !.streams[t] = IF q.todo = <<>> THEN [q EXCEPT !.confirmed = q.sent]
                           ELSE [q EXCEPT !.confirmed = q.sent, !.sent = @ + 1, !.todo = Tail(@)]]

(* One message handled by n: its effect, the messages sent, the task run.  *)
Handled(n, x) ==
  LET m == memory[n]
      t == x.task
  IN CASE x.kind = "decr"    -> [memory |-> Decremented(m), sends |-> <<Message("confirm", t)>>, spawns |-> Null]
       [] x.kind = "label"   -> [memory |-> Destroyed(m), sends |-> <<Message("confirm", t)>>, spawns |-> Null]
       [] x.kind = "satisfy" -> [memory |-> Fetched(m, t), sends |-> <<Message("request", t)>>, spawns |-> Null]
       [] x.kind = "request" -> [memory |-> Copied(m), sends |-> <<Message("copy", t)>>, spawns |-> Null]
       [] x.kind = "copy"    -> [memory |-> Arrived(m, t), sends |-> <<>>, spawns |-> t]
       [] x.kind = "confirm" -> [memory |-> Confirmed(m, t),
                                 sends |-> SubSeq(m.streams[t].todo, 1, Min({1, Len(m.streams[t].todo)})),
                                 spawns |-> Null]
Target(x) == CASE x.kind \in {"decr", "request"} -> Root [] OTHER -> Home[x.task]
Handle(n, x) ==
  LET h == Handled(n, x) IN
  /\ memory' = [memory EXCEPT ![n] = h.memory]
  /\ runnable' = [runnable EXCEPT ![n] = @ \cup ({h.spawns} \ {Null})]

(* A receiver of n takes a message from m: handles it or puts it aside.    *)
Receive(m, n) ==
  /\ Up /\ wire[m][n] # <<>>
  /\ LET x == Head(wire[m][n])
         rest == [wire EXCEPT ![m][n] = Tail(@)]
     IN IF paused[n]
        THEN /\ memory' = [memory EXCEPT ![n].messages = Append(@, x)]
             /\ wire' = rest
             /\ UNCHANGED runnable
        ELSE /\ Handle(n, x)
             /\ wire' = FoldLeft(LAMBDA w, y : [w EXCEPT ![n][Target(y)] = Append(@, y)],
                                 rest, Handled(n, x).sends)
  /\ UNCHANGED <<paused, backlog, main, manager, disk, history>>

(* resume goes through the messages that were put aside.                   *)
Process(n) ==
  /\ Up /\ backlog[n] # <<>>
  /\ LET x == Head(backlog[n]) IN
     /\ Handle(n, x)
     /\ wire' = FoldLeft(LAMBDA w, y : [w EXCEPT ![n][Target(y)] = Append(@, y)],
                         wire, Handled(n, x).sends)
  /\ backlog' = [backlog EXCEPT ![n] = Tail(@)]
  /\ UNCHANGED <<paused, main, manager, disk, history>>

-----------------------------------------------------------------------------
(***************************************************************************)
(* The manager thread.  It asks every node and waits for all the answers.  *)
(***************************************************************************)
Manager(at, does, left) == manager' = [at |-> at, does |-> does, left |-> left]
Told(n)  == [manager EXCEPT !.left = @ \ {n}]
After(n, at) ==     \* n has answered; after the last answer the manager goes on
  manager' = IF manager.left = {n}
             THEN [manager EXCEPT !.at = at, !.left = Nodes] ELSE Told(n)

(* do_periodic_save: a program that has ended is not saved any more.       *)
BeginSave ==
  /\ Up /\ manager.at = "idle" /\ saves < Saves /\ ~Finished
  /\ \A n \in Nodes : main[n] = "running" /\ ~paused[n]
  /\ saves' = saves + 1
  /\ Manager("pausing", "save", Nodes)
  /\ UNCHANGED <<memory, runnable, paused, wire, backlog, main, file, writing, saved, history>>

(* pause: from now on n puts its tasks and messages aside, and it answers  *)
(* when no task runs (Run is one step).                                    *)
PauseNode(n) ==
  /\ Up /\ manager.at = "pausing" /\ n \in manager.left /\ ~paused[n] /\ backlog[n] = <<>>
  /\ paused' = [paused EXCEPT ![n] = TRUE]
  /\ UNCHANGED <<memory, runnable, wire, backlog, main, manager, disk, history>>
PausedNode(n) ==
  /\ Up /\ manager.at = "pausing" /\ n \in manager.left /\ paused[n] /\ runnable[n] = {}
  /\ After(n, "flushing")
  /\ UNCHANGED <<memory, runnable, paused, wire, backlog, main, disk, history>>

(* The flush: every channel has been emptied (RuntimeControl).             *)
FlushedAnyway ==     \* Mutant: the manager does not wait.
  /\ Up /\ manager.at = "flushing"
  /\ Manager(IF manager.does = "save" THEN "saving" ELSE "loading", manager.does, Nodes)
  /\ UNCHANGED <<memory, runnable, paused, wire, backlog, main, disk, history>>
Flushed ==
  /\ Up /\ manager.at = "flushing"
  /\ \A m, n \in Nodes : wire[m][n] = <<>>
  /\ Manager(IF manager.does = "save" THEN "saving" ELSE "loading", manager.does, Nodes)
  /\ UNCHANGED <<memory, runnable, paused, wire, backlog, main, disk, history>>

(* runtime::save.  The text dump is written before the binary file is      *)
(* opened, which empties it, so it meets the assertions first.             *)
SaveOpen(n) ==
  /\ Up /\ manager.at = "saving" /\ n \in manager.left \ writing
  /\ IF asserts /\ ~Writable(memory[n])
     THEN Fails("unimplemented", n) /\ UNCHANGED <<file, writing>>
     ELSE /\ file' = [file EXCEPT ![n] = <<>>]
          /\ writing' = writing \cup {n}
          /\ UNCHANGED faults
  /\ UNCHANGED <<live, saves, saved, asserts, crashed, read, early>>
SaveClose(n) ==
  /\ Up /\ manager.at = "saving" /\ n \in writing
  /\ file' = [file EXCEPT ![n] = WriteMemory(memory[n])]
  /\ writing' = writing \ {n}
  /\ saved' = [saved EXCEPT ![n] = [memory |-> memory[n], round |-> saves]]
  /\ After(n, "resuming")
  /\ UNCHANGED <<memory, runnable, paused, wire, backlog, main, saves, history>>

(* runtime::load, into a runtime that has been cleared.                    *)
LoadNode(n) ==
  /\ Up /\ manager.at = "loading" /\ n \in manager.left
  /\ \E r \in {ReadMemory(Cleared(memory[n]), file[n])} :
     LET fault == IF ~r.ok THEN "misread"
                  ELSE IF asserts /\ ~Readable(r.value) THEN "unimplemented"
                  ELSE IF r.value.tasks # <<>> /\ main[n] = "starting" THEN "no group"
                  ELSE "none"
     IN IF fault # "none"
        THEN Fails(fault, n) /\ UNCHANGED <<memory, manager, read, early>>
        ELSE /\ memory' = [memory EXCEPT ![n] = r.value]
             /\ read' = [read EXCEPT ![n] = [memory |-> r.value, saved |-> saved[n]]]
             /\ early' = IF main[n] \in {"starting", "grouped"} THEN early \cup {n} ELSE early
             /\ After(n, "resuming")
             /\ UNCHANGED faults
  /\ UNCHANGED <<runnable, paused, wire, backlog, main, disk, asserts, crashed>>

(* resume.  The manager does not wait for it.  The flags of the tasks and  *)
(* messages put aside are cleared; the messages are processed in turn.     *)
Resumed(n, tasks) ==
  /\ Up /\ manager.at = "resuming" /\ n \in manager.left
  /\ paused' = [paused EXCEPT ![n] = FALSE]
  /\ runnable' = [runnable EXCEPT ![n] = @ \cup Range(tasks)]
  /\ backlog' = [backlog EXCEPT ![n] = memory[n].messages]
  /\ memory' = [memory EXCEPT ![n].tasks = <<>>, ![n].messages = <<>>]
  /\ manager' = IF manager.left = {n} THEN [manager EXCEPT !.at = "idle", !.left = {}] ELSE Told(n)
  /\ UNCHANGED <<wire, main, disk, history>>
ResumeMessagesOnly(n) == Resumed(n, <<>>)     \* Mutant: the tasks stay aside.
ResumeNode(n) == Resumed(n, memory[n].tasks)

-----------------------------------------------------------------------------
(***************************************************************************)
(* The crash, and the restart with --ocr:load.                             *)
(***************************************************************************)
NoWires == [m \in Nodes |-> [n \in Nodes |-> <<>>]]
None    == [n \in Nodes |-> {}]
Empty   == [n \in Nodes |-> <<>>]
Started == [Fresh EXCEPT !.count = 0, !.done = FALSE]

Crash ==
  /\ Up /\ ~crashed /\ ~Finished /\ crashed' = TRUE
  /\ \A n \in Nodes : file[n] # Null
  /\ memory' = [n \in Nodes |-> Started]
  /\ runnable' = None /\ paused' = [n \in Nodes |-> FALSE]
  /\ wire' = NoWires /\ backlog' = Empty
  /\ main' = [n \in Nodes |-> "starting"]
  /\ Manager("idle", "load", {})
  /\ writing' = {}
  /\ UNCHANGED <<file, saves, saved, asserts, read, early, faults>>

(* worker_start_body and loader_body begin with set_task_group.            *)
JoinGroup(n) ==
  /\ Up /\ main[n] = "starting"
  /\ main' = [main EXCEPT ![n] = "grouped"]
  /\ UNCHANGED <<memory, runnable, paused, wire, backlog, manager, disk, history>>

(* A worker enters the barrier.  The root never does: it loads, and the    *)
(* worker is released by the flag in its file.                             *)
EnterBarrier(n) ==
  /\ Up /\ main[n] = "grouped" /\ n # Root
  /\ main' = [main EXCEPT ![n] = "waiting"]
  /\ memory' = [memory EXCEPT ![n].done = FALSE, ![Root].count = @ + 1]
  /\ UNCHANGED <<runnable, paused, wire, backlog, manager, disk, history>>
LeaveBarrier(n) ==
  /\ Up /\ main[n] = "waiting" /\ memory[n].done
  /\ main' = [main EXCEPT ![n] = "running"]
  /\ UNCHANGED <<memory, runnable, paused, wire, backlog, manager, disk, history>>
LoadBegin ==
  /\ Up /\ main[Root] = "grouped"
  /\ main' = [main EXCEPT ![Root] = "running"]
  /\ Manager("pausing", "load", Nodes)
  /\ UNCHANGED <<memory, runnable, paused, wire, backlog, disk, history>>

-----------------------------------------------------------------------------
Decrements(t) == Quantify(DOMAIN Program[t], LAMBDA i : Program[t][i] = "decr")
Total(S)      == FoldSet(LAMBDA t, k : k + Decrements(t), 0, S)

(* The program has started: its tasks exist, and the message that satisfies *)
(* the slot of a remote task is on its way.                                 *)
Tasks0(n)  == SetToSeq({t \in First : Home[t] = n})
Memory0(n) ==
  [Fresh EXCEPT
     !.data = @ \o (IF n = Root THEN <<Template, Latch(Total(Tasks)), Block("DBS_master", "data")>> ELSE <<>>)
                \o [i \in DOMAIN Tasks0(n) |-> Edt(Tasks0(n)[i])],
     !.mapped = IF \E t \in Tasks : Home[t] = n /\ "label" \in Range(Program[t])
                THEN Label :> Labelled ELSE @]

Init ==
  /\ asserts \in Builds
  /\ memory = [n \in Nodes |-> Memory0(n)]
  /\ runnable = [n \in Nodes |-> {t \in First \ Remote : Home[t] = n}]
  /\ paused = [n \in Nodes |-> FALSE]
  /\ wire = [m \in Nodes |-> [n \in Nodes |->
               IF m = Root THEN [i \in DOMAIN SelectSeq(Tasks0(n), LAMBDA t : t \in Remote) |->
                                   Message("satisfy", SelectSeq(Tasks0(n), LAMBDA t : t \in Remote)[i])]
               ELSE <<>>]]
  /\ backlog = Empty /\ main = [n \in Nodes |-> "running"]
  /\ manager = [at |-> "idle", does |-> "save", left |-> {}]
  /\ file = [n \in Nodes |-> Null] /\ writing = {} /\ saves = 0
  /\ saved = [n \in Nodes |-> Null] /\ read = [n \in Nodes |-> Null]
  /\ crashed = FALSE /\ early = {} /\ faults = {}

Works == \E n \in Nodes :
  \/ \E t \in Tasks : Run(n, t)
  \/ \E m \in Nodes : Receive(m, n)
  \/ Process(n)
Manages ==
  \/ BeginSave \/ Flushed
  \/ \E n \in Nodes : \/ PauseNode(n) \/ PausedNode(n) \/ SaveOpen(n)
                      \/ SaveClose(n) \/ ResumeNode(n)
Loads == \E n \in Nodes : LoadNode(n)
Restarts ==
  \/ LoadBegin
  \/ \E n \in Nodes : JoinGroup(n) \/ EnterBarrier(n) \/ LeaveBarrier(n)

Next == Works \/ Manages \/ Loads \/ Crash \/ Restarts

Spec     == Init /\ [][Next]_vars
(* Every thread keeps running; a crash and a save need never come.  The     *)
(* last conjunct is WF_vars(Loads), its enabling condition written out.     *)
MayLoad  == Up /\ manager.at = "loading"
FairSpec == Spec /\ WF_vars(Works \/ (Manages /\ saves' = saves) \/ Restarts)
                 /\ ([]<>~MayLoad \/ []<><<Loads>>_vars)

-----------------------------------------------------------------------------
(***************************************************************************)
(* Properties.                                                             *)
(***************************************************************************)

(* What a file can keep of an object and of a memory: not the messages a    *)
(* stream holds back or a node has put aside, nor the unwritten fields.     *)
KeptObject(o) == IF o = Null THEN Null ELSE Unwritten[o.type] @@ o
KeptMap(f)    == [g \in DOMAIN f |-> KeptObject(f[g])]
Kept(m) ==
  [m EXCEPT !.messages = <<>>,
            !.streams = [t \in DOMAIN @ |-> [@[t] EXCEPT !.todo = <<>>]],
            !.data    = [i \in DOMAIN @ |-> KeptObject(@[i])],
            !.mapped  = KeptMap(@),
            !.graves  = [i \in DOMAIN @ |-> [@[i] EXCEPT !.object = KeptObject(@)]],
            !.cache   = [n \in Nodes |-> [@[n] EXCEPT !.objects = KeptMap(@)]]]

(* A node that loads its file has afterwards what it had when it wrote it,  *)
(* up to what the format leaves out: clear removes everything read adds to, *)
(* and the reading constructors take the fields in the order they were      *)
(* written.                                                                 *)
LoadRestores == \A n \in Nodes : read[n] # Null => read[n].memory = Kept(read[n].saved.memory)

(* A load or a run fails only through a known gap of the format: a file     *)
(* that the crash left unfinished, a cached block whose data had not        *)
(* arrived (which is written without its buffer and read with it), an       *)
(* assertion that says so, the handles of a task to its blocks (which are   *)
(* not written), or a worker that loads before it has a task group.         *)
Bare(m) == \E n \in Nodes : \E g \in DOMAIN m.cache[n].objects : m.cache[n].objects[g].buffer = Null
OnlyKnownGapsFail == \A f \in faults :
  CASE f.what = "misread"       -> crashed /\ (file[f.node] = <<>> \/ Bare(saved[f.node].memory))
    [] f.what = "unimplemented" -> asserts
    [] f.what = "no handle"     -> crashed /\ read[f.node] # Null
    [] f.what = "no group"      -> crashed /\ main[f.node] = "starting"

(* Loading a saved node gives the node that was saved, or fails for a reason*)
(* the format explains.                                                     *)
LoadsSound == LoadRestores /\ OnlyKnownGapsFail

(* What the last load has lost: the files of the nodes are of different     *)
(* saves, or a file left out messages.                                      *)
LeftOut(m) == m.messages # <<>> \/ \E t \in DOMAIN m.streams : m.streams[t].todo # <<>>
Loading == crashed /\ \E n \in Nodes : read[n] = Null
Excused ==
  /\ crashed /\ ~Loading
  /\ \/ \E m, n \in Nodes : read[m].saved.round # read[n].saved.round
     \/ \E n \in Nodes : LeftOut(read[n].saved.memory)

(* The decrements that are still to come: in a message, held back by a      *)
(* stream, or of a task that has not run.                                   *)
Count(s, Test(_)) == Len(SelectSeq(s, Test))
IsDecr(x) == x.kind = "decr"
Running(n, t) == \E i \in DOMAIN memory[n].data :
  IsEdt(memory[n].data[i], t) /\ memory[n].data[i].state # "done"
ToCome(t) == \/ \E n \in Nodes : Running(n, t)
             \/ \E u \in Tasks : Child[u] = t /\ \E n \in Nodes : Running(n, u)
Coming ==
  Total({t \in Tasks : ToCome(t)})
  + FoldSet(LAMBDA n, k : k
      + FoldSet(LAMBDA m, j : j + Count(wire[m][n], IsDecr), 0, Nodes)
      + Count(backlog[n], IsDecr) + Count(memory[n].messages, IsDecr)
      + FoldSet(LAMBDA t, j : j + Count(memory[n].streams[t].todo, IsDecr), 0, DOMAIN memory[n].streams),
      0, Nodes)

(* No decrement of the latch is lost or done twice, by a save or by a crash *)
(* and a load from files of one save that left nothing out: because the     *)
(* nodes are paused and flushed before the first one writes its file, the   *)
(* files together are one state of the program.                             *)
WorkBalanced == Up /\ ~Loading /\ ~Excused => latch.latch = Coming

(* The program ends, with or without saves, and after a crash if the load   *)
(* found what it needed.                                                    *)
EveryRunEnds ==
  <>(\/ faults # {} \/ early # {} \/ Excused
     \/ Finished /\ \A n \in Nodes : main[n] = "running" /\ ~paused[n])
=============================================================================
