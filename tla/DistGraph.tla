------------------------------ MODULE DistGraph ------------------------------
(***************************************************************************)
(* Events, tasks (EDTs), finish scopes and collective events of the        *)
(* distributed runtime.                                                    *)
(*                                                                         *)
(* Every object lives on one node.  The calls of a task, and what handlers *)
(* of messages do to other objects, are messages; a node processes one at  *)
(* a time.  What MsgStream promises about messages is used here: those of  *)
(* a stream (a task, or a node) are processed in order, each after all     *)
(* that was sent as part of the one before.  So todo[s] holds what is      *)
(* still to be processed on stream s, with the nested and forwarded        *)
(* messages of its head put in the head's place.  A message for an object  *)
(* that does not exist yet leaves its stream and is tried again later.     *)
(*                                                                         *)
(* The contents of blocks and the locks on them are not here (DbCoherence).*)
(***************************************************************************)
EXTENDS Integers, Sequences, FiniteSets, Functions, Bags

CONSTANTS
  Nodes,
  Tasks,        \* the EDTs
  Main,         \* the EDT that is running first
  Finish,       \* those created with EDT_PROP_FINISH
  Depc,         \* Depc[t]: the number of pre-slots of t
  Output,       \* Output[t]: the output event created with t
  Program,      \* Program[t]: the calls t makes
  Events,       \* all events, those of the program and the output events
  Type,         \* Type[e]: ONCE, IDEM, STICKY, LATCH or CHANNEL
  Labelled,     \* the events with labeled (mapped) guids
  Collectives,  \* the collective events
  MaxGen,       \* maxGen: the generations in flight at a time
  NbContribs,   \* nbContribs: the contributions to a generation
  Home,         \* Home[x]: the node on which x lives
  Data,         \* data blocks
  Null          \* NULL_GUID

DecrSlot == 0   \* OCR_EVENT_LATCH_DECR_SLOT, and the only slot of other events
IncrSlot == 1   \* OCR_EVENT_LATCH_INCR_SLOT
Streams  == Tasks \cup Nodes
Objects  == Tasks \cup Events \cup Collectives

(* The calls of a program.                                                 *)
SatisfyCall(e, d, s)  == [op |-> "satisfy", node |-> e, data |-> d, slot |-> s]
AddCall(x, n, s)      == [op |-> "add", source |-> x, node |-> n, slot |-> s]
ByValueCall(d, n, s)  == [op |-> "byvalue", source |-> d, node |-> n, slot |-> s]
CreateCall(t, deps)   == [op |-> "create", node |-> t, deps |-> deps, out |-> Null]
CreateOutCall(t, deps, e) == [op |-> "create", node |-> t, deps |-> deps, out |-> e]
LabelCall(e)          == [op |-> "label", node |-> e]
DestroyCall(e)        == [op |-> "destroy", node |-> e]
CollectiveCall(c)     == [op |-> "collective", node |-> c]
SubscribeCall(c, i, n, s) == [op |-> "subscribe", event |-> c, sslot |-> i, node |-> n, slot |-> s]
ContributeCall(c, i)  == [op |-> "contribute", event |-> c, islot |-> i]

ASSUME GraphAssumption ==
  /\ Main \in Tasks /\ Finish \subseteq Tasks \ {Main}
  /\ Depc \in [Tasks -> Nat]
  /\ Output \in [Tasks -> Events] /\ \A t, u \in Tasks : Output[t] = Output[u] => t = u
  /\ Type \in [Events -> {"ONCE", "IDEM", "STICKY", "LATCH", "CHANNEL"}]
  /\ \A t \in Tasks : Type[Output[t]] = IF t \in Finish THEN "LATCH" ELSE "ONCE"
  /\ Labelled \subseteq Events \ Range(Output)
  /\ MaxGen \in Nat \ {0} /\ NbContribs \in Nat \ {0}
  /\ Home \in [Objects -> Nodes] /\ \A t \in Tasks : Home[Output[t]] = Home[t]
ASSUME DistinctAssumption ==
  /\ Tasks \cap Events = {} /\ Tasks \cap Nodes = {} /\ Tasks \cap Collectives = {}
  /\ Events \cap Collectives = {} /\ Data \cap Objects = {}
  /\ Null \notin Data \cup Objects

VARIABLES
  todo,     \* todo[s]: the messages of stream s that are not settled
  late,     \* late[n]: the bag of messages put off at n
  exists,   \* the objects that exist
  event,    \* event[e]: the state of the event
  window,   \* window[c]: the generation slots of the collective event
  client,   \* client[n][c]: the collective_client record of node n
  post,     \* post[n]: the post-slots of n, a sequence of [node, slot]
  pre,      \* pre[t]: the pre-slots of task t
  pc,       \* pc[t]: progress of task t
  scope,    \* scope[t]: finish_for_children_, an event or Null
  calls,    \* calls[t]: the calls t has still to make
  faults,   \* the assertions that have failed
  spawns    \* history: spawns[t], how often t was handed to the scheduler

vars == <<todo, late, exists, event, window, client, post, pre, pc, scope, calls, faults, spawns>>

-----------------------------------------------------------------------------
(***************************************************************************)
(* Messages.                                                               *)
(***************************************************************************)
SatisfyMsg(n, s, d)    == [cmd |-> "CMD_satisfy_preslot", node |-> n, slot |-> s, data |-> d]
WithDataMsg(n, s, d)   == [cmd |-> "CMD_satisfy_preslot_with_data", node |-> n, slot |-> s, data |-> d]
AddPreslotMsg(x, n, s) == [cmd |-> "CMD_add_preslot", source |-> x, node |-> n, slot |-> s]
AddPostslotMsg(x, n, s) == [cmd |-> "CMD_add_postslot", source |-> x, node |-> n, slot |-> s]
EdtCreateMsg(t, deps, f) == [cmd |-> "CMD_edt_create", node |-> t, deps |-> deps, parent |-> f]
StartTrivialMsg(t)     == [cmd |-> "CMD_edt_start_trivial", node |-> t]
EventCreateMsg(e)      == [cmd |-> "CMD_mapped_event_create", node |-> e]
EventDestroyMsg(e)     == [cmd |-> "CMD_event_destroy", node |-> e]
CollectiveCreateMsg(c) == [cmd |-> "CMD_mapped_collective_create", node |-> c]
ContributeMsg(c, i, g) == [cmd |-> "CMD_collective_contribute", event |-> c, islot |-> i, gen |-> g]
SubscribeMsg(c, g, n, s) == [cmd |-> "CMD_collective_subscribe", event |-> c, gen |-> g, node |-> n, slot |-> s]

(* The object without which the message cannot be processed; for other     *)
(* commands that is nothing.                                               *)
Required(m) ==
  CASE m.cmd \in {"CMD_add_preslot", "CMD_satisfy_preslot", "CMD_satisfy_preslot_with_data",
                  "CMD_edt_start_trivial"} -> {m.node}
    [] m.cmd = "CMD_add_postslot" -> {m.source} \cap Objects
    [] m.cmd \in {"CMD_collective_contribute", "CMD_collective_subscribe"} -> {m.event}
    [] OTHER -> {}

(* The node that processes the message.                                    *)
Target(m) ==
  CASE m.cmd = "CMD_add_postslot" -> Home[IF m.source \in Objects THEN m.source ELSE m.node]
    [] m.cmd \in {"CMD_collective_contribute", "CMD_collective_subscribe"} -> Home[m.event]
    [] OTHER -> Home[m.node]

-----------------------------------------------------------------------------
(***************************************************************************)
(* Events.                                                                 *)
(***************************************************************************)
NewEvent == [triggered |-> FALSE, destroyed |-> FALSE, count |-> 0, data |-> Null,
             items |-> <<>>, sinks |-> <<>>]
Slot(n, s) == [node |-> n, slot |-> s]

Counted(e, s) == IF s = IncrSlot THEN event[e].count + 1 ELSE event[e].count - 1

(* "assert(!destroyed_)", "assert(!triggered_ || type_ == OCR_EVENT_IDEM_T)"*)
(* and, for a latch, "assert(!triggered_)" on its increment slot.          *)
Refuses(e, s) ==
  \/ event[e].destroyed
  \/ event[e].triggered /\ Type[e] # "IDEM" /\ (Type[e] = "LATCH" => s = IncrSlot)

(* Mutant: an idempotent event triggers each time it is satisfied.         *)
FiresAgain(e, s) ==
  ~Refuses(e, s) /\ Type[e] # "CHANNEL" /\ (Type[e] = "LATCH" => s = DecrSlot /\ Counted(e, s) = 0)

(* test_satisfy_preslot__locked: does satisfying the slot trigger e?       *)
Fires(e, s) ==
  /\ ~Refuses(e, s) /\ Type[e] # "CHANNEL"
  /\ IF Type[e] = "LATCH" THEN s = DecrSlot /\ Counted(e, s) = 0 ELSE ~event[e].triggered

Satisfied(e, s, d) ==
  LET v == event[e]
  IN  CASE Refuses(e, s) -> v
        [] ~Refuses(e, s) /\ Type[e] = "CHANNEL" ->
             IF v.sinks = <<>> THEN [v EXCEPT !.items = Append(@, d)] ELSE [v EXCEPT !.sinks = Tail(@)]
        [] OTHER ->
             [v EXCEPT !.triggered = @ \/ Fires(e, s),
                       !.destroyed = @ \/ (Fires(e, s) /\ Type[e] \in {"ONCE", "LATCH"}),
                       !.count = IF Type[e] = "LATCH" THEN Counted(e, s) ELSE @,
                       !.data = IF Fires(e, s) THEN d ELSE @]

(* What satisfying the event sends: a channel forwards the datum as part   *)
(* of the message; an event that fires ends the processing of the message  *)
(* first, so that its messages go out on the node's stream.                *)
Forwards(e, s, d) ==
  IF Type[e] = "CHANNEL" /\ event[e].sinks # <<>>
    THEN <<SatisfyMsg(Head(event[e].sinks).node, Head(event[e].sinks).slot, d)>> ELSE <<>>
Announces(e, s, d) ==
  IF Fires(e, s) THEN [j \in DOMAIN post[e] |-> SatisfyMsg(post[e][j].node, post[e][j].slot, d)] ELSE <<>>

(* Mutant: a source that has triggered already is not looked at.           *)
PassesItems(x) == x \in Events /\ Type[x] = "CHANNEL" /\ event[x].items # <<>>

(* Has the source of a new link something to pass on at once, and what?    *)
Passes(x) ==
  \/ x \in Data
  \/ x \in Events /\ IF Type[x] = "CHANNEL" THEN event[x].items # <<>> ELSE event[x].triggered
Passed(x) == IF x \in Data THEN x ELSE IF Type[x] = "CHANNEL" THEN Head(event[x].items) ELSE event[x].data

-----------------------------------------------------------------------------
(***************************************************************************)
(* Collective events.  A contribution is named by its generation and slot; *)
(* the reduction of contributions is their set.                            *)
(***************************************************************************)
NewGen(g) == [gen |-> g, received |-> 0, done |-> FALSE, accum |-> {}, pending |-> <<>>]

(* "assert(gen >= s.gen)", "assert(s.done && s.pending.empty())"           *)
Stale(c, g)    == g < window[c][g % MaxGen].gen
Occupied(c, g) == LET w == window[c][g % MaxGen] IN g > w.gen /\ ~(w.done /\ w.pending = <<>>)

(* window_at__locked: the accumulator is not cleared, the first            *)
(* contribution overwrites it.                                             *)
GenSlot(c, g) ==
  LET w == window[c][g % MaxGen]
  IN  IF g = w.gen THEN w ELSE [w EXCEPT !.gen = g, !.received = 0, !.done = FALSE]

(* Mutant: the first contribution is added to the old result.              *)
ContributedOnto(w, i) ==
  LET r == [w EXCEPT !.accum = @ \cup {<<w.gen, i>>}, !.received = @ + 1]
  IN  IF r.received = NbContribs THEN [r EXCEPT !.done = TRUE, !.pending = <<>>] ELSE r

Contributed(w, i) ==
  LET r == [w EXCEPT !.accum = (IF w.received = 0 THEN {} ELSE @) \cup {<<w.gen, i>>},
                     !.received = @ + 1]
  IN  IF r.received = NbContribs THEN [r EXCEPT !.done = TRUE, !.pending = <<>>] ELSE r

(* deliver: the result goes to a subscriber as a block of its own.         *)
Delivery(w, q) == [j \in DOMAIN q |-> WithDataMsg(q[j].node, q[j].slot, w.accum)]

-----------------------------------------------------------------------------
(***************************************************************************)
(* Handlers.  Inside(m) is what the handler of m sends as part of m,       *)
(* Outside(m) what it sends after stop_message_processing.                 *)
(***************************************************************************)
Filled(t, s, d) == [pre[t] EXCEPT ![s] = [satisfied |-> TRUE, data |-> d]]
AllSatisfied(slots) == \A s \in DOMAIN slots : slots[s].satisfied

(* The constructor of edt: its output event is linked to the latch of the  *)
(* scope it is created in, the task to its output event (which counts a    *)
(* finish task itself), and its dependences to its pre-slots.              *)
EdtSends(t, deps, parent) ==
  (IF parent = Null THEN <<>> ELSE <<AddPreslotMsg(Output[t], parent, DecrSlot)>>)
  \o (IF t \in Finish THEN <<SatisfyMsg(Output[t], IncrSlot, Null)>> ELSE <<>>)
  \o <<AddPreslotMsg(t, Output[t], DecrSlot)>>
  \o [j \in DOMAIN deps |-> AddPreslotMsg(deps[j], t, j - 1)]
  \o (IF Depc[t] = 0 THEN <<StartTrivialMsg(t)>> ELSE <<>>)

Inside(m) ==
  CASE m.cmd = "CMD_edt_create" -> EdtSends(m.node, m.deps, m.parent)
    [] m.cmd = "CMD_add_preslot" /\ m.source # Null -> <<AddPostslotMsg(m.source, m.node, m.slot)>>
    [] m.cmd = "CMD_add_postslot" /\ Passes(m.source) -> <<SatisfyMsg(m.node, m.slot, Passed(m.source))>>
    [] m.cmd = "CMD_satisfy_preslot" /\ m.node \in Events -> Forwards(m.node, m.slot, m.data)
    [] m.cmd = "CMD_satisfy_preslot_with_data" /\ m.node \in Events -> Forwards(m.node, m.slot, m.data)
    [] m.cmd = "CMD_collective_contribute" /\ ~Stale(m.event, m.gen) /\ ~Occupied(m.event, m.gen) ->
         LET w == GenSlot(m.event, m.gen)
             r == Contributed(w, m.islot)
         IN  IF r.done THEN Delivery(r, w.pending) ELSE <<>>
    [] m.cmd = "CMD_collective_subscribe" /\ ~Stale(m.event, m.gen) /\ ~Occupied(m.event, m.gen) ->
         LET w == GenSlot(m.event, m.gen)
         IN  IF w.done THEN Delivery(w, <<Slot(m.node, m.slot)>>) ELSE <<>>
    [] OTHER -> <<>>

Outside(m) ==
  CASE m.cmd \in {"CMD_satisfy_preslot", "CMD_satisfy_preslot_with_data"} /\ m.node \in Events ->
         Announces(m.node, m.slot, m.data)
    [] m.cmd = "CMD_add_preslot" /\ m.source = Null /\ m.node \in Events -> Announces(m.node, m.slot, Null)
    [] OTHER -> <<>>

Fault(name, test) == faults' = IF test THEN faults \cup {name} ELSE faults

(* satisfy_preslot of an event.  A labeled event that is destroyed is      *)
(* taken out of the repository.                                            *)
SatisfyEvent(e, s, d) ==
  /\ event' = [event EXCEPT ![e] = Satisfied(e, s, d)]
  /\ exists' = IF Satisfied(e, s, d).destroyed THEN exists \ ({e} \cap Labelled) ELSE exists
  /\ Fault("event satisfied too often", Refuses(e, s))
  /\ UNCHANGED <<window, client, post, pre, pc, scope, calls, spawns>>

(* satisfy_preslot of a task, and handle_all_satisfied__locked: the task   *)
(* acquires its blocks.                                                    *)
SatisfyTask(t, s, d) ==
  /\ pre' = [pre EXCEPT ![t] = Filled(t, s, d)]
  /\ pc' = IF AllSatisfied(Filled(t, s, d)) THEN [pc EXCEPT ![t] = "acquiring"] ELSE pc
  /\ UNCHANGED <<exists, event, window, client, post, scope, calls, faults, spawns>>

HandleSatisfy(m) ==
  /\ m.cmd \in {"CMD_satisfy_preslot", "CMD_satisfy_preslot_with_data"}
  /\ IF m.node \in Tasks THEN SatisfyTask(m.node, m.slot, m.data)
     ELSE SatisfyEvent(m.node, m.slot, m.data)

HandleAddPreslot(m) ==
  /\ m.cmd = "CMD_add_preslot"
  /\ IF m.source = Null
       THEN IF m.node \in Tasks THEN SatisfyTask(m.node, m.slot, Null)
            ELSE SatisfyEvent(m.node, m.slot, Null)
       ELSE /\ pre' = IF m.node \in Tasks THEN [pre EXCEPT ![m.node][m.slot].data = m.source] ELSE pre
            /\ UNCHANGED <<exists, event, window, client, post, pc, scope, calls, faults, spawns>>

HandleAddPostslot(m) ==
  LET x == m.source
      l == Slot(m.node, m.slot)
      channel == x \in Events /\ Type[x] = "CHANNEL"
  IN  /\ m.cmd = "CMD_add_postslot"
      /\ post' = IF x \in Objects /\ ~channel THEN [post EXCEPT ![x] = Append(@, l)] ELSE post
      /\ event' = IF ~channel THEN event
                  ELSE IF Passes(x) THEN [event EXCEPT ![x].items = Tail(@)]
                  ELSE [event EXCEPT ![x].sinks = Append(@, l)]
      /\ Fault("destroyed channel", channel /\ event[x].destroyed)
      /\ UNCHANGED <<exists, window, client, pre, pc, scope, calls, spawns>>

(* The task and its output event come into being; the task is ready to     *)
(* start.  Its children belong to its own scope or to that of its creator. *)
HandleEdtCreate(m) ==
  LET t == m.node
  IN  /\ m.cmd = "CMD_edt_create"
      /\ exists' = exists \cup {t, Output[t]}
      /\ pc' = [pc EXCEPT ![t] = "created"]
      /\ scope' = [scope EXCEPT ![t] = IF t \in Finish THEN Output[t] ELSE m.parent]
      /\ UNCHANGED <<event, window, client, post, pre, calls, faults, spawns>>

(* A task without pre-slots.                                               *)
HandleStartTrivial(m) ==
  /\ m.cmd = "CMD_edt_start_trivial"
  /\ pc' = [pc EXCEPT ![m.node] = "running"]
  /\ spawns' = [spawns EXCEPT ![m.node] = @ + 1]
  /\ UNCHANGED <<exists, event, window, client, post, pre, scope, calls, faults>>

HandleEventCreate(m) ==
  /\ m.cmd = "CMD_mapped_event_create"
  /\ exists' = exists \cup {m.node}
  /\ event' = IF m.node \in exists THEN event ELSE [event EXCEPT ![m.node] = NewEvent]
  /\ Fault("label taken", m.node \in exists)
  /\ UNCHANGED <<window, client, post, pre, pc, scope, calls, spawns>>

HandleEventDestroy(m) ==
  /\ m.cmd = "CMD_event_destroy"
  /\ event' = IF m.node \in exists THEN [event EXCEPT ![m.node].destroyed = TRUE] ELSE event
  /\ exists' = exists \ {m.node}
  /\ Fault("destroyed twice", m.node \in exists /\ event[m.node].destroyed)
  /\ UNCHANGED <<window, client, post, pre, pc, scope, calls, spawns>>

(* Creates arrive from every participating node; the first one counts.     *)
HandleCollectiveCreate(m) ==
  /\ m.cmd = "CMD_mapped_collective_create"
  /\ exists' = exists \cup {m.node}
  /\ UNCHANGED <<event, window, client, post, pre, pc, scope, calls, faults, spawns>>

HandleContribute(m) ==
  LET c == m.event
      g == m.gen
  IN  /\ m.cmd = "CMD_collective_contribute"
      /\ window' = IF Stale(c, g) \/ Occupied(c, g) THEN window
                   ELSE [window EXCEPT ![c][g % MaxGen] = Contributed(GenSlot(c, g), m.islot)]
      /\ Fault("generation", Stale(c, g) \/ Occupied(c, g))
      /\ UNCHANGED <<exists, event, client, post, pre, pc, scope, calls, spawns>>

HandleSubscribe(m) ==
  LET c == m.event
      g == m.gen
      w == GenSlot(c, g)
  IN  /\ m.cmd = "CMD_collective_subscribe"
      /\ window' = IF Stale(c, g) \/ Occupied(c, g) \/ w.done THEN window
                   ELSE [window EXCEPT ![c][g % MaxGen] =
                           [w EXCEPT !.pending = Append(@, Slot(m.node, m.slot))]]
      /\ Fault("generation", Stale(c, g) \/ Occupied(c, g))
      /\ UNCHANGED <<exists, event, client, post, pre, pc, scope, calls, spawns>>

Handler(m) ==
  \/ HandleSatisfy(m) \/ HandleAddPreslot(m) \/ HandleAddPostslot(m)
  \/ HandleEdtCreate(m) \/ HandleStartTrivial(m)
  \/ HandleEventCreate(m) \/ HandleEventDestroy(m)
  \/ HandleCollectiveCreate(m) \/ HandleContribute(m) \/ HandleSubscribe(m)

Missing(m) == ~(Required(m) \subseteq exists)

(* The first message of a stream is processed ...                          *)
Process(s) ==
  /\ todo[s] # <<>>
  /\ LET m == Head(todo[s])
     IN  /\ ~Missing(m) /\ Handler(m)
         /\ todo' = [todo EXCEPT ![s] = Inside(m) \o Tail(@), ![Target(m)] = @ \o Outside(m)]
  /\ UNCHANGED late

(* ... or, if its object does not exist, confirmed and put off, ...        *)
Defer(s) ==
  /\ todo[s] # <<>>
  /\ LET m == Head(todo[s])
     IN  /\ Missing(m)
         /\ late' = [late EXCEPT ![Target(m)] = @ (+) SetToBag({m})]
  /\ todo' = [todo EXCEPT ![s] = Tail(@)]
  /\ UNCHANGED <<exists, event, window, client, post, pre, pc, scope, calls, faults, spawns>>

(* ... until it does: what is then sent goes out on the node's stream.     *)
Retry(n) ==
  \E m \in BagToSet(late[n]) :
    /\ ~Missing(m) /\ Handler(m)
    /\ late' = [late EXCEPT ![n] = @ (-) SetToBag({m})]
    /\ todo' = [todo EXCEPT ![n] = @ \o Inside(m) \o Outside(m)]

-----------------------------------------------------------------------------
(***************************************************************************)
(* Tasks.                                                                  *)
(***************************************************************************)
Calls(t, op) == pc[t] = "running" /\ calls[t] # <<>> /\ Head(calls[t]).op = op
Send(t, msgs) ==
  /\ todo' = [todo EXCEPT ![t] = @ \o msgs]
  /\ calls' = [calls EXCEPT ![t] = Tail(@)]
  /\ UNCHANGED <<late, exists, event, window, post, pre, scope, spawns>>

(* ocrEdtCreate: the child is counted in the scope first.                  *)
Creation(t, u, deps) ==
  (IF scope[t] = Null THEN <<>> ELSE <<SatisfyMsg(scope[t], IncrSlot, Null)>>)
  \o <<EdtCreateMsg(u, deps, scope[t])>>

(* With EDT_PROP_OEVT_VALID the output event is linked to the caller's.    *)
CreateTask(t) ==
  LET c == Head(calls[t])
  IN  /\ Calls(t, "create")
      /\ pc' = [pc EXCEPT ![c.node] = "posted"]
      /\ Send(t, Creation(t, c.node, c.deps)
                 \o (IF c.out = Null THEN <<>> ELSE <<AddPreslotMsg(Output[c.node], c.out, 0)>>))
      /\ UNCHANGED <<client, faults>>

(* Calls that are one message.                                             *)
CallMsg(c) ==
  CASE c.op = "satisfy" -> SatisfyMsg(c.node, c.slot, c.data)
    [] c.op = "add"     -> AddPreslotMsg(c.source, c.node, c.slot)
    [] c.op = "byvalue" -> WithDataMsg(c.node, c.slot, c.source)
    [] c.op = "label"   -> EventCreateMsg(c.node)

PostCall(t) ==
  /\ \E op \in {"satisfy", "add", "byvalue", "label"} : Calls(t, op)
  /\ Send(t, <<CallMsg(Head(calls[t]))>>)
  /\ UNCHANGED <<client, pc, faults>>

(* ocrEventDestroy does nothing unless the event is labeled.               *)
DestroyEvent(t) ==
  LET e == Head(calls[t]).node
  IN  /\ Calls(t, "destroy")
      /\ Send(t, IF e \in Labelled THEN <<EventDestroyMsg(e)>> ELSE <<>>)
      /\ UNCHANGED <<client, pc, faults>>

(* ocrEventCreateParams: the first call on a node installs the record and  *)
(* tells the owner.                                                        *)
CreateCollective(t) ==
  LET c == Head(calls[t]).node
      n == Home[t]
  IN  /\ Calls(t, "collective")
      /\ client' = [client EXCEPT ![n][c].known = TRUE]
      /\ Send(t, IF client[n][c].known THEN <<>> ELSE <<CollectiveCreateMsg(c)>>)
      /\ UNCHANGED <<pc, faults>>

(* ocrEventCollectiveSatisfySlot and ocrAddDependenceSlot: the k-th call   *)
(* for a slot on the node is for generation k.                             *)
Contribute(t) ==
  LET c == Head(calls[t])
      r == client[Home[t]][c.event]
  IN  /\ Calls(t, "contribute")
      /\ Send(t, <<ContributeMsg(c.event, c.islot, r.iph[c.islot])>>)
      /\ client' = [client EXCEPT ![Home[t]][c.event].iph[c.islot] = @ + 1]
      /\ Fault("no collective", ~r.known)
      /\ UNCHANGED pc

Subscribe(t) ==
  LET c == Head(calls[t])
      r == client[Home[t]][c.event]
  IN  /\ Calls(t, "subscribe")
      /\ Send(t, <<SubscribeMsg(c.event, r.oph[c.sslot], c.node, c.slot)>>)
      /\ client' = [client EXCEPT ![Home[t]][c.event].oph[c.sslot] = @ + 1]
      /\ Fault("no collective", ~r.known)
      /\ UNCHANGED pc

(* The last block is acquired: spawn__locked.  The scheduler runs the task *)
(* some time later, which shows only in when its first call is made.       *)
Acquired(t) ==
  /\ pc[t] = "acquiring"
  /\ pc' = [pc EXCEPT ![t] = "running"]
  /\ spawns' = [spawns EXCEPT ![t] = @ + 1]
  /\ UNCHANGED <<todo, late, exists, event, window, client, post, pre, scope, calls, faults>>

(* Mutant: the completion is sent by the handler that ends the last update *)
(* of a block, on the node's stream.                                       *)
CompletionStreamOfNode(t) == Home[t]

(* "Run the completion with the completed EDT as the current task."        *)
CompletionStream(t) == t

(* realse_data_and_notify_postslots: the task has ended, and the last of   *)
(* its blocks is up to date.                                               *)
Complete(t) ==
  /\ pc[t] = "running" /\ calls[t] = <<>>
  /\ pc' = [pc EXCEPT ![t] = "done"]
  /\ todo' = [todo EXCEPT ![CompletionStream(t)] =
                @ \o [j \in DOMAIN post[t] |-> SatisfyMsg(post[t][j].node, post[t][j].slot, Null)]]
  /\ UNCHANGED <<late, exists, event, window, client, post, pre, scope, calls, faults, spawns>>

TaskStep(t) ==
  \/ CreateTask(t) \/ PostCall(t) \/ DestroyEvent(t)
  \/ CreateCollective(t) \/ Contribute(t) \/ Subscribe(t)
  \/ Acquired(t) \/ Complete(t)

Init ==
  /\ todo = [s \in Streams |-> <<>>]
  /\ late = [n \in Nodes |-> EmptyBag]
  /\ exists = {Main, Output[Main]} \cup (Events \ (Labelled \cup Range(Output)))
  /\ event = [e \in Events |-> NewEvent]
  /\ window = [c \in Collectives |-> [w \in 0..MaxGen - 1 |-> NewGen(w)]]
  /\ client = [n \in Nodes |-> [c \in Collectives |->
                [known |-> FALSE, iph |-> [i \in 0..NbContribs - 1 |-> 0],
                 oph |-> [i \in 0..NbContribs - 1 |-> 0]]]]
  /\ post = [n \in Tasks \cup Events |-> IF n = Main THEN <<Slot(Output[Main], DecrSlot)>> ELSE <<>>]
  /\ pre = [t \in Tasks |-> [s \in 0..Depc[t] - 1 |-> [satisfied |-> FALSE, data |-> Null]]]
  /\ pc = [t \in Tasks |-> IF t = Main THEN "running" ELSE "absent"]
  /\ scope = [t \in Tasks |-> Null]
  /\ calls = [t \in Tasks |-> Program[t]]
  /\ faults = {}
  /\ spawns = [t \in Tasks |-> IF t = Main THEN 1 ELSE 0]

Finished == /\ \A t \in Tasks : pc[t] = "done"
            /\ \A s \in Streams : todo[s] = <<>>
            /\ \A n \in Nodes : late[n] = EmptyBag
Terminated == Finished /\ UNCHANGED vars

Next ==
  \/ \E s \in Streams : Process(s) \/ Defer(s)
  \/ \E n \in Nodes : Retry(n)
  \/ \E t \in Tasks : TaskStep(t)
  \/ Terminated

Spec == Init /\ [][Next]_vars

(* Threads go on, messages arrive, blocks are granted, and the local queue *)
(* is tried over and over.                                                 *)
FairSpec == Spec /\ WF_vars(Next)
-----------------------------------------------------------------------------
(***************************************************************************)
(* Properties.                                                             *)
(***************************************************************************)
Values == Data \cup {Null} \cup Objects \cup SUBSET (Nat \X Nat)
Slots  == [node : Tasks \cup Events, slot : Nat]

(* Every variable keeps to its domain; the latch of a finish scope never   *)
(* goes below zero, although increments and decrements come from many      *)
(* streams.                                                                *)
TypeOK ==
  /\ \A s \in Streams : \A j \in DOMAIN todo[s] : Target(todo[s][j]) \in Nodes
  /\ exists \subseteq Objects
  /\ \A e \in Events : /\ event[e].count \in Nat
                       /\ event[e].items \in Seq(Values) /\ event[e].sinks \in Seq(Slots)
  /\ post \in [Tasks \cup Events -> Seq(Slots)]
  /\ \A t \in Tasks : pre[t] \in [0..Depc[t] - 1 -> [satisfied : BOOLEAN, data : Values]]
  /\ pc \in [Tasks -> {"absent", "posted", "created", "acquiring", "running", "done"}]
  /\ scope \in [Tasks -> Events \cup {Null}]
  /\ \A c \in Collectives : \A w \in 0..MaxGen - 1 : window[c][w].received \in 0..NbContribs

(* No event is satisfied too often, and no message is for a generation     *)
(* that its window slot has left or cannot take up yet.                    *)
AssertionsHold == faults = {}

(* A task is handed to the scheduler once, and only when each of its       *)
(* pre-slots has been satisfied and carries what it was satisfied with.    *)
SpawnedOnceWhenComplete ==
  \A t \in Tasks : /\ spawns[t] = (IF pc[t] \in {"running", "done"} THEN 1 ELSE 0)
                   /\ spawns[t] = 1 => \A s \in DOMAIN pre[t] : /\ pre[t][s].satisfied \/ t = Main
                                                                /\ pre[t][s].data \notin Objects

(* The graph stays sound while its messages race between the nodes.        *)
GraphSound == TypeOK /\ AssertionsHold /\ SpawnedOnceWhenComplete

(* The k-th subscription of a slot gets the reduction of all contributions *)
(* to generation k and of nothing else, however far other participants     *)
(* have got.                                                               *)
Results == {m \in UNION {Range(todo[s]) : s \in Streams} \cup UNION {BagToSet(late[n]) : n \in Nodes} :
              m.cmd = "CMD_satisfy_preslot_with_data" /\ m.data \notin Data}
Generation(g) == {<<g, i>> : i \in 0..NbContribs - 1}
GenerationsComplete ==
  \A m \in Results : \E g \in {p[1] : p \in m.data} : m.data = Generation(g)

(* The scopes around a task in the program text.                           *)
Creates(t, u) == \E j \in DOMAIN Program[t] : Program[t][j].op = "create" /\ Program[t][j].node = u
Creator == [u \in Tasks |-> CHOOSE t \in Tasks : u = Main \/ Creates(t, u)]
ScopesOf[t \in Tasks] ==
  IF t = Main THEN {} ELSE ScopesOf[Creator[t]] \cup ({Creator[t]} \cap Finish)
Feeds(t, u) ==
  \E v \in Tasks : \E j \in DOMAIN Program[v] :
    /\ Program[v][j].op = "create" /\ Program[v][j].node = u
    /\ Output[t] \in Range(Program[v][j].deps)
Feeders == [u \in Tasks |-> {t \in Tasks : Feeds(t, u)}]

Promise == INSTANCE FinishPromise WITH
  Needs  <- Feeders,
  phase  <- [t \in Tasks |-> CASE pc[t] \in {"posted", "created", "acquiring"} -> "waiting"
                               [] pc[t] = "done" -> "ended"
                               [] OTHER -> pc[t]],
  scopes <- [t \in Tasks |-> IF pc[t] = "absent" THEN {} ELSE ScopesOf[t]],
  fired  <- {t \in Tasks : event[Output[t]].triggered}

(* The latches, links and streams together implement finish scopes: a      *)
(* scope closes after all that was created in it, on whatever node.        *)
ImplementsPromise == Promise!Spec

(* Every task is run and every message is processed in the end.            *)
EveryTaskEnds == <>Finished
=============================================================================
