------------------------------- MODULE Objects -------------------------------
(***************************************************************************)
(* Names of objects and the places objects are found at, in the            *)
(* distributed runtime.                                                    *)
(*                                                                         *)
(* A guid names its home node.  The home keeps the object in its           *)
(* object_repository; another node keeps what it knows of it in its        *)
(* object_cache.  A node that creates objects at another one reserves      *)
(* their guids there, PREALLOCATE_COUNT at a time.  A guid of a range (a   *)
(* label) can be computed by anybody, also before its object exists.       *)
(*                                                                         *)
(* Requests that are waited for (reserve guids, allocate a map id, pull an *)
(* object) have a channel of their own for each pair of nodes, used by one *)
(* thread at a time and served by one thread.  All other messages belong   *)
(* to the stream of the task that sends them: they are sent one after      *)
(* another, each when the one before is confirmed (MsgStream), and both    *)
(* handlers and confirmations take the mutex_ of the command_processor of  *)
(* the node.  A handler pulls the objects it needs while it holds it.      *)
(*                                                                         *)
(* What the tasks do is a constant.  They name objects by variables; a     *)
(* variable is assigned by the call that creates the object.               *)
(***************************************************************************)
EXTENDS Integers, Sequences, FiniteSets, Bags

CONSTANTS
  Nodes,     \* the nodes, 0, 1, ...; node 0 allocates the map ids
  Count,     \* PREALLOCATE_COUNT
  Tasks,
  At,        \* At[w]: the node that runs the task w
  After,     \* After[w]: the tasks w depends on
  Script,    \* Script[w]: the calls of w, see Calls
  Names,     \* the variables of the tasks
  None

NodeCount == Cardinality(Nodes)

(* The calls.  "name" is the variable the call assigns or, for "satisfy",  *)
(* the data block; a label is the pair of a variable that holds a range    *)
(* and an index.                                                           *)
Calls ==
       [op : {"range", "template", "local_db"}, name : Names]
  \cup [op : {"edt"}, to : Nodes, template : Names]
  \cup [op : {"remote_db"}, to : Nodes, name : Names]
  \cup [op : {"mapped_db"}, range : Names, index : Nat]
  \cup [op : {"satisfy"}, to : Nodes, name : Names]
  \cup [op : {"satisfy_label"}, to : Nodes, range : Names, index : Nat]

Assigning   == {"range", "template", "local_db", "remote_db"}
Labelled(c) == c.op \in {"mapped_db", "satisfy_label"}

(* Guids: a flag, the node or the map, and a number.                       *)
Guids == [mapped : BOOLEAN, of : Int, id : Nat]

ASSUME ObjectsAssumption ==
  /\ IsFiniteSet(Nodes) /\ Nodes = 0 .. NodeCount - 1 /\ 0 \in Nodes
  /\ Count \in Nat \ {0}
  /\ At \in [Tasks -> Nodes] /\ After \in [Tasks -> SUBSET Tasks]
  /\ \A w \in Tasks : Script[w] \in Seq(Calls)
  /\ \A w \in Tasks : \A i \in DOMAIN Script[w] :
       Script[w][i].op = "remote_db" => Script[w][i].to # At[w]
  /\ Nodes \cap Tasks = {} /\ None \notin Nodes \cup Tasks \cup Guids

(* What the code takes for granted about the tasks: a variable is assigned *)
(* once and used for what it holds, a label names one block, and a task is *)
(* created with a template that its creator, or a task its creator depends *)
(* on, has made before.                                                    *)
ASSUME ProgramAssumption ==
  /\ \A v, w \in Tasks : \A i \in DOMAIN Script[v] : \A j \in DOMAIN Script[w] :
       LET p == Script[v][i]
           q == Script[w][j]
       IN  /\ p.op \in Assigning /\ q.op \in Assigning /\ p.name = q.name => v = w /\ i = j
           /\ p.op = "mapped_db" /\ q.op = "mapped_db" /\ p.range = q.range /\ p.index = q.index
                => v = w /\ i = j
           /\ Labelled(p) /\ q.op \in Assigning /\ q.name = p.range => q.op = "range"
           /\ p.op = "satisfy" /\ q.op \in Assigning /\ q.name = p.name => q.op # "range"
  /\ \A w \in Tasks : \A j \in DOMAIN Script[w] : Script[w][j].op = "edt" =>
       \E v \in After[w] \cup {w} : \E i \in DOMAIN Script[v] :
         /\ Script[v][i].op = "template" /\ Script[v][i].name = Script[w][j].template
         /\ v = w => i < j

VARIABLES
  size,      \* size[h]: data_.size() of the object_repository of h
  created,   \* created[h]: the guids of the objects in the repository of h
  cache,     \* cache[n][g]: the entry of the object_cache of n, or "null"
  next, max, \* next[n][h], max[n][h]: preallocation_next and preallocation_max
  reserving, \* reserving[n][h]: who holds preallocations_mutex, or None
  channel,   \* channel[n][h]: the fetch channel from n to h
  maps,      \* map_sequence_id_ of node 0
  at, pc,    \* the call of each task and where in it the task is
  got,       \* got[w]: the guids reserved for the call of w
  env,       \* env[x]: what the variable x holds, or None
  stream,    \* stream[w]: the messages of w that are not confirmed
  acking,    \* the tasks whose first message is handled but not confirmed
  handler,   \* handler[n]: what holds mutex_ of n, or None
  given,     \* history: the guids given to the tasks, a bag
  faults     \* the assertions that have failed

repo == <<size, created, cache>>
pool == <<next, max, reserving>>
task == <<at, pc, got, env>>
wire == <<stream, acking, handler>>
vars == <<repo, pool, channel, maps, task, wire, given, faults>>

-----------------------------------------------------------------------------
Guid(node, id)        == [mapped |-> FALSE, of |-> node, id |-> id]
MapGuid(id)           == [mapped |-> FALSE, of |-> -1, id |-> id]
Label(range, index)   == [mapped |-> TRUE, of |-> range.id, id |-> index]
NodeId(g)             == IF g.mapped THEN g.id % NodeCount ELSE g.of

(* Mutant: the number of a reserved guid is used twice.                    *)
FollowingNever(id) == id

Following(id) == id + 1

With(entries, g, obj) == [x \in DOMAIN entries \cup {g} |-> IF x = g THEN obj ELSE entries[x]]
InCache(n, g) == g \in DOMAIN cache[n] /\ cache[n][g] # "null"

(* Mutant: an object that is added replaces the one in the entry.          *)
AddedOver(n, g, obj) == [cache EXCEPT ![n] = With(@, g, obj)]

(* object_cache::add_object: an entry that holds an object keeps it.       *)
Added(n, g, obj) ==
  IF InCache(n, g) THEN cache ELSE [cache EXCEPT ![n] = With(@, g, obj)]

(* object_cache::try_get_object_locally leaves an empty entry for a guid   *)
(* it does not find.                                                       *)
Looked(n, guids) ==
  [cache EXCEPT ![n] =
     [g \in DOMAIN @ \cup guids |-> IF g \in DOMAIN cache[n] THEN cache[n][g] ELSE "null"]]

Known(n, g) == IF NodeId(g) = n THEN g \in created[n] ELSE InCache(n, g)

Fault(bad, what) == faults' = IF bad THEN faults \cup {what} ELSE faults

Init ==
  /\ size = [h \in Nodes |-> 2]   \* one item for the null guid, one for the affinity
  /\ created = [h \in Nodes |-> {}] /\ cache = [n \in Nodes |-> <<>>]
  /\ next = [n \in Nodes |-> [h \in Nodes |-> 0]] /\ max = next
  /\ reserving = [n \in Nodes |-> [h \in Nodes |-> None]]
  /\ channel = [n \in Nodes |-> [h \in Nodes |-> [by |-> None, ask |-> None, reply |-> None]]]
  /\ maps = 0
  /\ at = [w \in Tasks |-> 1] /\ pc = [w \in Tasks |-> "call"]
  /\ got = [w \in Tasks |-> <<>>] /\ env = [x \in Names |-> None]
  /\ stream = [w \in Tasks |-> <<>>] /\ acking = {} /\ handler = [n \in Nodes |-> None]
  /\ given = EmptyBag /\ faults = {}

-----------------------------------------------------------------------------
(***************************************************************************)
(* The fetch channels.                                                     *)
(***************************************************************************)
Request(op, g) == [op |-> op, guid |-> g]

Ask(n, h, who, request) ==
  /\ channel[n][h].by = None
  /\ channel' = [channel EXCEPT ![n][h] = [by |-> who, ask |-> request, reply |-> None]]

Answered(n, h, who) == channel[n][h].by = who /\ channel[n][h].reply # None

(* Mutant: mutex_fetch is not released.                                    *)
TakeReplyLocked(n, h) == channel' = [channel EXCEPT ![n][h].ask = None, ![n][h].reply = None]

TakeReply(n, h) == channel' = [channel EXCEPT ![n][h] = [by |-> None, ask |-> None, reply |-> None]]

Asked(n, h, op) == channel[n][h].ask # None /\ channel[n][h].ask.op = op
Reply(n, h, x)  == channel' = [channel EXCEPT ![n][h] = [by |-> @.by, ask |-> None, reply |-> x]]

(* CMD_allocate_guid: the repository grows by PREALLOCATE_COUNT items.     *)
ServeGuids(n, h) ==
  /\ Asked(n, h, "guids")
  /\ Reply(n, h, size[h]) /\ size' = [size EXCEPT ![h] = @ + Count]
  /\ UNCHANGED <<created, cache, pool, maps, task, wire, given, faults>>

ServeMapId(n, h) ==
  /\ Asked(n, h, "map_id")
  /\ Reply(n, h, maps + 1) /\ maps' = maps + 1
  /\ UNCHANGED <<repo, pool, task, wire, given, faults>>

(* CMD_pull_object waits until the object exists.                          *)
Pullable(h, g) == g \in created[h]

ServePull(n, h) ==
  /\ Asked(n, h, "pull")
  /\ LET g == channel[n][h].ask.guid
     IN  Pullable(h, g) /\ Reply(n, h, IF g \in created[h] THEN "copy" ELSE "null")
  /\ UNCHANGED <<repo, pool, maps, task, wire, given, faults>>

-----------------------------------------------------------------------------
(***************************************************************************)
(* Calls of the tasks.                                                     *)
(***************************************************************************)
Call(w)    == Script[w][at[w]]
Ended(w)   == at[w] > Len(Script[w])
Settled(w) == Ended(w) /\ stream[w] = <<>>
Ready(w)   == ~Ended(w) /\ pc[w] = "call" /\ \A v \in After[w] : Settled(v)

Returned(w) ==
  /\ at' = [at EXCEPT ![w] = @ + 1] /\ pc' = [pc EXCEPT ![w] = "call"]
  /\ got' = [got EXCEPT ![w] = <<>>]
Gives(g)    == given' = given (+) SetToBag({g})
Assign(x, g) == env' = [env EXCEPT ![x] = g]
Post(w, ms)  == stream' = [stream EXCEPT ![w] = @ \o ms]

(* A label is available once its range is.                                 *)
Named(c)     == IF Labelled(c) THEN env[c.range] # None ELSE env[c.name] # None
TheGuid(c)   == IF Labelled(c) THEN Label(env[c.range], c.index) ELSE env[c.name]

(* object_repository::add_object.                                          *)
NewLocal(n) == Guid(n, size[n])
AddLocal(n) ==
  /\ size' = [size EXCEPT ![n] = @ + 1] /\ created' = [created EXCEPT ![n] = @ \cup {NewLocal(n)}]

(* The messages of the calls.                                              *)
TemplateMsg(n, g) == [op |-> "push_template", to |-> n, guid |-> g]
EdtMsg(n, template, guids) ==
  [op |-> "edt_create", to |-> n, template |-> template, edt |-> guids[1], event |-> guids[2]]
DbMsg(n, g)       == [op |-> "db_create", to |-> n, guid |-> g]
MappedDbMsg(g, n) == [op |-> "mapped_db_create", to |-> NodeId(g), guid |-> g, master |-> n]
SatisfyMsg(n, g)  == [op |-> "satisfy_preslot", to |-> n, guid |-> g]

(* communicator_base::push sends the template to all other nodes.          *)
Pushes(n, g) == [i \in 1 .. NodeCount - 1 |-> TemplateMsg(IF i <= n THEN i - 1 ELSE i, g)]

CreateLocalDb(w) ==
  /\ Ready(w) /\ Call(w).op = "local_db"
  /\ AddLocal(At[w]) /\ Gives(NewLocal(At[w])) /\ Assign(Call(w).name, NewLocal(At[w])) /\ Returned(w)
  /\ UNCHANGED <<cache, pool, channel, maps, wire, faults>>

CreateTemplate(w) ==
  LET g == NewLocal(At[w])
  IN  /\ Ready(w) /\ Call(w).op = "template"
      /\ AddLocal(At[w]) /\ Gives(g) /\ Assign(Call(w).name, g) /\ Returned(w)
      /\ Post(w, Pushes(At[w], g))
      /\ UNCHANGED <<cache, pool, channel, maps, acking, handler, faults>>

(* ocrGuidRangeCreate                                                      *)
AskRange(w) ==
  /\ Ready(w) /\ Call(w).op = "range"
  /\ Ask(At[w], 0, w, Request("map_id", None)) /\ pc' = [pc EXCEPT ![w] = "asked"]
  /\ UNCHANGED <<repo, pool, maps, at, got, env, wire, given, faults>>

CreateRange(w) ==
  /\ pc[w] = "asked" /\ Call(w).op = "range" /\ Answered(At[w], 0, w)
  /\ LET g == MapGuid(channel[At[w]][0].reply) IN Gives(g) /\ Assign(Call(w).name, g)
  /\ TakeReply(At[w], 0) /\ Returned(w)
  /\ UNCHANGED <<repo, pool, maps, wire, faults>>

(* The guids that ocrEdtCreate (the task and its event) and ocrDbCreate    *)
(* reserve, before they send the message that creates the objects.         *)
Reserves(w) == IF Call(w).op = "edt" THEN 2 ELSE 1
Reserving(w) ==
  /\ ~Ended(w) /\ Call(w).op \in {"edt", "remote_db"} /\ Len(got[w]) < Reserves(w)
  /\ Ready(w)

GetGuid(w, g) == got' = [got EXCEPT ![w] = Append(@, g)] /\ Gives(g)

(* object_repository::preallocate_object, for a task of this node.         *)
ReserveLocal(w) ==
  /\ Reserving(w) /\ Call(w).to = At[w]
  /\ size' = [size EXCEPT ![At[w]] = @ + 1] /\ GetGuid(w, NewLocal(At[w]))
  /\ UNCHANGED <<created, cache, pool, channel, maps, at, pc, env, wire, faults>>

(* object_cache::reserve_guid: of what is left, or of what the home node   *)
(* is asked for, under preallocations_mutex all the time.                  *)
TakeGuid(w) ==
  LET n == At[w]
      h == Call(w).to
  IN  /\ Reserving(w) /\ h # n /\ reserving[n][h] = None /\ next[n][h] < max[n][h]
      /\ GetGuid(w, Guid(h, next[n][h])) /\ next' = [next EXCEPT ![n][h] = Following(@)]
      /\ UNCHANGED <<repo, max, reserving, channel, maps, at, pc, env, wire, faults>>

AskGuids(w) ==
  LET n == At[w]
      h == Call(w).to
  IN  /\ Reserving(w) /\ h # n /\ reserving[n][h] = None /\ next[n][h] >= max[n][h]
      /\ reserving' = [reserving EXCEPT ![n][h] = w] /\ Ask(n, h, w, Request("guids", None))
      /\ pc' = [pc EXCEPT ![w] = "asked"]
      /\ UNCHANGED <<repo, next, max, maps, at, got, env, wire, given, faults>>

RefillPool(w) ==
  LET n == At[w]
      h == Call(w).to
      first == channel[n][h].reply
  IN  /\ pc[w] = "asked" /\ Call(w).op # "range" /\ Answered(n, h, w) /\ TakeReply(n, h)
      /\ max' = [max EXCEPT ![n][h] = first + Count]
      /\ GetGuid(w, Guid(h, first)) /\ next' = [next EXCEPT ![n][h] = Following(first)]
      /\ reserving' = [reserving EXCEPT ![n][h] = None] /\ pc' = [pc EXCEPT ![w] = "call"]
      /\ UNCHANGED <<repo, maps, at, env, wire, faults>>

(* create_remote_edt, also for a task of this node; with EDT_PARAM_DEF the *)
(* template is looked at (stall_until_guid_is_available).                  *)
CreateEdt(w) ==
  /\ Ready(w) /\ Call(w).op = "edt" /\ Len(got[w]) = 2 /\ env[Call(w).template] # None
  /\ Post(w, <<EdtMsg(Call(w).to, env[Call(w).template], got[w])>>)
  /\ Fault(~Known(At[w], env[Call(w).template]), "template missing")
  /\ Returned(w)
  /\ UNCHANGED <<repo, pool, channel, maps, env, acking, handler, given>>

CreateRemoteDb(w) ==
  /\ Ready(w) /\ Call(w).op = "remote_db" /\ Len(got[w]) = 1
  /\ Post(w, <<DbMsg(Call(w).to, got[w][1])>>)
  /\ Assign(Call(w).name, got[w][1]) /\ Returned(w)
  /\ UNCHANGED <<repo, pool, channel, maps, acking, handler, given, faults>>

(* ocrDbCreate with a label: at its home, or as the master at another node *)
(* after the home has been told.                                           *)
CreateMappedDb(w) ==
  LET n == At[w]
      g == TheGuid(Call(w))
  IN  /\ Ready(w) /\ Call(w).op = "mapped_db" /\ Named(Call(w))
      /\ \/ /\ NodeId(g) = n
            /\ created' = [created EXCEPT ![n] = @ \cup {g}] /\ Fault(g \in created[n], "label in use")
            /\ Returned(w) /\ UNCHANGED stream
         \/ /\ NodeId(g) # n
            /\ Post(w, <<MappedDbMsg(g, n)>>)
            /\ pc' = [pc EXCEPT ![w] = "told"] /\ UNCHANGED <<created, at, got, faults>>
      /\ UNCHANGED <<size, cache, pool, channel, maps, env, acking, handler, given>>

CacheMaster(w) ==
  LET g == TheGuid(Call(w))
  IN  /\ pc[w] = "told" /\ cache' = Added(At[w], g, "master")
      /\ Fault(cache'[At[w]][g] # "master", "master deleted") /\ Returned(w)
      /\ UNCHANGED <<size, created, pool, channel, maps, env, wire, given>>

Satisfy(w) ==
  /\ Ready(w) /\ Call(w).op \in {"satisfy", "satisfy_label"} /\ Named(Call(w))
  /\ Post(w, <<SatisfyMsg(Call(w).to, TheGuid(Call(w)))>>)
  /\ Returned(w)
  /\ UNCHANGED <<repo, pool, channel, maps, env, acking, handler, given, faults>>

-----------------------------------------------------------------------------
(***************************************************************************)
(* Messages.  The runner of a node has sent the first message of a stream  *)
(* unless that is handled and its confirmation is on the way.              *)
(***************************************************************************)
(* objects_to_fetch and objects_needed of the descriptors.                 *)
Wanted(m) ==
  CASE m.op = "edt_create" -> {m.template}
    [] m.op = "satisfy_preslot" -> {m.guid}
    [] OTHER -> {}

Unlocked(n) == handler[n] = None

(* process_command, under mutex_.                                          *)
Receive(w) ==
  LET m == Head(stream[w])
      n == m.to
      missing == {g \in Wanted(m) : NodeId(g) # n /\ ~Known(n, g)}
  IN  /\ stream[w] # <<>> /\ w \notin acking /\ Unlocked(n)
      /\ handler' = [handler EXCEPT ![n] = [of |-> w, fetch |-> missing]]
      /\ cache' = Looked(n, missing)
      /\ UNCHANGED <<size, created, pool, channel, maps, task, stream, acking, given, faults>>

Fetches(n) == ~Unlocked(n) /\ handler[n].fetch # {}
NextFetch(n) == CHOOSE g \in handler[n].fetch : TRUE

(* communicator_base::fetch, and object_cache::add_object of what comes.   *)
Pull(n) ==
  /\ Fetches(n)
  /\ LET g == NextFetch(n) IN Ask(n, NodeId(g), n, Request("pull", g))
  /\ UNCHANGED <<repo, pool, maps, task, wire, given, faults>>

Pulled(n) ==
  LET g == NextFetch(n)
      h == NodeId(g)
  IN  /\ Fetches(n) /\ Answered(n, h, n) /\ TakeReply(n, h)
      /\ cache' = Added(n, g, channel[n][h].reply)
      /\ handler' = [handler EXCEPT ![n].fetch = @ \ {NextFetch(n)}]
      /\ UNCHANGED <<size, created, pool, maps, task, stream, acking, given, faults>>

(* The objects a message creates at its receiver.                          *)
Creates(m) ==
  CASE m.op = "edt_create" -> {m.edt, m.event}
    [] m.op \in {"db_create", "mapped_db_create"} -> {m.guid}
    [] OTHER -> {}

(* What its handler asserts: the items of reserved guids exist (set_object)*)
(* and labels are new (add_mapped_object); the objects it uses are there   *)
(* (get_object_locally).                                                   *)
Broken(n, m) ==
  \/ \E g \in Creates(m) : g.mapped /\ g \in created[n]
  \/ \E g \in Creates(m) : ~g.mapped /\ (g.of # n \/ g.id >= size[n])
  \/ \E g \in Wanted(m) : NodeId(g) # n /\ ~Known(n, g)

Handle(n) ==
  LET w == handler[n].of
      m == Head(stream[w])
  IN  /\ ~Unlocked(n) /\ handler[n].fetch = {}
      /\ created' = [created EXCEPT ![n] = @ \cup Creates(m)]
      /\ cache' = IF m.op = "push_template" THEN Added(n, m.guid, "copy") ELSE cache
      /\ Fault(Broken(n, m), m.op)
      /\ handler' = [handler EXCEPT ![n] = None] /\ acking' = acking \cup {w}
      /\ UNCHANGED <<size, pool, channel, maps, task, stream, given>>

(* CMD_confirmation is processed like any other message.                   *)
Confirm(w) ==
  /\ w \in acking /\ Unlocked(At[w])
  /\ acking' = acking \ {w} /\ stream' = [stream EXCEPT ![w] = Tail(@)]
  /\ UNCHANGED <<repo, pool, channel, maps, task, handler, given, faults>>

-----------------------------------------------------------------------------
TaskStep(w) ==
  \/ CreateLocalDb(w) \/ CreateTemplate(w) \/ AskRange(w) \/ CreateRange(w)
  \/ ReserveLocal(w) \/ TakeGuid(w) \/ AskGuids(w) \/ RefillPool(w)
  \/ CreateEdt(w) \/ CreateRemoteDb(w) \/ CreateMappedDb(w) \/ CacheMaster(w) \/ Satisfy(w)
  \/ Receive(w) \/ Confirm(w)

Done == (\A w \in Tasks : Settled(w)) /\ UNCHANGED vars

Next ==
  \/ \E w \in Tasks : TaskStep(w)
  \/ \E n \in Nodes : Pull(n) \/ Pulled(n) \/ Handle(n)
  \/ \E n, h \in Nodes : ServeGuids(n, h) \/ ServeMapId(n, h) \/ ServePull(n, h)
  \/ Done

Spec == Init /\ [][Next]_vars

(* A thread that can go on does: sender, receiver and fetch threads block  *)
(* or spin on what they wait for, and every task is run.                   *)
FairSpec == Spec /\ WF_vars(Next)

-----------------------------------------------------------------------------
(* No guid is given to two calls: not by two refills, not by a refill and  *)
(* an object the home node creates meanwhile, not by two tasks that use    *)
(* the same reserve, and no range is given twice.                          *)
GuidsGivenOnce == \A g \in DOMAIN given : given[g] = 1

(* The assertions of set_object, add_mapped_object and get_object_locally  *)
(* hold and a template is known where it is used.  Only one thing goes     *)
(* wrong: a block that is created under a label and used by a task that    *)
(* does not depend on its creator can come back to the node of the creator *)
(* as a pulled copy before ocrDbCreate has put it into the cache;          *)
(* add_object then deletes the master.                                     *)
OnlyEarlyUseFails == faults \subseteq {"master deleted"}

(* Guids are unique and objects are where the code expects them.           *)
ObjectsSound == GuidsGivenOnce /\ OnlyEarlyUseFails

(* An object that is in a cache stays: the pointers of the tasks and       *)
(* handlers that looked it up remain valid.                                *)
CachedStays ==
  [][\A n \in Nodes : \A g \in DOMAIN cache[n] :
       cache[n][g] # "null" => cache'[n][g] = cache[n][g]]_vars

(* Every call returns and every message is handled and confirmed, although *)
(* handlers pull objects, some of which do not exist yet, while they hold  *)
(* the mutex of their node.                                                *)
EverythingEnds == <>(\A w \in Tasks : Settled(w))
=============================================================================
