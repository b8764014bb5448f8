--------------------------- MODULE Objects_proofs ---------------------------
(***************************************************************************)
(* Proofs about Objects: no guid is given twice, no assertion of a handler *)
(* fails, and an object that is in a cache stays there, for any nodes and  *)
(* any tasks that satisfy ProgramAssumption.                               *)
(***************************************************************************)
EXTENDS Objects, FiniteSetTheorems, TLAPS

-----------------------------------------------------------------------------
(***************************************************************************)
(* The inductive invariant.                                                *)
(***************************************************************************)
Fetching == {"edt", "remote_db"}   \* the calls that reserve guids

Requests == [op : {"guids", "map_id", "pull"}, guid : Guids \cup {None}]
Channels == [by : Tasks \cup Nodes \cup {None}, ask : Requests \cup {None},
             reply : Nat \cup {"copy", None}]
Handlers == [of : Tasks, fetch : SUBSET Guids]
Messages ==
       [op : {"push_template", "db_create", "satisfy_preslot"}, to : Nodes, guid : Guids]
  \cup [op : {"edt_create"}, to : Nodes, template : Guids, edt : Guids, event : Guids]
  \cup [op : {"mapped_db_create"}, to : Nodes, guid : Guids, master : Nodes]

RepoType == /\ size \in [Nodes -> Nat] /\ created \in [Nodes -> SUBSET Guids]
            /\ cache = [n \in Nodes |-> cache[n]]
PoolType == /\ next \in [Nodes -> [Nodes -> Nat]] /\ max \in [Nodes -> [Nodes -> Nat]]
            /\ reserving \in [Nodes -> [Nodes -> Tasks \cup {None}]]
            /\ channel \in [Nodes -> [Nodes -> Channels]] /\ maps \in Nat
TaskType == /\ at \in [Tasks -> Nat \ {0}] /\ pc \in [Tasks -> {"call", "asked", "told"}]
            /\ got \in [Tasks -> Seq(Guids)] /\ env \in [Names -> Guids \cup {None}]
WireType == /\ stream \in [Tasks -> Seq(Messages)] /\ acking \in SUBSET Tasks
            /\ handler \in [Nodes -> Handlers \cup {None}]
TypeOK   == RepoType /\ PoolType /\ TaskType /\ WireType

(* Whoever waits at a channel is in the call, or holds the mutex, that     *)
(* asks; what comes back is what was asked for.                            *)
AskedBy(n, h, w) ==
  /\ At[w] = n /\ pc[w] = "asked"
  /\ Call(w).op = "range" => h = 0
  /\ Call(w).op # "range" => Call(w).to = h /\ reserving[n][h] = w
AnswersTask(c, w) ==
  /\ c.ask # None => c.ask.op = IF Call(w).op = "range" THEN "map_id" ELSE "guids"
  /\ c.reply # None => c.reply \in Nat
AnswersNode(c) ==
  /\ c.ask # None => c.ask.op = "pull"
  /\ c.reply # None => c.reply = "copy"
GoodChannel(n, h) ==
  LET c == channel[n][h]
  IN  /\ c.by \in Tasks => AskedBy(n, h, c.by) /\ AnswersTask(c, c.by)
      /\ c.by \in Nodes => AnswersNode(c)
      /\ c.by = None => c.ask = None /\ c.reply = None
ChannelInv == \A n, h \in Nodes : GoodChannel(n, h)

(* The part of a call a task is in.                                        *)
CallInv == \A w \in Tasks :
  /\ pc[w] # "call" => ~Ended(w)
  /\ pc[w] = "asked" => Call(w).op \in Fetching \cup {"range"}
  /\ pc[w] = "told" => Call(w).op = "mapped_db"
  /\ got[w] # <<>> => ~Ended(w) /\ Call(w).op \in Fetching

(* The numbers node n may give away for objects of node h: what is left of *)
(* its reserve and what is on its way to it.                               *)
Coming(n, h, first) ==
  /\ channel[n][h].by \in Tasks /\ Call(channel[n][h].by).op # "range"
  /\ channel[n][h].reply # None /\ first = channel[n][h].reply
InPool(n, h, i) ==
  \/ next[n][h] <= i /\ i < max[n][h]
  \/ \E first \in Nat : Coming(n, h, first) /\ first <= i /\ i < first + Count
PoolInv ==
  /\ \A n, h \in Nodes : \A i \in Nat : InPool(n, h, i) => i < size[h] /\ Guid(h, i) \notin DOMAIN given
  /\ \A m, n, h \in Nodes : \A i \in Nat : InPool(m, h, i) /\ InPool(n, h, i) => m = n

MapComing(n, id) ==
  /\ channel[n][0].by \in Tasks /\ Call(channel[n][0].by).op = "range"
  /\ channel[n][0].reply # None /\ id = channel[n][0].reply
MapInv ==
  /\ \A n \in Nodes : \A id \in Nat : MapComing(n, id) => id <= maps /\ MapGuid(id) \notin DOMAIN given
  /\ \A m, n \in Nodes : \A id \in Nat : MapComing(m, id) /\ MapComing(n, id) => m = n

(* An item that exists in the repository of h; a map that is allocated.    *)
ItemOf(h, g) == g \in Guids /\ ~g.mapped /\ g.of = h /\ g.id < size[h]
IsMap(g)     == g \in Guids /\ ~g.mapped /\ g.of = -1 /\ g.id <= maps

GivenInv ==
  /\ \A g \in DOMAIN given : given[g] = 1
  /\ \A g \in DOMAIN given : IsMap(g) \/ \E h \in Nodes : ItemOf(h, g)

GotInv == \A w \in Tasks : \A k \in DOMAIN got[w] : ItemOf(Call(w).to, got[w][k])

(* What a variable holds comes from the call that assigns it.              *)
AssignsAt(w, i, x) == i \in DOMAIN Script[w] /\ Script[w][i].op \in Assigning /\ Script[w][i].name = x
Holds(x, range) ==
  IF range THEN IsMap(env[x]) /\ env[x] \in DOMAIN given ELSE \E h \in Nodes : ItemOf(h, env[x])
EnvInv ==
  /\ \A x \in Names : env[x] # None =>
       \E w \in Tasks : \E i \in Nat :
         /\ i < at[w] /\ AssignsAt(w, i, x)
         /\ Holds(x, Script[w][i].op = "range")
  /\ \A x, y \in Names : env[x] # None /\ env[y] # None /\ env[x] = env[y] /\ env[x].of = -1 => x = y

(* A message that is not handled.                                          *)
Unhandled(w, k) == k \in DOMAIN stream[w] /\ (k # 1 \/ w \notin acking)

(* A template is at the nodes its messages have come to.                   *)
TemplateAt(w, g) ==
  /\ ItemOf(At[w], g) /\ g \in created[At[w]]
  /\ \A n \in Nodes : Known(n, g) \/ \E k \in Nat : Unhandled(w, k) /\ stream[w][k] = TemplateMsg(n, g)
TemplateInv ==
  \A w \in Tasks : \A i \in DOMAIN Script[w] :
    i < at[w] /\ Script[w][i].op = "template" => TemplateAt(w, env[Script[w][i].name])

(* The calls that have named a block by a label, and the messages about it.*)
Labels(w, i) ==
  /\ i \in DOMAIN Script[w] /\ Script[w][i].op = "mapped_db"
  /\ i < at[w] \/ (i = at[w] /\ pc[w] = "told")
LabelInv ==
  /\ \A w \in Tasks : \A i \in Nat : Labels(w, i) => env[Script[w][i].range] # None
  /\ \A n \in Nodes : \A g \in created[n] : g.mapped =>
       \E w \in Tasks : \E i \in Nat : Labels(w, i) /\ g = TheGuid(Script[w][i])
LabelMsgInv ==
  /\ \A w \in Tasks : \A k \in DOMAIN stream[w] : stream[w][k].op = "mapped_db_create" =>
       \E i \in Nat : Labels(w, i) /\ stream[w][k].guid = TheGuid(Script[w][i])
  /\ \A w \in Tasks : \A k, l \in DOMAIN stream[w] :
       stream[w][k].op = "mapped_db_create" /\ stream[w][l].op = "mapped_db_create"
         /\ stream[w][k].guid = stream[w][l].guid => k = l
  /\ \A w \in Tasks : \A k \in Nat : Unhandled(w, k) /\ stream[w][k].op = "mapped_db_create" =>
       stream[w][k].guid \notin created[stream[w][k].to]

(* What a handler asserts of its message, apart from labels.               *)
MsgOK(m) ==
  /\ \A g \in Wanted(m) : NodeId(g) \in Nodes
  /\ m.op = "edt_create" => ItemOf(m.to, m.edt) /\ ItemOf(m.to, m.event)
  /\ m.op = "db_create" => ItemOf(m.to, m.guid)
  /\ m.op = "mapped_db_create" => m.guid.mapped
MsgInv == \A w \in Tasks : \A k \in DOMAIN stream[w] : MsgOK(stream[w][k])

(* The message a node handles is the first of its stream; what it wants    *)
(* is known or to be fetched.                                              *)
Handling(n, w) ==
  /\ stream[w] # <<>> /\ w \notin acking /\ Head(stream[w]).to = n
  /\ handler[n].fetch \subseteq {g \in Wanted(Head(stream[w])) : NodeId(g) # n}
  /\ \A g \in Wanted(Head(stream[w])) : g \in handler[n].fetch \/ NodeId(g) = n \/ Known(n, g)
HandlerInv ==
  /\ \A n \in Nodes : handler[n] # None => Handling(n, handler[n].of)
  /\ \A w \in acking : stream[w] # <<>>

IInv ==
  /\ TypeOK
  /\ ChannelInv /\ CallInv /\ PoolInv /\ MapInv /\ GivenInv /\ GotInv
  /\ EnvInv /\ TemplateInv /\ LabelInv /\ LabelMsgInv /\ MsgInv /\ HandlerInv
  /\ OnlyEarlyUseFails

-----------------------------------------------------------------------------
(***************************************************************************)
(* Nodes, calls and guids.                                                 *)
(***************************************************************************)
LEMMA NodeFacts ==
  /\ NodeCount \in Nat /\ NodeCount > 0
  /\ \A i : i \in Nodes <=> i \in Int /\ 0 <= i /\ i < NodeCount
  /\ \A n \in Nodes : n \in Nat /\ n \notin Tasks /\ n # None
  /\ \A w \in Tasks : w # None /\ At[w] \in Nodes /\ After[w] \in SUBSET Tasks
<1>1. NodeCount \in Nat
  BY ObjectsAssumption, FS_CardinalityType DEF NodeCount
<1>2. Nodes = 0 .. NodeCount - 1 /\ 0 \in Nodes
  BY ObjectsAssumption
<1> QED
  BY <1>1, <1>2, ObjectsAssumption

CallOK(c) ==
  /\ c.op \in Assigning => c.name \in Names
  /\ c.op \in Fetching => c.to \in Nodes
  /\ c.op = "edt" => c.template \in Names
  /\ Labelled(c) => c.range \in Names /\ c.index \in Nat
  /\ c.op \in {"satisfy", "satisfy_label"} => c.to \in Nodes
  /\ c.op = "satisfy" => c.name \in Names

LEMMA CallsOK ==
  ASSUME NEW c \in Calls
  PROVE  CallOK(c)
<1>1. CASE c \in [op : {"range", "template", "local_db"}, name : Names]
  BY <1>1 DEF CallOK, Assigning, Fetching, Labelled
<1>2. CASE c \in [op : {"edt"}, to : Nodes, template : Names]
  BY <1>2 DEF CallOK, Assigning, Fetching, Labelled
<1>3. CASE c \in [op : {"remote_db"}, to : Nodes, name : Names]
  BY <1>3 DEF CallOK, Assigning, Fetching, Labelled
<1>4. CASE c \in [op : {"mapped_db"}, range : Names, index : Nat]
  BY <1>4 DEF CallOK, Assigning, Fetching, Labelled
<1>5. CASE c \in [op : {"satisfy"}, to : Nodes, name : Names]
  BY <1>5 DEF CallOK, Assigning, Fetching, Labelled
<1>6. CASE c \in [op : {"satisfy_label"}, to : Nodes, range : Names, index : Nat]
  BY <1>6 DEF CallOK, Assigning, Fetching, Labelled
<1> QED
  BY <1>1, <1>2, <1>3, <1>4, <1>5, <1>6 DEF Calls

LEMMA CallFacts ==
  ASSUME NEW w \in Tasks, NEW i \in DOMAIN Script[w]
  PROVE  CallOK(Script[w][i])
<1>1. Script[w] \in Seq(Calls)
  BY ObjectsAssumption
<1>2. Script[w][i] \in Calls
  BY <1>1
<1> QED
  BY <1>2, CallsOK

(* The call of a task that has not ended.                                  *)
LEMMA CallNow ==
  ASSUME TaskType, NEW w \in Tasks, ~Ended(w)
  PROVE  at[w] \in DOMAIN Script[w] /\ at[w] \in Nat /\ at[w] > 0 /\ CallOK(Call(w))
<1>1. Script[w] \in Seq(Calls) /\ at[w] \in Nat /\ at[w] > 0
  BY ObjectsAssumption DEF TaskType
<1>2. at[w] \in DOMAIN Script[w]
  BY <1>1 DEF Ended
<1> QED
  BY <1>1, <1>2, CallFacts DEF Call

LEMMA GuidTypes ==
  /\ \A n \in Nodes : \A i \in Nat : Guid(n, i) \in Guids
  /\ \A i \in Nat : MapGuid(i) \in Guids
  /\ \A g, i : g \in Guids /\ i \in Nat /\ g.id \in Nat => Label(g, i) \in Guids
  /\ \A g \in Guids : g # None
<1>1. \A n \in Nodes : n \in Int
  BY NodeFacts
<1>2. None \notin Guids
  BY ObjectsAssumption
<1> QED
  BY <1>1, <1>2 DEF Guid, MapGuid, Label, Guids

LEMMA GuidFields ==
  ASSUME NEW n, NEW i, NEW g
  PROVE  /\ ~Guid(n, i).mapped /\ Guid(n, i).of = n /\ Guid(n, i).id = i
         /\ ~MapGuid(i).mapped /\ MapGuid(i).of = -1 /\ MapGuid(i).id = i
         /\ Label(g, i).mapped /\ Label(g, i).of = g.id /\ Label(g, i).id = i
  BY DEF Guid, MapGuid, Label

(* A guid is what its fields are.                                          *)
LEMMA GuidEqual ==
  ASSUME NEW g \in Guids, NEW k \in Guids, g.mapped <=> k.mapped, g.of = k.of, g.id = k.id
  PROVE  g = k
  BY DEF Guids

LEMMA HomeOfItem ==
  ASSUME NEW h, NEW g, ItemOf(h, g)
  PROVE  NodeId(g) = h /\ g = Guid(h, g.id) /\ g.id \in Nat
  BY DEF ItemOf, NodeId, Guids, Guid

LEMMA HomeOfLabel ==
  ASSUME NEW g \in Guids, g.mapped
  PROVE  NodeId(g) \in Nodes
<1>1. g.id \in Nat
  BY DEF Guids
<1>2. g.id % NodeCount \in 0 .. NodeCount - 1
  BY <1>1, NodeFacts
<1> QED
  BY <1>2, NodeFacts DEF NodeId

-----------------------------------------------------------------------------
(***************************************************************************)
(* What the operations on a single variable do.                            *)
(***************************************************************************)
ChannelSet(n, h, c) ==
  /\ channel' \in [Nodes -> [Nodes -> Channels]] /\ channel'[n][h] = c
  /\ \A m, k \in Nodes : m # n \/ k # h => channel'[m][k] = channel[m][k]

LEMMA SetChannel ==
  ASSUME PoolType, NEW n \in Nodes, NEW h \in Nodes, NEW c \in Channels,
         channel' = [channel EXCEPT ![n][h] = c]
  PROVE  ChannelSet(n, h, c)
  BY DEF PoolType, ChannelSet

Empty == [by |-> None, ask |-> None, reply |-> None]
Waits(who, request)   == [by |-> who, ask |-> request, reply |-> None]
Replied(n, h, x)      == [by |-> channel[n][h].by, ask |-> None, reply |-> x]

LEMMA AskSets ==
  ASSUME PoolType, NEW n \in Nodes, NEW h \in Nodes, NEW who \in Tasks \cup Nodes,
         NEW request \in Requests, Ask(n, h, who, request)
  PROVE  channel[n][h].by = None /\ ChannelSet(n, h, Waits(who, request))
<1>1. Waits(who, request) \in Channels
  BY DEF Waits, Channels
<1> QED
  BY <1>1, SetChannel DEF Ask, Waits

LEMMA TakeSets ==
  ASSUME PoolType, NEW n \in Nodes, NEW h \in Nodes, TakeReply(n, h)
  PROVE  ChannelSet(n, h, Empty)
<1>1. Empty \in Channels
  BY DEF Empty, Channels
<1> QED
  BY <1>1, SetChannel DEF TakeReply, Empty

LEMMA ReplySets ==
  ASSUME PoolType, NEW n \in Nodes, NEW h \in Nodes, NEW x \in Nat \cup {"copy"}, Reply(n, h, x)
  PROVE  ChannelSet(n, h, Replied(n, h, x))
<1>1. channel[n][h] \in Channels
  BY DEF PoolType
<1>2. Replied(n, h, x) \in Channels
  BY <1>1 DEF Channels, Replied
<1>3. channel' = [channel EXCEPT ![n][h] = Replied(n, h, x)]
  BY DEF Reply, Replied
<1> QED
  BY <1>2, <1>3, SetChannel

(* A task has returned from its call.                                      *)
Moved(w) ==
  /\ at' \in [Tasks -> Nat \ {0}] /\ pc' \in [Tasks -> {"call", "asked", "told"}]
  /\ got' \in [Tasks -> Seq(Guids)]
  /\ at'[w] = at[w] + 1 /\ pc'[w] = "call" /\ got'[w] = <<>>
  /\ \A v \in Tasks : v # w => at'[v] = at[v] /\ pc'[v] = pc[v] /\ got'[v] = got[v]

LEMMA ReturnedMoves ==
  ASSUME TaskType, NEW w \in Tasks, Returned(w)
  PROVE  Moved(w)
<1>1. <<>> \in Seq(Guids)
  OBVIOUS
<1> QED
  BY <1>1 DEF TaskType, Returned, Moved

(* A task gets one more guid for its call.                                 *)
Gains(w, g) ==
  /\ got' \in [Tasks -> Seq(Guids)] /\ got'[w] = Append(got[w], g)
  /\ \A v \in Tasks : v # w => got'[v] = got[v]

GivenTo(g) ==
  /\ \A k : k \in DOMAIN given' <=> k \in DOMAIN given \/ k = g
  /\ \A k \in DOMAIN given : k # g => given'[k] = 1
  /\ g \notin DOMAIN given => given'[g] = 1

LEMMA GivesGives ==
  ASSUME GivenInv, NEW g, Gives(g)
  PROVE  GivenTo(g)
<1> DEFINE b == SetToBag({g})
<1>1. DOMAIN b = {g} /\ b[g] = 1
  BY DEF SetToBag
<1>2. given' = given (+) b
  BY DEF Gives
<1>3. \A k \in DOMAIN given : k # g => k \notin DOMAIN b
  BY <1>1
<1> HIDE DEF b
<1>4. DOMAIN given' = DOMAIN given \cup {g}
  BY <1>1, <1>2 DEF (+)
<1>5. \A k \in DOMAIN given : k # g => given'[k] = 1
  BY <1>1, <1>2, <1>3 DEF (+), GivenInv
<1>6. g \notin DOMAIN given => given'[g] = 1
  BY <1>1, <1>2 DEF (+)
<1> QED
  BY <1>4, <1>5, <1>6 DEF GivenTo

LEMMA GetGains ==
  ASSUME TaskType, GivenInv, NEW w \in Tasks, NEW g \in Guids, GetGuid(w, g)
  PROVE  Gains(w, g) /\ GivenTo(g)
<1>1. Append(got[w], g) \in Seq(Guids)
  BY DEF TaskType
<1>2. got' = [got EXCEPT ![w] = Append(got[w], g)]
  BY DEF GetGuid
<1>3. Gains(w, g)
  BY <1>1, <1>2 DEF TaskType, Gains
<1> QED
  BY <1>3, GivesGives DEF GetGuid

Sets(x, g) ==
  /\ env' \in [Names -> Guids \cup {None}] /\ env'[x] = g
  /\ \A y \in Names : y # x => env'[y] = env[y]

LEMMA AssignSets ==
  ASSUME TaskType, NEW x \in Names, NEW g \in Guids, Assign(x, g)
  PROVE  Sets(x, g)
  BY DEF TaskType, Assign, Sets

(* Messages are appended to the stream of a task.                          *)
Appends(w, ms) ==
  /\ stream' \in [Tasks -> Seq(Messages)]
  /\ Len(stream'[w]) = Len(stream[w]) + Len(ms)
  /\ \A k \in 1 .. Len(stream[w]) : stream'[w][k] = stream[w][k]
  /\ \A k \in 1 .. Len(ms) : stream'[w][Len(stream[w]) + k] = ms[k]
  /\ \A v \in Tasks : v # w => stream'[v] = stream[v]

LEMMA PostAppends ==
  ASSUME WireType, NEW w \in Tasks, NEW ms \in Seq(Messages), Post(w, ms)
  PROVE  Appends(w, ms)
<1>1. stream[w] \in Seq(Messages) /\ stream[w] \o ms \in Seq(Messages)
  BY DEF WireType
<1>2. stream' = [stream EXCEPT ![w] = stream[w] \o ms]
  BY DEF Post
<1>3. stream'[w] = stream[w] \o ms
  BY <1>2 DEF WireType
<1> QED
  BY <1>1, <1>2, <1>3 DEF WireType, Appends

(* Entries of a cache are filled, none is emptied or changed.              *)
CacheGrows ==
  /\ cache' = [n \in Nodes |-> cache'[n]]
  /\ \A n \in Nodes : \A g : InCache(n, g) => InCache(n, g)' /\ cache'[n][g] = cache[n][g]

InCacheNext(n, g) == g \in DOMAIN cache'[n] /\ cache'[n][g] # "null"

LEMMA AddedGrows ==
  ASSUME RepoType, NEW n \in Nodes, NEW g, NEW obj, cache' = Added(n, g, obj)
  PROVE  CacheGrows /\ (obj # "null" => InCacheNext(n, g))
<1>1. CASE InCache(n, g)
  BY <1>1 DEF RepoType, Added, CacheGrows, InCache, InCacheNext
<1>2. CASE ~InCache(n, g)
  <2>1. cache' = [cache EXCEPT ![n] = With(cache[n], g, obj)]
    BY <1>2 DEF Added
  <2>2. cache'[n] = With(cache[n], g, obj) /\ \A m \in Nodes : m # n => cache'[m] = cache[m]
    BY <2>1 DEF RepoType
  <2>3. cache' = [m \in Nodes |-> cache'[m]]
    BY <2>1 DEF RepoType
  <2>4. \A k : k \in DOMAIN cache[n] \/ k = g <=> k \in DOMAIN cache'[n]
    BY <2>2 DEF With
  <2>5. \A k \in DOMAIN cache[n] : k # g => cache'[n][k] = cache[n][k]
    BY <2>2 DEF With
  <2>6. cache'[n][g] = obj
    BY <2>2 DEF With
  <2> QED
    BY <1>2, <2>2, <2>3, <2>4, <2>5, <2>6 DEF CacheGrows, InCache, InCacheNext
<1> QED
  BY <1>1, <1>2

LEMMA LookedGrows ==
  ASSUME RepoType, NEW n \in Nodes, NEW guids, cache' = Looked(n, guids)
  PROVE  CacheGrows
<1> DEFINE f == [g \in DOMAIN cache[n] \cup guids |-> IF g \in DOMAIN cache[n] THEN cache[n][g] ELSE "null"]
<1>1. cache' = [cache EXCEPT ![n] = f]
  BY DEF Looked, RepoType
<1>2. cache'[n] = f /\ \A m \in Nodes : m # n => cache'[m] = cache[m]
  BY <1>1 DEF RepoType
<1>3. cache' = [m \in Nodes |-> cache'[m]]
  BY <1>1 DEF RepoType
<1>4. \A k \in DOMAIN cache[n] : k \in DOMAIN f /\ f[k] = cache[n][k]
  OBVIOUS
<1> QED
  BY <1>2, <1>3, <1>4 DEF CacheGrows, InCache

(* A repository gets an item and the object in it.                         *)
LocalAdded(n) ==
  /\ size' \in [Nodes -> Nat] /\ created' \in [Nodes -> SUBSET Guids] /\ NewLocal(n) \in Guids
  /\ size'[n] = size[n] + 1 /\ created'[n] = created[n] \cup {NewLocal(n)}
  /\ \A m \in Nodes : m # n => size'[m] = size[m] /\ created'[m] = created[m]

LEMMA AddLocalAdds ==
  ASSUME RepoType, NEW n \in Nodes, AddLocal(n)
  PROVE  LocalAdded(n)
<1>1. NewLocal(n) \in Guids
  BY GuidTypes DEF RepoType, NewLocal
<1> QED
  BY <1>1 DEF RepoType, AddLocal, LocalAdded

-----------------------------------------------------------------------------
(***************************************************************************)
(* What no step takes back.                                                *)
(***************************************************************************)
RepoGrows ==
  /\ \A h \in Nodes : size[h] <= size'[h] /\ created[h] \subseteq created'[h]
  /\ \A n \in Nodes : \A g : InCache(n, g) => InCache(n, g)'
TaskGrows ==
  /\ \A x \in Names : env[x] # None => env'[x] = env[x]
  /\ \A w \in Tasks : /\ at[w] <= at'[w]
                      /\ at'[w] = at[w] /\ pc[w] = "told" => pc'[w] = "told"
GivenGrows == maps <= maps' /\ \A g : g \in DOMAIN given => g \in DOMAIN given'
Grows == RepoGrows /\ TaskGrows /\ GivenGrows

LEMMA AssignedOnce ==
  ASSUME NEW v \in Tasks, NEW w \in Tasks, NEW i, NEW j, NEW x, AssignsAt(v, i, x), AssignsAt(w, j, x)
  PROVE  v = w /\ i = j
  BY ProgramAssumption DEF AssignsAt

LEMMA LabelledOnce ==
  ASSUME NEW v \in Tasks, NEW w \in Tasks, NEW i \in DOMAIN Script[v], NEW j \in DOMAIN Script[w],
         Script[v][i].op = "mapped_db", Script[w][j].op = "mapped_db",
         Script[v][i].range = Script[w][j].range, Script[v][i].index = Script[w][j].index
  PROVE  v = w /\ i = j
  BY ProgramAssumption

LEMMA RangesOnly ==
  ASSUME NEW v \in Tasks, NEW w \in Tasks, NEW i \in DOMAIN Script[v], NEW j,
         Labelled(Script[v][i]), AssignsAt(w, j, Script[v][i].range)
  PROVE  Script[w][j].op = "range"
  BY ProgramAssumption DEF AssignsAt

LEMMA BlocksOnly ==
  ASSUME NEW v \in Tasks, NEW w \in Tasks, NEW i \in DOMAIN Script[v], NEW j,
         Script[v][i].op = "satisfy", AssignsAt(w, j, Script[v][i].name)
  PROVE  Script[w][j].op # "range"
  BY ProgramAssumption DEF AssignsAt

LEMMA TemplateBefore ==
  ASSUME NEW w \in Tasks, NEW j \in DOMAIN Script[w], Script[w][j].op = "edt"
  PROVE  \E v \in After[w] \cup {w} : \E i \in DOMAIN Script[v] :
           /\ Script[v][i].op = "template" /\ Script[v][i].name = Script[w][j].template
           /\ v = w => i < j
  BY ProgramAssumption

(* The variable a call assigns has no value before.                        *)
LEMMA FirstValue ==
  ASSUME TaskType, EnvInv, NEW w \in Tasks, ~Ended(w), Call(w).op \in Assigning
  PROVE  Call(w).name \in Names /\ env[Call(w).name] = None
<1> DEFINE x == Call(w).name
<1>1. at[w] \in DOMAIN Script[w] /\ at[w] \in Nat /\ x \in Names
  BY CallNow DEF CallOK
<1>2. AssignsAt(w, at[w], x)
  BY <1>1 DEF AssignsAt, Call
<1>3. ASSUME env[x] # None PROVE FALSE
  <2>1. PICK v \in Tasks : \E i \in Nat : i < at[v] /\ AssignsAt(v, i, x)
    BY <1>1, <1>3 DEF EnvInv
  <2>2. PICK i \in Nat : i < at[v] /\ AssignsAt(v, i, x)
    BY <2>1
  <2>3. v = w /\ i = at[w]
    BY <1>2, <2>2, AssignedOnce
  <2> QED
    BY <1>1, <2>2, <2>3
<1> QED
  BY <1>1, <1>3

LEMMA ReadyFacts ==
  ASSUME TaskType, NEW w \in Tasks, Ready(w)
  PROVE  /\ ~Ended(w) /\ pc[w] = "call" /\ At[w] \in Nodes
         /\ at[w] \in DOMAIN Script[w] /\ at[w] \in Nat /\ at[w] > 0 /\ CallOK(Call(w))
  BY CallNow, NodeFacts DEF Ready

LEMMA RepoStays ==
  ASSUME RepoType, UNCHANGED <<size, created, cache>>
  PROVE  RepoType' /\ RepoGrows
  BY DEF RepoType, RepoGrows, InCache

LEMMA RepoAdds ==
  ASSUME RepoType, NEW n \in Nodes, LocalAdded(n), UNCHANGED cache
  PROVE  RepoType' /\ RepoGrows
  BY DEF RepoType, RepoGrows, InCache, LocalAdded

LEMMA RepoCaches ==
  ASSUME RepoType, CacheGrows, UNCHANGED <<size, created>>
  PROVE  RepoType' /\ RepoGrows
  BY DEF RepoType, RepoGrows, CacheGrows

LEMMA TaskStays ==
  ASSUME TaskType, UNCHANGED <<at, pc, env>>
  PROVE  TaskGrows /\ (got' \in [Tasks -> Seq(Guids)] => TaskType')
  BY DEF TaskType, TaskGrows

LEMMA TaskMoves ==
  ASSUME TaskType, NEW w \in Tasks, Moved(w), UNCHANGED env
  PROVE  TaskType' /\ TaskGrows
  BY DEF TaskType, TaskGrows, Moved

LEMMA TaskSets ==
  ASSUME TaskType, NEW w \in Tasks, Moved(w), NEW x \in Names, env[x] = None, NEW g, Sets(x, g)
  PROVE  TaskType' /\ TaskGrows
  BY DEF TaskType, TaskGrows, Moved, Sets

(* A task gets to another part of its call.                                *)
Enters(w, part) ==
  /\ pc' \in [Tasks -> {"call", "asked", "told"}] /\ pc'[w] = part
  /\ \A v \in Tasks : v # w => pc'[v] = pc[v]

LEMMA PartEntered ==
  ASSUME TaskType, NEW w \in Tasks, NEW part \in {"call", "asked", "told"},
         pc' = [pc EXCEPT ![w] = part]
  PROVE  Enters(w, part)
  BY DEF TaskType, Enters

LEMMA TaskEnters ==
  ASSUME TaskType, NEW w \in Tasks, pc[w] # "told", NEW part, Enters(w, part), UNCHANGED <<at, env>>
  PROVE  TaskGrows /\ (got' \in [Tasks -> Seq(Guids)] => TaskType')
  BY DEF TaskType, TaskGrows, Enters

LEMMA GivenStays ==
  ASSUME PoolType, UNCHANGED <<maps, given>>
  PROVE  GivenGrows
  BY DEF PoolType, GivenGrows

LEMMA GivenAdds ==
  ASSUME PoolType, UNCHANGED maps, NEW g, GivenTo(g)
  PROVE  GivenGrows
  BY DEF PoolType, GivenGrows, GivenTo

LEMMA PoolStays ==
  ASSUME PoolType, UNCHANGED <<pool, maps>>, channel' \in [Nodes -> [Nodes -> Channels]]
  PROVE  PoolType'
  BY DEF PoolType, pool

LEMMA ChannelStays ==
  ASSUME PoolType, UNCHANGED channel
  PROVE  channel' \in [Nodes -> [Nodes -> Channels]]
  BY DEF PoolType

LEMMA WireStays ==
  ASSUME WireType, UNCHANGED wire
  PROVE  WireType'
  BY DEF WireType, wire

LEMMA WireAppends ==
  ASSUME WireType, UNCHANGED <<acking, handler>>, NEW w \in Tasks, NEW ms, Appends(w, ms)
  PROVE  WireType'
  BY DEF WireType, Appends

-----------------------------------------------------------------------------
(***************************************************************************)
(* Types, action by action.                                                *)
(***************************************************************************)
LEMMA LocalDbTypes ==
  ASSUME IInv, NEW w \in Tasks, CreateLocalDb(w)
  PROVE  /\ TypeOK' /\ Grows
         /\ LocalAdded(At[w]) /\ GivenTo(NewLocal(At[w])) /\ Moved(w)
         /\ Sets(Call(w).name, NewLocal(At[w]))
<1>1. RepoType /\ PoolType /\ TaskType /\ WireType /\ EnvInv /\ GivenInv
  BY DEF IInv, TypeOK
<1>2. ~Ended(w) /\ Call(w).op = "local_db" /\ At[w] \in Nodes
  BY <1>1, ReadyFacts DEF CreateLocalDb
<1>3. Call(w).name \in Names /\ env[Call(w).name] = None
  BY <1>1, <1>2, FirstValue DEF Assigning
<1>4. LocalAdded(At[w]) /\ GivenTo(NewLocal(At[w])) /\ Moved(w)
  BY <1>1, <1>2, AddLocalAdds, GivesGives, ReturnedMoves DEF CreateLocalDb
<1>5. Sets(Call(w).name, NewLocal(At[w]))
  BY <1>1, <1>3, <1>4, AssignSets DEF CreateLocalDb, LocalAdded
<1>6. UNCHANGED <<cache, pool, channel, maps, wire, faults>>
  BY DEF CreateLocalDb
<1>7. RepoType' /\ RepoGrows /\ PoolType' /\ GivenGrows
  BY <1>1, <1>2, <1>4, <1>6, RepoAdds, PoolStays, ChannelStays, GivenAdds
<1>8. TaskType' /\ TaskGrows /\ WireType'
  BY <1>1, <1>3, <1>4, <1>5, <1>6, TaskSets, WireStays
<1> QED
  BY <1>4, <1>5, <1>7, <1>8 DEF TypeOK, Grows

(* The messages that push a template: one to each other node.              *)
LEMMA PushFacts ==
  ASSUME NEW n \in Nodes, NEW g \in Guids
  PROVE  /\ Pushes(n, g) \in Seq(Messages)
         /\ \A k \in 1 .. Len(Pushes(n, g)) :
              \E m \in Nodes \ {n} : Pushes(n, g)[k] = TemplateMsg(m, g)
         /\ \A m \in Nodes \ {n} : \E k \in 1 .. Len(Pushes(n, g)) : Pushes(n, g)[k] = TemplateMsg(m, g)
<1> DEFINE to(i) == IF i <= n THEN i - 1 ELSE i
           s == [i \in 1 .. NodeCount - 1 |-> TemplateMsg(to(i), g)]
<1>1. NodeCount \in Nat /\ NodeCount - 1 \in Nat /\ n \in Nat /\ n < NodeCount
  BY NodeFacts
<1>2. \A i \in 1 .. NodeCount - 1 : to(i) \in Nodes \ {n}
  BY <1>1, NodeFacts
<1>3. \A m \in Nodes : TemplateMsg(m, g) \in Messages
  BY DEF TemplateMsg, Messages
<1>4. Pushes(n, g) = s
  BY DEF Pushes
<1> HIDE DEF to
<1>5. s \in Seq(Messages) /\ Len(s) = NodeCount - 1
  <2>1. \A i \in 1 .. NodeCount - 1 : TemplateMsg(to(i), g) \in Messages
    BY <1>2, <1>3
  <2>2. s \in [1 .. NodeCount - 1 -> Messages]
    BY <2>1
  <2> HIDE DEF s
  <2> QED
    BY <1>1, <2>2
<1>6. \A m \in Nodes \ {n} : \E k \in 1 .. NodeCount - 1 : to(k) = m
  <2> SUFFICES ASSUME NEW m \in Nodes \ {n}
               PROVE  \E k \in 1 .. NodeCount - 1 : to(k) = m
    OBVIOUS
  <2>1. m \in Nat /\ m < NodeCount /\ m # n
    BY NodeFacts
  <2>2. CASE m < n
    <3>1. m + 1 \in 1 .. NodeCount - 1 /\ to(m + 1) = m
      BY <1>1, <2>1, <2>2 DEF to
    <3> QED
      BY <3>1
  <2>3. CASE m > n
    <3>1. m \in 1 .. NodeCount - 1 /\ to(m) = m
      BY <1>1, <2>1, <2>3 DEF to
    <3> QED
      BY <3>1
  <2> QED
    BY <1>1, <2>1, <2>2, <2>3
<1> QED
  BY <1>2, <1>4, <1>5, <1>6

LEMMA TemplateTypes ==
  ASSUME IInv, NEW w \in Tasks, CreateTemplate(w)
  PROVE  /\ TypeOK' /\ Grows
         /\ LocalAdded(At[w]) /\ GivenTo(NewLocal(At[w])) /\ Moved(w)
         /\ Sets(Call(w).name, NewLocal(At[w]))
         /\ Appends(w, Pushes(At[w], NewLocal(At[w])))
<1> DEFINE g == NewLocal(At[w])
<1>1. RepoType /\ PoolType /\ TaskType /\ WireType /\ EnvInv /\ GivenInv
  BY DEF IInv, TypeOK
<1>2. ~Ended(w) /\ Call(w).op = "template" /\ At[w] \in Nodes
  BY <1>1, ReadyFacts DEF CreateTemplate
<1>3. Call(w).name \in Names /\ env[Call(w).name] = None
  BY <1>1, <1>2, FirstValue DEF Assigning
<1>4. LocalAdded(At[w]) /\ GivenTo(g) /\ Moved(w)
  BY <1>1, <1>2, AddLocalAdds, GivesGives, ReturnedMoves DEF CreateTemplate
<1>5. Sets(Call(w).name, g)
  BY <1>1, <1>3, <1>4, AssignSets DEF CreateTemplate, LocalAdded
<1>6. UNCHANGED <<cache, pool, channel, maps, acking, handler, faults>>
  BY DEF CreateTemplate
<1>7. Appends(w, Pushes(At[w], g))
  BY <1>1, <1>2, <1>4, PushFacts, PostAppends DEF CreateTemplate, LocalAdded
<1>8. RepoType' /\ RepoGrows /\ PoolType' /\ GivenGrows
  BY <1>1, <1>2, <1>4, <1>6, RepoAdds, PoolStays, ChannelStays, GivenAdds
<1>9. TaskType' /\ TaskGrows /\ WireType'
  BY <1>1, <1>3, <1>4, <1>5, <1>6, <1>7, TaskSets, WireAppends
<1> QED
  BY <1>4, <1>5, <1>7, <1>8, <1>9 DEF TypeOK, Grows

LEMMA AskRangeTypes ==
  ASSUME IInv, NEW w \in Tasks, AskRange(w)
  PROVE  /\ TypeOK' /\ Grows
         /\ channel[At[w]][0].by = None /\ Enters(w, "asked")
         /\ ChannelSet(At[w], 0, Waits(w, Request("map_id", None)))
<1>1. RepoType /\ PoolType /\ TaskType /\ WireType
  BY DEF IInv, TypeOK
<1>2. At[w] \in Nodes /\ 0 \in Nodes /\ pc[w] = "call"
  BY <1>1, ReadyFacts, ObjectsAssumption DEF AskRange
<1>3. Request("map_id", None) \in Requests
  BY DEF Request, Requests
<1>4. channel[At[w]][0].by = None /\ ChannelSet(At[w], 0, Waits(w, Request("map_id", None)))
  BY <1>1, <1>2, <1>3, AskSets DEF AskRange
<1>5. Enters(w, "asked")
  BY <1>1, PartEntered DEF AskRange
<1>6. UNCHANGED <<size, created, cache, pool, maps, at, got, env, wire, given>>
  BY DEF AskRange, repo
<1>7. RepoType' /\ RepoGrows /\ WireType' /\ GivenGrows /\ PoolType'
  BY <1>1, <1>4, <1>6, RepoStays, WireStays, GivenStays, PoolStays DEF ChannelSet
<1>8. TaskType' /\ TaskGrows
  BY <1>1, <1>2, <1>5, <1>6, TaskEnters DEF TaskType
<1> QED
  BY <1>4, <1>5, <1>7, <1>8 DEF TypeOK, Grows

LEMMA CreateRangeTypes ==
  ASSUME IInv, NEW w \in Tasks, CreateRange(w)
  PROVE  /\ TypeOK' /\ Grows
         /\ LET g == MapGuid(channel[At[w]][0].reply)
            IN  GivenTo(g) /\ Sets(Call(w).name, g)
         /\ ChannelSet(At[w], 0, Empty) /\ Moved(w)
<1> DEFINE g == MapGuid(channel[At[w]][0].reply)
<1>1. RepoType /\ PoolType /\ TaskType /\ WireType /\ EnvInv /\ GivenInv /\ ChannelInv /\ CallInv
  BY DEF IInv, TypeOK
<1>2. At[w] \in Nodes /\ 0 \in Nodes /\ pc[w] = "asked" /\ ~Ended(w) /\ Call(w).op = "range"
  BY <1>1, NodeFacts, ObjectsAssumption DEF CreateRange, CallInv
<1>3. Call(w).name \in Names /\ env[Call(w).name] = None
  BY <1>1, <1>2, FirstValue DEF Assigning
<1>4. channel[At[w]][0].reply \in Nat
  BY <1>1, <1>2 DEF ChannelInv, GoodChannel, AnswersTask, CreateRange, Answered
<1>5. g \in Guids
  BY <1>4, GuidTypes
<1>6. ChannelSet(At[w], 0, Empty)
  BY <1>1, <1>2, TakeSets DEF CreateRange
<1>7. GivenTo(g) /\ Moved(w)
  BY <1>1, GivesGives, ReturnedMoves DEF CreateRange
<1>8. Sets(Call(w).name, g)
  BY <1>1, <1>3, <1>5, AssignSets DEF CreateRange
<1>9. UNCHANGED <<size, created, cache, pool, maps, wire>>
  BY DEF CreateRange, repo
<1>10. RepoType' /\ RepoGrows /\ WireType' /\ GivenGrows /\ PoolType'
  BY <1>1, <1>6, <1>7, <1>9, RepoStays, WireStays, GivenAdds, PoolStays DEF ChannelSet
<1>11. TaskType' /\ TaskGrows
  BY <1>1, <1>3, <1>7, <1>8, TaskSets
<1> QED
  BY <1>6, <1>7, <1>8, <1>10, <1>11 DEF TypeOK, Grows

(* The call that reserves guids.                                           *)
LEMMA ReservingFacts ==
  ASSUME TaskType, NEW w \in Tasks, Reserving(w)
  PROVE  /\ ~Ended(w) /\ pc[w] = "call" /\ At[w] \in Nodes /\ Call(w).op \in Fetching
         /\ Call(w).to \in Nodes /\ Ready(w)
  BY ReadyFacts DEF Reserving, CallOK, Fetching

LEMMA ReserveLocalTypes ==
  ASSUME IInv, NEW w \in Tasks, ReserveLocal(w)
  PROVE  /\ TypeOK' /\ Grows
         /\ Gains(w, NewLocal(At[w])) /\ GivenTo(NewLocal(At[w]))
<1> DEFINE g == NewLocal(At[w])
<1>1. RepoType /\ PoolType /\ TaskType /\ WireType /\ GivenInv
  BY DEF IInv, TypeOK
<1>2. At[w] \in Nodes
  BY NodeFacts
<1>3. g \in Guids /\ size[At[w]] \in Nat
  BY <1>1, <1>2, GuidTypes DEF NewLocal, RepoType
<1>4. Gains(w, g) /\ GivenTo(g)
  BY <1>1, <1>3, GetGains DEF ReserveLocal
<1>5. UNCHANGED <<created, cache, pool, channel, maps, at, pc, env, wire>> /\ size' = [size EXCEPT ![At[w]] = @ + 1]
  BY DEF ReserveLocal
<1>6. RepoType' /\ RepoGrows
  BY <1>1, <1>2, <1>3, <1>5 DEF RepoType, RepoGrows, InCache
<1>7. WireType' /\ GivenGrows /\ PoolType'
  BY <1>1, <1>4, <1>5, WireStays, GivenAdds, PoolStays, ChannelStays
<1>8. TaskType' /\ TaskGrows
  BY <1>1, <1>4, <1>5, TaskStays DEF Gains
<1> QED
  BY <1>4, <1>6, <1>7, <1>8 DEF TypeOK, Grows

LEMMA TakeGuidTypes ==
  ASSUME IInv, NEW w \in Tasks, TakeGuid(w)
  PROVE  /\ TypeOK' /\ Grows
         /\ LET g == Guid(Call(w).to, next[At[w]][Call(w).to])
            IN  Gains(w, g) /\ GivenTo(g)
         /\ next' = [next EXCEPT ![At[w]][Call(w).to] = next[At[w]][Call(w).to] + 1]
<1> DEFINE n == At[w]
           h == Call(w).to
<1>1. RepoType /\ PoolType /\ TaskType /\ WireType /\ GivenInv
  BY DEF IInv, TypeOK
<1>2. n \in Nodes /\ h \in Nodes
  BY <1>1, ReservingFacts DEF TakeGuid
<1>3. next[n][h] \in Nat /\ Guid(h, next[n][h]) \in Guids
  BY <1>1, <1>2, GuidTypes DEF PoolType
<1>4. Gains(w, Guid(h, next[n][h])) /\ GivenTo(Guid(h, next[n][h]))
  BY <1>1, <1>3, GetGains DEF TakeGuid
<1>5. UNCHANGED <<size, created, cache, max, reserving, channel, maps, at, pc, env, wire>>
  BY DEF TakeGuid, repo
<1>6. next' = [next EXCEPT ![n][h] = next[n][h] + 1]
  BY <1>1, <1>2 DEF TakeGuid, Following, PoolType
<1>7. PoolType'
  BY <1>1, <1>2, <1>3, <1>5, <1>6 DEF PoolType
<1>8. WireType' /\ GivenGrows /\ RepoType' /\ RepoGrows
  BY <1>1, <1>4, <1>5, WireStays, GivenAdds, RepoStays
<1>9. TaskType' /\ TaskGrows
  BY <1>1, <1>4, <1>5, TaskStays DEF Gains
<1> QED
  BY <1>4, <1>6, <1>7, <1>8, <1>9 DEF TypeOK, Grows

LEMMA AskGuidsTypes ==
  ASSUME IInv, NEW w \in Tasks, AskGuids(w)
  PROVE  /\ TypeOK' /\ Grows
         /\ channel[At[w]][Call(w).to].by = None /\ Enters(w, "asked")
         /\ ChannelSet(At[w], Call(w).to, Waits(w, Request("guids", None)))
<1> DEFINE n == At[w]
           h == Call(w).to
<1>1. RepoType /\ PoolType /\ TaskType /\ WireType /\ GivenInv
  BY DEF IInv, TypeOK
<1>2. n \in Nodes /\ h \in Nodes /\ pc[w] = "call"
  BY <1>1, ReservingFacts DEF AskGuids
<1>3. Request("guids", None) \in Requests
  BY DEF Request, Requests
<1>4. channel[n][h].by = None /\ ChannelSet(n, h, Waits(w, Request("guids", None)))
  BY <1>1, <1>2, <1>3, AskSets DEF AskGuids
<1>5. Enters(w, "asked")
  BY <1>1, PartEntered DEF AskGuids
<1>6. UNCHANGED <<size, created, cache, next, max, maps, at, got, env, wire, given>>
  BY DEF AskGuids, repo
<1>7. PoolType'
  BY <1>1, <1>2, <1>4, <1>6 DEF PoolType, ChannelSet, AskGuids
<1>8. RepoType' /\ RepoGrows /\ WireType' /\ GivenGrows
  BY <1>1, <1>4, <1>6, RepoStays, WireStays, GivenStays
<1>9. TaskType' /\ TaskGrows
  BY <1>1, <1>2, <1>5, <1>6, TaskEnters DEF TaskType
<1> QED
  BY <1>4, <1>5, <1>7, <1>8, <1>9 DEF TypeOK, Grows

(* What a task finds that takes an answer about guids.                     *)
LEMMA RefillFacts ==
  ASSUME IInv, NEW w \in Tasks, RefillPool(w)
  PROVE  /\ ~Ended(w) /\ pc[w] = "asked" /\ Call(w).op \in Fetching
         /\ At[w] \in Nodes /\ Call(w).to \in Nodes
         /\ channel[At[w]][Call(w).to].by = w /\ channel[At[w]][Call(w).to].reply # None
         /\ channel[At[w]][Call(w).to].reply \in Nat
<1>1. TaskType /\ ChannelInv /\ CallInv
  BY DEF IInv, TypeOK
<1>2. pc[w] = "asked" /\ ~Ended(w) /\ At[w] \in Nodes /\ Call(w).op \in Fetching
  BY <1>1, NodeFacts DEF RefillPool, CallInv
<1>3. Call(w).to \in Nodes
  BY <1>1, <1>2, CallNow DEF CallOK
<1>4. channel[At[w]][Call(w).to].by = w /\ channel[At[w]][Call(w).to].reply # None
  BY DEF RefillPool, Answered
<1> QED
  BY <1>1, <1>2, <1>3, <1>4 DEF ChannelInv, GoodChannel, AnswersTask

LEMMA RefillTypes ==
  ASSUME IInv, NEW w \in Tasks, RefillPool(w)
  PROVE  /\ TypeOK' /\ Grows
         /\ ChannelSet(At[w], Call(w).to, Empty) /\ Enters(w, "call")
         /\ LET g == Guid(Call(w).to, channel[At[w]][Call(w).to].reply)
            IN  Gains(w, g) /\ GivenTo(g)
<1> DEFINE n == At[w]
           h == Call(w).to
           first == channel[n][h].reply
<1>1. RepoType /\ PoolType /\ TaskType /\ WireType /\ GivenInv
  BY DEF IInv, TypeOK
<1>2. n \in Nodes /\ h \in Nodes /\ pc[w] = "asked" /\ first \in Nat
  BY RefillFacts
<1>3. Guid(h, first) \in Guids
  BY <1>2, GuidTypes
<1>4. ChannelSet(n, h, Empty)
  BY <1>1, <1>2, TakeSets DEF RefillPool
<1>5. Gains(w, Guid(h, first)) /\ GivenTo(Guid(h, first))
  BY <1>1, <1>3, GetGains DEF RefillPool
<1>6. Enters(w, "call")
  BY <1>1, PartEntered DEF RefillPool
<1>7. UNCHANGED <<size, created, cache, maps, at, env, wire>>
  BY DEF RefillPool, repo
<1>8. next' \in [Nodes -> [Nodes -> Nat]]
  <2>1. next' = [next EXCEPT ![n][h] = first + 1]
    BY DEF RefillPool, Following
  <2>2. first + 1 \in Nat
    BY <1>2
  <2> HIDE DEF n, h, first
  <2> QED
    BY <1>1, <1>2, <2>1, <2>2 DEF PoolType
<1>9. max' \in [Nodes -> [Nodes -> Nat]]
  <2>1. max' = [max EXCEPT ![n][h] = first + Count]
    BY DEF RefillPool
  <2>2. first + Count \in Nat
    BY <1>2, ObjectsAssumption
  <2> HIDE DEF n, h, first
  <2> QED
    BY <1>1, <1>2, <2>1, <2>2 DEF PoolType
<1>10. reserving' \in [Nodes -> [Nodes -> Tasks \cup {None}]]
  <2>1. reserving' = [reserving EXCEPT ![n][h] = None]
    BY DEF RefillPool
  <2> HIDE DEF n, h
  <2> QED
    BY <1>1, <1>2, <2>1 DEF PoolType
<1>11. PoolType'
  BY <1>1, <1>4, <1>7, <1>8, <1>9, <1>10 DEF PoolType, ChannelSet
<1>12. RepoType' /\ RepoGrows /\ WireType' /\ GivenGrows
  BY <1>1, <1>5, <1>7, RepoStays, WireStays, GivenAdds
<1>13. TaskType' /\ TaskGrows
  BY <1>1, <1>2, <1>5, <1>6, <1>7, TaskEnters DEF Gains
<1> QED
  BY <1>4, <1>5, <1>6, <1>11, <1>12, <1>13 DEF TypeOK, Grows

LEMMA EdtTypes ==
  ASSUME IInv, NEW w \in Tasks, CreateEdt(w)
  PROVE  /\ TypeOK' /\ Grows /\ Moved(w)
         /\ Appends(w, <<EdtMsg(Call(w).to, env[Call(w).template], got[w])>>)
<1> DEFINE m == EdtMsg(Call(w).to, env[Call(w).template], got[w])
<1>1. RepoType /\ PoolType /\ TaskType /\ WireType
  BY DEF IInv, TypeOK
<1>2. Call(w).op = "edt" /\ Call(w).to \in Nodes /\ Call(w).template \in Names
  BY <1>1, ReadyFacts DEF CreateEdt, CallOK, Fetching
<1>3. env[Call(w).template] \in Guids /\ got[w][1] \in Guids /\ got[w][2] \in Guids
  <2>1. got[w] \in Seq(Guids) /\ Len(got[w]) = 2
    BY <1>1 DEF TaskType, CreateEdt
  <2>2. env[Call(w).template] \in Guids
    BY <1>1, <1>2 DEF TaskType, CreateEdt
  <2> QED
    BY <2>1, <2>2
<1>4. m \in Messages
  BY <1>2, <1>3 DEF EdtMsg, Messages
<1>5. <<m>> \in Seq(Messages)
  BY <1>4
<1>6. Moved(w) /\ Appends(w, <<m>>)
  BY <1>1, <1>5, ReturnedMoves, PostAppends DEF CreateEdt
<1>7. UNCHANGED <<size, created, cache, pool, channel, maps, env, acking, handler, given>>
  BY DEF CreateEdt, repo
<1>8. RepoType' /\ RepoGrows /\ PoolType' /\ GivenGrows
  BY <1>1, <1>7, RepoStays, PoolStays, ChannelStays, GivenStays
<1>9. TaskType' /\ TaskGrows /\ WireType'
  BY <1>1, <1>6, <1>7, TaskMoves, WireAppends
<1> QED
  BY <1>6, <1>8, <1>9 DEF TypeOK, Grows

LEMMA RemoteDbTypes ==
  ASSUME IInv, NEW w \in Tasks, CreateRemoteDb(w)
  PROVE  /\ TypeOK' /\ Grows /\ Moved(w) /\ Sets(Call(w).name, got[w][1])
         /\ Appends(w, <<DbMsg(Call(w).to, got[w][1])>>)
<1> DEFINE m == DbMsg(Call(w).to, got[w][1])
<1>1. RepoType /\ PoolType /\ TaskType /\ WireType /\ EnvInv
  BY DEF IInv, TypeOK
<1>2. Call(w).op = "remote_db" /\ Call(w).to \in Nodes /\ ~Ended(w)
  BY <1>1, ReadyFacts DEF CreateRemoteDb, CallOK, Fetching
<1>3. Call(w).name \in Names /\ env[Call(w).name] = None
  BY <1>1, <1>2, FirstValue DEF Assigning
<1>4. got[w][1] \in Guids
  <2>1. got[w] \in Seq(Guids) /\ Len(got[w]) = 1
    BY <1>1 DEF TaskType, CreateRemoteDb
  <2> QED
    BY <2>1
<1>5. <<m>> \in Seq(Messages)
  <2>1. m \in Messages
    BY <1>2, <1>4 DEF DbMsg, Messages
  <2> QED
    BY <2>1
<1>6. Moved(w) /\ Appends(w, <<m>>) /\ Sets(Call(w).name, got[w][1])
  BY <1>1, <1>3, <1>4, <1>5, ReturnedMoves, PostAppends, AssignSets DEF CreateRemoteDb
<1>7. UNCHANGED <<size, created, cache, pool, channel, maps, acking, handler, given>>
  BY DEF CreateRemoteDb, repo
<1>8. RepoType' /\ RepoGrows /\ PoolType' /\ GivenGrows
  BY <1>1, <1>7, RepoStays, PoolStays, ChannelStays, GivenStays
<1>9. TaskType' /\ TaskGrows /\ WireType'
  BY <1>1, <1>3, <1>6, <1>7, TaskSets, WireAppends
<1> QED
  BY <1>6, <1>8, <1>9 DEF TypeOK, Grows

(* A label of a range that is there.                                       *)
LEMMA LabelFacts ==
  ASSUME TaskType, EnvInv, NEW w \in Tasks, NEW i \in DOMAIN Script[w], Labelled(Script[w][i]),
         env[Script[w][i].range] # None
  PROVE  LET c == Script[w][i]
             g == TheGuid(c)
         IN  /\ c.range \in Names /\ c.index \in Nat
             /\ IsMap(env[c.range]) /\ env[c.range] \in DOMAIN given
             /\ g \in Guids /\ g.mapped /\ NodeId(g) \in Nodes
             /\ g.of = env[c.range].id /\ g.id = c.index
<1> DEFINE c == Script[w][i]
           g == TheGuid(c)
<1>1. c.range \in Names /\ c.index \in Nat
  BY CallFacts DEF CallOK
<1>2. PICK v \in Tasks : \E j \in Nat :
        AssignsAt(v, j, c.range) /\ Holds(c.range, Script[v][j].op = "range")
  BY <1>1 DEF EnvInv
<1>3. PICK j \in Nat : AssignsAt(v, j, c.range) /\ Holds(c.range, Script[v][j].op = "range")
  BY <1>2
<1>4. Script[v][j].op = "range"
  BY <1>3, RangesOnly
<1>5. IsMap(env[c.range]) /\ env[c.range] \in DOMAIN given
  BY <1>3, <1>4 DEF Holds
<1>6. env[c.range] \in Guids /\ env[c.range].id \in Nat
  BY <1>5 DEF IsMap, Guids
<1>7. g = Label(env[c.range], c.index)
  BY DEF TheGuid
<1>8. g \in Guids /\ g.mapped /\ g.of = env[c.range].id /\ g.id = c.index
  BY <1>1, <1>6, <1>7, GuidTypes, GuidFields
<1>9. NodeId(g) \in Nodes
  BY <1>8, HomeOfLabel
<1> QED
  BY <1>1, <1>5, <1>8, <1>9

LEMMA BlockFacts ==
  ASSUME TaskType, EnvInv, NEW w \in Tasks, NEW i \in DOMAIN Script[w], Script[w][i].op = "satisfy",
         env[Script[w][i].name] # None
  PROVE  env[Script[w][i].name] \in Guids /\ NodeId(env[Script[w][i].name]) \in Nodes
<1> DEFINE x == Script[w][i].name
<1>1. x \in Names
  BY CallFacts DEF CallOK
<1>2. PICK v \in Tasks : \E j \in Nat : AssignsAt(v, j, x) /\ Holds(x, Script[v][j].op = "range")
  BY <1>1 DEF EnvInv
<1>3. PICK j \in Nat : AssignsAt(v, j, x) /\ Holds(x, Script[v][j].op = "range")
  BY <1>2
<1>4. PICK h \in Nodes : ItemOf(h, env[x])
  BY <1>3, BlocksOnly DEF Holds
<1> QED
  BY <1>4, HomeOfItem DEF ItemOf

(* The label of a call that creates a block.                               *)
LEMMA MappedFacts ==
  ASSUME IInv, NEW w \in Tasks, CreateMappedDb(w) \/ CacheMaster(w)
  PROVE  /\ ~Ended(w) /\ At[w] \in Nodes /\ Call(w).op = "mapped_db"
         /\ at[w] \in DOMAIN Script[w] /\ at[w] \in Nat /\ pc[w] # "asked"
         /\ Call(w).range \in Names /\ env[Call(w).range] # None
         /\ TheGuid(Call(w)) \in Guids /\ TheGuid(Call(w)).mapped /\ NodeId(TheGuid(Call(w))) \in Nodes
<1>1. TaskType /\ EnvInv /\ CallInv /\ LabelInv
  BY DEF IInv, TypeOK
<1>2. CASE CreateMappedDb(w)
  <2>1. ~Ended(w) /\ At[w] \in Nodes /\ at[w] \in DOMAIN Script[w] /\ at[w] \in Nat /\ pc[w] = "call"
    BY <1>1, <1>2, ReadyFacts DEF CreateMappedDb
  <2>2. Call(w).op = "mapped_db" /\ Labelled(Call(w)) /\ env[Call(w).range] # None
    BY <1>2 DEF CreateMappedDb, Labelled, Named
  <2> QED
    BY <1>1, <2>1, <2>2, LabelFacts DEF Call
<1>3. CASE CacheMaster(w)
  <2>1. pc[w] = "told" /\ ~Ended(w) /\ Call(w).op = "mapped_db" /\ At[w] \in Nodes
    BY <1>1, <1>3, NodeFacts DEF CacheMaster, CallInv
  <2>2. at[w] \in DOMAIN Script[w] /\ at[w] \in Nat
    BY <1>1, <2>1, CallNow
  <2>3. Labels(w, at[w])
    BY <2>1, <2>2 DEF Labels, Call
  <2>4. env[Call(w).range] # None /\ Labelled(Call(w))
    BY <1>1, <2>1, <2>2, <2>3 DEF LabelInv, Call, Labelled
  <2> QED
    BY <1>1, <2>1, <2>2, <2>4, LabelFacts DEF Call
<1> QED
  BY <1>2, <1>3

(* The two ways to create a labelled block.                                *)
MapsHere(w) ==
  /\ NodeId(TheGuid(Call(w))) = At[w] /\ Moved(w) /\ UNCHANGED stream
  /\ created' = [created EXCEPT ![At[w]] = @ \cup {TheGuid(Call(w))}]
  /\ Fault(TheGuid(Call(w)) \in created[At[w]], "label in use")
MapsElsewhere(w) ==
  /\ NodeId(TheGuid(Call(w))) # At[w] /\ Enters(w, "told") /\ UNCHANGED <<created, at, got, faults>>
  /\ Appends(w, <<MappedDbMsg(TheGuid(Call(w)), At[w])>>)

LEMMA MappedDbTypes ==
  ASSUME IInv, NEW w \in Tasks, CreateMappedDb(w)
  PROVE  TypeOK' /\ Grows /\ (MapsHere(w) \/ MapsElsewhere(w))
<1> DEFINE n == At[w]
           g == TheGuid(Call(w))
           m == MappedDbMsg(g, n)
<1>1. RepoType /\ PoolType /\ TaskType /\ WireType
  BY DEF IInv, TypeOK
<1>2. n \in Nodes /\ g \in Guids /\ NodeId(g) \in Nodes /\ pc[w] = "call"
  BY <1>1, MappedFacts, ReadyFacts DEF CreateMappedDb
<1>3. <<m>> \in Seq(Messages)
  <2>1. m \in Messages
    BY <1>2 DEF MappedDbMsg, Messages
  <2> QED
    BY <2>1
<1>4. UNCHANGED <<size, cache, pool, channel, maps, env, acking, handler, given>>
  BY DEF CreateMappedDb
<1>5. MapsHere(w) \/ MapsElsewhere(w)
  <2>1. CASE NodeId(g) = n
    BY <1>1, <2>1, ReturnedMoves DEF CreateMappedDb, MapsHere
  <2>2. CASE NodeId(g) # n
    BY <1>1, <1>3, <2>2, PostAppends, PartEntered DEF CreateMappedDb, MapsElsewhere
  <2> QED
    BY <2>1, <2>2
<1>6. RepoType' /\ RepoGrows
  <2>1. created' \in [Nodes -> SUBSET Guids] /\ \A h \in Nodes : created[h] \subseteq created'[h]
    <3>1. CASE MapsHere(w)
      <4>1. created' = [created EXCEPT ![n] = created[n] \cup {g}]
        BY <3>1 DEF MapsHere
      <4>2. created[n] \cup {g} \in SUBSET Guids
        BY <1>1, <1>2 DEF RepoType
      <4> QED
        BY <1>1, <1>2, <4>1, <4>2 DEF RepoType
    <3>2. CASE MapsElsewhere(w)
      BY <1>1, <3>2 DEF MapsElsewhere, RepoType
    <3> QED
      BY <1>5, <3>1, <3>2
  <2> QED
    BY <1>1, <1>4, <2>1 DEF RepoType, RepoGrows, InCache
<1>7. PoolType' /\ GivenGrows
  BY <1>1, <1>4, PoolStays, ChannelStays, GivenStays
<1>8. TaskType' /\ TaskGrows
  <2>1. CASE MapsHere(w)
    BY <1>1, <1>4, <2>1, TaskMoves DEF MapsHere
  <2>2. CASE MapsElsewhere(w)
    BY <1>1, <1>2, <1>4, <2>2, TaskEnters DEF MapsElsewhere, TaskType
  <2> QED
    BY <1>5, <2>1, <2>2
<1>9. WireType'
  <2>1. CASE MapsHere(w)
    BY <1>1, <1>4, <2>1 DEF MapsHere, WireType
  <2>2. CASE MapsElsewhere(w)
    BY <1>1, <1>4, <2>2, WireAppends DEF MapsElsewhere
  <2> QED
    BY <1>5, <2>1, <2>2
<1> QED
  BY <1>5, <1>6, <1>7, <1>8, <1>9 DEF TypeOK, Grows

LEMMA CacheMasterTypes ==
  ASSUME IInv, NEW w \in Tasks, CacheMaster(w)
  PROVE  TypeOK' /\ Grows /\ Moved(w) /\ CacheGrows
<1>1. RepoType /\ PoolType /\ TaskType /\ WireType
  BY DEF IInv, TypeOK
<1>2. At[w] \in Nodes
  BY NodeFacts
<1>3. Moved(w) /\ CacheGrows
  BY <1>1, <1>2, ReturnedMoves, AddedGrows DEF CacheMaster
<1>4. UNCHANGED <<size, created, pool, channel, maps, env, wire, given>>
  BY DEF CacheMaster
<1>5. RepoType' /\ RepoGrows /\ PoolType' /\ GivenGrows
  BY <1>1, <1>3, <1>4, RepoCaches, PoolStays, ChannelStays, GivenStays
<1>6. TaskType' /\ TaskGrows /\ WireType'
  BY <1>1, <1>3, <1>4, TaskMoves, WireStays
<1> QED
  BY <1>3, <1>5, <1>6 DEF TypeOK, Grows

LEMMA SatisfyTypes ==
  ASSUME IInv, NEW w \in Tasks, Satisfy(w)
  PROVE  /\ TypeOK' /\ Grows /\ Moved(w)
         /\ Appends(w, <<SatisfyMsg(Call(w).to, TheGuid(Call(w)))>>)
         /\ NodeId(TheGuid(Call(w))) \in Nodes
<1> DEFINE m == SatisfyMsg(Call(w).to, TheGuid(Call(w)))
<1>1. RepoType /\ PoolType /\ TaskType /\ WireType /\ EnvInv
  BY DEF IInv, TypeOK
<1>2. Call(w).op \in {"satisfy", "satisfy_label"} /\ Call(w).to \in Nodes /\ at[w] \in DOMAIN Script[w]
  BY <1>1, ReadyFacts DEF Satisfy, CallOK
<1>3. TheGuid(Call(w)) \in Guids /\ NodeId(TheGuid(Call(w))) \in Nodes
  <2>1. CASE Call(w).op = "satisfy"
    <3>1. ~Labelled(Call(w)) /\ env[Call(w).name] # None
      BY <2>1 DEF Satisfy, Named, Labelled
    <3> QED
      BY <1>1, <1>2, <2>1, <3>1, BlockFacts DEF TheGuid, Call
  <2>2. CASE Call(w).op = "satisfy_label"
    <3>1. Labelled(Call(w)) /\ env[Call(w).range] # None
      BY <2>2 DEF Satisfy, Named, Labelled
    <3> QED
      BY <1>1, <1>2, <3>1, LabelFacts DEF Call
  <2> QED
    BY <1>2, <2>1, <2>2
<1>4. <<m>> \in Seq(Messages)
  <2>1. m \in Messages
    BY <1>2, <1>3 DEF SatisfyMsg, Messages
  <2> QED
    BY <2>1
<1>5. Moved(w) /\ Appends(w, <<m>>)
  BY <1>1, <1>4, ReturnedMoves, PostAppends DEF Satisfy
<1>6. UNCHANGED <<size, created, cache, pool, channel, maps, env, acking, handler, given>>
  BY DEF Satisfy, repo
<1>7. RepoType' /\ RepoGrows /\ PoolType' /\ GivenGrows
  BY <1>1, <1>6, RepoStays, PoolStays, ChannelStays, GivenStays
<1>8. TaskType' /\ TaskGrows /\ WireType'
  BY <1>1, <1>5, <1>6, TaskMoves, WireAppends
<1> QED
  BY <1>3, <1>5, <1>7, <1>8 DEF TypeOK, Grows

-----------------------------------------------------------------------------
(***************************************************************************)
(* Messages and handlers.                                                  *)
(***************************************************************************)
LEMMA MessageFacts ==
  ASSUME NEW m \in Messages
  PROVE  /\ m.to \in Nodes /\ Creates(m) \subseteq Guids /\ Wanted(m) \subseteq Guids
         /\ m.op = "push_template" => Creates(m) = {} /\ m.guid \in Guids
         /\ m.op = "satisfy_preslot" => Creates(m) = {} /\ Wanted(m) = {m.guid}
         /\ m.op = "edt_create" => Creates(m) = {m.edt, m.event} /\ Wanted(m) = {m.template}
         /\ m.op \in {"db_create", "mapped_db_create"} => Creates(m) = {m.guid} /\ m.guid \in Guids
         /\ m.op \in {"push_template", "db_create", "mapped_db_create"} => Wanted(m) = {}
         /\ m.op \in {"push_template", "satisfy_preslot", "edt_create", "db_create", "mapped_db_create"}
<1>1. CASE m \in [op : {"push_template", "db_create", "satisfy_preslot"}, to : Nodes, guid : Guids]
  BY <1>1 DEF Creates, Wanted
<1>2. CASE m \in [op : {"edt_create"}, to : Nodes, template : Guids, edt : Guids, event : Guids]
  BY <1>2 DEF Creates, Wanted
<1>3. CASE m \in [op : {"mapped_db_create"}, to : Nodes, guid : Guids, master : Nodes]
  BY <1>3 DEF Creates, Wanted
<1> QED
  BY <1>1, <1>2, <1>3 DEF Messages

(* The first message of a stream.                                          *)
LEMMA FirstMessage ==
  ASSUME WireType, NEW w \in Tasks, stream[w] # <<>>
  PROVE  /\ Len(stream[w]) \in Nat /\ Len(stream[w]) > 0 /\ 1 \in DOMAIN stream[w]
         /\ Head(stream[w]) = stream[w][1] /\ stream[w][1] \in Messages
<1>1. stream[w] \in Seq(Messages)
  BY DEF WireType
<1> QED
  BY <1>1

(* What a node works on that holds its mutex.                              *)
LEMMA HandlerFacts ==
  ASSUME IInv, NEW n \in Nodes, ~Unlocked(n)
  PROVE  /\ handler[n].of \in Tasks /\ handler[n].fetch \subseteq Guids
         /\ handler[n] \in Handlers
         /\ Handling(n, handler[n].of)
         /\ Head(stream[handler[n].of]) = stream[handler[n].of][1]
         /\ Head(stream[handler[n].of]) \in Messages /\ 1 \in DOMAIN stream[handler[n].of]
         /\ MsgOK(Head(stream[handler[n].of]))
<1>1. WireType /\ HandlerInv /\ MsgInv
  BY DEF IInv, TypeOK
<1>2. handler[n] \in Handlers /\ handler[n] # None
  BY <1>1 DEF WireType, Unlocked
<1>3. handler[n].of \in Tasks /\ handler[n].fetch \subseteq Guids
  BY <1>2 DEF Handlers
<1>4. Handling(n, handler[n].of)
  BY <1>1, <1>2 DEF HandlerInv
<1>5. stream[handler[n].of] # <<>>
  BY <1>4 DEF Handling
<1> QED
  BY <1>1, <1>2, <1>3, <1>4, <1>5, FirstMessage DEF MsgInv

LEMMA FetchFacts ==
  ASSUME IInv, NEW n \in Nodes, Fetches(n)
  PROVE  /\ ~Unlocked(n) /\ NextFetch(n) \in handler[n].fetch /\ NextFetch(n) \in Guids
         /\ NodeId(NextFetch(n)) \in Nodes /\ NodeId(NextFetch(n)) # n
<1>1. ~Unlocked(n) /\ NextFetch(n) \in handler[n].fetch
  BY DEF Fetches, NextFetch
<1> QED
  BY <1>1, HandlerFacts DEF Handling, MsgOK

LEMMA ReceiveTypes ==
  ASSUME IInv, NEW w \in Tasks, Receive(w)
  PROVE  TypeOK' /\ Grows /\ CacheGrows
<1> DEFINE m == Head(stream[w])
           missing == {g \in Wanted(m) : NodeId(g) # m.to /\ ~Known(m.to, g)}
<1>1. RepoType /\ PoolType /\ TaskType /\ WireType
  BY DEF IInv, TypeOK
<1>2. m \in Messages /\ m.to \in Nodes /\ missing \in SUBSET Guids
  BY <1>1, FirstMessage, MessageFacts DEF Receive
<1>3. UNCHANGED <<size, created, pool, channel, maps, task, stream, acking, given, faults>>
  BY DEF Receive
<1>4. handler' = [handler EXCEPT ![m.to] = [of |-> w, fetch |-> missing]] /\ cache' = Looked(m.to, missing)
  BY DEF Receive
<1>5. [of |-> w, fetch |-> missing] \in Handlers
  BY <1>2 DEF Handlers
<1> HIDE DEF missing
<1>6. WireType'
  BY <1>1, <1>2, <1>3, <1>4, <1>5 DEF WireType
<1>7. CacheGrows
  BY <1>1, <1>2, <1>4, LookedGrows
<1>8. RepoType' /\ RepoGrows /\ PoolType' /\ GivenGrows
  BY <1>1, <1>3, <1>7, RepoCaches, PoolStays, ChannelStays, GivenStays
<1>9. TaskType' /\ TaskGrows
  BY <1>1, <1>3, TaskStays DEF TaskType, task
<1> QED
  BY <1>6, <1>7, <1>8, <1>9 DEF TypeOK, Grows

LEMMA PullTypes ==
  ASSUME IInv, NEW n \in Nodes, Pull(n)
  PROVE  /\ TypeOK' /\ Grows
         /\ channel[n][NodeId(NextFetch(n))].by = None
         /\ ChannelSet(n, NodeId(NextFetch(n)), Waits(n, Request("pull", NextFetch(n))))
<1>1. RepoType /\ PoolType /\ TaskType /\ WireType
  BY DEF IInv, TypeOK
<1>2. NextFetch(n) \in Guids /\ NodeId(NextFetch(n)) \in Nodes
  BY FetchFacts DEF Pull
<1>3. Request("pull", NextFetch(n)) \in Requests
  BY <1>2 DEF Request, Requests
<1>4. /\ channel[n][NodeId(NextFetch(n))].by = None
      /\ ChannelSet(n, NodeId(NextFetch(n)), Waits(n, Request("pull", NextFetch(n))))
  BY <1>1, <1>2, <1>3, AskSets DEF Pull
<1>5. UNCHANGED <<size, created, cache, pool, maps, task, wire, given, faults>>
  BY DEF Pull, repo
<1>6. RepoType' /\ RepoGrows /\ PoolType' /\ GivenGrows /\ WireType'
  BY <1>1, <1>4, <1>5, RepoStays, PoolStays, GivenStays, WireStays DEF ChannelSet
<1>7. TaskType' /\ TaskGrows
  BY <1>1, <1>5, TaskStays DEF TaskType, task
<1> QED
  BY <1>4, <1>6, <1>7 DEF TypeOK, Grows

LEMMA PulledTypes ==
  ASSUME IInv, NEW n \in Nodes, Pulled(n)
  PROVE  /\ TypeOK' /\ Grows /\ CacheGrows /\ InCacheNext(n, NextFetch(n))
         /\ ChannelSet(n, NodeId(NextFetch(n)), Empty)
<1> DEFINE g == NextFetch(n)
           h == NodeId(g)
<1>1. RepoType /\ PoolType /\ TaskType /\ WireType /\ ChannelInv
  BY DEF IInv, TypeOK
<1>2. g \in Guids /\ h \in Nodes /\ ~Unlocked(n)
  BY FetchFacts DEF Pulled
<1>3. channel[n][h].reply = "copy"
  BY <1>1, <1>2 DEF Pulled, Answered, ChannelInv, GoodChannel, AnswersNode
<1>4. ChannelSet(n, h, Empty)
  BY <1>1, <1>2, TakeSets DEF Pulled
<1>5. cache' = Added(n, g, channel[n][h].reply)
  BY DEF Pulled
<1>6. CacheGrows /\ (channel[n][h].reply # "null" => InCacheNext(n, g))
  BY <1>1, <1>5, AddedGrows
<1>7. UNCHANGED <<size, created, pool, maps, task, stream, acking, given, faults>>
  BY DEF Pulled
<1>8. handler' \in [Nodes -> Handlers \cup {None}]
  <2>1. handler[n] \in Handlers
    BY <1>2, HandlerFacts
  <2>2. [handler[n] EXCEPT !.fetch = handler[n].fetch \ {g}] \in Handlers
    BY <2>1 DEF Handlers
  <2>3. handler' = [handler EXCEPT ![n] = [handler[n] EXCEPT !.fetch = handler[n].fetch \ {g}]]
    BY <1>1 DEF Pulled, WireType
  <2> QED
    BY <1>1, <2>2, <2>3 DEF WireType
<1>9. RepoType' /\ RepoGrows /\ PoolType' /\ GivenGrows
  BY <1>1, <1>4, <1>6, <1>7, RepoCaches, PoolStays, GivenStays DEF ChannelSet
<1>10. TaskType' /\ TaskGrows /\ WireType'
  BY <1>1, <1>7, <1>8, TaskStays DEF TaskType, task, WireType
<1> QED
  BY <1>3, <1>4, <1>6, <1>9, <1>10 DEF TypeOK, Grows

LEMMA HandleTypes ==
  ASSUME IInv, NEW n \in Nodes, Handle(n)
  PROVE  TypeOK' /\ Grows /\ CacheGrows
<1> DEFINE w == handler[n].of
           m == Head(stream[w])
<1>1. RepoType /\ PoolType /\ TaskType /\ WireType
  BY DEF IInv, TypeOK
<1>2. w \in Tasks /\ m \in Messages /\ Creates(m) \in SUBSET Guids
  BY HandlerFacts, MessageFacts DEF Handle
<1>3. UNCHANGED <<size, pool, channel, maps, task, stream, given>>
  BY DEF Handle
<1>4. created' \in [Nodes -> SUBSET Guids] /\ \A h \in Nodes : created[h] \subseteq created'[h]
  <2>1. created' = [created EXCEPT ![n] = created[n] \cup Creates(m)]
    BY DEF Handle
  <2>2. created[n] \cup Creates(m) \in SUBSET Guids
    BY <1>1, <1>2 DEF RepoType
  <2> HIDE DEF m
  <2> QED
    BY <1>1, <2>1, <2>2 DEF RepoType
<1>5. CacheGrows
  <2>1. CASE m.op = "push_template"
    BY <1>1, <2>1, AddedGrows DEF Handle
  <2>2. CASE m.op # "push_template"
    BY <1>1, <2>2 DEF Handle, RepoType, CacheGrows, InCache
  <2> QED
    BY <2>1, <2>2
<1>6. RepoType' /\ RepoGrows
  BY <1>1, <1>3, <1>4, <1>5 DEF RepoType, RepoGrows, CacheGrows
<1>7. WireType'
  BY <1>1, <1>2, <1>3 DEF WireType, Handle
<1>8. PoolType' /\ GivenGrows /\ TaskType' /\ TaskGrows
  BY <1>1, <1>3, PoolStays, ChannelStays, GivenStays, TaskStays DEF TaskType, task
<1> QED
  BY <1>5, <1>6, <1>7, <1>8 DEF TypeOK, Grows

LEMMA ConfirmTypes ==
  ASSUME IInv, NEW w \in Tasks, Confirm(w)
  PROVE  /\ TypeOK' /\ Grows
         /\ stream[w] # <<>> /\ stream'[w] = Tail(stream[w]) /\ \A v \in Tasks : v # w => stream'[v] = stream[v]
<1>1. RepoType /\ PoolType /\ TaskType /\ WireType /\ HandlerInv
  BY DEF IInv, TypeOK
<1>2. stream[w] # <<>> /\ stream[w] \in Seq(Messages)
  BY <1>1 DEF HandlerInv, Confirm, WireType
<1>3. Tail(stream[w]) \in Seq(Messages)
  BY <1>2
<1>4. UNCHANGED <<size, created, cache, pool, channel, maps, task, handler, given, faults>>
  BY DEF Confirm, repo
<1>5. stream' = [stream EXCEPT ![w] = Tail(stream[w])]
  BY DEF Confirm
<1>6. WireType'
  BY <1>1, <1>3, <1>4, <1>5 DEF WireType, Confirm
<1>7. RepoType' /\ RepoGrows /\ PoolType' /\ GivenGrows /\ TaskType' /\ TaskGrows
  BY <1>1, <1>4, RepoStays, PoolStays, ChannelStays, GivenStays, TaskStays DEF TaskType, task
<1> QED
  BY <1>1, <1>2, <1>5, <1>6, <1>7 DEF TypeOK, Grows, WireType

LEMMA ServeTypes ==
  ASSUME IInv, NEW n \in Nodes, NEW h \in Nodes, ServeGuids(n, h) \/ ServeMapId(n, h) \/ ServePull(n, h)
  PROVE  /\ TypeOK' /\ Grows
         /\ ServeGuids(n, h) => ChannelSet(n, h, Replied(n, h, size[h]))
         /\ ServeMapId(n, h) => ChannelSet(n, h, Replied(n, h, maps + 1))
         /\ ServePull(n, h) => ChannelSet(n, h, Replied(n, h, "copy"))
<1>1. RepoType /\ PoolType /\ TaskType /\ WireType
  BY DEF IInv, TypeOK
<1>2. size[h] \in Nat /\ Count \in Nat
  BY <1>1, ObjectsAssumption DEF RepoType
<1>3. UNCHANGED <<created, cache, pool, task, wire, given, faults>>
  BY DEF ServeGuids, ServeMapId, ServePull, repo
<1>4. /\ ServeGuids(n, h) => ChannelSet(n, h, Replied(n, h, size[h]))
      /\ ServeMapId(n, h) => ChannelSet(n, h, Replied(n, h, maps + 1))
      /\ ServePull(n, h) => ChannelSet(n, h, Replied(n, h, "copy"))
  <2>1. maps + 1 \in Nat
    BY <1>1 DEF PoolType
  <2>2. ASSUME ServeGuids(n, h) PROVE ChannelSet(n, h, Replied(n, h, size[h]))
    BY <1>1, <1>2, <2>2, ReplySets DEF ServeGuids
  <2>3. ASSUME ServeMapId(n, h) PROVE ChannelSet(n, h, Replied(n, h, maps + 1))
    BY <1>1, <2>1, <2>3, ReplySets DEF ServeMapId
  <2>4. ASSUME ServePull(n, h) PROVE ChannelSet(n, h, Replied(n, h, "copy"))
    BY <1>1, <2>4, ReplySets DEF ServePull, Pullable
  <2> QED
    BY <2>2, <2>3, <2>4
<1>5. channel' \in [Nodes -> [Nodes -> Channels]]
  BY <1>4 DEF ChannelSet
<1>6. RepoType' /\ RepoGrows /\ PoolType' /\ GivenGrows
  <2>1. CASE ServeGuids(n, h)
    BY <1>1, <1>2, <1>3, <1>5, <2>1, PoolStays, GivenStays DEF ServeGuids, RepoType, RepoGrows, InCache
  <2>2. CASE ServeMapId(n, h)
    <3>1. UNCHANGED size /\ maps' = maps + 1
      BY <2>2 DEF ServeMapId, repo
    <3> QED
      BY <1>1, <1>3, <1>5, <3>1, RepoStays DEF PoolType, GivenGrows, pool
  <2>3. CASE ServePull(n, h)
    <3>1. UNCHANGED <<size, maps>>
      BY <2>3 DEF ServePull, repo
    <3> QED
      BY <1>1, <1>3, <1>5, <3>1, RepoStays, PoolStays, GivenStays
  <2> QED
    BY <2>1, <2>2, <2>3
<1>7. TaskType' /\ TaskGrows /\ WireType'
  BY <1>1, <1>3, TaskStays, WireStays DEF TaskType, task
<1> QED
  BY <1>4, <1>6, <1>7 DEF TypeOK, Grows

-----------------------------------------------------------------------------
(***************************************************************************)
(* The channels.                                                           *)
(***************************************************************************)
(* The tasks that wait for an answer, apart from x, do not move.           *)
AskersStay(x) ==
  \A v \in Tasks : pc[v] = "asked" /\ v # x => at'[v] = at[v] /\ pc'[v] = "asked"

(* A channel serves one task at a time, and a task one channel.            *)
LEMMA OneChannel ==
  ASSUME PoolType, ChannelInv, NEW m \in Nodes, NEW k \in Nodes, NEW n \in Nodes, NEW h \in Nodes,
         channel[m][k].by \in Tasks, channel[n][h].by = channel[m][k].by
  PROVE  m = n /\ k = h
  BY DEF ChannelInv, GoodChannel, AskedBy

LEMMA ChannelsQuiet ==
  ASSUME PoolType, ChannelInv, UNCHANGED <<channel, reserving>>, AskersStay(None)
  PROVE  ChannelInv'
<1> SUFFICES ASSUME NEW n \in Nodes, NEW h \in Nodes
             PROVE  GoodChannel(n, h)'
  BY DEF ChannelInv
<1> DEFINE v == channel[n][h].by
<1>1. GoodChannel(n, h)
  BY DEF ChannelInv
<1>2. v \in Tasks => pc[v] = "asked" /\ v # None
  BY <1>1, NodeFacts DEF GoodChannel, AskedBy
<1>3. v \in Tasks => at'[v] = at[v] /\ pc'[v] = "asked"
  BY <1>2 DEF AskersStay
<1> QED
  BY <1>1, <1>3 DEF GoodChannel, AskedBy, AnswersTask, AnswersNode, Call

LEMMA ChannelsOne ==
  ASSUME PoolType, ChannelInv, NEW n \in Nodes, NEW h \in Nodes, NEW c, ChannelSet(n, h, c),
         GoodChannel(n, h)', AskersStay(channel[n][h].by),
         \A m, k \in Nodes : m # n \/ k # h => reserving'[m][k] = reserving[m][k]
  PROVE  ChannelInv'
<1> SUFFICES ASSUME NEW m \in Nodes, NEW k \in Nodes, m # n \/ k # h
             PROVE  GoodChannel(m, k)'
  BY DEF ChannelInv
<1>1. GoodChannel(m, k) /\ channel'[m][k] = channel[m][k] /\ reserving'[m][k] = reserving[m][k]
  BY DEF ChannelInv, ChannelSet
<1>2. PICK c1 : c1 = channel[m][k] /\ c1 = channel'[m][k]
  BY <1>1
<1>3. c1.by \in Tasks => AskedBy(m, k, c1.by) /\ AnswersTask(c1, c1.by)
  BY <1>1, <1>2 DEF GoodChannel
<1>4. c1.by \in Tasks => pc[c1.by] = "asked" /\ c1.by # channel[n][h].by
  BY <1>1, <1>2, <1>3, OneChannel DEF AskedBy
<1>5. c1.by \in Tasks => at'[c1.by] = at[c1.by] /\ pc'[c1.by] = "asked"
  BY <1>4 DEF AskersStay
<1>6. c1.by \in Tasks => Call(c1.by)' = Call(c1.by)
  BY <1>5 DEF Call
<1>7. c1.by \in Tasks => AskedBy(m, k, c1.by)'
  BY <1>1, <1>3, <1>5, <1>6 DEF AskedBy
<1>8. c1.by \in Tasks => AnswersTask(c1, c1.by)'
  BY <1>3, <1>6 DEF AnswersTask
<1> QED
  BY <1>1, <1>2, <1>7, <1>8 DEF GoodChannel, AnswersNode

(* What is coming over the channels a step does not touch.                 *)
LEMMA ComingQuiet ==
  ASSUME PoolType, ChannelInv, UNCHANGED channel, AskersStay(None), NEW n \in Nodes, NEW h \in Nodes, NEW x
  PROVE  (Coming(n, h, x)' <=> Coming(n, h, x)) /\ (MapComing(n, x)' <=> MapComing(n, x))
<1>1. \A k \in Nodes : channel[n][k].by \in Tasks => at'[channel[n][k].by] = at[channel[n][k].by]
  <2> SUFFICES ASSUME NEW k \in Nodes, channel[n][k].by \in Tasks
               PROVE  at'[channel[n][k].by] = at[channel[n][k].by]
    OBVIOUS
  <2>1. pc[channel[n][k].by] = "asked" /\ channel[n][k].by # None
    BY NodeFacts DEF ChannelInv, GoodChannel, AskedBy
  <2> QED
    BY <2>1 DEF AskersStay
<1> QED
  BY <1>1, ObjectsAssumption DEF Coming, MapComing, Call

LEMMA ComingElsewhere ==
  ASSUME PoolType, ChannelInv, NEW n \in Nodes, NEW h \in Nodes, NEW c, ChannelSet(n, h, c),
         AskersStay(channel[n][h].by), NEW m \in Nodes, NEW k \in Nodes, m # n \/ k # h, NEW x
  PROVE  /\ Coming(m, k, x)' <=> Coming(m, k, x)
         /\ k = 0 => (MapComing(m, x)' <=> MapComing(m, x))
<1> DEFINE v == channel[m][k].by
<1>1. GoodChannel(m, k) /\ channel'[m][k] = channel[m][k]
  BY DEF ChannelInv, ChannelSet
<1>2. v \in Tasks => pc[v] = "asked" /\ v # channel[n][h].by
  BY <1>1, OneChannel DEF GoodChannel, AskedBy
<1>3. v \in Tasks => at'[v] = at[v]
  BY <1>2 DEF AskersStay
<1> QED
  BY <1>1, <1>3 DEF Coming, MapComing, Call

(* A request is made: nothing is coming over the channel yet.              *)
LEMMA AskedGood ==
  ASSUME PoolType, ChannelInv, NEW n \in Nodes, NEW h \in Nodes, NEW w \in Tasks, NEW request,
         ChannelSet(n, h, Waits(w, request)), AskedBy(n, h, w)',
         request.op = IF Call(w).op = "range" THEN "map_id" ELSE "guids", at'[w] = at[w]
  PROVE  GoodChannel(n, h)'
<1>1. channel'[n][h] = Waits(w, request)
  BY DEF ChannelSet
<1>2. Waits(w, request).by = w /\ Waits(w, request).ask = request /\ Waits(w, request).reply = None
  BY DEF Waits
<1>3. w \notin Nodes /\ w # None
  BY NodeFacts
<1> QED
  BY <1>1, <1>2, <1>3 DEF GoodChannel, AnswersTask, Call

LEMMA EmptyGood ==
  ASSUME NEW n \in Nodes, NEW h \in Nodes, ChannelSet(n, h, Empty)
  PROVE  /\ GoodChannel(n, h)'
         /\ \A x : ~Coming(n, h, x)' /\ (h = 0 => ~MapComing(n, x)')
<1>1. channel'[n][h].by = None /\ channel'[n][h].ask = None /\ channel'[n][h].reply = None
  BY DEF ChannelSet, Empty
<1>2. None \notin Tasks /\ None \notin Nodes
  BY ObjectsAssumption
<1> QED
  BY <1>1, <1>2 DEF GoodChannel, Coming, MapComing

LEMMA WaitsNothing ==
  ASSUME NEW n \in Nodes, NEW h \in Nodes, NEW who, NEW request, ChannelSet(n, h, Waits(who, request))
  PROVE  \A x : ~Coming(n, h, x)' /\ (h = 0 => ~MapComing(n, x)')
<1>1. channel'[n][h].reply = None
  BY DEF ChannelSet, Waits
<1> QED
  BY <1>1 DEF Coming, MapComing

(* Who moves that has not asked.                                           *)
LEMMA MovedStay ==
  ASSUME TaskType, NEW w \in Tasks, NEW x, pc[w] # "asked" \/ w = x, Moved(w)
  PROVE  AskersStay(x)
  BY DEF Moved, AskersStay

LEMMA EntersStay ==
  ASSUME TaskType, NEW w \in Tasks, NEW x, NEW part, pc[w] # "asked" \/ w = x, Enters(w, part), UNCHANGED at
  PROVE  AskersStay(x)
  BY DEF Enters, AskersStay

LEMMA SameStay ==
  ASSUME UNCHANGED <<at, pc>>, NEW x
  PROVE  AskersStay(x)
  BY DEF AskersStay

-----------------------------------------------------------------------------
(***************************************************************************)
(* The numbers that are given away.                                        *)
(***************************************************************************)
Numbers == ChannelInv /\ CallInv /\ PoolInv /\ MapInv /\ GivenInv /\ GotInv

PoolsShrink == \A n, h \in Nodes : \A i \in Nat : InPool(n, h, i)' => InPool(n, h, i)
MapsShrink  == \A n \in Nodes : \A id \in Nat : MapComing(n, id)' => MapComing(n, id)
NotPooled(g) == \A n, h \in Nodes : \A i \in Nat : InPool(n, h, i)' => Guid(h, i) # g
NotMapped(g) == \A n \in Nodes : \A id \in Nat : MapComing(n, id)' => MapGuid(id) # g

LEMMA ShrinkQuiet ==
  ASSUME PoolType, ChannelInv, UNCHANGED <<next, max, channel>>, AskersStay(None)
  PROVE  PoolsShrink /\ MapsShrink
  BY ComingQuiet, ObjectsAssumption DEF PoolsShrink, MapsShrink, InPool

LEMMA ShrinkOne ==
  ASSUME PoolType, ChannelInv, NEW n \in Nodes, NEW h \in Nodes, NEW c, ChannelSet(n, h, c),
         AskersStay(channel[n][h].by), UNCHANGED <<next, max>>,
         \A x : ~Coming(n, h, x)' /\ (h = 0 => ~MapComing(n, x)')
  PROVE  PoolsShrink /\ MapsShrink
<1>1. \A m, k \in Nodes : \A x : Coming(m, k, x)' => Coming(m, k, x)
  <2> SUFFICES ASSUME NEW m \in Nodes, NEW k \in Nodes, NEW x, Coming(m, k, x)'
               PROVE  Coming(m, k, x)
    OBVIOUS
  <2> QED
    BY ComingElsewhere
<1>2. \A m \in Nodes : \A x : MapComing(m, x)' => MapComing(m, x)
  <2> SUFFICES ASSUME NEW m \in Nodes, NEW x, MapComing(m, x)'
               PROVE  MapComing(m, x)
    OBVIOUS
  <2>1. 0 \in Nodes
    BY ObjectsAssumption
  <2> QED
    BY <2>1, ComingElsewhere
<1> QED
  BY <1>1, <1>2 DEF PoolsShrink, MapsShrink, InPool

LEMMA PoolShrinks ==
  ASSUME RepoType, RepoType', PoolInv, RepoGrows, PoolsShrink, UNCHANGED given
  PROVE  PoolInv'
  BY DEF PoolInv, PoolsShrink, RepoGrows, RepoType, Guid

LEMMA PoolGives ==
  ASSUME RepoType, RepoType', PoolInv, RepoGrows, PoolsShrink, NEW g, GivenTo(g), NotPooled(g)
  PROVE  PoolInv'
<1> USE DEF PoolsShrink
<1>1. \A n, h \in Nodes : \A i \in Nat : InPool(n, h, i)' => i < size'[h]
  BY DEF PoolInv, RepoGrows, RepoType
<1>2. \A n, h \in Nodes : \A i \in Nat : InPool(n, h, i)' => Guid(h, i) \notin DOMAIN given'
  BY DEF PoolInv, GivenTo, NotPooled
<1>3. \A m, n, h \in Nodes : \A i \in Nat : InPool(m, h, i)' /\ InPool(n, h, i)' => m = n
  BY DEF PoolInv
<1> QED
  BY <1>1, <1>2, <1>3 DEF PoolInv, Guid

LEMMA MapsKept ==
  ASSUME PoolType, PoolType', MapInv, MapsShrink, GivenGrows, UNCHANGED given
  PROVE  MapInv'
<1> USE DEF MapsShrink
<1>0. maps \in Nat /\ maps' \in Nat /\ maps <= maps'
  BY DEF GivenGrows, PoolType
<1>1. \A n \in Nodes : \A id \in Nat : MapComing(n, id)' => id <= maps'
  <2> SUFFICES ASSUME NEW n \in Nodes, NEW id \in Nat, MapComing(n, id)'
               PROVE  id <= maps'
    OBVIOUS
  <2>1. id <= maps
    BY DEF MapInv
  <2> QED
    BY <1>0, <2>1
<1>2. \A n \in Nodes : \A id \in Nat : MapComing(n, id)' => MapGuid(id) \notin DOMAIN given'
  BY DEF MapInv
<1>3. \A m, n \in Nodes : \A id \in Nat : MapComing(m, id)' /\ MapComing(n, id)' => m = n
  BY DEF MapInv
<1> QED
  BY <1>1, <1>2, <1>3 DEF MapInv, MapGuid

LEMMA MapsGive ==
  ASSUME PoolType, PoolType', MapInv, MapsShrink, GivenGrows, NEW g, GivenTo(g), NotMapped(g)
  PROVE  MapInv'
<1> USE DEF MapsShrink
<1>0. maps \in Nat /\ maps' \in Nat /\ maps <= maps'
  BY DEF GivenGrows, PoolType
<1>1. \A n \in Nodes : \A id \in Nat : MapComing(n, id)' => id <= maps'
  <2> SUFFICES ASSUME NEW n \in Nodes, NEW id \in Nat, MapComing(n, id)'
               PROVE  id <= maps'
    OBVIOUS
  <2>1. id <= maps
    BY DEF MapInv
  <2> QED
    BY <1>0, <2>1
<1>2. \A n \in Nodes : \A id \in Nat : MapComing(n, id)' => MapGuid(id) \notin DOMAIN given'
  BY DEF MapInv, GivenTo, NotMapped
<1>3. \A m, n \in Nodes : \A id \in Nat : MapComing(m, id)' /\ MapComing(n, id)' => m = n
  BY DEF MapInv
<1> QED
  BY <1>1, <1>2, <1>3 DEF MapInv, MapGuid

ItemNext(h, g) == g \in Guids /\ ~g.mapped /\ g.of = h /\ g.id < size'[h]
MapNext(g)     == g \in Guids /\ ~g.mapped /\ g.of = -1 /\ g.id <= maps'

LEMMA ItemsStay ==
  ASSUME RepoType, RepoType', RepoGrows, NEW h \in Nodes, NEW g, ItemOf(h, g)
  PROVE  ItemNext(h, g)
  BY DEF ItemOf, ItemNext, RepoGrows, RepoType, Guids

LEMMA MapsStay ==
  ASSUME PoolType, PoolType', GivenGrows, NEW g, IsMap(g)
  PROVE  MapNext(g)
  BY DEF IsMap, MapNext, GivenGrows, PoolType, Guids

LEMMA GivenKept ==
  ASSUME TypeOK, TypeOK', GivenInv, Grows, UNCHANGED given
  PROVE  GivenInv'
<1>1. \A g \in DOMAIN given : MapNext(g) \/ \E h \in Nodes : ItemNext(h, g)
  BY ItemsStay, MapsStay DEF GivenInv, TypeOK, Grows
<1> QED
  BY <1>1 DEF GivenInv, ItemNext, MapNext, IsMap, ItemOf

LEMMA GivenOne ==
  ASSUME TypeOK, TypeOK', GivenInv, Grows, NEW g, GivenTo(g), g \notin DOMAIN given,
         MapNext(g) \/ \E h \in Nodes : ItemNext(h, g)
  PROVE  GivenInv'
<1>1. \A k \in DOMAIN given' : MapNext(k) \/ \E h \in Nodes : ItemNext(h, k)
  BY ItemsStay, MapsStay DEF GivenInv, TypeOK, Grows, GivenTo
<1>2. \A k \in DOMAIN given' : given'[k] = 1
  BY DEF GivenTo
<1> QED
  BY <1>1, <1>2 DEF GivenInv, ItemNext, MapNext, IsMap, ItemOf

(* The next item of a repository has not been reserved or given.           *)
LEMMA NewItem ==
  ASSUME RepoType, PoolInv, GivenInv, NEW n \in Nodes
  PROVE  /\ NewLocal(n) \notin DOMAIN given
         /\ \A m, h \in Nodes : \A i \in Nat : InPool(m, h, i) => Guid(h, i) # NewLocal(n)
         /\ \A i \in Nat : MapGuid(i) # NewLocal(n)
<1> DEFINE g == NewLocal(n)
<1>1. size[n] \in Nat /\ g.of = n /\ g.id = size[n] /\ ~g.mapped /\ n \in Nat
  BY NodeFacts, GuidFields DEF NewLocal, RepoType
<1>2. g \notin DOMAIN given
  BY <1>1 DEF GivenInv, IsMap, ItemOf
<1>3. \A m, h \in Nodes : \A i \in Nat : InPool(m, h, i) => Guid(h, i) # g
  <2> SUFFICES ASSUME NEW m \in Nodes, NEW h \in Nodes, NEW i \in Nat, InPool(m, h, i), Guid(h, i) = g
               PROVE  FALSE
    OBVIOUS
  <2>1. i < size[h] /\ h = n /\ i = size[n]
    BY <1>1, GuidFields DEF PoolInv
  <2> QED
    BY <1>1, <2>1
<1>4. \A i \in Nat : MapGuid(i) # g
  BY <1>1, GuidFields
<1> QED
  BY <1>2, <1>3, <1>4

LEMMA CallsMove ==
  ASSUME TaskType, CallInv, GotInv, RepoType, RepoType', RepoGrows, NEW w \in Tasks, Moved(w)
  PROVE  CallInv' /\ GotInv'
<1>1. \A v \in Tasks : v # w => /\ at'[v] = at[v] /\ pc'[v] = pc[v] /\ got'[v] = got[v]
  BY DEF Moved
<1>2. pc'[w] = "call" /\ got'[w] = <<>>
  BY DEF Moved
<1>3. CallInv'
  BY <1>1, <1>2 DEF CallInv, Ended, Call
<1>4. \A v \in Tasks : \A k \in DOMAIN got'[v] : ItemNext(Script[v][at'[v]].to, got'[v][k])
  <2> SUFFICES ASSUME NEW v \in Tasks, NEW k \in DOMAIN got'[v]
               PROVE  ItemNext(Script[v][at'[v]].to, got'[v][k])
    OBVIOUS
  <2>1. v # w
    BY <1>2
  <2>2. ItemOf(Call(v).to, got[v][k]) /\ got[v] # <<>>
    BY <1>1, <2>1 DEF GotInv
  <2>3. Call(v).to \in Nodes
    BY <2>2, CallNow DEF CallInv, CallOK
  <2> QED
    BY <1>1, <2>1, <2>2, <2>3, ItemsStay DEF Call
<1> QED
  BY <1>3, <1>4 DEF GotInv, ItemOf, ItemNext, Call

LEMMA CallsGain ==
  ASSUME TaskType, CallInv, GotInv, RepoType, RepoType', RepoGrows, NEW w \in Tasks, NEW g, Gains(w, g),
         ~Ended(w), Call(w).op \in Fetching, ItemNext(Call(w).to, g),
         UNCHANGED at, NEW part \in {"call"}, pc'[w] = part, \A v \in Tasks : v # w => pc'[v] = pc[v]
  PROVE  CallInv' /\ GotInv'
<1>1. \A v \in Tasks : v # w => got'[v] = got[v]
  BY DEF Gains
<1>2. CallInv'
  BY <1>1 DEF CallInv, Ended, Call
<1>3. \A v \in Tasks : \A k \in DOMAIN got[v] : ItemNext(Call(v).to, got[v][k])
  <2> SUFFICES ASSUME NEW v \in Tasks, NEW k \in DOMAIN got[v]
               PROVE  ItemNext(Call(v).to, got[v][k])
    OBVIOUS
  <2>1. ItemOf(Call(v).to, got[v][k]) /\ got[v] # <<>>
    BY DEF GotInv
  <2>2. Call(v).to \in Nodes
    BY <2>1, CallNow DEF CallInv, CallOK
  <2> QED
    BY <2>1, <2>2, ItemsStay
<1>4. \A k \in DOMAIN got'[w] : (k \in DOMAIN got[w] /\ got'[w][k] = got[w][k]) \/ got'[w][k] = g
  <2>1. got[w] \in Seq(Guids) /\ got'[w] = Append(got[w], g)
    BY DEF TaskType, Gains
  <2> QED
    BY <2>1
<1>5. \A v \in Tasks : \A k \in DOMAIN got'[v] : ItemNext(Call(v).to, got'[v][k])
  BY <1>1, <1>3, <1>4
<1> QED
  BY <1>2, <1>5 DEF GotInv, ItemOf, ItemNext, Call

(* A task gets into a call, or nothing changes for the tasks.              *)
LEMMA CallsStay ==
  ASSUME TaskType, CallInv, GotInv, RepoType, RepoType', RepoGrows, UNCHANGED <<at, got>>,
         \A v \in Tasks : \/ pc'[v] = pc[v]
                          \/ ~Ended(v) /\ pc'[v] = "asked" /\ Call(v).op \in Fetching \cup {"range"}
                          \/ ~Ended(v) /\ pc'[v] = "told" /\ Call(v).op = "mapped_db"
  PROVE  CallInv' /\ GotInv'
<1>1. CallInv'
  BY DEF CallInv, Ended, Call
<1>2. \A v \in Tasks : \A k \in DOMAIN got[v] : ItemNext(Call(v).to, got[v][k])
  <2> SUFFICES ASSUME NEW v \in Tasks, NEW k \in DOMAIN got[v]
               PROVE  ItemNext(Call(v).to, got[v][k])
    OBVIOUS
  <2>1. ItemOf(Call(v).to, got[v][k]) /\ got[v] # <<>>
    BY DEF GotInv
  <2>2. Call(v).to \in Nodes
    BY <2>1, CallNow DEF CallInv, CallOK
  <2> QED
    BY <2>1, <2>2, ItemsStay
<1> QED
  BY <1>1, <1>2 DEF GotInv, ItemOf, ItemNext, Call

(* A task of the node creates an object or reserves an item.               *)
LEMMA LocalNumbers ==
  ASSUME IInv, NEW w \in Tasks, CreateLocalDb(w) \/ CreateTemplate(w)
  PROVE  Numbers'
<1> DEFINE g == NewLocal(At[w])
<1>1. TypeOK /\ RepoType /\ PoolType /\ TaskType /\ Numbers
  BY DEF IInv, TypeOK, Numbers
<1>2. TypeOK' /\ Grows /\ LocalAdded(At[w]) /\ GivenTo(g) /\ Moved(w)
  BY LocalDbTypes, TemplateTypes
<1>3. pc[w] = "call" /\ At[w] \in Nodes
  BY <1>1, ReadyFacts DEF CreateLocalDb, CreateTemplate
<1>4. UNCHANGED <<next, max, reserving, channel, maps>>
  BY DEF CreateLocalDb, CreateTemplate, pool
<1>5. RepoType' /\ PoolType' /\ RepoGrows /\ GivenGrows
  BY <1>2 DEF TypeOK, Grows
<1>6. AskersStay(None)
  BY <1>1, <1>2, <1>3, MovedStay
<1>7. ChannelInv' /\ PoolsShrink /\ MapsShrink
  BY <1>1, <1>4, <1>6, ChannelsQuiet, ShrinkQuiet DEF Numbers
<1>8. g \notin DOMAIN given /\ NotPooled(g) /\ NotMapped(g) /\ ItemNext(At[w], g)
  <2>1. ItemNext(At[w], g)
    BY <1>1, <1>2, <1>3, GuidFields DEF LocalAdded, ItemNext, NewLocal, RepoType
  <2> QED
    BY <1>1, <1>3, <1>7, <2>1, NewItem DEF Numbers, NotPooled, NotMapped, PoolsShrink
<1>9. PoolInv' /\ MapInv' /\ GivenInv'
  BY <1>1, <1>2, <1>3, <1>5, <1>7, <1>8, PoolGives, MapsGive, GivenOne DEF Numbers
<1>10. CallInv' /\ GotInv'
  BY <1>1, <1>2, <1>5, CallsMove DEF Numbers
<1> QED
  BY <1>7, <1>9, <1>10 DEF Numbers

LEMMA ReserveLocalNumbers ==
  ASSUME IInv, NEW w \in Tasks, ReserveLocal(w)
  PROVE  Numbers'
<1> DEFINE g == NewLocal(At[w])
<1>1. TypeOK /\ RepoType /\ PoolType /\ TaskType /\ Numbers
  BY DEF IInv, TypeOK, Numbers
<1>2. TypeOK' /\ Grows /\ Gains(w, g) /\ GivenTo(g)
  BY ReserveLocalTypes
<1>3. /\ ~Ended(w) /\ pc[w] = "call" /\ At[w] \in Nodes /\ Call(w).op \in Fetching /\ Call(w).to = At[w]
  BY <1>1, ReservingFacts DEF ReserveLocal
<1>4. UNCHANGED <<next, max, reserving, channel, maps, at, pc>>
  BY DEF ReserveLocal, pool
<1>5. RepoType' /\ PoolType' /\ RepoGrows /\ GivenGrows
  BY <1>2 DEF TypeOK, Grows
<1>6. AskersStay(None)
  BY <1>4, SameStay
<1>7. ChannelInv' /\ PoolsShrink /\ MapsShrink
  BY <1>1, <1>4, <1>6, ChannelsQuiet, ShrinkQuiet DEF Numbers
<1>8. g \notin DOMAIN given /\ NotPooled(g) /\ NotMapped(g) /\ ItemNext(At[w], g)
  <2>1. size'[At[w]] = size[At[w]] + 1 /\ size[At[w]] \in Nat
    BY <1>1, <1>3 DEF ReserveLocal, RepoType
  <2>2. g \in Guids
    BY <1>3, <2>1, GuidTypes DEF NewLocal
  <2>3. ItemNext(At[w], g)
    BY <2>1, <2>2, GuidFields DEF ItemNext, NewLocal
  <2> QED
    BY <1>1, <1>3, <1>7, <2>3, NewItem DEF Numbers, NotPooled, NotMapped, PoolsShrink
<1>9. PoolInv' /\ MapInv' /\ GivenInv'
  BY <1>1, <1>2, <1>3, <1>5, <1>7, <1>8, PoolGives, MapsGive, GivenOne DEF Numbers
<1>10. CallInv' /\ GotInv'
  BY <1>1, <1>2, <1>3, <1>4, <1>5, <1>8, CallsGain DEF Numbers
<1> QED
  BY <1>7, <1>9, <1>10 DEF Numbers

LEMMA AskRangeNumbers ==
  ASSUME IInv, NEW w \in Tasks, AskRange(w)
  PROVE  Numbers'
<1>1. TypeOK /\ RepoType /\ PoolType /\ TaskType /\ Numbers
  BY DEF IInv, TypeOK, Numbers
<1>2. /\ TypeOK' /\ Grows /\ channel[At[w]][0].by = None /\ Enters(w, "asked")
      /\ ChannelSet(At[w], 0, Waits(w, Request("map_id", None)))
  BY AskRangeTypes
<1>3. ~Ended(w) /\ pc[w] = "call" /\ At[w] \in Nodes /\ Call(w).op = "range" /\ 0 \in Nodes
  BY <1>1, ReadyFacts, ObjectsAssumption DEF AskRange
<1>4. UNCHANGED <<next, max, reserving, maps, at, got, given>>
  BY DEF AskRange, pool
<1>5. RepoType' /\ PoolType' /\ RepoGrows /\ GivenGrows
  BY <1>2 DEF TypeOK, Grows
<1>6. AskersStay(channel[At[w]][0].by)
  BY <1>1, <1>2, <1>3, <1>4, EntersStay
<1>7. AskedBy(At[w], 0, w)'
  BY <1>2, <1>3, <1>4 DEF AskedBy, Enters, Call
<1>8. GoodChannel(At[w], 0)'
  <2> DEFINE request == Request("map_id", None)
  <2>1. request.op = "map_id"
    BY DEF Request
  <2> HIDE DEF request
  <2>2. ChannelSet(At[w], 0, Waits(w, request))
    BY <1>2 DEF request
  <2> QED
    BY <1>1, <1>3, <1>4, <1>7, <2>1, <2>2, AskedGood DEF Numbers
<1>9. ChannelInv' /\ PoolsShrink /\ MapsShrink
  <2> DEFINE c == Waits(w, Request("map_id", None))
  <2>1. \A x : ~Coming(At[w], 0, x)' /\ (0 = 0 => ~MapComing(At[w], x)')
    BY <1>2, <1>3, WaitsNothing
  <2>2. \A m, k \in Nodes : m # At[w] \/ k # 0 => reserving'[m][k] = reserving[m][k]
    BY <1>4
  <2>3. ChannelSet(At[w], 0, c)
    BY <1>2
  <2> HIDE DEF c
  <2>4. ChannelInv'
    BY <1>1, <1>3, <1>6, <1>8, <2>2, <2>3, ChannelsOne DEF Numbers
  <2>5. PoolsShrink /\ MapsShrink
    BY <1>1, <1>3, <1>4, <1>6, <2>1, <2>3, ShrinkOne DEF Numbers
  <2> QED
    BY <2>4, <2>5
<1>10. PoolInv' /\ MapInv' /\ GivenInv'
  BY <1>1, <1>2, <1>4, <1>5, <1>9, PoolShrinks, MapsKept, GivenKept DEF Numbers
<1>11. CallInv' /\ GotInv'
  <2>1. \A v \in Tasks : \/ pc'[v] = pc[v]
                         \/ ~Ended(v) /\ pc'[v] = "asked" /\ Call(v).op \in Fetching \cup {"range"}
                         \/ ~Ended(v) /\ pc'[v] = "told" /\ Call(v).op = "mapped_db"
    BY <1>2, <1>3 DEF Enters
  <2> QED
    BY <1>1, <1>4, <1>5, <2>1, CallsStay DEF Numbers
<1> QED
  BY <1>9, <1>10, <1>11 DEF Numbers

LEMMA CreateRangeNumbers ==
  ASSUME IInv, NEW w \in Tasks, CreateRange(w)
  PROVE  Numbers'
<1> DEFINE id == channel[At[w]][0].reply
           g == MapGuid(id)
<1>1. TypeOK /\ RepoType /\ PoolType /\ TaskType /\ Numbers
  BY DEF IInv, TypeOK, Numbers
<1>2. TypeOK' /\ Grows /\ GivenTo(g) /\ ChannelSet(At[w], 0, Empty) /\ Moved(w)
  BY CreateRangeTypes
<1>3. At[w] \in Nodes /\ 0 \in Nodes /\ Call(w).op = "range" /\ channel[At[w]][0].by = w /\ id # None
  BY NodeFacts, ObjectsAssumption DEF CreateRange, Answered
<1>4. UNCHANGED <<next, max, reserving, maps>>
  BY DEF CreateRange, pool
<1>5. RepoType' /\ PoolType' /\ RepoGrows /\ GivenGrows
  BY <1>2 DEF TypeOK, Grows
<1>6. AskersStay(channel[At[w]][0].by)
  BY <1>1, <1>2, <1>3, MovedStay
<1>7. id \in Nat /\ MapComing(At[w], id)
  BY <1>1, <1>3 DEF Numbers, ChannelInv, GoodChannel, AnswersTask, MapComing
<1>8. /\ GoodChannel(At[w], 0)'
      /\ \A x : ~Coming(At[w], 0, x)' /\ (0 = 0 => ~MapComing(At[w], x)')
  BY <1>2, <1>3, EmptyGood
<1>9. ChannelInv' /\ PoolsShrink /\ MapsShrink
  <2>1. \A m, k \in Nodes : m # At[w] \/ k # 0 => reserving'[m][k] = reserving[m][k]
    BY <1>4
  <2>2. ChannelInv'
    BY <1>1, <1>2, <1>3, <1>6, <1>8, <2>1, ChannelsOne DEF Numbers
  <2>3. PoolsShrink /\ MapsShrink
    BY <1>1, <1>2, <1>3, <1>4, <1>6, <1>8, ShrinkOne DEF Numbers
  <2> QED
    BY <2>2, <2>3
<1>10. g \notin DOMAIN given /\ g \in Guids /\ id <= maps
  BY <1>1, <1>3, <1>7, GuidTypes DEF Numbers, MapInv
<1>11. MapNext(g)
  BY <1>4, <1>10, GuidFields DEF MapNext
<1>12. NotPooled(g)
  <2>1. \A h \in Nodes : \A i \in Nat : Guid(h, i) # g
    BY NodeFacts, GuidFields
  <2> QED
    BY <2>1 DEF NotPooled
<1>13. NotMapped(g)
  <2> SUFFICES ASSUME NEW n \in Nodes, NEW x \in Nat, MapComing(n, x)', MapGuid(x) = g
               PROVE  FALSE
    BY DEF NotMapped
  <2>1. x = id
    BY GuidFields
  <2>2. MapComing(n, id)
    BY <1>9, <2>1 DEF MapsShrink
  <2>3. n = At[w]
    BY <1>1, <1>3, <1>7, <2>2 DEF Numbers, MapInv
  <2> QED
    BY <1>8, <2>3
<1>14. PoolInv' /\ MapInv' /\ GivenInv'
  BY <1>1, <1>2, <1>5, <1>9, <1>10, <1>11, <1>12, <1>13, PoolGives, MapsGive, GivenOne DEF Numbers
<1>15. CallInv' /\ GotInv'
  BY <1>1, <1>2, <1>5, CallsMove DEF Numbers
<1> QED
  BY <1>9, <1>14, <1>15 DEF Numbers

LEMMA TakeGuidNumbers ==
  ASSUME IInv, NEW w \in Tasks, TakeGuid(w)
  PROVE  Numbers'
<1> DEFINE n == At[w]
           h == Call(w).to
           id == next[n][h]
           g == Guid(h, id)
<1>1. TypeOK /\ RepoType /\ PoolType /\ TaskType /\ Numbers
  BY DEF IInv, TypeOK, Numbers
<1>2. TypeOK' /\ Grows /\ Gains(w, g) /\ GivenTo(g) /\ next' = [next EXCEPT ![n][h] = id + 1]
  BY TakeGuidTypes
<1>3. ~Ended(w) /\ pc[w] = "call" /\ n \in Nodes /\ Call(w).op \in Fetching /\ h \in Nodes
  BY <1>1, ReservingFacts DEF TakeGuid
<1>4. UNCHANGED <<size, max, reserving, channel, maps, at, pc>>
  BY DEF TakeGuid, repo
<1>5. RepoType' /\ PoolType' /\ RepoGrows /\ GivenGrows
  BY <1>2 DEF TypeOK, Grows
<1>6. AskersStay(None) /\ \A x : \A m, k \in Nodes : (Coming(m, k, x)' <=> Coming(m, k, x)) /\ (MapComing(m, x)' <=> MapComing(m, x))
  BY <1>1, <1>4, SameStay, ComingQuiet DEF Numbers
<1>7. ChannelInv' /\ MapsShrink
  BY <1>1, <1>4, <1>6, ChannelsQuiet DEF Numbers, MapsShrink
<1>8. id \in Nat /\ id < max[n][h] /\ reserving[n][h] = None
  BY <1>1, <1>3 DEF TakeGuid, PoolType
<1>9. InPool(n, h, id)
  BY <1>1, <1>3, <1>8 DEF InPool, PoolType
<1>10. \A x : ~Coming(n, h, x)
  <2> SUFFICES ASSUME NEW x, Coming(n, h, x)
               PROVE  FALSE
    OBVIOUS
  <2> DEFINE v == channel[n][h].by
  <2>1. v \in Tasks /\ Call(v).op # "range"
    BY DEF Coming
  <2>2. reserving[n][h] = v
    BY <1>1, <1>3, <2>1 DEF Numbers, ChannelInv, GoodChannel, AskedBy
  <2> QED
    BY <1>8, <2>1, <2>2, NodeFacts
<1>11. \A m, k \in Nodes : m # n \/ k # h => next'[m][k] = next[m][k]
  BY <1>1, <1>2, <1>3 DEF PoolType
<1>12. next'[n][h] = id + 1
  BY <1>1, <1>2, <1>3 DEF PoolType
<1>13. PoolsShrink
  <2> SUFFICES ASSUME NEW m \in Nodes, NEW k \in Nodes, NEW i \in Nat, InPool(m, k, i)'
               PROVE  InPool(m, k, i)
    BY DEF PoolsShrink
  <2>1. CASE next'[m][k] <= i /\ i < max'[m][k]
    BY <1>4, <1>8, <1>11, <1>12, <2>1 DEF InPool
  <2>2. CASE \E first \in Nat : Coming(m, k, first)' /\ first <= i /\ i < first + Count
    BY <1>6, <2>2 DEF InPool
  <2> QED
    BY <2>1, <2>2 DEF InPool
<1>14. NotPooled(g)
  <2> SUFFICES ASSUME NEW m \in Nodes, NEW k \in Nodes, NEW i \in Nat, InPool(m, k, i)', Guid(k, i) = g
               PROVE  FALSE
    BY DEF NotPooled
  <2>1. k = h /\ i = id
    BY GuidFields
  <2>2. InPool(m, h, id)
    BY <1>13, <2>1 DEF PoolsShrink
  <2>3. m = n
    BY <1>1, <1>3, <1>8, <1>9, <2>2 DEF Numbers, PoolInv
  <2>4. ~(next'[n][h] <= id)
    BY <1>8, <1>12
  <2> QED
    BY <1>6, <1>10, <2>1, <2>3, <2>4 DEF InPool
<1>15. g \notin DOMAIN given /\ id < size[h]
  BY <1>1, <1>3, <1>8, <1>9 DEF Numbers, PoolInv
<1>16. ItemNext(h, g)
  BY <1>3, <1>4, <1>8, <1>15, GuidTypes, GuidFields DEF ItemNext
<1>17. NotMapped(g)
  <2>1. \A i \in Nat : MapGuid(i) # g
    BY <1>3, NodeFacts, GuidFields
  <2> QED
    BY <2>1 DEF NotMapped
<1>18. PoolInv' /\ MapInv' /\ GivenInv'
  BY <1>1, <1>2, <1>3, <1>5, <1>7, <1>13, <1>14, <1>15, <1>16, <1>17, PoolGives, MapsGive, GivenOne DEF Numbers
<1>19. CallInv' /\ GotInv'
  BY <1>1, <1>2, <1>3, <1>4, <1>5, <1>16, CallsGain DEF Numbers
<1> QED
  BY <1>7, <1>18, <1>19 DEF Numbers

LEMMA AskGuidsNumbers ==
  ASSUME IInv, NEW w \in Tasks, AskGuids(w)
  PROVE  Numbers'
<1> DEFINE n == At[w]
<1>1. TypeOK /\ RepoType /\ PoolType /\ TaskType /\ Numbers
  BY DEF IInv, TypeOK, Numbers
<1>2. PICK h \in Nodes : h = Call(w).to
  BY <1>1, ReservingFacts DEF AskGuids
<1>3. /\ TypeOK' /\ Grows /\ channel[n][h].by = None /\ Enters(w, "asked")
      /\ ChannelSet(n, h, Waits(w, Request("guids", None)))
  BY <1>2, AskGuidsTypes
<1>4. ~Ended(w) /\ pc[w] = "call" /\ n \in Nodes /\ Call(w).op \in Fetching
  BY <1>1, ReservingFacts DEF AskGuids
<1>5. UNCHANGED <<next, max, maps, at, got, given>> /\ reserving' = [reserving EXCEPT ![n][h] = w]
  BY <1>2 DEF AskGuids
<1>6. RepoType' /\ PoolType' /\ RepoGrows /\ GivenGrows
  BY <1>3 DEF TypeOK, Grows
<1>7. AskersStay(channel[n][h].by)
  BY <1>1, <1>3, <1>4, <1>5, EntersStay
<1>8. AskedBy(n, h, w)'
  <2>1. reserving'[n][h] = w /\ pc'[w] = "asked" /\ Call(w)' = Call(w) /\ Call(w).op # "range"
    BY <1>1, <1>2, <1>3, <1>4, <1>5 DEF PoolType, Enters, Call, Fetching
  <2> QED
    BY <1>2, <2>1 DEF AskedBy
<1>9. GoodChannel(n, h)'
  <2> DEFINE request == Request("guids", None)
  <2>1. request.op = "guids" /\ Call(w).op # "range"
    BY <1>4 DEF Request, Fetching
  <2> HIDE DEF request
  <2>2. ChannelSet(n, h, Waits(w, request))
    BY <1>3 DEF request
  <2> HIDE DEF n
  <2> QED
    BY <1>1, <1>4, <1>5, <1>8, <2>1, <2>2, AskedGood DEF Numbers
<1>10. ChannelInv' /\ PoolsShrink /\ MapsShrink
  <2> DEFINE c == Waits(w, Request("guids", None))
  <2>1. \A x : ~Coming(n, h, x)' /\ (h = 0 => ~MapComing(n, x)')
    BY <1>3, <1>4, WaitsNothing
  <2>2. \A m, k \in Nodes : m # n \/ k # h => reserving'[m][k] = reserving[m][k]
    BY <1>1, <1>4, <1>5 DEF PoolType
  <2>3. ChannelSet(n, h, c)
    BY <1>3
  <2> HIDE DEF c, n
  <2>4. ChannelInv'
    BY <1>1, <1>4, <1>7, <1>9, <2>2, <2>3, ChannelsOne DEF Numbers
  <2>5. PoolsShrink /\ MapsShrink
    BY <1>1, <1>4, <1>5, <1>7, <2>1, <2>3, ShrinkOne DEF Numbers
  <2> QED
    BY <2>4, <2>5
<1>11. PoolInv' /\ MapInv' /\ GivenInv'
  BY <1>1, <1>3, <1>5, <1>6, <1>10, PoolShrinks, MapsKept, GivenKept DEF Numbers
<1>12. CallInv' /\ GotInv'
  <2>1. \A v \in Tasks : \/ pc'[v] = pc[v]
                         \/ ~Ended(v) /\ pc'[v] = "asked" /\ Call(v).op \in Fetching \cup {"range"}
                         \/ ~Ended(v) /\ pc'[v] = "told" /\ Call(v).op = "mapped_db"
    BY <1>3, <1>4 DEF Enters
  <2> QED
    BY <1>1, <1>5, <1>6, <2>1, CallsStay DEF Numbers
<1> QED
  BY <1>10, <1>11, <1>12 DEF Numbers

LEMMA RefillNumbers ==
  ASSUME IInv, NEW w \in Tasks, RefillPool(w)
  PROVE  Numbers'
<1>1. PICK h \in Nodes : h = Call(w).to
  BY RefillFacts
<1> DEFINE n == At[w]
           id == channel[n][h].reply
           g == Guid(h, id)
<1>2. TypeOK /\ RepoType /\ PoolType /\ TaskType /\ Numbers
  BY DEF IInv, TypeOK, Numbers
<1>3. TypeOK' /\ Grows /\ Gains(w, g) /\ GivenTo(g) /\ ChannelSet(n, h, Empty) /\ Enters(w, "call")
  BY <1>1, RefillTypes
<1>4. /\ ~Ended(w) /\ pc[w] = "asked" /\ Call(w).op \in Fetching /\ n \in Nodes
      /\ channel[n][h].by = w /\ id # None /\ id \in Nat
  BY <1>1, RefillFacts
<1>5. UNCHANGED <<size, maps, at>>
  BY DEF RefillPool, repo
<1>6. RepoType' /\ PoolType' /\ RepoGrows /\ GivenGrows
  BY <1>3 DEF TypeOK, Grows
<1>7. AskersStay(channel[n][h].by)
  BY <1>2, <1>3, <1>4, <1>5, EntersStay
<1>8. GoodChannel(n, h)' /\ \A x : ~Coming(n, h, x)' /\ (h = 0 => ~MapComing(n, x)')
  BY <1>3, <1>4, EmptyGood
<1>9. ChannelInv'
  <2>1. \A m, k \in Nodes : m # n \/ k # h => reserving'[m][k] = reserving[m][k]
    BY <1>1, <1>2, <1>4 DEF PoolType, RefillPool
  <2> HIDE DEF n
  <2> QED
    BY <1>2, <1>3, <1>4, <1>7, <1>8, <2>1, ChannelsOne DEF Numbers
<1>10. /\ \A m, k \in Nodes : m # n \/ k # h => next'[m][k] = next[m][k] /\ max'[m][k] = max[m][k]
      /\ next'[n][h] = id + 1 /\ max'[n][h] = id + Count
  BY <1>1, <1>2, <1>4 DEF PoolType, RefillPool, Following
<1>11. Coming(n, h, id)
  BY <1>4 DEF Coming, Fetching
<1>12. \A m, k \in Nodes : \A x : Coming(m, k, x)' => Coming(m, k, x)
  <2> SUFFICES ASSUME NEW m \in Nodes, NEW k \in Nodes, NEW x, Coming(m, k, x)'
               PROVE  Coming(m, k, x)
    OBVIOUS
  <2>1. m # n \/ k # h
    BY <1>8
  <2> HIDE DEF n
  <2> QED
    BY <1>2, <1>3, <1>4, <1>7, <2>1, ComingElsewhere DEF Numbers
<1>13. MapsShrink
  <2> SUFFICES ASSUME NEW m \in Nodes, NEW x \in Nat, MapComing(m, x)'
               PROVE  MapComing(m, x)
    BY DEF MapsShrink
  <2>1. 0 \in Nodes /\ (m # n \/ 0 # h)
    BY <1>8, ObjectsAssumption
  <2> HIDE DEF n
  <2> QED
    BY <1>2, <1>3, <1>4, <1>7, <2>1, ComingElsewhere DEF Numbers
<1>14. PoolsShrink
  <2> SUFFICES ASSUME NEW m \in Nodes, NEW k \in Nodes, NEW i \in Nat, InPool(m, k, i)'
               PROVE  InPool(m, k, i)
    BY DEF PoolsShrink
  <2>1. CASE next'[m][k] <= i /\ i < max'[m][k]
    <3>1. CASE m = n /\ k = h
      <4>1. id <= i /\ i < id + Count
        BY <1>4, <1>10, <2>1, <3>1
      <4> QED
        BY <1>4, <1>11, <3>1, <4>1 DEF InPool
    <3>2. CASE m # n \/ k # h
      BY <1>10, <2>1, <3>2 DEF InPool
    <3> QED
      BY <3>1, <3>2
  <2>2. CASE \E first \in Nat : Coming(m, k, first)' /\ first <= i /\ i < first + Count
    BY <1>12, <2>2 DEF InPool
  <2> QED
    BY <2>1, <2>2, ObjectsAssumption DEF InPool
<1>15. InPool(n, h, id)
  <2>1. id <= id /\ id < id + Count
    BY <1>4, ObjectsAssumption
  <2> QED
    BY <1>4, <1>11, <2>1 DEF InPool
<1>16. NotPooled(g)
  <2> SUFFICES ASSUME NEW m \in Nodes, NEW k \in Nodes, NEW i \in Nat, InPool(m, k, i)', Guid(k, i) = g
               PROVE  FALSE
    BY DEF NotPooled
  <2>1. k = h /\ i = id
    BY GuidFields
  <2>2. InPool(m, h, id)
    BY <1>14, <2>1 DEF PoolsShrink
  <2>3. m = n
    BY <1>2, <1>4, <1>15, <2>2 DEF Numbers, PoolInv
  <2>4. ~(next'[n][h] <= id)
    BY <1>4, <1>10
  <2> QED
    BY <1>8, <2>1, <2>3, <2>4 DEF InPool
<1>17. g \notin DOMAIN given /\ id < size[h]
  BY <1>2, <1>4, <1>15 DEF Numbers, PoolInv
<1>18. ItemNext(h, g)
  BY <1>4, <1>5, <1>17, GuidTypes, GuidFields DEF ItemNext
<1>19. NotMapped(g)
  <2>1. \A i \in Nat : MapGuid(i) # g
    BY <1>4, NodeFacts, GuidFields
  <2> QED
    BY <2>1 DEF NotMapped
<1>20. PoolInv' /\ MapInv' /\ GivenInv'
  BY <1>2, <1>3, <1>4, <1>6, <1>13, <1>14, <1>16, <1>17, <1>18, <1>19, PoolGives, MapsGive, GivenOne DEF Numbers
<1>21. CallInv' /\ GotInv'
  <2>1. ItemNext(Call(w).to, g)
    BY <1>1, <1>18
  <2>2. pc'[w] = "call" /\ \A v \in Tasks : v # w => pc'[v] = pc[v]
    BY <1>3 DEF Enters
  <2> HIDE DEF g
  <2> QED
    BY <1>2, <1>3, <1>4, <1>5, <1>6, <2>1, <2>2, CallsGain DEF Numbers
<1> QED
  BY <1>9, <1>20, <1>21 DEF Numbers

(* Steps that touch neither the pools nor the channels.                    *)
LEMMA MovedNumbers ==
  ASSUME IInv, TypeOK', Grows, NEW w \in Tasks, Moved(w), pc[w] # "asked",
         UNCHANGED <<pool, channel, given>>
  PROVE  Numbers'
<1>1. TypeOK /\ RepoType /\ PoolType /\ TaskType /\ Numbers
  BY DEF IInv, TypeOK, Numbers
<1>2. UNCHANGED <<next, max, reserving>>
  BY DEF pool
<1>3. RepoType' /\ PoolType' /\ RepoGrows /\ GivenGrows
  BY DEF TypeOK, Grows
<1>4. AskersStay(None)
  BY <1>1, MovedStay
<1>5. ChannelInv' /\ PoolsShrink /\ MapsShrink
  BY <1>1, <1>2, <1>4, ChannelsQuiet, ShrinkQuiet DEF Numbers
<1>6. PoolInv' /\ MapInv' /\ GivenInv'
  BY <1>1, <1>3, <1>5, PoolShrinks, MapsKept, GivenKept DEF Numbers
<1>7. CallInv' /\ GotInv'
  BY <1>1, <1>3, CallsMove DEF Numbers
<1> QED
  BY <1>5, <1>6, <1>7 DEF Numbers

LEMMA EntersNumbers ==
  ASSUME IInv, TypeOK', Grows, UNCHANGED <<pool, channel, at, got, given>>,
         \A v \in Tasks : \/ pc'[v] = pc[v]
                          \/ ~Ended(v) /\ pc[v] = "call" /\ pc'[v] = "told" /\ Call(v).op = "mapped_db"
  PROVE  Numbers'
<1>1. TypeOK /\ RepoType /\ PoolType /\ TaskType /\ Numbers
  BY DEF IInv, TypeOK, Numbers
<1>2. UNCHANGED <<next, max, reserving>>
  BY DEF pool
<1>3. RepoType' /\ PoolType' /\ RepoGrows /\ GivenGrows
  BY DEF TypeOK, Grows
<1>4. AskersStay(None)
  BY DEF AskersStay
<1>5. ChannelInv' /\ PoolsShrink /\ MapsShrink
  BY <1>1, <1>2, <1>4, ChannelsQuiet, ShrinkQuiet DEF Numbers
<1>6. PoolInv' /\ MapInv' /\ GivenInv'
  BY <1>1, <1>3, <1>5, PoolShrinks, MapsKept, GivenKept DEF Numbers
<1>7. CallInv' /\ GotInv'
  BY <1>1, <1>3, CallsStay DEF Numbers
<1> QED
  BY <1>5, <1>6, <1>7 DEF Numbers

LEMMA PostNumbers ==
  ASSUME IInv, NEW w \in Tasks,
         CreateEdt(w) \/ CreateRemoteDb(w) \/ CreateMappedDb(w) \/ CacheMaster(w) \/ Satisfy(w)
  PROVE  Numbers'
<1>1. TaskType /\ CallInv
  BY DEF IInv, TypeOK
<1>2. CASE CreateEdt(w)
  BY <1>1, <1>2, ReadyFacts, EdtTypes, MovedNumbers DEF CreateEdt
<1>3. CASE CreateRemoteDb(w)
  BY <1>1, <1>3, ReadyFacts, RemoteDbTypes, MovedNumbers DEF CreateRemoteDb
<1>4. CASE CacheMaster(w)
  BY <1>1, <1>4, CacheMasterTypes, MovedNumbers DEF CacheMaster
<1>5. CASE Satisfy(w)
  BY <1>1, <1>5, ReadyFacts, SatisfyTypes, MovedNumbers DEF Satisfy
<1>6. CASE CreateMappedDb(w)
  <2>1. TypeOK' /\ Grows /\ (MapsHere(w) \/ MapsElsewhere(w))
    BY <1>6, MappedDbTypes
  <2>2. ~Ended(w) /\ pc[w] = "call" /\ Call(w).op = "mapped_db"
    BY <1>1, <1>6, ReadyFacts DEF CreateMappedDb
  <2>3. UNCHANGED <<pool, channel, given>>
    BY <1>6 DEF CreateMappedDb
  <2>4. CASE MapsHere(w)
    BY <2>1, <2>2, <2>3, <2>4, MovedNumbers DEF MapsHere
  <2>5. CASE MapsElsewhere(w)
    <3>1. UNCHANGED <<at, got>> /\ Enters(w, "told")
      BY <2>5 DEF MapsElsewhere
    <3>2. \A v \in Tasks : \/ pc'[v] = pc[v]
                           \/ ~Ended(v) /\ pc[v] = "call" /\ pc'[v] = "told" /\ Call(v).op = "mapped_db"
      BY <2>2, <3>1 DEF Enters
    <3> QED
      BY <2>1, <2>3, <3>1, <3>2, EntersNumbers
  <2> QED
    BY <2>1, <2>4, <2>5
<1> QED
  BY <1>2, <1>3, <1>4, <1>5, <1>6

LEMMA MessageNumbers ==
  ASSUME IInv,
         \/ \E w \in Tasks : Receive(w) \/ Confirm(w)
         \/ \E n \in Nodes : Handle(n)
  PROVE  Numbers'
<1>1. TypeOK' /\ Grows
  BY ReceiveTypes, ConfirmTypes, HandleTypes
<1>2. UNCHANGED <<pool, channel, at, pc, got, given>>
  BY DEF Receive, Confirm, Handle, task
<1> QED
  BY <1>1, <1>2, EntersNumbers

(* Steps that change one channel and nothing about tasks and pools.        *)
LEMMA PullNumbers ==
  ASSUME IInv, NEW n \in Nodes, Pull(n) \/ Pulled(n)
  PROVE  Numbers'
<1>1. PICK h \in Nodes : h = NodeId(NextFetch(n))
  BY FetchFacts DEF Pull, Pulled
<1>2. PICK request \in Requests : request = Request("pull", NextFetch(n)) /\ request.op = "pull"
  <2>1. NextFetch(n) \in Guids
    BY FetchFacts DEF Pull, Pulled
  <2>2. Request("pull", NextFetch(n)) \in Requests /\ Request("pull", NextFetch(n)).op = "pull"
    BY <2>1 DEF Request, Requests
  <2> QED
    BY <2>2
<1>3. TypeOK /\ RepoType /\ PoolType /\ TaskType /\ Numbers
  BY DEF IInv, TypeOK, Numbers
<1>4. TypeOK' /\ Grows /\ channel[n][h].by \notin Tasks
  BY <1>1, PullTypes, PulledTypes, NodeFacts DEF Pulled, Answered
<1>5. RepoType' /\ PoolType' /\ RepoGrows /\ GivenGrows
  BY <1>4 DEF TypeOK, Grows
<1>6. ChannelSet(n, h, Waits(n, request)) \/ ChannelSet(n, h, Empty)
  BY <1>1, <1>2, PullTypes, PulledTypes
<1>7. UNCHANGED <<next, max, reserving, maps, at, pc, got, given>>
  BY DEF Pull, Pulled, pool, task
<1>8. AskersStay(channel[n][h].by)
  BY <1>7, SameStay
<1>9. GoodChannel(n, h)' /\ \A x : ~Coming(n, h, x)' /\ (h = 0 => ~MapComing(n, x)')
  <2>1. CASE ChannelSet(n, h, Empty)
    BY <2>1, EmptyGood
  <2>2. CASE ChannelSet(n, h, Waits(n, request))
    <3>1. channel'[n][h].by = n /\ channel'[n][h].ask = request /\ channel'[n][h].reply = None
      BY <2>2 DEF ChannelSet, Waits
    <3>2. GoodChannel(n, h)'
      BY <1>2, <3>1, NodeFacts DEF GoodChannel, AnswersNode
    <3> QED
      BY <2>2, <3>2, WaitsNothing
  <2> QED
    BY <1>6, <2>1, <2>2
<1>10. ChannelInv' /\ PoolsShrink /\ MapsShrink
  <2>1. \A m, k \in Nodes : m # n \/ k # h => reserving'[m][k] = reserving[m][k]
    BY <1>7
  <2>2. PICK c : ChannelSet(n, h, c)
    BY <1>6
  <2>3. ChannelInv'
    BY <1>3, <1>8, <1>9, <2>1, <2>2, ChannelsOne DEF Numbers
  <2>4. PoolsShrink /\ MapsShrink
    BY <1>3, <1>7, <1>8, <1>9, <2>2, ShrinkOne DEF Numbers
  <2> QED
    BY <2>3, <2>4
<1>11. PoolInv' /\ MapInv' /\ GivenInv'
  BY <1>3, <1>4, <1>5, <1>7, <1>10, PoolShrinks, MapsKept, GivenKept DEF Numbers
<1>12. CallInv' /\ GotInv'
  BY <1>3, <1>5, <1>7, CallsStay DEF Numbers
<1> QED
  BY <1>10, <1>11, <1>12 DEF Numbers

(* Who is waiting for what is asked for.                                   *)
LEMMA AskedFacts ==
  ASSUME PoolType, ChannelInv, NEW n \in Nodes, NEW h \in Nodes, NEW op, Asked(n, h, op)
  PROVE  /\ op = "guids" => channel[n][h].by \in Tasks /\ Call(channel[n][h].by).op # "range"
         /\ op = "map_id" => channel[n][h].by \in Tasks /\ Call(channel[n][h].by).op = "range" /\ h = 0
         /\ op = "pull" => channel[n][h].by \in Nodes
<1> DEFINE c == channel[n][h]
<1>1. c.by \in Tasks \cup Nodes \cup {None} /\ c.ask # None /\ c.ask.op = op
  BY DEF PoolType, Channels, Asked
<1>2. GoodChannel(n, h) /\ c.by # None
  BY <1>1 DEF ChannelInv, GoodChannel
<1>3. CASE c.by \in Tasks
  BY <1>1, <1>2, <1>3, NodeFacts DEF GoodChannel, AskedBy, AnswersTask
<1>4. CASE c.by \in Nodes
  BY <1>1, <1>2, <1>4 DEF GoodChannel, AnswersNode
<1> QED
  BY <1>1, <1>2, <1>3, <1>4

LEMMA RepliedGood ==
  ASSUME ChannelInv, NEW n \in Nodes, NEW h \in Nodes, NEW x, ChannelSet(n, h, Replied(n, h, x)),
         UNCHANGED <<at, pc, reserving>>, channel[n][h].by # None,
         channel[n][h].by \in Tasks => x \in Nat, channel[n][h].by \in Nodes => x = "copy"
  PROVE  GoodChannel(n, h)' /\ channel'[n][h].by = channel[n][h].by /\ channel'[n][h].reply = x
<1>1. channel'[n][h].by = channel[n][h].by /\ channel'[n][h].ask = None /\ channel'[n][h].reply = x
  BY DEF ChannelSet, Replied
<1>2. GoodChannel(n, h)
  BY DEF ChannelInv
<1> QED
  BY <1>1, <1>2 DEF GoodChannel, AskedBy, AnswersTask, AnswersNode, Call

(* Other channels bring what they brought.                                 *)
LEMMA OthersBring ==
  ASSUME PoolType, ChannelInv, NEW n \in Nodes, NEW h \in Nodes, NEW x, ChannelSet(n, h, Replied(n, h, x)),
         UNCHANGED <<at, pc, reserving>>, NEW m \in Nodes, NEW k \in Nodes, m # n \/ k # h, NEW y
  PROVE  /\ Coming(m, k, y)' => Coming(m, k, y)
         /\ k = 0 => (MapComing(m, y)' => MapComing(m, y))
<1> DEFINE c == Replied(n, h, x)
<1>1. ChannelSet(n, h, c) /\ AskersStay(channel[n][h].by)
  BY SameStay
<1> HIDE DEF c
<1> QED
  BY <1>1, ComingElsewhere

LEMMA ServedGood ==
  ASSUME PoolType, ChannelInv, NEW n \in Nodes, NEW h \in Nodes, NEW x, ChannelSet(n, h, Replied(n, h, x)),
         UNCHANGED <<at, pc, reserving>>, GoodChannel(n, h)'
  PROVE  ChannelInv'
<1>1. AskersStay(channel[n][h].by)
  BY SameStay
<1>2. \A m, k \in Nodes : m # n \/ k # h => reserving'[m][k] = reserving[m][k]
  OBVIOUS
<1>3. PICK c : c = Replied(n, h, x)
  OBVIOUS
<1>4. ChannelSet(n, h, c)
  BY <1>3
<1> QED
  BY <1>1, <1>2, <1>4, ChannelsOne

LEMMA ServePullNumbers ==
  ASSUME IInv, NEW n \in Nodes, NEW h \in Nodes, ServePull(n, h)
  PROVE  Numbers'
<1>1. TypeOK /\ RepoType /\ PoolType /\ TaskType /\ Numbers /\ ChannelInv
  BY DEF IInv, TypeOK, Numbers
<1>2. TypeOK' /\ Grows /\ ChannelSet(n, h, Replied(n, h, "copy"))
  BY ServeTypes
<1>3. RepoType' /\ PoolType' /\ RepoGrows /\ GivenGrows
  BY <1>2 DEF TypeOK, Grows
<1>4. UNCHANGED <<next, max, reserving, maps, at, pc, got, given>>
  BY DEF ServePull, pool, task
<1>5. channel[n][h].by \in Nodes /\ channel[n][h].by \notin Tasks /\ channel[n][h].by # None
  BY <1>1, AskedFacts, NodeFacts DEF ServePull
<1>6. GoodChannel(n, h)' /\ channel'[n][h].by = channel[n][h].by
  BY <1>1, <1>2, <1>4, <1>5, RepliedGood
<1>7. ChannelInv'
  BY <1>1, <1>2, <1>4, <1>6, ServedGood
<1>8. \A m, k \in Nodes : \A x : /\ Coming(m, k, x)' => Coming(m, k, x)
                                 /\ k = 0 => (MapComing(m, x)' => MapComing(m, x))
  <2> SUFFICES ASSUME NEW m \in Nodes, NEW k \in Nodes, NEW x
               PROVE  /\ Coming(m, k, x)' => Coming(m, k, x)
                      /\ k = 0 => (MapComing(m, x)' => MapComing(m, x))
    OBVIOUS
  <2>1. CASE m = n /\ k = h
    BY <1>5, <1>6, <2>1 DEF Coming, MapComing
  <2>2. CASE m # n \/ k # h
    BY <1>1, <1>2, <1>4, <2>2, OthersBring
  <2> QED
    BY <2>1, <2>2
<1>9. PoolsShrink /\ MapsShrink
  BY <1>4, <1>8, ObjectsAssumption DEF PoolsShrink, MapsShrink, InPool
<1>10. PoolInv' /\ MapInv' /\ GivenInv'
  BY <1>1, <1>2, <1>3, <1>4, <1>9, PoolShrinks, MapsKept, GivenKept DEF Numbers
<1>11. CallInv' /\ GotInv'
  BY <1>1, <1>3, <1>4, CallsStay DEF Numbers
<1> QED
  BY <1>7, <1>10, <1>11 DEF Numbers

LEMMA ServeMapIdNumbers ==
  ASSUME IInv, NEW n \in Nodes, NEW h \in Nodes, ServeMapId(n, h)
  PROVE  Numbers'
<1> DEFINE id == maps + 1
<1>1. TypeOK /\ RepoType /\ PoolType /\ TaskType /\ Numbers /\ ChannelInv
  BY DEF IInv, TypeOK, Numbers
<1>2. TypeOK' /\ Grows /\ ChannelSet(n, h, Replied(n, h, id))
  BY ServeTypes
<1>3. RepoType' /\ PoolType' /\ RepoGrows /\ GivenGrows
  BY <1>2 DEF TypeOK, Grows
<1>4. UNCHANGED <<next, max, reserving, at, pc, got, given>> /\ maps' = id /\ maps \in Nat /\ id \in Nat
  BY <1>1 DEF ServeMapId, pool, task, PoolType
<1>5. channel[n][h].by \in Tasks /\ channel[n][h].by # None /\ Call(channel[n][h].by).op = "range" /\ h = 0
  BY <1>1, AskedFacts, NodeFacts DEF ServeMapId
<1>6. GoodChannel(n, h)' /\ channel'[n][h].by = channel[n][h].by /\ channel'[n][h].reply = id
  <2>1. channel[n][h].by \notin Nodes
    BY <1>5, NodeFacts
  <2> HIDE DEF id
  <2> QED
    BY <1>1, <1>2, <1>4, <1>5, <2>1, RepliedGood
<1>7. ChannelInv'
  <2> HIDE DEF id
  <2> QED
    BY <1>1, <1>2, <1>4, <1>6, ServedGood
<1>8. \A m, k \in Nodes : \A x : Coming(m, k, x)' => Coming(m, k, x)
  <2> SUFFICES ASSUME NEW m \in Nodes, NEW k \in Nodes, NEW x, Coming(m, k, x)'
               PROVE  Coming(m, k, x)
    OBVIOUS
  <2>1. m # n \/ k # h
    BY <1>4, <1>5, <1>6 DEF Coming, Call
  <2> HIDE DEF id
  <2> QED
    BY <1>1, <1>2, <1>4, <2>1, OthersBring
<1>9. \A m \in Nodes : \A x : MapComing(m, x)' => MapComing(m, x) \/ (m = n /\ x = id)
  <2> SUFFICES ASSUME NEW m \in Nodes, NEW x, MapComing(m, x)', m # n
               PROVE  MapComing(m, x)
    BY <1>5, <1>6 DEF MapComing
  <2> HIDE DEF id
  <2> QED
    BY <1>1, <1>2, <1>4, <1>5, OthersBring
<1>10. PoolsShrink
  BY <1>4, <1>8, ObjectsAssumption DEF PoolsShrink, InPool
<1>11. MapGuid(id) \notin DOMAIN given
  <2>1. ~IsMap(MapGuid(id))
    BY <1>4, GuidFields DEF IsMap
  <2>2. \A k \in Nodes : ~ItemOf(k, MapGuid(id))
    BY NodeFacts, GuidFields DEF ItemOf
  <2> QED
    BY <1>1, <2>1, <2>2 DEF Numbers, GivenInv
<1>12. MapInv'
  <2>1. \A m \in Nodes : \A x \in Nat : MapComing(m, x)' => x <= maps' /\ MapGuid(x) \notin DOMAIN given'
    BY <1>1, <1>4, <1>9, <1>11 DEF Numbers, MapInv
  <2>2. \A m, k \in Nodes : \A x \in Nat : MapComing(m, x)' /\ MapComing(k, x)' => m = k
    <3>1. \A m \in Nodes : ~MapComing(m, id)
      BY <1>1, <1>4 DEF Numbers, MapInv
    <3> HIDE DEF id
    <3> QED
      BY <1>1, <1>9, <3>1 DEF Numbers, MapInv
  <2> QED
    BY <2>1, <2>2 DEF MapInv, MapGuid
<1>13. PoolInv' /\ GivenInv'
  BY <1>1, <1>2, <1>3, <1>4, <1>10, PoolShrinks, GivenKept DEF Numbers
<1>14. CallInv' /\ GotInv'
  BY <1>1, <1>3, <1>4, CallsStay DEF Numbers
<1> QED
  BY <1>7, <1>12, <1>13, <1>14 DEF Numbers

LEMMA ServeGuidsNumbers ==
  ASSUME IInv, NEW n \in Nodes, NEW h \in Nodes, ServeGuids(n, h)
  PROVE  Numbers'
<1> DEFINE first == size[h]
           New(m, k, i) == m = n /\ k = h /\ first <= i /\ i < first + Count
<1>1. TypeOK /\ RepoType /\ PoolType /\ TaskType /\ Numbers /\ ChannelInv
  BY DEF IInv, TypeOK, Numbers
<1>2. TypeOK' /\ Grows /\ ChannelSet(n, h, Replied(n, h, first))
  BY ServeTypes
<1>3. RepoType' /\ PoolType' /\ RepoGrows /\ GivenGrows
  BY <1>2 DEF TypeOK, Grows
<1>4. UNCHANGED <<next, max, reserving, maps, at, pc, got, given>> /\ first \in Nat /\ Count \in Nat
  BY <1>1, ObjectsAssumption DEF ServeGuids, pool, task, RepoType
<1>5. channel[n][h].by \in Tasks /\ channel[n][h].by # None /\ Call(channel[n][h].by).op # "range"
  BY <1>1, AskedFacts, NodeFacts DEF ServeGuids
<1>6. GoodChannel(n, h)' /\ channel'[n][h].by = channel[n][h].by /\ channel'[n][h].reply = first
  <2>1. channel[n][h].by \notin Nodes
    BY <1>5, NodeFacts
  <2> HIDE DEF first
  <2> QED
    BY <1>1, <1>2, <1>4, <1>5, <2>1, RepliedGood
<1>7. ChannelInv'
  <2> HIDE DEF first
  <2> QED
    BY <1>1, <1>2, <1>4, <1>6, ServedGood
<1>8. \A m, k \in Nodes : \A x : Coming(m, k, x)' => Coming(m, k, x) \/ (m = n /\ k = h /\ x = first)
  <2> SUFFICES ASSUME NEW m \in Nodes, NEW k \in Nodes, NEW x, Coming(m, k, x)', m # n \/ k # h
               PROVE  Coming(m, k, x)
    BY <1>6 DEF Coming
  <2> HIDE DEF first
  <2> QED
    BY <1>1, <1>2, <1>4, OthersBring
<1>9. MapsShrink
  <2> SUFFICES ASSUME NEW m \in Nodes, NEW x \in Nat, MapComing(m, x)'
               PROVE  MapComing(m, x)
    BY DEF MapsShrink
  <2>1. (m # n \/ 0 # h) /\ 0 \in Nodes
    BY <1>4, <1>5, <1>6, ObjectsAssumption DEF MapComing, Call
  <2> HIDE DEF first
  <2> QED
    BY <1>1, <1>2, <1>4, <2>1, OthersBring
<1>10. \A m, k \in Nodes : \A i \in Nat : InPool(m, k, i)' => InPool(m, k, i) \/ New(m, k, i)
  BY <1>4, <1>8, ObjectsAssumption DEF InPool
<1>11. size'[h] = first + Count /\ \A k \in Nodes : k # h => size'[k] = size[k]
  BY <1>1 DEF ServeGuids, RepoType
<1>12. \A i \in Nat : first <= i => Guid(h, i) \notin DOMAIN given
  <2> SUFFICES ASSUME NEW i \in Nat, first <= i
               PROVE  Guid(h, i) \notin DOMAIN given
    OBVIOUS
  <2>1. ~IsMap(Guid(h, i))
    BY NodeFacts, GuidFields DEF IsMap
  <2>2. \A k \in Nodes : ~ItemOf(k, Guid(h, i))
    BY <1>4, GuidFields DEF ItemOf
  <2> QED
    BY <1>1, <2>1, <2>2 DEF Numbers, GivenInv
<1>13. PoolInv'
  <2>1. \A m, k \in Nodes : \A i \in Nat : InPool(m, k, i) => i < size[k] /\ Guid(k, i) \notin DOMAIN given
    BY <1>1 DEF Numbers, PoolInv
  <2>2. \A m, l, k \in Nodes : \A i \in Nat : InPool(m, k, i) /\ InPool(l, k, i) => m = l
    BY <1>1 DEF Numbers, PoolInv
  <2>3. \A m, k \in Nodes : \A i \in Nat : InPool(m, k, i)' => i < size'[k] /\ Guid(k, i) \notin DOMAIN given
    <3> SUFFICES ASSUME NEW m \in Nodes, NEW k \in Nodes, NEW i \in Nat, InPool(m, k, i)'
                 PROVE  i < size'[k] /\ Guid(k, i) \notin DOMAIN given
      OBVIOUS
    <3>1. CASE InPool(m, k, i)
      <4>1. i < size[k] /\ size[k] <= size'[k] /\ size[k] \in Nat /\ size'[k] \in Nat
        BY <1>1, <1>3, <2>1, <3>1 DEF RepoGrows, RepoType
      <4> QED
        BY <2>1, <3>1, <4>1
    <3>2. CASE New(m, k, i)
      BY <1>4, <1>11, <1>12, <3>2
    <3> QED
      BY <1>10, <3>1, <3>2
  <2>4. \A m, l, k \in Nodes : \A i \in Nat : InPool(m, k, i)' /\ InPool(l, k, i)' => m = l
    <3>1. \A m, l, k \in Nodes : \A i \in Nat : ~(InPool(m, k, i) /\ New(l, k, i))
      BY <1>4, <2>1
    <3>2. \A m, l, k, i : New(m, k, i) /\ New(l, k, i) => m = l
      OBVIOUS
    <3> HIDE DEF New
    <3> QED
      BY <1>10, <2>2, <3>1, <3>2
  <2> QED
    BY <1>4, <2>3, <2>4 DEF PoolInv, Guid
<1>14. MapInv' /\ GivenInv'
  BY <1>1, <1>2, <1>3, <1>4, <1>9, MapsKept, GivenKept DEF Numbers
<1>15. CallInv' /\ GotInv'
  BY <1>1, <1>3, <1>4, CallsStay DEF Numbers
<1> QED
  BY <1>7, <1>13, <1>14, <1>15 DEF Numbers

LEMMA TypesStay ==
  ASSUME IInv, [Next]_vars
  PROVE  TypeOK' /\ Grows
<1>1. CASE UNCHANGED vars
  <2>1. TypeOK /\ RepoType /\ PoolType /\ TaskType /\ WireType
    BY DEF IInv, TypeOK
  <2>2. UNCHANGED <<size, created, cache, pool, channel, maps, at, pc, got, env, wire, given>>
    BY <1>1 DEF vars, repo, task
  <2>3. RepoType' /\ RepoGrows /\ PoolType' /\ GivenGrows /\ WireType'
    BY <2>1, <2>2, RepoStays, PoolStays, ChannelStays, GivenStays, WireStays
  <2>4. TaskType' /\ TaskGrows
    BY <2>1, <2>2, TaskStays DEF TaskType
  <2> QED
    BY <2>3, <2>4 DEF TypeOK, Grows
<1>2. ASSUME NEW w \in Tasks, TaskStep(w)
      PROVE  TypeOK' /\ Grows
  BY <1>2, LocalDbTypes, TemplateTypes, AskRangeTypes, CreateRangeTypes, ReserveLocalTypes, TakeGuidTypes,
     AskGuidsTypes, RefillTypes, EdtTypes, RemoteDbTypes, MappedDbTypes, CacheMasterTypes, SatisfyTypes,
     ReceiveTypes, ConfirmTypes DEF TaskStep
<1>3. ASSUME NEW n \in Nodes, Pull(n) \/ Pulled(n) \/ Handle(n)
      PROVE  TypeOK' /\ Grows
  BY <1>3, PullTypes, PulledTypes, HandleTypes
<1>4. ASSUME NEW n \in Nodes, NEW h \in Nodes, ServeGuids(n, h) \/ ServeMapId(n, h) \/ ServePull(n, h)
      PROVE  TypeOK' /\ Grows
  BY <1>4, ServeTypes
<1> QED
  BY <1>1, <1>2, <1>3, <1>4 DEF Next, Done

LEMMA NumbersStay ==
  ASSUME IInv, [Next]_vars
  PROVE  Numbers'
<1>1. CASE UNCHANGED vars
  <2>1. UNCHANGED <<pool, channel, at, pc, got, given>>
    BY <1>1 DEF vars, task
  <2> QED
    BY <2>1, TypesStay, EntersNumbers
<1>2. ASSUME NEW w \in Tasks, TaskStep(w)
      PROVE  Numbers'
  BY <1>2, LocalNumbers, AskRangeNumbers, CreateRangeNumbers, ReserveLocalNumbers, TakeGuidNumbers,
     AskGuidsNumbers, RefillNumbers, PostNumbers, MessageNumbers DEF TaskStep
<1>3. ASSUME NEW n \in Nodes, Pull(n) \/ Pulled(n) \/ Handle(n)
      PROVE  Numbers'
  BY <1>3, PullNumbers, MessageNumbers
<1>4. ASSUME NEW n \in Nodes, NEW h \in Nodes, ServeGuids(n, h) \/ ServeMapId(n, h) \/ ServePull(n, h)
      PROVE  Numbers'
  BY <1>4, ServeGuidsNumbers, ServeMapIdNumbers, ServePullNumbers
<1> QED
  BY <1>1, <1>2, <1>3, <1>4 DEF Next, Done

-----------------------------------------------------------------------------
(***************************************************************************)
(* Variables.                                                              *)
(***************************************************************************)

HoldsNext(g, range) ==
  IF range THEN MapNext(g) /\ g \in DOMAIN given' ELSE \E h \in Nodes : ItemNext(h, g)

LEMMA HoldsStays ==
  ASSUME TypeOK, TypeOK', Grows, NEW x, NEW range, Holds(x, range)
  PROVE  HoldsNext(env[x], range)
<1>1. RepoType /\ RepoType' /\ PoolType /\ PoolType' /\ RepoGrows /\ GivenGrows
  BY DEF TypeOK, Grows
<1>2. CASE range
  BY <1>1, <1>2, MapsStay DEF Holds, HoldsNext, GivenGrows
<1>3. CASE ~range
  BY <1>1, <1>3, ItemsStay DEF Holds, HoldsNext
<1> QED
  BY <1>2, <1>3

LEMMA HeldNext ==
  ASSUME TypeOK, TypeOK', EnvInv, Grows, NEW x \in Names, env[x] # None
  PROVE  /\ env'[x] = env[x]
         /\ \E w \in Tasks : \E i \in Nat :
              i < at'[w] /\ AssignsAt(w, i, x) /\ HoldsNext(env'[x], Script[w][i].op = "range")
<1>1. env'[x] = env[x]
  BY DEF Grows, TaskGrows
<1>2. PICK w \in Tasks : \E i \in Nat : i < at[w] /\ AssignsAt(w, i, x) /\ Holds(x, Script[w][i].op = "range")
  BY DEF EnvInv
<1>3. PICK i \in Nat : i < at[w] /\ AssignsAt(w, i, x) /\ Holds(x, Script[w][i].op = "range")
  BY <1>2
<1>4. i < at'[w]
  <2>1. at[w] \in Nat /\ at'[w] \in Nat /\ at[w] <= at'[w]
    BY DEF TypeOK, TaskType, Grows, TaskGrows
  <2> QED
    BY <1>3, <2>1
<1>5. HoldsNext(env'[x], Script[w][i].op = "range")
  BY <1>1, <1>3, HoldsStays
<1> QED
  BY <1>1, <1>3, <1>4, <1>5

LEMMA EnvNext ==
  ASSUME \A x \in Names : env'[x] # None =>
           \E w \in Tasks : \E i \in Nat :
             i < at'[w] /\ AssignsAt(w, i, x) /\ HoldsNext(env'[x], Script[w][i].op = "range"),
         \A x, y \in Names :
           env'[x] # None /\ env'[y] # None /\ env'[x] = env'[y] /\ env'[x].of = -1 => x = y
  PROVE  EnvInv'
  BY DEF EnvInv, AssignsAt, Holds, HoldsNext, MapNext, IsMap, ItemNext, ItemOf

LEMMA EnvKept ==
  ASSUME TypeOK, TypeOK', EnvInv, Grows, UNCHANGED env
  PROVE  EnvInv'
<1>1. \A x \in Names : env'[x] # None =>
        \E w \in Tasks : \E i \in Nat :
          i < at'[w] /\ AssignsAt(w, i, x) /\ HoldsNext(env'[x], Script[w][i].op = "range")
  BY HeldNext
<1>2. \A x, y \in Names :
        env'[x] # None /\ env'[y] # None /\ env'[x] = env'[y] /\ env'[x].of = -1 => x = y
  BY DEF EnvInv
<1> QED
  BY <1>1, <1>2, EnvNext

(* A range is given to the task whose variable holds it.                   *)
LEMMA RangeGiven ==
  ASSUME EnvInv, NEW x \in Names, env[x] # None, env[x].of = -1
  PROVE  env[x] \in DOMAIN given
<1>1. PICK w \in Tasks : \E i \in Nat : Holds(x, Script[w][i].op = "range")
  BY DEF EnvInv
<1>2. PICK i \in Nat : Holds(x, Script[w][i].op = "range")
  BY <1>1
<1>3. ~ \E h \in Nodes : ItemOf(h, env[x])
  BY NodeFacts DEF ItemOf
<1> QED
  BY <1>2, <1>3 DEF Holds

LEMMA EnvSets ==
  ASSUME TypeOK, TypeOK', EnvInv, Grows, NEW w \in Tasks, Moved(w), ~Ended(w),
         Call(w).op \in Assigning, NEW g, Sets(Call(w).name, g), HoldsNext(g, Call(w).op = "range"),
         g.of = -1 => g \notin DOMAIN given
  PROVE  EnvInv'
<1>1. PICK x : x = Call(w).name
  OBVIOUS
<1>2. TaskType /\ x \in Names /\ env[x] = None
  BY <1>1, FirstValue DEF TypeOK
<1>3. at[w] \in DOMAIN Script[w] /\ at[w] \in Nat /\ at'[w] = at[w] + 1
  BY <1>2, CallNow DEF Moved
<1>4. env'[x] = g /\ \A y \in Names : y # x => env'[y] = env[y]
  BY <1>1, <1>2 DEF Sets
<1>5. \A y \in Names : env'[y] # None =>
        \E v \in Tasks : \E i \in Nat :
          i < at'[v] /\ AssignsAt(v, i, y) /\ HoldsNext(env'[y], Script[v][i].op = "range")
  <2> SUFFICES ASSUME NEW y \in Names, env'[y] # None
               PROVE  \E v \in Tasks : \E i \in Nat :
                        i < at'[v] /\ AssignsAt(v, i, y) /\ HoldsNext(env'[y], Script[v][i].op = "range")
    OBVIOUS
  <2>1. CASE y # x
    BY <1>4, <2>1, HeldNext
  <2>2. CASE y = x
    <3>1. AssignsAt(w, at[w], x) /\ HoldsNext(g, Script[w][at[w]].op = "range") /\ at[w] < at'[w]
      BY <1>1, <1>3 DEF AssignsAt, Call
    <3> QED
      BY <1>3, <1>4, <2>2, <3>1
  <2> QED
    BY <2>1, <2>2
<1>6. \A y, z \in Names :
        env'[y] # None /\ env'[z] # None /\ env'[y] = env'[z] /\ env'[y].of = -1 => y = z
  <2>1. \A y \in Names : y # x /\ env[y] # None /\ env[y].of = -1 => env[y] # g
    BY RangeGiven
  <2>2. \A y, z \in Names : env[y] # None /\ env[z] # None /\ env[y] = env[z] /\ env[y].of = -1 => y = z
    BY DEF EnvInv
  <2> QED
    BY <1>4, <2>1, <2>2
<1> QED
  BY <1>5, <1>6, EnvNext

LEMMA EnvStays ==
  ASSUME IInv, [Next]_vars
  PROVE  EnvInv'
<1>1. TypeOK /\ RepoType /\ PoolType /\ TaskType /\ EnvInv /\ Numbers
  BY DEF IInv, TypeOK, Numbers
<1>2. TypeOK' /\ Grows
  BY TypesStay
<1>3. CASE UNCHANGED env
  BY <1>1, <1>2, <1>3, EnvKept
<1>4. ASSUME NEW w \in Tasks, CreateLocalDb(w) \/ CreateTemplate(w)
      PROVE  EnvInv'
  <2> DEFINE g == NewLocal(At[w])
  <2>1. LocalAdded(At[w]) /\ Moved(w) /\ Sets(Call(w).name, g)
    BY <1>4, LocalDbTypes, TemplateTypes
  <2>2. ~Ended(w) /\ At[w] \in Nodes /\ Call(w).op \in Assigning /\ Call(w).op # "range"
    BY <1>1, <1>4, ReadyFacts DEF CreateLocalDb, CreateTemplate, Assigning
  <2>3. ItemNext(At[w], g) /\ g.of # -1
    BY <1>1, <2>1, <2>2, GuidFields, NodeFacts DEF LocalAdded, ItemNext, NewLocal, RepoType
  <2>4. HoldsNext(g, Call(w).op = "range")
    BY <2>2, <2>3 DEF HoldsNext
  <2> HIDE DEF g
  <2> QED
    BY <1>1, <1>2, <2>1, <2>2, <2>3, <2>4, EnvSets
<1>5. ASSUME NEW w \in Tasks, CreateRemoteDb(w)
      PROVE  EnvInv'
  <2> DEFINE g == got[w][1]
  <2>1. Moved(w) /\ Sets(Call(w).name, g)
    BY <1>5, RemoteDbTypes
  <2>2. ~Ended(w) /\ Call(w).op \in Assigning /\ Call(w).op = "remote_db" /\ Call(w).to \in Nodes
    BY <1>1, <1>5, ReadyFacts DEF CreateRemoteDb, Assigning, CallOK, Fetching
  <2>3. ItemOf(Call(w).to, g)
    <3>1. 1 \in DOMAIN got[w]
      BY <1>1, <1>5 DEF CreateRemoteDb, TaskType
    <3> QED
      BY <1>1, <3>1 DEF Numbers, GotInv
  <2>4. PICK h \in Nodes : h = Call(w).to
    BY <2>2
  <2>5. ItemNext(h, g) /\ g.of # -1
    BY <1>1, <1>2, <2>3, <2>4, ItemsStay, NodeFacts DEF TypeOK, Grows, ItemOf
  <2>6. HoldsNext(g, Call(w).op = "range")
    BY <2>2, <2>5 DEF HoldsNext
  <2> HIDE DEF g
  <2> QED
    BY <1>1, <1>2, <2>1, <2>2, <2>5, <2>6, EnvSets
<1>6. ASSUME NEW w \in Tasks, CreateRange(w)
      PROVE  EnvInv'
  <2> DEFINE id == channel[At[w]][0].reply
             g == MapGuid(id)
  <2>1. Moved(w) /\ Sets(Call(w).name, g) /\ GivenTo(g)
    BY <1>6, CreateRangeTypes
  <2>2. ~Ended(w) /\ Call(w).op \in Assigning /\ Call(w).op = "range" /\ 0 \in Nodes /\ At[w] \in Nodes
    BY <1>1, <1>6, NodeFacts, ObjectsAssumption DEF CreateRange, Assigning, Numbers, CallInv
  <2>3. id \in Nat /\ MapComing(At[w], id)
    BY <1>1, <1>6, <2>2 DEF Numbers, ChannelInv, GoodChannel, AnswersTask, MapComing, CreateRange, Answered
  <2>4. id <= maps /\ g \notin DOMAIN given
    BY <1>1, <2>2, <2>3 DEF Numbers, MapInv
  <2>5. MapNext(g)
    BY <1>6, <2>3, <2>4, GuidTypes, GuidFields DEF MapNext, CreateRange
  <2>6. HoldsNext(g, Call(w).op = "range")
    BY <2>1, <2>2, <2>5 DEF HoldsNext, GivenTo
  <2> HIDE DEF g
  <2> QED
    BY <1>1, <1>2, <2>1, <2>2, <2>4, <2>6, EnvSets
<1>7. \/ UNCHANGED env
      \/ \E w \in Tasks : CreateLocalDb(w) \/ CreateTemplate(w) \/ CreateRemoteDb(w) \/ CreateRange(w)
  <2>1. CASE UNCHANGED vars
    BY <2>1 DEF vars, task
  <2>2. ASSUME NEW w \in Tasks, TaskStep(w)
        PROVE  UNCHANGED env \/ CreateLocalDb(w) \/ CreateTemplate(w) \/ CreateRemoteDb(w) \/ CreateRange(w)
    BY <2>2 DEF TaskStep, AskRange, ReserveLocal, TakeGuid, AskGuids, RefillPool, CreateEdt, CreateMappedDb,
                CacheMaster, Satisfy, Receive, Confirm, task
  <2>3. ASSUME NEW n \in Nodes, Pull(n) \/ Pulled(n) \/ Handle(n)
        PROVE  UNCHANGED env
    BY <2>3 DEF Pull, Pulled, Handle, task
  <2>4. ASSUME NEW n \in Nodes, NEW h \in Nodes, ServeGuids(n, h) \/ ServeMapId(n, h) \/ ServePull(n, h)
        PROVE  UNCHANGED env
    BY <2>4 DEF ServeGuids, ServeMapId, ServePull, task
  <2> QED
    BY <2>1, <2>2, <2>3, <2>4 DEF Next, Done
<1> QED
  BY <1>3, <1>4, <1>5, <1>6, <1>7

-----------------------------------------------------------------------------
(***************************************************************************)
(* Templates.                                                              *)
(***************************************************************************)
Pending(w, m) == \E k \in Nat : Unhandled(w, k) /\ stream[w][k] = m
UnhandledNext(w, k) == k \in DOMAIN stream'[w] /\ (k # 1 \/ w \notin acking')
PendingNext(w, m) == \E k \in Nat : UnhandledNext(w, k) /\ stream'[w][k] = m
KnownNext(n, g) == IF NodeId(g) = n THEN g \in created'[n] ELSE InCacheNext(n, g)

LEMMA KnownStays ==
  ASSUME Grows, NEW n \in Nodes, NEW g, Known(n, g)
  PROVE  KnownNext(n, g)
  BY DEF Grows, RepoGrows, Known, KnownNext, InCacheNext, InCache

(* A message that pushes a template waits, or has been handled.            *)
PushesStay == \A w \in Tasks : \A n \in Nodes : \A g :
  Pending(w, TemplateMsg(n, g)) => PendingNext(w, TemplateMsg(n, g)) \/ InCacheNext(n, g) \/ NodeId(g) = n

TemplateNext(w, g) ==
  /\ ItemNext(At[w], g) /\ g \in created'[At[w]]
  /\ \A n \in Nodes : KnownNext(n, g) \/ PendingNext(w, TemplateMsg(n, g))

LEMMA TemplateKept ==
  ASSUME TypeOK, TypeOK', Grows, PushesStay, NEW w \in Tasks, NEW g, TemplateAt(w, g)
  PROVE  TemplateNext(w, g)
<1>1. At[w] \in Nodes /\ ItemOf(At[w], g) /\ g \in created[At[w]]
  BY NodeFacts DEF TemplateAt
<1>2. ItemNext(At[w], g) /\ g \in created'[At[w]] /\ NodeId(g) = At[w]
  BY <1>1, ItemsStay, HomeOfItem DEF TypeOK, Grows, RepoGrows
<1>3. ASSUME NEW n \in Nodes
      PROVE  KnownNext(n, g) \/ PendingNext(w, TemplateMsg(n, g))
  <2>1. CASE Known(n, g)
    BY <2>1, KnownStays
  <2>2. CASE Pending(w, TemplateMsg(n, g))
    BY <1>2, <2>2 DEF PushesStay, KnownNext
  <2> QED
    BY <2>1, <2>2 DEF TemplateAt, Pending
<1> QED
  BY <1>2, <1>3 DEF TemplateNext

LEMMA TemplatesNext ==
  ASSUME \A w \in Tasks : \A i \in DOMAIN Script[w] :
           i < at'[w] /\ Script[w][i].op = "template" => TemplateNext(w, env'[Script[w][i].name])
  PROVE  TemplateInv'
  BY DEF TemplateInv, TemplateAt, TemplateNext, ItemNext, ItemOf, KnownNext, InCacheNext, Known, InCache,
         PendingNext, UnhandledNext, Unhandled, TemplateMsg, NodeId

(* What a template's variable holds stays.                                 *)
LEMMA TemplateStays ==
  ASSUME TypeOK, TypeOK', TemplateInv, Grows, PushesStay, NEW w \in Tasks, NEW i \in DOMAIN Script[w],
         i < at[w], Script[w][i].op = "template"
  PROVE  TemplateNext(w, env'[Script[w][i].name])
<1> DEFINE x == Script[w][i].name
<1>1. TemplateAt(w, env[x])
  BY DEF TemplateInv
<1>2. x \in Names
  BY CallFacts DEF CallOK, Assigning
<1>3. env[x] # None
  BY <1>1, GuidTypes DEF TemplateAt, ItemOf
<1>4. env'[x] = env[x]
  BY <1>2, <1>3 DEF Grows, TaskGrows
<1> QED
  BY <1>1, <1>4, TemplateKept

LEMMA TemplatesKept ==
  ASSUME TypeOK, TypeOK', TemplateInv, Grows, PushesStay,
         \A w \in Tasks : at'[w] = at[w] \/ (at'[w] = at[w] + 1 /\ Call(w).op # "template")
  PROVE  TemplateInv'
<1>1. ASSUME NEW w \in Tasks, NEW i \in DOMAIN Script[w], i < at'[w], Script[w][i].op = "template"
      PROVE  i < at[w]
  <2>1. at[w] \in Nat /\ i \in Nat
    BY ObjectsAssumption DEF TypeOK, TaskType
  <2>2. i # at[w] \/ at'[w] = at[w]
    BY <1>1 DEF Call
  <2>3. at'[w] = at[w] \/ at'[w] = at[w] + 1
    OBVIOUS
  <2> QED
    BY <1>1, <2>1, <2>2, <2>3
<1>2. \A w \in Tasks : \A i \in DOMAIN Script[w] :
        i < at'[w] /\ Script[w][i].op = "template" => TemplateNext(w, env'[Script[w][i].name])
  BY <1>1, TemplateStays
<1> QED
  BY <1>2, TemplatesNext

(* What happens to the streams.                                            *)
LEMMA PushesSame ==
  ASSUME UNCHANGED <<stream, acking>>
  PROVE  PushesStay
  BY DEF PushesStay, Pending, PendingNext, Unhandled, UnhandledNext

LEMMA PushesAppended ==
  ASSUME WireType, UNCHANGED acking, NEW w \in Tasks, NEW ms, Len(ms) \in Nat, Appends(w, ms)
  PROVE  PushesStay
<1> SUFFICES ASSUME NEW v \in Tasks, NEW m, Pending(v, m)
             PROVE  PendingNext(v, m)
  BY DEF PushesStay
<1>1. PICK k \in Nat : Unhandled(v, k) /\ stream[v][k] = m
  BY DEF Pending
<1>2. CASE v # w
  BY <1>1, <1>2 DEF Appends, PendingNext, Unhandled, UnhandledNext
<1>3. CASE v = w
  <2>1. stream[w] \in Seq(Messages) /\ stream'[w] \in Seq(Messages)
    BY DEF WireType, Appends
  <2>2. k \in 1 .. Len(stream[w]) /\ Len(stream[w]) \in Nat
    BY <1>1, <1>3, <2>1 DEF Unhandled
  <2>3. k \in DOMAIN stream'[w] /\ stream'[w][k] = m
    BY <1>1, <1>3, <2>1, <2>2 DEF Appends
  <2> QED
    BY <1>1, <1>3, <2>3 DEF PendingNext, Unhandled, UnhandledNext
<1> QED
  BY <1>2, <1>3

LEMMA PushesConfirmed ==
  ASSUME IInv, NEW w \in Tasks, Confirm(w)
  PROVE  PushesStay
<1> SUFFICES ASSUME NEW v \in Tasks, NEW m, Pending(v, m)
             PROVE  PendingNext(v, m)
  BY DEF PushesStay
<1>1. PICK k \in Nat : Unhandled(v, k) /\ stream[v][k] = m
  BY DEF Pending
<1>2. /\ stream[w] # <<>> /\ stream'[w] = Tail(stream[w]) /\ \A u \in Tasks : u # w => stream'[u] = stream[u]
      /\ w \in acking /\ acking' = acking \ {w} /\ stream[w] \in Seq(Messages)
  BY ConfirmTypes DEF Confirm, IInv, TypeOK, WireType
<1>3. CASE v # w
  BY <1>1, <1>2, <1>3 DEF PendingNext, Unhandled, UnhandledNext
<1>4. CASE v = w
  <2>1. k \in DOMAIN stream[w] /\ k # 1
    BY <1>1, <1>2, <1>4 DEF Unhandled
  <2>2. k - 1 \in Nat /\ k - 1 \in DOMAIN stream'[w] /\ stream'[w][k - 1] = stream[w][k]
    BY <1>2, <2>1
  <2>3. UnhandledNext(w, k - 1)
    BY <1>2, <2>2 DEF UnhandledNext
  <2> QED
    BY <1>1, <1>4, <2>2, <2>3 DEF PendingNext
<1> QED
  BY <1>3, <1>4

LEMMA PushesHandled ==
  ASSUME IInv, NEW n \in Nodes, Handle(n)
  PROVE  PushesStay
<1> DEFINE w == handler[n].of
           m == Head(stream[w])
<1>1. RepoType /\ WireType
  BY DEF IInv, TypeOK
<1>2. /\ w \in Tasks /\ m = stream[w][1] /\ m.to = n
      /\ UNCHANGED stream /\ acking' = acking \cup {w}
  BY HandlerFacts DEF Handle, Handling
<1> SUFFICES ASSUME NEW v \in Tasks, NEW k \in Nodes, NEW g, Pending(v, TemplateMsg(k, g))
             PROVE  PendingNext(v, TemplateMsg(k, g)) \/ InCacheNext(k, g) \/ NodeId(g) = k
  BY DEF PushesStay
<1>3. PICK i \in Nat : Unhandled(v, i) /\ stream[v][i] = TemplateMsg(k, g)
  BY DEF Pending
<1>4. CASE v = w /\ i = 1
  <2>1. m = TemplateMsg(k, g)
    BY <1>2, <1>3, <1>4
  <2>2. m.op = "push_template" /\ k = n /\ m.guid = g
    BY <1>2, <2>1 DEF TemplateMsg
  <2>3. cache' = Added(n, g, "copy")
    BY <2>2 DEF Handle
  <2> QED
    BY <1>1, <2>2, <2>3, AddedGrows
<1>5. CASE v # w \/ i # 1
  BY <1>2, <1>3, <1>5 DEF PendingNext, Unhandled, UnhandledNext
<1> QED
  BY <1>4, <1>5

(* Every step but the creation of a template.                              *)
LEMMA CreatedTemplate ==
  ASSUME IInv, NEW w \in Tasks, CreateTemplate(w)
  PROVE  TemplateInv'
<1> DEFINE g == NewLocal(At[w])
           n == At[w]
<1>1. TypeOK /\ RepoType /\ TaskType /\ WireType /\ TemplateInv /\ HandlerInv
  BY DEF IInv, TypeOK
<1>2. /\ TypeOK' /\ Grows /\ LocalAdded(n) /\ Moved(w) /\ Sets(Call(w).name, g) /\ Appends(w, Pushes(n, g))
  BY TemplateTypes
<1>3. UNCHANGED acking
  BY DEF CreateTemplate
<1>4. n \in Nodes /\ g \in Guids /\ at[w] \in DOMAIN Script[w] /\ at[w] \in Nat
  BY <1>1, <1>2, ReadyFacts DEF CreateTemplate, LocalAdded
<1>5. Pushes(n, g) \in Seq(Messages) /\ \A m \in Nodes \ {n} : \E k \in 1 .. Len(Pushes(n, g)) : Pushes(n, g)[k] = TemplateMsg(m, g)
  BY <1>4, PushFacts
<1>6. PushesStay
  BY <1>1, <1>2, <1>3, <1>5, PushesAppended
<1>7. ItemNext(n, g) /\ g \in created'[n] /\ NodeId(g) = n
  BY <1>1, <1>2, <1>4, GuidFields DEF LocalAdded, ItemNext, NewLocal, RepoType, NodeId
<1>8. ASSUME NEW m \in Nodes
      PROVE  KnownNext(m, g) \/ PendingNext(w, TemplateMsg(m, g))
  <2>1. CASE m = n
    BY <1>7, <2>1 DEF KnownNext
  <2>2. CASE m # n
    <3>1. PICK ms : ms = Pushes(n, g)
      OBVIOUS
    <3>2. PICK k \in 1 .. Len(ms) : ms[k] = TemplateMsg(m, g)
      BY <1>5, <2>2, <3>1
    <3>3. /\ Len(stream[w]) \in Nat /\ Len(ms) \in Nat /\ stream'[w] \in Seq(Messages)
          /\ Len(stream'[w]) = Len(stream[w]) + Len(ms) /\ stream'[w][Len(stream[w]) + k] = ms[k]
      BY <1>1, <1>2, <1>5, <3>1, <3>2 DEF WireType, Appends
    <3> DEFINE i == Len(stream[w]) + k
    <3>4. i \in Nat /\ i \in DOMAIN stream'[w] /\ stream'[w][i] = TemplateMsg(m, g)
      BY <3>2, <3>3
    <3>5. i # 1 \/ w \notin acking'
      BY <1>1, <1>3, <3>2, <3>3 DEF HandlerInv
    <3> QED
      BY <3>4, <3>5 DEF PendingNext, UnhandledNext
  <2> QED
    BY <2>1, <2>2
<1>9. TemplateNext(w, g)
  BY <1>7, <1>8 DEF TemplateNext
<1>10. ASSUME NEW v \in Tasks, NEW i \in DOMAIN Script[v], i < at'[v], Script[v][i].op = "template"
       PROVE  TemplateNext(v, env'[Script[v][i].name])
  <2>1. at[v] \in Nat /\ i \in Nat
    BY <1>1, ObjectsAssumption DEF TaskType
  <2>2. CASE i < at[v]
    BY <1>1, <1>2, <1>6, <1>10, <2>2, TemplateStays
  <2>3. CASE ~(i < at[v])
    <3>1. v = w /\ i = at[w]
      BY <1>2, <1>10, <2>1, <2>3 DEF Moved
    <3>2. env'[Script[v][i].name] = g
      BY <1>2, <3>1 DEF Sets, Call
    <3> QED
      BY <1>9, <3>1, <3>2
  <2> QED
    BY <2>2, <2>3
<1> QED
  BY <1>10, TemplatesNext

LEMMA TemplatesStay ==
  ASSUME IInv, [Next]_vars
  PROVE  TemplateInv'
<1>1. TypeOK /\ TaskType /\ WireType /\ TemplateInv /\ CallInv
  BY DEF IInv, TypeOK
<1>2. TypeOK' /\ Grows
  BY TypesStay
<1> DEFINE Others == \A w \in Tasks : at'[w] = at[w] \/ (at'[w] = at[w] + 1 /\ Call(w).op # "template")
<1>3. ASSUME PushesStay, Others
      PROVE  TemplateInv'
  BY <1>1, <1>2, <1>3, TemplatesKept
<1>4. CASE UNCHANGED vars
  <2>1. UNCHANGED <<stream, acking, at>>
    BY <1>4 DEF vars, task, wire
  <2> QED
    BY <1>3, <2>1, PushesSame
<1>5. ASSUME NEW w \in Tasks, Moved(w), Call(w).op # "template"
      PROVE  Others
  BY <1>5 DEF Moved
<1> HIDE DEF Others
<1>6. ASSUME NEW w \in Tasks, CreateLocalDb(w) \/ CreateRange(w) \/ CacheMaster(w)
      PROVE  TemplateInv'
  <2>1. Moved(w) /\ Call(w).op # "template"
    BY <1>1, <1>6, LocalDbTypes, CreateRangeTypes, CacheMasterTypes DEF CreateLocalDb, CreateRange, CacheMaster, CallInv
  <2>2. UNCHANGED <<stream, acking>>
    BY <1>6 DEF CreateLocalDb, CreateRange, CacheMaster, wire
  <2> QED
    BY <1>3, <1>5, <2>1, <2>2, PushesSame
<1>7. ASSUME NEW w \in Tasks, CreateEdt(w) \/ CreateRemoteDb(w) \/ Satisfy(w)
      PROVE  TemplateInv'
  <2>1. Moved(w) /\ Call(w).op # "template" /\ UNCHANGED acking
    BY <1>7, EdtTypes, RemoteDbTypes, SatisfyTypes DEF CreateEdt, CreateRemoteDb, Satisfy
  <2>2. \E m : Appends(w, <<m>>)
    BY <1>7, EdtTypes, RemoteDbTypes, SatisfyTypes
  <2>3. PICK m : Appends(w, <<m>>)
    BY <2>2
  <2>4. Len(<<m>>) \in Nat
    OBVIOUS
  <2> QED
    BY <1>1, <1>3, <1>5, <2>1, <2>3, <2>4, PushesAppended
<1>8. ASSUME NEW w \in Tasks, CreateMappedDb(w)
      PROVE  TemplateInv'
  <2>1. MapsHere(w) \/ MapsElsewhere(w)
    BY <1>8, MappedDbTypes
  <2>2. Call(w).op # "template" /\ UNCHANGED acking
    BY <1>8 DEF CreateMappedDb
  <2>3. CASE MapsHere(w)
    BY <1>3, <1>5, <2>2, <2>3, PushesSame DEF MapsHere
  <2>4. CASE MapsElsewhere(w)
    <3>1. Others
      BY <2>4 DEF MapsElsewhere, Others
    <3>2. PICK m : Appends(w, <<m>>)
      BY <2>4 DEF MapsElsewhere
    <3>3. Len(<<m>>) \in Nat
      OBVIOUS
    <3> QED
      BY <1>1, <1>3, <2>2, <3>1, <3>2, <3>3, PushesAppended
  <2> QED
    BY <2>1, <2>3, <2>4
<1>9. ASSUME NEW w \in Tasks,
             \/ AskRange(w) \/ ReserveLocal(w) \/ TakeGuid(w) \/ AskGuids(w) \/ RefillPool(w) \/ Receive(w)
      PROVE  TemplateInv'
  <2>1. UNCHANGED <<stream, acking, at>>
    BY <1>9 DEF AskRange, ReserveLocal, TakeGuid, AskGuids, RefillPool, Receive, wire, task
  <2>2. Others
    BY <2>1 DEF Others
  <2> QED
    BY <1>3, <2>1, <2>2, PushesSame
<1>10. ASSUME NEW w \in Tasks, Confirm(w)
       PROVE  TemplateInv'
  <2>1. Others
    BY <1>10 DEF Others, Confirm, task
  <2> QED
    BY <1>3, <1>10, <2>1, PushesConfirmed
<1>11. ASSUME NEW n \in Nodes, Handle(n)
       PROVE  TemplateInv'
  <2>1. Others
    BY <1>11 DEF Others, Handle, task
  <2> QED
    BY <1>3, <1>11, <2>1, PushesHandled
<1>12. ASSUME NEW n \in Nodes, NEW h \in Nodes,
              Pull(n) \/ Pulled(n) \/ ServeGuids(n, h) \/ ServeMapId(n, h) \/ ServePull(n, h)
       PROVE  TemplateInv'
  <2>1. UNCHANGED <<stream, acking, at>>
    BY <1>12 DEF Pull, Pulled, ServeGuids, ServeMapId, ServePull, wire, task
  <2>2. Others
    BY <2>1 DEF Others
  <2> QED
    BY <1>3, <2>1, <2>2, PushesSame
<1> QED
  BY <1>4, <1>6, <1>7, <1>8, <1>9, <1>10, <1>11, <1>12, CreatedTemplate DEF Next, TaskStep, Done

-----------------------------------------------------------------------------
(***************************************************************************)
(* Labels.                                                                 *)
(***************************************************************************)
MapsDb(w, i) == i \in DOMAIN Script[w] /\ Script[w][i].op = "mapped_db"
LabelsNext(w, i) == MapsDb(w, i) /\ (i < at'[w] \/ (i = at'[w] /\ pc'[w] = "told"))
RangeOf(w, i) == env[Script[w][i].range]
RangeNext(w, i) == env'[Script[w][i].range]
LabelOf(w, i) == Label(RangeOf(w, i), Script[w][i].index)
LabelNext(w, i) == Label(RangeNext(w, i), Script[w][i].index)

LEMMA MapsLabel ==
  ASSUME NEW w, NEW i, MapsDb(w, i)
  PROVE  TheGuid(Script[w][i]) = LabelOf(w, i)
  BY DEF MapsDb, TheGuid, Labelled, LabelOf, RangeOf

LEMMA MapsFacts ==
  ASSUME TaskType, EnvInv, NEW w \in Tasks, NEW i, MapsDb(w, i), RangeOf(w, i) # None
  PROVE  /\ Script[w][i].range \in Names /\ IsMap(RangeOf(w, i))
         /\ LabelOf(w, i) \in Guids /\ LabelOf(w, i).mapped
         /\ LabelOf(w, i).of = RangeOf(w, i).id /\ LabelOf(w, i).id = Script[w][i].index
  BY LabelFacts, MapsLabel DEF MapsDb, RangeOf, Labelled

(* Two calls name a block by the same label only if they are the same call.*)
LEMMA LabelOnce ==
  ASSUME TaskType, EnvInv, NEW v \in Tasks, NEW w \in Tasks, NEW i, NEW j, MapsDb(v, i), MapsDb(w, j),
         RangeOf(v, i) # None, RangeOf(w, j) # None, LabelOf(v, i) = LabelOf(w, j)
  PROVE  v = w /\ i = j
<1>1. /\ IsMap(RangeOf(v, i)) /\ IsMap(RangeOf(w, j)) /\ RangeOf(v, i).id = RangeOf(w, j).id
      /\ Script[v][i].range \in Names /\ Script[w][j].range \in Names
      /\ Script[v][i].index = Script[w][j].index
  BY MapsFacts
<1>2. RangeOf(v, i) = RangeOf(w, j) /\ RangeOf(v, i).of = -1
  BY <1>1, GuidEqual DEF IsMap
<1>3. Script[v][i].range = Script[w][j].range
  BY <1>1, <1>2 DEF EnvInv, RangeOf
<1> QED
  BY <1>1, <1>3, LabelledOnce DEF MapsDb

LEMMA LabelsGrow ==
  ASSUME TypeOK, TypeOK', Grows, NEW w \in Tasks, NEW i \in Nat, Labels(w, i)
  PROVE  LabelsNext(w, i)
<1>1. at[w] \in Nat /\ at'[w] \in Nat /\ at[w] <= at'[w] /\ (at'[w] = at[w] /\ pc[w] = "told" => pc'[w] = "told")
  BY DEF TypeOK, TaskType, Grows, TaskGrows
<1> QED
  BY <1>1 DEF Labels, LabelsNext, MapsDb

LEMMA RangeStays ==
  ASSUME Grows, NEW w \in Tasks, NEW i, MapsDb(w, i), RangeOf(w, i) # None
  PROVE  RangeNext(w, i) = RangeOf(w, i) /\ LabelNext(w, i) = LabelOf(w, i)
<1>1. Script[w][i].range \in Names
  BY CallFacts DEF MapsDb, CallOK, Labelled
<1> QED
  BY <1>1 DEF Grows, TaskGrows, RangeNext, RangeOf, LabelNext, LabelOf

LEMMA LabelInvParts ==
  /\ LabelInv =>
       /\ \A w \in Tasks : \A i \in Nat : Labels(w, i) => MapsDb(w, i) /\ RangeOf(w, i) # None
       /\ \A n \in Nodes : \A g \in created[n] : g.mapped =>
            \E w \in Tasks : \E i \in Nat : Labels(w, i) /\ g = LabelOf(w, i)
  /\ /\ \A w \in Tasks : \A i \in Nat : LabelsNext(w, i) => RangeNext(w, i) # None
     /\ \A n \in Nodes : \A g \in created'[n] : g.mapped =>
          \E w \in Tasks : \E i \in Nat : LabelsNext(w, i) /\ g = LabelNext(w, i)
     => LabelInv'
<1>1. \A w, i : Labels(w, i) => MapsDb(w, i) /\ TheGuid(Script[w][i]) = LabelOf(w, i)
  BY MapsLabel DEF Labels, MapsDb
<1>2. \A w, i : LabelsNext(w, i) <=> Labels(w, i)'
  BY DEF Labels, LabelsNext, MapsDb
<1>3. \A w, i : LabelsNext(w, i) => LabelNext(w, i) = TheGuid(Script[w][i])'
  BY DEF LabelsNext, MapsDb, LabelNext, RangeNext, TheGuid, Labelled, Label
<1>4. ASSUME LabelInv
      PROVE  /\ \A w \in Tasks : \A i \in Nat : Labels(w, i) => MapsDb(w, i) /\ RangeOf(w, i) # None
             /\ \A n \in Nodes : \A g \in created[n] : g.mapped =>
                  \E w \in Tasks : \E i \in Nat : Labels(w, i) /\ g = LabelOf(w, i)
  BY <1>1, <1>4 DEF LabelInv, RangeOf
<1>5. ASSUME /\ \A w \in Tasks : \A i \in Nat : LabelsNext(w, i) => RangeNext(w, i) # None
             /\ \A n \in Nodes : \A g \in created'[n] : g.mapped =>
                  \E w \in Tasks : \E i \in Nat : LabelsNext(w, i) /\ g = LabelNext(w, i)
      PROVE  LabelInv'
  BY <1>2, <1>3, <1>5 DEF LabelInv, RangeNext
<1> QED
  BY <1>4, <1>5

(* The ranges of the calls that name a block in a step have been created.  *)
LabelsFrom == \A w \in Tasks :
  \/ at'[w] = at[w] /\ (pc'[w] = "told" => pc[w] = "told" \/ RangeOf(w, at[w]) # None)
  \/ /\ at'[w] = at[w] + 1 /\ pc'[w] # "told"
     /\ Call(w).op = "mapped_db" => RangeOf(w, at[w]) # None
CreatedFrom == \A n \in Nodes : \A g \in created'[n] : g.mapped =>
  \/ g \in created[n]
  \/ \E w \in Tasks : \E i \in Nat : LabelsNext(w, i) /\ RangeOf(w, i) # None /\ g = LabelOf(w, i)
CreatedSame == \A n \in Nodes : \A g \in created'[n] : g.mapped => g \in created[n]

LEMMA NamedNext ==
  ASSUME TypeOK, TypeOK', LabelInv, Grows, LabelsFrom, NEW w \in Tasks, NEW i \in Nat, LabelsNext(w, i)
  PROVE  MapsDb(w, i) /\ RangeOf(w, i) # None
<1>1. at[w] \in Nat /\ MapsDb(w, i)
  BY DEF TypeOK, TaskType, LabelsNext
<1>2. CASE Labels(w, i)
  BY <1>2, LabelInvParts
<1>3. CASE ~Labels(w, i)
  <2>1. i = at[w] /\ ((pc'[w] = "told" /\ at'[w] = at[w] /\ pc[w] # "told") \/ at'[w] = at[w] + 1)
    BY <1>1, <1>3 DEF LabelsFrom, Labels, LabelsNext, MapsDb
  <2> QED
    BY <1>1, <2>1 DEF LabelsFrom, MapsDb, Call
<1> QED
  BY <1>1, <1>2, <1>3

LEMMA LabelsKept ==
  ASSUME TypeOK, TypeOK', LabelInv, Grows, LabelsFrom, CreatedFrom
  PROVE  LabelInv'
<1>1. ASSUME NEW w \in Tasks, NEW i \in Nat, LabelsNext(w, i)
      PROVE  RangeNext(w, i) # None
  BY <1>1, NamedNext, RangeStays
<1>2. ASSUME NEW n \in Nodes, NEW g \in created'[n], g.mapped
      PROVE  \E w \in Tasks : \E i \in Nat : LabelsNext(w, i) /\ g = LabelNext(w, i)
  <2>1. \E w \in Tasks : \E i \in Nat : LabelsNext(w, i) /\ RangeOf(w, i) # None /\ g = LabelOf(w, i)
    <3>1. CASE g \in created[n]
      <4>1. PICK w \in Tasks : \E i \in Nat : Labels(w, i) /\ g = LabelOf(w, i)
        BY <1>2, <3>1, LabelInvParts
      <4>2. PICK i \in Nat : Labels(w, i) /\ g = LabelOf(w, i)
        BY <4>1
      <4> QED
        BY <4>2, LabelInvParts, LabelsGrow
    <3>2. CASE g \notin created[n]
      BY <1>2, <3>2 DEF CreatedFrom
    <3> QED
      BY <3>1, <3>2
  <2>2. PICK w \in Tasks : \E i \in Nat : LabelsNext(w, i) /\ RangeOf(w, i) # None /\ g = LabelOf(w, i)
    BY <2>1
  <2>3. PICK i \in Nat : LabelsNext(w, i) /\ RangeOf(w, i) # None /\ g = LabelOf(w, i)
    BY <2>2
  <2>4. LabelNext(w, i) = LabelOf(w, i)
    BY <2>3, RangeStays DEF LabelsNext
  <2> QED
    BY <2>3, <2>4
<1> QED
  BY <1>1, <1>2, LabelInvParts

(* The messages about labelled blocks.                                     *)
AboutDb(w, k) == k \in DOMAIN stream[w] /\ stream[w][k].op = "mapped_db_create"
AboutNext(w, k) == k \in DOMAIN stream'[w] /\ stream'[w][k].op = "mapped_db_create"

LEMMA LabelMsgParts ==
  /\ LabelMsgInv =>
       /\ \A w \in Tasks : \A k : AboutDb(w, k) => \E i \in Nat : Labels(w, i) /\ stream[w][k].guid = LabelOf(w, i)
       /\ \A w \in Tasks : \A k, l : AboutDb(w, k) /\ AboutDb(w, l) /\ stream[w][k].guid = stream[w][l].guid => k = l
       /\ \A w \in Tasks : \A k \in Nat : Unhandled(w, k) /\ AboutDb(w, k) =>
            stream[w][k].guid \notin created[stream[w][k].to]
  /\ /\ \A w \in Tasks : \A k : AboutNext(w, k) =>
          \E i \in Nat : LabelsNext(w, i) /\ stream'[w][k].guid = LabelNext(w, i)
     /\ \A w \in Tasks : \A k, l : AboutNext(w, k) /\ AboutNext(w, l) /\ stream'[w][k].guid = stream'[w][l].guid => k = l
     /\ \A w \in Tasks : \A k \in Nat : UnhandledNext(w, k) /\ AboutNext(w, k) =>
          stream'[w][k].guid \notin created'[stream'[w][k].to]
     => LabelMsgInv'
<1>1. \A w, i : Labels(w, i) => TheGuid(Script[w][i]) = LabelOf(w, i)
  BY MapsLabel DEF Labels, MapsDb
<1>2. \A w, i : LabelsNext(w, i) <=> Labels(w, i)'
  BY DEF Labels, LabelsNext, MapsDb
<1>3. \A w, i : LabelsNext(w, i) => LabelNext(w, i) = TheGuid(Script[w][i])'
  BY DEF LabelsNext, MapsDb, LabelNext, RangeNext, TheGuid, Labelled, Label
<1>4. ASSUME LabelMsgInv
      PROVE  /\ \A w \in Tasks : \A k : AboutDb(w, k) =>
                  \E i \in Nat : Labels(w, i) /\ stream[w][k].guid = LabelOf(w, i)
             /\ \A w \in Tasks : \A k, l :
                  AboutDb(w, k) /\ AboutDb(w, l) /\ stream[w][k].guid = stream[w][l].guid => k = l
             /\ \A w \in Tasks : \A k \in Nat : Unhandled(w, k) /\ AboutDb(w, k) =>
                  stream[w][k].guid \notin created[stream[w][k].to]
  BY <1>1, <1>4 DEF LabelMsgInv, AboutDb
<1>5. ASSUME \A w \in Tasks : \A k : AboutNext(w, k) =>
               \E i \in Nat : LabelsNext(w, i) /\ stream'[w][k].guid = LabelNext(w, i)
      PROVE  \A w \in Tasks : \A k \in DOMAIN stream'[w] : stream'[w][k].op = "mapped_db_create" =>
               \E i \in Nat : Labels(w, i)' /\ stream'[w][k].guid = TheGuid(Script[w][i])'
  BY <1>2, <1>3, <1>5 DEF AboutNext
<1>6. ASSUME /\ \A w \in Tasks : \A k, l :
                  AboutNext(w, k) /\ AboutNext(w, l) /\ stream'[w][k].guid = stream'[w][l].guid => k = l
             /\ \A w \in Tasks : \A k \in Nat : UnhandledNext(w, k) /\ AboutNext(w, k) =>
                  stream'[w][k].guid \notin created'[stream'[w][k].to]
      PROVE  /\ \A w \in Tasks : \A k, l \in DOMAIN stream'[w] :
                  stream'[w][k].op = "mapped_db_create" /\ stream'[w][l].op = "mapped_db_create"
                    /\ stream'[w][k].guid = stream'[w][l].guid => k = l
             /\ \A w \in Tasks : \A k \in Nat : Unhandled(w, k)' /\ stream'[w][k].op = "mapped_db_create" =>
                  stream'[w][k].guid \notin created'[stream'[w][k].to]
  BY <1>6 DEF AboutNext, UnhandledNext, Unhandled
<1> QED
  BY <1>4, <1>5, <1>6 DEF LabelMsgInv

LEMMA SaidFacts ==
  ASSUME TypeOK, EnvInv, LabelInv, LabelMsgInv, NEW w \in Tasks, NEW k, AboutDb(w, k)
  PROVE  \E i \in Nat : Labels(w, i) /\ MapsDb(w, i) /\ RangeOf(w, i) # None /\ stream[w][k].guid = LabelOf(w, i)
  BY LabelMsgParts, LabelInvParts

(* A message still has its label, and no other message has it.             *)
LEMMA SaidStays ==
  ASSUME TypeOK, TypeOK', EnvInv, LabelInv, LabelMsgInv, Grows, NEW w \in Tasks, NEW k, AboutDb(w, k)
  PROVE  \E i \in Nat : LabelsNext(w, i) /\ stream[w][k].guid = LabelNext(w, i)
<1>1. PICK i \in Nat : Labels(w, i) /\ MapsDb(w, i) /\ RangeOf(w, i) # None /\ stream[w][k].guid = LabelOf(w, i)
  BY SaidFacts
<1> QED
  BY <1>1, LabelsGrow, RangeStays

(* Messages keep their place; none of the new ones creates such a block.   *)
OldMessages ==
  /\ \A w \in Tasks : \A k \in DOMAIN stream[w] : k \in DOMAIN stream'[w] /\ stream'[w][k] = stream[w][k]
  /\ acking \subseteq acking'
NoneNew == \A w \in Tasks : \A k : AboutNext(w, k) => k \in DOMAIN stream[w]
NotYet == \A w \in Tasks : \A k \in Nat :
  AboutDb(w, k) /\ UnhandledNext(w, k) => stream[w][k].guid \notin created'[stream[w][k].to]

LEMMA LabelMsgsKept ==
  ASSUME TypeOK, TypeOK', EnvInv, LabelInv, LabelMsgInv, Grows, OldMessages, NoneNew, NotYet
  PROVE  LabelMsgInv'
<1>1. \A w \in Tasks : \A k : AboutNext(w, k) => AboutDb(w, k) /\ stream'[w][k] = stream[w][k]
  BY DEF OldMessages, NoneNew, AboutNext, AboutDb
<1>2. \A w \in Tasks : \A k : AboutNext(w, k) =>
        \E i \in Nat : LabelsNext(w, i) /\ stream'[w][k].guid = LabelNext(w, i)
  BY <1>1, SaidStays
<1>3. \A w \in Tasks : \A k, l :
        AboutNext(w, k) /\ AboutNext(w, l) /\ stream'[w][k].guid = stream'[w][l].guid => k = l
  BY <1>1, LabelMsgParts
<1>4. \A w \in Tasks : \A k \in Nat : UnhandledNext(w, k) /\ AboutNext(w, k) =>
        stream'[w][k].guid \notin created'[stream'[w][k].to]
  BY <1>1 DEF NotYet
<1> QED
  BY <1>2, <1>3, <1>4, LabelMsgParts

LEMMA NotYetSame ==
  ASSUME TypeOK, LabelMsgInv, MsgInv, OldMessages, CreatedSame
  PROVE  NotYet
<1> SUFFICES ASSUME NEW w \in Tasks, NEW k \in Nat, AboutDb(w, k), UnhandledNext(w, k)
             PROVE  stream[w][k].guid \notin created'[stream[w][k].to]
  BY DEF NotYet
<1>1. Unhandled(w, k)
  BY DEF Unhandled, UnhandledNext, AboutDb, OldMessages
<1>2. stream[w][k].guid \notin created[stream[w][k].to]
  BY <1>1, LabelMsgParts
<1>3. stream[w][k].guid.mapped /\ stream[w][k] \in Messages
  BY DEF AboutDb, MsgInv, MsgOK, TypeOK, WireType
<1>4. stream[w][k].to \in Nodes
  BY <1>3, MessageFacts
<1> QED
  BY <1>2, <1>3, <1>4 DEF CreatedSame

LEMMA OldSame ==
  ASSUME UNCHANGED stream, acking \subseteq acking'
  PROVE  OldMessages /\ NoneNew
  BY DEF OldMessages, NoneNew, AboutNext

LEMMA OldKept ==
  ASSUME WireType, NEW w \in Tasks, NEW ms, Len(ms) \in Nat, Appends(w, ms), NEW v \in Tasks,
         NEW k \in DOMAIN stream[v]
  PROVE  k \in DOMAIN stream'[v] /\ stream'[v][k] = stream[v][k]
<1>1. CASE v # w
  BY <1>1 DEF Appends
<1>2. CASE v = w
  <2>1. stream[w] \in Seq(Messages) /\ stream'[w] \in Seq(Messages) /\ Len(stream'[w]) = Len(stream[w]) + Len(ms)
    BY DEF WireType, Appends
  <2>2. k \in 1 .. Len(stream[w]) /\ Len(stream[w]) \in Nat
    BY <1>2, <2>1
  <2>3. k \in DOMAIN stream'[w] /\ stream'[w][k] = stream[w][k]
    BY <2>1, <2>2 DEF Appends
  <2> QED
    BY <1>2, <2>3
<1> QED
  BY <1>1, <1>2

LEMMA OldAppended ==
  ASSUME WireType, UNCHANGED acking, NEW w \in Tasks, NEW m, Appends(w, <<m>>)
  PROVE  /\ OldMessages
         /\ \A v \in Tasks : \A k : k \in DOMAIN stream'[v] =>
              k \in DOMAIN stream[v] \/ (v = w /\ k = Len(stream[w]) + 1 /\ stream'[v][k] = m)
<1>1. /\ stream[w] \in Seq(Messages) /\ stream'[w] \in Seq(Messages) /\ Len(stream'[w]) = Len(stream[w]) + 1
      /\ Len(<<m>>) \in Nat
  BY DEF WireType, Appends
<1>2. stream'[w][Len(stream[w]) + 1] = m
  BY DEF Appends
<1>3. \A v \in Tasks : \A k \in DOMAIN stream[v] : k \in DOMAIN stream'[v] /\ stream'[v][k] = stream[v][k]
  BY <1>1, OldKept
<1>4. \A k \in DOMAIN stream'[w] : k \in DOMAIN stream[w] \/ k = Len(stream[w]) + 1
  BY <1>1
<1>5. \A v \in Tasks : v # w => stream'[v] = stream[v]
  BY DEF Appends
<1> QED
  BY <1>2, <1>3, <1>4, <1>5 DEF OldMessages

LEMMA NoneAppended ==
  ASSUME WireType, UNCHANGED acking, NEW w \in Tasks, NEW m, Appends(w, <<m>>), m.op # "mapped_db_create"
  PROVE  OldMessages /\ NoneNew
  BY OldAppended DEF NoneNew, AboutNext

LEMMA NonePushed ==
  ASSUME WireType, UNCHANGED acking, NEW w \in Tasks, NEW n \in Nodes, NEW g \in Guids, Appends(w, Pushes(n, g))
  PROVE  OldMessages /\ NoneNew
<1>1. PICK ms \in Seq(Messages) : ms = Pushes(n, g)
  BY PushFacts
<1>2. \A k \in 1 .. Len(ms) : ms[k].op = "push_template"
  <2>1. \A m : TemplateMsg(m, g).op = "push_template"
    BY DEF TemplateMsg
  <2>2. \A k \in 1 .. Len(Pushes(n, g)) : \E m \in Nodes \ {n} : Pushes(n, g)[k] = TemplateMsg(m, g)
    BY PushFacts
  <2> QED
    BY <1>1, <2>1, <2>2
<1>3. stream[w] \in Seq(Messages) /\ stream'[w] \in Seq(Messages) /\ Len(stream'[w]) = Len(stream[w]) + Len(ms)
  BY <1>1 DEF WireType, Appends
<1>4. \A v \in Tasks : \A k \in DOMAIN stream[v] : k \in DOMAIN stream'[v] /\ stream'[v][k] = stream[v][k]
  <2>1. Len(ms) \in Nat /\ Appends(w, ms)
    BY <1>1
  <2> QED
    BY <2>1, OldKept
<1>5. \A k \in DOMAIN stream'[w] : k \in DOMAIN stream[w] \/ stream'[w][k].op = "push_template"
  <2> SUFFICES ASSUME NEW k \in DOMAIN stream'[w], k \notin DOMAIN stream[w]
               PROVE  stream'[w][k].op = "push_template"
    OBVIOUS
  <2>1. k - Len(stream[w]) \in 1 .. Len(ms) /\ k = Len(stream[w]) + (k - Len(stream[w]))
    BY <1>3
  <2>2. stream'[w][Len(stream[w]) + (k - Len(stream[w]))] = ms[k - Len(stream[w])]
    BY <1>1, <2>1 DEF Appends
  <2> QED
    BY <1>2, <2>1, <2>2
<1>6. \A v \in Tasks : v # w => stream'[v] = stream[v]
  BY DEF Appends
<1> QED
  BY <1>4, <1>5, <1>6 DEF OldMessages, NoneNew, AboutNext

(* The label of a block that is about to be created is new.                *)
LEMMA FreshLabel ==
  ASSUME IInv, NEW w \in Tasks, CreateMappedDb(w)
  PROVE  /\ MapsDb(w, at[w]) /\ at[w] \in Nat /\ RangeOf(w, at[w]) # None
         /\ TheGuid(Call(w)) = LabelOf(w, at[w]) /\ LabelOf(w, at[w]).mapped
         /\ \A n \in Nodes : LabelOf(w, at[w]) \notin created[n]
         /\ \A v \in Tasks : \A k : AboutDb(v, k) => stream[v][k].guid # LabelOf(w, at[w])
<1>1. TypeOK /\ TaskType /\ EnvInv /\ LabelInv /\ LabelMsgInv
  BY DEF IInv, TypeOK
<1>2. /\ MapsDb(w, at[w]) /\ at[w] \in Nat /\ RangeOf(w, at[w]) # None /\ pc[w] = "call"
      /\ TheGuid(Call(w)).mapped
  BY <1>1, MappedFacts, ReadyFacts DEF CreateMappedDb, MapsDb, RangeOf, Call
<1>3. TheGuid(Call(w)) = LabelOf(w, at[w])
  BY <1>2, MapsLabel DEF Call
<1>4. ~Labels(w, at[w])
  BY <1>2 DEF Labels
<1>5. \A v \in Tasks : \A i \in Nat : Labels(v, i) => LabelOf(v, i) # LabelOf(w, at[w])
  BY <1>1, <1>2, <1>4, LabelOnce, LabelInvParts
<1>6. \A n \in Nodes : LabelOf(w, at[w]) \notin created[n]
  BY <1>1, <1>2, <1>3, <1>5, LabelInvParts
<1>7. \A v \in Tasks : \A k : AboutDb(v, k) => stream[v][k].guid # LabelOf(w, at[w])
  BY <1>1, <1>5, LabelMsgParts
<1> QED
  BY <1>2, <1>3, <1>6, <1>7

LEMMA MapsHereLabels ==
  ASSUME IInv, NEW w \in Tasks, CreateMappedDb(w), MapsHere(w)
  PROVE  LabelInv' /\ LabelMsgInv'
<1> DEFINE g == LabelOf(w, at[w])
           n == At[w]
<1>1. TypeOK /\ RepoType /\ EnvInv /\ LabelInv /\ LabelMsgInv /\ TypeOK' /\ Grows /\ n \in Nodes
  BY MappedDbTypes, NodeFacts DEF IInv, TypeOK
<1>2. /\ MapsDb(w, at[w]) /\ at[w] \in Nat /\ RangeOf(w, at[w]) # None
      /\ \A v \in Tasks : \A k : AboutDb(v, k) => stream[v][k].guid # g
      /\ TheGuid(Call(w)) = g
  BY FreshLabel
<1>3. Moved(w) /\ UNCHANGED <<stream, acking>>
  BY DEF MapsHere, CreateMappedDb
<1>4. created'[n] = created[n] \cup {g} /\ \A m \in Nodes : m # n => created'[m] = created[m]
  BY <1>1, <1>2 DEF MapsHere, RepoType
<1>5. LabelsFrom
  BY <1>2, <1>3 DEF LabelsFrom, Moved
<1>6. CreatedFrom
  <2>1. LabelsNext(w, at[w])
    BY <1>2, <1>3 DEF LabelsNext, Moved
  <2> HIDE DEF g
  <2>2. g = LabelOf(w, at[w])
    BY DEF g
  <2> QED
    BY <1>2, <1>4, <2>1, <2>2 DEF CreatedFrom
<1> HIDE DEF g
<1>7. OldMessages /\ NoneNew
  BY <1>3, OldSame
<1>8. NotYet
  <2> SUFFICES ASSUME NEW v \in Tasks, NEW k \in Nat, AboutDb(v, k), UnhandledNext(v, k)
               PROVE  stream[v][k].guid \notin created'[stream[v][k].to]
    BY DEF NotYet
  <2>1. stream[v][k].guid \notin created[stream[v][k].to]
    BY <1>1, <1>3, LabelMsgParts DEF Unhandled, UnhandledNext
  <2>2. stream[v][k].to \in Nodes
    BY <1>1, MessageFacts DEF AboutDb, TypeOK, WireType
  <2> QED
    BY <1>2, <1>4, <2>1, <2>2
<1> QED
  BY <1>1, <1>5, <1>6, <1>7, <1>8, LabelsKept, LabelMsgsKept

LEMMA SameFrom ==
  ASSUME CreatedSame
  PROVE  CreatedFrom
  BY DEF CreatedSame, CreatedFrom

LEMMA MapsElsewhereLabels ==
  ASSUME IInv, NEW w \in Tasks, CreateMappedDb(w), MapsElsewhere(w)
  PROVE  LabelInv' /\ LabelMsgInv'
<1> DEFINE j == at[w]
           g == LabelOf(w, at[w])
           m == MappedDbMsg(g, At[w])
           new == Len(stream[w]) + 1
<1>1. TypeOK /\ WireType /\ EnvInv /\ LabelInv /\ LabelMsgInv /\ MsgInv /\ TypeOK' /\ Grows
  BY MappedDbTypes DEF IInv, TypeOK
<1>2. /\ MapsDb(w, j) /\ j \in Nat /\ RangeOf(w, j) # None /\ TheGuid(Call(w)) = g
      /\ \A n \in Nodes : g \notin created[n]
      /\ \A v \in Tasks : \A k : AboutDb(v, k) => stream[v][k].guid # g
  BY FreshLabel
<1>3. Enters(w, "told") /\ Appends(w, <<m>>) /\ UNCHANGED <<created, at, acking>> /\ NodeId(g) \in Nodes
  BY <1>2, MappedFacts DEF MapsElsewhere, CreateMappedDb
<1>4. m.guid = g /\ m.to \in Nodes
  BY <1>3 DEF MappedDbMsg
<1> HIDE DEF m
<1>5. LabelsFrom
  BY <1>2, <1>3 DEF LabelsFrom, Enters
<1>6. CreatedSame
  BY <1>3 DEF CreatedSame
<1>7. LabelInv'
  BY <1>1, <1>5, <1>6, SameFrom, LabelsKept
<1>8. /\ OldMessages
      /\ \A v \in Tasks : \A k : k \in DOMAIN stream'[v] =>
           k \in DOMAIN stream[v] \/ (v = w /\ k = new /\ stream'[v][k] = m)
  BY <1>1, <1>3, OldAppended
<1>9. NotYet
  BY <1>1, <1>6, <1>8, NotYetSame
<1>10. \A v \in Tasks : \A k : AboutNext(v, k) =>
         (AboutDb(v, k) /\ stream'[v][k] = stream[v][k]) \/ (v = w /\ k = new /\ stream'[v][k] = m)
  BY <1>8 DEF OldMessages, AboutNext, AboutDb
<1>11. LabelsNext(w, j) /\ LabelNext(w, j) = g
  BY <1>1, <1>2, <1>3, RangeStays DEF LabelsNext, Enters
<1>12. ASSUME NEW v \in Tasks, NEW k, AboutNext(v, k)
       PROVE  \E i \in Nat : LabelsNext(v, i) /\ stream'[v][k].guid = LabelNext(v, i)
  <2>1. CASE AboutDb(v, k) /\ stream'[v][k] = stream[v][k]
    BY <1>1, <2>1, SaidStays
  <2>2. CASE v = w /\ k = new /\ stream'[v][k] = m
    BY <1>2, <1>4, <1>11, <2>2
  <2> QED
    BY <1>10, <1>12, <2>1, <2>2
<1>13. ASSUME NEW v \in Tasks, NEW k, NEW l, AboutNext(v, k), AboutNext(v, l), stream'[v][k].guid = stream'[v][l].guid
       PROVE  k = l
  <2> HIDE DEF new, g
  <2> QED
    BY <1>1, <1>2, <1>4, <1>10, <1>13, LabelMsgParts
<1>14. ASSUME NEW v \in Tasks, NEW k \in Nat, UnhandledNext(v, k), AboutNext(v, k)
       PROVE  stream'[v][k].guid \notin created'[stream'[v][k].to]
  <2> HIDE DEF new, g
  <2>1. CASE AboutDb(v, k) /\ stream'[v][k] = stream[v][k]
    BY <1>9, <1>14, <2>1 DEF NotYet
  <2>2. CASE v = w /\ k = new /\ stream'[v][k] = m
    BY <1>2, <1>3, <1>4, <2>2
  <2> QED
    BY <1>10, <1>14, <2>1, <2>2
<1> QED
  BY <1>7, <1>12, <1>13, <1>14, LabelMsgParts

(* What a handler does, and that its assertions hold.                      *)
LEMMA HandledFacts ==
  ASSUME IInv, NEW n \in Nodes, Handle(n)
  PROVE  LET w == handler[n].of
             m == Head(stream[w])
         IN  /\ w \in Tasks /\ w \notin acking /\ m = stream[w][1] /\ 1 \in DOMAIN stream[w] /\ m.to = n
             /\ created'[n] = created[n] \cup Creates(m) /\ \A h \in Nodes : h # n => created'[h] = created[h]
             /\ \A g \in Creates(m) : g.mapped => AboutDb(w, 1) /\ stream[w][1].guid = g
             /\ \A g \in Creates(m) : g.mapped \/ ItemOf(n, g)
             /\ ~Broken(n, m)
<1> DEFINE w == handler[n].of
           m == Head(stream[w])
<1>1. RepoType /\ LabelMsgInv
  BY DEF IInv, TypeOK
<1>2. /\ w \in Tasks /\ w \notin acking /\ m = stream[w][1] /\ 1 \in DOMAIN stream[w] /\ m.to = n
      /\ m \in Messages /\ MsgOK(m)
      /\ \A g \in Wanted(m) : g \in handler[n].fetch \/ NodeId(g) = n \/ Known(n, g)
  BY HandlerFacts DEF Handle, Handling
<1>3. created' = [created EXCEPT ![n] = @ \cup Creates(m)] /\ handler[n].fetch = {}
  BY DEF Handle
<1> HIDE DEF m
<1>4. created'[n] = created[n] \cup Creates(m) /\ \A h \in Nodes : h # n => created'[h] = created[h]
  BY <1>1, <1>3 DEF RepoType
<1>5. \A g \in Creates(m) : (m.op = "mapped_db_create" /\ m.guid = g /\ g.mapped) \/ ItemOf(n, g)
  <2>1. /\ m.op = "push_template" => Creates(m) = {}
        /\ m.op = "satisfy_preslot" => Creates(m) = {}
        /\ m.op = "edt_create" => Creates(m) = {m.edt, m.event}
        /\ m.op \in {"db_create", "mapped_db_create"} => Creates(m) = {m.guid}
        /\ m.op \in {"push_template", "satisfy_preslot", "edt_create", "db_create", "mapped_db_create"}
    BY <1>2, MessageFacts
  <2>2. /\ m.op = "edt_create" => ItemOf(n, m.edt) /\ ItemOf(n, m.event)
        /\ m.op = "db_create" => ItemOf(n, m.guid)
        /\ m.op = "mapped_db_create" => m.guid.mapped
    BY <1>2 DEF MsgOK
  <2> QED
    BY <2>1, <2>2
<1>6. \A g \in Creates(m) : g.mapped => AboutDb(w, 1) /\ stream[w][1].guid = g
  BY <1>2, <1>5 DEF AboutDb, ItemOf
<1>7. \A g \in Creates(m) : g.mapped => g \notin created[n]
  <2>1. Unhandled(w, 1)
    BY <1>2 DEF Unhandled
  <2>2. AboutDb(w, 1) => stream[w][1].guid \notin created[stream[w][1].to]
    BY <1>1, <1>2, <2>1, LabelMsgParts
  <2> QED
    BY <1>2, <1>6, <2>2
<1>8. \A g \in Creates(m) : g.mapped \/ (g.of = n /\ ~(g.id >= size[n]))
  <2>1. \A g : ItemOf(n, g) => g.of = n /\ ~(g.id >= size[n])
    BY <1>1 DEF ItemOf, RepoType, Guids
  <2> QED
    BY <1>5, <2>1
<1>9. ~Broken(n, m)
  BY <1>2, <1>3, <1>7, <1>8 DEF Broken
<1> QED
  BY <1>2, <1>4, <1>5, <1>6, <1>9 DEF m

LEMMA HandleLabels ==
  ASSUME IInv, NEW n \in Nodes, Handle(n)
  PROVE  LabelInv' /\ LabelMsgInv'
<1> DEFINE w == handler[n].of
           new == Creates(Head(stream[w]))
<1>1. TypeOK /\ WireType /\ TaskType /\ EnvInv /\ LabelInv /\ LabelMsgInv /\ TypeOK' /\ Grows
  BY HandleTypes DEF IInv, TypeOK
<1>2. /\ w \in Tasks
      /\ created'[n] = created[n] \cup new /\ \A h \in Nodes : h # n => created'[h] = created[h]
      /\ \A g \in new : g.mapped => AboutDb(w, 1) /\ stream[w][1].guid = g
      /\ \A g \in new : g.mapped \/ ItemOf(n, g)
  BY HandledFacts
<1> HIDE DEF new
<1>3. UNCHANGED <<at, pc, stream>> /\ acking' = acking \cup {w}
  BY DEF Handle, task
<1>4. LabelsFrom
  BY <1>3 DEF LabelsFrom
<1>5. CreatedFrom
  <2> SUFFICES ASSUME NEW h \in Nodes, NEW g \in created'[h], g.mapped, g \notin created[h]
               PROVE  \E v \in Tasks : \E i \in Nat : LabelsNext(v, i) /\ RangeOf(v, i) # None /\ g = LabelOf(v, i)
    BY DEF CreatedFrom
  <2>1. AboutDb(w, 1) /\ stream[w][1].guid = g
    BY <1>2
  <2>2. PICK i \in Nat : Labels(w, i) /\ RangeOf(w, i) # None /\ g = LabelOf(w, i)
    BY <1>1, <1>2, <2>1, SaidFacts
  <2> QED
    BY <1>1, <1>2, <2>2, LabelsGrow
<1>6. OldMessages /\ NoneNew
  BY <1>3, OldSame
<1>7. NotYet
  <2> SUFFICES ASSUME NEW v \in Tasks, NEW k \in Nat, AboutDb(v, k), UnhandledNext(v, k),
                      stream[v][k].guid \in created'[stream[v][k].to]
               PROVE  FALSE
    BY DEF NotYet
  <2> DEFINE g == stream[v][k].guid
  <2>1. stream[v][k].to \in Nodes /\ Unhandled(v, k)
    BY <1>1, <1>3, MessageFacts DEF AboutDb, TypeOK, WireType, Unhandled, UnhandledNext
  <2>2. g \notin created[stream[v][k].to]
    BY <1>1, <2>1, LabelMsgParts
  <2>3. g \in new
    BY <1>2, <2>1, <2>2
  <2>4. g.mapped
    BY DEF AboutDb, IInv, MsgInv, MsgOK
  <2>5. AboutDb(w, 1) /\ stream[w][1].guid = g
    BY <1>2, <2>3, <2>4
  <2>6. PICK i \in Nat : MapsDb(v, i) /\ RangeOf(v, i) # None /\ g = LabelOf(v, i)
    BY <1>1, SaidFacts
  <2>7. PICK j \in Nat : MapsDb(w, j) /\ RangeOf(w, j) # None /\ g = LabelOf(w, j)
    BY <1>1, <1>2, <2>5, SaidFacts
  <2>8. v = w
    BY <1>1, <1>2, <2>6, <2>7, LabelOnce
  <2>9. k = 1
    BY <1>1, <1>2, <2>5, <2>8, LabelMsgParts
  <2> QED
    BY <1>3, <2>8, <2>9 DEF UnhandledNext
<1> QED
  BY <1>1, <1>4, <1>5, <1>6, <1>7, LabelsKept, LabelMsgsKept

LEMMA ConfirmLabels ==
  ASSUME IInv, NEW w \in Tasks, Confirm(w)
  PROVE  LabelInv' /\ LabelMsgInv'
<1>1. TypeOK /\ EnvInv /\ LabelInv /\ LabelMsgInv /\ TypeOK' /\ Grows
  BY ConfirmTypes DEF IInv, TypeOK
<1>2. /\ stream[w] # <<>> /\ stream'[w] = Tail(stream[w]) /\ \A v \in Tasks : v # w => stream'[v] = stream[v]
      /\ w \in acking /\ acking' = acking \ {w} /\ stream[w] \in Seq(Messages)
      /\ UNCHANGED <<at, pc, created>>
  BY ConfirmTypes DEF Confirm, IInv, TypeOK, WireType, repo, task
<1>3. LabelsFrom /\ CreatedSame
  BY <1>2 DEF LabelsFrom, CreatedSame
<1>4. LabelInv'
  BY <1>1, <1>3, SameFrom, LabelsKept
<1> DEFINE Was(v, k) == IF v = w THEN k + 1 ELSE k
<1>5. \A k \in DOMAIN stream'[w] : k \in Nat /\ k > 0 /\ k + 1 \in DOMAIN stream[w] /\ stream'[w][k] = stream[w][k + 1]
  BY <1>2
<1>6. \A v \in Tasks : \A k \in DOMAIN stream'[v] :
        Was(v, k) \in DOMAIN stream[v] /\ stream'[v][k] = stream[v][Was(v, k)]
  BY <1>2, <1>5
<1>7. \A v \in Tasks : \A k, l \in DOMAIN stream'[v] : Was(v, k) = Was(v, l) => k = l
  BY <1>5
<1>8. \A v \in Tasks : \A k \in Nat : UnhandledNext(v, k) => Unhandled(v, Was(v, k)) /\ Was(v, k) \in Nat
  <2> SUFFICES ASSUME NEW v \in Tasks, NEW k \in Nat, UnhandledNext(v, k)
               PROVE  Unhandled(v, Was(v, k)) /\ Was(v, k) \in Nat
    OBVIOUS
  <2>1. CASE v = w
    <3>1. k + 1 \in DOMAIN stream[w] /\ k + 1 # 1 /\ k + 1 \in Nat /\ Was(v, k) = k + 1
      BY <1>5, <2>1 DEF UnhandledNext
    <3> QED
      BY <2>1, <3>1 DEF Unhandled
  <2>2. CASE v # w
    <3>1. Was(v, k) = k
      BY <2>2
    <3> QED
      BY <1>2, <2>2, <3>1 DEF Unhandled, UnhandledNext
  <2> QED
    BY <2>1, <2>2
<1> HIDE DEF Was
<1>9. \A v \in Tasks : \A k : AboutNext(v, k) => AboutDb(v, Was(v, k)) /\ stream'[v][k] = stream[v][Was(v, k)]
  BY <1>6 DEF AboutDb, AboutNext
<1>10. \A v \in Tasks : \A k : AboutNext(v, k) =>
         \E i \in Nat : LabelsNext(v, i) /\ stream'[v][k].guid = LabelNext(v, i)
  BY <1>1, <1>9, SaidStays
<1>11. \A v \in Tasks : \A k, l :
         AboutNext(v, k) /\ AboutNext(v, l) /\ stream'[v][k].guid = stream'[v][l].guid => k = l
  BY <1>1, <1>7, <1>9, LabelMsgParts DEF AboutNext
<1>12. \A v \in Tasks : \A k \in Nat : UnhandledNext(v, k) /\ AboutNext(v, k) =>
         stream'[v][k].guid \notin created'[stream'[v][k].to]
  BY <1>1, <1>2, <1>8, <1>9, LabelMsgParts
<1> QED
  BY <1>4, <1>10, <1>11, <1>12, LabelMsgParts

(* The other steps.                                                        *)
LEMMA LabelsStay ==
  ASSUME IInv, [Next]_vars
  PROVE  LabelInv' /\ LabelMsgInv'
<1>1. /\ TypeOK /\ RepoType /\ TaskType /\ WireType /\ EnvInv /\ LabelInv /\ LabelMsgInv /\ MsgInv /\ CallInv
      /\ TypeOK' /\ Grows
  BY TypesStay DEF IInv, TypeOK
<1>2. ASSUME LabelsFrom, CreatedSame, OldMessages, NoneNew
      PROVE  LabelInv' /\ LabelMsgInv'
  BY <1>1, <1>2, SameFrom, LabelsKept, NotYetSame, LabelMsgsKept
<1>3. ASSUME NEW w \in Tasks, Moved(w), Call(w).op = "mapped_db" => RangeOf(w, at[w]) # None
      PROVE  LabelsFrom
  BY <1>3 DEF LabelsFrom, Moved
<1>4. ASSUME UNCHANGED at, \A w \in Tasks : pc'[w] = "told" => pc[w] = "told"
      PROVE  LabelsFrom
  BY <1>4 DEF LabelsFrom
<1>5. UNCHANGED created => CreatedSame
  BY DEF CreatedSame
<1>6. CASE UNCHANGED vars
  <2>1. UNCHANGED <<created, stream, acking, at, pc>>
    BY <1>6 DEF vars, repo, task, wire
  <2> QED
    BY <1>2, <1>4, <1>5, <2>1, OldSame
<1>7. ASSUME NEW w \in Tasks, CreateLocalDb(w) \/ CreateTemplate(w)
      PROVE  LabelInv' /\ LabelMsgInv'
  <2> DEFINE g == NewLocal(At[w])
  <2>1. LocalAdded(At[w]) /\ Moved(w) /\ Call(w).op # "mapped_db" /\ At[w] \in Nodes /\ UNCHANGED acking
    BY <1>7, LocalDbTypes, TemplateTypes, NodeFacts DEF CreateLocalDb, CreateTemplate, wire
  <2>2. ~g.mapped /\ g \in Guids
    BY <2>1, GuidFields DEF NewLocal, LocalAdded
  <2>3. CreatedSame
    BY <2>1, <2>2 DEF CreatedSame, LocalAdded
  <2>4. OldMessages /\ NoneNew
    <3>1. CASE CreateLocalDb(w)
      BY <3>1, OldSame DEF CreateLocalDb, wire
    <3>2. CASE CreateTemplate(w)
      BY <1>1, <2>1, <2>2, <3>2, TemplateTypes, NonePushed
    <3> QED
      BY <1>7, <3>1, <3>2
  <2> QED
    BY <1>2, <1>3, <2>1, <2>3, <2>4
<1>8. ASSUME NEW w \in Tasks, CreateRange(w) \/ CacheMaster(w)
      PROVE  LabelInv' /\ LabelMsgInv'
  <2>1. Moved(w) /\ UNCHANGED <<created, stream, acking>>
    BY <1>8, CreateRangeTypes, CacheMasterTypes DEF CreateRange, CacheMaster, repo, wire
  <2>2. Call(w).op = "mapped_db" => RangeOf(w, at[w]) # None
    BY <1>8, MappedFacts DEF CreateRange, RangeOf, Call
  <2> QED
    BY <1>2, <1>3, <1>5, <2>1, <2>2, OldSame
<1>9. ASSUME NEW w \in Tasks, CreateEdt(w) \/ CreateRemoteDb(w) \/ Satisfy(w)
      PROVE  LabelInv' /\ LabelMsgInv'
  <2>1. Moved(w) /\ Call(w).op # "mapped_db" /\ UNCHANGED <<created, acking>>
    BY <1>9, EdtTypes, RemoteDbTypes, SatisfyTypes DEF CreateEdt, CreateRemoteDb, Satisfy, repo
  <2>2. \E m : Appends(w, <<m>>) /\ m.op # "mapped_db_create"
    <3>1. \A n, t, g : EdtMsg(n, t, g).op = "edt_create"
      BY DEF EdtMsg
    <3>2. \A n, g : DbMsg(n, g).op = "db_create" /\ SatisfyMsg(n, g).op = "satisfy_preslot"
      BY DEF DbMsg, SatisfyMsg
    <3>3. CASE CreateEdt(w)
      BY <3>1, <3>3, EdtTypes
    <3>4. CASE CreateRemoteDb(w)
      BY <3>2, <3>4, RemoteDbTypes
    <3>5. CASE Satisfy(w)
      BY <3>2, <3>5, SatisfyTypes
    <3> QED
      BY <1>9, <3>3, <3>4, <3>5
  <2>3. PICK m : Appends(w, <<m>>) /\ m.op # "mapped_db_create"
    BY <2>2
  <2>4. OldMessages /\ NoneNew
    BY <1>1, <2>1, <2>3, NoneAppended
  <2> QED
    BY <1>2, <1>3, <1>5, <2>1, <2>4
<1>10. ASSUME NEW w \in Tasks,
              \/ AskRange(w) \/ ReserveLocal(w) \/ TakeGuid(w) \/ AskGuids(w) \/ RefillPool(w) \/ Receive(w)
       PROVE  LabelInv' /\ LabelMsgInv'
  <2>1. UNCHANGED <<created, stream, acking, at>>
    BY <1>10 DEF AskRange, ReserveLocal, TakeGuid, AskGuids, RefillPool, Receive, repo, wire, task
  <2>2. \A v \in Tasks : pc'[v] = "told" => pc[v] = "told"
    BY <1>1, <1>10 DEF AskRange, ReserveLocal, TakeGuid, AskGuids, RefillPool, Receive, task, TaskType
  <2> QED
    BY <1>2, <1>4, <1>5, <2>1, <2>2, OldSame
<1>11. ASSUME NEW n \in Nodes, NEW h \in Nodes,
              Pull(n) \/ Pulled(n) \/ ServeGuids(n, h) \/ ServeMapId(n, h) \/ ServePull(n, h)
       PROVE  LabelInv' /\ LabelMsgInv'
  <2>1. UNCHANGED <<created, stream, acking, at, pc>>
    BY <1>11 DEF Pull, Pulled, ServeGuids, ServeMapId, ServePull, repo, wire, task
  <2> QED
    BY <1>2, <1>4, <1>5, <2>1, OldSame
<1>12. ASSUME NEW w \in Tasks, CreateMappedDb(w)
       PROVE  LabelInv' /\ LabelMsgInv'
  BY <1>12, MappedDbTypes, MapsHereLabels, MapsElsewhereLabels
<1> QED
  BY <1>6, <1>7, <1>8, <1>9, <1>10, <1>11, <1>12, HandleLabels, ConfirmLabels DEF Next, TaskStep, Done

-----------------------------------------------------------------------------
(***************************************************************************)
(* Messages, handlers and assertions.                                      *)
(***************************************************************************)
(* The template of a task that is created.                                 *)
LEMMA TemplateFacts ==
  ASSUME IInv, NEW w \in Tasks, CreateEdt(w)
  PROVE  LET g == env[Call(w).template]
         IN  Known(At[w], g) /\ \E h \in Nodes : ItemOf(h, g)
<1>1. TaskType /\ WireType /\ EnvInv /\ TemplateInv
  BY DEF IInv, TypeOK
<1>2. Ready(w) /\ ~Ended(w) /\ at[w] \in DOMAIN Script[w] /\ Call(w).op = "edt" /\ At[w] \in Nodes /\ at[w] \in Nat
  BY <1>1, ReadyFacts DEF CreateEdt
<1>3. PICK v \in After[w] \cup {w} : \E i \in DOMAIN Script[v] :
        /\ Script[v][i].op = "template" /\ Script[v][i].name = Call(w).template
        /\ v = w => i < at[w]
  BY <1>2, TemplateBefore DEF Call
<1>4. PICK i \in DOMAIN Script[v] : /\ Script[v][i].op = "template" /\ Script[v][i].name = Call(w).template
                                    /\ v = w => i < at[w]
  BY <1>3
<1>5. v \in Tasks /\ At[v] \in Nodes
  BY <1>3, NodeFacts
<1>6. i < at[v] /\ (v # w => stream[v] = <<>>)
  <2>1. CASE v = w
    BY <1>4, <2>1
  <2>2. CASE v # w
    <3>1. Settled(v)
      BY <1>2, <1>3, <2>2 DEF Ready
    <3>2. Script[v] \in Seq(Calls) /\ at[v] \in Nat
      BY <1>1, <1>5, ObjectsAssumption DEF TaskType
    <3> QED
      BY <3>1, <3>2 DEF Settled, Ended
  <2> QED
    BY <2>1, <2>2
<1>7. TemplateAt(v, env[Call(w).template])
  BY <1>1, <1>4, <1>5, <1>6 DEF TemplateInv
<1>8. PICK g : g = env[Call(w).template]
  OBVIOUS
<1>9. TemplateAt(v, g) /\ ItemOf(At[v], g)
  BY <1>7, <1>8 DEF TemplateAt
<1>10. Known(At[w], g)
  <2>1. CASE v = w
    BY <1>5, <1>9, <2>1, HomeOfItem DEF TemplateAt, Known
  <2>2. CASE v # w
    BY <1>2, <1>6, <1>9, <2>2 DEF TemplateAt, Unhandled
  <2> QED
    BY <2>1, <2>2
<1> QED
  BY <1>5, <1>8, <1>9, <1>10

MsgOKNext(m) ==
  /\ \A g \in Wanted(m) : NodeId(g) \in Nodes
  /\ m.op = "edt_create" => ItemNext(m.to, m.edt) /\ ItemNext(m.to, m.event)
  /\ m.op = "db_create" => ItemNext(m.to, m.guid)
  /\ m.op = "mapped_db_create" => m.guid.mapped

LEMMA MsgStays ==
  ASSUME TypeOK, TypeOK', Grows, NEW m \in Messages, MsgOK(m)
  PROVE  MsgOKNext(m)
<1>1. m.to \in Nodes
  BY MessageFacts
<1>2. \A g : ItemOf(m.to, g) => ItemNext(m.to, g)
  BY <1>1, ItemsStay DEF TypeOK, Grows
<1> QED
  BY <1>2 DEF MsgOK, MsgOKNext

LEMMA MsgsNext ==
  ASSUME TypeOK, TypeOK', Grows, MsgInv,
         \A w \in Tasks : \A k \in DOMAIN stream'[w] :
           (\E l \in DOMAIN stream[w] : stream'[w][k] = stream[w][l]) \/ MsgOKNext(stream'[w][k])
  PROVE  MsgInv'
<1>1. \A w \in Tasks : \A l \in DOMAIN stream[w] : MsgOKNext(stream[w][l])
  <2> SUFFICES ASSUME NEW w \in Tasks, NEW l \in DOMAIN stream[w]
               PROVE  MsgOKNext(stream[w][l])
    OBVIOUS
  <2>1. stream[w] \in Seq(Messages)
    BY DEF TypeOK, WireType
  <2>2. stream[w][l] \in Messages
    BY <2>1
  <2> QED
    BY <2>2, MsgStays DEF MsgInv
<1>2. \A w \in Tasks : \A k \in DOMAIN stream'[w] : MsgOKNext(stream'[w][k])
  BY <1>1
<1> QED
  BY <1>2 DEF MsgInv, MsgOK, MsgOKNext, ItemOf, ItemNext, Wanted, NodeId

LEMMA MsgsAppended ==
  ASSUME TypeOK, TypeOK', Grows, MsgInv, UNCHANGED acking, NEW w \in Tasks, NEW m, Appends(w, <<m>>), MsgOKNext(m)
  PROVE  MsgInv'
<1>1. /\ \A v \in Tasks : \A k \in DOMAIN stream[v] : stream'[v][k] = stream[v][k]
      /\ \A v \in Tasks : \A k : k \in DOMAIN stream'[v] =>
           k \in DOMAIN stream[v] \/ (v = w /\ k = Len(stream[w]) + 1 /\ stream'[v][k] = m)
  BY OldAppended DEF OldMessages, TypeOK
<1>2. \A v \in Tasks : \A k \in DOMAIN stream'[v] :
        (\E l \in DOMAIN stream[v] : stream'[v][k] = stream[v][l]) \/ MsgOKNext(stream'[v][k])
  BY <1>1
<1> QED
  BY <1>2, MsgsNext

LEMMA MsgsSame ==
  ASSUME TypeOK, TypeOK', Grows, MsgInv, UNCHANGED stream
  PROVE  MsgInv'
<1>1. \A w \in Tasks : \A k \in DOMAIN stream'[w] :
        (\E l \in DOMAIN stream[w] : stream'[w][k] = stream[w][l]) \/ MsgOKNext(stream'[w][k])
  OBVIOUS
<1> QED
  BY <1>1, MsgsNext

(* The messages of the calls that create a task or a block.                *)
LEMMA PostedOK ==
  ASSUME IInv, NEW w \in Tasks,
         CreateEdt(w) \/ CreateRemoteDb(w) \/ Satisfy(w) \/ (CreateMappedDb(w) /\ MapsElsewhere(w))
  PROVE  UNCHANGED acking /\ \E m : Appends(w, <<m>>) /\ MsgOKNext(m)
<1>1. TypeOK /\ RepoType /\ TaskType /\ GotInv /\ TypeOK' /\ Grows
  BY EdtTypes, RemoteDbTypes, SatisfyTypes, MappedDbTypes DEF IInv, TypeOK
<1>2. UNCHANGED acking
  BY DEF CreateEdt, CreateRemoteDb, Satisfy, CreateMappedDb
<1>3. CASE CreateEdt(w)
  <2>1. PICK n \in Nodes : n = Call(w).to
    BY <1>1, <1>3, ReadyFacts DEF CreateEdt, CallOK, Fetching
  <2>2. PICK t : t = env[Call(w).template] /\ NodeId(t) \in Nodes
    BY <1>3, TemplateFacts, HomeOfItem
  <2>3. got[w] \in Seq(Guids) /\ Len(got[w]) = 2
    BY <1>1, <1>3 DEF CreateEdt, TaskType
  <2>4. 1 \in DOMAIN got[w] /\ 2 \in DOMAIN got[w]
    BY <2>3
  <2>5. ItemOf(n, got[w][1]) /\ ItemOf(n, got[w][2])
    BY <1>1, <2>1, <2>4 DEF GotInv
  <2>6. ItemNext(n, got[w][1]) /\ ItemNext(n, got[w][2])
    BY <1>1, <2>5, ItemsStay DEF TypeOK, Grows
  <2>7. PICK g : g = got[w]
    OBVIOUS
  <2>8. MsgOKNext(EdtMsg(n, t, g))
    BY <2>2, <2>6, <2>7 DEF MsgOKNext, EdtMsg, Wanted
  <2>9. Appends(w, <<EdtMsg(n, t, g)>>)
    BY <1>3, <2>1, <2>2, <2>7, EdtTypes
  <2> QED
    BY <1>2, <2>8, <2>9
<1>4. CASE CreateRemoteDb(w)
  <2>1. PICK n \in Nodes : n = Call(w).to
    BY <1>1, <1>4, ReadyFacts DEF CreateRemoteDb, CallOK, Fetching
  <2>2. got[w] \in Seq(Guids) /\ Len(got[w]) = 1
    BY <1>1, <1>4 DEF CreateRemoteDb, TaskType
  <2>3. 1 \in DOMAIN got[w]
    BY <2>2
  <2>4. PICK g : g = got[w][1]
    OBVIOUS
  <2>5. ItemNext(n, g)
    BY <1>1, <2>1, <2>3, <2>4, ItemsStay DEF TypeOK, Grows, GotInv
  <2>6. MsgOKNext(DbMsg(n, g))
    BY <2>5 DEF MsgOKNext, DbMsg, Wanted
  <2>7. Appends(w, <<DbMsg(n, g)>>)
    BY <1>4, <2>1, <2>4, RemoteDbTypes
  <2> QED
    BY <1>2, <2>6, <2>7
<1>5. CASE Satisfy(w)
  <2>1. PICK n : n = Call(w).to
    OBVIOUS
  <2>2. PICK g : g = TheGuid(Call(w))
    OBVIOUS
  <2>3. NodeId(g) \in Nodes /\ Appends(w, <<SatisfyMsg(n, g)>>)
    BY <1>5, <2>1, <2>2, SatisfyTypes
  <2>4. MsgOKNext(SatisfyMsg(n, g))
    BY <2>3 DEF MsgOKNext, SatisfyMsg, Wanted
  <2> QED
    BY <1>2, <2>3, <2>4
<1>6. CASE CreateMappedDb(w) /\ MapsElsewhere(w)
  <2>1. PICK g : g = TheGuid(Call(w))
    OBVIOUS
  <2>2. g.mapped /\ Appends(w, <<MappedDbMsg(g, At[w])>>)
    BY <1>6, <2>1, MappedFacts DEF MapsElsewhere
  <2>3. MsgOKNext(MappedDbMsg(g, At[w]))
    BY <2>2 DEF MsgOKNext, MappedDbMsg, Wanted
  <2> QED
    BY <1>2, <2>2, <2>3
<1> QED
  BY <1>3, <1>4, <1>5, <1>6

LEMMA PushedOK ==
  ASSUME IInv, NEW w \in Tasks, CreateTemplate(w)
  PROVE  MsgInv' /\ OldMessages
<1>1. TypeOK /\ WireType /\ MsgInv /\ TypeOK' /\ Grows /\ At[w] \in Nodes
  BY TemplateTypes, NodeFacts DEF IInv, TypeOK
<1>2. PICK g \in Guids : g = NewLocal(At[w])
  BY TemplateTypes DEF LocalAdded
<1>3. Appends(w, Pushes(At[w], g)) /\ UNCHANGED acking
  BY <1>2, TemplateTypes DEF CreateTemplate
<1>4. PICK ms \in Seq(Messages) : ms = Pushes(At[w], g)
  BY <1>1, PushFacts
<1>5. \A k \in 1 .. Len(ms) : MsgOKNext(ms[k])
  <2>1. \A m : MsgOKNext(TemplateMsg(m, g))
    BY DEF MsgOKNext, TemplateMsg, Wanted
  <2>2. \A k \in 1 .. Len(Pushes(At[w], g)) : \E m \in Nodes \ {At[w]} : Pushes(At[w], g)[k] = TemplateMsg(m, g)
    BY <1>1, PushFacts
  <2> QED
    BY <1>4, <2>1, <2>2
<1>6. OldMessages
  BY <1>1, <1>3, NonePushed
<1>7. \A k \in DOMAIN stream'[w] : k \in DOMAIN stream[w] \/ MsgOKNext(stream'[w][k])
  <2> SUFFICES ASSUME NEW k \in DOMAIN stream'[w], k \notin DOMAIN stream[w]
               PROVE  MsgOKNext(stream'[w][k])
    OBVIOUS
  <2>1. stream[w] \in Seq(Messages) /\ stream'[w] \in Seq(Messages) /\ Len(stream'[w]) = Len(stream[w]) + Len(ms)
    BY <1>1, <1>3, <1>4 DEF WireType, Appends
  <2>2. k - Len(stream[w]) \in 1 .. Len(ms) /\ k = Len(stream[w]) + (k - Len(stream[w]))
    BY <2>1
  <2>3. stream'[w][Len(stream[w]) + (k - Len(stream[w]))] = ms[k - Len(stream[w])]
    BY <1>3, <1>4, <2>2 DEF Appends
  <2> QED
    BY <1>5, <2>2, <2>3
<1>8. \A v \in Tasks : v # w => stream'[v] = stream[v]
  BY <1>3 DEF Appends
<1>9. \A v \in Tasks : \A k \in DOMAIN stream'[v] :
        (\E l \in DOMAIN stream[v] : stream'[v][k] = stream[v][l]) \/ MsgOKNext(stream'[v][k])
  BY <1>6, <1>7, <1>8 DEF OldMessages
<1> QED
  BY <1>1, <1>6, <1>9, MsgsNext

LEMMA MsgsConfirmed ==
  ASSUME IInv, NEW w \in Tasks, Confirm(w)
  PROVE  MsgInv'
<1>1. TypeOK /\ MsgInv /\ TypeOK' /\ Grows
  BY ConfirmTypes DEF IInv, TypeOK
<1>2. /\ stream[w] # <<>> /\ stream'[w] = Tail(stream[w]) /\ stream[w] \in Seq(Messages)
      /\ \A v \in Tasks : v # w => stream'[v] = stream[v]
  BY ConfirmTypes DEF IInv, TypeOK, WireType
<1>3. \A k \in DOMAIN stream'[w] : k + 1 \in DOMAIN stream[w] /\ stream'[w][k] = stream[w][k + 1]
  BY <1>2
<1>4. \A v \in Tasks : \A k \in DOMAIN stream'[v] :
        (\E l \in DOMAIN stream[v] : stream'[v][k] = stream[v][l]) \/ MsgOKNext(stream'[v][k])
  BY <1>2, <1>3
<1> QED
  BY <1>1, <1>4, MsgsNext

LEMMA StreamCases ==
  ASSUME IInv, [Next]_vars
  PROVE  \/ UNCHANGED stream
         \/ \E w \in Tasks : \/ CreateTemplate(w) \/ Confirm(w)
                             \/ CreateEdt(w) \/ CreateRemoteDb(w) \/ Satisfy(w)
                             \/ (CreateMappedDb(w) /\ MapsElsewhere(w))
<1>1. CASE UNCHANGED vars
  BY <1>1 DEF vars, wire
<1>2. ASSUME NEW w \in Tasks,
             \/ CreateLocalDb(w) \/ AskRange(w) \/ CreateRange(w) \/ ReserveLocal(w) \/ TakeGuid(w) \/ AskGuids(w)
             \/ RefillPool(w) \/ CacheMaster(w) \/ Receive(w)
      PROVE  UNCHANGED stream
  BY <1>2 DEF CreateLocalDb, AskRange, CreateRange, ReserveLocal, TakeGuid, AskGuids, RefillPool, CacheMaster,
              Receive, wire
<1>3. ASSUME NEW w \in Tasks, CreateMappedDb(w)
      PROVE  UNCHANGED stream \/ MapsElsewhere(w)
  BY <1>3, MappedDbTypes DEF MapsHere
<1>4. ASSUME NEW n \in Nodes, NEW h \in Nodes,
             Pull(n) \/ Pulled(n) \/ Handle(n) \/ ServeGuids(n, h) \/ ServeMapId(n, h) \/ ServePull(n, h)
      PROVE  UNCHANGED stream
  BY <1>4 DEF Pull, Pulled, Handle, ServeGuids, ServeMapId, ServePull, wire
<1> QED
  BY <1>1, <1>2, <1>3, <1>4 DEF Next, TaskStep, Done

LEMMA MsgsStay ==
  ASSUME IInv, [Next]_vars
  PROVE  MsgInv'
<1>1. TypeOK /\ MsgInv /\ TypeOK' /\ Grows
  BY TypesStay DEF IInv
<1>2. CASE UNCHANGED stream
  BY <1>1, <1>2, MsgsSame
<1>3. ASSUME NEW w \in Tasks,
             CreateEdt(w) \/ CreateRemoteDb(w) \/ Satisfy(w) \/ (CreateMappedDb(w) /\ MapsElsewhere(w))
      PROVE  MsgInv'
  <2>1. UNCHANGED acking /\ \E m : Appends(w, <<m>>) /\ MsgOKNext(m)
    BY <1>3, PostedOK
  <2>2. PICK m : Appends(w, <<m>>) /\ MsgOKNext(m)
    BY <2>1
  <2> QED
    BY <1>1, <2>1, <2>2, MsgsAppended
<1> QED
  BY <1>2, <1>3, StreamCases, PushedOK, MsgsConfirmed

(* The handlers.                                                           *)
HandlingNext(n, w) ==
  /\ stream'[w] # <<>> /\ w \notin acking' /\ Head(stream'[w]).to = n
  /\ handler'[n].fetch \subseteq {g \in Wanted(Head(stream'[w])) : NodeId(g) # n}
  /\ \A g \in Wanted(Head(stream'[w])) : g \in handler'[n].fetch \/ NodeId(g) = n \/ KnownNext(n, g)

LEMMA HandlersNext ==
  ASSUME \A n \in Nodes : handler'[n] # None => HandlingNext(n, handler'[n].of),
         \A w \in acking' : stream'[w] # <<>>
  PROVE  HandlerInv'
  BY DEF HandlerInv, Handling, HandlingNext, KnownNext, InCacheNext, Known, InCache, NodeId, Wanted

LEMMA HandlingStays ==
  ASSUME Grows, NEW n \in Nodes, NEW w \in Tasks, Handling(n, w), stream'[w] # <<>>,
         Head(stream'[w]) = Head(stream[w]), w \notin acking', handler'[n].fetch = handler[n].fetch
  PROVE  HandlingNext(n, w)
  BY KnownStays DEF Handling, HandlingNext

(* The first message of each stream stays.                                 *)
HeadsStay == \A w \in Tasks : stream[w] # <<>> => stream'[w] # <<>> /\ Head(stream'[w]) = Head(stream[w])

LEMMA OldHeads ==
  ASSUME WireType, WireType', OldMessages
  PROVE  HeadsStay
<1> SUFFICES ASSUME NEW w \in Tasks, stream[w] # <<>>
             PROVE  stream'[w] # <<>> /\ Head(stream'[w]) = Head(stream[w])
  BY DEF HeadsStay
<1>1. stream[w] \in Seq(Messages) /\ stream'[w] \in Seq(Messages)
  BY DEF WireType
<1>2. 1 \in DOMAIN stream[w] /\ Head(stream[w]) = stream[w][1]
  BY <1>1
<1>3. 1 \in DOMAIN stream'[w] /\ stream'[w][1] = stream[w][1]
  BY <1>2 DEF OldMessages
<1> QED
  BY <1>1, <1>2, <1>3

LEMMA HandlersKept ==
  ASSUME WireType, WireType', HandlerInv, Grows, UNCHANGED <<handler, acking>>, HeadsStay
  PROVE  HandlerInv'
<1>1. ASSUME NEW n \in Nodes, handler'[n] # None
      PROVE  HandlingNext(n, handler'[n].of)
  <2> DEFINE w == handler[n].of
  <2>1. w \in Tasks
    BY <1>1 DEF WireType, Handlers
  <2>2. Handling(n, w)
    BY <1>1 DEF HandlerInv
  <2>3. stream'[w] # <<>> /\ Head(stream'[w]) = Head(stream[w]) /\ w \notin acking'
    BY <2>1, <2>2 DEF Handling, HeadsStay
  <2> QED
    BY <2>1, <2>2, <2>3, HandlingStays
<1>2. \A w \in acking' : stream'[w] # <<>>
  BY DEF HandlerInv, WireType, HeadsStay
<1> QED
  BY <1>1, <1>2, HandlersNext

LEMMA ReceiveHandler ==
  ASSUME IInv, NEW w \in Tasks, Receive(w)
  PROVE  HandlerInv'
<1> DEFINE m == Head(stream[w])
           n == m.to
           missing == {g \in Wanted(m) : NodeId(g) # n /\ ~Known(n, g)}
<1>1. WireType /\ HandlerInv /\ Grows
  BY ReceiveTypes DEF IInv, TypeOK
<1>2. m \in Messages /\ n \in Nodes /\ stream[w] # <<>> /\ w \notin acking
  BY <1>1, FirstMessage, MessageFacts DEF Receive
<1>3. handler' = [handler EXCEPT ![n] = [of |-> w, fetch |-> missing]] /\ UNCHANGED <<stream, acking>>
  BY DEF Receive
<1>4. /\ handler'[n].of = w /\ handler'[n].fetch = missing
      /\ \A h \in Nodes : h # n => handler'[h] = handler[h]
  BY <1>1, <1>2, <1>3 DEF WireType
<1>5. \A g \in Wanted(m) : Known(n, g) => KnownNext(n, g)
  BY <1>1, <1>2, KnownStays
<1>6. HandlingNext(n, w)
  BY <1>2, <1>3, <1>4, <1>5 DEF HandlingNext
<1>7. ASSUME NEW h \in Nodes, handler'[h] # None
      PROVE  HandlingNext(h, handler'[h].of)
  <2>1. CASE h = n
    BY <1>4, <1>6, <2>1
  <2>2. CASE h # n
    <3>1. handler'[h] = handler[h] /\ handler[h].of \in Tasks /\ Handling(h, handler[h].of)
      BY <1>1, <1>4, <1>7, <2>2 DEF WireType, Handlers, HandlerInv
    <3>2. stream[handler[h].of] # <<>> /\ handler[h].of \notin acking
      BY <3>1 DEF Handling
    <3> QED
      BY <1>1, <1>3, <3>1, <3>2, HandlingStays
  <2> QED
    BY <2>1, <2>2
<1>8. \A v \in acking' : stream'[v] # <<>>
  BY <1>1, <1>3 DEF HandlerInv
<1> QED
  BY <1>7, <1>8, HandlersNext

LEMMA PulledHandler ==
  ASSUME IInv, NEW n \in Nodes, Pulled(n)
  PROVE  HandlerInv'
<1> DEFINE g == NextFetch(n)
           w == handler[n].of
           m == Head(stream[w])
<1>1. WireType /\ HandlerInv /\ Grows /\ InCacheNext(n, g)
  BY PulledTypes DEF IInv, TypeOK
<1>2. ~Unlocked(n) /\ NodeId(g) # n
  BY FetchFacts DEF Pulled
<1>3. w \in Tasks /\ Handling(n, w) /\ handler[n] \in Handlers
  BY <1>2, HandlerFacts
<1>4. UNCHANGED <<stream, acking>> /\ handler' = [handler EXCEPT ![n].fetch = @ \ {g}]
  BY DEF Pulled
<1> HIDE DEF g
<1>5. /\ handler'[n].of = w /\ handler'[n].fetch = handler[n].fetch \ {g}
      /\ \A h \in Nodes : h # n => handler'[h] = handler[h]
  BY <1>1, <1>3, <1>4 DEF WireType, Handlers
<1>6. KnownNext(n, g)
  BY <1>1, <1>2 DEF KnownNext
<1>7. HandlingNext(n, w)
  <2>1. \A x \in Wanted(m) : Known(n, x) => KnownNext(n, x)
    BY <1>1, KnownStays
  <2> QED
    BY <1>3, <1>4, <1>5, <1>6, <2>1 DEF Handling, HandlingNext
<1>8. ASSUME NEW h \in Nodes, handler'[h] # None
      PROVE  HandlingNext(h, handler'[h].of)
  <2>1. CASE h = n
    BY <1>5, <1>7, <2>1
  <2>2. CASE h # n
    <3>1. handler'[h] = handler[h] /\ handler[h].of \in Tasks /\ Handling(h, handler[h].of)
      BY <1>1, <1>5, <1>8, <2>2 DEF WireType, Handlers, HandlerInv
    <3>2. stream[handler[h].of] # <<>> /\ handler[h].of \notin acking
      BY <3>1 DEF Handling
    <3> QED
      BY <1>1, <1>4, <3>1, <3>2, HandlingStays
  <2> QED
    BY <2>1, <2>2
<1>9. \A v \in acking' : stream'[v] # <<>>
  BY <1>1, <1>4 DEF HandlerInv
<1> QED
  BY <1>8, <1>9, HandlersNext

LEMMA HandledHandler ==
  ASSUME IInv, NEW n \in Nodes, Handle(n)
  PROVE  HandlerInv'
<1> DEFINE w == handler[n].of
<1>1. WireType /\ HandlerInv /\ Grows
  BY HandleTypes DEF IInv, TypeOK
<1>2. w \in Tasks /\ Handling(n, w)
  BY HandlerFacts DEF Handle
<1>3. UNCHANGED stream /\ handler' = [handler EXCEPT ![n] = None] /\ acking' = acking \cup {w}
  BY DEF Handle
<1>4. handler'[n] = None /\ \A h \in Nodes : h # n => handler'[h] = handler[h]
  BY <1>1, <1>3 DEF WireType
<1>5. ASSUME NEW h \in Nodes, handler'[h] # None
      PROVE  HandlingNext(h, handler'[h].of)
  <2>1. h # n
    BY <1>4, <1>5
  <2>2. handler'[h] = handler[h] /\ handler[h].of \in Tasks /\ Handling(h, handler[h].of)
    BY <1>1, <1>4, <1>5, <2>1 DEF WireType, Handlers, HandlerInv
  <2>3. handler[h].of # w
    BY <1>2, <2>1, <2>2 DEF Handling
  <2>4. stream[handler[h].of] # <<>> /\ handler[h].of \notin acking'
    BY <1>3, <2>2, <2>3 DEF Handling
  <2> QED
    BY <1>1, <1>3, <2>2, <2>4, HandlingStays
<1>6. \A v \in acking' : stream'[v] # <<>>
  BY <1>1, <1>2, <1>3 DEF HandlerInv, Handling
<1> QED
  BY <1>5, <1>6, HandlersNext

LEMMA ConfirmedHandler ==
  ASSUME IInv, NEW w \in Tasks, Confirm(w)
  PROVE  HandlerInv'
<1>1. WireType /\ HandlerInv /\ Grows
  BY ConfirmTypes DEF IInv, TypeOK
<1>2. /\ \A v \in Tasks : v # w => stream'[v] = stream[v]
      /\ w \in acking /\ acking' = acking \ {w} /\ UNCHANGED handler
  BY ConfirmTypes DEF Confirm
<1>3. ASSUME NEW h \in Nodes, handler'[h] # None
      PROVE  HandlingNext(h, handler'[h].of)
  <2>1. handler'[h] = handler[h] /\ handler[h].of \in Tasks /\ Handling(h, handler[h].of)
    BY <1>1, <1>2, <1>3 DEF WireType, Handlers, HandlerInv
  <2>2. handler[h].of # w /\ stream[handler[h].of] # <<>> /\ handler[h].of \notin acking'
    BY <1>2, <2>1 DEF Handling
  <2> QED
    BY <1>1, <1>2, <2>1, <2>2, HandlingStays
<1>4. \A v \in acking' : stream'[v] # <<>>
  BY <1>1, <1>2 DEF HandlerInv, WireType
<1> QED
  BY <1>3, <1>4, HandlersNext

LEMMA HandlersStay ==
  ASSUME IInv, [Next]_vars
  PROVE  HandlerInv'
<1>1. TypeOK /\ WireType /\ WireType' /\ HandlerInv /\ Grows
  BY TypesStay DEF IInv, TypeOK
<1>2. ASSUME UNCHANGED <<handler, acking>>, OldMessages
      PROVE  HandlerInv'
  BY <1>1, <1>2, OldHeads, HandlersKept
<1>3. \/ UNCHANGED <<handler, acking>>
      \/ \E w \in Tasks : Receive(w) \/ Confirm(w)
      \/ \E n \in Nodes : Pulled(n) \/ Handle(n)
  <2>1. CASE UNCHANGED vars
    BY <2>1 DEF vars, wire
  <2>2. ASSUME NEW w \in Tasks, TaskStep(w)
        PROVE  UNCHANGED <<handler, acking>> \/ Receive(w) \/ Confirm(w)
    BY <2>2 DEF TaskStep, CreateLocalDb, CreateTemplate, AskRange, CreateRange, ReserveLocal, TakeGuid, AskGuids,
                RefillPool, CreateEdt, CreateRemoteDb, CreateMappedDb, CacheMaster, Satisfy, wire
  <2>3. ASSUME NEW n \in Nodes, NEW h \in Nodes,
               Pull(n) \/ ServeGuids(n, h) \/ ServeMapId(n, h) \/ ServePull(n, h)
        PROVE  UNCHANGED <<handler, acking>>
    BY <2>3 DEF Pull, ServeGuids, ServeMapId, ServePull, wire
  <2> QED
    BY <2>1, <2>2, <2>3 DEF Next, Done
<1>4. CASE UNCHANGED <<handler, acking>>
  <2>1. CASE UNCHANGED stream
    BY <1>2, <1>4, <2>1, OldSame
  <2>2. ASSUME NEW w \in Tasks, CreateTemplate(w)
        PROVE  HandlerInv'
    BY <1>2, <1>4, <2>2, PushedOK
  <2>3. ASSUME NEW w \in Tasks,
               CreateEdt(w) \/ CreateRemoteDb(w) \/ Satisfy(w) \/ (CreateMappedDb(w) /\ MapsElsewhere(w))
        PROVE  HandlerInv'
    <3>1. \E m : Appends(w, <<m>>)
      BY <2>3, PostedOK
    <3>2. PICK m : Appends(w, <<m>>)
      BY <3>1
    <3> QED
      BY <1>1, <1>2, <1>4, <3>2, OldAppended
  <2> QED
    BY <2>1, <2>2, <2>3, StreamCases, ConfirmedHandler
<1> QED
  BY <1>3, <1>4, ReceiveHandler, ConfirmedHandler, PulledHandler, HandledHandler

-----------------------------------------------------------------------------
(***************************************************************************)
(* The assertions.                                                         *)
(***************************************************************************)
LEMMA FaultsStay ==
  ASSUME IInv, [Next]_vars
  PROVE  OnlyEarlyUseFails'
<1>1. OnlyEarlyUseFails
  BY DEF IInv
<1>2. SUFFICES UNCHANGED faults \/ faults' \subseteq faults \cup {"master deleted"}
  BY <1>1 DEF OnlyEarlyUseFails
<1>3. CASE UNCHANGED vars
  BY <1>3 DEF vars
<1>4. ASSUME NEW w \in Tasks, CreateEdt(w)
      PROVE  UNCHANGED faults
  <2>1. Known(At[w], env[Call(w).template])
    BY <1>4, TemplateFacts
  <2>2. Fault(~Known(At[w], env[Call(w).template]), "template missing")
    BY <1>4 DEF CreateEdt
  <2> QED
    BY <2>1, <2>2 DEF Fault
<1>5. ASSUME NEW w \in Tasks, CreateMappedDb(w)
      PROVE  UNCHANGED faults
  <2>1. CASE MapsElsewhere(w)
    BY <2>1 DEF MapsElsewhere
  <2>2. CASE MapsHere(w)
    <3>1. TheGuid(Call(w)) \notin created[At[w]]
      BY <1>5, FreshLabel, NodeFacts
    <3>2. Fault(TheGuid(Call(w)) \in created[At[w]], "label in use")
      BY <2>2 DEF MapsHere
    <3> QED
      BY <3>1, <3>2 DEF Fault
  <2> QED
    BY <1>5, <2>1, <2>2, MappedDbTypes
<1>6. ASSUME NEW w \in Tasks, CacheMaster(w)
      PROVE  faults' \subseteq faults \cup {"master deleted"}
  BY <1>6 DEF CacheMaster, Fault
<1>7. ASSUME NEW n \in Nodes, Handle(n)
      PROVE  UNCHANGED faults
  <2>1. ~Broken(n, Head(stream[handler[n].of]))
    BY <1>7, HandledFacts
  <2>2. Fault(Broken(n, Head(stream[handler[n].of])), Head(stream[handler[n].of]).op)
    BY <1>7 DEF Handle
  <2> QED
    BY <2>1, <2>2 DEF Fault
<1>8. ASSUME NEW w \in Tasks,
             \/ CreateLocalDb(w) \/ CreateTemplate(w) \/ AskRange(w) \/ CreateRange(w) \/ ReserveLocal(w) \/ TakeGuid(w)
             \/ AskGuids(w) \/ RefillPool(w) \/ CreateRemoteDb(w) \/ Satisfy(w) \/ Receive(w) \/ Confirm(w)
      PROVE  UNCHANGED faults
  BY <1>8 DEF CreateLocalDb, CreateTemplate, AskRange, CreateRange, ReserveLocal, TakeGuid, AskGuids, RefillPool,
              CreateRemoteDb, Satisfy, Receive, Confirm
<1>9. ASSUME NEW n \in Nodes, NEW h \in Nodes,
             Pull(n) \/ Pulled(n) \/ ServeGuids(n, h) \/ ServeMapId(n, h) \/ ServePull(n, h)
      PROVE  UNCHANGED faults
  BY <1>9 DEF Pull, Pulled, ServeGuids, ServeMapId, ServePull
<1> QED
  BY <1>3, <1>4, <1>5, <1>6, <1>7, <1>8, <1>9 DEF Next, TaskStep, Done

-----------------------------------------------------------------------------
(***************************************************************************)
(* The initial states.                                                     *)
(***************************************************************************)
LEMMA InitTypes ==
  ASSUME Init
  PROVE  TypeOK
<1>1. RepoType
  BY DEF Init, RepoType
<1>2. \A n, h \in Nodes : channel[n][h] = Empty
  BY DEF Init, Empty
<1>3. Empty \in Channels
  BY DEF Empty, Channels
<1>4. PoolType
  <2>1. next \in [Nodes -> [Nodes -> Nat]] /\ max \in [Nodes -> [Nodes -> Nat]] /\ maps \in Nat
    BY DEF Init
  <2>2. reserving \in [Nodes -> [Nodes -> Tasks \cup {None}]]
    BY DEF Init
  <2>3. channel = [n \in Nodes |-> [h \in Nodes |-> Empty]]
    BY DEF Init, Empty
  <2>4. channel \in [Nodes -> [Nodes -> Channels]]
    BY <1>3, <2>3
  <2> QED
    BY <2>1, <2>2, <2>4 DEF PoolType
<1>5. TaskType
  BY DEF Init, TaskType
<1>6. WireType
  BY DEF Init, WireType
<1> QED
  BY <1>1, <1>4, <1>5, <1>6 DEF TypeOK

LEMMA InitNumbers ==
  ASSUME Init
  PROVE  Numbers
<1>1. \A n, h \in Nodes : channel[n][h] = Empty
  BY DEF Init, Empty
<1>2. 0 \in Nodes
  BY ObjectsAssumption
<1>3. \A n, h \in Nodes : channel[n][h].by = None /\ channel[n][h].ask = None /\ channel[n][h].reply = None
  BY <1>1 DEF Empty
<1>4. ChannelInv
  BY <1>3, NodeFacts DEF ChannelInv, GoodChannel
<1>5. CallInv
  BY DEF Init, CallInv
<1>6. \A n, h \in Nodes : \A i \in Nat : ~InPool(n, h, i)
  <2> SUFFICES ASSUME NEW n \in Nodes, NEW h \in Nodes, NEW i \in Nat
               PROVE  ~InPool(n, h, i)
    OBVIOUS
  <2>1. next[n][h] = 0 /\ max[n][h] = 0
    BY DEF Init
  <2> QED
    BY <1>3, <2>1 DEF InPool, Coming
<1>7. PoolInv
  BY <1>6 DEF PoolInv
<1>8. MapInv
  BY <1>2, <1>3 DEF MapInv, MapComing
<1>9. GivenInv
  BY DEF Init, GivenInv, EmptyBag, SetToBag
<1>10. GotInv
  BY DEF Init, GotInv
<1> QED
  BY <1>4, <1>5, <1>7, <1>8, <1>9, <1>10 DEF Numbers

LEMMA InitInv == Init => IInv
<1> SUFFICES ASSUME Init PROVE IInv
  OBVIOUS
<1>1. /\ created = [h \in Nodes |-> {}] /\ at = [w \in Tasks |-> 1] /\ pc = [w \in Tasks |-> "call"]
      /\ env = [x \in Names |-> None] /\ stream = [w \in Tasks |-> <<>>] /\ acking = {}
      /\ handler = [n \in Nodes |-> None] /\ faults = {}
  BY DEF Init
<1>2. EnvInv
  BY <1>1 DEF EnvInv
<1>3. \A w \in Tasks : \A i : i \in DOMAIN Script[w] => i \in Nat /\ ~(i < at[w])
  <2> SUFFICES ASSUME NEW w \in Tasks, NEW i \in DOMAIN Script[w]
               PROVE  i \in Nat /\ ~(i < at[w])
    OBVIOUS
  <2>1. Script[w] \in Seq(Calls)
    BY ObjectsAssumption
  <2> QED
    BY <1>1, <2>1
<1>4. TemplateInv
  BY <1>3 DEF TemplateInv
<1>5. LabelInv
  BY <1>1, <1>3 DEF LabelInv, Labels
<1>6. \A w \in Tasks : stream[w] = <<>>
  BY <1>1
<1>7. \A w \in Tasks : \A k : k \notin DOMAIN stream[w]
  BY <1>6
<1>8. LabelMsgInv
  BY <1>7 DEF LabelMsgInv, Unhandled
<1>9. MsgInv
  BY <1>7 DEF MsgInv
<1>10. HandlerInv
  BY <1>1 DEF HandlerInv
<1> QED
  BY <1>1, <1>2, <1>4, <1>5, <1>8, <1>9, <1>10, InitTypes, InitNumbers DEF IInv, Numbers, OnlyEarlyUseFails

-----------------------------------------------------------------------------
(***************************************************************************)
(* The invariant, and what it says.                                        *)
(***************************************************************************)
LEMMA InvStays == IInv /\ [Next]_vars => IInv'
  BY TypesStay, NumbersStay, EnvStays, TemplatesStay, LabelsStay, MsgsStay, HandlersStay, FaultsStay
     DEF IInv, Numbers

(* The guids the tasks are given are distinct, whoever reserved them and   *)
(* wherever; the assertions of set_object, add_mapped_object and           *)
(* get_object_locally hold, and a template is known where a task is        *)
(* created with it.  All that fails is the creation of a master block      *)
(* whose label was used too early.                                         *)
THEOREM ObjectsAreSound == Spec => []ObjectsSound
<1>1. IInv => ObjectsSound
  BY DEF IInv, GivenInv, ObjectsSound, GuidsGivenOnce
<1> QED
  BY <1>1, InitInv, InvStays, PTL DEF Spec

(* No step of any node takes an object out of a cache or replaces it.      *)
Keeps == \A n \in Nodes : \A g \in DOMAIN cache[n] : cache[n][g] # "null" => cache'[n][g] = cache[n][g]

LEMMA CacheKeeps == IInv /\ [Next]_vars => Keeps
<1> SUFFICES ASSUME IInv, [Next]_vars PROVE Keeps
  OBVIOUS
<1>1. CacheGrows \/ UNCHANGED cache
  <2>1. CASE UNCHANGED vars
    BY <2>1 DEF vars, repo
  <2>2. ASSUME NEW w \in Tasks, TaskStep(w)
        PROVE  CacheGrows \/ UNCHANGED cache
    BY <2>2, CacheMasterTypes, ReceiveTypes
       DEF TaskStep, CreateLocalDb, CreateTemplate, AskRange, CreateRange, ReserveLocal, TakeGuid, AskGuids,
           RefillPool, CreateEdt, CreateRemoteDb, CreateMappedDb, Satisfy, Confirm, repo
  <2>3. ASSUME NEW n \in Nodes, NEW h \in Nodes,
               Pull(n) \/ Pulled(n) \/ Handle(n) \/ ServeGuids(n, h) \/ ServeMapId(n, h) \/ ServePull(n, h)
        PROVE  CacheGrows \/ UNCHANGED cache
    BY <2>3, PulledTypes, HandleTypes DEF Pull, ServeGuids, ServeMapId, ServePull, repo
  <2> QED
    BY <2>1, <2>2, <2>3 DEF Next, Done
<1> QED
  BY <1>1 DEF CacheGrows, InCache, Keeps

(* An object that was found in a cache is still there, and the same, when  *)
(* the task or the handler that looked it up uses it.                      *)
THEOREM CachesKeep == Spec => CachedStays
<1>1. IInv /\ [Next]_vars => [\A n \in Nodes : \A g \in DOMAIN cache[n] :
                                cache[n][g] # "null" => cache'[n][g] = cache[n][g]]_vars
  BY CacheKeeps DEF Keeps
<1> QED
  BY <1>1, InitInv, InvStays, PTL DEF Spec, CachedStays
=============================================================================
