------------------------------ MODULE MsgStream ------------------------------
(***************************************************************************)
(* Ordering of messages in the distributed runtime.                        *)
(*                                                                         *)
(* A message belongs to a stream: that of the task on whose behalf it is   *)
(* sent, of the node, or of the handler of another message.  Each node has *)
(* a sender thread (runner) that holds the messages of a stream back until *)
(* the one before is confirmed.  Who confirms, and when, depends on the    *)
(* kind (confirmation_type) of the message: a handler may pass the duty on *)
(* with a message it sends, or queue the confirmation behind the messages  *)
(* it sends.  A message for an object that does not exist yet is confirmed *)
(* at once and tried again later.                                          *)
(*                                                                         *)
(* What handlers do is a constant: the messages they send.  Handlers of a  *)
(* node run one at a time, under the mutex of the command_processor.       *)
(***************************************************************************)
EXTENDS Integers, Sequences, FiniteSets, Functions

CONSTANTS
  Nodes,
  Node0,       \* guid(0, 0), node 0's own stream, is the same as NULL_GUID
  Tasks,       \* the tasks that send messages; each has a stream
  Home,        \* Home[t]: the node that runs t
  StartedBy,   \* StartedBy[t]: the message whose handler spawns t, or None
  Program,     \* Program[t]: the messages t sends, in order
  Msgs,        \* all messages other than confirmations
  Kind,        \* Kind[m]: the confirmation_type
  To,          \* To[m]: the receiver
  Sends,       \* Sends[m]: what the handler of m sends as part of processing m
  SendsAfter,  \* SendsAfter[m]: what it sends after stop_message_processing
  Requires,    \* Requires[m]: the message that creates the object m is for, or None
  None

Streams   == Tasks \cup Nodes \cup Msgs
NodeOf(s) == IF s \in Tasks THEN Home[s] ELSE IF s \in Nodes THEN s ELSE To[s]

ASSUME MsgAssumption ==
  /\ Node0 \in Nodes
  /\ Home \in [Tasks -> Nodes] /\ StartedBy \in [Tasks -> Msgs \cup {None}]
  /\ Program \in [Tasks -> Seq(Msgs)]
  /\ Kind \in [Msgs -> {"CT_none", "CT_single", "CT_forward", "CT_task"}]
  /\ To \in [Msgs -> Nodes]
  /\ Sends \in [Msgs -> Seq(Msgs)] /\ SendsAfter \in [Msgs -> Seq(Msgs)]
  /\ Requires \in [Msgs -> Msgs \cup {None}]
  /\ \A m \in Msgs : Requires[m] # None => To[Requires[m]] = To[m]
  /\ Tasks \cap Nodes = {} /\ Tasks \cap Msgs = {} /\ Nodes \cap Msgs = {}
  /\ None \notin Streams
(* "the processed message is not supposed to trigger sending of further    *)
(* messages"; a message passes the duty to confirm it to one other, which  *)
(* has to be of a kind that is confirmed.                                  *)
ASSUME HandlerAssumption ==
  \A m \in Msgs :
    /\ Kind[m] = "CT_single" => Sends[m] = <<>>
    /\ Kind[m] = "CT_forward" => Len(Sends[m]) <= 1 /\ \A x \in Range(Sends[m]) : Kind[x] # "CT_none"

VARIABLES
  queue,        \* queue[n]: what the runner of n has to deal with, <<mode, packet>>
  edtq,         \* edtq[n][s]: the runner's edt_queue of the stream s
  unconfirmed,  \* unconfirmed[n]: unconfirmed_message_count
  unsent,       \* unsent[n]: unsent_message_count
  wire,         \* wire[n][d]: packets from n to d; wire[n][n] is the local queue
  handled,      \* the messages that have been processed
  deferred,     \* the messages that were confirmed before they were processed
  posted,       \* history: posted[s], the messages of the stream s, in order
  faults        \* the assertions that have failed

vars == <<queue, edtq, unconfirmed, unsent, wire, handled, deferred, posted, faults>>

(* A message, or the confirmation of the message i of the stream s.        *)
Packet(m, s, i) == [msg |-> m, to |-> To[m], stream |-> s, id |-> i, acks |-> None]
Ack(on, s, i)   == [msg |-> None, to |-> NodeOf(s), stream |-> on, id |-> 0, acks |-> <<s, i>>]

Init ==
  /\ queue = [n \in Nodes |-> <<>>]
  /\ edtq = [n \in Nodes |-> [s \in Streams |-> [todo |-> <<>>, sent |-> 0, confirmed |-> 0, next |-> 1]]]
  /\ unconfirmed = [n \in Nodes |-> 0] /\ unsent = [n \in Nodes |-> 0]
  /\ wire = [n \in Nodes |-> [d \in Nodes |-> <<>>]]
  /\ handled = {} /\ deferred = {} /\ faults = {}
  /\ posted = [s \in Streams |-> <<>>]

-----------------------------------------------------------------------------
(***************************************************************************)
(* The runner of a node.                                                   *)
(***************************************************************************)
Head1(n)       == Head(queue[n])[2]
Pops(n, mode)  == queue[n] # <<>> /\ Head(queue[n])[1] = mode /\ queue' = [queue EXCEPT ![n] = Tail(@)]
WithSent(n, q) == [wire EXCEPT ![n] = [d \in Nodes |-> @[d] \o SelectSeq(q, LAMBDA p : p.to = d)]]

(* Mutant: messages of kind CT_single are not waited for.                  *)
AutoConfirmedSingle(p) == p.msg = None \/ Kind[p.msg] \in {"CT_none", "CT_single"}

(* should_autoconfirm: confirmations are CT_special.                       *)
AutoConfirmed(p) == p.msg = None \/ Kind[p.msg] = "CT_none"

Waits(p) == IF AutoConfirmed(p) THEN 0 ELSE 1

(* A message of a stream whose predecessor has been confirmed is sent ...  *)
SendStandard(n) ==
  LET s == Head1(n).stream
      q == edtq[n][s]
      p == [Head1(n) EXCEPT !.id = q.next]
  IN  /\ Pops(n, "standard") /\ q.confirmed = q.sent
      /\ wire' = WithSent(n, <<p>>)
      /\ edtq' = [edtq EXCEPT ![n][s] =
                    [q EXCEPT !.next = @ + 1, !.sent = p.id,
                              !.confirmed = IF AutoConfirmed(p) THEN p.id ELSE @]]
      /\ unconfirmed' = [unconfirmed EXCEPT ![n] = @ + Waits(p)]
      /\ UNCHANGED <<unsent, handled, deferred, posted, faults>>

(* ... others wait in the edt_queue.                                       *)
HoldBack(n) ==
  LET s == Head1(n).stream
      q == edtq[n][s]
      p == [Head1(n) EXCEPT !.id = q.next]
  IN  /\ Pops(n, "standard") /\ q.confirmed # q.sent
      /\ edtq' = [edtq EXCEPT ![n][s] = [q EXCEPT !.next = @ + 1, !.todo = Append(@, p)]]
      /\ unsent' = [unsent EXCEPT ![n] = @ + 1]
      /\ UNCHANGED <<unconfirmed, wire, handled, deferred, posted, faults>>

(* Followups keep the stream and the id of the message they follow.        *)
SendAtOnce(n) ==
  /\ \E mode \in {"followup", "direct_send"} : Pops(n, mode)
  /\ wire' = WithSent(n, <<Head1(n)>>)
  /\ UNCHANGED <<edtq, unconfirmed, unsent, handled, deferred, posted, faults>>

(* Mutant: one message is sent on for a confirmation, whatever its kind.   *)
ReleasedOne(todo) == IF todo = <<>> THEN <<>> ELSE <<Head(todo)>>

(* The messages that a confirmation sets free: up to and including the     *)
(* first that has to be confirmed.                                         *)
Released(todo) ==
  LET stops == {i \in DOMAIN todo : ~AutoConfirmed(todo[i])}
  IN  IF stops = {} THEN todo
      ELSE SubSeq(todo, 1, CHOOSE i \in stops : \A j \in stops : i <= j)

(* A confirmation has arrived: "assert(id == edtq.last_confirmed_id + 1)". *)
Confirm(n) ==
  LET s == Head1(n).acks[1]
      i == Head1(n).acks[2]
      q == edtq[n][s]
      out == IF i = q.sent THEN Released(q.todo) ELSE <<>>
      k == Len(out)
      last == IF k = 0 THEN q.sent ELSE out[k].id
      waits == k > 0 /\ ~AutoConfirmed(out[k])
  IN  /\ Pops(n, "loopback")
      /\ faults' = IF i = q.confirmed + 1 THEN faults ELSE faults \cup {"confirmed_out_of_order"}
      /\ wire' = WithSent(n, out)
      /\ edtq' = [edtq EXCEPT ![n][s] =
                    [q EXCEPT !.todo = SubSeq(@, k + 1, Len(@)), !.sent = last,
                              !.confirmed = IF k = 0 THEN i ELSE IF ~waits THEN last
                                            ELSE IF k = 1 THEN i ELSE out[k - 1].id]]
      /\ unconfirmed' = [unconfirmed EXCEPT ![n] = IF waits THEN @ ELSE @ - 1]
      /\ unsent' = [unsent EXCEPT ![n] = @ - k]
      /\ UNCHANGED <<handled, deferred, posted>>

Runner(n) == SendStandard(n) \/ HoldBack(n) \/ SendAtOnce(n) \/ Confirm(n)

-----------------------------------------------------------------------------
(***************************************************************************)
(* Tasks and handlers.                                                     *)
(***************************************************************************)
Standard(m, s) == <<"standard", Packet(m, s, 0)>>

(* A task sends its next message.                                          *)
Started(t) == StartedBy[t] = None \/ StartedBy[t] \in handled
Post(t) ==
  /\ Started(t) /\ Len(posted[t]) < Len(Program[t])
  /\ LET m == Program[t][Len(posted[t]) + 1]
     IN  /\ posted' = [posted EXCEPT ![t] = Append(@, m)]
         /\ queue' = [queue EXCEPT ![Home[t]] = Append(@, Standard(m, t))]
  /\ UNCHANGED <<edtq, unconfirmed, unsent, wire, handled, deferred, faults>>

(* Mutant: the confirmation of a CT_task message is not queued.            *)
ConfirmationAtOnce(m, s, i, sent) ==
  IF Kind[m] = "CT_none" \/ (Kind[m] = "CT_forward" /\ sent # <<>>) THEN <<>>
  ELSE <<<<"direct_send", Ack(Node0, s, i)>>>>

(* stop_message_processing.  sent is what was sent while processing m.     *)
Confirmation(m, s, i, sent) ==
  CASE Kind[m] = "CT_none" -> <<>>
    [] Kind[m] = "CT_forward" /\ sent # <<>> -> <<>>
    [] Kind[m] = "CT_task" -> <<<<"standard", Ack(IF sent = <<>> THEN Node0 ELSE m, s, i)>>>>
    [] OTHER -> <<<<"direct_send", Ack(Node0, s, i)>>>>

(* process_message: on which stream and in which mode the handler of m     *)
(* sends a message while m is processed; i = 0 marks a deferred message.   *)
StreamOf(m, i) == IF i # 0 /\ Kind[m] = "CT_task" THEN m ELSE To[m]

Sent(m, s, i, x) ==
  IF i # 0 /\ Kind[m] = "CT_forward" THEN <<"followup", Packet(x, s, i)>>
  ELSE Standard(x, StreamOf(m, i))

Arrives(n, from) == wire[from][n] # <<>>
Incoming(n, from) == Head(wire[from][n])
Received(n, from) == [wire EXCEPT ![from][n] = Tail(@)]

(* A confirmation is handed to the runner.                                 *)
ReceiveConfirmation(n, from) ==
  /\ Arrives(n, from) /\ Incoming(n, from).msg = None
  /\ wire' = Received(n, from)
  /\ queue' = [queue EXCEPT ![n] = Append(@, <<"loopback", Incoming(n, from)>>)]
  /\ UNCHANGED <<edtq, unconfirmed, unsent, handled, deferred, posted, faults>>

Missing(m) == Requires[m] # None /\ Requires[m] \notin handled

(* The object the message is for does not exist: the message is confirmed, *)
(* loses its id and goes to the end of the local queue.                    *)
Defer(n, from) ==
  LET p == Incoming(n, from)
  IN  /\ Arrives(n, from) /\ p.msg # None /\ Missing(p.msg)
      /\ wire' = [Received(n, from) EXCEPT ![n][n] = Append(@, [p EXCEPT !.id = 0])]
      /\ queue' = [queue EXCEPT ![n] = @ \o IF p.id = 0 THEN <<>> ELSE Confirmation(p.msg, p.stream, p.id, <<>>)]
      /\ deferred' = deferred \cup {p.msg}
      /\ UNCHANGED <<edtq, unconfirmed, unsent, handled, posted, faults>>

(* process_command: what the handler sends as part of the message, the     *)
(* confirmation, and what it sends after stop_message_processing.          *)
Handle(n, from) ==
  LET p == Incoming(n, from)
      m == p.msg
      s == StreamOf(m, p.id)
      inside == [j \in DOMAIN Sends[m] |-> Sent(m, p.stream, p.id, Sends[m][j])]
      after == [j \in DOMAIN SendsAfter[m] |-> Standard(SendsAfter[m][j], n)]
      follows == p.id # 0 /\ Kind[m] = "CT_forward"
      noted == IF follows THEN posted ELSE [posted EXCEPT ![s] = @ \o Sends[m]]
  IN  /\ Arrives(n, from) /\ m # None /\ ~Missing(m)
      /\ wire' = Received(n, from)
      /\ handled' = handled \cup {m}
      /\ queue' = [queue EXCEPT ![n] = @ \o inside \o
                     (IF p.id = 0 THEN <<>> ELSE Confirmation(m, p.stream, p.id, Sends[m])) \o after]
      /\ posted' = [noted EXCEPT ![n] = @ \o SendsAfter[m]]
      /\ UNCHANGED <<edtq, unconfirmed, unsent, deferred, faults>>

Receive(n, from) == ReceiveConfirmation(n, from) \/ Defer(n, from) \/ Handle(n, from)

Quiet(n) == unsent[n] = 0 /\ unconfirmed[n] = 0
Done ==
  /\ \A n \in Nodes : queue[n] = <<>> /\ \A d \in Nodes : wire[n][d] = <<>>
  /\ \A t \in Tasks : posted[t] = Program[t]

Terminated == Done /\ UNCHANGED vars

Next ==
  \/ \E t \in Tasks : Post(t)
  \/ \E n \in Nodes : Runner(n) \/ \E from \in Nodes : Receive(n, from)
  \/ Terminated

Spec == Init /\ [][Next]_vars

(* Tasks run, runners run, and every channel has a receiving thread.       *)
FairSpec ==
  /\ Spec
  /\ \A t \in Tasks : WF_vars(Post(t))
  /\ \A n \in Nodes : WF_vars(Runner(n)) /\ \A from \in Nodes : WF_vars(Receive(n, from))
-----------------------------------------------------------------------------
(***************************************************************************)
(* Properties.                                                             *)
(***************************************************************************)
Modes   == {"standard", "followup", "direct_send", "loopback"}
Acks    == {<<s, i>> : s \in Streams, i \in 1..Cardinality(Msgs)}
Packets == [msg : Msgs \cup {None}, to : Nodes, stream : Streams, id : Nat, acks : Acks \cup {None}]

Outstanding(n) == {s \in Streams : edtq[n][s].sent # edtq[n][s].confirmed}
SumOver(S, f(_)) == FoldFunction(+, 0, [x \in S |-> f(x)])

(* Every variable keeps to its domain, and the two counters, which other   *)
(* threads read to find out whether the node is quiet, count what they     *)
(* stand for.                                                              *)
TypeOK ==
  /\ queue \in [Nodes -> Seq(Modes \X Packets)]
  /\ edtq \in [Nodes -> [Streams -> [todo : Seq(Packets), sent : Nat, confirmed : Nat, next : Nat]]]
  /\ unconfirmed \in [Nodes -> Nat] /\ unsent \in [Nodes -> Nat]
  /\ wire \in [Nodes -> [Nodes -> Seq(Packets)]]
  /\ handled \subseteq Msgs /\ deferred \subseteq Msgs
  /\ posted \in [Streams -> Seq(Msgs)]
  /\ \A n \in Nodes : /\ unsent[n] = SumOver(Streams, LAMBDA s : Len(edtq[n][s].todo))
                      /\ unconfirmed[n] = Cardinality(Outstanding(n))

(* "assert(id == edtq.last_confirmed_id + 1)": no message is confirmed     *)
(* twice, although the duty to confirm it travels from node to node.       *)
AssertionsHold == faults = {}

Confirmed == {m \in Msgs : Kind[m] # "CT_none"}
Parts == [m \in Msgs |-> IF Kind[m] \in {"CT_forward", "CT_task"} THEN Range(Sends[m]) \cap Confirmed
                         ELSE {}]

Promise == INSTANCE StreamPromise WITH waived <- deferred

(* The runner, the confirmations and the followups together keep streams   *)
(* in order across nodes.                                                  *)
ImplementsPromise == Promise!Spec

Carries(p, s) == (p.msg \in Confirmed /\ p.id # 0 /\ p.stream = s) \/ (p.acks # None /\ p.acks[1] = s)
Carriers(s) ==
  SumOver(Nodes \X Nodes, LAMBDA e : Cardinality({j \in DOMAIN wire[e[1]][e[2]] : Carries(wire[e[1]][e[2]][j], s)}))
    + SumOver(Nodes, LAMBDA n : Cardinality({j \in DOMAIN queue[n] : Carries(queue[n][j][2], s)}))
    + SumOver(Nodes \X Streams,
              LAMBDA e : Cardinality({j \in DOMAIN edtq[e[1]][e[2]].todo :
                                        edtq[e[1]][e[2]].todo[j].acks # None
                                        /\ edtq[e[1]][e[2]].todo[j].acks[1] = s}))

(* For a message that is not confirmed yet exactly one packet in the whole *)
(* system carries the duty to confirm it: the message itself, a followup,  *)
(* or the confirmation, perhaps held back behind other messages.           *)
OneCarrier ==
  \A s \in Streams : Carriers(s) = IF s \in Outstanding(NodeOf(s)) THEN 1 ELSE 0

(* A node that is quiet and has an empty queue has had an effect on all    *)
(* others: all it has sent is processed, with everything that follows.     *)
QuietMeansSettled ==
  \A n \in Nodes : Quiet(n) /\ queue[n] = <<>> =>
    \A s \in {x \in Streams : NodeOf(x) = n} : \A m \in Range(posted[s]) \cap Confirmed : Promise!Settled[m]

(* The duty to confirm a message is neither lost nor doubled on its way,   *)
(* so that the counters of a node tell when its messages have settled.     *)
ConfirmationsSound == TypeOK /\ AssertionsHold /\ OneCarrier /\ QuietMeansSettled

(* Every message is processed and every confirmation arrives, although     *)
(* messages are held back, deferred and passed on.                         *)
EverythingSettles == <>[](handled = Msgs /\ \A n \in Nodes : Quiet(n))

=============================================================================
