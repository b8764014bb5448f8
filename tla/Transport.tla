------------------------------ MODULE Transport ------------------------------
(***************************************************************************)
(* The transports of the distributed runtime, from the first connection to *)
(* the last thread: socket_communicator and mpi_communicator.              *)
(*                                                                         *)
(* With sockets, the master accepts the slaves, numbers them and sends     *)
(* them an address book; then every process connects twice to every        *)
(* process, itself included, and has a thread that accepts.  With MPI the  *)
(* connections are given.                                                  *)
(*                                                                         *)
(* The runtime between start and end is a small program: tasks that send   *)
(* messages, some of which spawn a task or are CMD_shutdown.  A process    *)
(* has a sender thread (the runner), a receiver per peer, and its main     *)
(* thread, which waits for the pool of tasks.  Then the transports differ: *)
(* the socket build stops the runner, sends CMD_exit and joins; the MPI    *)
(* build drains the messages of all nodes first (the reduction of the      *)
(* numbers of messages sent and received), and stops the runner last.      *)
(*                                                                         *)
(* Streams are in MsgStream, the barrier after the start in RuntimeControl.*)
(***************************************************************************)
EXTENDS Integers, Sequences, FiniteSets, FiniteSetsExt, SequencesExt

CONSTANTS
  Builds,     \* the builds to start from: "sock", "mpi"
  Size,       \* Size[b]: the number of processes; process 0 is the master
  Roots,      \* Roots[b]: the tasks that start by themselves
  Tasks,
  Home,       \* Home[t]: the node that runs t
  Program,    \* Program[t]: the messages t sends
  Msgs,       \* all messages but confirmations and CMD_exit
  To,         \* To[m]: the node m is sent to
  Confirmed,  \* the messages that are confirmed (not CT_none)
  Spawns,     \* Spawns[m]: the task that handling m spawns, or Null
  Shutdowns,  \* the messages that are CMD_shutdown
  Null

Procs == 0..(Max({Size[b] : b \in Builds}) - 1)
Conns == Procs \X Procs \X {"boot", "main", "fetch"}

ASSUME TransportAssumption ==
  /\ Builds \subseteq {"sock", "mpi"} /\ Size \in [Builds -> Nat \ {0}]
  /\ Roots \in [Builds -> SUBSET Tasks] /\ Home \in [Tasks -> Nat]
  /\ Program \in [Tasks -> Seq(Msgs)] /\ To \in [Msgs -> Nat]
  /\ Confirmed \subseteq Msgs /\ Shutdowns \subseteq Msgs
  /\ Spawns \in [Msgs -> Tasks \cup {Null}] /\ Null \notin Tasks \cup Conns

VARIABLES
  build,      \* the build that runs
  main,       \* main[p]: where its main thread is, and a counter
  id,         \* id[p]: my_id
  listener,   \* listener[p]: the listening socket: none, bound, open, closed
  pending,    \* pending[p]: connections not accepted yet
  up,         \* up[c]: what was sent on c by the side that connected
  down,       \* down[c]: what was sent on c by the side that accepted
  book,       \* book[p]: remote_addresses, as a sequence of processes
  accepts,    \* accepts[p]: how many connections accept_all still expects
  portsIn,    \* ports_in_: portsIn[p][i], the sockets of node i's messages
  portsOut,   \* ports_out_: the sockets for messages to node i
  queue,      \* queue[p]: the queue of the runner
  runner,     \* runner[p]: on, stopping (shutting_down) or off
  due,        \* due[p]: the stream whose held messages the runner sends now
  waits,      \* waits[t]: the message of t's stream not confirmed yet
  todo,       \* todo[t]: the messages of t's stream held back
  local,      \* local[p]: local_queue_
  hand,       \* hand[p][i]: the message the receiver of node i handles
  left,       \* left[t]: the messages t still has to send; Null before t runs
  open,       \* open[p]: the task_barrier still holds the pool
  wire,       \* wire[p]: wire_sent_ and wire_received_
  drain,      \* drain[p]: the rounds of the drain: [round, snap, given, prev]
  hidden,     \* history: hidden[p]: work no counter showed at p's last two snapshots
  faults      \* what went wrong

boot   == <<listener, pending, down, book, accepts, portsIn, portsOut, id>>
work   == <<queue, runner, due, waits, todo, local, hand, left, open, wire>>
ending == <<drain, hidden>>
vars   == <<build, main, up, boot, work, ending, faults>>

Live  == 0..(Size[build] - 1)
At(p) == main[p].at
GoTo(p, where) == main' = [main EXCEPT ![p] = [at |-> where, n |-> 0]]
Count(p)       == main' = [main EXCEPT ![p].n = @ + 1]
Fault(what)    == faults' = faults \cup {what}

Exit == [what |-> "exit"]
Confirmation(m) == [what |-> "confirmation", of |-> m]
Command(m) == [what |-> "command", of |-> m]
Gone == [what |-> "gone"]
Nobody == [what |-> "none"]
-----------------------------------------------------------------------------
(* Starting with sockets.  What a process sends while it introduces itself *)
(* are pairs of a meaning and a value; reading one as another is a fault.  *)

Boot(p) == <<p, 0, "boot">>
First(n, s) == SubSeq(s, 1, n)
After(n, s) == SubSeq(s, n + 1, Len(s))
Meant(s, meanings) == \A i \in DOMAIN meanings : s[i][1] = meanings[i]
Check(s, meanings) ==
  IF Meant(s, meanings) THEN UNCHANGED faults ELSE Fault(<<"misread", meanings>>)

(* The boot file is written before the master listens.                     *)
WriteBootFile ==
  /\ At(0) = "file" /\ GoTo(0, "listen")
  /\ UNCHANGED <<build, up, boot, work, ending, faults>>

Listen ==
  /\ At(0) = "listen" /\ GoTo(0, "accept")
  /\ listener' = [listener EXCEPT ![0] = "open"]
  /\ UNCHANGED <<build, up, pending, down, book, accepts, portsIn, portsOut, id, work, ending, faults>>

(* The master numbers the slaves as it accepts them; book holds the        *)
(* sockets (remote_sockets) until the addresses are sent.                  *)
AcceptSlave ==
  /\ At(0) = "accept" /\ Len(book[0]) < Size[build] - 1 /\ pending[0] # <<>>
  /\ LET c == Head(pending[0]) IN
       /\ pending' = [pending EXCEPT ![0] = Tail(@)]
       /\ down' = [down EXCEPT ![c] = Append(@, <<"id", Len(book[0]) + 1>>)]
       /\ book' = [book EXCEPT ![0] = Append(@, c)]
  /\ GoTo(0, "port")
  /\ UNCHANGED <<build, up, listener, accepts, portsIn, portsOut, id, work, ending, faults>>

Guest == Last(book[0])

HearPort ==
  /\ At(0) = "port" /\ up[Guest] # <<>>
  /\ Check(up[Guest], <<"port">>)
  /\ up' = [up EXCEPT ![Guest] = Tail(@)]
  /\ down' = [down EXCEPT ![Guest] = Append(@, <<"count", Size[build]>>)]
  /\ GoTo(0, "ready")
  /\ UNCHANGED <<build, listener, pending, book, accepts, portsIn, portsOut, id, work, ending>>

HearReady ==
  /\ At(0) = "ready" /\ Len(up[Guest]) >= 2
  /\ Check(up[Guest], <<"listening", "time">>)
  /\ up' = [up EXCEPT ![Guest] = After(2, @)]
  /\ GoTo(0, "accept")
  /\ UNCHANGED <<build, boot, work, ending>>

SendBook ==
  /\ At(0) = "accept" /\ Len(book[0]) = Size[build] - 1
  /\ LET slaves == [i \in DOMAIN book[0] |-> book[0][i][1]]
         items  == [i \in DOMAIN slaves |-> <<"address", slaves[i]>>] IN
       /\ down' = [c \in Conns |-> IF c \in Range(book[0]) THEN down[c] \o items ELSE down[c]]
       /\ book' = [book EXCEPT ![0] = <<0>> \o slaves]
  /\ accepts' = [accepts EXCEPT ![0] = 2 * Size[build]]
  /\ GoTo(0, "connect")
  /\ UNCHANGED <<build, up, listener, pending, portsIn, portsOut, id, work, ending, faults>>

(* A slave is started once the boot file is there.                         *)
GreetMaster(p) ==
  /\ At(p) = "slave" /\ At(0) # "file"
  /\ IF listener[0] = "open"
     THEN pending' = [pending EXCEPT ![0] = Append(@, Boot(p))] /\ GoTo(p, "id") /\ UNCHANGED faults
     ELSE Fault(<<"refused", "boot">>) /\ GoTo(p, "failed") /\ UNCHANGED pending
  /\ listener' = [listener EXCEPT ![p] = "bound"]
  /\ UNCHANGED <<build, up, down, book, accepts, portsIn, portsOut, id, work, ending>>

HearId(p) ==
  /\ At(p) = "id" /\ down[Boot(p)] # <<>>
  /\ Check(down[Boot(p)], <<"id">>)
  /\ id' = [id EXCEPT ![p] = Head(down[Boot(p)])[2]]
  /\ down' = [down EXCEPT ![Boot(p)] = Tail(@)]
  /\ up' = [up EXCEPT ![Boot(p)] = Append(@, <<"port", p>>)]
  /\ GoTo(p, "count")
  /\ UNCHANGED <<build, listener, pending, book, accepts, portsIn, portsOut, work, ending>>

(* The slave listens before it says so.                                    *)
HearCount(p) ==
  /\ At(p) = "count" /\ down[Boot(p)] # <<>>
  /\ Check(down[Boot(p)], <<"count">>)
  /\ down' = [down EXCEPT ![Boot(p)] = Tail(@)]
  /\ listener' = [listener EXCEPT ![p] = "open"]
  /\ up' = [up EXCEPT ![Boot(p)] = @ \o <<<<"listening", 0>>, <<"time", 0>>>>]
  /\ GoTo(p, "book")
  /\ UNCHANGED <<build, pending, book, accepts, portsIn, portsOut, id, work, ending>>

HearBook(p) ==
  LET n == Size[build] - 1 IN
  /\ At(p) = "book" /\ Len(down[Boot(p)]) >= n
  /\ Check(down[Boot(p)], [i \in 1..n |-> "address"])
  /\ book' = [book EXCEPT ![p] = <<0>> \o [i \in 1..n |-> down[Boot(p)][i][2]]]
  /\ down' = [down EXCEPT ![Boot(p)] = After(n, @)]
  /\ accepts' = [accepts EXCEPT ![p] = 2 * Size[build]]
  /\ GoTo(p, "connect")
  /\ UNCHANGED <<build, up, listener, pending, portsIn, portsOut, id, work, ending>>

(* connect_all: connect to node n, connect again for the fetches, and      *)
(* introduce both connections; accept_all runs meanwhile.  What the peers  *)
(* do between the two does not matter to the one who connects: both wait   *)
(* in the backlog.                                                         *)
Connect(p) ==
  LET n == main[p].n  q == book[p][n + 1]
      out == [kind \in {"main", "fetch"} |-> <<p, q, kind>>]
      room == listener[q] = "open" /\ Len(pending[q]) + 2 <= 2 * Size[build] IN
  /\ At(p) = "connect" /\ n < Size[build]
  /\ IF room
     THEN /\ pending' = [pending EXCEPT ![q] = @ \o <<out["main"], out["fetch"]>>]
          /\ portsOut' = [portsOut EXCEPT ![p][n] = out]
          /\ up' = [up EXCEPT ![out["main"]]  = @ \o <<<<"type", "main">>, <<"node", id[p]>>>>,
                              ![out["fetch"]] = @ \o <<<<"type", "fetch">>, <<"node", id[p]>>>>]
          /\ Count(p) /\ UNCHANGED faults
     ELSE /\ Fault(<<"refused", "peer">>) /\ GoTo(p, "failed")
          /\ UNCHANGED <<pending, portsOut, up>>
  /\ UNCHANGED <<build, listener, down, book, accepts, portsIn, id, work, ending>>

(* Mutant: the first connection of a peer is taken for its main one.       *)
AcceptPeerByOrder(p) ==
  /\ accepts[p] > 0 /\ pending[p] # <<>>
  /\ LET c == Head(pending[p]) IN
       /\ Len(up[c]) >= 2
       /\ pending' = [pending EXCEPT ![p] = Tail(@)]
       /\ portsIn' = [portsIn EXCEPT ![p][up[c][2][2]] =
                        [@ EXCEPT ![IF accepts[p] > Size[build] THEN "main" ELSE "fetch"] = c]]
       /\ up' = [up EXCEPT ![c] = After(2, @)]
  /\ accepts' = [accepts EXCEPT ![p] = @ - 1]
  /\ UNCHANGED <<build, main, listener, down, book, portsOut, id, work, ending, faults>>

AcceptPeer(p) ==
  /\ accepts[p] > 0 /\ pending[p] # <<>>
  /\ LET c == Head(pending[p]) IN
       /\ Len(up[c]) >= 2
       /\ Check(up[c], <<"type", "node">>)
       /\ pending' = [pending EXCEPT ![p] = Tail(@)]
       /\ portsIn' = IF Meant(up[c], <<"type", "node">>)
                     THEN [portsIn EXCEPT ![p][up[c][2][2]] = [@ EXCEPT ![up[c][1][2]] = c]]
                     ELSE portsIn
       /\ up' = [up EXCEPT ![c] = After(2, @)]
  /\ accepts' = [accepts EXCEPT ![p] = @ - 1]
  /\ UNCHANGED <<build, main, listener, down, book, portsOut, id, work, ending>>

(* thr.join(): the receivers are started, and the listener is closed.      *)
Connected(p) ==
  /\ At(p) = "connect" /\ main[p].n = Size[build] /\ accepts[p] = 0
  /\ GoTo(p, "run")
  /\ listener' = [listener EXCEPT ![p] = "closed"]
  /\ hand' = [hand EXCEPT ![p] = [i \in Live |-> Nobody]]
  /\ UNCHANGED <<build, up, pending, down, book, accepts, portsIn, portsOut, id,
                 queue, runner, due, waits, todo, local, left, open, wire, ending, faults>>

(* Starting with MPI: rank 0 hears the clock of every rank, in order;      *)
(* MPI_Comm_dup returns when all have called it.                           *)
SendTime(p) ==
  /\ At(p) = "time" /\ p # 0
  /\ up' = [up EXCEPT ![Boot(p)] = Append(@, <<"time", 0>>)]
  /\ GoTo(p, "dup")
  /\ UNCHANGED <<build, boot, work, ending, faults>>

HearTimes ==
  /\ At(0) = "time" /\ \A p \in Live \ {0} : up[Boot(p)] # <<>>
  /\ up' = [c \in Conns |-> IF c[3] = "boot" THEN <<>> ELSE up[c]]
  /\ GoTo(0, "dup")
  /\ UNCHANGED <<build, boot, work, ending, faults>>

Duplicate ==
  /\ \A p \in Live : At(p) = "dup"
  /\ main' = [p \in Procs |-> IF p \in Live THEN [at |-> "run", n |-> 0] ELSE main[p]]
  /\ hand' = [p \in Procs |-> IF p \in Live THEN [i \in Live |-> Nobody] ELSE hand[p]]
  /\ UNCHANGED <<build, up, boot, queue, runner, due, waits, todo, local, left, open, wire, ending, faults>>
-----------------------------------------------------------------------------
(* Messages.  A message to the node itself goes to its local queue and is  *)
(* not counted; the others are counted before they are sent.               *)

Up(p, i) == portsOut[p][i]["main"]
Sending(p, i, x) ==
  IF i = id[p]
  THEN local' = [local EXCEPT ![p] = Append(@, x)] /\ UNCHANGED <<up, wire>>
  ELSE /\ up' = [up EXCEPT ![Up(p, i)] = Append(@, x)]
       /\ wire' = [wire EXCEPT ![p].sent = @ + 1]
       /\ UNCHANGED local
Push(p, mode, x) == queue' = [queue EXCEPT ![p] = Append(@, [mode |-> mode, x |-> x])]

(* The barrier at the start has let all nodes set up their pools.          *)
Started == \A q \in Live : At(q) \notin {"file", "listen", "accept", "port", "ready", "slave",
                "id", "count", "book", "connect", "time", "dup", "failed"}
On(p, t)   == Home[t] = id[p]
Running(t) == left[t] # Null /\ left[t] # <<>>

StartRoot(t) ==
  /\ Started /\ t \in Roots[build] /\ left[t] = Null
  /\ left' = [left EXCEPT ![t] = Program[t]]
  /\ UNCHANGED <<build, main, up, boot, queue, runner, due, waits, todo, local, hand, open, wire, ending, faults>>

(* A task sends its next message; it ends with the last one.               *)
TaskSends(p, t) ==
  /\ On(p, t) /\ Running(t)
  /\ Push(p, "standard", Command(Head(left[t])))
  /\ left' = [left EXCEPT ![t] = Tail(@)]
  /\ UNCHANGED <<build, main, up, boot, runner, due, waits, todo, local, hand, open, wire, ending, faults>>

StreamOf(m) == CHOOSE t \in Tasks : m \in Range(Program[t])
Unsent(p)   == \E t \in Tasks : On(p, t) /\ todo[t] # <<>>
Unconfirmed(p) == \E t \in Tasks : On(p, t) /\ waits[t] # Null /\ due[p] # t
Awaited(m)  == IF m \in Confirmed THEN m ELSE Null

(* The runner takes from its queue, until it has been told to stop and no  *)
(* message is held back.                                                   *)
Takes(p, mode) ==
  /\ runner[p] # "off" /\ due[p] = Null /\ queue[p] # <<>> /\ Head(queue[p]).mode = mode
  /\ queue' = [queue EXCEPT ![p] = Tail(@)]
Ends(p, held)  == runner' = [runner EXCEPT ![p] = IF @ = "stopping" /\ ~held THEN "off" ELSE @]

RunStandard(p) ==
  /\ Takes(p, "standard")
  /\ LET m == Head(queue[p]).x.of  t == StreamOf(m) IN
       IF waits[t] = Null
       THEN /\ Sending(p, To[m], Command(m))
            /\ waits' = [waits EXCEPT ![t] = Awaited(m)]
            /\ UNCHANGED todo /\ Ends(p, Unsent(p))
       ELSE /\ todo' = [todo EXCEPT ![t] = Append(@, m)]
            /\ UNCHANGED <<up, wire, local, waits, runner>>
  /\ UNCHANGED <<build, main, boot, due, hand, left, open, ending, faults>>

(* A confirmation that arrived: the count goes down first, then the next   *)
(* messages of the stream are sent and counted.                            *)
RunConfirmation(p) ==
  /\ Takes(p, "loopback")
  /\ LET t == StreamOf(Head(queue[p]).x.of) IN
       IF todo[t] = <<>>
       THEN waits' = [waits EXCEPT ![t] = Null] /\ UNCHANGED due /\ Ends(p, Unsent(p))
       ELSE due' = [due EXCEPT ![p] = t] /\ UNCHANGED <<waits, runner>>
  /\ UNCHANGED <<build, main, up, boot, todo, local, hand, left, open, wire, ending, faults>>

SendHeld(p) ==
  /\ due[p] # Null
  /\ LET t == due[p]  m == Head(todo[t])  more == Awaited(m) = Null /\ Tail(todo[t]) # <<>> IN
       /\ Sending(p, To[m], Command(m))
       /\ todo'  = [todo EXCEPT ![t] = Tail(@)]
       /\ waits' = [waits EXCEPT ![t] = Awaited(m)]
       /\ due'   = [due EXCEPT ![p] = IF more THEN t ELSE Null]
       /\ Ends(p, more \/ Tail(todo[t]) # <<>> \/ \E s \in Tasks \ {t} : On(p, s) /\ todo[s] # <<>>)
  /\ UNCHANGED <<build, main, boot, queue, hand, left, open, ending, faults>>

(* Confirmations and CMD_exit are sent at once (MSM_direct_send).          *)
RunDirect(p) ==
  /\ Takes(p, "direct")
  /\ LET e == Head(queue[p]).x IN Sending(p, e.to, e.x)
  /\ Ends(p, Unsent(p))
  /\ UNCHANGED <<build, main, boot, due, waits, todo, hand, left, open, ending, faults>>

RunStop(p) ==
  /\ Takes(p, "stop")
  /\ runner' = [runner EXCEPT ![p] = IF Unsent(p) THEN "stopping" ELSE "off"]
  /\ UNCHANGED <<build, main, up, boot, due, waits, todo, local, hand, left, open, wire, ending, faults>>

(* A receiver takes the next message of its node, which is counted as      *)
(* received before it is handled, and ends at CMD_exit.                    *)
Receive(p, i) ==
  /\ i \in DOMAIN hand[p] /\ hand[p][i] = Nobody
  /\ LET own == i = id[p]
         c   == portsIn[p][i]["main"]
         s   == IF own THEN local[p] ELSE up[c] IN
       /\ s # <<>>
       /\ hand' = [hand EXCEPT ![p][i] = IF Head(s) = Exit THEN Gone ELSE Head(s)]
       /\ IF own THEN local' = [local EXCEPT ![p] = Tail(@)] /\ UNCHANGED <<up, wire>>
                 ELSE /\ up' = [up EXCEPT ![c] = Tail(@)]
                      /\ wire' = [wire EXCEPT ![p].received = @ + 1]
                      /\ UNCHANGED local
  /\ UNCHANGED <<build, main, boot, queue, runner, due, waits, todo, left, open, ending, faults>>

(* Mutant: a node that has sent CMD_shutdown to itself does not stop.      *)
HandleOthersOnly(p, i) ==
  /\ i \in DOMAIN hand[p] /\ hand[p][i] \notin {Nobody, Gone}
  /\ hand' = [hand EXCEPT ![p][i] = Nobody]
  /\ LET x == hand[p][i]  m == x.of IN
       IF x.what = "confirmation"
       THEN Push(p, "loopback", x) /\ UNCHANGED <<left, open>>
       ELSE /\ IF m \in Confirmed THEN Push(p, "direct", [to |-> i, x |-> Confirmation(m)])
                                  ELSE UNCHANGED queue
            /\ left' = IF Spawns[m] = Null THEN left
                       ELSE [left EXCEPT ![Spawns[m]] = Program[Spawns[m]]]
            /\ open' = [open EXCEPT ![p] = @ /\ (i = id[p] \/ m \notin Shutdowns)]
  /\ UNCHANGED <<build, main, up, boot, runner, due, waits, todo, local, wire, ending, faults>>

Handle(p, i) ==
  /\ i \in DOMAIN hand[p] /\ hand[p][i] \notin {Nobody, Gone}
  /\ hand' = [hand EXCEPT ![p][i] = Nobody]
  /\ LET x == hand[p][i]  m == x.of IN
       IF x.what = "confirmation"
       THEN Push(p, "loopback", x) /\ UNCHANGED <<left, open>>
       ELSE /\ IF m \in Confirmed THEN Push(p, "direct", [to |-> i, x |-> Confirmation(m)])
                                  ELSE UNCHANGED queue
            /\ left' = IF Spawns[m] = Null THEN left
                       ELSE [left EXCEPT ![Spawns[m]] = Program[Spawns[m]]]
            /\ open' = [open EXCEPT ![p] = @ /\ m \notin Shutdowns]
  /\ UNCHANGED <<build, main, up, boot, runner, due, waits, todo, local, wire, ending, faults>>
-----------------------------------------------------------------------------
(* The end.  tg->wait() returns when no task runs and the barrier task has *)
(* been released by CMD_shutdown.                                          *)

Idle(p) == ~open[p] /\ \A t \in Tasks : On(p, t) => ~Running(t)

(* Sockets: the runner is stopped first.                                   *)
SockStop(p) ==
  /\ build = "sock" /\ At(p) = "run" /\ Idle(p)
  /\ Push(p, "stop", Null) /\ GoTo(p, "stopping")
  /\ UNCHANGED <<build, up, boot, runner, due, waits, todo, local, hand, left, open, wire, ending, faults>>

(* ~socket_communicator: CMD_exit goes past the runner.                    *)
Exits(p) == {portsOut[p][i]["main"] : i \in Live \ {id[p]}}
SockExit(p) ==
  /\ build = "sock" /\ At(p) = "stopping" /\ runner[p] = "off"
  /\ up' = [c \in Conns |-> IF c \in Exits(p) \/ \E i \in Live : c = portsOut[p][i]["fetch"]
                            THEN Append(up[c], Exit) ELSE up[c]]
  /\ local' = [local EXCEPT ![p] = Append(@, Exit)]
  /\ GoTo(p, "join")
  /\ UNCHANGED <<build, boot, queue, runner, due, waits, todo, hand, left, open, wire, ending, faults>>

(* join(): every receiver has read CMD_exit; those of the fetches have     *)
(* nothing else to read any more.                                          *)
Joined(p) ==
  \A i \in Live : /\ hand[p][i] = Gone
                  /\ Exit \in Range(up[portsIn[p][i]["fetch"]])

SockJoin(p) ==
  /\ build = "sock" /\ At(p) = "join" /\ Joined(p) /\ GoTo(p, "done")
  /\ UNCHANGED <<build, up, boot, work, ending, faults>>

(* ~mpi_communicator: the drain.  A local fixpoint, tg->wait() and         *)
(* message_layer_quiet(), which reads two counters;                        *)
Wait(p) ==
  /\ build = "mpi" /\ At(p) = "run" /\ Idle(p) /\ GoTo(p, "unsent")
  /\ UNCHANGED <<build, up, boot, work, ending, faults>>
ReadUnsent(p) ==
  /\ At(p) = "unsent" /\ GoTo(p, IF Unsent(p) THEN "run" ELSE "unconfirmed")
  /\ UNCHANGED <<build, up, boot, work, ending, faults>>
ReadUnconfirmed(p) ==
  /\ At(p) = "unconfirmed" /\ GoTo(p, IF Unconfirmed(p) THEN "run" ELSE "received")
  /\ UNCHANGED <<build, up, boot, work, ending, faults>>

(* then the numbers of messages received and sent, in this order;          *)
Uncounted(p) ==
  \/ \E i \in DOMAIN queue[p] : queue[p][i].mode = "standard"
  \/ \E i \in DOMAIN local[p] : local[p][i].what = "command"
  \/ \E i \in Live : hand[p][i].what = "command"
ReadReceived(p) ==
  /\ At(p) = "received" /\ GoTo(p, "sent")
  /\ drain' = [drain EXCEPT ![p].snap = wire[p].received]
  /\ hidden' = [hidden EXCEPT ![p] = <<@[2], Uncounted(p)>>]
  /\ UNCHANGED <<build, up, boot, work, faults>>
ReadSent(p) ==
  /\ At(p) = "sent" /\ GoTo(p, "reduce")
  /\ drain' = [drain EXCEPT ![p].round = @ + 1,
                            ![p].given[(drain[p].round + 1) % 2] =
                                 [sent |-> wire[p].sent, received |-> drain[p].snap]]
  /\ UNCHANGED <<build, up, boot, work, hidden, faults>>

(* then MPI_Iallreduce, done when every rank has given its numbers.  The   *)
(* drain ends when nothing is in flight and nothing was sent since the     *)
(* round before.                                                           *)
(* Mutant: one round with nothing in flight is enough.                     *)
ReduceOnce(p) ==
  LET k        == drain[p].round
      total(f) == MapThenSumSet(LAMBDA q : drain[q].given[k % 2][f], Live) IN
  /\ At(p) = "reduce" /\ \A q \in Live : drain[q].round >= k
  /\ GoTo(p, IF total("sent") = total("received") THEN "exit" ELSE "run")
  /\ UNCHANGED <<build, up, boot, work, drain, hidden, faults>>

Reduce(p) ==
  LET k        == drain[p].round
      total(f) == MapThenSumSet(LAMBDA q : drain[q].given[k % 2][f], Live)
      traffic  == total("sent") + total("received") IN
  /\ At(p) = "reduce" /\ \A q \in Live : drain[q].round >= k
  /\ drain' = [drain EXCEPT ![p].prev = traffic]
  /\ GoTo(p, IF total("sent") = total("received") /\ traffic = drain[p].prev THEN "exit" ELSE "run")
  /\ UNCHANGED <<build, up, boot, work, hidden, faults>>

(* CMD_exit goes through the runner, not to overtake what it still holds;  *)
(* the one for the fetches does not.                                       *)
MpiExit(p) ==
  /\ build = "mpi" /\ At(p) = "exit"
  /\ queue' = [queue EXCEPT ![p] = @ \o [k \in 1..(Size[build] - 1) |->
       [mode |-> "direct", x |-> [to |-> IF k <= id[p] THEN k - 1 ELSE k, x |-> Exit]]]]
  /\ local' = [local EXCEPT ![p] = Append(@, Exit)]
  /\ up' = [c \in Conns |-> IF \E i \in Live : c = portsOut[p][i]["fetch"]
                            THEN Append(up[c], Exit) ELSE up[c]]
  /\ GoTo(p, "join")
  /\ UNCHANGED <<build, boot, runner, due, waits, todo, hand, left, open, wire, ending, faults>>

MpiStop(p) ==
  /\ build = "mpi" /\ At(p) = "join" /\ Joined(p)
  /\ Push(p, "stop", Null) /\ GoTo(p, "stopping")
  /\ UNCHANGED <<build, up, boot, runner, due, waits, todo, local, hand, left, open, wire, ending, faults>>

Finalize(p) ==
  /\ build = "mpi" /\ At(p) = "stopping" /\ runner[p] = "off" /\ Idle(p) /\ GoTo(p, "done")
  /\ UNCHANGED <<build, up, boot, work, ending, faults>>
-----------------------------------------------------------------------------
Unset    == [i \in Live |-> [kind \in {"main", "fetch"} |-> Null]]

Init ==
  /\ build \in Builds
  /\ main = [p \in Procs |-> [at |-> IF build = "mpi" THEN "time" ELSE IF p = 0 THEN "file" ELSE "slave",
                              n |-> 0]]
  /\ id = [p \in Procs |-> IF build = "mpi" \/ p = 0 THEN p ELSE -1]
  /\ listener = [p \in Procs |-> "none"] /\ pending = [p \in Procs |-> <<>>]
  /\ up = [c \in Conns |-> <<>>] /\ down = [c \in Conns |-> <<>>]
  /\ book = [p \in Procs |-> <<>>] /\ accepts = [p \in Procs |-> 0]
  /\ portsOut = [p \in Procs |-> IF build = "mpi" THEN [i \in Live |-> [kind \in {"main", "fetch"} |-> <<p, i, kind>>]] ELSE Unset]
  /\ portsIn = [p \in Procs |-> IF build = "mpi" THEN [i \in Live |-> [kind \in {"main", "fetch"} |-> <<i, p, kind>>]] ELSE Unset]
  /\ queue = [p \in Procs |-> <<>>] /\ runner = [p \in Procs |-> "on"] /\ due = [p \in Procs |-> Null]
  /\ waits = [t \in Tasks |-> Null] /\ todo = [t \in Tasks |-> <<>>]
  /\ local = [p \in Procs |-> <<>>] /\ hand = [p \in Procs |-> <<>>]
  /\ left = [t \in Tasks |-> Null] /\ open = [p \in Procs |-> TRUE]
  /\ wire = [p \in Procs |-> [sent |-> 0, received |-> 0]]
  /\ drain = [p \in Procs |-> [round |-> 0, snap |-> 0, prev |-> -1,
                               given |-> [k \in 0..1 |-> [sent |-> 0, received |-> 0]]]]
  /\ hidden = [p \in Procs |-> <<FALSE, FALSE>>]
  /\ faults = {}

Master == WriteBootFile \/ Listen \/ AcceptSlave \/ HearPort \/ HearReady \/ SendBook \/ HearTimes

Slave(p) == GreetMaster(p) \/ HearId(p) \/ HearCount(p) \/ HearBook(p) \/ SendTime(p)

Main(p) ==
  \/ Connect(p) \/ Connected(p)
  \/ SockStop(p) \/ SockExit(p) \/ SockJoin(p)
  \/ Wait(p) \/ ReadUnsent(p) \/ ReadUnconfirmed(p) \/ ReadReceived(p) \/ ReadSent(p) \/ Reduce(p)
  \/ MpiExit(p) \/ MpiStop(p) \/ Finalize(p)

Runner(p) == RunStandard(p) \/ RunConfirmation(p) \/ SendHeld(p) \/ RunDirect(p) \/ RunStop(p)

(* A stream of which a message, or the confirmation, was put where nobody  *)
(* takes it any more.                                                      *)
Lost(x) ==
  \/ \E p \in Live : runner[p] = "off" /\ \E e \in Range(queue[p]) : x = IF e.mode = "direct" THEN e.x.x ELSE e.x
  \/ \E p \in Live : hand[p][id[p]] = Gone /\ x \in Range(local[p])
  \/ \E p, q \in Live : LET c == portsOut[p][id[q]]["main"] IN
       c # Null /\ hand[q] # <<>> /\ hand[q][id[p]] = Gone /\ x \in Range(up[c])
Stranded == \E t \in Tasks : waits[t] # Null /\ (Lost(Command(waits[t])) \/ Lost(Confirmation(waits[t])))

Over == faults # {} \/ Stranded \/ \A p \in Live : At(p) = "done"
Terminated == Over /\ UNCHANGED vars

Others ==
  \/ Master \/ Duplicate
  \/ \E t \in Tasks : StartRoot(t)
  \/ \E p \in Live :
       \/ Slave(p) \/ AcceptPeer(p) \/ Runner(p)
       \/ \E t \in Tasks : TaskSends(p, t)
       \/ \E i \in Live : Receive(p, i) \/ Handle(p, i)

Next == Others \/ (\E p \in Live : Main(p)) \/ Terminated

Spec == Init /\ [][Next]_vars
(* Every thread runs when it can.  The main threads of an MPI build spin,  *)
(* so each has a condition of its own; the others never do anything twice. *)
FairSpec == Spec /\ WF_vars(Others) /\ \A p \in Procs : WF_vars(p \in Live /\ Main(p))
-----------------------------------------------------------------------------
(* A receiver's socket for node i is the other end of the socket node i    *)
(* sends to it with, of the same kind; a process runs with all its sockets *)
(* set (connect_all, accept_all: the two ends are matched by what the      *)
(* peers say, in an order nobody controls).                                *)
PortsPaired ==
  \A q \in Live, j \in Live, kind \in {"main", "fetch"} :
    LET c == portsIn[q][j][kind] IN
      /\ c # Null => /\ c[2] = q /\ c[3] = kind /\ id[c[1]] = j
                     /\ portsOut[c[1]][id[q]][kind] = c
      /\ hand[q] # <<>> => c # Null /\ portsOut[q][j][kind] # Null

(* Only a slave that reads the boot file before the master listens is      *)
(* refused.  Otherwise everyone listens, with room for all, before anyone  *)
(* learns its address, and nobody takes a connection of one phase for one  *)
(* of another.                                                             *)
OnlyEarlySlavesFail == faults \subseteq {<<"refused", "boot">>}

(* Whatever the order of connections, the processes end up connected.      *)
ConnectionsSound == PortsPaired /\ OnlyEarlySlavesFail

(* Nothing is left of the program: no message, no confirmation, no task.   *)
Silent ==
  /\ \A p \in Live : /\ \A e \in Range(queue[p]) : e.mode = "stop" \/ (e.mode = "direct" /\ e.x.x = Exit)
                     /\ Range(local[p]) \subseteq {Exit}
                     /\ \A i \in Live : hand[p][i] \in {Nobody, Gone}
  /\ \A c \in Conns : Range(up[c]) \subseteq {Exit}
  /\ \A t \in Tasks : ~Running(t) /\ waits[t] = Null /\ todo[t] = <<>>
Drained == build = "mpi" /\ \E p \in Live : At(p) \in {"exit", "join", "stopping", "done"}

(* The drain ends with nothing left, except where work escaped every       *)
(* counter twice: a message in the runner's queue, in a local queue or in  *)
(* a receiver's hands is in none of them, unless it is confirmed later.    *)
DrainFindsAllCounted == Drained /\ (\A p \in Live : hidden[p] = <<FALSE, FALSE>>) => Silent

(* Every process connects, runs and ends, or one was refused, or a runner  *)
(* waits for a confirmation that was stranded.                             *)
EveryProcessEnds == <>Over
=============================================================================
