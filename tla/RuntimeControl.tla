---------------------------- MODULE RuntimeControl ----------------------------
(***************************************************************************)
(* Runtime control of the distributed runtime: the barrier, pausing all    *)
(* nodes, flushing the channels, resuming, and the shutdown.               *)
(*                                                                         *)
(* A node has a sender thread (the runner) with one queue, a receiver      *)
(* thread per node it hears from (itself included), a pool that runs tasks *)
(* and a main thread.  A manager thread on the root pauses all nodes,      *)
(* flushes and resumes them, again and again (do_periodic_save).           *)
(*                                                                         *)
(* The program is a set of tokens: the work a token stands for is a        *)
(* message on its way, a message being handled, a task, or a message or a  *)
(* task put aside by a paused node.  A token moves on Hops times; the one  *)
(* that ends last shuts the runtime down.  The order in which the runner   *)
(* holds messages of a stream back is in MsgStream; it is left out here,   *)
(* as every token is a stream of its own.  The dump to a file between  *)
(* flush and resume is the subject of Checkpoint.                          *)
(***************************************************************************)
EXTENDS Integers, Sequences, FiniteSets, SequencesExt

CONSTANTS
  Nodes,
  Root,         \* node 0: root of the barrier, and where the manager runs
  Rounds,       \* how often the nodes meet at the barrier before the program
  Pauses,       \* BOUND: how often the manager pauses the runtime
  Tokens,
  Hops,         \* BOUND: Hops[t]: how often token t is sent on
  Null

ASSUME ControlAssumption ==
  /\ Root \in Nodes /\ IsFiniteSet(Nodes)
  /\ Rounds \in Nat \ {0, 1} /\ Pauses \in Nat
  /\ IsFiniteSet(Tokens) /\ Hops \in [Tokens -> Nat]
  /\ Null \notin Tokens \cup Nodes

VARIABLES
  queue,        \* queue[n]: the runner's queue, messages [cmd, to, token]
  wire,         \* wire[m][n]: messages from m to n that n has not received
  flush,        \* flush[n]: the runner's flushing, dirty, flushes_in_progress
  receiver,     \* receiver[m][n]: what n's receiver of m's messages is doing
  isPaused,     \* is_paused_
  messages,     \* paused_messages_
  deferred,     \* paused_tasks_
  running,      \* running[n]: the tasks counted by running_task_count_
  pauser,       \* pauser[n]: the pauser_task
  manager,      \* the manager: [at, left]; left is nodes_to_pause_
  cycles,       \* how often the manager has paused the runtime
  arrived,      \* barrier_count_ of the root
  released,     \* barrier_done_
  entered,      \* history: the rounds a node has entered
  passed,       \* the rounds a node has left
  main,         \* main[n]: the node's main thread
  barrierTask,  \* barrierTask[n]: the barrier task still holds the pool open
  hops,         \* hops[t]: how often token t will still be sent on
  ended,        \* the tokens whose last task has ended
  lost,         \* history: messages erased with paused_messages_
  overlaps,     \* history: which of two unguarded overlaps have happened
  faults        \* the assertions that have failed

control == <<flush, isPaused, pauser, manager, cycles>>
barrier == <<arrived, released, entered, passed, main>>
meeting == <<arrived, released, entered, passed>>
work    == <<messages, deferred, running, hops, ended, barrierTask, lost>>
vars    == <<queue, wire, receiver, control, barrier, work, overlaps, faults>>

-----------------------------------------------------------------------------
(***************************************************************************)
(* Messages.  A message to oneself is also put on a wire; only the         *)
(* loopback messages are for the node's own runner.                        *)
(***************************************************************************)
Message(cmd, n)      == [cmd |-> cmd, to |-> n, token |-> Null]
TokenMessage(t, n)   == [cmd |-> "work", to |-> n, token |-> t]
Loopback(cmd)        == [cmd |-> cmd, to |-> Null, token |-> Null]
ToAll(cmd)           == {Message(cmd, n) : n \in Nodes}

Post(n, msgs)  == queue' = [queue EXCEPT ![n] = @ \o msgs]
PostAll(n, cmd) == Post(n, SetToSeq(ToAll(cmd)))

(* The runner sends at most one message to a node in a step.               *)
For(m, msgs)   == IF \E x \in msgs : x.to = m THEN <<CHOOSE x \in msgs : x.to = m>> ELSE <<>>
Sent(n, msgs)  == wire' = [wire EXCEPT ![n] = [m \in Nodes |-> @[m] \o For(m, msgs)]]

(* What a receiver thread is doing: handling a message or putting it aside *)
(* (after it has looked at is_paused_), or resuming its node.              *)
Idle           == [at |-> "idle"]
Busy(at, m)    == [at |-> at, message |-> m]
Resuming(i)    == [at |-> "resume", next |-> i]
Clearing(i)    == [at |-> "clear", next |-> i]
Becomes(m, n, r) == receiver' = [receiver EXCEPT ![m][n] = r]

-----------------------------------------------------------------------------
(***************************************************************************)
(* The barrier.                                                            *)
(***************************************************************************)
EnterBarrier(n) ==
  /\ main[n] = "start" /\ entered[n] = passed[n] /\ entered[n] < Rounds
  /\ released' = [released EXCEPT ![n] = FALSE]
  /\ entered' = [entered EXCEPT ![n] = @ + 1]
  /\ Post(n, <<Message("barrier", Root)>>)
  /\ UNCHANGED <<wire, receiver, control, arrived, passed, main, work, overlaps, faults>>

LeaveBarrier(n) ==
  /\ entered[n] > passed[n] /\ released[n]
  /\ passed' = [passed EXCEPT ![n] = @ + 1]
  /\ UNCHANGED <<queue, wire, receiver, control, arrived, released, entered, main, work,
                 overlaps, faults>>

(* MUTANT: the count is compared with the number of nodes, and not reset.  *)
RoundOnce(count) ==
  IF count = Cardinality(Nodes) THEN SetToSeq(ToAll("barrier_done")) ELSE <<>>
(* MUTANT: the test comes before the increment.                            *)
RoundEarly(count) ==
  IF (count - 1) % Cardinality(Nodes) = 0 THEN SetToSeq(ToAll("barrier_done")) ELSE <<>>
(* The answer of the root to the count-th arrival.                         *)
Round(count) ==
  IF count % Cardinality(Nodes) = 0 THEN SetToSeq(ToAll("barrier_done")) ELSE <<>>

-----------------------------------------------------------------------------
(***************************************************************************)
(* Tasks and their messages.                                               *)
(***************************************************************************)
(* A task is handed to the pool, or put aside if the node is paused.       *)
Spawn(n, t) ==
  IF isPaused[n]
    THEN deferred' = [deferred EXCEPT ![n] = @ \cup {t}] /\ UNCHANGED running
    ELSE running' = [running EXCEPT ![n] = @ \cup {t}] /\ UNCHANGED deferred

(* The token is sent on, by a handler or a task of n.                      *)
Forward(n, t) ==
  /\ hops[t] > 0
  /\ hops' = [hops EXCEPT ![t] = @ - 1]
  /\ \E m \in Nodes : Post(n, <<TokenMessage(t, m)>>)

(* What a handler does for a message: it starts a task or sends another    *)
(* message (forwards or confirms it).                                      *)
Process(n, t) ==
  \/ Spawn(n, t) /\ UNCHANGED <<queue, hops>>
  \/ Forward(n, t) /\ UNCHANGED <<running, deferred>>

(* A task ends, having sent what it had to send; the last one shuts down.  *)
RunTask(n) ==
  \E t \in running[n] :
    /\ running' = [running EXCEPT ![n] = @ \ {t}]
    /\ \/ Forward(n, t) /\ UNCHANGED ended
       \/ /\ hops[t] = 0
          /\ ended' = ended \cup {t}
          /\ Post(n, IF ended' = Tokens THEN SetToSeq(ToAll("shutdown")) ELSE <<>>)
          /\ UNCHANGED hops
    /\ UNCHANGED <<wire, receiver, control, barrier, messages, deferred, barrierTask, lost,
                   overlaps, faults>>

(* The root's main thread starts the program after the barrier.            *)
Launch(n) ==
  /\ n = Root /\ main[n] = "start" /\ passed[n] = Rounds
  /\ main' = [main EXCEPT ![n] = "wait"]
  /\ \E at \in [Tokens -> Nodes] :
       Post(n, SetToSeq({TokenMessage(t, at[t]) : t \in Tokens}))
  /\ overlaps' = IF isPaused[n] THEN overlaps \cup {"outside"} ELSE overlaps
  /\ UNCHANGED <<wire, receiver, control, meeting, work, faults>>

(* Another node's main thread just waits for its pool after the barrier.   *)
StartWorker(n) ==
  /\ n # Root /\ main[n] = "start" /\ passed[n] = Rounds
  /\ main' = [main EXCEPT ![n] = "wait"]
  /\ UNCHANGED <<queue, wire, receiver, control, meeting, work, overlaps, faults>>

(* task_group::wait returns: the shutdown has released the barrier task    *)
(* and the pool holds no task, running or put aside.                       *)
Stop(n) ==
  /\ main[n] = "wait" /\ ~barrierTask[n]
  /\ running[n] = {} /\ deferred[n] = {} /\ pauser[n] = "none"
  /\ main' = [main EXCEPT ![n] = "stopped"]
  /\ UNCHANGED <<queue, wire, receiver, control, meeting, work, overlaps, faults>>

-----------------------------------------------------------------------------
(***************************************************************************)
(* The runner.                                                             *)
(***************************************************************************)
Runner(n) ==
  /\ queue[n] # <<>>
  /\ LET m == Head(queue[n]) f == flush[n] IN
       CASE m = Loopback("flush") ->
              /\ flush' = [flush EXCEPT ![n] = [on |-> TRUE, dirty |-> FALSE, left |-> Cardinality(Nodes)]]
              /\ Sent(n, ToAll("flush"))
              /\ faults' = IF f.on THEN faults \cup {"flushing"} ELSE faults
         [] m = Loopback("reflush") ->
              /\ flush' = [flush EXCEPT ![n].left = @ - 1, ![n].on = f.left > 1]
              /\ Sent(n, IF f.left = 1 /\ ~f.dirty THEN {Message("flushed", Root)} ELSE {})
              /\ faults' = IF f.left = 1 /\ f.dirty THEN faults \cup {"dirty"} ELSE faults
         [] OTHER ->
              /\ flush' = [flush EXCEPT ![n].dirty = @ \/ (f.on /\ m.cmd \in {"work", "shutdown"})]
              /\ Sent(n, {m})
              /\ UNCHANGED faults
  /\ queue' = [queue EXCEPT ![n] = Tail(@)]
  /\ UNCHANGED <<receiver, isPaused, pauser, manager, cycles, barrier, work, overlaps>>

-----------------------------------------------------------------------------
(***************************************************************************)
(* The receivers.                                                          *)
(***************************************************************************)
(* The barrier and the answers to a pause are handled at all times.        *)
ReceiveAlways(m, n, x) ==
  CASE x.cmd = "paused" ->
         /\ manager' = [manager EXCEPT !.left = @ - 1]
         /\ UNCHANGED <<queue, arrived, released>>
    [] x.cmd = "barrier" ->
         /\ arrived' = arrived + 1
         /\ Post(n, Round(arrived + 1))
         /\ UNCHANGED <<manager, released>>
    [] x.cmd = "barrier_done" ->
         /\ released' = [released EXCEPT ![n] = TRUE]
         /\ UNCHANGED <<queue, manager, arrived>>

ReceiveBarrier(m, n) ==
  /\ receiver[m][n] = Idle /\ wire[m][n] # <<>>
  /\ LET x == Head(wire[m][n]) IN
       x.cmd \in {"paused", "barrier", "barrier_done"} /\ ReceiveAlways(m, n, x)
  /\ wire' = [wire EXCEPT ![m][n] = Tail(@)]
  /\ UNCHANGED <<receiver, flush, isPaused, pauser, cycles, entered, passed, main, work, overlaps, faults>>

(* MUTANT: a node that is paused reports its flush at once.                *)
AnswerAtOnce(m, x) ==
  CASE x.cmd = "start_flush" -> <<Message("flushed", Root)>>
    [] OTHER                 -> <<>>
(* A paused node goes through the flush, resumes or puts the message aside. *)
Answer(m, x) ==
  CASE x.cmd = "start_flush" -> <<Loopback("flush")>>
    [] x.cmd = "flush"       -> <<Message("reflush", m)>>
    [] x.cmd = "reflush"     -> <<Loopback("reflush")>>
    [] OTHER                 -> <<>>
ReceivePaused(m, n) ==
  /\ receiver[m][n] = Idle /\ wire[m][n] # <<>> /\ isPaused[n]
  /\ LET x == Head(wire[m][n]) IN
       /\ x.cmd \notin {"paused", "barrier", "barrier_done"}
       /\ Post(n, Answer(m, x))
       /\ manager' = IF x.cmd = "flushed" THEN [manager EXCEPT !.left = @ - 1] ELSE manager
       /\ isPaused' = [isPaused EXCEPT ![n] = x.cmd # "resume"]
       /\ IF x.cmd = "resume"
            THEN /\ running' = [running EXCEPT ![n] = @ \cup deferred[n]]
                 /\ deferred' = [deferred EXCEPT ![n] = {}]
            ELSE UNCHANGED <<running, deferred>>
       /\ CASE x.cmd = "resume"               -> Becomes(m, n, Resuming(1))
            [] x.cmd \in {"work", "shutdown", "pause"} -> Becomes(m, n, Busy("park", x))
            [] OTHER                          -> UNCHANGED receiver
  /\ wire' = [wire EXCEPT ![m][n] = Tail(@)]
  /\ UNCHANGED <<flush, pauser, cycles, barrier, messages, hops, ended, barrierTask, lost,
                 overlaps, faults>>

(* A message that finds its node running is handled.                       *)
ReceiveRunning(m, n) ==
  /\ receiver[m][n] = Idle /\ wire[m][n] # <<>> /\ ~isPaused[n]
  /\ LET x == Head(wire[m][n]) IN
       /\ x.cmd \notin {"paused", "barrier", "barrier_done"}
       /\ pauser' = IF x.cmd = "pause" THEN [pauser EXCEPT ![n] = "started"] ELSE pauser
       /\ IF x.cmd \in {"work", "shutdown"} THEN Becomes(m, n, Busy("handle", x)) ELSE UNCHANGED receiver
       /\ faults' = IF x.cmd \in {"work", "shutdown", "pause"} THEN faults ELSE faults \cup {"command"}
  /\ wire' = [wire EXCEPT ![m][n] = Tail(@)]
  /\ UNCHANGED <<queue, flush, isPaused, manager, cycles, barrier, work, overlaps>>

(* The handler of a message, under the mutex of the command processor.     *)
HandleMessage(n, x) ==
  \/ x.cmd = "work" /\ Process(n, x.token) /\ UNCHANGED barrierTask
  \/ /\ x.cmd = "shutdown"
     /\ barrierTask' = [barrierTask EXCEPT ![n] = FALSE]
     /\ UNCHANGED <<queue, hops, running, deferred>>
Handle(m, n) ==
  /\ receiver[m][n].at = "handle"
  /\ HandleMessage(n, receiver[m][n].message)
  /\ Becomes(m, n, Idle)
  /\ UNCHANGED <<wire, control, barrier, messages, ended, lost, overlaps, faults>>

(* add_paused_message; it takes no mutex against a resume.                 *)
Park(m, n) ==
  /\ receiver[m][n].at = "park"
  /\ messages' = [messages EXCEPT ![n] = Append(@, receiver[m][n].message)]
  /\ overlaps' = IF isPaused[n] THEN overlaps ELSE overlaps \cup {"park"}
  /\ Becomes(m, n, Idle)
  /\ UNCHANGED <<queue, wire, control, barrier, deferred, running, hops, ended, barrierTask, lost, faults>>

(* resume: the messages put aside are handled one by one, then all are     *)
(* erased.                                                                 *)
More(n, i) == i <= Len(messages[n])
Resume(m, n) ==
  /\ receiver[m][n].at = "resume"
  /\ LET i == receiver[m][n].next IN
       IF More(n, i)
         THEN HandleMessage(n, messages[n][i]) /\ Becomes(m, n, Resuming(i + 1))
         ELSE Becomes(m, n, Clearing(i)) /\ UNCHANGED <<queue, hops, running, deferred, barrierTask>>
  /\ UNCHANGED <<wire, control, barrier, messages, ended, lost, overlaps, faults>>
ClearPaused(m, n) ==
  /\ receiver[m][n].at = "clear"
  /\ lost' = lost \cup {messages[n][i] : i \in receiver[m][n].next..Len(messages[n])}
  /\ messages' = [messages EXCEPT ![n] = <<>>]
  /\ Becomes(m, n, Idle)
  /\ UNCHANGED <<queue, wire, control, barrier, deferred, running, hops, ended, barrierTask, overlaps, faults>>

-----------------------------------------------------------------------------
(***************************************************************************)
(* Pausing.                                                                *)
(***************************************************************************)
(* The pauser_task: it forbids new tasks and waits for those that run.     *)
SetPaused(n) ==
  /\ pauser[n] = "started"
  /\ isPaused' = [isPaused EXCEPT ![n] = TRUE]
  /\ pauser' = [pauser EXCEPT ![n] = "waiting"]
  /\ overlaps' = IF \E m \in Nodes : receiver[m][n].at \in {"handle", "resume", "clear"}
                   THEN overlaps \cup {"outside"} ELSE overlaps
  /\ UNCHANGED <<queue, wire, receiver, flush, manager, cycles, barrier, work, faults>>
ReportPaused(n) ==
  /\ pauser[n] = "waiting" /\ running[n] = {}
  /\ pauser' = [pauser EXCEPT ![n] = "none"]
  /\ Post(n, <<Message("paused", Root)>>)
  /\ UNCHANGED <<wire, receiver, flush, isPaused, manager, cycles, barrier, work, overlaps, faults>>

(* The manager thread, started when the subsystems are initialized.        *)
StartPause ==
  /\ manager.at = "idle" /\ cycles < Pauses
  /\ passed[Root] >= Rounds - 1 /\ ~isPaused[Root]
  /\ manager' = [at |-> "pausing", left |-> Cardinality(Nodes)]
  /\ cycles' = cycles + 1
  /\ PostAll(Root, "pause")
  /\ UNCHANGED <<wire, receiver, flush, isPaused, pauser, barrier, work, overlaps, faults>>
StartFlush ==
  /\ manager = [at |-> "pausing", left |-> 0]
  /\ manager' = [at |-> "flushing", left |-> Cardinality(Nodes)]
  /\ PostAll(Root, "start_flush")
  /\ UNCHANGED <<wire, receiver, flush, isPaused, pauser, cycles, barrier, work, overlaps, faults>>
EndFlush ==
  /\ manager = [at |-> "flushing", left |-> 0]
  /\ manager' = [manager EXCEPT !.at = "flushed"]
  /\ UNCHANGED <<queue, wire, receiver, flush, isPaused, pauser, cycles, barrier, work, overlaps, faults>>
StartResume ==
  /\ manager.at = "flushed"
  /\ manager' = [manager EXCEPT !.at = "idle"]
  /\ PostAll(Root, "resume")
  /\ UNCHANGED <<wire, receiver, flush, isPaused, pauser, cycles, barrier, work, overlaps, faults>>

-----------------------------------------------------------------------------
Init ==
  /\ queue = [n \in Nodes |-> <<>>]
  /\ wire = [m \in Nodes |-> [n \in Nodes |-> <<>>]]
  /\ flush = [n \in Nodes |-> [on |-> FALSE, dirty |-> FALSE, left |-> 0]]
  /\ receiver = [m \in Nodes |-> [n \in Nodes |-> Idle]]
  /\ isPaused = [n \in Nodes |-> FALSE]
  /\ messages = [n \in Nodes |-> <<>>]
  /\ deferred = [n \in Nodes |-> {}]
  /\ running = [n \in Nodes |-> {}]
  /\ pauser = [n \in Nodes |-> "none"]
  /\ manager = [at |-> "idle", left |-> 0]
  /\ cycles = 0 /\ arrived = 0
  /\ released = [n \in Nodes |-> FALSE]
  /\ entered = [n \in Nodes |-> 0] /\ passed = [n \in Nodes |-> 0]
  /\ main = [n \in Nodes |-> "start"]
  /\ barrierTask = [n \in Nodes |-> TRUE]
  /\ hops = Hops /\ ended = {} /\ lost = {} /\ overlaps = {} /\ faults = {}

(* The pool of a node, its pauser included.                                *)
Pool(n)    == RunTask(n) \/ SetPaused(n) \/ ReportPaused(n)
Receiver(m, n) ==
  \/ ReceiveBarrier(m, n) \/ ReceivePaused(m, n) \/ ReceiveRunning(m, n)
  \/ Handle(m, n) \/ Park(m, n) \/ Resume(m, n) \/ ClearPaused(m, n)
MainThread(n) ==
  \/ EnterBarrier(n) \/ LeaveBarrier(n) \/ Launch(n) \/ StartWorker(n) \/ Stop(n)
Manager == StartPause \/ StartFlush \/ EndFlush \/ StartResume

(* A node whose flush has failed never answers (the assertion is the end   *)
(* of a debug build), and a program whose messages are lost never ends.    *)
Finished == (\A n \in Nodes : main[n] = "stopped") /\ manager.at = "idle" /\ cycles = Pauses
Spoilt   == faults # {} \/ "park" \in overlaps
Terminated == (Finished \/ Spoilt) /\ UNCHANGED vars

Next ==
  \/ \E n \in Nodes : Runner(n) \/ Pool(n) \/ MainThread(n)
  \/ \E m, n \in Nodes : Receiver(m, n)
  \/ Manager
  \/ Terminated

Spec == Init /\ [][Next]_vars

(* Every thread goes on: nothing here has a choice about that, and every   *)
(* behaviour is finite, so it is enough that the system as a whole does.   *)
FairSpec == Spec /\ WF_vars(Next)

-----------------------------------------------------------------------------
(***************************************************************************)
(* Properties.                                                             *)
(***************************************************************************)
(* Nobody leaves a round of the barrier that somebody has not entered.     *)
BarrierHolds == \A m, n \in Nodes : passed[m] <= entered[n]

(* From the moment all nodes have reported that they are paused until the  *)
(* manager resumes them, no node runs a task.                              *)
StoppedWhilePaused ==
  (manager.at \in {"flushing", "flushed"} \/ manager = [at |-> "pausing", left |-> 0])
    => \A n \in Nodes : isPaused[n] /\ running[n] = {}

(* When the flush is over every message has been put aside by the node it  *)
(* is for, none is in a queue or on a wire, and no flush has met another   *)
(* message -- unless a handler or the launcher, which no count of tasks    *)
(* includes, was at work while its node was paused.                        *)
InFlight ==
  {x \in UNION ({Range(queue[n]) : n \in Nodes} \cup {Range(wire[m][n]) : m, n \in Nodes}) :
     x.cmd \in {"work", "shutdown"}}
FlushEmptiesChannels ==
  "outside" \notin overlaps =>
    /\ faults = {}
    /\ manager.at = "flushed" => InFlight = {}
    /\ manager.at = "flushed" => \A m, n \in Nodes : receiver[m][n] = Idle

(* A pause loses no message, unless one was put aside while its node       *)
(* resumed: resume holds a mutex that the threads which put messages aside *)
(* do not take.                                                            *)
OnlyRacesLose == "park" \notin overlaps => lost = {}

(* A pause stops the program and loses nothing: no task runs, no message is *)
(* under way once the channels are flushed, and what was put aside is back *)
(* after the resume.                                                       *)
PauseHolds == StoppedWhilePaused /\ FlushEmptiesChannels /\ OnlyRacesLose

(* The nodes get through the barrier, every pause comes to an end, and the *)
(* program runs to its shutdown, unless one of the above is to blame.      *)
EverythingEnds == <>(Finished \/ Spoilt)

=============================================================================
