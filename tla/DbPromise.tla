----------------------------- MODULE DbPromise -----------------------------
(***************************************************************************)
(* What a data block promises the tasks that use it, whatever protocol     *)
(* moves its contents between the nodes.                                   *)
(*                                                                         *)
(* A task asks for the block, holds it and gives it back.  While it holds  *)
(* the block no task of its node holds it in an incompatible mode, and     *)
(* every task that may write holds it on the same node.  A task that gets  *)
(* the block finds in it at least the writes released before it asked; a   *)
(* writer finds every write made so far.                                   *)
(***************************************************************************)
CONSTANTS Tasks, Home, Mode

VARIABLES
  phase,     \* phase[t]: "idle", "waiting", "holding" or "done"
  written,   \* the tasks that have written the block
  released,  \* the writers that have given the block back
  needed,    \* needed[t]: what had been released when t asked
  view       \* view[t]: the writes t found when it got the block

vars == <<phase, written, released, needed, view>>

Writers == {t \in Tasks : Mode[t] \in {"RW", "EW"}}
In(p)   == {t \in Tasks : phase[t] = p}

(* The tasks H may hold the block together.                                *)
MayHold(H) ==
  \A t, u \in H : t # u =>
    /\ Home[t] = Home[u] => /\ Mode[t] # "EW"
                            /\ Mode[t] = "CONST" => Mode[u] = "CONST"
    /\ t \in Writers /\ u \in Writers => Home[t] = Home[u]

Init ==
  /\ phase = [t \in Tasks |-> "idle"]
  /\ written = {} /\ released = {}
  /\ needed = [t \in Tasks |-> {}]
  /\ view = [t \in Tasks |-> {}]

(* The tasks of asking become ready, those of leaving give the block back, *)
(* and some tasks that are ready get it.                                   *)
Move(asking, leaving) ==
  /\ asking \subseteq In("idle") /\ leaving \subseteq In("holding")
  /\ leaving \cap Writers \subseteq written
  /\ \E G \in SUBSET (In("waiting") \cup asking) :
       /\ MayHold((In("holding") \ leaving) \cup G)
       /\ phase' = [t \in Tasks |-> CASE t \in G       -> "holding"
                                      [] t \in leaving -> "done"
                                      [] t \in asking \ G -> "waiting"
                                      [] OTHER         -> phase[t]]
       /\ needed' = [t \in Tasks |-> IF t \in asking THEN released ELSE needed[t]]
       /\ \A t \in Tasks \ G : view'[t] = view[t]
       /\ \A t \in G : /\ needed'[t] \subseteq view'[t] /\ view'[t] \subseteq written
                       /\ t \in Writers => view'[t] = written
  /\ released' = released \cup (leaving \cap Writers)
  /\ UNCHANGED written

Write(t) ==
  /\ phase[t] = "holding" /\ t \in Writers
  /\ written' = written \cup {t}
  /\ UNCHANGED <<phase, released, needed, view>>

Next ==
  \/ \E t \in Tasks : Move({t}, {}) \/ Move({}, {t}) \/ Write(t)
  \/ Move({}, {})

Spec == Init /\ [][Next]_vars
=============================================================================
