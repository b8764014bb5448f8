--------------------------- MODULE FinishPromise ---------------------------
(***************************************************************************)
(* What a graph of tasks promises a program, whichever runtime runs it.    *)
(*                                                                         *)
(* A running task creates tasks.  A task begins once, after the tasks it   *)
(* depends on have fired.  A task fires (its output event is triggered)    *)
(* once, after it has ended; a finish task after everything that was       *)
(* created in it, directly or by its descendants, has ended and fired.     *)
(***************************************************************************)
CONSTANTS
  Tasks,
  Main,       \* the task that is running first
  Finish,     \* the tasks created with EDT_PROP_FINISH
  Needs       \* Needs[t]: the tasks whose output events feed pre-slots of t

VARIABLES
  phase,      \* phase[t]: "absent", "waiting", "running" or "ended"
  scopes,     \* scopes[t]: the finish tasks t was created in
  fired       \* the tasks that have fired

vars == <<phase, scopes, fired>>

Init ==
  /\ phase = [t \in Tasks |-> IF t = Main THEN "running" ELSE "absent"]
  /\ scopes = [t \in Tasks |-> {}]
  /\ fired = {}

Create(p, t) ==
  /\ phase[p] = "running" /\ phase[t] = "absent"
  /\ phase' = [phase EXCEPT ![t] = "waiting"]
  /\ scopes' = [scopes EXCEPT ![t] = scopes[p] \cup ({p} \cap Finish)]
  /\ UNCHANGED fired

Begin(t) ==
  /\ phase[t] = "waiting" /\ Needs[t] \subseteq fired
  /\ phase' = [phase EXCEPT ![t] = "running"]
  /\ UNCHANGED <<scopes, fired>>

End(t) ==
  /\ phase[t] = "running"
  /\ phase' = [phase EXCEPT ![t] = "ended"]
  /\ UNCHANGED <<scopes, fired>>

Fire(t) ==
  /\ phase[t] = "ended" /\ t \notin fired
  /\ \A u \in Tasks : t \in scopes[u] => u \in fired
  /\ fired' = fired \cup {t}
  /\ UNCHANGED <<phase, scopes>>

Next ==
  \E t \in Tasks : Begin(t) \/ End(t) \/ Fire(t) \/ \E p \in Tasks : Create(p, t)

Spec == Init /\ [][Next]_vars

(* A finish task that has fired encloses no task that may still run or     *)
(* fire, and no task can be created in it any more.                        *)
ScopeClosed ==
  \A t \in fired : \A u \in Tasks : t \in scopes[u] => phase[u] = "ended" /\ u \in fired

(* A task that has begun finds everything it depends on ended, and every   *)
(* finish scope it depends on closed.                                      *)
DependencesEnded ==
  \A t \in Tasks \ {Main} : phase[t] \in {"running", "ended"} =>
    \A v \in Needs[t] : /\ phase[v] = "ended"
                        /\ \A u \in Tasks : v \in scopes[u] => phase[u] = "ended"
=============================================================================
