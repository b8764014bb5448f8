------------------------ MODULE FinishPromise_proofs ------------------------
(***************************************************************************)
(* What FinishPromise gives the programs: proofs for every set of tasks,   *)
(* every nesting of finish tasks and every graph of dependences.           *)
(***************************************************************************)
EXTENDS FinishPromise, TLAPS

Phases == {"absent", "waiting", "running", "ended"}

TypeInv ==
  /\ phase \in [Tasks -> Phases]
  /\ scopes \in [Tasks -> SUBSET Tasks]
  /\ fired \subseteq Tasks

(* Only ended tasks have fired: what makes ScopeClosed inductive, since a  *)
(* task that has fired can create nothing.                                 *)
FiredEnded == \A t \in fired : phase[t] = "ended"

(* A task that has begun had its dependences fired.                        *)
NeedsFired ==
  \A t \in Tasks \ {Main} : phase[t] \in {"running", "ended"} => Needs[t] \subseteq fired

IInv == TypeInv /\ FiredEnded /\ ScopeClosed /\ NeedsFired

(* In the initial state only the first task runs and nothing has fired.    *)
LEMMA InitEstablishes == Init => IInv
  BY DEF Init, IInv, TypeInv, Phases, FiredEnded, ScopeClosed, NeedsFired

(* A created task is in a scope only if its creator, which runs, is the    *)
(* scope's task or in the scope: such a scope has not fired.               *)
LEMMA CreatePreserves ==
  ASSUME IInv, NEW p \in Tasks, NEW t \in Tasks, Create(p, t)
  PROVE  IInv'
<1> USE DEF IInv, TypeInv, Phases
<1>1. TypeInv'
  BY DEF Create
<1>2. phase[p] # "ended" /\ phase[t] # "ended" /\ p \notin fired /\ t \notin fired
  BY DEF Create, FiredEnded
<1>3. \A u \in Tasks : u # t => phase'[u] = phase[u] /\ scopes'[u] = scopes[u]
  BY DEF Create
<1>4. fired' = fired /\ scopes'[t] = scopes[p] \cup ({p} \cap Finish) /\ phase'[t] = "waiting"
  BY DEF Create
<1>5. FiredEnded'
  BY <1>2, <1>3, <1>4 DEF FiredEnded
<1>6. ScopeClosed'
  <2> SUFFICES ASSUME NEW s \in fired', NEW u \in Tasks, s \in scopes'[u]
               PROVE  phase'[u] = "ended" /\ u \in fired'
    BY DEF ScopeClosed
  <2>1. CASE u = t
    <3>1. s \in scopes[p] \/ s = p
      BY <2>1, <1>4
    <3>2. s \in fired
      BY <1>4
    <3> QED BY <3>1, <3>2, <1>2 DEF ScopeClosed
  <2>2. CASE u # t
    BY <2>2, <1>3, <1>4 DEF ScopeClosed
  <2> QED BY <2>1, <2>2
<1>7. NeedsFired'
  BY <1>3, <1>4 DEF NeedsFired
<1> QED BY <1>1, <1>5, <1>6, <1>7

(* A task begins with its dependences fired, and becomes "ended" only from *)
(* "running".                                                              *)
LEMMA BeginPreserves ==
  ASSUME IInv, NEW t \in Tasks, Begin(t)
  PROVE  IInv'
<1> USE DEF IInv, TypeInv, Phases
<1>1. TypeInv' /\ FiredEnded' /\ ScopeClosed'
  BY DEF Begin, FiredEnded, ScopeClosed
<1>2. NeedsFired'
  BY DEF Begin, NeedsFired
<1> QED BY <1>1, <1>2

(* The end of a task disturbs no scope.                                    *)
LEMMA EndPreserves ==
  ASSUME IInv, NEW t \in Tasks, End(t)
  PROVE  IInv'
<1> USE DEF IInv, TypeInv, Phases
<1>1. TypeInv' /\ FiredEnded' /\ ScopeClosed'
  BY DEF End, FiredEnded, ScopeClosed
<1>2. NeedsFired'
  BY DEF End, NeedsFired
<1> QED BY <1>1, <1>2

(* A task fires when everything in its scope has: fired tasks have ended.  *)
LEMMA FirePreserves ==
  ASSUME IInv, NEW t \in Tasks, Fire(t)
  PROVE  IInv'
<1> USE DEF IInv, TypeInv, Phases
<1>1. TypeInv' /\ FiredEnded'
  BY DEF Fire, FiredEnded
<1>2. ScopeClosed'
  BY DEF Fire, FiredEnded, ScopeClosed
<1>3. NeedsFired'
  BY DEF Fire, NeedsFired
<1> QED BY <1>1, <1>2, <1>3

(* IInv is an invariant.                                                   *)
LEMMA Inductive == Spec => []IInv
<1>1. IInv /\ [Next]_vars => IInv'
  <2> SUFFICES ASSUME IInv, [Next]_vars PROVE IInv'
    OBVIOUS
  <2>1. CASE Next
    <3>1. PICK t \in Tasks : Begin(t) \/ End(t) \/ Fire(t) \/ \E p \in Tasks : Create(p, t)
      BY <2>1 DEF Next
    <3> QED BY <3>1, CreatePreserves, BeginPreserves, EndPreserves, FirePreserves
  <2>2. CASE UNCHANGED vars
    BY <2>2 DEF vars, IInv, TypeInv, FiredEnded, ScopeClosed, NeedsFired
  <2> QED BY <2>1, <2>2
<1> QED BY InitEstablishes, <1>1, PTL DEF Spec

(* A finish scope that has fired (whose latch event has triggered) stays   *)
(* closed: nothing in it runs or fires later.                              *)
THEOREM ClosedForGood == Spec => []ScopeClosed
<1>1. IInv => ScopeClosed
  BY DEF IInv
<1> QED BY Inductive, <1>1, PTL

(* A task begins after everything it depends on, including what was created*)
(* in the finish tasks it depends on, has ended.                           *)
THEOREM BeginsAfterScopes == Spec => []DependencesEnded
<1>1. IInv => DependencesEnded
  BY DEF IInv, TypeInv, FiredEnded, ScopeClosed, NeedsFired, DependencesEnded
<1> QED BY Inductive, <1>1, PTL
=============================================================================
