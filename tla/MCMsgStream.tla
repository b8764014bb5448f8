---------------------------- MODULE MCMsgStream ----------------------------
(* Small programs for MsgStream.                                           *)
EXTENDS MsgStream, TLC

CONSTANTS na, nb, nc,                          \* nodes
          t1, t2,                              \* tasks
          create, hook, start, linked, add, pass, fire, update, obj, late, later, final

NoSends == [m \in Msgs |-> <<>>]

(* t1 on na creates t2 on nb (create, with two nested messages, one of     *)
(* which nc passes on to na), adds a dependence that nb passes on to nc,   *)
(* where an event fires, sends data (update) that nobody confirms, and     *)
(* creates obj.  t2 uses obj, perhaps too early, and sends on.             *)
FullHome == (t1 :> na) @@ (t2 :> nb)
FullStart == (t1 :> None) @@ (t2 :> create)
FullProgram == (t1 :> <<create, add, update, obj>>) @@ (t2 :> <<late, final>>)
FullKind == [m \in Msgs |-> CASE m \in {create, final} -> "CT_task"
                              [] m \in {hook, add, pass, late} -> "CT_forward"
                              [] m = update -> "CT_none"
                              [] OTHER -> "CT_single"]
FullTo == [m \in Msgs |-> CASE m \in {create, add, start} -> nb
                            [] m \in {hook, pass, update, obj, late, final} -> nc
                            [] OTHER -> na]
FullSends == (create :> <<hook, start>>) @@ (hook :> <<linked>>) @@ (add :> <<pass>>)
          @@ (late :> <<later>>) @@ NoSends
FullAfter == (pass :> <<fire>>) @@ NoSends
FullRequires == [m \in Msgs |-> IF m = late THEN obj ELSE None]
=============================================================================
