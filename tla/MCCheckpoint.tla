---------------------------- MODULE MCCheckpoint ----------------------------
(* Two nodes.  t0 runs on the root and creates t4, which decrements the      *)
(* latch; t1 runs on the worker, destroys the labelled event, decrements the *)
(* latch and creates t3, which uses a block of its node; t2 waits on the     *)
(* worker for a copy of the root's block.                                    *)
EXTENDS Checkpoint

CONSTANTS home, w, t0, t1, t2, t3, t4

AllTasks == {t0, t1, t2, t3, t4}
Homes    == [t \in AllTasks |-> IF t \in {t0, t4} THEN home ELSE w]
Programs == [t \in AllTasks |-> CASE t = t1 -> <<"label", "decr">> [] t = t4 -> <<"decr">> [] OTHER -> <<>>]
Children == [t \in AllTasks |-> CASE t = t0 -> t4 [] t = t1 -> t3 [] OTHER -> Null]
=============================================================================
