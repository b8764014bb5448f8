---------------------------- MODULE MCScheduler ----------------------------
(* Small instances for Scheduler.                                          *)
EXTENDS Scheduler, TLC

CONSTANTS wa, wb, wc, numa1, numa2, main, child, last, barrier

(* Two NUMA nodes; the agent leaves one thread of the first and none of    *)
(* the second; or it blocks the thread that has the main task, lets it go  *)
(* and blocks another.  The main task spawns one task for each node, and   *)
(* one of them calls ocrShutdown.                                          *)
TwoNodes == (wa :> numa1) @@ (wb :> numa1) @@ (wc :> numa2)
Swap     == (numa1 :> numa2) @@ (numa2 :> numa1)
Steps    == (main :> <<SpawnCall(child, numa2), SpawnCall(last, None)>>)
            @@ (child :> <<>>) @@ (last :> <<ShutdownCall>>)
Demands  == ("count" :> <<[numa |-> numa1, count |-> 1], [numa |-> numa2, count |-> 0]>>)
            @@ ("index" :> <<[thread |-> wa, block |-> TRUE], [thread |-> wa, block |-> FALSE],
                             [thread |-> wb, block |-> TRUE]>>)
AllOpen  == [n \in Numa |-> Size(n)]
=============================================================================
