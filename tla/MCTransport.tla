---------------------------- MODULE MCTransport ----------------------------
(* With sockets, a master and two slaves: task w shuts them down.  With    *)
(* MPI, two ranks: the launcher (task r of node 0) starts tB on node 1, and*)
(* the task u that tB starts on node 0 still sends when tB shuts the runtime*)
(* down.                                                                   *)
EXTENDS Transport
CONSTANTS r, tB, u, w, a, b, d1, d2, s0, s1, s2, x0, x1

TheSize    == [k \in Builds |-> IF k = "sock" THEN 3 ELSE 2]
TheRoots   == [k \in Builds |-> IF k = "sock" THEN {w} ELSE {r}]
TheTasks   == {r, tB, u, w}
TheHome    == [k \in TheTasks |-> IF k = tB THEN 1 ELSE 0]
TheProgram == [k \in TheTasks |-> CASE k = r -> <<a>> [] k = tB -> <<b, x0, x1>> [] k = u -> <<d1, d2>>
                                    [] k = w -> <<s2, s1, s0>>]
TheMsgs    == {a, b, d1, d2, s0, s1, s2, x0, x1}
TheTo      == [m \in TheMsgs |-> CASE m \in {a, d1, d2, s1, x1} -> 1 [] m \in {b, s0, x0} -> 0 [] m = s2 -> 2]
TheSpawns  == [m \in TheMsgs |-> CASE m = a -> tB [] m = b -> u [] OTHER -> Null]
=============================================================================
