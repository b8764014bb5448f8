--------------------------- MODULE MCRuntimeControl ---------------------------
(* Two nodes, a root and a worker; two tokens, one of which moves on once. *)
EXTENDS RuntimeControl

CONSTANTS n0, n1, k1, k2

MCHops == [t \in {k1, k2} |-> IF t = k1 THEN 1 ELSE 0]
=============================================================================
