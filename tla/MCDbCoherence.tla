--------------------------- MODULE MCDbCoherence ---------------------------
(* Small instances of DbCoherence: where each task runs and in which mode. *)
EXTENDS DbCoherence, TLC

CONSTANTS n1, n2, n3, a, b, c, d

(* Two nodes away from the owner, each with a writer and a reader, take    *)
(* the master role from it and from each other; one of them destroys the   *)
(* block in the end.                                                       *)
SpreadHome == (a :> n2) @@ (b :> n3) @@ (c :> n3) @@ (d :> n2)
SpreadMode == (a :> "EW") @@ (b :> "RW") @@ (c :> "CONST") @@ (d :> "RO")
=============================================================================
