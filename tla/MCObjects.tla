------------------------------ MODULE MCObjects ------------------------------
(* Two nodes.  The main task makes a range and a template; three tasks     *)
(* that depend on it then create tasks and blocks at both nodes.           *)
EXTENDS Objects
CONSTANTS main, a, b, c, r, t, x, y

TwoNodes == {0, 1}
Placed  == (main :> 0) @@ (a :> 0) @@ (b :> 1) @@ (c :> 1)
Starts  == (main :> {}) @@ (a :> {main}) @@ (b :> {main}) @@ (c :> {main})

Edt(n)   == [op |-> "edt", to |-> n, template |-> t]
Use(n, i) == [op |-> "satisfy_label", to |-> n, range |-> r, index |-> i]

(* The block 1 is created at node 0, with node 1 as its home, and used by  *)
(* c, which does not wait for that; the block 3 is created at its home     *)
(* and used by a.                                                          *)
Mixed ==
  (main :> <<[op |-> "range", name |-> r], [op |-> "local_db", name |-> y], [op |-> "template", name |-> t]>>)
  @@ (a :> <<[op |-> "mapped_db", range |-> r, index |-> 1], Edt(0), Use(0, 3)>>)
  @@ (b :> <<[op |-> "remote_db", to |-> 0, name |-> x], [op |-> "mapped_db", range |-> r, index |-> 3]>>)
  @@ (c :> <<Use(0, 1), Edt(0)>>)
=============================================================================
