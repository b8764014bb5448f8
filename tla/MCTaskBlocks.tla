---------------------------- MODULE MCTaskBlocks ----------------------------
(* Three tasks and two blocks: t1 and t2 name blocks 1 and 2 in opposite   *)
(* orders, and t3 names block 1 twice, to write and to read unchanged, and *)
(* keeps what it wrote to its end.                                         *)
EXTENDS TaskBlocks, TLC

CONSTANTS t1, t2, t3

Needs(d, m) == [data |-> d, mode |-> m]
Call(x, d)  == [op |-> x, db |-> d]

SlotsOf ==
  t1 :> <<Needs(2, "EW"), Needs(1, "RO"), Needs(1, "CONST"), Needs(Null, "NULL")>>
  @@ t2 :> <<Needs(1, "RW"), Needs(2, "CONST"), Needs(1, "NULL")>>
  @@ t3 :> <<Needs(1, "RW"), Needs(1, "CONST"), Needs(2, "RO")>>
BodyOf ==
  t1 :> <<Call("release", 2), Call("release", 2)>>
  @@ t2 :> <<Call("begin", Null), Call("release", 1), Call("value", 1), Call("destroy", 2), Call("end", Null)>>
  @@ t3 :> <<Call("value", 1)>>
=============================================================================
