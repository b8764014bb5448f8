---------------------------- MODULE MCDistGraph ----------------------------
(* Small programs for DistGraph.                                           *)
EXTENDS DistGraph, TLC

CONSTANTS na, nb,                           \* nodes
          main, tF, p1, q1, q2, tK,         \* tasks
          oMain, oF, o1, oq, or, oK,           \* their output events
          lab, ch, ret,                     \* events of the program
          sum,                              \* a collective event
          dX, dY                            \* blocks

OutputOf == [t \in Tasks |-> ((main :> oMain) @@ (tF :> oF) @@ (p1 :> o1)
                              @@ (q1 :> oq) @@ (q2 :> or) @@ (tK :> oK))[t]]
OutputType == [e \in {oMain, oF, o1, oq, or, oK} |-> IF e = oF THEN "LATCH" ELSE "ONCE"]

(* The finish task tF on nb and p1 on na, created in it, contribute to a   *)
(* collective event with one generation in flight, to whose first result   *)
(* they subscribe the tasks q1 and q2, which contribute to the second one  *)
(* for tK.  tK waits for tF too, and for a block from a channel.  q2 waits *)
(* for a label as well, which is used before, while and after it is        *)
(* created, and satisfied twice.  tK passes its output on to ret.          *)
ScopeHome == [x \in Objects |-> IF x \in {main, oMain, p1, o1, q1, oq, tK, oK, sum, ch, ret} THEN na ELSE nb]
ScopeType == (lab :> "IDEM") @@ (ret :> "STICKY") @@ (ch :> "CHANNEL") @@ OutputType
ScopeDepc == (main :> 0) @@ (tF :> 1) @@ (p1 :> 0) @@ (q1 :> 1) @@ (q2 :> 2) @@ (tK :> 3)
ScopeProgram ==
     (main :> <<CreateCall(tF, <<dX>>), CreateOutCall(tK, <<oF>>, ret), LabelCall(lab)>>)
  @@ (tF :> <<CollectiveCall(sum), CreateCall(p1, <<>>), CreateCall(q2, <<lab>>), SubscribeCall(sum, 1, q2, 1),
              AddCall(ch, tK, 1), SatisfyCall(lab, dX, 0), ContributeCall(sum, 1)>>)
  @@ (p1 :> <<CollectiveCall(sum), CreateCall(q1, <<>>), SubscribeCall(sum, 0, q1, 0), ContributeCall(sum, 0)>>)
  @@ (q1 :> <<SubscribeCall(sum, 0, tK, 2), ContributeCall(sum, 0)>>)
  @@ (q2 :> <<SatisfyCall(lab, dY, 0), ContributeCall(sum, 1), ByValueCall(dY, ch, 0)>>)
  @@ (tK :> <<DestroyCall(lab), DestroyCall(ch)>>)
=============================================================================
