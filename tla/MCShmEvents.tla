---------------------------- MODULE MCShmEvents ----------------------------
(* Small programs for ShmEvents.                                           *)
EXTENDS ShmEvents, TLC

CONSTANTS main, tF, tC, tG, tK,         \* tasks
          oMain, oF, oC, oG, oK,        \* their output events
          start, st, id, ch,            \* events of the program
          dX, dY                          \* blocks

OutputOf == [t \in Tasks |-> ((main :> oMain) @@ (tF :> oF) @@ (tC :> oC) @@ (tG :> oG) @@ (tK :> oK))[t]]
NoResult == [t \in Tasks |-> Null]

(* A finish task tF; its child tC creates tG, a finish task too.  tK waits *)
(* for tF, for two blocks that tC and tG put into a channel, and for an    *)
(* idempotent event that both satisfy; three threads add its links.        *)
(* The sticky event is satisfied while tC is linked to it.                 *)
ScopeType == (start :> "ONCE") @@ (st :> "STICKY") @@ (id :> "IDEM") @@ (ch :> "CHANNEL")
          @@ [e \in {OutputOf[t] : t \in Tasks} |-> IF e \in {oF, oG} THEN "LATCH" ELSE "ONCE"]
ScopeGuid == (oF :> 1) @@ (oC :> 2) @@ (oG :> 3) @@ (oK :> 4) @@ (oMain :> 5)
          @@ (start :> 6) @@ (st :> 7) @@ (id :> 8) @@ (ch :> 9)
ScopeDepc == (main :> 0) @@ (tF :> 1) @@ (tC :> 1) @@ (tG :> 0) @@ (tK :> 4)
ScopeProgram ==
     (main :> <<CreateCall(tF, <<start>>), CreateCall(tK, <<oF>>), AddCall(st, start, IncrSlot),
                SatisfyCall(start, Null, 0), SatisfyCall(st, dX, 0), AddCall(ch, tK, 1)>>)
  @@ (tF :> <<AddCall(ch, tK, 2), CreateCall(tC, <<st>>)>>)
  @@ (tC :> <<CreateCall(tG, <<>>), SatisfyCall(ch, dY, 0), SatisfyCall(id, dX, 0)>>)
  @@ (tG :> <<SatisfyCall(ch, dX, 0), AddCall(id, tK, 3), SatisfyCall(id, dY, 0)>>)
  @@ (tK :> <<DestroyCall(id)>>)
=============================================================================
