---------------------------- MODULE MCOneRuntime ----------------------------
(* Small programs for OneRuntime.                                          *)
EXTENDS OneRuntime, TLC

CONSTANTS main, tF, cp, w, u, tX, cb, fin,          \* tasks
          oMain, oF, oCp, oW, oU, oX, oCb, oFin, \* their output events
          ch, me, g1, g2,                     \* events of the program
          dB, dF, k0, k1, p,                       \* blocks
          disk,                                  \* a file
          tm, tw, tc,                         \* templates
          i1, v1, v2, l1, l2                  \* a label, variables, local identifiers

OutputOf == [t \in Tasks |-> ((main :> oMain) @@ (tF :> oF) @@ (cp :> oCp)
                              @@ (w :> oW) @@ (u :> oU) @@ (tX :> oX) @@ (cb :> oCb) @@ (fin :> oFin))[t]]
TypeOf == [e \in Events |-> IF e \in {oMain, oCp, oW, oU, oX, oCb, oFin} THEN "ONCE"
                               ELSE ((oF :> "LATCH") @@ (ch :> "CHANNEL") @@ (me :> "IDEM")
                                     @@ (g1 :> "STICKY") @@ (g2 :> "STICKY"))[e]]
TemplatesOf == [t \in Tasks |-> IF t \in {cp, cb} THEN tc ELSE IF t \in {main, tF, fin} THEN tm ELSE tw]

(* main fills dB; the finish task tF has it copied to p, which w changes   *)
(* and cb brings back to dB and destroys.  w and u change a chunk of a file*)
(* each.  fin waits for the scope, a label (which w and main create), a    *)
(* channel and an event of a map.  The template of tF and fin is destroyed *)
(* once they are created.                                                  *)
GraphDepc == (main :> 0) @@ (tF :> 1) @@ (cp :> 2) @@ (w :> 3) @@ (u :> 0) @@ (tX :> 1) @@ (cb :> 2) @@ (fin :> 5)
GraphResult == [t \in Tasks |-> IF t = cp THEN p ELSE IF t = cb THEN dB ELSE Null]
GraphProgram ==
     (main :> <<{BlockCall(dB, 2, TRUE), BlockCall(p, 1, FALSE), OpenCall(disk, dF), EventCall(ch, "plain"),
                 TemplateCall(tm)},
                {WriteCall(dB, <<1, 2>>), ChunkCall(k0, disk, 0, 1), IndexCall(i1, v1)},
                {ReleaseCall(dB), ChunkCall(k1, disk, 1, 1), EventCall(v1, "check"), CreateCall(fin, <<>>)},
                {CreateCall(tF, <<dB>>), AddCall(v1, fin, 1, "RW"), AddCall(ch, fin, 2, "RO"),
                 AddCall(ch, fin, 3, "NULL"), SatisfyCall(ch, 0, dB)},
                {AddCall(oF, fin, 0, "RW"), CloseCall(disk), DestroyDbCall(dF), DestroyTemplateCall(tm)}>>)
  @@ (tF :> <<{MapGetCall(me, l1), TemplateCall(tw)},
              {CreateCall(w, <<Uninitialized, k1>>), CreateCall(u, <<>>), CopyDbCall(cp, p, dB)},
              {AddCall(oCp, w, 0, "RW"), AddCall(l1, w, 2, "NULL"),
               SatisfyCall(l1, 0, Null), AddCall(l1, fin, 4, "NULL")}>>)
  @@ (cp :> <<{CopyCall(0, 1, 1, FALSE)}>>)
  @@ (w :> <<{WriteCall(p, <<5>>), WriteCall(k1, <<7>>), IndexCall(i1, v2), MapGetCall(me, l2)},
             {ReleaseCall(p), ReleaseCall(k1), EventCall(v2, "check"), SatisfyCall(l2, 0, dB)},
             {DestroyDbCall(k1), CopyDbCall(cb, dB, p)},
             {AddCall(oCb, v2, 0, "NULL")}>>)
  @@ (u :> <<{CreateCall(tX, <<k0>>), SatisfyCall(ch, 0, Null)}>>)
  @@ (tX :> <<{WriteCall(k0, <<9>>)}, {ReleaseCall(k0)}, {DestroyDbCall(k0)}>>)
  @@ (cb :> <<{CopyCall(1, 0, 1, TRUE)}>>)
  @@ (fin :> <<{DestroyCall(v1), DestroyCall(ch), DestroyCall(me), DestroyTemplateCall(tw)}, {ShutdownCall}>>)
FileBefore == (disk :> <<3, 4>>)
FileAfter  == (disk :> <<9, 7>>)
GuidsOf == (i1 :> <<g1, g2>>)
=============================================================================
