--------------------------- MODULE StreamPromise ---------------------------
(***************************************************************************)
(* What the message layer promises the senders of a stream.                *)
(*                                                                         *)
(* Messages are processed once.  A message is processed after everything   *)
(* that was sent before it on its stream to the same node, and after every *)
(* earlier confirmed message of its stream, with all that follows from     *)
(* that one, wherever that happens.  A message for an object that does not *)
(* exist yet is waived: the stream goes on without it.                     *)
(***************************************************************************)
EXTENDS Integers, Sequences, Functions

CONSTANTS
  Msgs,
  Streams,
  To,          \* To[m]: the node that processes m
  Confirmed,   \* the messages that are confirmed
  Parts        \* Parts[m]: the confirmed messages sent as part of processing m

VARIABLES
  posted,      \* posted[s]: the messages sent on the stream s so far
  handled,     \* the messages that have been processed
  waived       \* the messages that are processed late

vars == <<posted, handled, waived>>

Init == posted = [s \in Streams |-> <<>>] /\ handled = {} /\ waived = {}

(* m and all that follows from it has been processed.                      *)
Settled[m \in Msgs] == m \in waived \/ (m \in handled /\ \A x \in Parts[m] : Settled[x])

Turn(m) ==
  \A s \in Streams : \A j \in DOMAIN posted[s] : posted[s][j] = m =>
    \A i \in 1..j - 1 :
      LET e == posted[s][i]
      IN  /\ e \in Confirmed => Settled[e]
          /\ To[e] = To[m] => e \in handled \cup waived

Sent(m) == (\E s \in Streams : m \in Range(posted[s])) \/ \E e \in handled : m \in Parts[e]

Process(m) ==
  /\ Sent(m) /\ m \notin handled /\ (m \in waived \/ Turn(m))
  /\ handled' = handled \cup {m}
  /\ UNCHANGED waived

Waive(m) ==
  /\ Sent(m) /\ m \notin handled /\ Turn(m)
  /\ waived' = waived \cup {m}
  /\ UNCHANGED handled

Grows(q, r) == Len(q) <= Len(r) /\ SubSeq(r, 1, Len(q)) = q

Next ==
  /\ \A s \in Streams : Grows(posted[s], posted'[s])
  /\ UNCHANGED <<handled, waived>> \/ \E m \in Msgs : Process(m) \/ Waive(m)

Spec == Init /\ [][Next]_vars
=============================================================================
