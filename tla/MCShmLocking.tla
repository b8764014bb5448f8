---------------------------- MODULE MCShmLocking ----------------------------
(* Small programs for ShmLocking.                                          *)
EXTENDS ShmLocking, TLC

CONSTANTS main, t1, t2, t3, t4

Slot(db, mode) == [db |-> db, mode |-> mode]
Created(S)     == [i \in 1..Cardinality(S) |-> Slot(i, "RW")]

(* Two blocks, every mode, one task that lists a block twice.              *)
MixedSlots == (main :> Created(DBs))
           @@ (t1 :> <<Slot(2, "EW"), Slot(1, "RO")>>)
           @@ (t2 :> <<Slot(1, "CONST"), Slot(2, "RW"), Slot(1, "NULL")>>)
           @@ (t3 :> <<Slot(1, "CONST"), Slot(2, "EW")>>)
           @@ (t4 :> <<Slot(2, "CONST")>>)
MixedReleases == (main :> {1}) @@ (t1 :> {}) @@ (t2 :> {2}) @@ (t3 :> {}) @@ (t4 :> {})
=============================================================================
