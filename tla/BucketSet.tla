------------------------------ MODULE BucketSet ------------------------------
(***************************************************************************)
(* What a bucket page promises: a set of at most Capacity key-value pairs. *)
(* Slots, bitmaps and tombstones do not show.                              *)
(***************************************************************************)
EXTENDS Naturals, FiniteSets

CONSTANTS Keys, Values, Capacity

VARIABLES pairs, \* the pairs in the bucket
          ok,    \* the value the last call returned
          found  \* what the last GetValue added to its result

vars == <<pairs, ok, found>>

Full == Cardinality(pairs) = Capacity

ValuesOf(k) == {v \in Values : <<k, v>> \in pairs}

Init == pairs = {} /\ ok = FALSE /\ found = {}

GetValue(k) == /\ found' = ValuesOf(k)
               /\ ok' = (found' # {})
               /\ UNCHANGED pairs

Insert(p) == /\ ok' = (p \notin pairs /\ ~Full)
             /\ pairs' = IF ok' THEN pairs \union {p} ELSE pairs
             /\ found' = {}

Remove(p) == /\ ok' = (p \in pairs)
             /\ pairs' = pairs \ {p}
             /\ found' = {}

Next == \/ \E k \in Keys : GetValue(k)
        \/ \E p \in Keys \X Values : Insert(p) \/ Remove(p)

Spec == Init /\ [][Next]_vars
=============================================================================
