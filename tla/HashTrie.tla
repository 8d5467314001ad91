------------------------------- MODULE HashTrie -------------------------------
(***************************************************************************)
(* What an extendible directory stands for: a binary trie over the low     *)
(* bits of the hashes.  Its leaves partition the hashes: leaf              *)
(* <<depth, bits, p>> says that a hash whose depth lowest bits are bits    *)
(* belongs to bucket p.                                                    *)
(***************************************************************************)
EXTENDS Naturals

CONSTANTS MaxDepth, BucketIds

VARIABLE leaves

Init == \E p \in BucketIds : leaves = {<<0, 0, p>>}

Buckets == {leaf[3] : leaf \in leaves}

(* Leaf l gets two children: its own bucket stays with one of them, and a  *)
(* bucket that is not in use goes to the other.                            *)
Split(l, bit, p) ==
  LET depth == l[1] + 1
      here  == l[2] + bit * 2 ^ l[1]
      there == l[2] + (1 - bit) * 2 ^ l[1]
  IN  /\ l[1] < MaxDepth
      /\ p \notin Buckets
      /\ leaves' = (leaves \ {l}) \union {<<depth, here, l[3]>>, <<depth, there, p>>}

(* Two leaves with the same parent become one, with the second's bucket.   *)
Merge(l, m) ==
  LET depth == l[1] - 1
  IN  /\ l # m
      /\ l[1] = m[1]
      /\ l[2] % 2 ^ depth = m[2] % 2 ^ depth
      /\ leaves' = (leaves \ {l, m}) \union {<<depth, l[2] % 2 ^ depth, m[3]>>}

Next == \E l \in leaves : \/ \E bit \in {0, 1}, p \in BucketIds : Split(l, bit, p)
                          \/ \E m \in leaves : l[1] > 0 /\ Merge(l, m)

Spec == Init /\ [][Next]_leaves
=============================================================================
