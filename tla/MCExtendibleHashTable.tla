------------------------ MODULE MCExtendibleHashTable ------------------------
(* A hash table of a few buckets, for TLC.                                 *)
EXTENDS ExtendibleHashTable, TLC

(* The hash of a key is its value: a directory of depth 2 cannot tell 0    *)
(* from 4, one of depth 1 not from 2 either.                               *)
HashOf == [k \in Keys |-> k % 2 ^ MaxDepth]

ThreadSymmetry == Permutations(Threads)
=============================================================================
