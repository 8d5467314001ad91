----------------------- MODULE MCHashTableBucketPage ------------------------
(* A bucket page of three slots and pairs of two keys, for TLC.            *)
EXTENDS HashTableBucketPage

MCZeroPair == <<0, 0>>
=============================================================================
