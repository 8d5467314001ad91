------------------------- MODULE MCBufferPoolClients -------------------------
(* Two interchangeable threads and a buffer pool.                          *)
EXTENDS BufferPoolClients

ThreadSymmetry == Permutations(Threads)
=============================================================================
