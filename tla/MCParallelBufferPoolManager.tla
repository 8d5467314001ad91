--------------------- MODULE MCParallelBufferPoolManager ---------------------
(* The parallel buffer pool manager, for TLC.                              *)
EXTENDS ParallelBufferPoolManager
=============================================================================
