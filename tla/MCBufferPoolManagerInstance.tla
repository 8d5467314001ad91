--------------------- MODULE MCBufferPoolManagerInstance ---------------------
(* A buffer pool whose page ids are those of one of several instances.     *)
EXTENDS BufferPoolManagerInstance
=============================================================================
