---------------------------- MODULE MCLRUReplacer ----------------------------
(* LRUReplacer with two threads, for TLC.                                  *)
EXTENDS LRUReplacer
=============================================================================
