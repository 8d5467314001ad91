------------------------ MODULE MCExtendibleDirectory ------------------------
(* A directory of at most eight entries, for TLC.                          *)
EXTENDS ExtendibleDirectory
=============================================================================
