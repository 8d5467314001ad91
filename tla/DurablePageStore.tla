-------------------------- MODULE DurablePageStore --------------------------
(***************************************************************************)
(* A page store whose program may end at any time and be started again.    *)
(* Nobody has a page in use then, and a page may have lost writes, but     *)
(* none that was made before it was last flushed.                          *)
(***************************************************************************)
EXTENDS PageStore

VARIABLE since \* since[p]: what p held at its last flush, and ever after

durableVars == <<vars, since>>

DurableInit == Init /\ since = [p \in PageIds |-> {}]

(* Some pages are saved.                                                   *)
Flush == /\ UNCHANGED vars
         /\ \A p \in PageIds : \/ since'[p] = since[p]
                               \/ Exists(p) /\ since'[p] = {content[p]}

(* Each page goes back to something it held since it was last flushed.     *)
Restart == /\ using' = {}
           /\ \A p \in PageIds : IF Exists(p) THEN content'[p] \in since[p]
                                              ELSE content'[p] = Absent
           /\ since' = [p \in PageIds |-> IF Exists(p) THEN {content'[p]} ELSE {}]

DurableNext ==
  \/ Restart
  \/ \E t \in Threads, p \in PageIds :
       \/ Close(t, p) /\ UNCHANGED since
       \/ since' = since /\ Open(t, p)
       \/ since' = [since EXCEPT ![p] = {Zero}] /\ New(t, p)
       \/ \E v \in Data : since' = [since EXCEPT ![p] = @ \union {v}] /\ Write(t, p, v)
  \/ Flush

DurableSpec == DurableInit /\ [][DurableNext]_durableVars
=============================================================================
