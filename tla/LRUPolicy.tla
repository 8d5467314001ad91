------------------------------ MODULE LRUPolicy ------------------------------
(***************************************************************************)
(* What a replacer promises its users: a victim is the frame that has been *)
(* evictable the longest.  Recency is a relation between frames, so the    *)
(* specification says nothing of lists, maps or latches.                   *)
(***************************************************************************)
CONSTANTS Threads,   \* the threads that call the replacer
          Frames,    \* the frame identifiers
          NoFrame    \* the output of a Victim call that found nothing

VARIABLES evictable, \* the frames that may be chosen as a victim
          older,     \* <<f, g>> \in older: f has been evictable longer than g
          got        \* got[t]: the frame the last Victim call of t handed out

vars == <<evictable, older, got>>

Init == /\ evictable = {}
        /\ older = {}
        /\ got = [t \in Threads |-> NoFrame]

Forget(f) == /\ evictable' = evictable \ {f}
             /\ older' = {pair \in older : pair[1] # f /\ pair[2] # f}

(* A victim has no older evictable frame.                                  *)
Evict(t, f) == /\ f \in evictable
               /\ \A g \in evictable : <<g, f>> \notin older
               /\ Forget(f)
               /\ got' = [got EXCEPT ![t] = f]

Withdraw(f) == /\ f \in evictable
               /\ Forget(f)
               /\ UNCHANGED got

Admit(f) == /\ f \notin evictable
            /\ evictable' = evictable \union {f}
            /\ older' = older \union (evictable \X {f})
            /\ UNCHANGED got

(* Thread t starts a new call: what it was handed is its own business.     *)
Ask(t) == /\ got' = [got EXCEPT ![t] = NoFrame]
          /\ UNCHANGED <<evictable, older>>

Next == \/ \E t \in Threads : Ask(t) \/ \E f \in Frames : Evict(t, f)
        \/ \E f \in Frames : Withdraw(f) \/ Admit(f)

Spec == Init /\ [][Next]_vars
=============================================================================
