----------------------------- MODULE LRUReplacer -----------------------------
(***************************************************************************)
(* LRUReplacer called by several threads.  Every member function takes     *)
(* latch_ for its whole body, so a body is one step; between a call and    *)
(* its body the thread waits for the latch.  The exception is Unpin on a   *)
(* full list, which calls Victim while it still holds latch_.              *)
(***************************************************************************)
EXTENDS LRUList, FiniteSets

CONSTANTS Threads,   \* the threads that call the replacer
          Frames,    \* the frame identifiers they pass
          NumPages,  \* num_pages_, the constructor's argument
          NoFrame,   \* got[t] when Victim returned false, or was not called
          Free       \* the owner of latch_ when nobody holds it

ASSUME LRUAssumption == /\ NumPages \in Nat
                        /\ NoFrame \notin Frames
                        /\ Free \notin Threads

VARIABLES replacer,  \* replacer_, the list
          lru_map,   \* the keys of lru_map_
          latch,     \* the thread that owns latch_
          at,        \* where in its call a thread is
          call,      \* the member function and the frame it was called with
          got        \* the frame the last Victim call handed out

vars == <<replacer, lru_map, latch, at, call, got>>

(* Victim has no argument.                                                 *)
CallVictim == [op |-> "Victim", frame |-> NoFrame]

Calls == {CallVictim} \union [op : {"Pin", "Unpin"}, frame : Frames]

Init == /\ replacer = <<>>
        /\ lru_map = {}
        /\ latch = Free
        /\ at = [t \in Threads |-> "idle"]
        /\ call = [t \in Threads |-> CallVictim]
        /\ got = [t \in Threads |-> NoFrame]

(* A thread enters a member function and waits at latch_.lock().           *)
Begin(t, c) == /\ at[t] = "idle"
               /\ at' = [at EXCEPT ![t] = "lock"]
               /\ call' = [call EXCEPT ![t] = c]
               /\ got' = [got EXCEPT ![t] = NoFrame]
               /\ UNCHANGED <<replacer, lru_map, latch>>

(* latch_.lock() returns only when nobody owns the mutex: a thread at the  *)
(* nested lock of Unpin waits for itself.                                  *)
Lock(t) == /\ at[t] \in {"lock", "relock"}
           /\ latch = Free
           /\ latch' = t
           /\ at' = [at EXCEPT ![t] = "body"]
           /\ UNCHANGED <<replacer, lru_map, call, got>>

InBody(t, op) == at[t] = "body" /\ call[t].op = op

(* A mutation of Return: an early return that forgets latch_.unlock().     *)
ReturnWithoutUnlock(t) == /\ latch' = IF replacer' = replacer THEN latch ELSE Free
                          /\ at' = [at EXCEPT ![t] = "idle"]
                          /\ UNCHANGED call

Return(t) == /\ latch' = Free
             /\ at' = [at EXCEPT ![t] = "idle"]
             /\ UNCHANGED call

(* A mutation of Victim: the test for an empty list is missing, and back() *)
(* of an empty list is nothing that was ever listed.                       *)
VictimUnguarded(t) ==
  /\ InBody(t, "Victim")
  /\ got' = [got EXCEPT ![t] = IF replacer = <<>> THEN Free ELSE Back(replacer)]
  /\ replacer' = IF replacer = <<>> THEN <<>> ELSE PopBack(replacer)
  /\ lru_map' = lru_map \ {got'[t]}
  /\ Return(t)

Victim(t) ==
  /\ InBody(t, "Victim")
  /\ \/ /\ replacer = <<>>
        /\ UNCHANGED <<replacer, lru_map, got>>
     \/ /\ replacer # <<>>
        /\ got' = [got EXCEPT ![t] = Back(replacer)]
        /\ replacer' = PopBack(replacer)
        /\ lru_map' = lru_map \ {Back(replacer)}
  /\ Return(t)

(* A mutation of Pin: the map entry outlives the list node.                *)
PinLeavesMapEntry(t) ==
  LET f == call[t].frame
  IN  /\ InBody(t, "Pin")
      /\ replacer' = Pinned(replacer, f)
      /\ UNCHANGED <<lru_map, got>>
      /\ Return(t)

Pin(t) ==
  LET f == call[t].frame
  IN  /\ InBody(t, "Pin")
      /\ \/ f \in lru_map /\ replacer' = Erase(replacer, f)
         \/ f \notin lru_map /\ UNCHANGED replacer
      /\ lru_map' = lru_map \ {f}
      /\ UNCHANGED got
      /\ Return(t)

(* A mutation of Unpin: the test for a full list is missing.               *)
UnpinUnbounded(t) ==
  /\ InBody(t, "Unpin")
  /\ replacer' = Unpinned(replacer, call[t].frame)
  /\ lru_map' = lru_map \union {call[t].frame}
  /\ UNCHANGED got
  /\ Return(t)

Unpin(t) ==
  LET f == call[t].frame
  IN  /\ InBody(t, "Unpin")
      /\ Len(replacer) # NumPages
      /\ \/ f \notin lru_map /\ replacer' = PushFront(replacer, f)
         \/ f \in lru_map /\ UNCHANGED replacer
      /\ lru_map' = lru_map \union {f}
      /\ UNCHANGED got
      /\ Return(t)

(* Unpin finds the list full and calls Victim, which locks latch_ again.   *)
UnpinFull(t) ==
  /\ InBody(t, "Unpin")
  /\ Len(replacer) = NumPages
  /\ at' = [at EXCEPT ![t] = "relock"]
  /\ UNCHANGED <<replacer, lru_map, latch, call, got>>

Body(t) == Victim(t) \/ Pin(t) \/ Unpin(t) \/ UnpinFull(t)

Next == \E t \in Threads : \/ \E c \in Calls : Begin(t, c)
                           \/ Lock(t)
                           \/ Body(t)

(* A thread inside a critical section is not descheduled for ever; nothing *)
(* is assumed of threads that wait, for std::mutex promises them nothing.  *)
Spec == Init /\ [][Next]_vars /\ \A t \in Threads : WF_vars(Body(t))
-----------------------------------------------------------------------------
TypeOK == /\ replacer \in Seq(Frames)
          /\ lru_map \subseteq Frames
          /\ latch \in Threads \union {Free}
          /\ at \in [Threads -> {"idle", "lock", "body", "relock"}]
          /\ call \in [Threads -> Calls]
          /\ got \in [Threads -> Frames \union {NoFrame}]

(* lru_map_ has an entry for exactly the frames that have a node, and a    *)
(* frame has one node: erase(lru_map_[f]) never meets a dead iterator and  *)
(* Victim never hands out the same frame twice.                            *)
MapMatchesList == /\ lru_map = Range(replacer)
                  /\ IsInjective(replacer)

(* Every critical section ends: whoever takes latch_ gives it back, on the *)
(* early returns of Victim and Unpin too, and only a thread that waits for *)
(* itself keeps it.                                                        *)
LatchReleased == (latch # Free) ~> (latch = Free \/ \E t \in Threads : at[t] = "relock")

(* What the order of a list says of two frames: the first of the pair is   *)
(* nearer to the victim's end.                                             *)
Older(list) == {<<list[p[2]], list[p[1]]>> :
                  p \in {q \in (DOMAIN list) \X (DOMAIN list) : q[1] < q[2]}}

(* The replacer implements the least-recently-used policy: Victim returns  *)
(* the frame that Unpin listed before every other listed frame, and Pin    *)
(* and a repeated Unpin do not disturb the order.                          *)
Policy == INSTANCE LRUPolicy WITH
  evictable <- Range(replacer),
  older <- Older(replacer)

FollowsPolicy == Policy!Spec

(* The list never outgrows num_pages, "the maximum number of pages the     *)
(* LRUReplacer will be required to store", whatever the callers do.        *)
WithinCapacity == Len(replacer) <= NumPages

(* "The implementation is thread-safe": no thread waits for a mutex that   *)
(* it owns itself, as Unpin does when it calls Victim on a full list.      *)
NoSelfLock == \A t \in Threads : at[t] \in {"lock", "relock"} => latch # t
=============================================================================
