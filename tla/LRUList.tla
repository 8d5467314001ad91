------------------------------- MODULE LRUList -------------------------------
(***************************************************************************)
(* The std::list of LRUReplacer: frames in the order in which they became  *)
(* evictable, the most recent one first.  Each operator is the effect on   *)
(* the list of one member function, inside its critical section.           *)
(***************************************************************************)
EXTENDS Integers, SequencesExt

(* replacer_.erase(lru_map_[f]): the map holds the position of f.          *)
Erase(list, f) == RemoveAt(list, CHOOSE i \in DOMAIN list : list[i] = f)

(* A mutation of PushFront: the new frame goes to the victim's end.        *)
PushFrontAtBack(list, f) == Append(list, f)

PushFront(list, f) == Cons(f, list)

(* replacer_.back() and pop_back(): the frame Victim hands out, and what   *)
(* it leaves.                                                              *)
Back(list) == Last(list)

PopBack(list) == Front(list)

(* Pin(f) takes f off the list if it is there.                             *)
Pinned(list, f) == IF f \in Range(list) THEN Erase(list, f) ELSE list

(* Unpin(f) on a list that has room: a frame already listed keeps its      *)
(* place.                                                                  *)
Unpinned(list, f) == IF f \in Range(list) THEN list ELSE PushFront(list, f)
=============================================================================
