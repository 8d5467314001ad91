-------------------------- MODULE LRUReplacerProofs --------------------------
(***************************************************************************)
(* LRUReplacer for any threads, any frames and any num_pages: its list and *)
(* its map agree, the list keeps within num_pages, it follows the          *)
(* least-recently-used policy step by step, and a thread that meets the    *)
(* full list inside Unpin holds the latch for ever.                        *)
(***************************************************************************)
EXTENDS LRUReplacer, LRUListProofs

(* Only the thread that owns latch_ is inside a body, and the owner is     *)
(* inside one.                                                             *)
OwnerInside == \A t \in Threads : at[t] \in {"body", "relock"} <=> latch = t

IInv == TypeOK /\ MapMatchesList /\ WithinCapacity /\ OwnerInside
-----------------------------------------------------------------------------
(* Two sets of pairs are equal when they hold the same pairs.              *)
LEMMA SamePairs ==
  ASSUME NEW A, NEW B,
         \A pair \in A : pair = <<pair[1], pair[2]>>,
         \A pair \in B : pair = <<pair[1], pair[2]>>,
         \A f, g : <<f, g>> \in A <=> <<f, g>> \in B
  PROVE  A = B
<1>1. ASSUME NEW pair \in A PROVE pair \in B
  <2>1. pair = <<pair[1], pair[2]>>
    OBVIOUS
  <2>2. <<pair[1], pair[2]>> \in A
    BY <2>1
  <2>3. <<pair[1], pair[2]>> \in B
    BY <2>2
  <2> QED BY <2>1, <2>3
<1>2. ASSUME NEW pair \in B PROVE pair \in A
  <2>1. pair = <<pair[1], pair[2]>>
    OBVIOUS
  <2>2. <<pair[1], pair[2]>> \in B
    BY <2>1
  <2>3. <<pair[1], pair[2]>> \in A
    BY <2>2
  <2> QED BY <2>1, <2>3
<1> QED BY <1>1, <1>2

(* A pair is in Older(list) exactly when its two frames stand in that      *)
(* order on the list.                                                      *)
LEMMA OlderMeans ==
  ASSUME NEW S, NEW list \in Seq(S), NEW f, NEW g
  PROVE  <<f, g>> \in Older(list) <=>
           \E i, j \in 1 .. Len(list) : i < j /\ list[i] = g /\ list[j] = f
<1>1. DOMAIN list = 1 .. Len(list)
  OBVIOUS
<1>2. ASSUME NEW i \in 1 .. Len(list), NEW j \in 1 .. Len(list), i < j, list[i] = g, list[j] = f
      PROVE  <<f, g>> \in Older(list)
  <2>1. <<i, j>> \in {q \in (DOMAIN list) \X (DOMAIN list) : q[1] < q[2]}
    BY <1>1, <1>2
  <2> QED BY <2>1, <1>2 DEF Older
<1>3. ASSUME <<f, g>> \in Older(list)
      PROVE  \E i, j \in 1 .. Len(list) : i < j /\ list[i] = g /\ list[j] = f
  BY <1>1, <1>3 DEF Older
<1> QED BY <1>2, <1>3

(* Older(list) holds pairs of listed frames.                               *)
LEMMA OlderListed ==
  ASSUME NEW S, NEW list \in Seq(S)
  PROVE  /\ \A pair \in Older(list) : pair = <<pair[1], pair[2]>>
         /\ Older(list) \subseteq Range(list) \X Range(list)
BY DEF Older, Range

(* Taking one frame off the list leaves the order of the others.           *)
LEMMA OlderRemoveAt ==
  ASSUME NEW S, NEW list \in Seq(S), IsInjective(list), NEW k \in 1 .. Len(list)
  PROVE  Older(RemoveAt(list, k)) =
           {pair \in Older(list) : pair[1] # list[k] /\ pair[2] # list[k]}
<1> DEFINE rest == RemoveAt(list, k)
           kept == {pair \in Older(list) : pair[1] # list[k] /\ pair[2] # list[k]}
<1>1. /\ rest \in Seq(S)
      /\ Len(rest) = Len(list) - 1
      /\ \A j \in 1 .. Len(list) - 1 : rest[j] = IF j < k THEN list[j] ELSE list[j + 1]
  BY RemoveAtIndex
<1>2. DOMAIN list = 1 .. Len(list)
  OBVIOUS
<1> HIDE DEF rest
<1>3. ASSUME NEW f, NEW g, <<f, g>> \in Older(rest)
      PROVE  <<f, g>> \in kept
  <2>1. PICK i, j \in 1 .. Len(rest) : i < j /\ rest[i] = g /\ rest[j] = f
    BY <1>1, <1>3, OlderMeans
  <2> DEFINE a == IF i < k THEN i ELSE i + 1
             b == IF j < k THEN j ELSE j + 1
  <2>2. /\ a \in 1 .. Len(list) /\ b \in 1 .. Len(list)
        /\ a < b /\ a # k /\ b # k
        /\ list[a] = g /\ list[b] = f
    BY <1>1, <2>1
  <2> HIDE DEF a, b
  <2>3. f # list[k] /\ g # list[k]
    BY <2>2, <1>2 DEF IsInjective
  <2>4. <<f, g>> \in Older(list)
    BY <2>2, OlderMeans
  <2> QED BY <2>3, <2>4
<1>4. ASSUME NEW f, NEW g, <<f, g>> \in kept
      PROVE  <<f, g>> \in Older(rest)
  <2>1. f # list[k] /\ g # list[k] /\ <<f, g>> \in Older(list)
    BY <1>4
  <2>2. PICK i, j \in 1 .. Len(list) : i < j /\ list[i] = g /\ list[j] = f
    BY <2>1, OlderMeans
  <2> DEFINE a == IF i < k THEN i ELSE i - 1
             b == IF j < k THEN j ELSE j - 1
  <2>3. i # k /\ j # k
    BY <2>1, <2>2
  <2>4. /\ a \in 1 .. Len(rest) /\ b \in 1 .. Len(rest)
        /\ a < b
        /\ rest[a] = g /\ rest[b] = f
    BY <1>1, <2>2, <2>3
  <2> HIDE DEF a, b
  <2> QED BY <2>4, <1>1, OlderMeans
<1>5. \A pair \in Older(rest) : pair = <<pair[1], pair[2]>>
  BY <1>1, OlderListed
<1>6. \A pair \in kept : pair = <<pair[1], pair[2]>>
  BY OlderListed
<1> HIDE DEF kept
<1>7. Older(rest) = kept
  BY <1>3, <1>4, <1>5, <1>6, SamePairs
<1> QED BY <1>7 DEF rest, kept

(* A frame put at the front is younger than every other.                   *)
LEMMA OlderPushFront ==
  ASSUME NEW S, NEW list \in Seq(S), NEW e \in S
  PROVE  Older(PushFront(list, e)) = Older(list) \union (Range(list) \X {e})
<1> DEFINE new == PushFront(list, e)
           more == Older(list) \union (Range(list) \X {e})
<1>1. /\ new \in Seq(S)
      /\ Len(new) = Len(list) + 1
      /\ \A j \in 1 .. Len(list) + 1 : new[j] = IF j = 1 THEN e ELSE list[j - 1]
  BY DEF PushFront, Cons
<1>2. DOMAIN list = 1 .. Len(list)
  OBVIOUS
<1> HIDE DEF new
<1>3. ASSUME NEW f, NEW g, <<f, g>> \in Older(new)
      PROVE  <<f, g>> \in more
  <2>1. PICK i, j \in 1 .. Len(new) : i < j /\ new[i] = g /\ new[j] = f
    BY <1>1, <1>3, OlderMeans
  <2>2. j - 1 \in 1 .. Len(list) /\ list[j - 1] = f
    BY <1>1, <2>1
  <2>3. f \in Range(list)
    BY <2>2, <1>2 DEF Range
  <2>4. CASE i = 1
    BY <2>1, <2>3, <2>4, <1>1
  <2>5. CASE i # 1
    <3>1. i - 1 \in 1 .. Len(list) /\ list[i - 1] = g /\ i - 1 < j - 1
      BY <1>1, <2>1, <2>5
    <3>2. <<f, g>> \in Older(list)
      BY <3>1, <2>2, OlderMeans
    <3> QED BY <3>2
  <2> QED BY <2>4, <2>5
<1>4. ASSUME NEW f, NEW g, <<f, g>> \in more
      PROVE  <<f, g>> \in Older(new)
  <2>1. CASE <<f, g>> \in Older(list)
    <3>1. PICK i, j \in 1 .. Len(list) : i < j /\ list[i] = g /\ list[j] = f
      BY <2>1, OlderMeans
    <3>2. /\ i + 1 \in 1 .. Len(new) /\ j + 1 \in 1 .. Len(new) /\ i + 1 < j + 1
          /\ new[i + 1] = g /\ new[j + 1] = f
      BY <1>1, <3>1
    <3> QED BY <3>2, <1>1, OlderMeans
  <2>2. CASE f \in Range(list) /\ g = e
    <3>1. PICK j \in 1 .. Len(list) : list[j] = f
      BY <2>2, <1>2 DEF Range
    <3>2. /\ 1 \in 1 .. Len(new) /\ j + 1 \in 1 .. Len(new) /\ 1 < j + 1
          /\ new[1] = g /\ new[j + 1] = f
      BY <1>1, <3>1, <2>2
    <3> QED BY <3>2, <1>1, OlderMeans
  <2> QED BY <2>1, <2>2, <1>4
<1>5. \A pair \in Older(new) : pair = <<pair[1], pair[2]>>
  BY <1>1, OlderListed
<1>6. \A pair \in more : pair = <<pair[1], pair[2]>>
  BY OlderListed
<1> HIDE DEF more
<1>7. Older(new) = more
  BY <1>3, <1>4, <1>5, <1>6, SamePairs
<1> QED BY <1>7 DEF new, more
-----------------------------------------------------------------------------
(* What Pin, Victim and Unpin do to the list, as facts about the policy's  *)
(* two variables and the list's length.                                    *)
LEMMA EraseEffect ==
  ASSUME NEW S, NEW list \in Seq(S), IsInjective(list), NEW f \in Range(list)
  PROVE  /\ Erase(list, f) \in Seq(S)
         /\ IsInjective(Erase(list, f))
         /\ Len(Erase(list, f)) = Len(list) - 1
         /\ Range(Erase(list, f)) = Range(list) \ {f}
         /\ Older(Erase(list, f)) = {pair \in Older(list) : pair[1] # f /\ pair[2] # f}
<1> DEFINE k == CHOOSE j \in DOMAIN list : list[j] = f
<1>1. k \in 1 .. Len(list) /\ list[k] = f
  BY DEF Range
<1>2. Erase(list, f) = RemoveAt(list, k)
  BY DEF Erase
<1> HIDE DEF k
<1>3. Len(RemoveAt(list, k)) = Len(list) - 1
  BY <1>1, RemoveAtIndex
<1>4. Older(RemoveAt(list, k)) = {pair \in Older(list) : pair[1] # f /\ pair[2] # f}
  BY <1>1, OlderRemoveAt
<1>5. /\ Erase(list, f) \in Seq(S)
      /\ IsInjective(Erase(list, f))
      /\ Range(Erase(list, f)) = Range(list) \ {f}
  BY EraseLemma
<1> QED BY <1>2, <1>3, <1>4, <1>5

LEMMA PopBackEffect ==
  ASSUME NEW S, NEW list \in Seq(S), IsInjective(list), list # <<>>
  PROVE  /\ Back(list) \in Range(list)
         /\ PopBack(list) \in Seq(S)
         /\ IsInjective(PopBack(list))
         /\ Len(PopBack(list)) = Len(list) - 1
         /\ Range(PopBack(list)) = Range(list) \ {Back(list)}
         /\ Older(PopBack(list)) =
              {pair \in Older(list) : pair[1] # Back(list) /\ pair[2] # Back(list)}
         /\ \A g : <<g, Back(list)>> \notin Older(list)
<1>1. Len(list) \in 1 .. Len(list) /\ Back(list) = list[Len(list)]
  BY DEF Back, Last
<1>2. PopBack(list) = RemoveAt(list, Len(list))
  BY DEF PopBack, Front, RemoveAt
<1>3. ASSUME NEW g, <<g, Back(list)>> \in Older(list)
      PROVE  FALSE
  <2>1. PICK i, j \in 1 .. Len(list) : i < j /\ list[i] = Back(list) /\ list[j] = g
    BY <1>3, OlderMeans
  <2>2. i = Len(list)
    BY <2>1, <1>1 DEF IsInjective
  <2> QED BY <2>1, <2>2
<1>4. Len(PopBack(list)) = Len(list) - 1
  BY <1>1, <1>2, RemoveAtIndex
<1>5. Older(PopBack(list)) =
        {pair \in Older(list) : pair[1] # Back(list) /\ pair[2] # Back(list)}
  BY <1>1, <1>2, OlderRemoveAt
<1>6. /\ Back(list) \in Range(list)
      /\ PopBack(list) \in Seq(S)
      /\ IsInjective(PopBack(list))
      /\ Range(PopBack(list)) = Range(list) \ {Back(list)}
  BY PopBackLemma
<1> QED BY <1>3, <1>4, <1>5, <1>6

LEMMA PushFrontEffect ==
  ASSUME NEW S, NEW list \in Seq(S), IsInjective(list), NEW f \in S, f \notin Range(list)
  PROVE  /\ PushFront(list, f) \in Seq(S)
         /\ IsInjective(PushFront(list, f))
         /\ Len(PushFront(list, f)) = Len(list) + 1
         /\ Range(PushFront(list, f)) = Range(list) \union {f}
         /\ Older(PushFront(list, f)) = Older(list) \union (Range(list) \X {f})
<1>1. Len(PushFront(list, f)) = Len(list) + 1
  BY DEF PushFront, Cons
<1> QED BY <1>1, PushFrontLemma, OlderPushFront

(* Pin and Unpin are called with a frame.                                  *)
LEMMA CallHasFrame ==
  ASSUME TypeOK, NEW t \in Threads, call[t].op # "Victim"
  PROVE  call[t].frame \in Frames
<1>1. call[t] \in Calls
  BY DEF TypeOK
<1>2. call[t] # CallVictim
  BY DEF CallVictim
<1> QED BY <1>1, <1>2 DEF Calls
-----------------------------------------------------------------------------
(* The constructor leaves an empty list and a free latch.                  *)
LEMMA InitIInv == Init => IInv
<1> SUFFICES ASSUME Init PROVE IInv
  OBVIOUS
<1> USE LRUAssumption DEF Init
<1>1. TypeOK
  BY DEF TypeOK, Calls
<1>2. MapMatchesList /\ WithinCapacity
  BY DEF MapMatchesList, WithinCapacity, Range, IsInjective
<1>3. OwnerInside
  BY DEF OwnerInside
<1> QED BY <1>1, <1>2, <1>3 DEF IInv

(* A thread enters a member function.                                      *)
LEMMA BeginKeepsIInv ==
  ASSUME IInv, NEW t \in Threads, NEW c \in Calls, Begin(t, c)
  PROVE  IInv'
<1>1. TypeOK'
  BY DEF IInv, TypeOK, Begin
<1>2. MapMatchesList' /\ WithinCapacity'
  BY DEF IInv, Begin, MapMatchesList, WithinCapacity
<1>3. OwnerInside'
  BY DEF IInv, TypeOK, Begin, OwnerInside
<1> QED BY <1>1, <1>2, <1>3 DEF IInv

(* latch_.lock() returns.                                                  *)
LEMMA LockKeepsIInv ==
  ASSUME IInv, NEW t \in Threads, Lock(t)
  PROVE  IInv'
<1>1. TypeOK'
  BY DEF IInv, TypeOK, Lock
<1>2. MapMatchesList' /\ WithinCapacity'
  BY DEF IInv, Lock, MapMatchesList, WithinCapacity
<1>3. OwnerInside'
  BY LRUAssumption DEF IInv, TypeOK, Lock, OwnerInside
<1> QED BY <1>1, <1>2, <1>3 DEF IInv

(* A body that returns gives back the latch its own thread held.           *)
LEMMA ReturnKeepsOwner ==
  ASSUME IInv, NEW t \in Threads, at[t] = "body", Return(t)
  PROVE  /\ at' \in [Threads -> {"idle", "lock", "body", "relock"}]
         /\ call' \in [Threads -> Calls]
         /\ latch' = Free
         /\ OwnerInside'
BY LRUAssumption DEF IInv, TypeOK, Return, OwnerInside

(* Victim.                                                                 *)
LEMMA VictimKeepsIInv ==
  ASSUME IInv, NEW t \in Threads, Victim(t)
  PROVE  IInv'
<1>1. /\ at' \in [Threads -> {"idle", "lock", "body", "relock"}]
      /\ call' \in [Threads -> Calls]
      /\ latch' = Free
      /\ OwnerInside'
  BY ReturnKeepsOwner DEF Victim, InBody
<1>2. replacer \in Seq(Frames) /\ IsInjective(replacer) /\ lru_map = Range(replacer)
  BY DEF IInv, TypeOK, MapMatchesList
<1>3. CASE replacer = <<>> /\ UNCHANGED <<replacer, lru_map, got>>
  BY <1>1, <1>3 DEF IInv, TypeOK, MapMatchesList, WithinCapacity
<1>4. CASE /\ replacer # <<>>
           /\ got' = [got EXCEPT ![t] = Back(replacer)]
           /\ replacer' = PopBack(replacer)
           /\ lru_map' = lru_map \ {Back(replacer)}
  <2>1. /\ Back(replacer) \in Range(replacer)
        /\ replacer' \in Seq(Frames) /\ IsInjective(replacer')
        /\ Len(replacer') = Len(replacer) - 1
        /\ Range(replacer') = lru_map'
    BY <1>2, <1>4, PopBackEffect
  <2>2. Back(replacer) \in Frames
    BY <2>1, <1>2 DEF IInv, TypeOK
  <2>3. TypeOK'
    BY <1>1, <1>4, <2>1, <2>2 DEF IInv, TypeOK
  <2>4. MapMatchesList' /\ WithinCapacity'
    BY <2>1, <1>2, LRUAssumption DEF IInv, MapMatchesList, WithinCapacity
  <2> QED BY <1>1, <2>3, <2>4 DEF IInv
<1> QED BY <1>3, <1>4 DEF Victim

(* Pin.                                                                    *)
LEMMA PinKeepsIInv ==
  ASSUME IInv, NEW t \in Threads, Pin(t)
  PROVE  IInv'
<1> DEFINE f == call[t].frame
<1>1. /\ at' \in [Threads -> {"idle", "lock", "body", "relock"}]
      /\ call' \in [Threads -> Calls]
      /\ latch' = Free
      /\ OwnerInside'
  BY ReturnKeepsOwner DEF Pin, InBody
<1>2. replacer \in Seq(Frames) /\ IsInjective(replacer) /\ lru_map = Range(replacer)
  BY DEF IInv, TypeOK, MapMatchesList
<1>3. /\ lru_map' = lru_map \ {f}
      /\ got' = got
      /\ \/ f \in lru_map /\ replacer' = Erase(replacer, f)
         \/ f \notin lru_map /\ replacer' = replacer
  BY DEF Pin
<1> HIDE DEF f
<1>4. /\ replacer' \in Seq(Frames) /\ IsInjective(replacer')
      /\ Len(replacer') <= Len(replacer)
      /\ Range(replacer') = lru_map'
  <2>1. CASE f \in lru_map /\ replacer' = Erase(replacer, f)
    BY <1>2, <1>3, <2>1, EraseEffect
  <2>2. CASE f \notin lru_map /\ replacer' = replacer
    BY <1>2, <1>3, <2>2
  <2> QED BY <1>3, <2>1, <2>2
<1>5. TypeOK'
  BY <1>1, <1>3, <1>4 DEF IInv, TypeOK
<1>6. MapMatchesList' /\ WithinCapacity'
  BY <1>2, <1>4, LRUAssumption DEF IInv, MapMatchesList, WithinCapacity
<1> QED BY <1>1, <1>5, <1>6 DEF IInv

(* Unpin on a list that has room.                                          *)
LEMMA UnpinKeepsIInv ==
  ASSUME IInv, NEW t \in Threads, Unpin(t)
  PROVE  IInv'
<1> DEFINE f == call[t].frame
<1>1. /\ at' \in [Threads -> {"idle", "lock", "body", "relock"}]
      /\ call' \in [Threads -> Calls]
      /\ latch' = Free
      /\ OwnerInside'
  BY ReturnKeepsOwner DEF Unpin, InBody
<1>2. replacer \in Seq(Frames) /\ IsInjective(replacer) /\ lru_map = Range(replacer)
  BY DEF IInv, TypeOK, MapMatchesList
<1>3. f \in Frames
  BY CallHasFrame DEF IInv, Unpin, InBody
<1>4. /\ lru_map' = lru_map \union {f}
      /\ got' = got
      /\ Len(replacer) # NumPages
      /\ \/ f \notin lru_map /\ replacer' = PushFront(replacer, f)
         \/ f \in lru_map /\ replacer' = replacer
  BY DEF Unpin
<1> HIDE DEF f
<1>5. /\ replacer' \in Seq(Frames) /\ IsInjective(replacer')
      /\ Len(replacer') <= Len(replacer) + 1
      /\ Range(replacer') = lru_map'
  <2>1. CASE f \notin lru_map /\ replacer' = PushFront(replacer, f)
    BY <1>2, <1>3, <1>4, <2>1, PushFrontEffect
  <2>2. CASE f \in lru_map /\ replacer' = replacer
    BY <1>2, <1>4, <2>2
  <2> QED BY <1>4, <2>1, <2>2
<1>6. TypeOK'
  BY <1>1, <1>3, <1>4, <1>5 DEF IInv, TypeOK
<1>7. WithinCapacity'
  BY <1>2, <1>4, <1>5, LRUAssumption DEF IInv, WithinCapacity
<1>8. MapMatchesList'
  BY <1>5 DEF MapMatchesList
<1> QED BY <1>1, <1>6, <1>7, <1>8 DEF IInv

(* Unpin on the full list goes to lock the latch it holds.                 *)
LEMMA UnpinFullKeepsIInv ==
  ASSUME IInv, NEW t \in Threads, UnpinFull(t)
  PROVE  IInv'
<1>1. TypeOK'
  BY DEF IInv, TypeOK, UnpinFull
<1>2. MapMatchesList' /\ WithinCapacity'
  BY DEF IInv, UnpinFull, MapMatchesList, WithinCapacity
<1>3. OwnerInside'
  BY DEF IInv, TypeOK, UnpinFull, InBody, OwnerInside
<1> QED BY <1>1, <1>2, <1>3 DEF IInv

(* Every step keeps the invariant.                                         *)
LEMMA NextKeepsIInv == IInv /\ [Next]_vars => IInv'
<1> SUFFICES ASSUME IInv, [Next]_vars PROVE IInv'
  OBVIOUS
<1>1. ASSUME NEW t \in Threads, NEW c \in Calls, Begin(t, c) PROVE IInv'
  BY <1>1, BeginKeepsIInv
<1>2. ASSUME NEW t \in Threads, Lock(t) PROVE IInv'
  BY <1>2, LockKeepsIInv
<1>3. ASSUME NEW t \in Threads, Victim(t) PROVE IInv'
  BY <1>3, VictimKeepsIInv
<1>4. ASSUME NEW t \in Threads, Pin(t) PROVE IInv'
  BY <1>4, PinKeepsIInv
<1>5. ASSUME NEW t \in Threads, Unpin(t) PROVE IInv'
  BY <1>5, UnpinKeepsIInv
<1>6. ASSUME NEW t \in Threads, UnpinFull(t) PROVE IInv'
  BY <1>6, UnpinFullKeepsIInv
<1>7. CASE UNCHANGED vars
  BY <1>7 DEF IInv, TypeOK, MapMatchesList, WithinCapacity, OwnerInside, vars
<1> QED BY <1>1, <1>2, <1>3, <1>4, <1>5, <1>6, <1>7 DEF Next, Body
-----------------------------------------------------------------------------
(* The invariant holds in every reachable state.                           *)
LEMMA Invariance == Spec => []IInv
BY InitIInv, NextKeepsIInv, PTL DEF Spec

(* The state of the replacer and of its callers is well formed.            *)
THEOREM TypeCorrect == Spec => []TypeOK
<1>1. IInv => TypeOK
  BY DEF IInv
<1> QED BY <1>1, Invariance, PTL

(* lru_map_ has an entry for exactly the listed frames, each listed once,  *)
(* whatever the threads call and however they interleave.                  *)
THEOREM MapAndListAgree == Spec => []MapMatchesList
<1>1. IInv => MapMatchesList
  BY DEF IInv
<1> QED BY <1>1, Invariance, PTL

(* The list never outgrows num_pages, even when there are more frames.     *)
THEOREM CapacityKept == Spec => []WithinCapacity
<1>1. IInv => WithinCapacity
  BY DEF IInv
<1> QED BY <1>1, Invariance, PTL

(* A thread inside Pin, Unpin or Victim shares the body with nobody: the   *)
(* reason why a body may be modelled as one step.                          *)
MutualExclusion ==
  \A t, u \in Threads :
    at[t] \in {"body", "relock"} /\ at[u] \in {"body", "relock"} => t = u

THEOREM BodiesExclude == Spec => []MutualExclusion
<1>1. IInv => MutualExclusion
  BY DEF IInv, OwnerInside, MutualExclusion
<1> QED BY <1>1, Invariance, PTL

(* Unpin on a full list is the end of the replacer: the thread waits for   *)
(* the latch it holds, keeps waiting, and no later call of any thread gets *)
(* the latch or changes the list.                                          *)
SelfLockIsForEver ==
  [][\A t \in Threads : at[t] = "relock" =>
       at'[t] = "relock" /\ latch' = latch /\ replacer' = replacer]_vars

THEOREM SelfLockNeverEnds == Spec => SelfLockIsForEver
<1> DEFINE Stuck == \A t \in Threads : at[t] = "relock" =>
                      at'[t] = "relock" /\ latch' = latch /\ replacer' = replacer
<1>1. IInv /\ [Next]_vars => [Stuck]_vars
  <2> SUFFICES ASSUME IInv, Next, NEW t \in Threads, at[t] = "relock"
               PROVE  at'[t] = "relock" /\ latch' = latch /\ replacer' = replacer
    OBVIOUS
  <2>1. latch = t /\ latch # Free /\ at \in [Threads -> {"idle", "lock", "body", "relock"}]
    BY LRUAssumption DEF IInv, TypeOK, OwnerInside
  <2>2. \A u \in Threads : at[u] # "body"
    BY <2>1 DEF IInv, OwnerInside
  <2>3. PICK u \in Threads : (\E c \in Calls : Begin(u, c)) \/ Lock(u) \/ Body(u)
    BY DEF Next
  <2>4. ~Body(u)
    BY <2>2 DEF Body, Victim, Pin, Unpin, UnpinFull, InBody
  <2>5. ~Lock(u)
    BY <2>1 DEF Lock
  <2> QED BY <2>1, <2>3, <2>4, <2>5 DEF Begin
<1> QED BY <1>1, Invariance, PTL DEF Spec, SelfLockIsForEver
-----------------------------------------------------------------------------
(* Every step of the replacer is a step of the least-recently-used policy, *)
(* or changes nothing the policy speaks of.                                *)
LEMMA StepFollowsPolicy == IInv /\ [Next]_vars => [Policy!Next]_(Policy!vars)
<1> SUFFICES ASSUME IInv, Next
             PROVE  Policy!Next \/ UNCHANGED <<replacer, got>>
  BY DEF Policy!vars, vars
<1>1. /\ replacer \in Seq(Frames) /\ IsInjective(replacer) /\ lru_map = Range(replacer)
      /\ Range(replacer) \subseteq Frames
  BY DEF IInv, TypeOK, MapMatchesList
<1>2. ASSUME NEW t \in Threads, NEW c \in Calls, Begin(t, c)
      PROVE  Policy!Next
  BY <1>2 DEF Begin, Policy!Next, Policy!Ask
<1>3. ASSUME NEW t \in Threads, Lock(t) \/ UnpinFull(t)
      PROVE  UNCHANGED <<replacer, got>>
  BY <1>3 DEF Lock, UnpinFull
<1>4. ASSUME NEW t \in Threads, Victim(t)
      PROVE  Policy!Next \/ UNCHANGED <<replacer, got>>
  <2>1. CASE replacer = <<>>
    BY <2>1, <1>4 DEF Victim
  <2>2. CASE replacer # <<>>
    <3> DEFINE b == Back(replacer)
    <3>1. got' = [got EXCEPT ![t] = b] /\ replacer' = PopBack(replacer)
      BY <1>4, <2>2 DEF Victim
    <3>2. /\ b \in Range(replacer)
          /\ Range(replacer') = Range(replacer) \ {b}
          /\ Older(replacer') = {pair \in Older(replacer) : pair[1] # b /\ pair[2] # b}
          /\ \A g : <<g, b>> \notin Older(replacer)
      BY <1>1, <2>2, <3>1, PopBackEffect
    <3> HIDE DEF b
    <3>3. b \in Frames /\ Policy!Evict(t, b)
      BY <1>1, <3>1, <3>2 DEF Policy!Evict, Policy!Forget
    <3> QED BY <3>3 DEF Policy!Next
  <2> QED BY <2>1, <2>2
<1>5. ASSUME NEW t \in Threads, Pin(t)
      PROVE  Policy!Next \/ UNCHANGED <<replacer, got>>
  <2> DEFINE f == call[t].frame
  <2>1. /\ got' = got
        /\ \/ f \in lru_map /\ replacer' = Erase(replacer, f)
           \/ f \notin lru_map /\ replacer' = replacer
    BY <1>5 DEF Pin
  <2> HIDE DEF f
  <2>2. CASE f \in lru_map /\ replacer' = Erase(replacer, f)
    <3>1. /\ f \in Frames
          /\ Range(replacer') = Range(replacer) \ {f}
          /\ Older(replacer') = {pair \in Older(replacer) : pair[1] # f /\ pair[2] # f}
      BY <1>1, <2>2, EraseEffect
    <3>2. Policy!Withdraw(f)
      BY <1>1, <2>1, <2>2, <3>1 DEF Policy!Withdraw, Policy!Forget
    <3> QED BY <3>1, <3>2 DEF Policy!Next
  <2> QED BY <2>1, <2>2
<1>6. ASSUME NEW t \in Threads, Unpin(t)
      PROVE  Policy!Next \/ UNCHANGED <<replacer, got>>
  <2> DEFINE f == call[t].frame
  <2>1. /\ got' = got
        /\ \/ f \notin lru_map /\ replacer' = PushFront(replacer, f)
           \/ f \in lru_map /\ replacer' = replacer
    BY <1>6 DEF Unpin
  <2>2. f \in Frames
    BY <1>6, CallHasFrame DEF IInv, Unpin, InBody
  <2> HIDE DEF f
  <2>3. CASE f \notin lru_map /\ replacer' = PushFront(replacer, f)
    <3>1. /\ Range(replacer') = Range(replacer) \union {f}
          /\ Older(replacer') = Older(replacer) \union (Range(replacer) \X {f})
      BY <1>1, <2>2, <2>3, PushFrontEffect
    <3>2. Policy!Admit(f)
      BY <1>1, <2>1, <2>3, <3>1 DEF Policy!Admit
    <3> QED BY <2>2, <3>2 DEF Policy!Next
  <2> QED BY <2>1, <2>3
<1> QED BY <1>2, <1>3, <1>4, <1>5, <1>6 DEF Next, Body

(* The replacer implements the least-recently-used policy: for any threads *)
(* and frames, Victim hands out the frame that Unpin listed first.         *)
THEOREM ImplementsPolicy == Spec => FollowsPolicy
<1>1. Init => Policy!Init
  BY DEF Init, Policy!Init, Range, Older
<1> QED BY <1>1, Invariance, StepFollowsPolicy, PTL DEF Spec, FollowsPolicy, Policy!Spec
=============================================================================
