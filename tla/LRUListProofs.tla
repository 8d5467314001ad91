---------------------------- MODULE LRUListProofs ----------------------------
(***************************************************************************)
(* What the operators of LRUList do to the frames a list names, for lists  *)
(* of any length over any set.                                             *)
(***************************************************************************)
EXTENDS LRUList, FiniteSetTheorems, SequenceTheorems, TLAPS

(* Removing position i of a list keeps the other entries in their order.   *)
LEMMA RemoveAtIndex ==
  ASSUME NEW S, NEW list \in Seq(S), NEW i \in 1 .. Len(list)
  PROVE  /\ RemoveAt(list, i) \in Seq(S)
         /\ Len(RemoveAt(list, i)) = Len(list) - 1
         /\ \A j \in 1 .. Len(list) - 1 :
              RemoveAt(list, i)[j] = IF j < i THEN list[j] ELSE list[j + 1]
<1> DEFINE before == SubSeq(list, 1, i - 1)
           after == SubSeq(list, i + 1, Len(list))
<1>1. /\ before \in Seq(S) /\ Len(before) = i - 1
      /\ \A j \in 1 .. i - 1 : before[j] = list[j]
  OBVIOUS
<1>2. /\ after \in Seq(S) /\ Len(after) = Len(list) - i
      /\ \A j \in 1 .. Len(list) - i : after[j] = list[i + j]
  OBVIOUS
<1>3. RemoveAt(list, i) = before \o after
  BY DEF RemoveAt
<1> HIDE DEF before, after
<1>4. /\ before \o after \in Seq(S)
      /\ Len(before \o after) = Len(before) + Len(after)
      /\ \A j \in 1 .. Len(before) + Len(after) :
           (before \o after)[j] = IF j <= Len(before) THEN before[j]
                                                     ELSE after[j - Len(before)]
  BY <1>1, <1>2, ConcatProperties
<1>5. ASSUME NEW j \in 1 .. Len(list) - 1
      PROVE  (before \o after)[j] = IF j < i THEN list[j] ELSE list[j + 1]
  <2>1. CASE j < i
    BY <2>1, <1>1, <1>2, <1>4
  <2>2. CASE ~(j < i)
    <3>1. (before \o after)[j] = after[j - (i - 1)]
      BY <2>2, <1>1, <1>2, <1>4
    <3>2. j - (i - 1) \in 1 .. Len(list) - i /\ i + (j - (i - 1)) = j + 1
      BY <2>2
    <3> QED BY <3>1, <3>2, <2>2, <1>2
  <2> QED BY <2>1, <2>2
<1> QED BY <1>1, <1>2, <1>3, <1>4, <1>5

(* Without position i, a list that names nothing twice names everything    *)
(* it did but the entry that was there.                                    *)
LEMMA RemoveAtInjective ==
  ASSUME NEW S, NEW list \in Seq(S), IsInjective(list), NEW i \in 1 .. Len(list)
  PROVE  /\ IsInjective(RemoveAt(list, i))
         /\ Range(RemoveAt(list, i)) = Range(list) \ {list[i]}
<1> DEFINE rest == RemoveAt(list, i)
<1>1. /\ rest \in Seq(S)
      /\ Len(rest) = Len(list) - 1
      /\ \A j \in 1 .. Len(list) - 1 : rest[j] = IF j < i THEN list[j] ELSE list[j + 1]
  BY RemoveAtIndex
<1>2. DOMAIN rest = 1 .. Len(list) - 1 /\ DOMAIN list = 1 .. Len(list)
  BY <1>1
<1> HIDE DEF rest
<1>3. IsInjective(rest)
  BY <1>1, <1>2 DEF IsInjective
<1>4. Range(rest) \subseteq Range(list) \ {list[i]}
  <2> SUFFICES ASSUME NEW j \in 1 .. Len(list) - 1
               PROVE  rest[j] \in Range(list) \ {list[i]}
    BY <1>2 DEF Range
  <2>1. CASE j < i
    BY <2>1, <1>1, <1>2 DEF Range, IsInjective
  <2>2. CASE ~(j < i)
    BY <2>2, <1>1, <1>2 DEF Range, IsInjective
  <2> QED BY <2>1, <2>2
<1>5. Range(list) \ {list[i]} \subseteq Range(rest)
  <2> SUFFICES ASSUME NEW k \in 1 .. Len(list), k # i
               PROVE  list[k] \in Range(rest)
    BY <1>2 DEF Range
  <2>1. CASE k < i
    BY <2>1, <1>1, <1>2 DEF Range
  <2>2. CASE k > i
    <3>1. k - 1 \in 1 .. Len(list) - 1 /\ rest[k - 1] = list[k]
      BY <2>2, <1>1
    <3> QED BY <3>1, <1>2 DEF Range
  <2> QED BY <2>1, <2>2
<1> QED BY <1>3, <1>4, <1>5 DEF rest

(* erase: the list loses f and nothing else.                               *)
LEMMA EraseLemma ==
  ASSUME NEW S, NEW list \in Seq(S), IsInjective(list), NEW f \in Range(list)
  PROVE  /\ Erase(list, f) \in Seq(S)
         /\ IsInjective(Erase(list, f))
         /\ Range(Erase(list, f)) = Range(list) \ {f}
<1> DEFINE i == CHOOSE j \in DOMAIN list : list[j] = f
<1>1. i \in 1 .. Len(list) /\ list[i] = f
  BY DEF Range
<1> QED BY <1>1, RemoveAtIndex, RemoveAtInjective DEF Erase

(* Pin(f): the list loses f, if f was listed, and nothing else.            *)
LEMMA PinnedLemma ==
  ASSUME NEW S, NEW list \in Seq(S), IsInjective(list), NEW f
  PROVE  /\ Pinned(list, f) \in Seq(S)
         /\ IsInjective(Pinned(list, f))
         /\ Range(Pinned(list, f)) = Range(list) \ {f}
BY EraseLemma DEF Pinned

(* pop_back: the list loses its last frame and nothing else.               *)
LEMMA PopBackLemma ==
  ASSUME NEW S, NEW list \in Seq(S), IsInjective(list), list # <<>>
  PROVE  /\ Back(list) \in Range(list)
         /\ PopBack(list) \in Seq(S)
         /\ IsInjective(PopBack(list))
         /\ Range(PopBack(list)) = Range(list) \ {Back(list)}
<1>1. Len(list) \in 1 .. Len(list)
  OBVIOUS
<1>2. Back(list) = list[Len(list)] /\ Back(list) \in Range(list)
  BY <1>1 DEF Back, Last, Range
<1>3. PopBack(list) = RemoveAt(list, Len(list))
  BY DEF PopBack, Front, RemoveAt
<1> QED BY <1>1, <1>2, <1>3, RemoveAtIndex, RemoveAtInjective

(* push_front of a frame that is not listed adds it.                       *)
LEMMA PushFrontLemma ==
  ASSUME NEW S, NEW list \in Seq(S), IsInjective(list), NEW f \in S, f \notin Range(list)
  PROVE  /\ PushFront(list, f) \in Seq(S)
         /\ IsInjective(PushFront(list, f))
         /\ Range(PushFront(list, f)) = Range(list) \union {f}
<1> DEFINE new == PushFront(list, f)
<1>1. /\ new \in Seq(S)
      /\ Len(new) = Len(list) + 1
      /\ \A j \in 1 .. Len(list) + 1 : new[j] = IF j = 1 THEN f ELSE list[j - 1]
  BY DEF PushFront, Cons
<1>2. DOMAIN new = 1 .. Len(list) + 1 /\ DOMAIN list = 1 .. Len(list)
  BY <1>1
<1> HIDE DEF new
<1>3. IsInjective(new)
  <2> SUFFICES ASSUME NEW a \in 1 .. Len(list) + 1, NEW b \in 1 .. Len(list) + 1,
                      new[a] = new[b]
               PROVE  a = b
    BY <1>2 DEF IsInjective
  <2>1. \A j \in 1 .. Len(list) : list[j] # f
    BY <1>2 DEF Range
  <2>2. \A j \in 1 .. Len(list) + 1 : j # 1 => new[j] = list[j - 1] /\ j - 1 \in 1 .. Len(list)
    BY <1>1
  <2>3. new[1] = f /\ 1 \in 1 .. Len(list) + 1
    BY <1>1
  <2>4. CASE a = 1 \/ b = 1
    BY <2>1, <2>2, <2>3, <2>4
  <2>5. CASE a # 1 /\ b # 1
    BY <2>2, <2>5, <1>2 DEF IsInjective
  <2> QED BY <2>4, <2>5
<1>4. Range(new) \subseteq Range(list) \union {f}
  BY <1>1, <1>2 DEF Range
<1>5. \A k \in 1 .. Len(list) : k + 1 \in 1 .. Len(list) + 1 /\ new[k + 1] = list[k]
  BY <1>1
<1>6. 1 \in DOMAIN new /\ new[1] = f
  BY <1>1, <1>2
<1>7. Range(list) \union {f} \subseteq Range(new)
  BY <1>2, <1>5, <1>6 DEF Range
<1> QED BY <1>1, <1>3, <1>4, <1>7 DEF new

(* Unpin(f) on a list that has room: f is listed afterwards, once.         *)
LEMMA UnpinnedLemma ==
  ASSUME NEW S, NEW list \in Seq(S), IsInjective(list), NEW f \in S
  PROVE  /\ Unpinned(list, f) \in Seq(S)
         /\ IsInjective(Unpinned(list, f))
         /\ Range(Unpinned(list, f)) = Range(list) \union {f}
BY PushFrontLemma DEF Unpinned

(* push_back of a frame that is not listed adds it.                        *)
LEMMA AppendLemma ==
  ASSUME NEW S, NEW list \in Seq(S), IsInjective(list), NEW f \in S, f \notin Range(list)
  PROVE  /\ Append(list, f) \in Seq(S)
         /\ IsInjective(Append(list, f))
         /\ Range(Append(list, f)) = Range(list) \union {f}
<1> DEFINE new == Append(list, f)
<1>1. /\ new \in Seq(S)
      /\ DOMAIN new = 1 .. Len(list) + 1 /\ DOMAIN list = 1 .. Len(list)
      /\ \A j \in 1 .. Len(list) : new[j] = list[j]
      /\ new[Len(list) + 1] = f
  OBVIOUS
<1> HIDE DEF new
<1>2. IsInjective(new)
  <2> SUFFICES ASSUME NEW a \in 1 .. Len(list) + 1, NEW b \in 1 .. Len(list) + 1,
                      new[a] = new[b]
               PROVE  a = b
    BY <1>1 DEF IsInjective
  <2>1. \A j \in 1 .. Len(list) : list[j] # f
    BY <1>1 DEF Range
  <2> QED BY <1>1, <2>1 DEF IsInjective
<1>3. Range(new) = Range(list) \union {f}
  BY <1>1 DEF Range
<1> QED BY <1>1, <1>2, <1>3 DEF new

(* A list that names no frame twice is as long as the set it names.        *)
LEMMA LengthIsCardinality ==
  ASSUME NEW S, NEW list \in Seq(S), IsInjective(list), IsFiniteSet(S),
         NEW f \in S, f \notin Range(list)
  PROVE  Len(list) < Cardinality(S)
<1> DEFINE D == 1 .. Len(list)
           T == S \ {f}
<1>1. IsFiniteSet(T) /\ Cardinality(T) = Cardinality(S) - 1 /\ Cardinality(S) \in Nat
  BY FS_RemoveElement, FS_CardinalityType
<1>2. DOMAIN list = D /\ list \in [D -> T]
  BY DEF Range
<1>3. IsFiniteSet(D) /\ Cardinality(D) = Len(list)
  <2>1. Len(list) \in Nat /\ 1 \in Int /\ Len(list) \in Int
    OBVIOUS
  <2>2. IsFiniteSet(D) /\ Cardinality(D) = IF 1 > Len(list) THEN 0 ELSE Len(list) - 1 + 1
    BY <2>1, FS_Interval
  <2> QED BY <2>1, <2>2
<1>4. ~(Cardinality(T) < Cardinality(D))
  <2> SUFFICES ASSUME Cardinality(T) < Cardinality(D) PROVE FALSE
    OBVIOUS
  <2> HIDE DEF D, T
  <2>1. \E x, y \in D : x # y /\ list[x] = list[y]
    BY <1>1, <1>2, <1>3, FS_PigeonHole
  <2> QED BY <2>1, <1>2 DEF IsInjective
<1> QED BY <1>1, <1>3, <1>4
=============================================================================
