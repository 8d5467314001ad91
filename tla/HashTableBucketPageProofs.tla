---------------------- MODULE HashTableBucketPageProofs ----------------------
(***************************************************************************)
(* HashTableBucketPage for any number of slots, any width of a char and    *)
(* any pairs: the scans that stop early miss nothing, no pair is stored    *)
(* twice, and the page implements a set of pairs of limited size.          *)
(***************************************************************************)
EXTENDS HashTableBucketPage, FiniteSetTheorems, WellFoundedInduction, TLAPS

(* What is readable is occupied.                                           *)
ReadableIsOccupied == \A i \in Slots : IsReadable(i) => IsOccupied(i)

(* The slots that were ever used come first.                               *)
UsedComeFirst == \A i, j \in Slots : IsOccupied(i) /\ j < i => IsOccupied(j)

(* The bits of the last char that belong to no slot are never set.         *)
BitsHaveSlots ==
  \A b \in Bytes : \A c \in readable[b] : ByteBits * b + c \in Slots

IInv == /\ TypeOK
        /\ ReadableIsOccupied
        /\ UsedComeFirst
        /\ BitsHaveSlots
        /\ StoredOnce
-----------------------------------------------------------------------------
(* A slot has its byte and its bit, and is given by them.                  *)
LEMMA IndexOfSlot ==
  ASSUME NEW i \in Slots
  PROVE  /\ ByteOf(i) \in Bytes
         /\ BitOf(i) \in 0 .. ByteBits - 1
         /\ i = ByteBits * ByteOf(i) + BitOf(i)
<1>1. i \in Nat /\ i < BucketArraySize /\ BucketArraySize \in Nat /\ ByteBits \in Nat /\ ByteBits > 0
  BY BucketAssumption DEF Slots
<1>2. i \div ByteBits \in Nat /\ i \div ByteBits =< (BucketArraySize - 1) \div ByteBits
  BY <1>1
<1>3. i - ByteBits * (i \div ByteBits) \in 0 .. ByteBits - 1
  BY <1>1
<1>4. (BucketArraySize - 1) \div ByteBits \in Nat
  BY <1>1
<1>5. ByteBits * (i \div ByteBits) \in Nat
  BY <1>1, <1>2
<1> QED BY <1>1, <1>2, <1>3, <1>4, <1>5 DEF ByteOf, BitOf, Bytes

(* Two slots with the same byte and the same bit are one.                  *)
LEMMA IndexInjective ==
  ASSUME NEW i \in Slots, NEW j \in Slots, ByteOf(i) = ByteOf(j), BitOf(i) = BitOf(j)
  PROVE  i = j
<1>1. i = ByteBits * ByteOf(i) + BitOf(i)
  BY IndexOfSlot
<1>2. j = ByteBits * ByteOf(j) + BitOf(j)
  BY IndexOfSlot
<1> QED BY <1>1, <1>2

(* A byte and a bit are those of the number they make.                     *)
LEMMA SlotOfIndex ==
  ASSUME NEW b \in Bytes, NEW c \in 0 .. ByteBits - 1, NEW n, n = ByteBits * b + c
  PROVE  ByteOf(n) = b /\ BitOf(n) = c
<1>1. b \in Nat /\ c \in Nat /\ c < ByteBits /\ ByteBits \in Nat /\ ByteBits > 0
  BY BucketAssumption DEF Bytes
<1>2. n \div ByteBits = b
  BY <1>1
<1>3. n - ByteBits * b = c
  BY <1>1
<1> QED BY <1>2, <1>3 DEF ByteOf, BitOf

(* SetOccupied and SetReadable set the bit of one slot and no other.       *)
LEMMA WithBitEffect ==
  ASSUME NEW bitmap \in [Bytes -> Chars], NEW i \in Slots
  PROVE  /\ WithBit(bitmap, i) \in [Bytes -> Chars]
         /\ \A b \in Bytes : \A c :
              c \in WithBit(bitmap, i)[b] <=>
                c \in bitmap[b] \/ (b = ByteOf(i) /\ c = BitOf(i))
         /\ \A j \in Slots :
              BitOf(j) \in WithBit(bitmap, i)[ByteOf(j)] <=>
                j = i \/ BitOf(j) \in bitmap[ByteOf(j)]
<1>1. ByteOf(i) \in Bytes /\ BitOf(i) \in 0 .. ByteBits - 1
  BY IndexOfSlot
<1>2. WithBit(bitmap, i) = [bitmap EXCEPT ![ByteOf(i)] = @ \union {BitOf(i)}]
  BY BucketAssumption DEF WithBit, Slots
<1>3. WithBit(bitmap, i) \in [Bytes -> Chars]
  BY <1>1, <1>2 DEF Chars
<1>4. \A b \in Bytes : \A c :
        c \in WithBit(bitmap, i)[b] <=>
          c \in bitmap[b] \/ (b = ByteOf(i) /\ c = BitOf(i))
  BY <1>1, <1>2
<1>5. ASSUME NEW j \in Slots
      PROVE  BitOf(j) \in WithBit(bitmap, i)[ByteOf(j)] <=>
               j = i \/ BitOf(j) \in bitmap[ByteOf(j)]
  <2>1. ByteOf(j) \in Bytes
    BY IndexOfSlot
  <2>2. ByteOf(j) = ByteOf(i) /\ BitOf(j) = BitOf(i) <=> j = i
    BY IndexInjective
  <2> QED BY <1>4, <2>1, <2>2
<1> QED BY <1>3, <1>4, <1>5

(* Flipping the bit of a slot that is set clears it and no other.          *)
LEMMA FlippedEffect ==
  ASSUME NEW bitmap \in [Bytes -> Chars], NEW i \in Slots, BitOf(i) \in bitmap[ByteOf(i)]
  PROVE  /\ Flipped(bitmap, i) \in [Bytes -> Chars]
         /\ \A b \in Bytes : Flipped(bitmap, i)[b] \subseteq bitmap[b]
         /\ \A j \in Slots :
              BitOf(j) \in Flipped(bitmap, i)[ByteOf(j)] <=>
                j # i /\ BitOf(j) \in bitmap[ByteOf(j)]
<1>1. ByteOf(i) \in Bytes /\ BitOf(i) \in 0 .. ByteBits - 1
  BY IndexOfSlot
<1>2. SymDiff(bitmap[ByteOf(i)], {BitOf(i)}) = bitmap[ByteOf(i)] \ {BitOf(i)}
  BY DEF SymDiff
<1>3. Flipped(bitmap, i) = [bitmap EXCEPT ![ByteOf(i)] = bitmap[ByteOf(i)] \ {BitOf(i)}]
  BY <1>1, <1>2 DEF Flipped
<1>4. Flipped(bitmap, i) \in [Bytes -> Chars]
  BY <1>1, <1>3 DEF Chars
<1>5. \A b \in Bytes : \A c :
        c \in Flipped(bitmap, i)[b] <=>
          c \in bitmap[b] /\ ~(b = ByteOf(i) /\ c = BitOf(i))
  BY <1>1, <1>3
<1>6. ASSUME NEW j \in Slots
      PROVE  BitOf(j) \in Flipped(bitmap, i)[ByteOf(j)] <=>
               j # i /\ BitOf(j) \in bitmap[ByteOf(j)]
  <2>1. ByteOf(j) \in Bytes
    BY IndexOfSlot
  <2>2. ByteOf(j) = ByteOf(i) /\ BitOf(j) = BitOf(i) <=> j = i
    BY IndexInjective
  <2> QED BY <1>5, <2>1, <2>2
<1> QED BY <1>4, <1>5, <1>6

(* The least element of a set of numbers.                                  *)
LEMMA MinIsLeast ==
  ASSUME NEW S, S \subseteq Nat, S # {}
  PROVE  Min(S) \in S /\ \A y \in S : Min(S) =< y
<1>1. \E x \in S : \A y \in S : ~ (<<y, x>> \in OpToRel(<, Nat))
  BY WFMin, NatLessThanWellFounded
<1>2. \E x \in S : \A y \in S : x =< y
  <2>1. PICK x \in S : \A y \in S : ~ (<<y, x>> \in OpToRel(<, Nat))
    BY <1>1
  <2>2. ASSUME NEW y \in S PROVE x =< y
    <3>1. ~ (<<y, x>> \in OpToRel(<, Nat))
      BY <2>1
    <3>2. x \in Nat /\ y \in Nat
      OBVIOUS
    <3>3. ~ (y < x)
      BY <3>1, <3>2 DEF OpToRel
    <3> QED BY <3>2, <3>3
  <2> QED BY <2>2
<1> QED BY <1>2 DEF Min
-----------------------------------------------------------------------------
(* The pairs in the page.                                                  *)
Stored == {array[i] : i \in {s \in Slots : IsReadable(s)}}

(* What Store does, slot by slot.                                          *)
LEMMA StoreEffect ==
  ASSUME TypeOK, NEW i \in Slots, NEW p \in Pairs, Store(i, p)
  PROVE  /\ (occupied \in [Bytes -> Chars] /\ readable \in [Bytes -> Chars] /\ array \in [Slots -> Pairs])'
         /\ \A b \in Bytes : \A c :
              c \in readable'[b] => c \in readable[b] \/ (b = ByteOf(i) /\ c = BitOf(i))
         /\ \A j \in Slots : IsReadable(j)' <=> j = i \/ IsReadable(j)
         /\ \A j \in Slots : IsOccupied(j)' <=> j = i \/ IsOccupied(j)
         /\ \A j \in Slots : array'[j] = IF j = i THEN p ELSE array[j]
<1>1. /\ occupied \in [Bytes -> Chars]
      /\ readable \in [Bytes -> Chars]
      /\ array \in [Slots -> Pairs]
  BY DEF TypeOK
<1>2. /\ occupied' = WithBit(occupied, i)
      /\ readable' = WithBit(readable, i)
      /\ array' = [array EXCEPT ![i] = p]
  BY DEF Store
<1>3. /\ readable' \in [Bytes -> Chars]
      /\ \A b \in Bytes : \A c :
           c \in readable'[b] => c \in readable[b] \/ (b = ByteOf(i) /\ c = BitOf(i))
      /\ \A j \in Slots :
           BitOf(j) \in readable'[ByteOf(j)] <=> j = i \/ BitOf(j) \in readable[ByteOf(j)]
  BY <1>1, <1>2, WithBitEffect
<1>4. /\ occupied' \in [Bytes -> Chars]
      /\ \A j \in Slots :
           BitOf(j) \in occupied'[ByteOf(j)] <=> j = i \/ BitOf(j) \in occupied[ByteOf(j)]
  BY <1>1, <1>2, WithBitEffect
<1>5. \A j \in Slots : j < BucketArraySize
  BY BucketAssumption DEF Slots
<1>6. \A j \in Slots : IsReadable(j)' <=> j = i \/ IsReadable(j)
  BY <1>3, <1>5 DEF IsReadable
<1>7. \A j \in Slots : IsOccupied(j)' <=> j = i \/ IsOccupied(j)
  BY <1>4, <1>5 DEF IsOccupied
<1>8. array' \in [Slots -> Pairs] /\ \A j \in Slots : array'[j] = IF j = i THEN p ELSE array[j]
  BY <1>1, <1>2
<1> QED BY <1>3, <1>4, <1>6, <1>7, <1>8

(* What RemoveAt does, slot by slot.                                       *)
LEMMA RemoveAtEffect ==
  ASSUME TypeOK, NEW i \in Slots, IsReadable(i), RemoveAt(i)
  PROVE  /\ (occupied \in [Bytes -> Chars] /\ readable \in [Bytes -> Chars] /\ array \in [Slots -> Pairs])'
         /\ \A b \in Bytes : readable'[b] \subseteq readable[b]
         /\ \A j \in Slots : IsReadable(j)' <=> j # i /\ IsReadable(j)
         /\ \A j \in Slots : IsOccupied(j)' <=> IsOccupied(j)
         /\ array' = array
<1>1. /\ occupied \in [Bytes -> Chars]
      /\ readable \in [Bytes -> Chars]
      /\ array \in [Slots -> Pairs]
  BY DEF TypeOK
<1>2. /\ occupied' = occupied
      /\ readable' = Flipped(readable, i)
      /\ array' = array
  BY DEF RemoveAt
<1>3. \A j \in Slots : j < BucketArraySize
  BY BucketAssumption DEF Slots
<1>4. BitOf(i) \in readable[ByteOf(i)]
  BY <1>3 DEF IsReadable
<1>5. /\ readable' \in [Bytes -> Chars]
      /\ \A b \in Bytes : readable'[b] \subseteq readable[b]
      /\ \A j \in Slots :
           BitOf(j) \in readable'[ByteOf(j)] <=> j # i /\ BitOf(j) \in readable[ByteOf(j)]
  BY <1>1, <1>2, <1>4, FlippedEffect
<1>6. \A j \in Slots : IsReadable(j)' <=> j # i /\ IsReadable(j)
  BY <1>3, <1>5 DEF IsReadable
<1>7. \A j \in Slots : IsOccupied(j)' <=> IsOccupied(j)
  BY <1>2 DEF IsOccupied
<1> QED BY <1>1, <1>2, <1>5, <1>6, <1>7

(* A readable slot is one that every scan gets to.                         *)
LEMMA ReadableIsUsed ==
  ASSUME IInv, NEW i \in Slots, IsReadable(i)
  PROVE  i \in Used
<1>1. IsOccupied(i)
  BY DEF IInv, ReadableIsOccupied
<1>2. \A j \in 0 .. i - 1 : j \in Slots /\ j < i
  BY BucketAssumption DEF Slots
<1>3. \A j \in 0 .. i - 1 : IsOccupied(j)
  BY <1>1, <1>2 DEF IInv, UsedComeFirst
<1> QED BY <1>1, <1>3 DEF Used, Scanned

(* A call of Insert stores the pair in a slot that is not readable, behind *)
(* used slots only, or finds the pair, or no room.                         *)
LEMMA InsertCases ==
  ASSUME IInv, NEW p \in Pairs, Insert(p)
  PROVE  /\ found' = {}
         /\ \/ /\ ok' = TRUE /\ p \notin Stored /\ ~IsFull
               /\ \E i \in Slots : /\ ~IsReadable(i)
                                   /\ \A j \in Slots : j < i => IsOccupied(j)
                                   /\ Store(i, p)
            \/ /\ ok' = FALSE /\ UNCHANGED pageVars
               /\ p \in Stored \/ IsFull
<1> DEFINE Free == {i \in Scanned : ~IsReadable(i)}
<1>1. /\ found' = {}
      /\ ok' = (~IsFull /\ ~Duplicate(p) /\ Free # {})
      /\ IF ok' THEN Store(Min(Free), p) ELSE UNCHANGED pageVars
  BY DEF Insert
<1>2. Slots \subseteq Nat
  BY DEF Slots
<1>3. Duplicate(p) <=> p \in Stored
  <2>1. ASSUME NEW i \in Slots, IsReadable(i), array[i] = p PROVE Duplicate(p)
    <3>1. i \in Scanned
      BY <2>1, ReadableIsUsed DEF Used
    <3> QED BY <2>1, <3>1 DEF Duplicate, Holds
  <2>2. ASSUME NEW i \in Scanned, IsReadable(i), array[i] = p PROVE p \in Stored
    BY <2>2 DEF Scanned, Stored
  <2> QED BY <2>1, <2>2 DEF Stored, Duplicate, Holds
<1>4. ASSUME ~IsFull PROVE Free # {}
  <2> DEFINE Unreadable == {i \in Slots : ~IsReadable(i)}
  <2>1. Unreadable # {} /\ Unreadable \subseteq Nat
    BY <1>2, <1>4 DEF IsFull
  <2>2. Min(Unreadable) \in Unreadable /\ \A y \in Unreadable : Min(Unreadable) =< y
    BY <2>1, MinIsLeast
  <2> HIDE DEF Unreadable
  <2>3. PICK m \in Slots : ~IsReadable(m) /\ \A y \in Unreadable : m =< y
    BY <2>2 DEF Unreadable
  <2>4. ASSUME NEW j \in 0 .. m - 1 PROVE IsOccupied(j)
    <3>1. j \in Slots /\ j < m /\ m \in Nat /\ j \in Nat
      BY BucketAssumption DEF Slots
    <3>2. j \notin Unreadable
      BY <2>3, <3>1
    <3> QED BY <3>1, <3>2 DEF Unreadable, IInv, ReadableIsOccupied
  <2> QED BY <2>3, <2>4 DEF Scanned
<1>5. CASE ~IsFull /\ p \notin Stored
  <2>1. ok' = TRUE /\ Free # {} /\ Store(Min(Free), p)
    BY <1>1, <1>3, <1>4, <1>5
  <2>2. Free \subseteq Nat
    BY <1>2 DEF Scanned
  <2>3. Min(Free) \in Free
    BY <2>1, <2>2, MinIsLeast
  <2>4. PICK i \in Free : Store(i, p)
    BY <2>1, <2>3
  <2>5. i \in Slots /\ ~IsReadable(i) /\ \A j \in Slots : j < i => IsOccupied(j)
    <3>1. i \in Slots /\ ~IsReadable(i) /\ \A j \in 0 .. i - 1 : IsOccupied(j)
      BY DEF Scanned
    <3>2. \A j \in Slots : j < i => j \in 0 .. i - 1
      BY <3>1, BucketAssumption DEF Slots
    <3> QED BY <3>1, <3>2
  <2> QED BY <1>1, <1>5, <2>1, <2>4, <2>5
<1>6. CASE IsFull \/ p \in Stored
  <2>1. ok' = FALSE /\ UNCHANGED pageVars
    BY <1>1, <1>3, <1>6
  <2> QED BY <1>1, <1>6, <2>1
<1> QED BY <1>5, <1>6

(* A call of Remove clears the slot of the pair, or does not find it.      *)
LEMMA RemoveCases ==
  ASSUME IInv, NEW p \in Pairs, Remove(p)
  PROVE  /\ found' = {}
         /\ \/ /\ ok' = TRUE
               /\ \E i \in Slots : IsReadable(i) /\ array[i] = p /\ RemoveAt(i)
            \/ ok' = FALSE /\ UNCHANGED pageVars /\ p \notin Stored
<1> DEFINE Hits == {i \in Used : Holds(i, p)}
<1>1. /\ found' = {}
      /\ ok' = (~IsEmpty /\ Hits # {})
      /\ IF ok' THEN RemoveAt(Min(Hits)) ELSE UNCHANGED pageVars
  BY DEF Remove
<1>2. \A i \in Hits : i \in Slots /\ IsReadable(i) /\ array[i] = p
  BY DEF Used, Scanned, Holds
<1>3. CASE p \in Stored
  <2>1. PICK i \in Slots : IsReadable(i) /\ array[i] = p
    BY <1>3 DEF Stored
  <2>2. i \in Used
    BY <2>1, ReadableIsUsed
  <2>3. Hits # {} /\ ~IsEmpty
    BY <2>1, <2>2 DEF Holds, IsEmpty
  <2>4. ok' = TRUE /\ RemoveAt(Min(Hits))
    BY <1>1, <2>3
  <2>5. Hits \subseteq Nat
    BY <1>2 DEF Slots
  <2>6. Min(Hits) \in Hits
    BY <2>3, <2>5, MinIsLeast
  <2>7. PICK h \in Hits : RemoveAt(h)
    BY <2>4, <2>6
  <2> QED BY <1>1, <1>2, <2>4, <2>7
<1>4. CASE p \notin Stored
  <2>1. Hits = {}
    BY <1>2, <1>4 DEF Stored
  <2>2. ok' = FALSE /\ UNCHANGED pageVars
    BY <1>1, <2>1
  <2> QED BY <1>1, <1>4, <2>2
<1> QED BY <1>3, <1>4-----------------------------------------------------------------------------
(* The empty page.                                                         *)
LEMMA InitIInv == Init => IInv
<1> SUFFICES ASSUME Init PROVE IInv
  OBVIOUS
<1>1. \A i \in Slots : ByteOf(i) \in Bytes /\ i < BucketArraySize
  BY IndexOfSlot, BucketAssumption DEF Slots
<1>2. \A i \in Slots : ~IsReadable(i) /\ ~IsOccupied(i)
  BY <1>1 DEF Init, IsReadable, IsOccupied
<1>3. TypeOK
  BY BucketAssumption DEF Init, TypeOK, Chars
<1>4. BitsHaveSlots
  BY DEF Init, BitsHaveSlots
<1> QED BY <1>2, <1>3, <1>4 DEF IInv, ReadableIsOccupied, UsedComeFirst, StoredOnce

(* A new pair in a slot that is free, behind used slots only.              *)
LEMMA StoreKeepsIInv ==
  ASSUME IInv, NEW p \in Pairs, p \notin Stored,
         NEW i \in Slots, ~IsReadable(i), \A j \in Slots : j < i => IsOccupied(j),
         Store(i, p), ok' \in BOOLEAN, found' \subseteq Slots
  PROVE  IInv'
<1>1. TypeOK
  BY DEF IInv
<1>2. /\ (occupied \in [Bytes -> Chars] /\ readable \in [Bytes -> Chars] /\ array \in [Slots -> Pairs])'
      /\ \A b \in Bytes : \A c :
           c \in readable'[b] => c \in readable[b] \/ (b = ByteOf(i) /\ c = BitOf(i))
      /\ \A j \in Slots : IsReadable(j)' <=> j = i \/ IsReadable(j)
      /\ \A j \in Slots : IsOccupied(j)' <=> j = i \/ IsOccupied(j)
      /\ \A j \in Slots : array'[j] = IF j = i THEN p ELSE array[j]
  BY <1>1, StoreEffect
<1>3. TypeOK'
  BY <1>2 DEF TypeOK
<1>4. ReadableIsOccupied'
  BY <1>2 DEF IInv, ReadableIsOccupied
<1>5. UsedComeFirst'
  <2> SUFFICES ASSUME NEW h \in Slots, NEW j \in Slots, IsOccupied(h)', j < h
               PROVE  IsOccupied(j)'
    BY DEF UsedComeFirst
  <2>1. CASE h = i
    BY <1>2, <2>1
  <2>2. CASE IsOccupied(h)
    BY <1>2, <2>2 DEF IInv, UsedComeFirst
  <2> QED BY <1>2, <2>1, <2>2
<1>6. BitsHaveSlots'
  <2> SUFFICES ASSUME NEW b \in Bytes, NEW c \in readable'[b]
               PROVE  ByteBits * b + c \in Slots
    BY DEF BitsHaveSlots
  <2>1. CASE c \in readable[b]
    BY <2>1 DEF IInv, BitsHaveSlots
  <2>2. CASE b = ByteOf(i) /\ c = BitOf(i)
    <3>1. i = ByteBits * ByteOf(i) + BitOf(i)
      BY IndexOfSlot
    <3> QED BY <2>2, <3>1
  <2> QED BY <1>2, <2>1, <2>2
<1>7. StoredOnce'
  <2>1. \A j \in Slots : IsReadable(j) => array[j] # p
    BY DEF Stored
  <2> QED BY <1>2, <2>1 DEF IInv, StoredOnce
<1> QED BY <1>3, <1>4, <1>5, <1>6, <1>7 DEF IInv

(* A pair is taken out.                                                    *)
LEMMA RemoveAtKeepsIInv ==
  ASSUME IInv, NEW i \in Slots, IsReadable(i), RemoveAt(i), ok' \in BOOLEAN, found' \subseteq Slots
  PROVE  IInv'
<1>1. TypeOK
  BY DEF IInv
<1>2. /\ (occupied \in [Bytes -> Chars] /\ readable \in [Bytes -> Chars] /\ array \in [Slots -> Pairs])'
      /\ \A b \in Bytes : readable'[b] \subseteq readable[b]
      /\ \A j \in Slots : IsReadable(j)' <=> j # i /\ IsReadable(j)
      /\ \A j \in Slots : IsOccupied(j)' <=> IsOccupied(j)
      /\ array' = array
  BY <1>1, RemoveAtEffect
<1>3. TypeOK'
  BY <1>2 DEF TypeOK
<1>4. ReadableIsOccupied' /\ UsedComeFirst'
  BY <1>2 DEF IInv, ReadableIsOccupied, UsedComeFirst
<1>5. BitsHaveSlots'
  BY <1>2 DEF IInv, BitsHaveSlots
<1>6. StoredOnce'
  BY <1>2 DEF IInv, StoredOnce
<1> QED BY <1>3, <1>4, <1>5, <1>6 DEF IInv

(* A step that leaves the page alone.                                      *)
LEMMA QueryKeepsIInv ==
  ASSUME IInv, UNCHANGED pageVars, ok' \in BOOLEAN, found' \subseteq Slots
  PROVE  IInv'
<1>1. occupied' = occupied /\ readable' = readable /\ array' = array
  BY DEF pageVars
<1>2. \A i : (IsReadable(i)' <=> IsReadable(i)) /\ (IsOccupied(i)' <=> IsOccupied(i))
  BY <1>1 DEF IsReadable, IsOccupied
<1>3. TypeOK'
  BY <1>1 DEF IInv, TypeOK
<1>4. ReadableIsOccupied' /\ UsedComeFirst' /\ BitsHaveSlots' /\ StoredOnce'
  BY <1>1, <1>2 DEF IInv, ReadableIsOccupied, UsedComeFirst, BitsHaveSlots, StoredOnce
<1> QED BY <1>3, <1>4 DEF IInv

(* Every call keeps the invariant.                                         *)
LEMMA NextKeepsIInv == IInv /\ [Next]_vars => IInv'
<1> SUFFICES ASSUME IInv, [Next]_vars PROVE IInv'
  OBVIOUS
<1>1. ASSUME NEW k \in Keys, GetValue(k) PROVE IInv'
  <2>1. UNCHANGED pageVars /\ ok' \in BOOLEAN /\ found' \subseteq Slots
    BY <1>1 DEF GetValue, Matches
  <2> QED BY <2>1, QueryKeepsIInv
<1>2. ASSUME NEW p \in Pairs, Insert(p) PROVE IInv'
  <2>1. found' \subseteq Slots
    BY <1>2, InsertCases
  <2>2. CASE ok' = FALSE /\ UNCHANGED pageVars
    BY <2>1, <2>2, QueryKeepsIInv
  <2>3. CASE /\ ok' = TRUE /\ p \notin Stored
             /\ \E i \in Slots : /\ ~IsReadable(i)
                                 /\ \A j \in Slots : j < i => IsOccupied(j)
                                 /\ Store(i, p)
    BY <2>1, <2>3, StoreKeepsIInv
  <2> QED BY <1>2, <2>2, <2>3, InsertCases
<1>3. ASSUME NEW p \in Pairs, Remove(p) PROVE IInv'
  <2>1. found' \subseteq Slots
    BY <1>3, RemoveCases
  <2>2. CASE ok' = FALSE /\ UNCHANGED pageVars
    BY <2>1, <2>2, QueryKeepsIInv
  <2>3. CASE ok' = TRUE /\ \E i \in Slots : IsReadable(i) /\ RemoveAt(i)
    BY <2>1, <2>3, RemoveAtKeepsIInv
  <2> QED BY <1>3, <2>2, <2>3, RemoveCases
<1>4. CASE UNCHANGED vars
  <2>1. UNCHANGED pageVars /\ ok' \in BOOLEAN /\ found' \subseteq Slots
    BY <1>4 DEF vars, IInv, TypeOK
  <2> QED BY <2>1, QueryKeepsIInv
<1> QED BY <1>1, <1>2, <1>3, <1>4 DEF Next

LEMMA Invariance == Spec => []IInv
BY InitIInv, NextKeepsIInv, PTL DEF Spec

(* The bitmaps are bytes, the shifts stay inside them, and the array holds *)
(* pairs.                                                                  *)
THEOREM TypeCorrect == Spec => []TypeOK
<1>1. IInv => TypeOK
  BY DEF IInv
<1> QED BY <1>1, Invariance, PTL

(* However slots are used, freed and used again, no pair lies behind the   *)
(* slot at which the scans stop.                                           *)
THEOREM ScansMissNothing == Spec => []ScansSeeEverything
<1>1. IInv => ScansSeeEverything
  BY ReadableIsUsed DEF ScansSeeEverything
<1> QED BY <1>1, Invariance, PTL

(* Insert never puts a pair into a second slot, although it looks for a    *)
(* free slot and for the pair in the same scan.                            *)
THEOREM NothingStoredTwice == Spec => []StoredOnce
<1>1. IInv => StoredOnce
  BY DEF IInv
<1> QED BY <1>1, Invariance, PTL-----------------------------------------------------------------------------
(* The slots that hold a pair are as many as the bits that are set.        *)
LEMMA BitsAreSlots == IInv => QueriesAgree
<1> SUFFICES ASSUME IInv PROVE QueriesAgree
  OBVIOUS
<1> DEFINE bits == {bit \in Bytes \X (0 .. ByteBits - 1) : bit[2] \in readable[bit[1]]}
           hold == {i \in Used : IsReadable(i)}
           index == [i \in hold |-> <<ByteOf(i), BitOf(i)>>]
<1>1. readable \in [Bytes -> Chars]
  BY DEF IInv, TypeOK
<1>2. \A i \in Slots : i < BucketArraySize
  BY BucketAssumption DEF Slots
<1>3. \A i \in hold : i \in Slots /\ IsReadable(i)
  BY DEF Used, Scanned
<1>4. ASSUME NEW i \in hold PROVE index[i] \in bits
  <2>1. /\ ByteOf(i) \in Bytes
        /\ BitOf(i) \in 0 .. ByteBits - 1
    BY <1>3, IndexOfSlot
  <2>2. BitOf(i) \in readable[ByteOf(i)]
    BY <1>2, <1>3 DEF IsReadable
  <2>3. index[i] = <<ByteOf(i), BitOf(i)>>
    OBVIOUS
  <2> QED BY <2>1, <2>2, <2>3
<1>5. ASSUME NEW i \in hold, NEW j \in hold, index[i] = index[j] PROVE i = j
  <2>1. ByteOf(i) = ByteOf(j) /\ BitOf(i) = BitOf(j)
    BY <1>5
  <2> QED BY <1>3, <2>1, IndexInjective
<1>6. ASSUME NEW bit \in bits PROVE \E i \in hold : index[i] = bit
  <2>1. PICK b \in Bytes, c \in 0 .. ByteBits - 1 : bit = <<b, c>> /\ c \in readable[b]
    OBVIOUS
  <2>2. PICK i \in Slots : i = ByteBits * b + c
    BY <2>1 DEF IInv, BitsHaveSlots
  <2>3. ByteOf(i) = b /\ BitOf(i) = c
    BY <2>2, SlotOfIndex
  <2>4. IsReadable(i)
    BY <2>1, <2>3 DEF IsReadable
  <2>5. i \in hold
    BY <2>4, ReadableIsUsed
  <2> QED BY <2>1, <2>3, <2>5
<1>7. IsFiniteSet(hold)
  <2>1. IsFiniteSet(Slots)
    BY FS_Interval, BucketAssumption DEF Slots
  <2>2. hold \in SUBSET Slots
    BY <1>3
  <2> QED BY <2>1, <2>2, FS_Subset
<1>8. index \in Bijection(hold, bits)
  <2>1. index \in [hold -> bits]
    BY <1>4
  <2> HIDE DEF index, hold, bits
  <2> QED BY <2>1, <1>5, <1>6 DEF Bijection, Injection, Surjection, IsInjective
<1>9. Cardinality(bits) = Cardinality(hold)
  <2> HIDE DEF index, hold, bits
  <2>1. ExistsBijection(hold, bits)
    BY <1>8 DEF ExistsBijection
  <2> QED BY <1>7, <2>1, FS_Bijection
<1>10. IsEmpty <=> bits = {}
  <2>1. IsEmpty <=> hold = {}
    BY DEF IsEmpty
  <2>2. hold = {} <=> bits = {}
    BY <1>4, <1>6
  <2> QED BY <2>1, <2>2
<1> QED BY <1>9, <1>10 DEF QueriesAgree, NumReadable

(* A page is full when as many pairs as it has slots are in it, because    *)
(* no two slots hold the same pair.                                        *)
LEMMA FullMeans == IInv => (IsFull <=> Cardinality(Stored) = BucketArraySize)
<1> SUFFICES ASSUME IInv PROVE IsFull <=> Cardinality(Stored) = BucketArraySize
  OBVIOUS
<1> DEFINE hold == {s \in Slots : IsReadable(s)}
           pairAt == [s \in hold |-> array[s]]
<1>1. IsFiniteSet(Slots) /\ Cardinality(Slots) = BucketArraySize
  BY FS_Interval, BucketAssumption DEF Slots
<1>2. hold \in SUBSET Slots
  OBVIOUS
<1>3. IsFiniteSet(hold) /\ (Cardinality(Slots) = Cardinality(hold) => Slots = hold)
  BY <1>1, <1>2, FS_Subset
<1>4. IsFull <=> Cardinality(hold) = BucketArraySize
  <2>1. IsFull <=> hold = Slots
    BY DEF IsFull
  <2> QED BY <1>1, <1>3, <2>1
<1>5. pairAt \in Bijection(hold, Stored)
  <2>1. pairAt \in [hold -> Stored]
    BY DEF Stored
  <2>2. \A i, j \in hold : pairAt[i] = pairAt[j] => i = j
    BY DEF IInv, StoredOnce
  <2>3. \A p \in Stored : \E i \in hold : pairAt[i] = p
    BY DEF Stored
  <2> HIDE DEF hold, pairAt
  <2> QED BY <2>1, <2>2, <2>3 DEF Bijection, Injection, Surjection, IsInjective
<1>6. Cardinality(Stored) = Cardinality(hold)
  <2> HIDE DEF hold, pairAt
  <2>1. ExistsBijection(hold, Stored)
    BY <1>5 DEF ExistsBijection
  <2> QED BY <1>3, <2>1, FS_Bijection
<1> QED BY <1>4, <1>6

(* IsEmpty and NumReadable, which stop at the first slot never used, give  *)
(* what a count of the set bits gives.                                     *)
THEOREM QueriesAgreeWithBits == Spec => []QueriesAgree
BY Invariance, BitsAreSlots, PTL
-----------------------------------------------------------------------------
(* BucketSet counts as this module does.                                   *)
LEMMA SameCardinality == \A S : Set!Cardinality(S) = Cardinality(S)
BY DEF Set!Cardinality, Cardinality

(* GetValue: the values of a key.                                          *)
LEMMA GetValueFollows ==
  ASSUME IInv, NEW k \in Keys, GetValue(k)
  PROVE  Set!GetValue(k)
<1>1. /\ found' = {i \in Matches(k) : \A j \in 0 .. i - 1 : IsOccupied(j) \/ j \in Matches(k)}
      /\ ok' = (found' # {})
      /\ UNCHANGED pageVars
  BY DEF GetValue
<1>2. found' = Matches(k)
  <2>1. ASSUME NEW i \in Matches(k) PROVE \A j \in 0 .. i - 1 : IsOccupied(j)
    <3>1. i \in Used
      BY <2>1, ReadableIsUsed DEF Matches
    <3> QED BY <3>1 DEF Used, Scanned
  <2> QED BY <1>1, <2>1
<1>3. array \in [Slots -> Pairs] /\ array' = array
  BY <1>1 DEF IInv, TypeOK, pageVars
<1>4. \A i \in Slots : array[i] = <<array[i][1], array[i][2]>> /\ array[i][2] \in Values
  BY <1>3 DEF Pairs
<1>5. {array'[i][2] : i \in found'} = {v \in Values : <<k, v>> \in Stored}
  <2>1. ASSUME NEW i \in Matches(k) PROVE array[i][2] \in Values /\ <<k, array[i][2]>> \in Stored
    <3>1. i \in Slots /\ IsReadable(i) /\ array[i][1] = k
      BY DEF Matches
    <3>2. array[i] = <<k, array[i][2]>>
      BY <1>4, <3>1
    <3>3. array[i] \in Stored
      BY <3>1 DEF Stored
    <3> QED BY <1>4, <3>1, <3>2, <3>3
  <2>2. ASSUME NEW v \in Values, <<k, v>> \in Stored PROVE \E i \in Matches(k) : v = array[i][2]
    <3>1. PICK i \in Slots : IsReadable(i) /\ array[i] = <<k, v>>
      BY <2>2 DEF Stored
    <3> QED BY <3>1 DEF Matches
  <2> QED BY <1>2, <1>3, <2>1, <2>2
<1>6. found' # {} <=> {array'[i][2] : i \in found'} # {}
  OBVIOUS
<1>7. Stored' = Stored
  BY <1>1 DEF pageVars, Stored, IsReadable
<1> QED BY <1>1, <1>5, <1>6, <1>7 DEF Set!GetValue, Set!ValuesOf, Stored

(* Insert: a pair is added unless it is there or the set is full.          *)
LEMMA InsertFollows ==
  ASSUME IInv, NEW p \in Pairs, Insert(p)
  PROVE  Set!Insert(p)
<1>1. Set!Full <=> IsFull
  BY FullMeans, SameCardinality DEF Set!Full, Stored
<1>2. found' = {} /\ {array'[i][2] : i \in found'} = {}
  BY InsertCases
<1>3. ASSUME ok' = TRUE, p \notin Stored, ~IsFull,
             NEW i \in Slots, ~IsReadable(i), Store(i, p)
      PROVE  Set!Insert(p)
  <2>1. /\ \A j \in Slots : IsReadable(j)' <=> j = i \/ IsReadable(j)
        /\ \A j \in Slots : array'[j] = IF j = i THEN p ELSE array[j]
    BY <1>3, StoreEffect DEF IInv
  <2>2. Stored' = Stored \union {p}
    <3>1. ASSUME NEW q \in Stored' PROVE q \in Stored \union {p}
      <4>1. PICK j \in Slots : IsReadable(j)' /\ q = array'[j]
        BY DEF Stored
      <4> QED BY <2>1, <4>1 DEF Stored
    <3>2. p \in Stored'
      <4>1. IsReadable(i)' /\ array'[i] = p
        BY <2>1
      <4> QED BY <4>1 DEF Stored
    <3>3. ASSUME NEW q \in Stored PROVE q \in Stored'
      <4>1. PICK j \in Slots : IsReadable(j) /\ q = array[j]
        BY DEF Stored
      <4>2. j # i /\ IsReadable(j)' /\ q = array'[j]
        BY <1>3, <2>1, <4>1
      <4> QED BY <4>2 DEF Stored
    <3> QED BY <3>1, <3>2, <3>3
  <2> QED BY <1>1, <1>2, <1>3, <2>2 DEF Set!Insert, Stored
<1>4. ASSUME ok' = FALSE, UNCHANGED pageVars, p \in Stored \/ IsFull
      PROVE  Set!Insert(p)
  <2>1. Stored' = Stored
    BY <1>4 DEF pageVars, Stored, IsReadable
  <2> QED BY <1>1, <1>2, <1>4, <2>1 DEF Set!Insert, Stored
<1> QED BY <1>3, <1>4, InsertCases

(* Remove: the pair is taken out if it is there.                           *)
LEMMA RemoveFollows ==
  ASSUME IInv, NEW p \in Pairs, Remove(p)
  PROVE  Set!Remove(p)
<1>1. found' = {} /\ {array'[i][2] : i \in found'} = {}
  BY RemoveCases
<1>2. ASSUME ok' = TRUE, NEW i \in Slots, IsReadable(i), array[i] = p, RemoveAt(i)
      PROVE  Set!Remove(p)
  <2>1. /\ \A j \in Slots : IsReadable(j)' <=> j # i /\ IsReadable(j)
        /\ array' = array
    BY <1>2, RemoveAtEffect DEF IInv
  <2>2. p \in Stored
    BY <1>2 DEF Stored
  <2>3. Stored' = Stored \ {p}
    <3>1. \A j \in Slots : IsReadable(j) /\ j # i => array[j] # p
      BY <1>2 DEF IInv, StoredOnce
    <3>2. ASSUME NEW q \in Stored' PROVE q \in Stored \ {p}
      <4>1. PICK j \in Slots : IsReadable(j)' /\ q = array'[j]
        BY DEF Stored
      <4> QED BY <2>1, <3>1, <4>1 DEF Stored
    <3>3. ASSUME NEW q \in Stored \ {p} PROVE q \in Stored'
      <4>1. PICK j \in Slots : IsReadable(j) /\ q = array[j]
        BY DEF Stored
      <4>2. IsReadable(j)' /\ q = array'[j]
        BY <1>2, <2>1, <4>1
      <4> QED BY <4>2 DEF Stored
    <3> QED BY <3>2, <3>3
  <2> QED BY <1>1, <1>2, <2>2, <2>3 DEF Set!Remove, Stored
<1>3. ASSUME ok' = FALSE, UNCHANGED pageVars, p \notin Stored
      PROVE  Set!Remove(p)
  <2>1. Stored' = Stored
    BY <1>3 DEF pageVars, Stored, IsReadable
  <2>2. Stored' = Stored \ {p}
    BY <1>3, <2>1
  <2>3. ok' = (p \in Stored)
    <3>1. (p \in Stored) = FALSE
      BY <1>3
    <3> QED BY <1>3, <3>1, Zenon
  <2> QED BY <1>1, <2>2, <2>3 DEF Set!Remove, Stored
<1> QED BY <1>2, <1>3, RemoveCases

(* The empty page is the empty set.                                        *)
LEMMA InitFollows == Init => Set!Init
<1> SUFFICES ASSUME Init PROVE Set!Init
  OBVIOUS
<1>1. \A i \in Slots : ByteOf(i) \in Bytes /\ i < BucketArraySize
  BY IndexOfSlot, BucketAssumption DEF Slots
<1>2. \A i \in Slots : ~IsReadable(i)
  BY <1>1 DEF Init, IsReadable
<1> QED BY <1>2 DEF Init, Set!Init

(* Bitmaps, slots and tombstones do not show: the page is a set of at most *)
(* BUCKET_ARRAY_SIZE pairs, which refuses a pair only when it has it or is *)
(* full, and removes a pair for good.                                      *)
THEOREM ImplementsBucketSet == Spec => IsBucketSet
<1>1. IInv /\ [Next]_vars => [Set!Next]_(Set!vars)
  <2> SUFFICES ASSUME IInv, [Next]_vars PROVE [Set!Next]_(Set!vars)
    OBVIOUS
  <2>1. ASSUME NEW k \in Keys, GetValue(k) PROVE Set!Next
    BY <2>1, GetValueFollows DEF Set!Next
  <2>2. ASSUME NEW p \in Pairs, Insert(p) \/ Remove(p) PROVE Set!Next
    BY <2>2, InsertFollows, RemoveFollows DEF Set!Next, Pairs
  <2>3. CASE UNCHANGED vars
    BY <2>3 DEF vars, pageVars, Set!vars, IsReadable
  <2> QED BY <2>1, <2>2, <2>3 DEF Next
<1> QED BY <1>1, InitFollows, Invariance, PTL DEF Spec, IsBucketSet, Set!Spec
=============================================================================
