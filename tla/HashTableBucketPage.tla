------------------------- MODULE HashTableBucketPage -------------------------
(***************************************************************************)
(* HashTableBucketPage: an array of key-value pairs with two bitmaps.      *)
(* occupied_ marks the slots that were ever used, readable_ those that     *)
(* hold a pair now.  Every scan but that of IsFull stops at the first slot *)
(* that was never used.                                                    *)
(*                                                                         *)
(* The table latches the page around every call, so a call is one step.    *)
(***************************************************************************)
EXTENDS Integers, FiniteSetsExt

CONSTANTS Keys,
          Values,
          BucketArraySize, \* BUCKET_ARRAY_SIZE
          ByteBits,        \* the bits of a char: 8
          ZeroPair         \* the pair that zeroed memory reads as

Pairs == Keys \X Values

ASSUME BucketAssumption == /\ BucketArraySize \in Nat \ {0}
                           /\ ByteBits \in Nat \ {0}
                           /\ ZeroPair \in Pairs

Slots == 0 .. BucketArraySize - 1

(* A char is the set of its bits that are set.                             *)
Bytes == 0 .. (BucketArraySize - 1) \div ByteBits
Chars == SUBSET (0 .. ByteBits - 1)

VARIABLES occupied, \* occupied_
          readable, \* readable_
          array,    \* array_
          ok,       \* the value the last call returned
          found     \* the slots whose values GetValue put into its result

pageVars == <<occupied, readable, array>>
vars == <<pageVars, ok, found>>

(* NewPage hands out zeroed memory.                                        *)
Init == /\ occupied = [b \in Bytes |-> {}]
        /\ readable = [b \in Bytes |-> {}]
        /\ array = [i \in Slots |-> ZeroPair]
        /\ ok = FALSE
        /\ found = {}
-----------------------------------------------------------------------------
(* arr_idx, and what is left of bucket_idx.                                *)
ByteOf(i) == i \div ByteBits

(* A mutation of BitOf: the bits of the earlier bytes are not taken off.   *)
BitOfBitmap(i) == i

BitOf(i) == i - ByteBits * ByteOf(i)

(* An illegal index is not occupied, but it is readable.                   *)
IsOccupied(i) == i < BucketArraySize /\ BitOf(i) \in occupied[ByteOf(i)]
IsReadable(i) == i < BucketArraySize => BitOf(i) \in readable[ByteOf(i)]

(* SetOccupied and SetReadable leave their bitmap alone at illegal indices.*)
WithBit(bitmap, i) == IF i < BucketArraySize
                      THEN [bitmap EXCEPT ![ByteOf(i)] = @ \union {BitOf(i)}]
                      ELSE bitmap

(* The bit changes from what it was, whatever it was.                      *)
Flipped(bitmap, i) ==
  [bitmap EXCEPT ![ByteOf(i)] = SymDiff(@, {BitOf(i)})]

(* The slots a scan looks at: it breaks at the first one never occupied,   *)
(* after it has looked at it.                                              *)
Scanned == {i \in Slots : \A j \in 0 .. i - 1 : IsOccupied(j)}

Used == {i \in Scanned : IsOccupied(i)}

Holds(i, p) == IsReadable(i) /\ array[i] = p

IsFull == \A i \in Slots : IsReadable(i)

(* A mutation of IsEmpty: it asks whether a slot was ever used.            *)
IsEmptyIfUnused == Used = {}

IsEmpty == ~ \E i \in Used : IsReadable(i)

NumReadable == Cardinality({i \in Used : IsReadable(i)})

(* A mutation of Matches: removed pairs match too.                         *)
MatchesRemoved(k) == {i \in Slots : array[i][1] = k}

Matches(k) == {i \in Slots : IsReadable(i) /\ array[i][1] = k}

(* A slot that matches is collected before the scan asks for its occupied_ *)
(* bit; any other slot without the bit ends the scan.                      *)
GetValue(k) ==
  /\ found' = {i \in Matches(k) :
                 \A j \in 0 .. i - 1 : IsOccupied(j) \/ j \in Matches(k)}
  /\ ok' = (found' # {})
  /\ UNCHANGED pageVars

(* A mutation of Duplicate: the scan ends at the first free slot.          *)
DuplicateBeforeHole(p) ==
  \E i \in Scanned : Holds(i, p) /\ \A j \in 0 .. i - 1 : IsReadable(j)

Duplicate(p) == \E i \in Scanned : Holds(i, p)

(* A mutation of Store: SetOccupied is missing.                            *)
StoreUnoccupied(i, p) == /\ array' = [array EXCEPT ![i] = p]
                         /\ readable' = WithBit(readable, i)
                         /\ UNCHANGED occupied

Store(i, p) == /\ array' = [array EXCEPT ![i] = p]
               /\ readable' = WithBit(readable, i)
               /\ occupied' = WithBit(occupied, i)

(* The first slot that is not readable takes the pair, unless the scan     *)
(* meets the pair, before that slot or behind it.                          *)
Insert(p) ==
  LET Free == {i \in Scanned : ~IsReadable(i)}
  IN  /\ found' = {}
      /\ ok' = (~IsFull /\ ~Duplicate(p) /\ Free # {})
      /\ IF ok' THEN Store(Min(Free), p) ELSE UNCHANGED pageVars

(* A tombstone: the slot stays occupied.                                   *)
RemoveAt(i) == /\ readable' = IF IsReadable(i) THEN Flipped(readable, i)
                                               ELSE readable
               /\ UNCHANGED <<occupied, array>>

Remove(p) ==
  LET Hits == {i \in Used : Holds(i, p)}
  IN  /\ found' = {}
      /\ ok' = (~IsEmpty /\ Hits # {})
      /\ IF ok' THEN RemoveAt(Min(Hits)) ELSE UNCHANGED pageVars

Next == \/ \E k \in Keys : GetValue(k)
        \/ \E p \in Pairs : Insert(p) \/ Remove(p)

Spec == Init /\ [][Next]_vars
-----------------------------------------------------------------------------
(* The shifts stay inside their byte, the writes inside their array.       *)
TypeOK == /\ occupied \in [Bytes -> Chars]
          /\ readable \in [Bytes -> Chars]
          /\ array \in [Slots -> Pairs]
          /\ ok \in BOOLEAN
          /\ found \subseteq Slots

(* No pair lies behind the point at which the scans stop, however slots    *)
(* were used, freed and used again: the used slots have no gap.            *)
ScansSeeEverything == \A i \in Slots : IsReadable(i) => i \in Used

(* A pair is stored once: Remove takes it out for good, GetValue reports   *)
(* it once.                                                                *)
StoredOnce ==
  \A i, j \in Slots :
    IsReadable(i) /\ IsReadable(j) /\ array[i] = array[j] => i = j

(* IsEmpty and NumReadable, which stop early, agree with the bitmap, in    *)
(* which no two slots share a bit.                                         *)
QueriesAgree ==
  LET bits == {bit \in Bytes \X (0 .. ByteBits - 1) :
                 bit[2] \in readable[bit[1]]}
  IN  /\ IsEmpty <=> bits = {}
      /\ NumReadable = Cardinality(bits)

(* The page implements a set of pairs of limited size.                     *)
Set == INSTANCE BucketSet WITH
  Capacity <- BucketArraySize,
  pairs <- {array[i] : i \in {s \in Slots : IsReadable(s)}},
  found <- {array[i][2] : i \in found}

IsBucketSet == Set!Spec
=============================================================================
