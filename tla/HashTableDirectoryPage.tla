----------------------- MODULE HashTableDirectoryPage -----------------------
(***************************************************************************)
(* HashTableDirectoryPage and the two changes the table makes to it: the   *)
(* split of a bucket and the merge of two.  A directory is a record; its   *)
(* arrays are modelled up to Size(d), so a read of an entry beyond it,     *)
(* where the program finds what an earlier shrink left there, is an error. *)
(***************************************************************************)
EXTENDS Naturals, FiniteSetsExt

CONSTANTS MaxDepth, \* DIRECTORY_ARRAY_SIZE is 2^MaxDepth
          BucketIds \* the ids of the bucket pages

ASSUME DirectoryAssumption == MaxDepth \in Nat

Size(d) == 2 ^ d.global_depth

Indices(d) == 0 .. Size(d) - 1

(* The low bits of hash h, as many as the global depth says.               *)
HashToIndex(d, h) == h % Size(d)

GetLocalHighBit(d, i) == (2 ^ d.local_depths[i]) \div 2

(* i with the highest of its local bits flipped; with no bits, i.          *)
GetSplitImageIndex(d, i) ==
  LET high == GetLocalHighBit(d, i)
  IN  IF high = 0 \/ (i \div high) % 2 = 0 THEN i + high ELSE i - high

(* A mutation of Siblings: the loop starts at i itself.                    *)
SiblingsFromIndex(d, i) ==
  {j \in Indices(d) : j >= i /\ j % (2 * GetLocalHighBit(d, i)) = i % (2 * GetLocalHighBit(d, i))}

(* The entries whose low bits, as many as the local depth at i says, are   *)
(* those of i: the loops of SplitInsert and Merge start at the low bits    *)
(* and go on in steps of the high bit, doubled.                            *)
Siblings(d, i) ==
  LET step == 2 * GetLocalHighBit(d, i)
  IN  {j \in Indices(d) : j % step = i % step}

IsDirectory(d) == \E g \in 0 .. MaxDepth :
  d \in [global_depth : {g},
         local_depths : [0 .. 2 ^ g - 1 -> 0 .. MaxDepth],
         bucket_page_ids : [0 .. 2 ^ g - 1 -> BucketIds]]

NewDirectory(p) == [global_depth |-> 0,
                    local_depths |-> [i \in {0} |-> 0],
                    bucket_page_ids |-> [i \in {0} |-> p]]

(* SetBucketPageId, SetLocalDepth and DecrLocalDepth at the entries in S.  *)
SetBucketPageIds(d, S, p) ==
  [d EXCEPT !.bucket_page_ids = [j \in Indices(d) |-> IF j \in S THEN p ELSE @[j]]]

SetLocalDepths(d, S, depth) ==
  [d EXCEPT !.local_depths = [j \in Indices(d) |-> IF j \in S THEN depth ELSE @[j]]]

DecrLocalDepths(d, S) ==
  [d EXCEPT !.local_depths = [j \in Indices(d) |-> IF j \in S THEN @[j] - 1 ELSE @[j]]]
-----------------------------------------------------------------------------
(* A mutation of CopiedFrom: every entry is followed by its copy, as if    *)
(* the directory were indexed by the high bits.                            *)
CopiedFromHalf(d, j) == j \div 2

CopiedFrom(d, j) == j % Size(d)

(* The arrays at another global depth; a larger one copies them behind     *)
(* themselves.                                                             *)
WithGlobalDepth(d, g) ==
  LET Resized(a) == [j \in 0 .. 2 ^ g - 1 |-> a[CopiedFrom(d, j)]]
  IN  [global_depth |-> g,
       local_depths |-> Resized(d.local_depths),
       bucket_page_ids |-> Resized(d.bucket_page_ids)]

IncrGlobalDepth(d) == WithGlobalDepth(d, d.global_depth + 1)

(* What CanShrink returns once the global depth has been reduced to g.     *)
CanShrink(d, g) == \A i \in 0 .. 2 ^ g - 1 : d.local_depths[i] < g

(* A mutation of Shrunk: the directory is left as large as it is.          *)
NotShrunk(d) == d

(* DecrGlobalDepth while CanShrink.                                        *)
Shrunk(d) == WithGlobalDepth(d, Max({g \in 0 .. d.global_depth : ~CanShrink(d, g)}))

(* A mutation of CannotSplit: the full size is compared, not half of it.   *)
CannotSplitLate(d, i) == /\ d.local_depths[i] >= d.global_depth
                         /\ Size(d) > 2 ^ MaxDepth

(* The bucket at i cannot be split: the directory would have to grow, and  *)
(* is too large already.                                                   *)
CannotSplit(d, i) == /\ d.local_depths[i] >= d.global_depth
                     /\ Size(d) > 2 ^ MaxDepth \div 2

(* The directory after SplitInsert grew it if need be, and incremented the *)
(* local depth of the bucket at i.                                         *)
Deepened(d, i) ==
  LET grown == IF d.local_depths[i] < d.global_depth THEN d ELSE IncrGlobalDepth(d)
  IN  [grown EXCEPT !.local_depths[i] = @ + 1]

(* SplitInsert gives half of the entries of the bucket at i, its split     *)
(* image and that one's siblings, to the new bucket page p, and sets the   *)
(* local depths of both halves.                                            *)
SplitDirectory(d, i, p) ==
  LET deep  == Deepened(d, i)
      depth == deep.local_depths[i]
      image == GetSplitImageIndex(deep, i)
      known == SetLocalDepths(deep, {image}, depth)
      Moved == Siblings(known, image)
  IN  SetBucketPageIds(SetLocalDepths(known, Moved \union Siblings(known, i), depth),
                       Moved, p)

(* A mutation of CanMerge: the depths are not compared.                    *)
CanMergeAnyDepth(d, i) == d.local_depths[i] # 0

(* The bucket at i has a split image, and the image has not been split     *)
(* further.                                                                *)
CanMerge(d, i) == /\ d.local_depths[i] # 0
                  /\ d.local_depths[GetSplitImageIndex(d, i)] = d.local_depths[i]

(* Merge hands all entries of the bucket at i to its split image, and then *)
(* shrinks the directory as far as it can.                                 *)
MergeDirectory(d, i) ==
  LET image  == GetSplitImageIndex(d, i)
      Moved  == Siblings(d, i)
      merged == DecrLocalDepths(d, Moved \union Siblings(d, image))
  IN  Shrunk(SetBucketPageIds(merged, Moved, d.bucket_page_ids[image]))
-----------------------------------------------------------------------------
(* What VerifyIntegrity asserts: no local depth exceeds the global depth,  *)
(* a bucket has the same local depth at all of its entries, and has        *)
(* 2^(global depth - local depth) of them.                                 *)
VerifyIntegrity(d) == \A i \in Indices(d) :
  LET Same == {j \in Indices(d) : d.bucket_page_ids[j] = d.bucket_page_ids[i]}
  IN  /\ d.local_depths[i] <= d.global_depth
      /\ \A j \in Same : d.local_depths[j] = d.local_depths[i]
      /\ Cardinality(Same) = 2 ^ (d.global_depth - d.local_depths[i])
=============================================================================
