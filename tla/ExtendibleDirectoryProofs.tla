---------------------- MODULE ExtendibleDirectoryProofs ----------------------
(***************************************************************************)
(* Any sequence of splits and merges keeps the directory consistent, and   *)
(* what follows from that for the table and for the trie.                  *)
(***************************************************************************)
EXTENDS ExtendibleDirectory, HashTableDirectoryPageProofs

IInv == TypeOK /\ Consistent(dir) /\ NoLargerThanNeeded

LEMMA InitIInv == Init => IInv
<1> SUFFICES ASSUME NEW p \in BucketIds, dir = NewDirectory(p) PROVE IInv
  BY DEF Init
<1>1. /\ IsDirectory(dir) /\ Consistent(dir)
      /\ Indices(dir) = {0}
      /\ dir.global_depth = 0
      /\ dir.local_depths[0] = 0
  BY NewDirectoryEffect
<1> QED BY <1>1 DEF IInv, TypeOK, NoLargerThanNeeded

LEMMA SplitKeepsIInv ==
  ASSUME IInv, NEW i \in Indices(dir), NEW p \in BucketIds, Split(i, p)
  PROVE  IInv'
<1>1. /\ IsDirectory(dir) /\ Consistent(dir)
      /\ ~CannotSplit(dir, i)
      /\ \A j \in Indices(dir) : dir.bucket_page_ids[j] # p
  BY DEF IInv, TypeOK, Split, Used
<1>2. PICK s, e : s = SplitDirectory(dir, i, p) /\ e = Grown(dir, i)
  OBVIOUS
<1>3. dir' = s
  BY <1>2 DEF Split
<1>4. PICK k \in Nat : k = dir.local_depths[i]
  BY <1>1, DirectoryTypes
<1>5. /\ IsDirectory(s)
      /\ s.global_depth = e.global_depth
      /\ Indices(s) = Indices(e)
      /\ \A j \in Indices(s) :
           s.local_depths[j] = IF Low(j, k) = Low(i, k) THEN k + 1 ELSE e.local_depths[j]
  BY <1>1, <1>2, <1>4, SplitEffect
<1>6. Consistent(s)
  BY <1>1, <1>2, SplitIsConsistent
<1>7. /\ i \in Indices(e)
      /\ k < e.global_depth
      /\ e.global_depth \in {dir.global_depth, k + 1}
      /\ \A j \in Indices(e) : e.local_depths[j] = dir.local_depths[Low(j, dir.global_depth)]
      /\ \A j \in Indices(dir) : j \in Indices(e) /\ Low(j, dir.global_depth) = j
  BY <1>1, <1>2, <1>4, GrownEffect
<1>8. \E j \in Indices(s) : s.local_depths[j] = s.global_depth
  <2>1. CASE e.global_depth = k + 1
    BY <1>5, <1>7, <2>1
  <2>2. CASE e.global_depth = dir.global_depth
    <3>1. PICK j \in Indices(dir) : dir.local_depths[j] = dir.global_depth
      BY DEF IInv, NoLargerThanNeeded
    <3>2. Low(j, k) # Low(i, k)
      <4>1. dir.local_depths[j] # k
        BY <1>7, <2>2, <3>1
      <4> QED BY <1>1, <1>4, <3>1, <4>1 DEF Consistent
    <3>3. j \in Indices(s) /\ s.local_depths[j] = dir.local_depths[j]
      BY <1>5, <1>7, <3>2
    <3> QED BY <1>5, <2>2, <3>1, <3>3
  <2> QED BY <1>7, <2>1, <2>2
<1> QED BY <1>3, <1>5, <1>6, <1>8 DEF IInv, TypeOK, NoLargerThanNeeded

LEMMA MergeKeepsIInv ==
  ASSUME IInv, NEW i \in Indices(dir), Merge(i)
  PROVE  IInv'
<1>1. IsDirectory(dir) /\ Consistent(dir) /\ CanMerge(dir, i)
  BY DEF IInv, TypeOK, Merge
<1>2. PICK m : m = Merged(dir, i) /\ dir' = Shrunk(m)
  BY DEF Merge, MergeDirectory, Merged
<1>3. IsDirectory(m) /\ Consistent(m)
  BY <1>1, <1>2, MergeEffect, MergedIsConsistent
<1>4. PICK g \in Nat : /\ g =< m.global_depth
                       /\ dir' = WithGlobalDepth(m, g)
                       /\ IsDirectory(dir')
                       /\ Consistent(dir')
                       /\ \E j \in Indices(dir') : dir'.local_depths[j] = g
  BY <1>2, <1>3, ShrunkEffect
<1>5. dir'.global_depth = g
  BY <1>4 DEF WithGlobalDepth
<1> QED BY <1>4, <1>5 DEF IInv, TypeOK, NoLargerThanNeeded

LEMMA NextKeepsIInv == IInv /\ [Next]_dir => IInv'
<1> SUFFICES ASSUME IInv, [Next]_dir PROVE IInv'
  OBVIOUS
<1>1. ASSUME NEW i \in Indices(dir), NEW p \in BucketIds, Split(i, p) PROVE IInv'
  BY <1>1, SplitKeepsIInv
<1>2. ASSUME NEW i \in Indices(dir), Merge(i) PROVE IInv'
  BY <1>2, MergeKeepsIInv
<1>3. CASE UNCHANGED dir
  BY <1>3 DEF IInv, TypeOK, NoLargerThanNeeded
<1> QED BY <1>1, <1>2, <1>3 DEF Next

LEMMA Invariance == Spec => []IInv
BY InitIInv, NextKeepsIInv, PTL DEF Spec
-----------------------------------------------------------------------------
(* The arrays of the directory always have 2^(global depth) entries and    *)
(* hold depths and pages.                                                  *)
THEOREM TypeCorrect == Spec => []TypeOK
<1>1. IInv => TypeOK
  BY DEF IInv
<1> QED BY <1>1, Invariance, PTL

(* The assertions of VerifyIntegrity hold after every split and merge, for *)
(* any number of buckets at any depths.                                    *)
THEOREM DirectoryIsIntegral == Spec => []Integrity
<1>1. IInv => Integrity
  BY ConsistentIsIntegral DEF IInv, TypeOK, Integrity
<1> QED BY <1>1, Invariance, PTL

(* The directory is as small as its deepest bucket allows.                 *)
THEOREM DirectoryIsSmall == Spec => []NoLargerThanNeeded
<1>1. IInv => NoLargerThanNeeded
  BY DEF IInv
<1> QED BY <1>1, Invariance, PTL

(* The assertion of Merge holds: a split image is another bucket.          *)
THEOREM ImagesAreSound == Spec => []AssertionsHold
<1>1. ASSUME IInv, NEW i \in Indices(dir), dir.local_depths[i] # 0
      PROVE  dir.bucket_page_ids[GetSplitImageIndex(dir, i)] # dir.bucket_page_ids[i]
  <2>1. IsDirectory(dir) /\ Consistent(dir)
    BY <1>1 DEF IInv, TypeOK
  <2>2. PICK k \in Nat : dir.local_depths[i] = k + 1 /\ k + 1 =< dir.global_depth
    <3>1. dir.local_depths[i] \in Nat /\ dir.local_depths[i] =< dir.global_depth
      BY <2>1, DirectoryTypes DEF Consistent
    <3>2. dir.local_depths[i] - 1 \in Nat /\ (dir.local_depths[i] - 1) + 1 = dir.local_depths[i]
      BY <1>1, <3>1
    <3> QED BY <3>1, <3>2
  <2>3. PICK image \in Indices(dir) : /\ image = GetSplitImageIndex(dir, i)
                                      /\ Low(image, k + 1) # Low(i, k + 1)
    BY <2>1, <2>2, ImageIsOtherHalf DEF Low
  <2> QED BY <2>1, <2>2, <2>3 DEF Consistent
<1>2. IInv => AssertionsHold
  BY <1>1 DEF AssertionsHold
<1> QED BY <1>2, Invariance, PTL
-----------------------------------------------------------------------------
(* A step of the table disturbs only the bucket it splits, or the two it   *)
(* merges.                                                                 *)
THEOREM OthersAreNotDisturbed == Spec => OthersStay
<1> DEFINE PageAt(d, h) == d.bucket_page_ids[HashToIndex(d, h)]
           Disturbs(b, c) == \A h \in 0 .. 2 ^ MaxDepth - 1 :
             PageAt(dir, h) # PageAt(dir', h) => PageAt(dir, h) = b /\ PageAt(dir', h) = c
<1>1. ASSUME NEW h \in 0 .. 2 ^ MaxDepth - 1 PROVE h \in Nat
  <2>1. 2 ^ MaxDepth \in Nat
    BY DirectoryAssumption, PowerIsPositive
  <2> QED BY <2>1
<1>2. ASSUME IInv, NEW i \in Indices(dir), NEW p \in BucketIds, Split(i, p)
      PROVE  \E b, c \in BucketIds : Disturbs(b, c)
  <2>1. dir.bucket_page_ids[i] \in BucketIds
    BY <1>2, DirectoryTypes DEF IInv, TypeOK
  <2>2. /\ IsDirectory(dir) /\ Consistent(dir) /\ ~CannotSplit(dir, i)
        /\ dir' = SplitDirectory(dir, i, p)
    BY <1>2 DEF IInv, TypeOK, Split
  <2>3. Disturbs(dir.bucket_page_ids[i], p)
    BY <1>1, <2>2, SplitLeadsTo
  <2> QED BY <2>1, <2>3
<1>3. ASSUME IInv, NEW i \in Indices(dir), Merge(i)
      PROVE  \E b, c \in BucketIds : Disturbs(b, c)
  <2>1. PICK image : image = GetSplitImageIndex(dir, i)
    OBVIOUS
  <2>2. /\ IsDirectory(dir) /\ Consistent(dir) /\ CanMerge(dir, i)
        /\ dir' = MergeDirectory(dir, i)
    BY <1>3 DEF IInv, TypeOK, Merge
  <2>3. image \in Indices(dir)
    BY <2>1, <2>2, 0 \in Nat, MergeLeadsTo
  <2>4. dir.bucket_page_ids[i] \in BucketIds /\ dir.bucket_page_ids[image] \in BucketIds
    BY <2>2, <2>3, DirectoryTypes
  <2>5. Disturbs(dir.bucket_page_ids[i], dir.bucket_page_ids[image])
    BY <1>1, <2>1, <2>2, MergeLeadsTo
  <2> QED BY <2>4, <2>5
<1>4. IInv /\ [Next]_dir => [\E b, c \in BucketIds : Disturbs(b, c)]_dir
  BY <1>2, <1>3 DEF Next
<1>5. IInv /\ [Next]_dir => [\E b, c \in BucketIds : \A h \in 0 .. 2 ^ MaxDepth - 1 :
        LET Page(d) == d.bucket_page_ids[HashToIndex(d, h)]
        IN  Page(dir) # Page(dir') => Page(dir) = b /\ Page(dir') = c]_dir
  BY <1>4
<1> QED BY <1>5, Invariance, PTL DEF Spec, OthersStay
-----------------------------------------------------------------------------
(* The trie of a new directory has one leaf.                               *)
LEMMA InitFollows == Init => Trie!Init
<1> SUFFICES ASSUME NEW p \in BucketIds, dir = NewDirectory(p) PROVE Trie!Init
  BY DEF Init
<1>1. /\ Indices(dir) = {0}
      /\ dir.local_depths[0] = 0
      /\ dir.bucket_page_ids[0] = p
  BY NewDirectoryEffect
<1>2. 0 % 2 ^ 0 = 0
  OBVIOUS
<1>3. LeavesOf(dir) = {<<0, 0, p>>}
  BY <1>1, <1>2 DEF LeavesOf
<1> QED BY <1>3 DEF Trie!Init, LeavesOf

LEMMA SplitFollows ==
  ASSUME IInv, NEW i \in Indices(dir), NEW p \in BucketIds, Split(i, p)
  PROVE  Trie!Next
<1>1. /\ IsDirectory(dir) /\ Consistent(dir)
      /\ ~CannotSplit(dir, i)
      /\ dir' = SplitDirectory(dir, i, p)
      /\ \A j \in Indices(dir) : dir.bucket_page_ids[j] # p
  BY DEF IInv, TypeOK, Split, Used
<1>2. PICK k \in Nat : k = dir.local_depths[i]
  BY <1>1, DirectoryTypes
<1>3. k < MaxDepth
  <2>1. dir.global_depth \in Nat /\ dir.global_depth =< MaxDepth /\ k =< dir.global_depth
    BY <1>1, <1>2, DirectoryTypes DEF Consistent
  <2>2. k < dir.global_depth \/ dir.global_depth < MaxDepth
    BY <1>1, <1>2, RoomToSplit
  <2> QED BY <2>1, <2>2, DirectoryAssumption
<1>4. PICK l : l = LeafAt(dir, i) /\ l = <<k, Low(i, k), dir.bucket_page_ids[i]>>
  BY <1>2 DEF LeafAt
<1>5. PICK bit \in {0, 1} :
        LeavesOf(dir') = (LeavesOf(dir) \ {l})
          \union {<<k + 1, Low(i, k) + bit * 2 ^ k, dir.bucket_page_ids[i]>>,
                  <<k + 1, Low(i, k) + (1 - bit) * 2 ^ k, p>>}
  <2>1. \E bit \in {0, 1} :
          LeavesOf(SplitDirectory(dir, i, p)) =
            (LeavesOf(dir) \ {LeafAt(dir, i)})
              \union {<<k + 1, Low(i, k) + bit * 2 ^ k, dir.bucket_page_ids[i]>>,
                      <<k + 1, Low(i, k) + (1 - bit) * 2 ^ k, p>>}
    <3>1. IsDirectory(dir) /\ Consistent(dir) /\ ~CannotSplit(dir, i)
      BY <1>1
    <3> QED BY <1>2, <3>1, SplitLeaves
  <2> QED BY <1>1, <1>4, <2>1
<1>6. l \in LeavesOf(dir)
  BY <1>4, Leaves
<1>7. p \notin {leaf[3] : leaf \in LeavesOf(dir)}
  BY <1>1 DEF LeavesOf
<1>8. Trie!Split(l, bit, p)
  BY <1>3, <1>4, <1>5, <1>7 DEF Trie!Split, Trie!Buckets, LeavesOf
<1> QED BY <1>6, <1>8 DEF Trie!Next, LeavesOf

LEMMA MergeFollows ==
  ASSUME IInv, NEW i \in Indices(dir), Merge(i)
  PROVE  Trie!Next
<1>1. /\ IsDirectory(dir) /\ Consistent(dir)
      /\ CanMerge(dir, i)
      /\ dir' = MergeDirectory(dir, i)
  BY DEF IInv, TypeOK, Merge
<1>2. PICK k \in Nat, image \in Indices(dir) :
        /\ dir.local_depths[i] = k + 1
        /\ dir.local_depths[image] = k + 1
        /\ Low(image, k) = Low(i, k)
        /\ Low(image, k + 1) # Low(i, k + 1)
        /\ LeavesOf(dir') = (LeavesOf(dir) \ {LeafAt(dir, i), LeafAt(dir, image)})
                              \union {<<k, Low(i, k), dir.bucket_page_ids[image]>>}
  BY <1>1, MergeLeaves
<1>3. PICK l, m : /\ l = LeafAt(dir, i)
                  /\ l = <<k + 1, Low(i, k + 1), dir.bucket_page_ids[i]>>
                  /\ m = LeafAt(dir, image)
                  /\ m = <<k + 1, Low(image, k + 1), dir.bucket_page_ids[image]>>
  BY <1>2 DEF LeafAt
<1>4. l \in LeavesOf(dir) /\ m \in LeavesOf(dir)
  BY <1>3, Leaves
<1>5. l[2] % 2 ^ k = Low(i, k) /\ m[2] % 2 ^ k = Low(i, k)
  <2>1. i \in Nat /\ image \in Nat /\ k + 1 \in Nat /\ k =< k + 1
    BY <1>1, DirectoryTypes
  <2>2. Low(Low(i, k + 1), k) = Low(i, k) /\ Low(Low(image, k + 1), k) = Low(image, k)
    BY <2>1, LowOfLow
  <2>3. l[2] = Low(i, k + 1) /\ m[2] = Low(image, k + 1)
    BY <1>3
  <2>4. Low(l[2], k) = l[2] % 2 ^ k /\ Low(m[2], k) = m[2] % 2 ^ k
    BY DEF Low
  <2> QED BY <1>2, <2>2, <2>3, <2>4
<1>6. l # m /\ l[1] = k + 1 /\ m[1] = k + 1 /\ m[3] = dir.bucket_page_ids[image]
  BY <1>2, <1>3
<1>7. (k + 1) - 1 = k /\ k + 1 > 0
  OBVIOUS
<1>8. l[1] > 0 /\ Trie!Merge(l, m)
  BY <1>2, <1>3, <1>5, <1>6, <1>7 DEF Trie!Merge, LeavesOf
<1> QED BY <1>4, <1>8 DEF Trie!Next, LeavesOf

(* The directory implements the trie: SplitInsert splits one leaf, Merge   *)
(* unites two, and growing and shrinking the array change nothing.         *)
THEOREM ImplementsTrie == Spec => IsTrie
<1>1. IInv /\ [Next]_dir => [Trie!Next]_{<<dir.local_depths[i], i % 2 ^ dir.local_depths[i],
                                           dir.bucket_page_ids[i]>> : i \in Indices(dir)}
  <2> SUFFICES ASSUME IInv, [Next]_dir
               PROVE  Trie!Next \/ LeavesOf(dir') = LeavesOf(dir)
    BY DEF LeavesOf
  <2>1. CASE UNCHANGED dir
    BY <2>1
  <2>2. CASE Next
    BY <2>2, SplitFollows, MergeFollows DEF Next
  <2> QED BY <2>1, <2>2
<1> QED BY <1>1, InitFollows, Invariance, PTL DEF Spec, IsTrie, Trie!Spec
=============================================================================
