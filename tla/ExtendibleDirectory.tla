------------------------- MODULE ExtendibleDirectory -------------------------
(***************************************************************************)
(* The directory under any sequence of splits and merges, whatever the     *)
(* buckets hold.  A bucket page that was merged away may come back under   *)
(* its old id: the directory cannot tell.                                  *)
(***************************************************************************)
EXTENDS HashTableDirectoryPage

VARIABLE dir

Init == \E p \in BucketIds : dir = NewDirectory(p)

Used == {dir.bucket_page_ids[i] : i \in Indices(dir)}

Split(i, p) == /\ ~CannotSplit(dir, i)
               /\ p \notin Used
               /\ dir' = SplitDirectory(dir, i, p)

Merge(i) == /\ CanMerge(dir, i)
            /\ dir' = MergeDirectory(dir, i)

Next == \E i \in Indices(dir) : \/ \E p \in BucketIds : Split(i, p)
                                \/ Merge(i)

Spec == Init /\ [][Next]_dir
-----------------------------------------------------------------------------
TypeOK == IsDirectory(dir)

(* The assertions of VerifyIntegrity hold after every split and merge, at  *)
(* any nesting of buckets of different depths.                             *)
Integrity == VerifyIntegrity(dir)

(* The assertion of Merge holds: the split image of a bucket that is not   *)
(* the only one is another bucket, even when it was split further, so the  *)
(* page Merge deletes is not the one it points both buckets' entries to.   *)
AssertionsHold == \A i \in Indices(dir) :
  dir.local_depths[i] # 0 =>
    dir.bucket_page_ids[GetSplitImageIndex(dir, i)] # dir.bucket_page_ids[i]

(* The directory is never larger than its deepest bucket needs: Merge      *)
(* shrinks it far enough, and SplitInsert grows it only for a bucket that  *)
(* needs the bit.                                                          *)
NoLargerThanNeeded == \E i \in Indices(dir) : dir.local_depths[i] = dir.global_depth

(* A step of the table disturbs only the bucket it splits, or the two it   *)
(* merges: every other hash leads to the page it led to before.            *)
OthersStay == [][\E b, c \in BucketIds : \A h \in 0 .. 2 ^ MaxDepth - 1 :
  LET Page(d) == d.bucket_page_ids[HashToIndex(d, h)]
  IN  Page(dir) # Page(dir') => Page(dir) = b /\ Page(dir') = c]_dir

(* The array with its duplicated entries implements the trie.              *)
Trie == INSTANCE HashTrie WITH
  leaves <- {<<dir.local_depths[i], i % 2 ^ dir.local_depths[i], dir.bucket_page_ids[i]>> :
               i \in Indices(dir)}

IsTrie == Trie!Spec
=============================================================================
