---------------------- MODULE ExtendibleHashTableProofs ----------------------
(***************************************************************************)
(* The hash table for every number of threads, keys and buckets, every     *)
(* size of a bucket and of the pool: its pages are the ones its threads    *)
(* think they are, pairs are found, pins are given back, and the table is  *)
(* linearizable.                                                           *)
(***************************************************************************)
EXTENDS ExtendibleHashTable, HashTableDirectoryPageProofs

(* The threads that have pinned page p and not unpinned it.                *)
Uses(t, p) == /\ at[t] \in {"fetch", "latch", "scan", "write", "unpin"}
              /\ p \in {DirectoryId, page[t]}

Users(p) == {t \in Threads : Uses(t, p)}

(* A thread knows the page of its bucket while it has the table latch in   *)
(* read mode, from FetchBucketPage on.                                     *)
HasPage(t) == \/ at[t] \in {"latch", "scan", "write"}
              \/ at[t] \in {"unpin", "unlatch"} /\ call[t].op # "GetGlobalDepth"

(* Which calls get to which place, and with which answer.                  *)
LocalsFit(t) ==
  /\ at[t] = "idle" <=> call[t] = NoCall
  /\ at[t] \in {"fetch", "latch", "scan"} => call[t].op # "GetGlobalDepth"
  /\ at[t] = "write" => call[t].op \in {"Insert", "Remove"}
  /\ at[t] \in {"split", "return"} => call[t].op = "Insert"
  /\ at[t] = "merge" => call[t].op = "Remove"
  /\ page[t] # DirectoryId <=> HasPage(t)
  /\ at[t] \in {"idle", "enter", "fetch", "latch", "scan", "write", "split"} => answer[t] = Pending
  /\ at[t] \in {"merge", "return"} => answer[t] # Pending
  /\ at[t] \in {"unpin", "unlatch"} =>
       /\ call[t].op = "GetGlobalDepth" => answer[t] = Pending
       /\ call[t].op \in {"GetValue", "Remove"} => answer[t] # Pending

(* The latch of a bucket page keeps writers alone in it.                   *)
LatchesExclude == \A p \in BucketIds : \A t, u \in BucketHolders(p) :
  t # u => ~Excludes(t, u)

(* What a thread found when it looked through its bucket is still so when  *)
(* it writes.                                                              *)
ReadyToWrite(t) == at[t] = "write" =>
  IF call[t].op = "Insert" THEN ThePair(t) \notin bucket[page[t]] /\ ~Full(page[t])
                           ELSE ThePair(t) \in bucket[page[t]]

BucketsAreFinite == \A p \in BucketIds : IsFiniteSet(bucket[p])

(* Every user of a page has a pin, and there are no other pins.            *)
PinsAreUsers == \A p \in Pages : pins[p] = Cardinality(Users(p))

(* Who changed a page still has it pinned and will mark it dirty.          *)
Marker(u, p) == at[u] = "unpin" /\ page[u] = p /\ MarksDirty(u)

ChangersMark == \A p \in unsaved : \E u \in Threads : Marker(u, p)

(* The inductive invariant while the program runs, ...                     *)
Running == /\ TypeOK
           /\ Consistent(dir)
           /\ \A t \in Threads : LocalsFit(t)
           /\ PageIdIsCurrent
           /\ LatchesExclude
           /\ \A t \in Threads : ReadyToWrite(t)
           /\ BucketsAreFinite
           /\ PairsAreFindable
           /\ PinsAreUsers
           /\ ChangersMark

(* ... and what an assertion leaves that ends it: there may be pins nobody *)
(* gives back and a directory that is only half changed.                   *)
Stopped == /\ TypeOK
           /\ PageIdIsCurrent
           /\ PairsAreFindable
           /\ ChangesAreMarked
           /\ AbortsOnlyWhenExhausted

IInv == IF aborted THEN Stopped ELSE Running
-----------------------------------------------------------------------------
(* Page ids and hashes are numbers, and the directory page is no bucket.   *)
LEMMA Ids ==
  /\ BucketIds \subseteq Nat
  /\ DirectoryId \notin BucketIds
  /\ DirectoryId \in Pages
  /\ BucketIds \subseteq Pages
  /\ \A k \in Keys : Hash[k] \in Nat /\ Hash[k] < 2 ^ MaxDepth
<1>1. ASSUME NEW k \in Keys PROVE Hash[k] \in Nat /\ Hash[k] < 2 ^ MaxDepth
  <2>1. Hash[k] \in 0 .. 2 ^ MaxDepth - 1
    BY TableAssumption
  <2>2. 2 ^ MaxDepth \in Nat
    BY DirectoryAssumption, PowerIsPositive
  <2> QED BY <2>1, <2>2
<1> QED BY <1>1, TableAssumption DEF DirectoryId, Pages

LEMMA CallFields ==
  ASSUME NEW c \in Calls
  PROVE  /\ c # NoCall
         /\ c.op \in {"GetValue", "Insert", "Remove", "GetGlobalDepth"}
         /\ c.op # "GetGlobalDepth" => c.key \in Keys
         /\ c.op \in {"Insert", "Remove"} => c.value \in Values
         /\ c \in [op : {"GetGlobalDepth"}] <=> c.op = "GetGlobalDepth"
<1>1. c # NoCall
  BY CallAssumption
<1>2. CASE c \in [op : {"GetValue"}, key : Keys]
  BY <1>1, <1>2
<1>3. CASE c \in [op : {"Insert", "Remove"}, key : Keys, value : Values]
  BY <1>1, <1>3
<1>4. CASE c \in [op : {"GetGlobalDepth"}]
  BY <1>1, <1>4
<1> QED BY <1>2, <1>3, <1>4 DEF Calls

(* A key leads to an entry of the directory, and that to a bucket page.    *)
LEMMA KeyLeads ==
  ASSUME IsDirectory(dir), NEW k \in Keys
  PROVE  /\ KeyToDirectoryIndex(k) \in Indices(dir)
         /\ KeyToPageId(k) \in BucketIds
<1>1. KeyToDirectoryIndex(k) \in Indices(dir)
  BY Ids, LeadsTo DEF KeyToDirectoryIndex
<1> QED BY <1>1, DirectoryTypes DEF KeyToPageId

LEMMA LeastId ==
  ASSUME NEW S, S \subseteq BucketIds, S # {}
  PROVE  Min(S) \in S
<1>1. \E x \in S : \A y \in S : x =< y
  BY Ids, LeastNumber
<1> QED BY <1>1 DEF Min

(* A set of functional values is not larger than the set it comes from.    *)
LEMMA ImageSize ==
  ASSUME NEW S, IsFiniteSet(S), NEW f
  PROVE  /\ IsFiniteSet({f[x] : x \in S})
         /\ Cardinality({f[x] : x \in S}) =< Cardinality(S)
<1> DEFINE T == {f[x] : x \in S}
           g == [x \in S |-> f[x]]
<1>1. g \in Surjection(S, T)
  BY DEF Surjection
<1> HIDE DEF T, g
<1>2. IsFiniteSet(T) /\ Cardinality(T) =< Cardinality(S)
  BY <1>1, FS_Surjection
<1> QED BY <1>2 DEF T

(* There is always a page for the split image: the entries of a bucket     *)
(* that can be split share a page, so fewer pages are used than there are  *)
(* entries, in the directory or in the one that is twice as large.         *)
LEMMA NewPage ==
  ASSUME IsDirectory(dir), Consistent(dir), NEW i \in Indices(dir), ~CannotSplit(dir, i)
  PROVE  /\ NewPageId \in BucketIds
         /\ \A j \in Indices(dir) : dir.bucket_page_ids[j] # NewPageId
<1>1. PICK e, s : e = Grown(dir, i) /\ s = SplitDirectory(dir, i, dir.bucket_page_ids[i])
  OBVIOUS
<1>2. PICK k \in Nat : k = dir.local_depths[i]
  BY DirectoryTypes
<1>3. /\ IsDirectory(e) /\ Consistent(e)
      /\ i \in Indices(e)
      /\ e.local_depths[i] = k
      /\ \A j \in Indices(e) :
           e.bucket_page_ids[j] = dir.bucket_page_ids[Low(j, dir.global_depth)]
      /\ \A j \in Indices(dir) : j \in Indices(e) /\ Low(j, dir.global_depth) = j
  BY <1>1, <1>2, GrownEffect
<1>4. PICK image \in Indices(e) : Low(image, k) = Low(i, k) /\ image # i
  <2>1. dir.bucket_page_ids[i] \in BucketIds
    BY DirectoryTypes
  <2>2. PICK x : x = GetSplitImageIndex(s, i)
    OBVIOUS
  <2>3. /\ x \in Indices(s)
        /\ Indices(s) = Indices(e)
        /\ Low(x, k) = Low(i, k)
        /\ Low(x, k + 1) # Low(i, k + 1)
    BY <1>1, <1>2, <2>1, <2>2, SplitEffect
  <2> QED BY <2>3
<1>5. e.bucket_page_ids[image] = e.bucket_page_ids[i]
  BY <1>3, <1>4 DEF Consistent
<1> DEFINE Used == {dir.bucket_page_ids[j] : j \in Indices(dir)}
           Others == Indices(e) \ {image}
           Held == {e.bucket_page_ids[j] : j \in Others}
<1>6. Used \subseteq Held
  <2> SUFFICES ASSUME NEW j \in Indices(dir) PROVE dir.bucket_page_ids[j] \in Held
    OBVIOUS
  <2>1. j \in Indices(e) /\ dir.bucket_page_ids[j] = e.bucket_page_ids[j]
    BY <1>3
  <2> QED BY <1>3, <1>4, <1>5, <2>1
<1>7. IsFiniteSet(Indices(e)) /\ Cardinality(Indices(e)) =< 2 ^ MaxDepth
  <2>1. /\ e.global_depth \in Nat /\ e.global_depth =< MaxDepth
        /\ Size(e) = 2 ^ e.global_depth /\ Size(e) \in Nat \ {0}
    BY <1>3, DirectoryTypes
  <2>2. 2 ^ e.global_depth =< 2 ^ MaxDepth /\ 2 ^ MaxDepth \in Nat
    BY <2>1, DirectoryAssumption, PowersGrow, PowerIsPositive
  <2>3. 0 \in Int /\ Size(e) - 1 \in Int /\ ~(0 > Size(e) - 1)
    BY <2>1
  <2>4. IsFiniteSet(0 .. Size(e) - 1) /\ Cardinality(0 .. Size(e) - 1) = (Size(e) - 1) - 0 + 1
    BY <2>3, FS_Interval
  <2> QED BY <2>1, <2>2, <2>4 DEF Indices
<1>8. IsFiniteSet(Others) /\ Cardinality(Others) = Cardinality(Indices(e)) - 1
  BY <1>4, <1>7, FS_RemoveElement
<1>9. IsFiniteSet(Held) /\ Cardinality(Held) =< Cardinality(Others)
  <2> HIDE DEF Others
  <2> QED BY <1>8, ImageSize
<1>10. BucketIds \ Used # {}
  <2> HIDE DEF Used, Others, Held
  <2> SUFFICES ASSUME BucketIds \subseteq Held PROVE FALSE
    BY <1>6
  <2>1. Cardinality(BucketIds) =< Cardinality(Held)
    BY <1>9, FS_Subset
  <2>2. /\ Cardinality(BucketIds) \in Nat /\ Cardinality(Held) \in Nat
        /\ Cardinality(Others) \in Nat /\ Cardinality(Indices(e)) \in Nat
    BY <1>7, <1>8, <1>9, TableAssumption, FS_CardinalityType
  <2>3. 2 ^ MaxDepth \in Nat /\ Cardinality(BucketIds) >= 2 ^ MaxDepth
    BY DirectoryAssumption, TableAssumption, PowerIsPositive
  <2> QED BY <1>7, <1>8, <1>9, <2>1, <2>2, <2>3
<1>11. Min(BucketIds \ Used) \in BucketIds \ Used
  <2> HIDE DEF Used
  <2> QED BY <1>10, LeastId
<1> QED BY <1>11 DEF NewPageId
-----------------------------------------------------------------------------
(* What a thread does unless the pool refuses it a page.                   *)
Step(t) == \/ \E c \in Calls : Begin(t, c)
           \/ Enter(t) \/ FetchBucketPage(t) \/ Latch(t)
           \/ GetValue(t) \/ InsertFindsFull(t) \/ InsertScans(t) \/ RemoveScans(t)
           \/ Write(t) \/ Unpin(t) \/ Unlatch(t) \/ ReturnSplit(t)
           \/ SplitInsert(t) \/ Merge(t)

Aborts(t) == FetchAborts(t) \/ WriterAborts(t) \/ SplitAborts(t)

ControlTypeOK ==
  /\ call \in [Threads -> Calls \union {NoCall}]
  /\ at \in [Threads -> {"idle", "enter", "fetch", "latch", "scan", "write",
                         "unpin", "unlatch", "split", "merge", "return"}]
  /\ page \in [Threads -> Pages]
  /\ answer \in [Threads -> [ok : BOOLEAN, found : SUBSET Values] \union {Pending}]

(* A step of a thread changes no locals of another.                        *)
OnlyMoves(t) == \A u \in Threads : u # t =>
  call'[u] = call[u] /\ at'[u] = at[u] /\ page'[u] = page[u] /\ answer'[u] = answer[u]

(* The call of a thread that is not idle.                                  *)
LEMMA CallOf ==
  ASSUME Running, NEW t \in Threads, at[t] # "idle"
  PROVE  /\ call[t] \in Calls
         /\ call[t].op \in {"GetValue", "Insert", "Remove", "GetGlobalDepth"}
         /\ call[t].op # "GetGlobalDepth" => call[t].key \in Keys
         /\ call[t].op \in {"Insert", "Remove"} => call[t].value \in Values
<1>1. call[t] \in Calls
  BY DEF Running, TypeOK, LocalsFit
<1> QED BY <1>1, CallFields

(* The bucket a key leads to.                                              *)
LEMMA PageOfCall ==
  ASSUME Running, NEW t \in Threads, at[t] # "idle", call[t].op # "GetGlobalDepth"
  PROVE  /\ IndexOf(t) \in Indices(dir)
         /\ PageOf(t) \in BucketIds
         /\ PageOf(t) \in Pages
         /\ PageOf(t) # DirectoryId
         /\ PageOf(t) = dir.bucket_page_ids[IndexOf(t)]
<1>1. call[t].key \in Keys
  BY CallOf
<1>2. IsDirectory(dir)
  BY DEF Running, TypeOK
<1> QED BY <1>1, <1>2, KeyLeads, Ids DEF IndexOf, PageOf, KeyToPageId

LEMMA StepKeepsControl ==
  ASSUME Running, NEW t \in Threads, Step(t)
  PROVE  /\ ControlTypeOK'
         /\ OnlyMoves(t)
         /\ LocalsFit(t)'
<1> DEFINE Goal == ControlTypeOK' /\ OnlyMoves(t) /\ LocalsFit(t)'
<1> USE DEF ControlTypeOK, OnlyMoves, LocalsFit, HasPage
<1>1. ControlTypeOK /\ LocalsFit(t) /\ DirectoryId \in Pages
  BY Ids DEF Running, TypeOK
<1>2. at[t] # "idle" => call[t] # NoCall /\ call[t] \in Calls
  BY <1>1
<1>3. at[t] # "idle" => call[t].op \in {"GetValue", "Insert", "Remove", "GetGlobalDepth"}
  BY CallOf
<1>4. NoCall \notin Calls /\ Pending \notin [ok : BOOLEAN, found : SUBSET Values]
  BY CallAssumption
<1>5. ASSUME NEW c \in Calls, Begin(t, c) PROVE Goal
  BY <1>1, <1>4, <1>5 DEF Begin, At, Goto
<1>6. CASE Enter(t)
  BY <1>1, <1>2, <1>6 DEF Enter, At, Goto
<1>7. CASE FetchBucketPage(t)
  <2>1. KeyToPageId(call[t].key) \in Pages /\ KeyToPageId(call[t].key) # DirectoryId
    BY <1>1, <1>7, PageOfCall DEF FetchBucketPage, PageOf, At
  <2> QED BY <1>1, <1>2, <1>7, <2>1 DEF FetchBucketPage, At, Goto
<1>9. CASE GetValue(t)
  <2>1. PICK values \in SUBSET Values :
          answer' = [answer EXCEPT ![t] = [ok |-> values # {}, found |-> values]]
    BY <1>9 DEF GetValue, Decide
  <2>2. [ok |-> values # {}, found |-> values] \in [ok : BOOLEAN, found : SUBSET Values]
    OBVIOUS
  <2> QED BY <1>1, <1>2, <1>3, <1>4, <1>9, <2>1, <2>2 DEF GetValue, Scans, Found, At, Goto
<1>10. \A b \in BOOLEAN : [ok |-> b, found |-> {}] \in [ok : BOOLEAN, found : SUBSET Values]
  OBVIOUS
<1>11. CASE InsertFindsFull(t)
  BY <1>1, <1>2, <1>11 DEF InsertFindsFull, Scans, Found, At, Goto
<1> DEFINE Answered == /\ answer' \in [Threads -> [ok : BOOLEAN, found : SUBSET Values] \union {Pending}]
                       /\ \A u \in Threads : u # t => answer'[u] = answer[u]
                       /\ answer'[t] # Pending
<1>8. ASSUME NEW b \in BOOLEAN, Decide(t, b, {}) PROVE Answered
  <2>1. answer' = [answer EXCEPT ![t] = [ok |-> b, found |-> {}]]
    BY <1>8 DEF Decide
  <2> QED BY <1>1, <1>4, <1>10, <2>1
<1>12. CASE InsertScans(t)
  <2>1. CASE ThePair(t) \in bucket[page[t]]
    <3>1. Answered /\ Found(t, "unpin") /\ at[t] = "scan" /\ call[t].op = "Insert"
      BY <1>12, <1>8, <2>1 DEF InsertScans, Scans, At
    <3> QED BY <1>1, <1>2, <3>1 DEF Found, Goto
  <2>2. CASE ThePair(t) \notin bucket[page[t]]
    BY <1>1, <1>2, <1>12, <2>2 DEF InsertScans, Scans, Found, At, Goto
  <2> QED BY <2>1, <2>2
<1>13. CASE RemoveScans(t)
  <2>1. CASE ThePair(t) \in bucket[page[t]]
    BY <1>1, <1>2, <1>13, <2>1 DEF RemoveScans, Scans, Found, At, Goto
  <2>2. CASE ThePair(t) \notin bucket[page[t]]
    <3>1. Answered /\ Found(t, "unpin") /\ at[t] = "scan" /\ call[t].op = "Remove"
      BY <1>13, <1>8, <2>2 DEF RemoveScans, Scans, At
    <3> QED BY <1>1, <1>2, <3>1 DEF Found, Goto
  <2> QED BY <2>1, <2>2
<1>14. CASE Write(t)
  BY <1>1, <1>2, <1>4, <1>10, <1>14 DEF Write, Decide, At, Goto
<1>15. CASE Unpin(t)
  BY <1>1, <1>2, <1>15 DEF Unpin, At, Goto
<1>16. CASE Unlatch(t)
  BY <1>1, <1>2, <1>3, <1>16 DEF Unlatch, Callee, Return, At, Goto
<1>17. CASE ReturnSplit(t)
  BY <1>1, <1>17 DEF ReturnSplit, Return, At, Goto
<1>18. CASE Latch(t)
  BY <1>1, <1>2, <1>18 DEF Latch, At, Goto
<1>19. CASE SplitFindsRoom(t)
  BY <1>1, <1>2, <1>4, <1>10, <1>19 DEF SplitFindsRoom, Decide, Alone, At, Goto
<1>20. CASE SplitRefused(t)
  BY <1>1, <1>2, <1>4, <1>10, <1>20 DEF SplitRefused, Decide, Alone, At, Goto
<1>21. CASE SplitBucket(t)
  BY <1>1, <1>2, <1>21 DEF SplitBucket, Alone, At, Goto
<1>22. CASE MergeNothing(t)
  BY <1>1, <1>22 DEF MergeNothing, Return, Alone, At, Goto
<1>23. CASE MergeBuckets(t)
  BY <1>1, <1>23 DEF MergeBuckets, Return, Alone, At, Goto
<1> QED BY <1>5, <1>6, <1>7, <1>9, <1>11, <1>12, <1>13, <1>14, <1>15, <1>16, <1>17,
           <1>18, <1>19, <1>20, <1>21, <1>22, <1>23
        DEF Step, SplitInsert, Merge
-----------------------------------------------------------------------------
(* With the table latch in write mode a thread is alone.                   *)
LEMMA NobodyElse ==
  ASSUME Running, Readers = {}
  PROVE  /\ \A u \in Threads : page[u] = DirectoryId /\ at[u] # "write"
         /\ \A p \in Pages : Users(p) = {}
<1>1. \A u \in Threads : at[u] \notin {"fetch", "latch", "scan", "write", "unpin", "unlatch"}
  BY DEF Readers
<1>2. \A u \in Threads : LocalsFit(u)
  BY DEF Running
<1> QED BY <1>1, <1>2 DEF LocalsFit, HasPage, Users, Uses

(* The steps that change the directory or a bucket.                        *)
LEMMA ChangingSteps ==
  ASSUME NEW t \in Threads, Step(t)
  PROVE  \/ dir' = dir /\ bucket' = bucket
         \/ Write(t) \/ SplitFindsRoom(t) \/ SplitBucket(t) \/ MergeBuckets(t)
BY DEF Step, Begin, Enter, FetchBucketPage, GetValue, InsertFindsFull, InsertScans, RemoveScans,
       Found, Unpin, Unlatch, ReturnSplit, Latch, SplitInsert, Merge, SplitRefused, MergeNothing,
       contentVars

(* A thread with a page keeps it, and its call.                            *)
LEMMA PageStays ==
  ASSUME Running, NEW t \in Threads, Step(t), page'[t] # DirectoryId
  PROVE  /\ call'[t] = call[t]
         /\ page'[t] = page[t] \/ FetchBucketPage(t)
         /\ at'[t] \in {"scan", "write", "unpin"} =>
              /\ page'[t] = page[t]
              /\ at[t] \in {"scan", "write", "unpin"} \/ Latch(t)
<1> DEFINE Goal == /\ call'[t] = call[t]
                   /\ page'[t] = page[t] \/ FetchBucketPage(t)
                   /\ at'[t] \in {"scan", "write", "unpin"} =>
                        /\ page'[t] = page[t]
                        /\ at[t] \in {"scan", "write", "unpin"} \/ Latch(t)
<1>1. /\ LocalsFit(t)
      /\ at[t] \in {"idle", "enter", "fetch", "latch", "scan", "write",
                    "unpin", "unlatch", "split", "merge", "return"}
      /\ call \in [Threads -> Calls \union {NoCall}]
      /\ at \in [Threads -> {"idle", "enter", "fetch", "latch", "scan", "write",
                             "unpin", "unlatch", "split", "merge", "return"}]
      /\ page \in [Threads -> Pages]
  BY DEF Running, TypeOK
<1>2. CASE page[t] = DirectoryId
  <2>1. ~HasPage(t)
    BY <1>1, <1>2 DEF LocalsFit
  <2>2. page' # page
    BY <1>2
  <2>3. FetchBucketPage(t) \/ Unlatch(t)
    BY <2>2 DEF Step, Begin, Enter, GetValue, InsertFindsFull,
       InsertScans, RemoveScans, Write, Found, Unpin, ReturnSplit, Latch, SplitInsert, Merge,
       SplitFindsRoom, SplitRefused, SplitBucket, MergeNothing, MergeBuckets
  <2>4. ~Unlatch(t)
    BY <1>1 DEF Unlatch
  <2> QED BY <1>1, <2>3, <2>4 DEF FetchBucketPage, Goto
<1>3. CASE page[t] # DirectoryId
  <2>1. at[t] \in {"latch", "scan", "write", "unpin", "unlatch"}
    BY <1>1, <1>3 DEF LocalsFit, HasPage
  <2>2. ~Unlatch(t)
    BY <1>1 DEF Unlatch
  <2>3. \/ GetValue(t) \/ InsertFindsFull(t) \/ InsertScans(t)
        \/ RemoveScans(t) \/ Write(t) \/ Unpin(t) \/ Latch(t)
    BY <2>1, <2>2 DEF Step, Begin, Enter, FetchBucketPage, ReturnSplit, SplitInsert, Merge,
       SplitFindsRoom, SplitRefused, SplitBucket, MergeNothing, MergeBuckets, Alone, At
  <2>5. CASE GetValue(t) \/ InsertFindsFull(t) \/ InsertScans(t) \/ RemoveScans(t)
    BY <2>5 DEF GetValue, InsertFindsFull, InsertScans, RemoveScans, Found, Scans, At
  <2>6. CASE Write(t) \/ Unpin(t) \/ Latch(t)
    BY <1>1, <2>6 DEF Write, Unpin, Latch, Goto, At
  <2> QED BY <2>3, <2>5, <2>6
<1> QED BY <1>2, <1>3

(* Who holds the latch of a bucket page.                                   *)
LEMMA Holders ==
  ASSUME \A u \in Threads : LocalsFit(u), NEW p \in BucketIds, NEW u \in Threads
  PROVE  u \in BucketHolders(p) <=> page[u] = p /\ at[u] \in {"scan", "write", "unpin"}
<1>1. p # DirectoryId /\ LocalsFit(u)
  BY Ids
<1> QED BY <1>1 DEF LocalsFit, HasPage, BucketHolders, Readers

LEMMA StepKeepsLatches ==
  ASSUME Running, NEW t \in Threads, Step(t), \A u \in Threads : LocalsFit(u)', OnlyMoves(t)
  PROVE  LatchesExclude'
<1>1. \A u \in Threads : LocalsFit(u)
  BY DEF Running
<1> SUFFICES ASSUME NEW p \in BucketIds,
                    NEW u \in Threads, u \in BucketHolders(p)',
                    NEW w \in Threads, w \in BucketHolders(p)', u # w
             PROVE  ~Excludes(u, w)'
  BY DEF LatchesExclude, BucketHolders, Readers
<1>2. p # DirectoryId
  BY Ids
<1>3. ASSUME NEW x \in Threads, x \in BucketHolders(p)'
      PROVE  page'[x] = p /\ at'[x] \in {"scan", "write", "unpin"}
  <2>1. LocalsFit(x)'
    OBVIOUS
  <2> QED BY <1>2, <1>3, <2>1 DEF LocalsFit, HasPage, BucketHolders, Readers
<1>4. ASSUME NEW x \in Threads, x \in BucketHolders(p)'
      PROVE  /\ call'[x] = call[x] /\ page[x] = p
             /\ x \in BucketHolders(p) \/ (x = t /\ Latch(t))
  <2>1. page'[x] = p /\ at'[x] \in {"scan", "write", "unpin"}
    BY <1>3, <1>4
  <2>2. CASE x # t
    <3>1. call'[x] = call[x] /\ at'[x] = at[x] /\ page'[x] = page[x]
      BY <2>2 DEF OnlyMoves
    <3> QED BY <1>1, <2>1, <3>1, Holders
  <2>3. CASE x = t
    <3>1. /\ call'[t] = call[t]
          /\ page'[t] = page[t]
          /\ at[t] \in {"scan", "write", "unpin"} \/ Latch(t)
      BY <1>2, <2>1, <2>3, PageStays
    <3> QED BY <1>1, <2>1, <2>3, <3>1, Holders
  <2> QED BY <2>2, <2>3
<1>5. CASE u \in BucketHolders(p) /\ w \in BucketHolders(p)
  <2>1. ~Excludes(u, w)
    BY <1>5 DEF Running, LatchesExclude
  <2> QED BY <1>4, <2>1 DEF Excludes, Exclusive
<1>6. CASE u \in BucketHolders(p) /\ w = t /\ Latch(t)
  <2>1. ~Excludes(t, u)
    BY <1>4, <1>6 DEF Latch
  <2> QED BY <1>4, <1>6, <2>1 DEF Excludes, Exclusive
<1>7. CASE w \in BucketHolders(p) /\ u = t /\ Latch(t)
  <2>1. ~Excludes(t, w)
    BY <1>4, <1>7 DEF Latch
  <2> QED BY <1>4, <1>7, <2>1 DEF Excludes, Exclusive
<1> QED BY <1>4, <1>5, <1>6, <1>7

(* No other thread writes to a bucket between the look and the write.      *)
LEMMA StepKeepsReady ==
  ASSUME Running, NEW t \in Threads, Step(t), OnlyMoves(t), NEW u \in Threads
  PROVE  ReadyToWrite(u)'
<1> SUFFICES ASSUME at'[u] = "write"
             PROVE  IF call'[u].op = "Insert"
                      THEN ThePair(u)' \notin bucket'[page'[u]] /\ ~Full(page[u])'
                      ELSE ThePair(u)' \in bucket'[page'[u]]
  BY DEF ReadyToWrite
<1>1. /\ \A x \in Threads : LocalsFit(x)
      /\ bucket \in [BucketIds -> SUBSET Pairs]
      /\ call \in [Threads -> Calls \union {NoCall}]
      /\ at \in [Threads -> {"idle", "enter", "fetch", "latch", "scan", "write",
                             "unpin", "unlatch", "split", "merge", "return"}]
      /\ page \in [Threads -> Pages]
  BY DEF Running, TypeOK
<1>2. CASE u # t
  <2>1. call'[u] = call[u] /\ page'[u] = page[u] /\ at[u] = "write"
    BY <1>2 DEF OnlyMoves
  <2>2. page[u] \in BucketIds /\ call[u].op \in {"Insert", "Remove"}
    BY <1>1, <2>1 DEF LocalsFit, HasPage, Pages
  <2>3. bucket'[page[u]] = bucket[page[u]]
    <3>1. u \in Readers
      BY <2>1 DEF Readers
    <3>2. ~SplitFindsRoom(t) /\ ~SplitBucket(t) /\ ~MergeBuckets(t)
      BY <3>1 DEF SplitFindsRoom, SplitBucket, MergeBuckets, Alone
    <3>3. CASE Write(t)
      <4>1. at[t] = "write" /\ page[t] # DirectoryId /\ page[t] \in BucketIds
        BY <1>1, <3>3 DEF Write, At, LocalsFit, HasPage, Pages
      <4>2. page[t] # page[u]
        <5> SUFFICES ASSUME page[t] = page[u] PROVE FALSE
          OBVIOUS
        <5>1. t \in BucketHolders(page[u]) /\ u \in BucketHolders(page[u])
          BY <1>1, <2>1, <2>2, <4>1, Holders
        <5>2. ~Excludes(t, u)
          BY <1>2, <2>2, <5>1 DEF Running, LatchesExclude
        <5> QED BY <2>2, <5>2 DEF Excludes, Exclusive
      <4> QED BY <1>1, <2>2, <3>3, <4>1, <4>2 DEF Write
    <3> QED BY <3>2, <3>3, ChangingSteps
  <2>4. ReadyToWrite(u)
    BY DEF Running
  <2> QED BY <2>1, <2>3, <2>4 DEF ReadyToWrite, ThePair, Full
<1>3. CASE u = t
  <2>1. InsertScans(t) \/ RemoveScans(t)
    <3>1. ASSUME NEW c \in Calls, Begin(t, c) PROVE FALSE
      BY <1>1, <1>3, <3>1 DEF Begin, Goto
    <3>2. ~Enter(t) /\ ~FetchBucketPage(t) /\ ~Latch(t) /\ ~Write(t) /\ ~Unpin(t)
      BY <1>1, <1>3 DEF Enter, FetchBucketPage, Latch, Write, Unpin, Goto
    <3>3. ~GetValue(t) /\ ~InsertFindsFull(t)
      BY <1>1, <1>3 DEF GetValue, InsertFindsFull, Found, Goto
    <3>4. ~Unlatch(t) /\ ~ReturnSplit(t) /\ ~MergeNothing(t) /\ ~MergeBuckets(t)
      BY <1>1, <1>3 DEF Unlatch, Callee, ReturnSplit, MergeNothing, MergeBuckets, Return, Goto
    <3>5. ~SplitFindsRoom(t) /\ ~SplitRefused(t) /\ ~SplitBucket(t)
      BY <1>1, <1>3 DEF SplitFindsRoom, SplitRefused, SplitBucket, Goto
    <3> QED BY <3>1, <3>2, <3>3, <3>4, <3>5 DEF Step, SplitInsert, Merge
  <2>2. CASE InsertScans(t)
    <3>1. ThePair(t) \notin bucket[page[t]]
      <4> SUFFICES ASSUME ThePair(t) \in bucket[page[t]] PROVE FALSE
        OBVIOUS
      <4>1. Goto(t, "unpin")
        BY <2>2 DEF InsertScans, Found
      <4> QED BY <1>1, <1>3, <4>1 DEF Goto
    <3>2. ~Full(page[t]) /\ call[t].op = "Insert"
      BY <2>2 DEF InsertScans, Scans
    <3>3. call' = call /\ page' = page /\ bucket' = bucket
      BY <2>2 DEF InsertScans, Found, contentVars
    <3> QED BY <1>3, <3>1, <3>2, <3>3 DEF ThePair, Full
  <2>3. CASE RemoveScans(t)
    <3>1. ThePair(t) \in bucket[page[t]]
      <4> SUFFICES ASSUME ThePair(t) \notin bucket[page[t]] PROVE FALSE
        OBVIOUS
      <4>1. Goto(t, "unpin")
        BY <2>3 DEF RemoveScans, Found
      <4> QED BY <1>1, <1>3, <4>1 DEF Goto
    <3>2. call[t].op = "Remove"
      BY <2>3 DEF RemoveScans, Scans
    <3>3. call' = call /\ page' = page /\ bucket' = bucket
      BY <2>3 DEF RemoveScans, Found, contentVars
    <3> QED BY <1>3, <3>1, <3>2, <3>3 DEF ThePair
  <2> QED BY <2>1, <2>2, <2>3
<1> QED BY <1>2, <1>3

(* The page id a thread keeps outlives no split and no merge.              *)
LEMMA StepKeepsPageIds ==
  ASSUME Running, NEW t \in Threads, Step(t), OnlyMoves(t)
  PROVE  PageIdIsCurrent'
<1> SUFFICES ASSUME NEW u \in Threads, page'[u] # DirectoryId
             PROVE  page'[u] = KeyToPageId(call[u].key)'
  BY DEF PageIdIsCurrent
<1>1. page \in [Threads -> Pages] /\ PageIdIsCurrent
  BY DEF Running, TypeOK
<1>2. CASE dir' = dir
  <2>1. CASE u # t
    BY <1>1, <1>2, <2>1 DEF OnlyMoves, PageIdIsCurrent, KeyToPageId, KeyToDirectoryIndex
  <2>2. CASE u = t
    <3>1. call'[t] = call[t] /\ (page'[t] = page[t] \/ FetchBucketPage(t))
      BY <2>2, PageStays
    <3>2. CASE page'[t] = page[t]
      BY <1>1, <1>2, <2>2, <3>1, <3>2 DEF PageIdIsCurrent, KeyToPageId, KeyToDirectoryIndex
    <3>3. CASE FetchBucketPage(t)
      BY <1>1, <1>2, <2>2, <3>1, <3>3 DEF FetchBucketPage, KeyToPageId, KeyToDirectoryIndex
    <3> QED BY <3>1, <3>2, <3>3
  <2> QED BY <2>1, <2>2
<1>3. CASE dir' # dir
  <2>1. SplitBucket(t) \/ MergeBuckets(t)
    BY <1>3, ChangingSteps DEF Write, SplitFindsRoom
  <2>2. page' = page /\ Readers = {}
    BY <2>1 DEF SplitBucket, MergeBuckets, Alone
  <2> QED BY <2>2, NobodyElse
<1> QED BY <1>2, <1>3
-----------------------------------------------------------------------------
Contents == /\ bucket \in [BucketIds -> SUBSET Pairs]
            /\ BucketsAreFinite
            /\ PairsAreFindable

(* A bucket that is not full has room for one more pair.                   *)
LEMMA PairAdded ==
  ASSUME Contents, NEW p \in BucketIds, NEW x \in Pairs, ~Full(p), KeyToPageId(x[1]) = p,
         dir' = dir, bucket' = [bucket EXCEPT ![p] = @ \union {x}]
  PROVE  Contents'
<1>1. /\ bucket' \in [BucketIds -> SUBSET Pairs]
      /\ \A q \in BucketIds : bucket'[q] = IF q = p THEN bucket[p] \union {x} ELSE bucket[q]
  BY DEF Contents
<1>2. IsFiniteSet(bucket[p]) /\ Cardinality(bucket[p]) \in Nat /\ BucketSize \in Nat
  BY TableAssumption, FS_CardinalityType DEF Contents, BucketsAreFinite
<1>3. /\ IsFiniteSet(bucket[p] \union {x})
      /\ Cardinality(bucket[p] \union {x})
           = IF x \in bucket[p] THEN Cardinality(bucket[p]) ELSE Cardinality(bucket[p]) + 1
  BY <1>2, FS_AddElement
<1>4. Cardinality(bucket[p] \union {x}) =< BucketSize
  BY <1>2, <1>3 DEF Full
<1>5. BucketsAreFinite'
  BY <1>1, <1>3 DEF Contents, BucketsAreFinite
<1>6. PairsAreFindable'
  BY <1>1, <1>4 DEF Contents, PairsAreFindable, KeyToPageId, KeyToDirectoryIndex
<1> QED BY <1>1, <1>5, <1>6 DEF Contents

LEMMA PairRemoved ==
  ASSUME Contents, NEW p \in BucketIds, NEW x,
         dir' = dir, bucket' = [bucket EXCEPT ![p] = @ \ {x}]
  PROVE  Contents'
<1>1. /\ bucket' \in [BucketIds -> SUBSET Pairs]
      /\ \A q \in BucketIds : bucket'[q] = IF q = p THEN bucket[p] \ {x} ELSE bucket[q]
  BY DEF Contents
<1>2. IsFiniteSet(bucket[p]) /\ Cardinality(bucket[p]) \in Nat /\ BucketSize \in Nat
  BY TableAssumption, FS_CardinalityType DEF Contents, BucketsAreFinite
<1>3. /\ IsFiniteSet(bucket[p] \ {x})
      /\ Cardinality(bucket[p] \ {x})
           = IF x \in bucket[p] THEN Cardinality(bucket[p]) - 1 ELSE Cardinality(bucket[p])
  BY <1>2, FS_RemoveElement
<1>4. Cardinality(bucket[p] \ {x}) =< BucketSize
  <2>1. Cardinality(bucket[p]) =< BucketSize
    BY DEF Contents, PairsAreFindable
  <2> QED BY <1>2, <1>3, <2>1
<1>5. BucketsAreFinite'
  BY <1>1, <1>3 DEF Contents, BucketsAreFinite
<1>6. PairsAreFindable'
  BY <1>1, <1>4 DEF Contents, PairsAreFindable, KeyToPageId, KeyToDirectoryIndex
<1> QED BY <1>1, <1>5, <1>6 DEF Contents

(* What Write knows of its page and its pair.                              *)
LEMMA WriterKnows ==
  ASSUME Running, NEW t \in Threads, Write(t)
  PROVE  /\ page[t] \in BucketIds
         /\ KeyToPageId(call[t].key) = page[t]
         /\ ThePair(t) \in Pairs
         /\ call[t] \in Calls
         /\ \/ call[t].op = "Insert" /\ ThePair(t) \notin bucket[page[t]] /\ ~Full(page[t])
            \/ call[t].op = "Remove" /\ ThePair(t) \in bucket[page[t]]
<1>1. at[t] = "write" /\ LocalsFit(t) /\ ReadyToWrite(t)
  BY DEF Running, Write, At
<1>2. call[t].op \in {"Insert", "Remove"} /\ page[t] # DirectoryId
  BY <1>1 DEF LocalsFit, HasPage
<1>3. page[t] \in Pages
  BY DEF Running, TypeOK
<1>4. page[t] \in BucketIds /\ KeyToPageId(call[t].key) = page[t]
  BY <1>2, <1>3 DEF Running, PageIdIsCurrent, Pages
<1>5. call[t] \in Calls /\ ThePair(t) \in Pairs
  BY <1>1, <1>2, CallOf DEF ThePair, Pairs
<1> QED BY <1>1, <1>2, <1>4, <1>5 DEF ReadyToWrite

(* A split leads every pair to one of its two halves.                      *)
LEMMA SplitKeepsPairs ==
  ASSUME Running, NEW t \in Threads, SplitBucket(t)
  PROVE  /\ IsDirectory(dir') /\ Consistent(dir')
         /\ Contents'
         /\ UNION {bucket'[q] : q \in BucketIds} = UNION {bucket[q] : q \in BucketIds}
<1>1. PICK p, i, image : p = PageOf(t) /\ i = IndexOf(t) /\ image = NewPageId
  OBVIOUS
<1>2. at[t] = "split" /\ call[t].op = "Insert"
  BY DEF SplitBucket, Alone, At, Running, LocalsFit
<1>3. i \in Indices(dir) /\ p \in BucketIds /\ p = dir.bucket_page_ids[i]
  BY <1>1, <1>2, PageOfCall
<1>4. IsDirectory(dir) /\ Consistent(dir) /\ ~CannotSplit(dir, i) /\ Contents
  BY <1>1 DEF Running, TypeOK, SplitBucket, Contents
<1>5. image \in BucketIds /\ \A j \in Indices(dir) : dir.bucket_page_ids[j] # image
  BY <1>1, <1>3, <1>4, NewPage
<1>6. PICK s : s = SplitDirectory(dir, i, image)
  OBVIOUS
<1>7. IsDirectory(s) /\ Consistent(s)
  <2>1. PICK k \in Nat : k = dir.local_depths[i]
    BY <1>3, <1>4, DirectoryTypes
  <2>2. IsDirectory(s)
    BY <1>3, <1>4, <1>5, <1>6, <2>1, SplitEffect
  <2> QED BY <1>3, <1>4, <1>5, <1>6, <2>2, SplitIsConsistent
<1>8. ASSUME NEW k \in Keys
      PROVE  KeyToPageId(k)' # KeyToPageId(k) => KeyToPageId(k) = p /\ KeyToPageId(k)' = image
  <2>1. PICK h \in Nat : h = Hash[k]
    BY Ids
  <2>2. LET from == dir.bucket_page_ids[HashToIndex(dir, h)]
            to   == s.bucket_page_ids[HashToIndex(s, h)]
        IN  from # to => from = dir.bucket_page_ids[i] /\ to = image
    BY <1>3, <1>4, <1>5, <1>6, SplitLeadsTo
  <2>3. dir' = s
    BY <1>1, <1>6 DEF SplitBucket
  <2> QED BY <1>3, <2>1, <2>2, <2>3 DEF KeyToPageId, KeyToDirectoryIndex
<1>9. p # image
  BY <1>3, <1>5
<1>10. PICK M : M = Movers(p)
  OBVIOUS
<1>11. M = {x \in bucket[p] : KeyToPageId(x[1])' # p}
  BY <1>10 DEF Movers, KeyToPageId, KeyToDirectoryIndex
<1>12. bucket' = [bucket EXCEPT ![p] = @ \ M, ![image] = M]
  BY <1>1, <1>10 DEF SplitBucket
<1>13. /\ bucket' \in [BucketIds -> SUBSET Pairs]
       /\ bucket'[p] = bucket[p] \ M
       /\ bucket'[image] = M
       /\ \A q \in BucketIds \ {p, image} : bucket'[q] = bucket[q]
  <2>1. bucket \in [BucketIds -> SUBSET Pairs] /\ M \subseteq bucket[p]
    BY <1>4, <1>11 DEF Contents
  <2> QED BY <1>3, <1>5, <1>9, <1>12, <2>1
<1>14. ASSUME NEW q \in BucketIds, NEW x \in bucket[q]
       PROVE  KeyToPageId(x[1]) = q /\ x[1] \in Keys
  BY <1>4 DEF Contents, PairsAreFindable, Pairs
<1>15. bucket[image] = {}
  <2> SUFFICES ASSUME NEW x \in bucket[image] PROVE FALSE
    OBVIOUS
  <2>1. KeyToPageId(x[1]) = image /\ x[1] \in Keys
    BY <1>5, <1>14
  <2>2. KeyToDirectoryIndex(x[1]) \in Indices(dir)
    BY <1>4, <2>1, KeyLeads
  <2> QED BY <1>5, <2>1, <2>2 DEF KeyToPageId
<1>16. ASSUME NEW q \in BucketIds
       PROVE  /\ IsFiniteSet(bucket'[q])
              /\ Cardinality(bucket'[q]) =< BucketSize
  <2>1. \E r \in BucketIds : bucket'[q] \subseteq bucket[r]
    BY <1>3, <1>5, <1>11, <1>13
  <2>2. PICK r \in BucketIds : bucket'[q] \subseteq bucket[r]
    BY <2>1
  <2>3. IsFiniteSet(bucket[r]) /\ Cardinality(bucket[r]) =< BucketSize
    BY <1>4 DEF Contents, BucketsAreFinite, PairsAreFindable
  <2>4. IsFiniteSet(bucket'[q]) /\ Cardinality(bucket'[q]) =< Cardinality(bucket[r])
    BY <2>2, <2>3, FS_Subset
  <2>5. Cardinality(bucket[r]) \in Nat /\ Cardinality(bucket'[q]) \in Nat /\ BucketSize \in Nat
    BY <2>3, <2>4, TableAssumption, FS_CardinalityType
  <2> QED BY <2>3, <2>4, <2>5
<1>17. ASSUME NEW q \in BucketIds, NEW x \in bucket'[q]
       PROVE  KeyToPageId(x[1])' = q
  <2>1. CASE q = p
    BY <1>3, <1>11, <1>13, <1>17, <2>1
  <2>2. CASE q = image
    <3>1. x \in bucket[p] /\ KeyToPageId(x[1])' # p
      BY <1>11, <1>13, <1>17, <2>2
    <3>2. KeyToPageId(x[1]) = p /\ x[1] \in Keys
      BY <1>3, <1>14, <3>1
    <3> QED BY <1>8, <2>2, <3>1, <3>2
  <2>3. CASE q # p /\ q # image
    <3>1. x \in bucket[q]
      BY <1>13, <1>17, <2>3
    <3>2. KeyToPageId(x[1]) = q /\ x[1] \in Keys
      BY <1>14, <3>1
    <3> QED BY <1>8, <2>3, <3>2
  <2> QED BY <2>1, <2>2, <2>3
<1>18. Contents'
  BY <1>13, <1>16, <1>17 DEF Contents, BucketsAreFinite, PairsAreFindable
<1>19. UNION {bucket'[q] : q \in BucketIds} = UNION {bucket[q] : q \in BucketIds}
  <2>1. ASSUME NEW q \in BucketIds, NEW x \in bucket'[q]
        PROVE  \E r \in BucketIds : x \in bucket[r]
    BY <1>3, <1>5, <1>11, <1>13, <2>1
  <2>2. ASSUME NEW q \in BucketIds, NEW x \in bucket[q]
        PROVE  \E r \in BucketIds : x \in bucket'[r]
    <3>1. CASE q = p
      BY <1>3, <1>5, <1>13, <2>2, <3>1
    <3>2. CASE q # p
      BY <1>13, <1>15, <2>2, <3>2
    <3> QED BY <3>1, <3>2
  <2> QED BY <2>1, <2>2
<1>20. dir' = s
  BY <1>1, <1>6 DEF SplitBucket
<1> QED BY <1>7, <1>18, <1>19, <1>20

(* A merge takes away an empty page only.                                  *)
LEMMA MergeKeepsPairs ==
  ASSUME Running, NEW t \in Threads, MergeBuckets(t)
  PROVE  /\ IsDirectory(dir') /\ Consistent(dir')
         /\ Contents'
<1>1. PICK p, i : p = PageOf(t) /\ i = IndexOf(t)
  OBVIOUS
<1>2. at[t] = "merge" /\ call[t].op = "Remove"
  BY DEF MergeBuckets, Alone, At, Running, LocalsFit
<1>3. i \in Indices(dir) /\ p \in BucketIds /\ p = dir.bucket_page_ids[i]
  BY <1>1, <1>2, PageOfCall
<1>4. /\ IsDirectory(dir) /\ Consistent(dir) /\ CanMerge(dir, i) /\ Contents
      /\ bucket[p] = {}
      /\ bucket' = bucket
  BY <1>1 DEF Running, TypeOK, MergeBuckets, Mergeable, Contents
<1>5. PICK r : r = MergeDirectory(dir, i)
  OBVIOUS
<1>6. IsDirectory(r) /\ Consistent(r)
  <2>1. PICK m : m = Merged(dir, i)
    OBVIOUS
  <2>2. IsDirectory(m)
    BY <1>3, <1>4, <2>1, MergeEffect
  <2>3. Consistent(m)
    BY <1>3, <1>4, <2>1, MergedIsConsistent
  <2>4. r = Shrunk(m)
    BY <1>5, <2>1 DEF MergeDirectory, Merged
  <2> QED BY <2>2, <2>3, <2>4, ShrunkEffect
<1>7. ASSUME NEW q \in BucketIds, NEW x \in bucket[q]
      PROVE  KeyToPageId(x[1])' = q
  <2>1. KeyToPageId(x[1]) = q /\ x[1] \in Keys
    BY <1>4 DEF Contents, PairsAreFindable, Pairs
  <2>2. PICK h \in Nat : h = Hash[x[1]]
    BY <2>1, Ids
  <2>3. LET from == dir.bucket_page_ids[HashToIndex(dir, h)]
            to   == r.bucket_page_ids[HashToIndex(r, h)]
        IN  from # to => from = dir.bucket_page_ids[i]
    BY <1>3, <1>4, <1>5, MergeLeadsTo
  <2>4. q # p
    BY <1>4, <1>7
  <2>5. dir' = r
    BY <1>1, <1>5 DEF MergeBuckets
  <2> QED BY <1>3, <2>1, <2>2, <2>3, <2>4, <2>5 DEF KeyToPageId, KeyToDirectoryIndex
<1>8. Contents'
  BY <1>4, <1>7 DEF Contents, BucketsAreFinite, PairsAreFindable
<1>9. dir' = r
  BY <1>1, <1>5 DEF MergeBuckets
<1> QED BY <1>6, <1>8, <1>9

(* What SplitInsert knows when it finds room.                              *)
LEMMA SplitInserts ==
  ASSUME Running, NEW t \in Threads, at[t] = "split"
  PROVE  /\ IndexOf(t) \in Indices(dir)
         /\ PageOf(t) \in BucketIds
         /\ KeyToPageId(call[t].key) = PageOf(t)
         /\ ThePair(t) \in Pairs
         /\ call[t] \in Calls
         /\ call[t].op = "Insert"
<1>1. LocalsFit(t)
  BY DEF Running
<1>2. call[t].op = "Insert"
  BY <1>1 DEF LocalsFit
<1>3. call[t] \in Calls /\ ThePair(t) \in Pairs
  BY <1>2, CallOf DEF ThePair, Pairs
<1> QED BY <1>2, <1>3, PageOfCall DEF PageOf

LEMMA StepKeepsContents ==
  ASSUME Running, NEW t \in Threads, Step(t)
  PROVE  IsDirectory(dir') /\ Consistent(dir') /\ Contents'
<1>1. IsDirectory(dir) /\ Consistent(dir) /\ Contents
  BY DEF Running, TypeOK, Contents
<1>2. CASE dir' = dir /\ bucket' = bucket
  BY <1>1, <1>2 DEF Contents, BucketsAreFinite, PairsAreFindable, KeyToPageId, KeyToDirectoryIndex
<1>3. CASE Write(t)
  <2>1. dir' = dir
    BY <1>3 DEF Write
  <2>2. PICK p, x : p = page[t] /\ x = ThePair(t)
    OBVIOUS
  <2>3. p \in BucketIds /\ x \in Pairs /\ KeyToPageId(x[1]) = p
    BY <1>3, <2>2, WriterKnows DEF ThePair
  <2>4. CASE call[t].op = "Insert"
    <3>1. bucket' = [bucket EXCEPT ![p] = @ \union {x}]
      BY <1>3, <2>2, <2>4 DEF Write
    <3>2. ~Full(p)
      BY <1>3, <2>2, <2>4, WriterKnows
    <3>3. Contents'
      BY <1>1, <2>1, <2>3, <3>1, <3>2, PairAdded
    <3> QED BY <1>1, <2>1, <3>3
  <2>5. CASE call[t].op # "Insert"
    <3>1. bucket' = [bucket EXCEPT ![p] = @ \ {x}]
      BY <1>3, <2>2, <2>5 DEF Write
    <3>2. Contents'
      BY <1>1, <2>1, <2>3, <3>1, PairRemoved
    <3> QED BY <1>1, <2>1, <3>2
  <2> QED BY <2>4, <2>5
<1>4. CASE SplitFindsRoom(t)
  <2>1. dir' = dir /\ at[t] = "split"
    BY <1>4 DEF SplitFindsRoom, Alone, At
  <2>2. PICK p, x : p = PageOf(t) /\ x = ThePair(t)
    OBVIOUS
  <2>3. p \in BucketIds /\ x \in Pairs /\ KeyToPageId(x[1]) = p
    BY <2>1, <2>2, SplitInserts DEF ThePair
  <2>4. bucket' = [bucket EXCEPT ![p] = @ \union {x}] /\ ~Full(p)
    BY <1>4, <2>2 DEF SplitFindsRoom
  <2>5. Contents'
    BY <1>1, <2>1, <2>3, <2>4, PairAdded
  <2> QED BY <1>1, <2>1, <2>5
<1>5. CASE SplitBucket(t)
  BY <1>5, SplitKeepsPairs
<1>6. CASE MergeBuckets(t)
  BY <1>6, MergeKeepsPairs
<1> QED BY <1>2, <1>3, <1>4, <1>5, <1>6, ChangingSteps
-----------------------------------------------------------------------------
(* The pins are counted in every step that fetches or unpins a page.       *)
LEMMA FiniteUsers ==
  ASSUME NEW p
  PROVE  /\ IsFiniteSet(Users(p)) /\ Cardinality(Users(p)) \in Nat
         /\ IsFiniteSet(Users(p)') /\ Cardinality(Users(p)') \in Nat
<1>1. IsFiniteSet(Threads) /\ Users(p) \subseteq Threads /\ Users(p)' \subseteq Threads
  BY TableAssumption DEF Users
<1> QED BY <1>1, FS_Subset, FS_CardinalityType

(* A thread pins the pages in F.                                           *)
LEMMA PinsTaken ==
  ASSUME Running, NEW t \in Threads, NEW F, NEW D, PoolCalls(F, {}, D),
         \A p \in Pages : IF p \in F THEN t \notin Users(p) /\ Users(p)' = Users(p) \union {t}
                                     ELSE Users(p)' = Users(p)
  PROVE  pins' \in [Pages -> Nat] /\ PinsAreUsers'
<1>1. /\ pins \in [Pages -> Nat]
      /\ \A p \in Pages : pins[p] = Cardinality(Users(p))
  BY DEF Running, TypeOK, PinsAreUsers
<1>2. pins' = [p \in Pages |-> pins[p] + (IF p \in F THEN 1 ELSE 0) - 0]
  BY DEF PoolCalls
<1>3. \A p \in Pages : pins'[p] = IF p \in F THEN pins[p] + 1 ELSE pins[p]
  BY <1>1, <1>2
<1>4. pins' \in [Pages -> Nat]
  BY <1>1, <1>2
<1>5. ASSUME NEW p \in Pages
      PROVE  Cardinality(Users(p)')
               = IF p \in F THEN Cardinality(Users(p)) + 1 ELSE Cardinality(Users(p))
  BY FiniteUsers, FS_AddElement
<1>6. ASSUME NEW p \in Pages
      PROVE  pins'[p] = Cardinality(Users(p)')
  <2>1. Cardinality(Users(p)) \in Nat /\ pins[p] \in Nat
    BY <1>1, FiniteUsers
  <2> QED BY <1>1, <1>3, <1>5, <2>1
<1> QED BY <1>4, <1>6 DEF PinsAreUsers

(* A thread gives back its pins of the pages in U.                         *)
LEMMA PinsGiven ==
  ASSUME Running, NEW t \in Threads, NEW U, NEW D, PoolCalls({}, U, D),
         \A p \in Pages : IF p \in U THEN t \in Users(p) /\ Users(p)' = Users(p) \ {t}
                                     ELSE Users(p)' = Users(p)
  PROVE  pins' \in [Pages -> Nat] /\ PinsAreUsers'
<1>1. /\ pins \in [Pages -> Nat]
      /\ \A p \in Pages : pins[p] = Cardinality(Users(p))
  BY DEF Running, TypeOK, PinsAreUsers
<1>2. pins' = [p \in Pages |-> pins[p] + 0 - (IF p \in U THEN 1 ELSE 0)]
  BY DEF PoolCalls
<1>3. \A p \in Pages : pins'[p] = IF p \in U THEN pins[p] - 1 ELSE pins[p]
  BY <1>1, <1>2
<1>4. ASSUME NEW p \in Pages
      PROVE  Cardinality(Users(p)')
               = IF p \in U THEN Cardinality(Users(p)) - 1 ELSE Cardinality(Users(p))
  BY FiniteUsers, FS_RemoveElement
<1>5. ASSUME NEW p \in Pages
      PROVE  /\ pins'[p] \in Nat
             /\ pins'[p] = Cardinality(Users(p)')
  <2>1. /\ Cardinality(Users(p)) \in Nat /\ Cardinality(Users(p)') \in Nat
        /\ pins[p] \in Nat
    BY <1>1, FiniteUsers
  <2> QED BY <1>1, <1>3, <1>4, <2>1
<1>6. pins' \in [Pages -> Nat]
  BY <1>2, <1>5
<1> QED BY <1>5, <1>6 DEF PinsAreUsers

(* All pages fetched in a step are unpinned in it.                         *)
LEMMA PinsPassing ==
  ASSUME Running, NEW F, NEW D, PoolCalls(F, F, D), \A p \in Pages : Users(p)' = Users(p)
  PROVE  pins' \in [Pages -> Nat] /\ PinsAreUsers'
<1>1. /\ pins \in [Pages -> Nat]
      /\ \A p \in Pages : pins[p] = Cardinality(Users(p))
  BY DEF Running, TypeOK, PinsAreUsers
<1>2. pins' = [p \in Pages |-> pins[p] + (IF p \in F THEN 1 ELSE 0)
                                 - (IF p \in F THEN 1 ELSE 0)]
  BY DEF PoolCalls
<1>3. \A p \in Pages : pins'[p] = pins[p]
  BY <1>1, <1>2
<1>4. ASSUME NEW p \in Pages
      PROVE  /\ pins'[p] \in Nat
             /\ pins'[p] = Cardinality(Users(p)')
  <2>1. Cardinality(Users(p)) \in Nat /\ pins[p] \in Nat
    BY <1>1, FiniteUsers
  <2> QED BY <1>1, <1>3, <2>1
<1>5. pins' \in [Pages -> Nat]
  BY <1>2, <1>4
<1> QED BY <1>4, <1>5 DEF PinsAreUsers

LEMMA UsersMove ==
  ASSUME NEW t \in Threads, OnlyMoves(t), NEW p
  PROVE  /\ Uses(t, p)' => Users(p)' = Users(p) \union {t}
         /\ ~Uses(t, p)' => Users(p)' = Users(p) \ {t}
         /\ t \in Users(p) <=> Uses(t, p)
BY DEF OnlyMoves, Users, Uses

LEMMA UsersStay ==
  ASSUME NEW t \in Threads, OnlyMoves(t), NEW p, Uses(t, p)' <=> Uses(t, p)
  PROVE  Users(p)' = Users(p)
BY DEF OnlyMoves, Users, Uses

(* The steps that fetch or unpin no page.                                  *)
LEMMA PoolStays ==
  ASSUME Running, NEW t \in Threads, Step(t), OnlyMoves(t)
  PROVE  \/ /\ pins' = pins /\ unsaved' = unsaved
            /\ at[t] # "unpin"
            /\ \A p \in Pages : Users(p)' = Users(p)
         \/ Enter(t) \/ FetchBucketPage(t) \/ Write(t) \/ Unpin(t)
         \/ SplitFindsRoom(t) \/ SplitRefused(t) \/ SplitBucket(t)
         \/ MergeNothing(t) \/ MergeBuckets(t)
<1> DEFINE Goal == /\ pins' = pins /\ unsaved' = unsaved
                   /\ at[t] # "unpin"
                   /\ \A p \in Pages : Users(p)' = Users(p)
<1>1. /\ LocalsFit(t)
      /\ at \in [Threads -> {"idle", "enter", "fetch", "latch", "scan", "write",
                             "unpin", "unlatch", "split", "merge", "return"}]
      /\ page \in [Threads -> Pages]
  BY DEF Running, TypeOK
<1>2. ASSUME /\ pins' = pins /\ unsaved' = unsaved
             /\ at[t] # "unpin"
             /\ \A p \in Pages : Uses(t, p)' <=> Uses(t, p)
      PROVE  Goal
  BY <1>2, UsersStay
<1>3. ASSUME NEW c \in Calls, Begin(t, c) PROVE Goal
  BY <1>1, <1>2, <1>3 DEF Begin, At, Goto, poolVars, Uses
<1>5. CASE GetValue(t) \/ InsertFindsFull(t)
  <2>1. Found(t, "unpin") /\ at[t] = "scan"
    BY <1>5 DEF GetValue, InsertFindsFull, Scans, At
  <2> QED BY <1>1, <1>2, <2>1 DEF Found, Goto, poolVars, Uses
<1>6. CASE InsertScans(t) \/ RemoveScans(t)
  <2>1. (Found(t, "unpin") \/ Found(t, "write")) /\ at[t] = "scan"
    BY <1>6 DEF InsertScans, RemoveScans, Scans, At
  <2> QED BY <1>1, <1>2, <2>1 DEF Found, Goto, poolVars, Uses
<1>7. CASE Latch(t)
  BY <1>1, <1>2, <1>7 DEF Latch, At, Goto, poolVars, Uses
<1>8. CASE Unlatch(t)
  <2>1. at[t] = "unlatch" /\ pins' = pins /\ unsaved' = unsaved
    BY <1>8 DEF Unlatch, At, poolVars
  <2>2. at'[t] \in {"idle", "split", "merge"}
    BY <1>1, <1>8 DEF Unlatch, Callee, Return, Goto
  <2> QED BY <1>2, <2>1, <2>2 DEF Uses
<1>9. CASE ReturnSplit(t)
  BY <1>1, <1>2, <1>9 DEF ReturnSplit, Return, At, Goto, poolVars, Uses
<1> QED BY <1>3, <1>5, <1>6, <1>7, <1>8, <1>9 DEF Step, SplitInsert, Merge

(* SplitInsert and Merge unpin what they fetch, and mark what they change. *)
WriterPool(t) ==
  \E F \in SUBSET Pages, D \in SUBSET Pages :
    /\ PoolCalls(F, F, D)
    /\ D \subseteq F
    /\ \A p \in BucketIds : bucket'[p] # bucket[p] => p \in D
    /\ dir' # dir => DirectoryId \in D
    /\ at[t] # "unpin"
    /\ \A p \in Pages : Users(p)' = Users(p)

LEMMA WriterSteps ==
  ASSUME Running, NEW t \in Threads, OnlyMoves(t),
         \/ SplitFindsRoom(t) \/ SplitRefused(t) \/ SplitBucket(t)
         \/ MergeNothing(t) \/ MergeBuckets(t)
  PROVE  WriterPool(t)
<1>1. /\ LocalsFit(t)
      /\ at \in [Threads -> {"idle", "enter", "fetch", "latch", "scan", "write",
                             "unpin", "unlatch", "split", "merge", "return"}]
      /\ page \in [Threads -> Pages]
      /\ bucket \in [BucketIds -> SUBSET Pairs]
  BY DEF Running, TypeOK
<1>2. /\ Readers = {}
      /\ at[t] \in {"split", "merge"}
      /\ at'[t] \in {"idle", "return", "enter"}
  BY <1>1 DEF SplitFindsRoom, SplitRefused, SplitBucket, MergeNothing, MergeBuckets, Alone, At,
              Return, Goto
<1>3. \A p \in Pages : Users(p)' = Users(p)
  BY <1>2, UsersStay DEF Uses
<1>4. /\ IndexOf(t) \in Indices(dir)
      /\ PageOf(t) \in BucketIds
      /\ DirectoryId \in Pages /\ BucketIds \subseteq Pages
  BY <1>1, <1>2, PageOfCall, Ids DEF LocalsFit
<1> DEFINE Both == {DirectoryId, PageOf(t)}
<1>5. Both \in SUBSET Pages
  BY <1>4
<1>6. CASE SplitFindsRoom(t)
  <2>1. PoolCalls(Both, Both, {PageOf(t)}) /\ dir' = dir
    BY <1>6 DEF SplitFindsRoom
  <2>2. \A p \in BucketIds : bucket'[p] # bucket[p] => p \in {PageOf(t)}
    BY <1>1, <1>4, <1>6 DEF SplitFindsRoom
  <2>3. {PageOf(t)} \subseteq Both /\ at[t] # "unpin"
    BY <1>2
  <2> HIDE DEF Both
  <2> QED BY <1>3, <1>5, <2>1, <2>2, <2>3 DEF WriterPool
<1>7. CASE SplitRefused(t) \/ MergeNothing(t)
  <2>1. PoolCalls(Both, Both, {}) /\ dir' = dir /\ bucket' = bucket /\ at[t] # "unpin"
    BY <1>2, <1>7 DEF SplitRefused, MergeNothing, contentVars
  <2>2. {} \in SUBSET Pages /\ {} \subseteq Both
    OBVIOUS
  <2> HIDE DEF Both
  <2> QED BY <1>3, <1>5, <2>1, <2>2 DEF WriterPool
<1>8. CASE SplitBucket(t)
  <2> DEFINE All == {DirectoryId, PageOf(t), NewPageId}
  <2>1. PoolCalls(All, All, All) /\ at[t] # "unpin"
    BY <1>2, <1>8 DEF SplitBucket, Unpinned
  <2>2. NewPageId \in BucketIds
    <3>1. ~CannotSplit(dir, IndexOf(t))
      BY <1>8 DEF SplitBucket
    <3>2. IsDirectory(dir) /\ Consistent(dir)
      BY DEF Running, TypeOK
    <3> QED BY <1>4, <3>1, <3>2, NewPage
  <2>3. \A p \in BucketIds : bucket'[p] # bucket[p] => p \in All
    <3>1. bucket' = [bucket EXCEPT ![PageOf(t)] = @ \ Movers(PageOf(t)),
                                   ![NewPageId] = Movers(PageOf(t))]
      BY <1>8 DEF SplitBucket
    <3> QED BY <1>1, <1>4, <2>2, <3>1
  <2>4. All \in SUBSET Pages /\ All \subseteq All /\ DirectoryId \in All
    BY <1>4, <2>2
  <2> HIDE DEF All
  <2> QED BY <1>3, <2>1, <2>3, <2>4 DEF WriterPool
<1>9. CASE MergeBuckets(t)
  <2>1. PoolCalls(Both, Both, {DirectoryId}) /\ bucket' = bucket /\ at[t] # "unpin"
    BY <1>2, <1>9 DEF MergeBuckets
  <2>2. {DirectoryId} \in SUBSET Pages /\ {DirectoryId} \subseteq Both
    BY <1>4
  <2> HIDE DEF Both
  <2> QED BY <1>3, <1>5, <2>1, <2>2 DEF WriterPool
<1> QED BY <1>6, <1>7, <1>8, <1>9

LEMMA StepKeepsPins ==
  ASSUME Running, NEW t \in Threads, Step(t), OnlyMoves(t)
  PROVE  pins' \in [Pages -> Nat] /\ PinsAreUsers'
<1>1. /\ LocalsFit(t)
      /\ at \in [Threads -> {"idle", "enter", "fetch", "latch", "scan", "write",
                             "unpin", "unlatch", "split", "merge", "return"}]
      /\ page \in [Threads -> Pages]
  BY DEF Running, TypeOK
<1>2. CASE pins' = pins /\ \A p \in Pages : Users(p)' = Users(p)
  BY <1>2 DEF Running, TypeOK, PinsAreUsers
<1>3. CASE Enter(t)
  <2>1. PoolCalls({DirectoryId}, {}, {})
    BY <1>3 DEF Enter
  <2>2. ASSUME NEW p \in Pages
        PROVE  IF p \in {DirectoryId} THEN t \notin Users(p) /\ Users(p)' = Users(p) \union {t}
                                      ELSE Users(p)' = Users(p)
    <3>1. at[t] = "enter" /\ page[t] = DirectoryId
      BY <1>1, <1>3 DEF Enter, At, LocalsFit, HasPage
    <3>2. at'[t] \in {"fetch", "unpin"} /\ page'[t] = DirectoryId
      BY <1>1, <1>3, <3>1 DEF Enter, Goto
    <3>3. CASE p = DirectoryId
      BY <3>1, <3>2, <3>3, UsersMove DEF Uses
    <3>4. CASE p # DirectoryId
      BY <3>1, <3>2, <3>4, UsersStay DEF Uses
    <3> QED BY <3>3, <3>4
  <2> QED BY <2>1, <2>2, PinsTaken
<1>4. CASE FetchBucketPage(t)
  <2> DEFINE b == KeyToPageId(call[t].key)
  <2>1. PoolCalls({b}, {}, {}) /\ at[t] = "fetch"
    BY <1>4 DEF FetchBucketPage, At
  <2>2. b # DirectoryId
    BY <1>1, <2>1, PageOfCall DEF LocalsFit, PageOf
  <2>3. page[t] = DirectoryId /\ at'[t] = "latch" /\ page'[t] = b
    BY <1>1, <1>4, <2>1 DEF FetchBucketPage, Goto, LocalsFit, HasPage
  <2> HIDE DEF b
  <2>4. ASSUME NEW p \in Pages
        PROVE  IF p \in {b} THEN t \notin Users(p) /\ Users(p)' = Users(p) \union {t}
                            ELSE Users(p)' = Users(p)
    <3>1. CASE p = b
      BY <2>1, <2>2, <2>3, <3>1, UsersMove DEF Uses
    <3>2. CASE p # b
      BY <2>1, <2>3, <3>2, UsersStay DEF Uses
    <3> QED BY <3>1, <3>2
  <2> QED BY <2>1, <2>4, PinsTaken
<1>5. CASE Write(t)
  <2>1. PoolCalls({}, {}, {})
    BY <1>5 DEF Write
  <2>2. at[t] = "write" /\ at'[t] = "unpin" /\ page' = page
    BY <1>1, <1>5 DEF Write, At, Goto
  <2>3. \A p \in Pages : Users(p)' = Users(p)
    BY <2>2, UsersStay DEF Uses
  <2> QED BY <2>1, <2>3, PinsPassing
<1>6. CASE Unpin(t)
  <2> DEFINE D == IF MarksDirty(t) THEN {page[t]} ELSE {}
  <2>1. PoolCalls({}, Fetched(t), D)
    BY <1>6 DEF Unpin
  <2>2. at[t] = "unpin" /\ at'[t] = "unlatch"
    BY <1>1, <1>6 DEF Unpin, At, Goto
  <2>3. ASSUME NEW p \in Pages
        PROVE  IF p \in Fetched(t) THEN t \in Users(p) /\ Users(p)' = Users(p) \ {t}
                                   ELSE Users(p)' = Users(p)
    <3>1. CASE p \in Fetched(t)
      BY <2>2, <3>1, UsersMove DEF Uses, Fetched
    <3>2. CASE p \notin Fetched(t)
      BY <2>2, <3>2, UsersStay DEF Uses, Fetched
    <3> QED BY <3>1, <3>2
  <2> HIDE DEF D
  <2> QED BY <2>1, <2>3, PinsGiven
<1>7. CASE \/ SplitFindsRoom(t) \/ SplitRefused(t) \/ SplitBucket(t)
           \/ MergeNothing(t) \/ MergeBuckets(t)
  <2>1. WriterPool(t)
    BY <1>7, WriterSteps
  <2>2. PICK F \in SUBSET Pages, D \in SUBSET Pages :
          PoolCalls(F, F, D) /\ \A p \in Pages : Users(p)' = Users(p)
    BY <2>1 DEF WriterPool
  <2> QED BY <2>2, PinsPassing
<1> QED BY <1>2, <1>3, <1>4, <1>5, <1>6, <1>7, PoolStays

(* A page with a user is pinned.                                           *)
LEMMA UsedIsPinned ==
  ASSUME PinsAreUsers, NEW p \in Pages, NEW u \in Threads, Uses(u, p)
  PROVE  pins[p] > 0
<1>1. IsFiniteSet(Users(p)) /\ Cardinality(Users(p)) \in Nat
  BY FiniteUsers
<1>2. Users(p) # {}
  BY DEF Users
<1>3. Cardinality(Users(p)) # 0
  BY <1>1, <1>2, FS_EmptySet
<1> QED BY <1>1, <1>3 DEF PinsAreUsers

(* So a changed page that is not marked is pinned.                         *)
LEMMA RunningIsMarked == ASSUME Running PROVE ChangesAreMarked
<1> SUFFICES ASSUME NEW p \in unsaved PROVE pins[p] > 0
  BY DEF ChangesAreMarked
<1>1. p \in Pages
  BY DEF Running, TypeOK
<1>2. PICK u \in Threads : Marker(u, p)
  BY DEF Running, ChangersMark
<1>3. Uses(u, p)
  BY <1>2 DEF Marker, Uses
<1> QED BY <1>1, <1>3, UsedIsPinned DEF Running

LEMMA MarkerStays ==
  ASSUME NEW t \in Threads, OnlyMoves(t), NEW u \in Threads, NEW p, Marker(u, p), u # t
  PROVE  Marker(u, p)'
BY DEF OnlyMoves, Marker, MarksDirty

(* What PoolCalls says of the pages that are not marked.                   *)
LEMMA UnsavedAfter ==
  ASSUME NEW F, NEW U, NEW D, PoolCalls(F, U, D), NEW p \in unsaved'
  PROVE  /\ \/ p \in unsaved
            \/ p \in BucketIds /\ bucket'[p] # bucket[p]
            \/ p = DirectoryId /\ dir' # dir
         /\ ~(p \in U /\ p \in D)
<1>1. unsaved' = (unsaved \union ({q \in BucketIds : bucket'[q] # bucket[q]}
                                   \union {q \in {DirectoryId} : dir' # dir}))
                   \ (U \intersect D)
  BY DEF PoolCalls
<1> QED BY <1>1

(* A change is marked before the last pin is given up.                     *)
LEMMA StepKeepsMarks ==
  ASSUME Running, NEW t \in Threads, Step(t), OnlyMoves(t)
  PROVE  unsaved' \subseteq Pages /\ ChangersMark'
<1>1. /\ LocalsFit(t)
      /\ at \in [Threads -> {"idle", "enter", "fetch", "latch", "scan", "write",
                             "unpin", "unlatch", "split", "merge", "return"}]
      /\ bucket \in [BucketIds -> SUBSET Pairs]
      /\ unsaved \subseteq Pages
      /\ DirectoryId \in Pages /\ BucketIds \subseteq Pages
  BY Ids DEF Running, TypeOK
<1>2. \A p \in unsaved : p \in Pages /\ \E u \in Threads : Marker(u, p)
  BY <1>1 DEF Running, ChangersMark
<1> SUFFICES ASSUME NEW p \in unsaved'
             PROVE  p \in Pages /\ \E u \in Threads : Marker(u, p)'
  BY DEF ChangersMark, Marker, MarksDirty
<1>3. ASSUME p \in unsaved, at[t] # "unpin"
      PROVE  p \in Pages /\ \E u \in Threads : Marker(u, p)'
  <2>1. p \in Pages
    BY <1>2, <1>3
  <2>2. PICK u \in Threads : Marker(u, p)
    BY <1>2, <1>3
  <2>3. u # t
    BY <1>3, <2>2 DEF Marker
  <2> QED BY <2>1, <2>2, <2>3, MarkerStays
<1>4. CASE pins' = pins /\ unsaved' = unsaved /\ at[t] # "unpin"
  BY <1>3, <1>4
<1>5. CASE Enter(t) \/ FetchBucketPage(t)
  <2>1. PICK F : PoolCalls(F, {}, {})
    BY <1>5 DEF Enter, FetchBucketPage
  <2>2. dir' = dir /\ bucket' = bucket /\ at[t] # "unpin"
    BY <1>5 DEF Enter, FetchBucketPage, At, contentVars
  <2>3. p \in unsaved
    BY <2>1, <2>2, UnsavedAfter
  <2> QED BY <1>3, <2>2, <2>3
<1>6. CASE Write(t)
  <2>1. PoolCalls({}, {}, {}) /\ dir' = dir /\ at[t] = "write" /\ page' = page /\ call' = call
    BY <1>6 DEF Write, At
  <2>2. at'[t] = "unpin" /\ call[t].op \in {"Insert", "Remove"} /\ answer'[t] # Pending
    <3>1. [ok |-> TRUE, found |-> {}] \in [ok : BOOLEAN, found : SUBSET Values]
      OBVIOUS
    <3>2. [ok |-> TRUE, found |-> {}] # Pending
      BY <3>1, CallAssumption
    <3>3. answer'[t] = [ok |-> TRUE, found |-> {}]
      BY <1>6 DEF Write, Decide, Running, TypeOK
    <3> QED BY <1>1, <1>6, <2>1, <3>2, <3>3 DEF Write, Goto, LocalsFit
  <2>3. page[t] \in BucketIds
    BY <1>6, WriterKnows
  <2>4. p \in unsaved \/ p = page[t]
    <3>1. \A q \in BucketIds : q # page[t] => bucket'[q] = bucket[q]
      BY <1>1, <1>6, <2>3 DEF Write
    <3> QED BY <2>1, <3>1, UnsavedAfter
  <2>5. CASE p = page[t]
    <3>1. Marker(t, p)'
      BY <2>1, <2>2, <2>5 DEF Marker, MarksDirty
    <3> QED BY <1>1, <2>3, <2>5, <3>1
  <2> QED BY <1>3, <2>1, <2>4, <2>5
<1>7. CASE Unpin(t)
  <2> DEFINE D == IF MarksDirty(t) THEN {page[t]} ELSE {}
  <2>1. PoolCalls({}, Fetched(t), D) /\ dir' = dir /\ bucket' = bucket
    BY <1>7 DEF Unpin, contentVars
  <2>2. p \in unsaved /\ ~(p \in Fetched(t) /\ p \in D)
    <3> HIDE DEF D
    <3> QED BY <2>1, UnsavedAfter
  <2>3. PICK u \in Threads : Marker(u, p)
    BY <1>2, <2>2
  <2>4. u # t
    BY <2>2, <2>3 DEF Marker, Fetched
  <2> QED BY <1>2, <2>2, <2>3, <2>4, MarkerStays
<1>8. CASE \/ SplitFindsRoom(t) \/ SplitRefused(t) \/ SplitBucket(t)
           \/ MergeNothing(t) \/ MergeBuckets(t)
  <2>1. WriterPool(t)
    BY <1>8, WriterSteps
  <2>2. PICK F \in SUBSET Pages, D \in SUBSET Pages :
          /\ PoolCalls(F, F, D)
          /\ D \subseteq F
          /\ \A q \in BucketIds : bucket'[q] # bucket[q] => q \in D
          /\ dir' # dir => DirectoryId \in D
          /\ at[t] # "unpin"
    BY <2>1 DEF WriterPool
  <2>3. (p \in unsaved \/ p \in D) /\ ~(p \in F /\ p \in D)
    BY <2>2, UnsavedAfter
  <2> QED BY <1>3, <2>2, <2>3
<1> QED BY <1>4, <1>5, <1>6, <1>7, <1>8, PoolStays
-----------------------------------------------------------------------------
(* The pool has no room for the pages in P: how many those and the pinned  *)
(* ones are, at least.                                                     *)
LEMMA NoRoom ==
  ASSUME Running, NEW P, ~CanPin(P), NEW S, IsFiniteSet(S), Pinned \union P \subseteq S,
         NEW n \in Nat, Cardinality(S) =< n
  PROVE  others + n > PoolSize
<1>1. /\ IsFiniteSet(Pinned \union P)
      /\ Cardinality(Pinned \union P) =< Cardinality(S)
  BY FS_Subset
<1>2. Cardinality(Pinned \union P) \in Nat /\ Cardinality(S) \in Nat
  BY <1>1, FS_CardinalityType
<1>3. others \in Nat /\ PoolSize \in Nat
  BY TableAssumption DEF Running, TypeOK
<1> QED BY <1>1, <1>2, <1>3 DEF CanPin

(* Only pages with users are pinned.                                       *)
LEMMA PinnedIsUsed ==
  ASSUME Running, NEW p \in Pinned
  PROVE  p \in Pages /\ \E u \in Threads : Uses(u, p)
<1>1. p \in Pages /\ pins[p] > 0 /\ pins[p] = Cardinality(Users(p))
  BY DEF Pinned, Running, PinsAreUsers
<1>2. Users(p) # {}
  BY <1>1, FS_EmptySet
<1> QED BY <1>1, <1>2 DEF Users

LEMMA AbortedFetch ==
  ASSUME Running, NEW t \in Threads, page[t] = DirectoryId, NEW q, ~CanPin({q})
  PROVE  others + Cardinality(Threads) + 1 > PoolSize
<1> DEFINE f == [u \in Threads |-> IF u = t THEN q ELSE page[u]]
           R == {f[u] : u \in Threads}
<1>1. Pinned \union {q} \subseteq R \union {DirectoryId}
  <2>1. q \in R
    <3>1. f[t] = q
      OBVIOUS
    <3> QED BY <3>1
  <2>2. ASSUME NEW p \in Pinned, p # DirectoryId PROVE p \in R
    <3>1. PICK u \in Threads : p \in {DirectoryId, page[u]}
      BY <2>2, PinnedIsUsed DEF Uses
    <3>2. u # t /\ p = page[u]
      BY <2>2, <3>1
    <3>3. f[u] = p
      BY <3>2
    <3> QED BY <3>3
  <2> QED BY <2>1, <2>2
<1> HIDE DEF f
<1>2. IsFiniteSet(Threads) /\ Cardinality(Threads) \in Nat
  BY TableAssumption, FS_CardinalityType
<1>3. IsFiniteSet(R) /\ Cardinality(R) =< Cardinality(Threads)
  BY <1>2, ImageSize
<1> HIDE DEF R
<1>4. /\ IsFiniteSet(R \union {DirectoryId})
      /\ Cardinality(R \union {DirectoryId})
           = IF DirectoryId \in R THEN Cardinality(R) ELSE Cardinality(R) + 1
  BY <1>3, FS_AddElement
<1>5. Cardinality(R) \in Nat
  BY <1>3, FS_CardinalityType
<1>6. /\ Cardinality(R \union {DirectoryId}) =< Cardinality(Threads) + 1
      /\ Cardinality(Threads) + 1 \in Nat
  BY <1>2, <1>3, <1>4, <1>5
<1>7. others + (Cardinality(Threads) + 1) > PoolSize
  BY <1>1, <1>4, <1>6, NoRoom
<1>8. others \in Nat /\ PoolSize \in Nat
  BY TableAssumption DEF Running, TypeOK
<1> QED BY <1>2, <1>7, <1>8

LEMMA AbortedWriter ==
  ASSUME Running, Readers = {}, NEW P, NEW a, NEW b, NEW c, P \subseteq {a, b, c}, ~CanPin(P)
  PROVE  others + 3 > PoolSize
<1>1. Pinned = {}
  <2> SUFFICES ASSUME NEW p \in Pinned PROVE FALSE
    OBVIOUS
  <2>1. p \in Pages /\ \E u \in Threads : Uses(u, p)
    BY PinnedIsUsed
  <2>2. Users(p) = {}
    BY <2>1, NobodyElse
  <2> QED BY <2>1, <2>2 DEF Users
<1>2. IsFiniteSet({a}) /\ Cardinality({a}) = 1
  BY FS_Singleton
<1>3. ASSUME NEW S, IsFiniteSet(S), NEW n \in Nat, Cardinality(S) =< n, NEW x
      PROVE  IsFiniteSet(S \union {x}) /\ Cardinality(S \union {x}) =< n + 1
  <2>1. Cardinality(S) \in Nat
    BY <1>3, FS_CardinalityType
  <2>2. /\ IsFiniteSet(S \union {x})
        /\ Cardinality(S \union {x}) = IF x \in S THEN Cardinality(S) ELSE Cardinality(S) + 1
    BY <1>3, FS_AddElement
  <2> QED BY <1>3, <2>1, <2>2
<1>4. PICK S : S = {a} \union {b}
  OBVIOUS
<1>5. IsFiniteSet(S) /\ Cardinality(S) =< 2
  <2>1. IsFiniteSet({a}) /\ 1 \in Nat /\ Cardinality({a}) =< 1
    BY <1>2
  <2>2. IsFiniteSet({a} \union {b}) /\ Cardinality({a} \union {b}) =< 1 + 1
    BY <1>3, <2>1
  <2> QED BY <1>4, <2>2
<1>6. IsFiniteSet(S \union {c}) /\ Cardinality(S \union {c}) =< 3
  BY <1>3, <1>5
<1>7. Pinned \union P \subseteq S \union {c}
  BY <1>1, <1>4
<1> QED BY <1>6, <1>7, NoRoom

(* The pool refuses a page only when the frames are used up.               *)
LEMMA AbortIsExcused ==
  ASSUME Running, NEW t \in Threads, Aborts(t)
  PROVE  AbortsOnlyWhenExhausted'
<1>1. others' = others
  BY DEF Aborts, FetchAborts, WriterAborts, SplitAborts, PoolCalls, poolVars
<1>2. CASE FetchAborts(t)
  <2>1. page[t] = DirectoryId
    BY <1>2 DEF Running, FetchAborts, At, LocalsFit, HasPage
  <2>2. \E q : ~CanPin({q})
    BY <1>2 DEF FetchAborts
  <2>3. others + Cardinality(Threads) + 1 > PoolSize
    BY <2>1, <2>2, AbortedFetch
  <2> QED BY <1>1, <2>3 DEF AbortsOnlyWhenExhausted
<1>3. CASE WriterAborts(t) \/ SplitAborts(t)
  <2>1. Readers = {}
    BY <1>3 DEF WriterAborts, SplitAborts, Alone
  <2>2. \E P \in SUBSET {DirectoryId, PageOf(t), NewPageId} : ~CanPin(P)
    <3>1. {DirectoryId, PageOf(t)} \union {NewPageId} = {DirectoryId, PageOf(t), NewPageId}
      OBVIOUS
    <3> QED BY <1>3, <3>1 DEF WriterAborts, SplitAborts
  <2>3. others + 3 > PoolSize
    BY <2>1, <2>2, AbortedWriter
  <2> QED BY <1>1, <2>3 DEF AbortsOnlyWhenExhausted
<1> QED BY <1>2, <1>3 DEF Aborts

(* A directory that was deepened for a split which did not follow leads    *)
(* every key to the page it led to before.                                 *)
LEMMA DeepenedLeadsAsBefore ==
  ASSUME IsDirectory(dir), Consistent(dir), NEW i \in Indices(dir), ~CannotSplit(dir, i),
         dir' = Deepened(dir, i)
  PROVE  /\ IsDirectory(dir')
         /\ \A k \in Keys : KeyToPageId(k)' = KeyToPageId(k)
<1>1. PICK e : e = Grown(dir, i)
  OBVIOUS
<1>2. PICK n \in Nat, g \in Nat, l \in Nat :
        n = dir.global_depth /\ g = e.global_depth /\ l = dir.local_depths[i]
  BY <1>1, DirectoryTypes, GrownEffect
<1>3. /\ IsDirectory(e)
      /\ i \in Indices(e) /\ e.local_depths[i] = l /\ l < g /\ n =< g
      /\ \A j \in Indices(e) : e.bucket_page_ids[j] = dir.bucket_page_ids[Low(j, n)]
  BY <1>1, <1>2, GrownEffect
<1>4. dir' = [e EXCEPT !.local_depths[i] = @ + 1]
  BY <1>1 DEF Deepened, Grown
<1>5. /\ e = [global_depth |-> g, local_depths |-> e.local_depths,
              bucket_page_ids |-> e.bucket_page_ids]
      /\ g \in 0 .. MaxDepth
      /\ e.local_depths \in [Indices(e) -> 0 .. MaxDepth]
      /\ e.bucket_page_ids \in [Indices(e) -> BucketIds]
  BY <1>2, <1>3, DirectoryShape
<1>6. /\ dir' = [global_depth |-> g,
                 local_depths |-> [e.local_depths EXCEPT ![i] = l + 1],
                 bucket_page_ids |-> e.bucket_page_ids]
      /\ Indices(dir') = Indices(e)
  BY <1>2, <1>3, <1>4, <1>5 DEF Indices, Size
<1>7. IsDirectory(dir')
  <2>1. l + 1 \in 0 .. MaxDepth
    BY <1>3, <1>5, DirectoryAssumption
  <2>2. [e.local_depths EXCEPT ![i] = l + 1] \in [Indices(e) -> 0 .. MaxDepth]
    BY <1>3, <1>5, <2>1
  <2>3. PICK d : d = dir'
    OBVIOUS
  <2>4. IsDirectory(d)
    BY <1>5, <1>6, <2>2, <2>3, DirectoryShape
  <2> QED BY <2>3, <2>4
<1>8. ASSUME NEW k \in Keys PROVE KeyToPageId(k)' = KeyToPageId(k)
  <2>1. PICK h \in Nat : h = Hash[k]
    BY Ids
  <2>2. HashToIndex(dir, h) = Low(h, n)
    BY <1>2, LeadsTo
  <2>3. Low(h, g) \in Indices(e)
    BY <1>2, <1>3, LeadsTo
  <2>4. HashToIndex(dir', h) = Low(h, g)
    BY <1>6 DEF HashToIndex, Size, Low
  <2>5. Low(Low(h, g), n) = Low(h, n)
    BY <1>3, LowOfLow
  <2>6. dir'.bucket_page_ids[Low(h, g)] = dir.bucket_page_ids[Low(h, n)]
    BY <1>3, <1>6, <2>3, <2>5
  <2> QED BY <2>1, <2>2, <2>4, <2>6 DEF KeyToPageId, KeyToDirectoryIndex
<1> QED BY <1>7, <1>8

(* What an abort leaves.                                                   *)
LEMMA AbortStops ==
  ASSUME Running, NEW t \in Threads, Aborts(t)
  PROVE  IInv'
<1>1. TypeOK /\ PageIdIsCurrent /\ PairsAreFindable /\ ChangesAreMarked
  BY RunningIsMarked DEF Running
<1>2. aborted' = TRUE /\ bucket' = bucket /\ others' = others /\ UNCHANGED threadVars
  BY DEF Aborts, FetchAborts, WriterAborts, SplitAborts, PoolCalls, contentVars, poolVars
<1>3. DirectoryId \in Pages /\ BucketIds \subseteq Pages
  BY Ids
<1>4. ASSUME IsDirectory(dir'), \A k \in Keys : KeyToPageId(k)' = KeyToPageId(k),
             dir' = dir \/ Readers = {},
             pins' \in [Pages -> Nat], unsaved' \subseteq Pages, ChangesAreMarked'
      PROVE  IInv'
  <2>1. TypeOK'
    BY <1>1, <1>2, <1>4 DEF TypeOK, threadVars
  <2>2. PageIdIsCurrent'
    <3> SUFFICES ASSUME NEW u \in Threads, page[u] # DirectoryId
                 PROVE  page[u] = KeyToPageId(call[u].key)'
      BY <1>2 DEF PageIdIsCurrent, threadVars
    <3>1. dir' = dir
      BY <1>4, NobodyElse
    <3> QED BY <1>1, <1>2, <3>1 DEF PageIdIsCurrent, KeyToPageId, KeyToDirectoryIndex, threadVars
  <2>3. PairsAreFindable'
    BY <1>1, <1>2, <1>4 DEF PairsAreFindable, TypeOK, Pairs
  <2> QED BY <1>2, <1>4, <2>1, <2>2, <2>3, AbortIsExcused DEF IInv, Stopped
<1>5. ASSUME dir' = dir, UNCHANGED poolVars PROVE IInv'
  <2>1. \A k \in Keys : KeyToPageId(k)' = KeyToPageId(k)
    BY <1>5 DEF KeyToPageId, KeyToDirectoryIndex
  <2> QED BY <1>1, <1>4, <1>5, <2>1 DEF TypeOK, ChangesAreMarked, poolVars
<1>6. ASSUME NEW F \in SUBSET Pages, PoolCalls(F, {}, {}), dir' # dir => DirectoryId \in F
      PROVE  pins' \in [Pages -> Nat] /\ unsaved' \subseteq Pages /\ ChangesAreMarked'
  <2>1. pins' = [p \in Pages |-> pins[p] + (IF p \in F THEN 1 ELSE 0) - 0]
    BY <1>6 DEF PoolCalls
  <2>2. pins \in [Pages -> Nat] /\ unsaved \subseteq Pages
    BY <1>1 DEF TypeOK
  <2>3. pins' \in [Pages -> Nat]
    BY <2>1, <2>2
  <2>4. ASSUME NEW p \in unsaved' PROVE p \in Pages /\ pins'[p] > 0
    <3>1. p \in unsaved \/ (p = DirectoryId /\ dir' # dir)
      BY <1>2, <1>6, UnsavedAfter
    <3>2. CASE p \in unsaved
      <4>1. p \in Pages /\ pins[p] \in Nat /\ pins[p] > 0
        BY <1>1, <2>2, <3>2 DEF ChangesAreMarked
      <4> QED BY <2>1, <4>1
    <3>3. CASE p = DirectoryId /\ dir' # dir
      <4>1. p \in Pages /\ p \in F /\ pins[p] \in Nat
        BY <1>3, <1>6, <2>2, <3>3
      <4> QED BY <2>1, <4>1
    <3> QED BY <3>1, <3>2, <3>3
  <2> QED BY <2>3, <2>4 DEF ChangesAreMarked
<1>7. CASE FetchAborts(t)
  BY <1>5, <1>7 DEF FetchAborts, contentVars
<1>8. CASE WriterAborts(t)
  <2>1. dir' = dir /\ (UNCHANGED poolVars \/ PoolCalls({DirectoryId}, {}, {}))
    BY <1>8 DEF WriterAborts, contentVars
  <2>2. CASE PoolCalls({DirectoryId}, {}, {})
    <3>1. pins' \in [Pages -> Nat] /\ unsaved' \subseteq Pages /\ ChangesAreMarked'
      BY <1>3, <1>6, <2>2
    <3>2. IsDirectory(dir') /\ \A k \in Keys : KeyToPageId(k)' = KeyToPageId(k)
      BY <1>1, <2>1 DEF TypeOK, KeyToPageId, KeyToDirectoryIndex
    <3> QED BY <1>4, <2>1, <3>1, <3>2
  <2> QED BY <1>5, <2>1, <2>2
<1>9. CASE SplitAborts(t)
  <2>1. /\ at[t] = "split" /\ Readers = {}
        /\ ~CannotSplit(dir, IndexOf(t)) /\ dir' = Deepened(dir, IndexOf(t))
        /\ PoolCalls({DirectoryId, PageOf(t)}, {}, {})
    BY <1>9 DEF SplitAborts, Alone, At
  <2>2. IndexOf(t) \in Indices(dir) /\ PageOf(t) \in BucketIds
    BY <2>1, SplitInserts
  <2>3. IsDirectory(dir) /\ Consistent(dir)
    BY DEF Running, TypeOK
  <2>4. IsDirectory(dir') /\ \A k \in Keys : KeyToPageId(k)' = KeyToPageId(k)
    BY <2>1, <2>2, <2>3, DeepenedLeadsAsBefore
  <2>5. {DirectoryId, PageOf(t)} \in SUBSET Pages /\ DirectoryId \in {DirectoryId, PageOf(t)}
    BY <1>3, <2>2
  <2>6. pins' \in [Pages -> Nat] /\ unsaved' \subseteq Pages /\ ChangesAreMarked'
    BY <1>6, <2>1, <2>5
  <2> QED BY <1>4, <2>1, <2>4, <2>6
<1> QED BY <1>7, <1>8, <1>9 DEF Aborts

(* Other users of the pool change nothing but their own count.             *)
LEMMA RestKeepsIInv ==
  ASSUME IInv, UNCHANGED <<dir, bucket, pins, unsaved, call, at, page, answer, aborted>>,
         others' \in 0 .. OtherPins, aborted => others' = others
  PROVE  IInv'
<1>1. TypeOK'
  BY DEF IInv, Running, Stopped, TypeOK
<1>2. PageIdIsCurrent' /\ PairsAreFindable'
  BY DEF IInv, Running, Stopped, PageIdIsCurrent, PairsAreFindable, KeyToPageId, KeyToDirectoryIndex
<1>3. CASE aborted
  <2>1. ChangesAreMarked' /\ AbortsOnlyWhenExhausted'
    BY <1>3 DEF IInv, Stopped, ChangesAreMarked, AbortsOnlyWhenExhausted
  <2> QED BY <1>1, <1>2, <1>3, <2>1 DEF IInv, Stopped
<1>4. CASE ~aborted
  <2>1. Running
    BY <1>4 DEF IInv
  <2>2. Consistent(dir)' /\ \A t \in Threads : LocalsFit(t)' /\ ReadyToWrite(t)'
    BY <2>1 DEF Running, LocalsFit, HasPage, ReadyToWrite, ThePair, Full
  <2>3. LatchesExclude' /\ BucketsAreFinite'
    BY <2>1 DEF Running, LatchesExclude, BucketHolders, Readers, Excludes, Exclusive, BucketsAreFinite
  <2>4. PinsAreUsers' /\ ChangersMark'
    BY <2>1 DEF Running, PinsAreUsers, Users, Uses, ChangersMark, Marker, MarksDirty
  <2> QED BY <1>1, <1>2, <1>4, <2>2, <2>3, <2>4 DEF IInv, Running
<1> QED BY <1>3, <1>4

LEMMA StepKeepsIInv ==
  ASSUME Running, ~aborted, NEW t \in Threads, Step(t)
  PROVE  IInv'
<1>1. ControlTypeOK' /\ OnlyMoves(t) /\ LocalsFit(t)'
  BY StepKeepsControl
<1>2. \A u \in Threads : LocalsFit(u)'
  <2> SUFFICES ASSUME NEW u \in Threads, u # t PROVE LocalsFit(u)'
    BY <1>1
  <2>1. LocalsFit(u)
    BY DEF Running
  <2> QED BY <1>1, <2>1 DEF OnlyMoves, LocalsFit, HasPage
<1>3. LatchesExclude' /\ PageIdIsCurrent' /\ \A u \in Threads : ReadyToWrite(u)'
  BY <1>1, <1>2, StepKeepsLatches, StepKeepsPageIds, StepKeepsReady
<1>4. IsDirectory(dir') /\ Consistent(dir') /\ Contents'
  BY StepKeepsContents
<1>5. pins' \in [Pages -> Nat] /\ PinsAreUsers'
  BY <1>1, StepKeepsPins
<1>6. unsaved' \subseteq Pages /\ ChangersMark'
  BY <1>1, StepKeepsMarks
<1>7. others' = others /\ aborted' = aborted
  BY DEF Step, Begin, Enter, FetchBucketPage, GetValue, InsertFindsFull,
     InsertScans, RemoveScans, Write, Found, Unpin, Unlatch, ReturnSplit, Latch, SplitInsert, Merge,
     SplitFindsRoom, SplitRefused, SplitBucket, MergeNothing, MergeBuckets, PoolCalls, poolVars
<1>8. TypeOK'
  <2>1. others' \in 0 .. OtherPins /\ aborted' \in BOOLEAN
    BY <1>7 DEF Running, TypeOK
  <2> QED BY <1>1, <1>4, <1>5, <1>6, <2>1 DEF TypeOK, ControlTypeOK, Contents
<1> QED BY <1>2, <1>3, <1>4, <1>5, <1>6, <1>7, <1>8 DEF IInv, Running, Contents

LEMMA InitIInv == Init => IInv
<1> SUFFICES ASSUME Init PROVE IInv
  OBVIOUS
<1>1. Min(BucketIds) \in BucketIds
  <2>1. 2 ^ MaxDepth \in Nat /\ 2 ^ MaxDepth > 0
    BY DirectoryAssumption, PowerIsPositive
  <2>2. Cardinality(BucketIds) # 0
    BY <2>1, TableAssumption
  <2>3. BucketIds # {}
    BY <2>2, FS_EmptySet
  <2> QED BY <2>3, LeastId
<1>2. IsDirectory(dir) /\ Consistent(dir)
  BY <1>1, NewDirectoryEffect DEF Init
<1>3. /\ bucket = [p \in BucketIds |-> {}] /\ pins = [p \in Pages |-> 0]
      /\ others = 0 /\ unsaved = {}
      /\ call = [t \in Threads |-> NoCall] /\ at = [t \in Threads |-> "idle"]
      /\ page = [t \in Threads |-> DirectoryId] /\ answer = [t \in Threads |-> Pending]
      /\ aborted = FALSE
  BY DEF Init
<1>4. TypeOK
  <2>1. 0 \in 0 .. OtherPins
    BY TableAssumption
  <2> QED BY <1>2, <1>3, <2>1, Ids DEF TypeOK
<1>5. \A t \in Threads : LocalsFit(t) /\ ReadyToWrite(t)
  BY <1>3 DEF LocalsFit, HasPage, ReadyToWrite
<1>6. PageIdIsCurrent /\ LatchesExclude
  BY <1>3 DEF PageIdIsCurrent, LatchesExclude, BucketHolders, Readers
<1>7. BucketsAreFinite /\ PairsAreFindable
  <2>1. IsFiniteSet({}) /\ Cardinality({}) = 0
    BY FS_EmptySet
  <2>2. 0 =< BucketSize
    BY TableAssumption
  <2> QED BY <1>3, <2>1, <2>2 DEF BucketsAreFinite, PairsAreFindable
<1>8. PinsAreUsers /\ ChangersMark
  <2>1. \A p \in Pages : Users(p) = {}
    BY <1>3 DEF Users, Uses
  <2>2. Cardinality({}) = 0
    BY FS_EmptySet
  <2> QED BY <1>3, <2>1, <2>2 DEF PinsAreUsers, ChangersMark
<1> QED BY <1>2, <1>3, <1>4, <1>5, <1>6, <1>7, <1>8 DEF IInv, Running

(* Nothing happens once the program has ended.                             *)
LEMMA NextCases ==
  ASSUME Next
  PROVE  \/ ~aborted /\ \E t \in Threads : Step(t) \/ Aborts(t)
         \/ \E n \in 0 .. OtherPins : OthersPin(n)
         \/ UNCHANGED vars
<1>1. ASSUME NEW t \in Threads, Step(t) PROVE ~aborted
  BY <1>1 DEF Step, Begin, Enter, FetchBucketPage, GetValue, InsertFindsFull, InsertScans, RemoveScans,
     Scans, Write, Unpin, Unlatch, ReturnSplit, Latch, SplitInsert, Merge, SplitFindsRoom,
     SplitRefused, SplitBucket, MergeNothing, MergeBuckets, Alone, At
<1>2. ASSUME NEW t \in Threads, Aborts(t) PROVE ~aborted
  BY <1>2 DEF Aborts, FetchAborts, WriterAborts, SplitAborts, Alone, At
<1> QED BY <1>1, <1>2 DEF Next, GoOn, Wait, Step, Aborts, Ended

LEMMA NextKeepsIInv == IInv /\ [Next]_vars => IInv'
<1> SUFFICES ASSUME IInv, [Next]_vars PROVE IInv'
  OBVIOUS
<1>1. ASSUME ~aborted, NEW t \in Threads, Step(t) PROVE IInv'
  BY <1>1, StepKeepsIInv DEF IInv
<1>2. ASSUME ~aborted, NEW t \in Threads, Aborts(t) PROVE IInv'
  BY <1>2, AbortStops DEF IInv
<1>3. ASSUME NEW n \in 0 .. OtherPins, OthersPin(n) PROVE IInv'
  BY <1>3, RestKeepsIInv DEF OthersPin, contentVars, threadVars
<1>4. CASE UNCHANGED vars
  <2>1. others \in 0 .. OtherPins
    BY DEF IInv, Running, Stopped, TypeOK
  <2> QED BY <1>4, <2>1, RestKeepsIInv DEF vars, contentVars, poolVars, threadVars
<1> QED BY <1>1, <1>2, <1>3, <1>4, NextCases

LEMMA Invariance == Spec => []IInv
BY InitIInv, NextKeepsIInv, PTL DEF Spec
-----------------------------------------------------------------------------
(* Every variable of the table keeps its type; the directory stays within  *)
(* its arrays and the number of pins never gets negative.                  *)
THEOREM TypeCorrect == Spec => []TypeOK
<1>1. IInv => TypeOK
  BY DEF IInv, Running, Stopped
<1> QED BY <1>1, Invariance, PTL

(* The page id a thread read from the directory is right when it is used,  *)
(* although Insert and Remove drop their latches half way.                 *)
THEOREM PageIdsStayCurrent == Spec => []PageIdIsCurrent
<1>1. IInv => PageIdIsCurrent
  BY DEF IInv, Running, Stopped
<1> QED BY <1>1, Invariance, PTL

(* Every pair is where a search for its key looks, however the directory   *)
(* has grown, been split, merged and shrunk.                               *)
THEOREM PairsStayFindable == Spec => []PairsAreFindable
<1>1. IInv => PairsAreFindable
  BY DEF IInv, Running, Stopped
<1> QED BY <1>1, Invariance, PTL

(* Every change is marked dirty before the last pin on its page is given   *)
(* up; a directory that is only half changed stays pinned.                 *)
THEOREM ChangesStayMarked == Spec => []ChangesAreMarked
<1>1. IInv => ChangesAreMarked
  BY RunningIsMarked DEF IInv, Stopped
<1> QED BY <1>1, Invariance, PTL

(* Until an assertion ends the program, the pins of a page are those of    *)
(* the threads that use it: every path gives back what it took.            *)
THEOREM PinsAreGivenBack == Spec => []PinsAreReturned
<1>1. ASSUME NEW p PROVE Users(p) = {t \in Readers : at[t] # "unlatch" /\ p \in {DirectoryId, page[t]}}
  BY DEF Users, Uses, Readers
<1>2. IInv => PinsAreReturned
  BY <1>1 DEF IInv, Running, PinsAreUsers, PinsAreReturned
<1> QED BY <1>2, Invariance, PTL

(* Three frames, or one for each thread and one for the directory, are     *)
(* enough: with those the assertions on fetched pages hold.                *)
THEOREM AbortsAreExcused == Spec => []AbortsOnlyWhenExhausted
<1>1. IInv => AbortsOnlyWhenExhausted
  BY DEF IInv, Stopped, AbortsOnlyWhenExhausted
<1> QED BY <1>1, Invariance, PTL
-----------------------------------------------------------------------------
(* The pairs and the calls of the store that the table implements.         *)
StorePairs == UNION {bucket[p] : p \in BucketIds}

StoreCalls == [t \in Threads |->
                 IF call[t] \in [op : {"GetGlobalDepth"}] THEN NoCall ELSE call[t]]

(* The store has a pair if the search for its key finds it.                *)
LEMMA StoreHas ==
  ASSUME Running, NEW k \in Keys, NEW v \in Values
  PROVE  <<k, v>> \in StorePairs <=> <<k, v>> \in bucket[KeyToPageId(k)]
<1>1. KeyToPageId(k) \in BucketIds
  BY KeyLeads DEF Running, TypeOK
<1>2. ASSUME NEW p \in BucketIds, <<k, v>> \in bucket[p] PROVE KeyToPageId(k) = p
  BY <1>2 DEF Running, PairsAreFindable
<1> QED BY <1>1, <1>2 DEF StorePairs

LEMMA StoreIsFinite == ASSUME Running PROVE IsFiniteSet(StorePairs)
<1> DEFINE Buckets == {bucket[p] : p \in BucketIds}
<1>1. IsFiniteSet(Buckets)
  BY TableAssumption, ImageSize
<1>2. \A S \in Buckets : IsFiniteSet(S)
  BY DEF Running, BucketsAreFinite
<1>3. StorePairs = UNION Buckets
  BY DEF StorePairs
<1> HIDE DEF Buckets
<1> QED BY <1>1, <1>2, <1>3, FS_UNION

(* What happens to one bucket happens to the store.                        *)
LEMMA StoreChanges ==
  ASSUME Running, NEW p \in BucketIds, NEW x \in Pairs, KeyToPageId(x[1]) = p
  PROVE  /\ bucket' = [bucket EXCEPT ![p] = @ \union {x}] => StorePairs' = StorePairs \union {x}
         /\ bucket' = [bucket EXCEPT ![p] = @ \ {x}] => StorePairs' = StorePairs \ {x}
<1>1. bucket \in [BucketIds -> SUBSET Pairs]
  BY DEF Running, TypeOK
<1>2. \A q \in BucketIds : x \in bucket[q] => q = p
  BY DEF Running, PairsAreFindable
<1>3. ASSUME bucket' = [bucket EXCEPT ![p] = @ \union {x}] PROVE StorePairs' = StorePairs \union {x}
  <2>1. \A q \in BucketIds : bucket'[q] = IF q = p THEN bucket[p] \union {x} ELSE bucket[q]
    BY <1>1, <1>3
  <2> QED BY <2>1 DEF StorePairs
<1>4. ASSUME bucket' = [bucket EXCEPT ![p] = @ \ {x}] PROVE StorePairs' = StorePairs \ {x}
  <2>1. \A q \in BucketIds : bucket'[q] = IF q = p THEN bucket[p] \ {x} ELSE bucket[q]
    BY <1>1, <1>4
  <2> QED BY <1>2, <2>1 DEF StorePairs
<1> QED BY <1>3, <1>4

(* The store sees the calls, but those of GetGlobalDepth.                  *)
LEMMA StoreCallOf ==
  ASSUME Running, NEW t \in Threads, at[t] # "idle", call[t].op # "GetGlobalDepth"
  PROVE  /\ StoreCalls[t] = call[t]
         /\ StoreCalls[t] # NoCall
         /\ answer[t] = Pending => Store!In(t, call[t].op)
<1>1. call[t] \in Calls
  BY CallOf
<1>2. call[t] # NoCall /\ call[t] \notin [op : {"GetGlobalDepth"}]
  BY <1>1, CallFields
<1>3. StoreCalls[t] = call[t]
  BY <1>2 DEF StoreCalls
<1> QED BY <1>2, <1>3 DEF Store!In, StoreCalls

LEMMA StoreStutters ==
  ASSUME StorePairs' = StorePairs, StoreCalls' = StoreCalls, answer' = answer
  PROVE  UNCHANGED Store!vars
BY DEF Store!vars, StorePairs, StoreCalls

LEMMA StoreSteps ==
  ASSUME NEW t \in Threads,
         Store!GetValue(t) \/ Store!Insert(t) \/ Store!Remove(t) \/ Store!Return(t)
  PROVE  Store!Next
BY DEF Store!Next

(* A bucket that cannot be split has one entry in the directory, and all   *)
(* bits of a hash are used to find it.                                     *)
LEMMA FullyGrown ==
  ASSUME NEW d, IsDirectory(d), NEW i \in Indices(d), CannotSplit(d, i)
  PROVE  d.global_depth = MaxDepth /\ d.local_depths[i] = MaxDepth
<1>1. PICK g \in Nat, k \in Nat : g = d.global_depth /\ k = d.local_depths[i]
  BY DirectoryTypes
<1>2. g =< MaxDepth /\ k =< MaxDepth /\ Size(d) = 2 ^ g /\ MaxDepth \in Nat
  BY <1>1, DirectoryTypes, DirectoryAssumption
<1>3. k >= g /\ Size(d) > 2 ^ MaxDepth \div 2
  BY <1>1 DEF CannotSplit
<1>4. ~(g < MaxDepth)
  <2> SUFFICES ASSUME g < MaxDepth PROVE FALSE
    OBVIOUS
  <2>1. g + 1 \in Nat /\ g + 1 =< MaxDepth
    BY <1>2
  <2>2. 2 ^ (g + 1) =< 2 ^ MaxDepth
    BY <1>2, <2>1, PowersGrow
  <2>3. 2 ^ (g + 1) = 2 * 2 ^ g
    BY PowerDoubles
  <2>4. 2 ^ g \in Nat /\ 2 ^ MaxDepth \in Nat
    BY <1>2, PowerIsPositive
  <2>5. \A x, y \in Nat : 2 * x =< y => ~(x > y \div 2)
    OBVIOUS
  <2>6. 2 * 2 ^ g =< 2 ^ MaxDepth
    BY <2>2, <2>3
  <2> QED BY <1>2, <1>3, <2>4, <2>5, <2>6
<1> QED BY <1>1, <1>2, <1>3, <1>4

(* When SplitInsert gives up, its bucket is filled with pairs whose hashes *)
(* cannot be told apart.                                                   *)
LEMMA RefusedIsCrowded ==
  ASSUME Running, NEW t \in Threads, SplitRefused(t)
  PROVE  Store!Crowded(call[t].key)
<1>1. at[t] = "split" /\ Full(PageOf(t)) /\ CannotSplit(dir, IndexOf(t))
  BY DEF SplitRefused, Alone, At
<1>2. PICK k \in Keys : k = call[t].key
  BY <1>1, SplitInserts, CallOf
<1>3. PICK p \in BucketIds, i \in Indices(dir) : p = PageOf(t) /\ i = IndexOf(t)
  BY <1>1, SplitInserts
<1>4. IsDirectory(dir) /\ Consistent(dir)
  BY DEF Running, TypeOK
<1>5. dir.global_depth = MaxDepth /\ dir.local_depths[i] = MaxDepth /\ MaxDepth \in Nat
  BY <1>1, <1>3, <1>4, FullyGrown, DirectoryAssumption
<1>6. ASSUME NEW l \in Keys
      PROVE  KeyToDirectoryIndex(l) = Hash[l] /\ Hash[l] \in Indices(dir)
                /\ Low(Hash[l], MaxDepth) = Hash[l]
  <2>1. Hash[l] \in Nat /\ Hash[l] < 2 ^ MaxDepth
    BY Ids
  <2>2. PICK h \in Nat : h = Hash[l]
    BY <2>1
  <2>3. HashToIndex(dir, h) = Low(h, dir.global_depth) /\ Low(h, dir.global_depth) \in Indices(dir)
    BY <1>4, LeadsTo
  <2>4. Low(h, MaxDepth) = h
    BY <1>5, <2>1, <2>2, LowFacts
  <2> QED BY <1>5, <2>2, <2>3, <2>4 DEF KeyToDirectoryIndex
<1>7. i = Hash[k] /\ p = dir.bucket_page_ids[i]
  BY <1>1, <1>2, <1>3, <1>6, SplitInserts DEF IndexOf, PageOf, KeyToPageId
<1>8. ASSUME NEW x \in bucket[p] PROVE Hash[x[1]] = Hash[k]
  <2>1. x \in Pairs /\ KeyToPageId(x[1]) = p
    BY DEF Running, TypeOK, PairsAreFindable
  <2>2. PICK l \in Keys : l = x[1]
    BY <2>1 DEF Pairs
  <2>3. Hash[l] \in Indices(dir) /\ dir.bucket_page_ids[Hash[l]] = dir.bucket_page_ids[i]
    BY <1>6, <1>7, <2>1, <2>2 DEF KeyToPageId
  <2>4. Low(Hash[l], MaxDepth) = Low(i, MaxDepth)
    BY <1>4, <1>5, <2>3 DEF Consistent
  <2> QED BY <1>6, <1>7, <2>2, <2>4
<1> DEFINE Same == {x \in StorePairs : Hash[x[1]] = Hash[k]}
<1>9. bucket[p] \subseteq Same
  BY <1>8 DEF StorePairs
<1>10. IsFiniteSet(Same)
  <2>1. IsFiniteSet(StorePairs) /\ Same \in SUBSET StorePairs
    BY StoreIsFinite
  <2> HIDE DEF Same
  <2> QED BY <2>1, FS_Subset
<1>11. Cardinality(Same) >= BucketSize
  <2> HIDE DEF Same
  <2>1. IsFiniteSet(bucket[p]) /\ Cardinality(bucket[p]) =< Cardinality(Same)
    BY <1>9, <1>10, FS_Subset
  <2>2. Cardinality(bucket[p]) \in Nat /\ Cardinality(Same) \in Nat /\ BucketSize \in Nat
    BY <1>10, <2>1, FS_CardinalityType, TableAssumption
  <2>3. Cardinality(bucket[p]) >= BucketSize
    BY <1>1, <1>3 DEF Full
  <2> QED BY <2>1, <2>2, <2>3
<1>12. Store!Cardinality(Same) = Cardinality(Same)
  BY DEF Store!Cardinality, Cardinality
<1> QED BY <1>2, <1>11, <1>12 DEF Store!Crowded, StorePairs

(* When Insert of the store takes effect, and when Remove does.            *)
LEMMA StoreInserts ==
  ASSUME Running, NEW t \in Threads, at[t] # "idle", call[t].op = "Insert", answer[t] = Pending,
         call' = call, NEW ok \in BOOLEAN, Decide(t, ok, {}),
         IF ok THEN /\ ThePair(t) \notin StorePairs
                    /\ StorePairs' = StorePairs \union {ThePair(t)}
               ELSE /\ ThePair(t) \in StorePairs \/ Store!Crowded(call[t].key)
                    /\ StorePairs' = StorePairs
  PROVE  Store!Next
<1>1. StoreCalls[t] = call[t] /\ Store!In(t, "Insert")
  BY StoreCallOf
<1>2. StoreCalls' = StoreCalls
  BY DEF StoreCalls
<1>3. Store!Answer(t, ok, {})
  BY <1>2 DEF Store!Answer, StoreCalls, Decide
<1>4. ThePair(t) = <<StoreCalls[t].key, StoreCalls[t].value>> /\ ThePair(t)[1] = call[t].key
  BY <1>1 DEF ThePair
<1>5. CASE ok
  <2>1. ok = TRUE
    BY <1>5
  <2> QED BY <1>1, <1>3, <1>4, <1>5, <2>1, StoreSteps DEF Store!Insert, StoreCalls, StorePairs
<1>6. CASE ~ok
  <2>1. ok = FALSE
    BY <1>6
  <2> QED BY <1>1, <1>3, <1>4, <1>6, <2>1, StoreSteps DEF Store!Insert, StoreCalls, StorePairs
<1> QED BY <1>5, <1>6

LEMMA StoreRemoves ==
  ASSUME Running, NEW t \in Threads, at[t] # "idle", call[t].op = "Remove", answer[t] = Pending,
         call' = call, Decide(t, ThePair(t) \in StorePairs, {}),
         StorePairs' = StorePairs \ {ThePair(t)}
  PROVE  Store!Next
<1>1. StoreCalls[t] = call[t] /\ Store!In(t, "Remove")
  BY StoreCallOf
<1>2. StoreCalls' = StoreCalls
  BY DEF StoreCalls
<1>3. Store!Answer(t, ThePair(t) \in StorePairs, {})
  BY <1>2 DEF Store!Answer, StoreCalls, Decide
<1>4. ThePair(t) = <<StoreCalls[t].key, StoreCalls[t].value>>
  BY <1>1 DEF ThePair
<1> QED BY <1>1, <1>3, <1>4, StoreSteps DEF Store!Remove, StoreCalls, StorePairs

(* A call that was answered returns, GetGlobalDepth without the store.     *)
LEMMA StoreReturns ==
  ASSUME Running, NEW t \in Threads, at[t] # "idle", Return(t), StorePairs' = StorePairs,
         call[t].op = "GetGlobalDepth" <=> answer[t] = Pending
  PROVE  Store!Next \/ UNCHANGED Store!vars
<1>1. call[t] \in Calls /\ call \in [Threads -> Calls \union {NoCall}]
  BY CallOf DEF Running, TypeOK
<1>2. /\ call' = [call EXCEPT ![t] = NoCall]
      /\ answer' = [answer EXCEPT ![t] = Pending]
  BY DEF Return
<1>3. NoCall \notin [op : {"GetGlobalDepth"}]
  BY CallAssumption DEF Calls
<1>4. StoreCalls' = [StoreCalls EXCEPT ![t] = NoCall]
  BY <1>1, <1>2, <1>3 DEF StoreCalls
<1>5. CASE call[t].op = "GetGlobalDepth"
  <2>1. StoreCalls[t] = NoCall
    BY <1>1, <1>5, CallFields DEF StoreCalls
  <2>2. StoreCalls' = StoreCalls
    BY <1>4, <2>1 DEF StoreCalls
  <2>3. answer \in [Threads -> [ok : BOOLEAN, found : SUBSET Values] \union {Pending}]
    BY DEF Running, TypeOK
  <2>4. answer' = answer
    BY <1>2, <1>5, <2>3
  <2> QED BY <2>2, <2>4, StoreStutters
<1>6. CASE call[t].op # "GetGlobalDepth"
  <2>1. StoreCalls[t] # NoCall
    BY <1>6, StoreCallOf
  <2>2. Store!Return(t)
    BY <1>2, <1>4, <1>6, <2>1 DEF Store!Return, StoreCalls, StorePairs
  <2> QED BY <2>2, StoreSteps
<1> QED BY <1>5, <1>6
-----------------------------------------------------------------------------
LEMMA BeginsInStore ==
  ASSUME Running, NEW t \in Threads, NEW c \in Calls, Begin(t, c)
  PROVE  Store!Next \/ UNCHANGED Store!vars
<1>1. call[t] = NoCall /\ call \in [Threads -> Calls \union {NoCall}]
  BY DEF Begin, At, Running, TypeOK, LocalsFit
<1>2. call' = [call EXCEPT ![t] = c] /\ UNCHANGED <<bucket, answer>>
  BY DEF Begin, contentVars
<1>3. StorePairs' = StorePairs
  BY <1>2 DEF StorePairs
<1>4. NoCall \notin [op : {"GetGlobalDepth"}]
  BY CallAssumption DEF Calls
<1>5. StoreCalls[t] = NoCall
  BY <1>1, <1>4 DEF StoreCalls
<1>6. CASE c \in [op : {"GetGlobalDepth"}]
  <2>1. StoreCalls' = StoreCalls
    BY <1>1, <1>2, <1>4, <1>6 DEF StoreCalls
  <2> QED BY <1>2, <1>3, <2>1, StoreStutters
<1>7. CASE c \notin [op : {"GetGlobalDepth"}]
  <2>1. c \in Store!Calls
    BY <1>7 DEF Calls, Store!Calls
  <2>2. StoreCalls' = [StoreCalls EXCEPT ![t] = c]
    BY <1>1, <1>2, <1>7 DEF StoreCalls
  <2>3. Store!Begin(t, c)
    BY <1>2, <1>3, <1>5, <2>2 DEF Store!Begin, StoreCalls, StorePairs
  <2> QED BY <2>1, <2>3 DEF Store!Next
<1> QED BY <1>6, <1>7

(* A reader has the right page, so what is in it is in the store.          *)
LEMMA ScannerSees ==
  ASSUME Running, NEW t \in Threads, at[t] = "scan"
  PROVE  /\ answer[t] = Pending
         /\ call[t].key \in Keys
         /\ \A v \in Values : <<call[t].key, v>> \in bucket[page[t]]
                                <=> <<call[t].key, v>> \in StorePairs
         /\ call[t].op \in {"Insert", "Remove"} =>
              (ThePair(t) \in bucket[page[t]] <=> ThePair(t) \in StorePairs)
<1>1. LocalsFit(t) /\ PageIdIsCurrent
  BY DEF Running
<1>2. answer[t] = Pending /\ call[t].op # "GetGlobalDepth" /\ page[t] # DirectoryId
  BY <1>1 DEF LocalsFit, HasPage
<1>3. call[t].key \in Keys /\ (call[t].op \in {"Insert", "Remove"} => call[t].value \in Values)
  BY <1>2, CallOf
<1>4. page[t] = KeyToPageId(call[t].key)
  BY <1>1, <1>2 DEF PageIdIsCurrent
<1>5. \A v \in Values : <<call[t].key, v>> \in bucket[page[t]]
                          <=> <<call[t].key, v>> \in StorePairs
  BY <1>3, <1>4, StoreHas
<1> QED BY <1>2, <1>3, <1>5 DEF ThePair

LEMMA GetsFromStore ==
  ASSUME Running, NEW t \in Threads, GetValue(t)
  PROVE  Store!Next
<1>1. at[t] = "scan" /\ call[t].op = "GetValue"
  BY DEF GetValue, Scans, At
<1>2. StoreCalls[t] = call[t] /\ Store!In(t, "GetValue")
  BY <1>1, StoreCallOf, ScannerSees
<1>3. call' = call /\ bucket' = bucket
  BY DEF GetValue, Found, contentVars
<1>4. StoreCalls' = StoreCalls /\ StorePairs' = StorePairs
  BY <1>3 DEF StoreCalls, StorePairs
<1>5. PICK values : values = {v \in Values : <<call[t].key, v>> \in bucket[page[t]]}
  OBVIOUS
<1>6. values = {v \in Values : <<StoreCalls[t].key, v>> \in StorePairs}
  BY <1>1, <1>2, <1>5, ScannerSees
<1>7. Decide(t, values # {}, values)
  BY <1>5 DEF GetValue
<1>8. Store!Answer(t, values # {}, values)
  BY <1>4, <1>7 DEF Store!Answer, StoreCalls, Decide
<1>9. Store!GetValue(t)
  BY <1>2, <1>4, <1>6, <1>8 DEF Store!GetValue, StoreCalls, StorePairs
<1> QED BY <1>9, StoreSteps

(* Insert and Remove that change nothing, and those that write.            *)
LEMMA ScansInStore ==
  ASSUME Running, NEW t \in Threads, InsertScans(t) \/ RemoveScans(t)
  PROVE  Store!Next \/ UNCHANGED Store!vars
<1>1. at[t] = "scan"
  BY DEF InsertScans, RemoveScans, Scans, At
<1>2. call' = call /\ bucket' = bucket
  BY DEF InsertScans, RemoveScans, Found, contentVars
<1>3. StoreCalls' = StoreCalls /\ StorePairs' = StorePairs
  BY <1>2 DEF StoreCalls, StorePairs
<1>4. answer[t] = Pending
  BY <1>1, ScannerSees
<1>5. CASE answer' = answer
  BY <1>3, <1>5, StoreStutters
<1>6. CASE InsertScans(t) /\ answer' # answer
  <2>1. call[t].op = "Insert"
    BY <1>6 DEF InsertScans, Scans
  <2>2. ThePair(t) \in bucket[page[t]] /\ Decide(t, FALSE, {})
    BY <1>6 DEF InsertScans
  <2>3. ThePair(t) \in StorePairs
    BY <1>1, <2>1, <2>2, ScannerSees
  <2> QED BY <1>1, <1>2, <1>3, <1>4, <2>1, <2>2, <2>3, StoreInserts
<1>7. CASE RemoveScans(t) /\ answer' # answer
  <2>1. call[t].op = "Remove"
    BY <1>7 DEF RemoveScans, Scans
  <2>2. ThePair(t) \notin bucket[page[t]] /\ Decide(t, FALSE, {})
    BY <1>7 DEF RemoveScans
  <2>3. (ThePair(t) \in StorePairs) = FALSE
    BY <1>1, <2>1, <2>2, ScannerSees
  <2>4. Decide(t, ThePair(t) \in StorePairs, {})
    BY <2>2, <2>3
  <2>5. StorePairs' = StorePairs \ {ThePair(t)}
    BY <1>3, <2>3
  <2> QED BY <1>1, <1>2, <1>4, <2>1, <2>4, <2>5, StoreRemoves
<1> QED BY <1>5, <1>6, <1>7

LEMMA WritesInStore ==
  ASSUME Running, NEW t \in Threads, Write(t)
  PROVE  Store!Next
<1>1. at[t] = "write" /\ answer[t] = Pending /\ call' = call /\ Decide(t, TRUE, {})
  BY DEF Write, At, Running, LocalsFit
<1>2. /\ page[t] \in BucketIds /\ KeyToPageId(call[t].key) = page[t]
      /\ ThePair(t) \in Pairs
  BY WriterKnows
<1>3. PICK p \in BucketIds, x \in Pairs :
        /\ p = page[t] /\ x = ThePair(t) /\ KeyToPageId(x[1]) = p
  BY <1>2 DEF ThePair
<1>4. x \in StorePairs <=> x \in bucket[p]
  <2>1. x = <<call[t].key, call[t].value>> /\ call[t].key \in Keys /\ call[t].value \in Values
    BY <1>3 DEF ThePair, Pairs
  <2> QED BY <1>2, <1>3, <2>1, StoreHas
<1>5. CASE call[t].op = "Insert"
  <2>1. x \notin bucket[p]
    BY <1>3, <1>5, WriterKnows
  <2>2. bucket' = [bucket EXCEPT ![p] = @ \union {x}]
    BY <1>3, <1>5 DEF Write
  <2>3. StorePairs' = StorePairs \union {x}
    BY <1>3, <2>2, StoreChanges
  <2> QED BY <1>1, <1>3, <1>4, <1>5, <2>1, <2>3, StoreInserts
<1>6. CASE call[t].op = "Remove"
  <2>1. (x \in StorePairs) = TRUE
    BY <1>3, <1>4, <1>6, WriterKnows
  <2>2. bucket' = [bucket EXCEPT ![p] = @ \ {x}]
    BY <1>3, <1>6 DEF Write
  <2>3. StorePairs' = StorePairs \ {x}
    BY <1>3, <2>2, StoreChanges
  <2>4. Decide(t, ThePair(t) \in StorePairs, {})
    BY <1>1, <1>3, <2>1
  <2> QED BY <1>1, <1>3, <1>6, <2>3, <2>4, StoreRemoves
<1> QED BY <1>5, <1>6, WriterKnows

(* SplitInsert, when it does not split.                                    *)
LEMMA SplitInsertsInStore ==
  ASSUME Running, NEW t \in Threads, SplitFindsRoom(t) \/ SplitRefused(t)
  PROVE  Store!Next
<1>1. at[t] = "split" /\ call' = call
  BY DEF SplitFindsRoom, SplitRefused, Alone, At
<1>2. answer[t] = Pending
  BY <1>1 DEF Running, LocalsFit
<1>3. call[t].op = "Insert"
  BY <1>1, SplitInserts
<1>4. CASE SplitRefused(t)
  <2>1. Decide(t, FALSE, {}) /\ bucket' = bucket
    BY <1>4 DEF SplitRefused, contentVars
  <2>2. StorePairs' = StorePairs
    BY <2>1 DEF StorePairs
  <2>3. Store!Crowded(call[t].key)
    BY <1>4, RefusedIsCrowded
  <2> QED BY <1>1, <1>2, <1>3, <2>1, <2>2, <2>3, StoreInserts
<1>5. CASE SplitFindsRoom(t)
  <2>1. PICK p \in BucketIds, x \in Pairs :
          /\ p = PageOf(t) /\ x = ThePair(t) /\ KeyToPageId(x[1]) = p
    BY <1>1, SplitInserts DEF ThePair
  <2>2. x \in StorePairs <=> x \in bucket[p]
    <3>1. /\ x = <<call[t].key, call[t].value>>
          /\ call[t].key \in Keys /\ call[t].value \in Values
          /\ KeyToPageId(call[t].key) = p
      BY <2>1 DEF ThePair, Pairs
    <3> QED BY <3>1, StoreHas
  <2>3. bucket' = [bucket EXCEPT ![p] = @ \union {x}]
    BY <1>5, <2>1 DEF SplitFindsRoom
  <2>4. StorePairs' = StorePairs \union {x}
    BY <2>1, <2>3, StoreChanges
  <2>5. Decide(t, x \notin bucket[p], {})
    BY <1>5, <2>1 DEF SplitFindsRoom
  <2>6. CASE x \in bucket[p]
    <3>1. (x \notin bucket[p]) = FALSE
      BY <2>6
    <3>2. Decide(t, FALSE, {}) /\ StorePairs' = StorePairs
      BY <2>2, <2>4, <2>5, <2>6, <3>1
    <3> QED BY <1>1, <1>2, <1>3, <2>1, <2>2, <2>6, <3>2, StoreInserts
  <2>7. CASE x \notin bucket[p]
    <3>1. (x \notin bucket[p]) = TRUE
      BY <2>7
    <3>2. Decide(t, TRUE, {})
      BY <2>5, <3>1
    <3> QED BY <1>1, <1>2, <1>3, <2>1, <2>2, <2>4, <2>7, <3>2, StoreInserts
  <2> QED BY <2>6, <2>7
<1> QED BY <1>4, <1>5

LEMMA ReturnsInStore ==
  ASSUME Running, NEW t \in Threads,
         Unlatch(t) \/ ReturnSplit(t) \/ MergeNothing(t) \/ MergeBuckets(t)
  PROVE  Store!Next \/ UNCHANGED Store!vars
<1>1. bucket' = bucket /\ at[t] \in {"unlatch", "return", "merge"}
  BY DEF Unlatch, ReturnSplit, MergeNothing, MergeBuckets, contentVars, Alone, At
<1>2. StorePairs' = StorePairs
  BY <1>1 DEF StorePairs
<1>3. LocalsFit(t)
  BY DEF Running
<1>4. call[t].op \in {"GetValue", "Insert", "Remove", "GetGlobalDepth"}
  BY <1>1, CallOf
<1>5. CASE Return(t)
  <2>1. call[t].op = "GetGlobalDepth" <=> answer[t] = Pending
    <3>1. CASE Unlatch(t)
      <4>1. at[t] = "unlatch"
        BY <3>1 DEF Unlatch, At
      <4>2. call[t].op = "Insert" => answer[t] # Pending
        <5> SUFFICES ASSUME call[t].op = "Insert", answer[t] = Pending PROVE FALSE
          OBVIOUS
        <5>1. Goto(t, "split")
          BY <3>1 DEF Unlatch, Callee
        <5>2. at \in [Threads -> {"idle", "enter", "fetch", "latch", "scan", "write",
                                  "unpin", "unlatch", "split", "merge", "return"}]
          BY DEF Running, TypeOK
        <5> QED BY <1>5, <5>1, <5>2 DEF Return, Goto
      <4> QED BY <1>3, <1>4, <4>1, <4>2 DEF LocalsFit
    <3>2. CASE ~Unlatch(t)
      <4>1. at[t] \in {"return", "merge"}
        BY <3>2 DEF ReturnSplit, MergeNothing, MergeBuckets, Alone, At
      <4> QED BY <1>3, <4>1 DEF LocalsFit
    <3> QED BY <3>1, <3>2
  <2> QED BY <1>1, <1>2, <1>5, <2>1, StoreReturns
<1>6. CASE ~Return(t)
  <2>1. UNCHANGED <<call, answer>>
    BY <1>6 DEF Unlatch, ReturnSplit, MergeNothing, MergeBuckets
  <2>2. StoreCalls' = StoreCalls
    BY <2>1 DEF StoreCalls
  <2> QED BY <1>2, <2>1, <2>2, StoreStutters
<1> QED BY <1>5, <1>6

(* Every other step leaves the store as it is.                             *)
LEMMA RestOfSteps ==
  ASSUME Running, NEW t \in Threads, Step(t)
  PROVE  \/ StorePairs' = StorePairs /\ call' = call /\ answer' = answer
         \/ \E c \in Calls : Begin(t, c)
         \/ GetValue(t) \/ InsertScans(t) \/ RemoveScans(t) \/ Write(t)
         \/ SplitFindsRoom(t) \/ SplitRefused(t)
         \/ Unlatch(t) \/ ReturnSplit(t) \/ MergeNothing(t) \/ MergeBuckets(t)
<1>1. CASE SplitBucket(t)
  <2>1. StorePairs' = StorePairs
    BY <1>1, SplitKeepsPairs DEF StorePairs
  <2> QED BY <1>1, <2>1 DEF SplitBucket
<1>2. CASE bucket' = bucket /\ call' = call /\ answer' = answer
  BY <1>2 DEF StorePairs
<1> QED BY <1>1, <1>2
        DEF Step, Enter, FetchBucketPage, InsertFindsFull, Found, Unpin, Latch, SplitInsert, Merge,
            contentVars

LEMMA StepsAreStoreSteps == IInv /\ [Next]_vars => Store!Next \/ UNCHANGED Store!vars
<1> SUFFICES ASSUME IInv, [Next]_vars PROVE Store!Next \/ UNCHANGED Store!vars
  OBVIOUS
<1>1. ASSUME bucket' = bucket, call' = call, answer' = answer PROVE UNCHANGED Store!vars
  BY <1>1, StoreStutters DEF StorePairs, StoreCalls
<1>2. ASSUME ~aborted, NEW t \in Threads, Step(t) PROVE Store!Next \/ UNCHANGED Store!vars
  <2>1. Running
    BY <1>2 DEF IInv
  <2>2. CASE StorePairs' = StorePairs /\ call' = call /\ answer' = answer
    BY <2>2, StoreStutters DEF StoreCalls
  <2> QED BY <1>2, <2>1, <2>2, RestOfSteps, BeginsInStore, GetsFromStore, ScansInStore,
             WritesInStore, SplitInsertsInStore, ReturnsInStore
<1>3. ASSUME NEW t \in Threads, Aborts(t) PROVE UNCHANGED Store!vars
  BY <1>1, <1>3 DEF Aborts, FetchAborts, WriterAborts, SplitAborts, contentVars, threadVars
<1>4. ASSUME NEW n \in 0 .. OtherPins, OthersPin(n) PROVE UNCHANGED Store!vars
  BY <1>1, <1>4 DEF OthersPin, contentVars, threadVars
<1>5. CASE UNCHANGED vars
  BY <1>1, <1>5 DEF vars, contentVars, threadVars
<1> QED BY <1>2, <1>3, <1>4, <1>5, NextCases

(* The hash table is linearizable: whatever its threads do at the same     *)
(* time, every call takes effect at one point between its begin and its    *)
(* return, on one set of pairs, and Insert refuses a new pair only when a  *)
(* whole bucket is filled with pairs of hashes that cannot be told apart.  *)
THEOREM ImplementsPairStore == Spec => IsPairStore
<1>1. Init => Store!Init
  <2> SUFFICES ASSUME Init PROVE Store!Init
    OBVIOUS
  <2>1. NoCall \notin [op : {"GetGlobalDepth"}]
    BY CallAssumption DEF Calls
  <2>2. StorePairs = {}
    BY DEF Init, StorePairs
  <2>3. StoreCalls = [t \in Threads |-> NoCall]
    BY <2>1 DEF Init, StoreCalls
  <2> QED BY <2>2, <2>3 DEF Init, Store!Init, StorePairs, StoreCalls
<1>2. IInv /\ [Next]_vars => [Store!Next]_(Store!vars)
  BY StepsAreStoreSteps
<1> QED BY <1>1, <1>2, Invariance, PTL DEF Spec, IsPairStore, Store!Spec
=============================================================================
