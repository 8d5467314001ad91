------------------------- MODULE ExtendibleHashTable -------------------------
(***************************************************************************)
(* ExtendibleHashTable called by several threads: GetValue, Insert and     *)
(* Remove under the table latch in read mode and the latch of one bucket   *)
(* page, SplitInsert and Merge under the table latch in write mode.        *)
(*                                                                         *)
(* The latches are reader-writer latches.  Who holds them can be read off  *)
(* from where the threads are.  A thread with the table latch in write     *)
(* mode is alone in the table, so what it does is one step.                *)
(*                                                                         *)
(* A bucket page is the set of pairs that HashTableBucketPage implements.  *)
(* Of the buffer pool this module keeps the pins, by which it may refuse a *)
(* page, and the pages with changes that nobody has marked dirty.          *)
(*                                                                         *)
(* The program is the one in which assert is compiled: all calls of        *)
(* UnpinPage are arguments of assert, and a page that was refused ends it. *)
(***************************************************************************)
EXTENDS HashTableDirectoryPage

CONSTANTS Threads,
          Keys,
          Values,
          Hash,       \* Hash[k]: the low bits of Hash(k), as many as can be used
          BucketSize, \* BUCKET_ARRAY_SIZE
          PoolSize,   \* the frames of buffer_pool_manager_
          OtherPins,  \* bound: so many of them are pinned by others at a time
          NoCall,     \* call[t] when t is not in the table
          Pending     \* answer[t] before it is decided

Pairs == Keys \X Values

ASSUME TableAssumption == /\ BucketIds \subseteq Nat \ {0}
                          /\ IsFiniteSet(BucketIds)
                          /\ Cardinality(BucketIds) >= 2 ^ MaxDepth
                          /\ IsFiniteSet(Threads)
                          /\ Hash \in [Keys -> 0 .. 2 ^ MaxDepth - 1]
                          /\ BucketSize \in Nat \ {0}
                          /\ PoolSize \in Nat
                          /\ OtherPins \in 0 .. PoolSize

(* directory_page_id_, the first page the constructor makes.               *)
DirectoryId == 0

Pages == BucketIds \union {DirectoryId}

VARIABLES dir,     \* the directory page
          bucket,  \* the bucket pages
          pins,    \* how often each page is pinned
          others,  \* the number of frames that others have pinned
          unsaved, \* the pages with changes that are not marked dirty
          call,    \* the call a thread is in
          at,      \* where in it the thread is
          page,    \* its local bucket_page_id, DirectoryId when it has none
          answer,  \* its local res
          aborted  \* an assertion that the pool gave a page has failed

contentVars == <<dir, bucket>>
poolVars == <<pins, others, unsaved>>
threadVars == <<call, at, page, answer>>
vars == <<contentVars, poolVars, threadVars, aborted>>

(* The constructor got its two pages, and has unpinned them.               *)
Init == /\ dir = NewDirectory(Min(BucketIds))
        /\ bucket = [p \in BucketIds |-> {}]
        /\ pins = [p \in Pages |-> 0]
        /\ others = 0
        /\ unsaved = {}
        /\ call = [t \in Threads |-> NoCall]
        /\ at = [t \in Threads |-> "idle"]
        /\ page = [t \in Threads |-> DirectoryId]
        /\ answer = [t \in Threads |-> Pending]
        /\ aborted = FALSE
-----------------------------------------------------------------------------
Pinned == {p \in Pages : pins[p] > 0}

(* FetchPage and NewPage find a frame for every page of P.  The frames are *)
(* those of one BufferPoolManagerInstance.                                 *)
CanPin(P) == Cardinality(Pinned \union P) + others <= PoolSize

(* Other users of the pool pin and unpin their pages.                      *)
OthersPin(n) == /\ ~aborted
                /\ n # others
                /\ Cardinality(Pinned) + n <= PoolSize
                /\ others' = n
                /\ UNCHANGED <<contentVars, pins, unsaved, threadVars, aborted>>

(* A step fetches some pages and unpins some, those in dirty with is_dirty *)
(* set.                                                                    *)
PoolCalls(fetched, unpinned, dirty) ==
  LET Changed == {p \in BucketIds : bucket'[p] # bucket[p]}
                   \union {p \in {DirectoryId} : dir' # dir}
      One(P, p) == IF p \in P THEN 1 ELSE 0
  IN  /\ pins' = [p \in Pages |-> pins[p] + One(fetched, p) - One(unpinned, p)]
      /\ unsaved' = (unsaved \union Changed) \ (unpinned \intersect dirty)
      /\ UNCHANGED others

(* Thread t has come to a place, and no assertion has ended the program.   *)
At(t, place) == at[t] = place /\ ~aborted

Goto(t, place) == at' = [at EXCEPT ![t] = place]

Decide(t, success, values) ==
  answer' = [answer EXCEPT ![t] = [ok |-> success, found |-> values]]

KeyToDirectoryIndex(k) == HashToIndex(dir, Hash[k])

KeyToPageId(k) == dir.bucket_page_ids[KeyToDirectoryIndex(k)]

(* The threads with the table latch in read mode, ...                      *)
Readers == {t \in Threads : at[t] \in 
              {"fetch", "latch", "scan", "write", "unpin", "unlatch"}}

(* ... and those with the latch of the frame that holds bucket page p.  A  *)
(* thread gives the latch back after it unpinned the page, when the pool   *)
(* may have given the frame to another page: it excludes nobody from p.    *)
BucketHolders(p) == {t \in Readers : page[t] = p /\ at[t] \notin {"latch", "unlatch"}}

Exclusive(t) == call[t].op # "GetValue"

Return(t) == /\ call' = [call EXCEPT ![t] = NoCall]
             /\ answer' = [answer EXCEPT ![t] = Pending]
             /\ Goto(t, "idle")
-----------------------------------------------------------------------------
Calls == [op : {"GetValue"}, key : Keys]
           \union [op : {"Insert", "Remove"}, key : Keys, value : Values]
           \union [op : {"GetGlobalDepth"}]

ASSUME CallAssumption == /\ NoCall \notin Calls
                         /\ Pending \notin [ok : BOOLEAN, found : SUBSET Values]

Begin(t, c) == /\ At(t, "idle")
               /\ call' = [call EXCEPT ![t] = c]
               /\ Goto(t, "enter")
               /\ UNCHANGED <<contentVars, poolVars, page, answer, aborted>>

(* table_latch_.RLock(), FetchDirectoryPage().  GetGlobalDepth and         *)
(* VerifyIntegrity need no more than that page.                            *)
Enter(t) == /\ At(t, "enter")
            /\ CanPin({DirectoryId})
            /\ Goto(t, IF call[t].op = "GetGlobalDepth" THEN "unpin" ELSE "fetch")
            /\ UNCHANGED <<contentVars, call, page, answer, aborted>>
            /\ PoolCalls({DirectoryId}, {}, {})

FetchBucketPage(t) ==
  LET p == KeyToPageId(call[t].key)
  IN  /\ At(t, "fetch")
      /\ CanPin({p})
      /\ page' = [page EXCEPT ![t] = p]
      /\ Goto(t, "latch")
      /\ UNCHANGED <<contentVars, call, answer, aborted>>
      /\ PoolCalls({p}, {}, {})

(* The pool has no frame for the page: the assertion on it fails.          *)
FetchAborts(t) ==
  /\ \/ At(t, "enter") /\ ~CanPin({DirectoryId})
     \/ At(t, "fetch") /\ ~CanPin({KeyToPageId(call[t].key)})
  /\ aborted' = TRUE
  /\ UNCHANGED <<contentVars, poolVars, threadVars>>

(* A mutation of Excludes: a read latch where a write latch is due.        *)
ExcludesNone(t, u) == FALSE

Excludes(t, u) == Exclusive(t) \/ Exclusive(u)

(* page->RLatch() or page->WLatch() of the bucket page.                    *)
Latch(t) == /\ At(t, "latch")
            /\ ~ \E u \in BucketHolders(page[t]) : Excludes(t, u)
            /\ Goto(t, "scan")
            /\ UNCHANGED <<contentVars, poolVars, call, page, answer, aborted>>
-----------------------------------------------------------------------------
Full(p) == Cardinality(bucket[p]) >= BucketSize

ThePair(t) == <<call[t].key, call[t].value>>

(* Thread t looks through its bucket page, with the latch, and goes on.    *)
Scans(t, op) == At(t, "scan") /\ call[t].op = op

Found(t, next) == /\ Goto(t, next)
                  /\ UNCHANGED <<contentVars, poolVars, call, page, aborted>>

GetValue(t) ==
  /\ Scans(t, "GetValue")
  /\ LET values == {v \in Values : <<call[t].key, v>> \in bucket[page[t]]}
     IN  Decide(t, values # {}, values)
  /\ Found(t, "unpin")

(* Insert finds a full bucket, which is left for SplitInsert, ...          *)
InsertFindsFull(t) == /\ Scans(t, "Insert")
                      /\ Full(page[t])
                      /\ UNCHANGED answer
                      /\ Found(t, "unpin")

(* ... or the pair itself, or a slot for it.                               *)
InsertScans(t) ==
  /\ Scans(t, "Insert")
  /\ ~Full(page[t])
  /\ IF ThePair(t) \in bucket[page[t]]
       THEN Decide(t, FALSE, {}) /\ Found(t, "unpin")
       ELSE UNCHANGED answer /\ Found(t, "write")

RemoveScans(t) ==
  /\ Scans(t, "Remove")
  /\ IF ThePair(t) \in bucket[page[t]]
       THEN UNCHANGED answer /\ Found(t, "write")
       ELSE Decide(t, FALSE, {}) /\ Found(t, "unpin")

(* The pair is written to the bucket page, or its readable bit is reset.   *)
Write(t) ==
  /\ At(t, "write")
  /\ bucket' = [bucket EXCEPT ![page[t]] =
       IF call[t].op = "Insert" THEN @ \union {ThePair(t)} ELSE @ \ {ThePair(t)}]
  /\ Decide(t, TRUE, {})
  /\ Goto(t, "unpin")
  /\ UNCHANGED <<dir, call, page, aborted>>
  /\ PoolCalls({}, {}, {})

(* A mutation of MarksDirty: Remove unpins its page as GetValue does.      *)
MarksDirtyOnInsert(t) == call[t].op = "Insert" /\ answer[t] # Pending

(* Insert, when it did not find the bucket full, and Remove.               *)
MarksDirty(t) == \/ call[t].op = "Insert" /\ answer[t] # Pending
                 \/ call[t].op = "Remove"

(* A mutation of Fetched: the directory page is forgotten.                 *)
FetchedBucket(t) == {page[t]}

Fetched(t) == {DirectoryId, page[t]}

(* Both pages are unpinned, before the latch of the bucket is given back.  *)
Unpin(t) ==
  /\ At(t, "unpin")
  /\ Goto(t, "unlatch")
  /\ UNCHANGED <<contentVars, call, page, answer, aborted>>
  /\ PoolCalls({}, Fetched(t), IF MarksDirty(t) THEN {page[t]} ELSE {})

(* A mutation of Callee: Insert tries again until the bucket has room.     *)
CalleeRetries(t) == IF call[t].op = "Remove" THEN "merge" ELSE "enter"

(* Remove calls Merge, Insert calls SplitInsert if the bucket was full.    *)
Callee(t) == IF call[t].op = "Remove" THEN "merge" ELSE "split"

(* Both latches are released.                                              *)
Unlatch(t) ==
  LET callsOn == \/ call[t].op = "Remove"
                 \/ call[t].op = "Insert" /\ answer[t] = Pending
  IN  /\ At(t, "unlatch")
      /\ page' = [page EXCEPT ![t] = DirectoryId]
      /\ IF callsOn THEN Goto(t, Callee(t)) /\ UNCHANGED <<call, answer>>
                    ELSE Return(t)
      /\ UNCHANGED <<contentVars, poolVars, aborted>>
-----------------------------------------------------------------------------
(* A mutation of Alone: the table latch is not taken.                      *)
Unlatched(t, place) == At(t, place)

(* A thread in function place gets the table latch in write mode.          *)
Alone(t, place) == At(t, place) /\ Readers = {}

(* bucket_idx and bucket_page_id of SplitInsert and Merge.                 *)
IndexOf(t) == KeyToDirectoryIndex(call[t].key)
PageOf(t) == KeyToPageId(call[t].key)

(* SplitInsert finds that the bucket is not full any more.                 *)
SplitFindsRoom(t) ==
  LET Both == {DirectoryId, PageOf(t)}
  IN  /\ Alone(t, "split")
      /\ CanPin(Both)
      /\ ~Full(PageOf(t))
      /\ bucket' = [bucket EXCEPT ![PageOf(t)] = @ \union {ThePair(t)}]
      /\ Decide(t, ThePair(t) \notin bucket[PageOf(t)], {})
      /\ Goto(t, "return")
      /\ UNCHANGED <<dir, call, page, aborted>>
      /\ PoolCalls(Both, Both, {PageOf(t)})

(* The bucket is full and the directory cannot grow: Insert fails.         *)
SplitRefused(t) ==
  LET Both == {DirectoryId, PageOf(t)}
  IN  /\ Alone(t, "split")
      /\ CanPin(Both)
      /\ Full(PageOf(t))
      /\ CannotSplit(dir, IndexOf(t))
      /\ Decide(t, FALSE, {})
      /\ Goto(t, "return")
      /\ UNCHANGED <<contentVars, call, page, aborted>>
      /\ PoolCalls(Both, Both, {})

(* The id NewPage gives out.  The table keeps no id of a page it deleted,  *)
(* so the ids are taken to be used again.                                  *)
NewPageId == Min(BucketIds \ {dir.bucket_page_ids[i] : i \in Indices(dir)})

(* The pairs of page p that the directory now leads to another page.       *)
Movers(p) == {x \in bucket[p] :
                dir'.bucket_page_ids[HashToIndex(dir', Hash[x[1]])] # p}

(* A mutation of Unpinned: the split image stays pinned.                   *)
UnpinnedButImage(p, image) == {DirectoryId, p}

(* What SplitInsert unpins, each page dirty.                               *)
Unpinned(p, image) == {DirectoryId, p, image}

(* The bucket is split, and Insert is called again.                        *)
SplitBucket(t) ==
  LET p == PageOf(t)
      image == NewPageId
  IN  /\ Alone(t, "split")
      /\ Full(p)
      /\ ~CannotSplit(dir, IndexOf(t))
      /\ CanPin({DirectoryId, p, image})
      /\ dir' = SplitDirectory(dir, IndexOf(t), image)
      /\ bucket' = [bucket EXCEPT ![p] = @ \ Movers(p), ![image] = Movers(p)]
      /\ Goto(t, "enter")
      /\ UNCHANGED <<call, page, answer, aborted>>
      /\ PoolCalls({DirectoryId, p, image}, Unpinned(p, image), Unpinned(p, image))
-----------------------------------------------------------------------------
(* A mutation of Mergeable: it does not ask whether the bucket is empty.   *)
MergeableAnyway(t) == CanMerge(dir, IndexOf(t))

(* Only an empty bucket is merged.                                         *)
Mergeable(t) == bucket[PageOf(t)] = {} /\ CanMerge(dir, IndexOf(t))

(* Merge, when it has nothing to do, ...                                   *)
MergeNothing(t) ==
  LET Both == {DirectoryId, PageOf(t)}
  IN  /\ Alone(t, "merge")
      /\ CanPin(Both)
      /\ ~Mergeable(t)
      /\ Return(t)
      /\ UNCHANGED <<contentVars, page, aborted>>
      /\ PoolCalls(Both, Both, {})

(* ... and when it deletes the page of the empty bucket, whose entries its *)
(* split image takes over.                                                 *)
MergeBuckets(t) ==
  LET Both == {DirectoryId, PageOf(t)}
  IN  /\ Alone(t, "merge")
      /\ CanPin(Both)
      /\ Mergeable(t)
      /\ dir' = MergeDirectory(dir, IndexOf(t))
      /\ Return(t)
      /\ UNCHANGED <<bucket, page, aborted>>
      /\ PoolCalls(Both, Both, {DirectoryId})

(* The pool has no frame for a page SplitInsert or Merge fetches.          *)
WriterAborts(t) ==
  LET Both == {DirectoryId, PageOf(t)}
  IN  /\ Alone(t, "split") \/ Alone(t, "merge")
      /\ aborted' = TRUE
      /\ UNCHANGED <<contentVars, threadVars>>
      /\ \/ ~CanPin({DirectoryId}) /\ UNCHANGED poolVars
         \/ CanPin({DirectoryId}) /\ ~CanPin(Both) /\ PoolCalls({DirectoryId}, {}, {})

(* It has none for the split image, when SplitInsert has already deepened  *)
(* the directory.                                                          *)
SplitAborts(t) ==
  LET Both == {DirectoryId, PageOf(t)}
  IN  /\ Alone(t, "split")
      /\ CanPin(Both)
      /\ Full(PageOf(t))
      /\ ~CannotSplit(dir, IndexOf(t))
      /\ ~CanPin(Both \union {NewPageId})
      /\ dir' = Deepened(dir, IndexOf(t))
      /\ aborted' = TRUE
      /\ UNCHANGED <<bucket, threadVars>>
      /\ PoolCalls(Both, {}, {})

ReturnSplit(t) == /\ At(t, "return")
                  /\ Return(t)
                  /\ UNCHANGED <<contentVars, poolVars, page, aborted>>
-----------------------------------------------------------------------------
SplitInsert(t) == SplitFindsRoom(t) \/ SplitRefused(t) \/ SplitBucket(t)

Merge(t) == MergeNothing(t) \/ MergeBuckets(t)

(* What a thread does without waiting for a bucket or for all others.      *)
GoOn(t) == \/ Enter(t) \/ FetchBucketPage(t) \/ FetchAborts(t)
           \/ GetValue(t) \/ InsertFindsFull(t) \/ InsertScans(t) \/ RemoveScans(t)
           \/ Write(t) \/ Unpin(t) \/ Unlatch(t) \/ ReturnSplit(t)

Wait(t) == Latch(t) \/ SplitInsert(t) \/ Merge(t) \/ WriterAborts(t) \/ SplitAborts(t)

(* Nothing more happens when an assertion has ended the program.           *)
Ended == aborted /\ UNCHANGED vars

Next == \/ \E t \in Threads : \/ \E c \in Calls : Begin(t, c)
                              \/ GoOn(t)
                              \/ Wait(t)
        \/ \E n \in 0 .. OtherPins : OthersPin(n)
        \/ Ended

(* A thread in the table goes on, and the latches starve nobody.           *)
Spec == /\ Init /\ [][Next]_vars
        /\ \A t \in Threads : WF_vars(GoOn(t)) /\ SF_vars(Wait(t))
-----------------------------------------------------------------------------
TypeOK == /\ IsDirectory(dir)
          /\ bucket \in [BucketIds -> SUBSET Pairs]
          /\ pins \in [Pages -> Nat]
          /\ others \in 0 .. OtherPins
          /\ unsaved \subseteq Pages
          /\ call \in [Threads -> Calls \union {NoCall}]
          /\ at \in [Threads -> {"idle", "enter", "fetch", "latch", "scan", "write",
                                 "unpin", "unlatch", "split", "merge", "return"}]
          /\ page \in [Threads -> Pages]
          /\ answer \in [Threads -> [ok : BOOLEAN, found : SUBSET Values] \union {Pending}]
          /\ aborted \in BOOLEAN

(* The page id a thread read from the directory is still the right one     *)
(* when it uses the page: no split or merge comes in between.              *)
PageIdIsCurrent == \A t \in Threads :
  page[t] # DirectoryId => page[t] = KeyToPageId(call[t].key)

(* Every pair is in the bucket page a search for its key looks at, no      *)
(* bucket page overflows, and a page that was deleted held no pair.  That  *)
(* holds of the directory an aborted SplitInsert leaves as well.           *)
PairsAreFindable == \A p \in BucketIds :
  /\ Cardinality(bucket[p]) <= BucketSize
  /\ \A x \in bucket[p] : KeyToPageId(x[1]) = p

(* A page is pinned exactly as often as threads are using it, so all pins  *)
(* are given back on every path through a call that no assertion ends.     *)
PinsAreReturned == aborted \/ \A p \in Pages :
  pins[p] = Cardinality({t \in Readers : at[t] # "unlatch" /\ p \in {DirectoryId, page[t]}})

(* Every change is marked dirty before the last pin on its page is given   *)
(* up: evicting a page at any time loses no pair, and writes no directory  *)
(* that is only half changed.                                              *)
ChangesAreMarked == \A p \in unsaved : pins[p] > 0

(* The table ends the program only when others use so many frames of the  *)
(* pool that too few are left for what its threads have to pin: one page   *)
(* each and the directory page, or the three pages SplitInsert pins.       *)
AbortsOnlyWhenExhausted == aborted =>
  \/ others + Cardinality(Threads) + 1 > PoolSize
  \/ others + 3 > PoolSize

(* When the pool refuses Insert a page, the insertion fails: it does not   *)
(* end the program.                                                        *)
PoolErrorFailsInsert == [][\A t \in Threads :
  FetchAborts(t) \/ WriterAborts(t) \/ SplitAborts(t) => call[t].op # "Insert"]_vars

(* The table is linearizable: its buckets together are one set of pairs.   *)
Store == INSTANCE PairStore WITH
  pairs <- UNION {bucket[p] : p \in BucketIds},
  call <- [t \in Threads |-> IF call[t] \in [op : {"GetGlobalDepth"}] THEN NoCall ELSE call[t]]

IsPairStore == Store!Spec

(* A call returns, or ends the program, if the other threads begin no      *)
(* calls any more.  While they do, their Merge calls may undo its splits   *)
(* again and again.                                                        *)
CallsReturn == \A t \in Threads :
  <>[][\A u \in Threads \ {t} : call[u] = NoCall => call'[u] = NoCall]_vars
    => (at[t] # "idle" ~> at[t] = "idle" \/ aborted)
=============================================================================
