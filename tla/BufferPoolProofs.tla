-------------------------- MODULE BufferPoolProofs --------------------------
(***************************************************************************)
(* The buffer pool, for every pool size, every number of instances and     *)
(* every number of pages: first the pool, whatever calls it gets, then the *)
(* pool and its clients, for every finite set of threads.  Pins and        *)
(* pointers match, a pointer stays good, no write is lost, and the pool    *)
(* with its restarts is a durable page store.                              *)
(***************************************************************************)
EXTENDS BufferPoolClients, LRUListProofs

(* What every call keeps, whoever calls.  The parts need each other: that  *)
(* a list has room follows from where the frames are, and that a frame has *)
(* one page from the table.                                                *)
PoolInv == /\ TypeOK
           /\ FramesAccounted
           /\ PageTableExact
           /\ NoSelfDeadlock

(* The inductive invariant.  That a new page is not in the table follows   *)
(* from the fresh ids, in a pool that began on an empty disk.              *)
IInv == PoolInv /\ FreshIdsUnused

(* The frame the table names for a page holds that page.                   *)
LEMMA ResidentLemma ==
  ASSUME PoolInv, NEW p \in PageIds, page_table[p] # NoFrame
  PROVE  /\ page_table[p] \in Frames
         /\ page_id[page_table[p]] = p
         /\ p # INVALID_PAGE_ID
<1>1. page_table[p] \in Frames
  BY DEF PoolInv, TypeOK
<1>2. page_id[page_table[p]] = p
  BY <1>1 DEF PoolInv, PageTableExact
<1> QED BY <1>1, <1>2 DEF PageIds, INVALID_PAGE_ID

(* What a frame needs so that the pool hands it to page p.                 *)
LEMMA TakeLemma ==
  ASSUME PoolInv, NEW f \in Frames, NEW p \in PageIds, page_table[p] = NoFrame,
         TakeFree(f, p) \/ TakeVictim(f, p)
  PROVE  /\ pin_count[f] = 0
         /\ free_list # <<>> <=> page_id[f] = INVALID_PAGE_ID
         /\ replacer' \in Seq(Frames)
         /\ IsInjective(replacer')
         /\ Range(replacer') = Range(replacer) \ {f}
         /\ free_list' \in Seq(Frames)
         /\ IsInjective(free_list')
         /\ Range(free_list') = Range(free_list) \ {f}
         /\ page_table' \in [PageIds -> Frames \union {NoFrame}]
         /\ \A q \in PageIds, g \in Frames :
              page_table'[q] = g <=> IF g = f THEN q = p ELSE page_table[q] = g
         /\ \A q \in PageIds : q # p /\ page_table[q] = NoFrame => page_table'[q] = NoFrame
<1> USE DEF PoolInv, INVALID_PAGE_ID
<1>1. /\ replacer \in Seq(Frames) /\ IsInjective(replacer)
      /\ free_list \in Seq(Frames) /\ IsInjective(free_list)
      /\ page_table \in [PageIds -> Frames \union {NoFrame}]
  BY DEF TypeOK, FramesAccounted
<1>2. NoFrame \notin Frames
  BY PoolAssumption DEF Frames
<1>3. CASE TakeFree(f, p)
  <2>1. f \in Range(free_list)
    BY <1>1, <1>3, PopBackLemma DEF TakeFree
  <2>2. /\ free_list' \in Seq(Frames) /\ IsInjective(free_list')
        /\ Range(free_list') = Range(free_list) \ {f}
    BY <1>1, <1>3, PopBackLemma DEF TakeFree
  <2>3. /\ replacer' \in Seq(Frames) /\ IsInjective(replacer')
        /\ Range(replacer') = Range(replacer) \ {f}
    BY <1>1, <1>3, PinnedLemma DEF TakeFree, ReplacerPin
  <2>4. page_id[f] = INVALID_PAGE_ID /\ pin_count[f] = 0
    BY <2>1 DEF FramesAccounted
  <2>5. \A q \in PageIds : page_table[q] # f
    BY <2>4 DEF PageTableExact, PageIds
  <2> QED BY <2>2, <2>3, <2>4, <2>5, <1>1, <1>2, <1>3 DEF TakeFree
<1>4. CASE TakeVictim(f, p)
  <2>1. f \in Range(replacer)
    BY <1>1, <1>4, PopBackLemma DEF TakeVictim
  <2>2. /\ PopBack(replacer) \in Seq(Frames) /\ IsInjective(PopBack(replacer))
        /\ Range(PopBack(replacer)) = Range(replacer) \ {f}
    BY <1>1, <1>4, PopBackLemma DEF TakeVictim
  <2>3. /\ replacer' \in Seq(Frames) /\ IsInjective(replacer')
        /\ Range(replacer') = Range(replacer) \ {f}
    BY <2>2, <1>4, PinnedLemma DEF TakeVictim
  <2>4. page_id[f] # INVALID_PAGE_ID /\ pin_count[f] = 0 /\ page_id[f] \in PageIds
    BY <2>1 DEF FramesAccounted, TypeOK
  <2>5. f \notin Range(free_list)
    BY <2>4 DEF FramesAccounted
  <2>6. page_table[page_id[f]] = f /\ \A q \in PageIds : page_table[q] = f => q = page_id[f]
    BY <2>4 DEF PageTableExact
  <2>7. page_id[f] # p
    BY <2>6, <1>2
  <2> QED BY <2>3, <2>4, <2>5, <2>6, <2>7, <1>1, <1>2, <1>4 DEF TakeVictim, Rebound
<1> QED BY <1>3, <1>4

(* A page moves into the frame that was taken for it.                      *)
LEMMA InstallLemma ==
  ASSUME PoolInv, NEW f \in Frames, NEW p \in PageIds, NEW v \in Data,
         page_table[p] = NoFrame, TakeFree(f, p) \/ TakeVictim(f, p), Install(f, p, v)
  PROVE  /\ page_id' \in [Frames -> PageIds \union {INVALID_PAGE_ID}]
         /\ pin_count' \in [Frames -> Nat]
         /\ is_dirty' \in [Frames -> BOOLEAN]
         /\ data' \in [Frames -> Data]
         /\ page_table' \in [PageIds -> Frames \union {NoFrame}]
         /\ replacer' \in Seq(Frames)
         /\ free_list' \in Seq(Frames)
         /\ FramesAccounted'
         /\ PageTableExact'
<1>1. /\ page_id \in [Frames -> PageIds \union {INVALID_PAGE_ID}]
      /\ pin_count \in [Frames -> Nat]
      /\ is_dirty \in [Frames -> BOOLEAN]
      /\ data \in [Frames -> Data]
  BY DEF PoolInv, TypeOK
<1>2. /\ page_id' \in [Frames -> PageIds \union {INVALID_PAGE_ID}]
      /\ pin_count' \in [Frames -> Nat]
      /\ is_dirty' \in [Frames -> BOOLEAN]
      /\ data' \in [Frames -> Data]
  BY <1>1 DEF Install
<1>3. /\ page_id'[f] = p /\ pin_count'[f] = 1
      /\ \A g \in Frames \ {f} : /\ page_id'[g] = page_id[g]
                                 /\ pin_count'[g] = pin_count[g]
                                 /\ is_dirty'[g] = is_dirty[g]
                                 /\ data'[g] = data[g]
  BY <1>1 DEF Install
<1>4. p # INVALID_PAGE_ID
  BY DEF PageIds, INVALID_PAGE_ID
<1>5. FramesAccounted'
  <2>1. /\ IsInjective(replacer') /\ IsInjective(free_list')
        /\ Range(replacer') = Range(replacer) \ {f}
        /\ Range(free_list') = Range(free_list) \ {f}
    BY TakeLemma
  <2>2. ASSUME NEW g \in Frames
        PROVE  /\ g \in Range(free_list') <=> page_id'[g] = INVALID_PAGE_ID
               /\ g \in Range(replacer')
                    <=> page_id'[g] # INVALID_PAGE_ID /\ pin_count'[g] = 0
               /\ page_id'[g] = INVALID_PAGE_ID
                    => pin_count'[g] = 0 /\ ~is_dirty'[g] /\ data'[g] = Zero
    BY <2>1, <1>3, <1>4 DEF PoolInv, FramesAccounted
  <2> QED BY <2>1, <2>2 DEF FramesAccounted
<1>6. PageTableExact'
  BY TakeLemma, <1>3 DEF PoolInv, PageTableExact
<1> QED BY <1>2, <1>5, <1>6, TakeLemma

(* Saving a victim changes no page of the disk but the victim's.           *)
LEMMA WrittenBackLemma ==
  ASSUME PoolInv, NEW f \in Frames, NEW p \in PageIds, page_table[p] = NoFrame,
         TakeFree(f, p) \/ TakeVictim(f, p)
  PROVE  /\ WrittenBack(f) \in [PageIds \union {INVALID_PAGE_ID} -> Data \union {Unwritten}]
         /\ WrittenBack(f)[p] = disk[p]
         /\ \A q \in PageIds : page_table[q] = NoFrame => WrittenBack(f)[q] = disk[q]
<1>1. /\ disk \in [PageIds \union {INVALID_PAGE_ID} -> Data \union {Unwritten}]
      /\ data[f] \in Data
  BY DEF PoolInv, TypeOK
<1>2. CASE page_id[f] = INVALID_PAGE_ID
  BY <1>1, <1>2, TakeLemma DEF WrittenBack, MustSave
<1>3. CASE page_id[f] # INVALID_PAGE_ID
  <2>1. page_id[f] \in PageIds /\ page_table[page_id[f]] = f
    BY <1>3 DEF PoolInv, TypeOK, PageTableExact
  <2>2. \A q \in PageIds : page_table[q] = NoFrame => q # page_id[f]
    BY <2>1, PoolAssumption DEF Frames
  <2> QED BY <2>2, <1>1 DEF WrittenBack, MustSave
<1> QED BY <1>2, <1>3
-----------------------------------------------------------------------------
(* The free list the constructor fills names every frame once.             *)
LEMMA FirstFreeList ==
  ASSUME NEW free, free = [i \in 1 .. PoolSize |-> i - 1]
  PROVE  free \in Seq(Frames) /\ Range(free) = Frames /\ IsInjective(free)
<1>1. /\ DOMAIN free = 1 .. PoolSize
      /\ \A i \in 1 .. PoolSize : free[i] = i - 1 /\ i - 1 \in Frames
      /\ \A f \in Frames : f + 1 \in 1 .. PoolSize /\ free[f + 1] = f
  BY PoolAssumption DEF Frames
<1>2. free \in Seq(Frames)
  BY <1>1, PoolAssumption
<1>3. Range(free) = Frames
  BY <1>1 DEF Range
<1>4. IsInjective(free)
  BY <1>1, PoolAssumption DEF IsInjective
<1> QED BY <1>2, <1>3, <1>4

(* The constructor establishes the invariant.                              *)
LEMMA InitIInv == Init => IInv
<1> SUFFICES ASSUME Init PROVE IInv
  OBVIOUS
<1>1. free_list \in Seq(Frames) /\ Range(free_list) = Frames /\ IsInjective(free_list)
  BY FirstFreeList DEF Init, Constructed
<1>2. replacer \in Seq(Frames) /\ Range(replacer) = {} /\ IsInjective(replacer)
  BY DEF Init, Constructed, Range, IsInjective
<1>3. TypeOK
  <2>1. next_page_id \in Nat
    BY PoolAssumption DEF Init, Constructed
  <2> QED BY <1>1, <1>2, <2>1, PoolAssumption DEF Init, Constructed, TypeOK
<1>4. FramesAccounted
  BY <1>1, <1>2 DEF Init, Constructed, FramesAccounted
<1>5. PageTableExact
  BY PoolAssumption DEF Init, Constructed, PageTableExact, INVALID_PAGE_ID, Frames, PageIds
<1>6. FreshIdsUnused /\ NoSelfDeadlock
  BY DEF Init, Constructed, FreshIdsUnused, NoSelfDeadlock
<1> QED BY <1>3, <1>4, <1>5, <1>6 DEF IInv, PoolInv

(* NewPage, for a page that is not resident.                               *)
LEMMA NewPgKeepsPoolInv ==
  ASSUME PoolInv, NEW f \in Frames, NEW p \in PageIds, page_table[p] = NoFrame, NewPgIn(f, p)
  PROVE  PoolInv'
<1>1. /\ p = next_page_id /\ next_page_id' = next_page_id + NumInstances
      /\ TakeFree(f, p) \/ TakeVictim(f, p)
      /\ Install(f, p, Zero)
      /\ disk' = [WrittenBack(f) EXCEPT ![p] = Zero]
      /\ stuck' = stuck
  BY DEF NewPgIn, AllocatePage, IdAfter
<1>2. next_page_id' \in Nat /\ Zero \in Data
  BY <1>1, PoolAssumption DEF PoolInv, TypeOK
<1>3. disk' \in [PageIds \union {INVALID_PAGE_ID} -> Data \union {Unwritten}]
  BY <1>1, <1>2, WrittenBackLemma
<1>4. NoSelfDeadlock' /\ stuck' \in BOOLEAN
  BY <1>1 DEF PoolInv, TypeOK, NoSelfDeadlock
<1>5. TypeOK' /\ FramesAccounted' /\ PageTableExact'
  BY <1>1, <1>2, <1>3, <1>4, InstallLemma DEF TypeOK
<1> QED BY <1>4, <1>5 DEF PoolInv

(* FetchPage of a page that is not resident.                               *)
LEMMA FetchMissKeepsPoolInv ==
  ASSUME PoolInv, NEW f \in Frames, NEW p \in PageIds, FetchMissIn(f, p)
  PROVE  PoolInv'
<1>1. /\ disk[p] # Unwritten /\ page_table[p] = NoFrame
      /\ TakeFree(f, p) \/ TakeVictim(f, p)
      /\ disk' = WrittenBack(f)
      /\ Install(f, p, disk'[p])
      /\ next_page_id' = next_page_id /\ stuck' = stuck
  BY DEF FetchMissIn, OnDisk
<1>2. /\ disk' \in [PageIds \union {INVALID_PAGE_ID} -> Data \union {Unwritten}]
      /\ disk'[p] = disk[p]
  BY <1>1, WrittenBackLemma
<1>3. disk'[p] \in Data
  BY <1>1, <1>2 DEF PoolInv, TypeOK
<1>4. NoSelfDeadlock' /\ stuck' \in BOOLEAN /\ next_page_id' \in Nat
  BY <1>1 DEF PoolInv, NoSelfDeadlock, TypeOK
<1>5. TypeOK' /\ FramesAccounted' /\ PageTableExact'
  BY <1>1, <1>2, <1>3, <1>4, InstallLemma DEF TypeOK
<1> QED BY <1>4, <1>5 DEF PoolInv

LEMMA FetchHitKeepsPoolInv ==
  ASSUME PoolInv, NEW p \in PageIds, FetchHit(p)
  PROVE  PoolInv'
<1> DEFINE f == page_table[p]
<1>1. f \in Frames /\ page_id[f] = p /\ p # INVALID_PAGE_ID
  BY ResidentLemma DEF FetchHit
<1>2. /\ pin_count' = [pin_count EXCEPT ![f] = pin_count[f] + 1]
      /\ replacer' = Pinned(replacer, f)
      /\ UNCHANGED <<page_id, is_dirty, data, page_table, free_list, next_page_id, disk, stuck>>
  BY DEF FetchHit, OneMore, ReplacerPin
<1>3. pin_count \in [Frames -> Nat] /\ pin_count[f] + 1 \in Nat /\ pin_count[f] + 1 # 0
  BY <1>1 DEF PoolInv, TypeOK
<1> HIDE DEF f
<1>4. /\ replacer' \in Seq(Frames) /\ IsInjective(replacer')
      /\ Range(replacer') = Range(replacer) \ {f}
  BY <1>2, PinnedLemma DEF PoolInv, TypeOK, FramesAccounted
<1>5. TypeOK'
  BY <1>2, <1>3, <1>4 DEF PoolInv, TypeOK
<1>6. FramesAccounted'
  BY <1>1, <1>2, <1>3, <1>4 DEF PoolInv, FramesAccounted
<1>7. PageTableExact' /\ NoSelfDeadlock'
  BY <1>2 DEF PoolInv, PageTableExact, NoSelfDeadlock
<1> QED BY <1>5, <1>6, <1>7 DEF PoolInv

(* When a pinned frame is unpinned the replacer is not full: it lists no   *)
(* frame twice and the pinned one not at all.                              *)
LEMMA ReplacerHasRoom ==
  ASSUME PoolInv, NEW f \in Frames, pin_count[f] > 0
  PROVE  Len(replacer) # PoolSize
<1>1. pin_count[f] \in Nat /\ f \notin Range(replacer)
  BY DEF PoolInv, TypeOK, FramesAccounted
<1>2. IsFiniteSet(Frames) /\ Cardinality(Frames) = PoolSize
  <2>1. PoolSize \in Nat /\ 0 \in Int /\ PoolSize - 1 \in Int
    BY PoolAssumption
  <2>2. /\ IsFiniteSet(0 .. PoolSize - 1)
        /\ Cardinality(0 .. PoolSize - 1)
             = IF 0 > PoolSize - 1 THEN 0 ELSE (PoolSize - 1) - 0 + 1
    BY <2>1, FS_Interval
  <2> QED BY <2>1, <2>2 DEF Frames
<1>3. replacer \in Seq(Frames) /\ IsInjective(replacer)
  BY DEF PoolInv, TypeOK, FramesAccounted
<1>4. Len(replacer) < PoolSize
  BY <1>1, <1>2, <1>3, LengthIsCardinality
<1> QED BY <1>3, <1>4, PoolAssumption

LEMMA UnpinPgKeepsPoolInv ==
  ASSUME PoolInv, NEW p \in PageIds, NEW dirty \in BOOLEAN, UnpinPg(p, dirty)
  PROVE  PoolInv'
<1> DEFINE f == page_table[p]
<1>1. f \in Frames /\ page_id[f] = p /\ p # INVALID_PAGE_ID
  BY ResidentLemma DEF UnpinPg
<1>2. /\ is_dirty' = [is_dirty EXCEPT ![f] = is_dirty[f] \/ dirty]
      /\ UNCHANGED <<page_id, data, page_table, free_list, next_page_id, disk>>
  BY DEF UnpinPg, Raised
<1>3. \/ UNCHANGED <<pin_count, replacer, stuck>>
      \/ /\ pin_count[f] > 1
         /\ pin_count' = [pin_count EXCEPT ![f] = pin_count[f] - 1]
         /\ UNCHANGED <<replacer, stuck>>
      \/ /\ pin_count[f] = 1
         /\ pin_count' = [pin_count EXCEPT ![f] = 0]
         /\ ReplacerUnpin(f)
  <2>1. pin_count \in [Frames -> Nat]
    BY DEF PoolInv, TypeOK
  <2>2. /\ pin_count' = [pin_count EXCEPT ![f] = IF pin_count[f] > 0 THEN pin_count[f] - 1
                                                                     ELSE pin_count[f]]
        /\ IF pin_count[f] > 0 /\ pin_count[f] = 1
             THEN ReplacerUnpin(f)
             ELSE UNCHANGED <<replacer, stuck>>
    BY DEF UnpinPg, HasPin, LastPin
  <2> HIDE DEF f
  <2>3. CASE pin_count[f] = 0
    BY <1>1, <2>1, <2>2, <2>3
  <2>4. CASE pin_count[f] = 1
    BY <1>1, <2>1, <2>2, <2>4
  <2>5. CASE pin_count[f] > 1
    <3>1. pin_count[f] > 0 /\ pin_count[f] # 1
      BY <2>5, <2>1, <1>1
    <3>2. UNCHANGED <<replacer, stuck>>
      BY <3>1, <2>2
    <3>3. pin_count' = [pin_count EXCEPT ![f] = pin_count[f] - 1]
      BY <3>1, <2>2
    <3> QED BY <2>5, <3>2, <3>3
  <2> QED BY <1>1, <2>1, <2>3, <2>4, <2>5
<1> HIDE DEF f
<1>4. /\ is_dirty' \in [Frames -> BOOLEAN]
      /\ \A g \in Frames : g # f => is_dirty'[g] = is_dirty[g]
  <2>1. is_dirty \in [Frames -> BOOLEAN]
    BY DEF PoolInv, TypeOK
  <2> QED BY <1>2, <2>1, Zenon
<1>5. /\ pin_count \in [Frames -> Nat] /\ stuck = FALSE
      /\ replacer \in Seq(Frames) /\ IsInjective(replacer)
  BY DEF PoolInv, TypeOK, FramesAccounted, NoSelfDeadlock
<1>6. PageTableExact'
  BY <1>2 DEF PoolInv, PageTableExact
<1>7. CASE UNCHANGED <<pin_count, replacer, stuck>>
  BY <1>1, <1>2, <1>4, <1>6, <1>7 DEF PoolInv, TypeOK, FramesAccounted, NoSelfDeadlock
<1>8. CASE /\ pin_count[f] > 1
           /\ pin_count' = [pin_count EXCEPT ![f] = pin_count[f] - 1]
           /\ UNCHANGED <<replacer, stuck>>
  <2>1. /\ pin_count' \in [Frames -> Nat] /\ pin_count'[f] > 0
        /\ \A g \in Frames : g # f => pin_count'[g] = pin_count[g]
    BY <1>1, <1>5, <1>8
  <2>2. TypeOK' /\ NoSelfDeadlock'
    BY <1>2, <1>4, <1>8, <2>1 DEF PoolInv, TypeOK, NoSelfDeadlock
  <2>3. FramesAccounted'
    BY <1>1, <1>2, <1>4, <1>5, <1>8, <2>1 DEF PoolInv, FramesAccounted
  <2> QED BY <1>6, <2>2, <2>3 DEF PoolInv
<1>9. CASE /\ pin_count[f] = 1
           /\ pin_count' = [pin_count EXCEPT ![f] = 0]
           /\ ReplacerUnpin(f)
  <2>1. /\ pin_count' \in [Frames -> Nat] /\ pin_count'[f] = 0
        /\ \A g \in Frames : g # f => pin_count'[g] = pin_count[g]
    BY <1>1, <1>5, <1>9
  <2>2. stuck' = FALSE /\ replacer' = Unpinned(replacer, f)
    <3>1. Len(replacer) # PoolSize
      BY <1>1, <1>9, ReplacerHasRoom
    <3>2. ReplacerUnpin(f)
      BY <1>9
    <3> QED BY <3>1, <3>2, Zenon DEF ReplacerUnpin
  <2>3. /\ replacer' \in Seq(Frames) /\ IsInjective(replacer')
        /\ Range(replacer') = Range(replacer) \union {f}
    BY <1>1, <1>5, <2>2, UnpinnedLemma
  <2>4. TypeOK' /\ NoSelfDeadlock'
    BY <1>2, <1>4, <2>1, <2>2, <2>3 DEF PoolInv, TypeOK, NoSelfDeadlock
  <2>5. FramesAccounted'
    BY <1>1, <1>2, <1>4, <2>1, <2>3 DEF PoolInv, FramesAccounted
  <2> QED BY <1>6, <2>4, <2>5 DEF PoolInv
<1> QED BY <1>3, <1>7, <1>8, <1>9

LEMMA DeletePgKeepsPoolInv ==
  ASSUME PoolInv, NEW p \in PageIds, DeletePg(p)
  PROVE  PoolInv'
<1> DEFINE f == page_table[p]
<1>1. f \in Frames /\ page_id[f] = p /\ p # INVALID_PAGE_ID /\ pin_count[f] = 0
  BY ResidentLemma DEF DeletePg
<1>2. /\ disk' = IF is_dirty[f] THEN [disk EXCEPT ![page_id[f]] = data[f]] ELSE disk
      /\ is_dirty' = [is_dirty EXCEPT ![f] = FALSE]
      /\ page_id' = [page_id EXCEPT ![f] = INVALID_PAGE_ID]
      /\ data' = [data EXCEPT ![f] = Zero]
      /\ replacer' = Pinned(replacer, f)
      /\ free_list' = Append(free_list, f)
      /\ page_table' = [page_table EXCEPT ![p] = NoFrame]
      /\ UNCHANGED <<pin_count, next_page_id, stuck>>
  BY DEF DeletePg, ReplacerPin
<1> HIDE DEF f
<1>3. /\ replacer \in Seq(Frames) /\ IsInjective(replacer)
      /\ free_list \in Seq(Frames) /\ IsInjective(free_list) /\ f \notin Range(free_list)
  BY <1>1 DEF PoolInv, TypeOK, FramesAccounted
<1>4. /\ replacer' \in Seq(Frames) /\ IsInjective(replacer')
      /\ Range(replacer') = Range(replacer) \ {f}
      /\ free_list' \in Seq(Frames) /\ IsInjective(free_list')
      /\ Range(free_list') = Range(free_list) \union {f}
  BY <1>1, <1>2, <1>3, PinnedLemma, AppendLemma
<1>5. TypeOK'
  BY <1>1, <1>2, <1>4, PoolAssumption DEF PoolInv, TypeOK
<1>6. /\ page_id'[f] = INVALID_PAGE_ID /\ ~is_dirty'[f] /\ data'[f] = Zero
      /\ pin_count'[f] = 0
      /\ \A g \in Frames : g # f => /\ page_id'[g] = page_id[g]
                                    /\ pin_count'[g] = pin_count[g]
                                    /\ is_dirty'[g] = is_dirty[g]
                                    /\ data'[g] = data[g]
  BY <1>1, <1>2 DEF PoolInv, TypeOK
<1>7. FramesAccounted'
  <2> SUFFICES ASSUME NEW g \in Frames
               PROVE  /\ g \in Range(free_list') <=> page_id'[g] = INVALID_PAGE_ID
                      /\ g \in Range(replacer')
                           <=> page_id'[g] # INVALID_PAGE_ID /\ pin_count'[g] = 0
                      /\ page_id'[g] = INVALID_PAGE_ID
                           => pin_count'[g] = 0 /\ ~is_dirty'[g] /\ data'[g] = Zero
    BY <1>4 DEF FramesAccounted
  <2> QED BY <1>1, <1>4, <1>6 DEF PoolInv, FramesAccounted
<1>8. PageTableExact'
  <2> SUFFICES ASSUME NEW q \in PageIds, NEW g \in Frames
               PROVE  page_table'[q] = g <=> page_id'[g] = q
    BY DEF PageTableExact
  <2>1. page_table'[p] = NoFrame /\ (q # p => page_table'[q] = page_table[q])
    BY <1>2 DEF PoolInv, TypeOK
  <2>2. NoFrame # g /\ q # INVALID_PAGE_ID
    BY PoolAssumption DEF Frames, PageIds, INVALID_PAGE_ID
  <2>3. /\ page_table[q] = g <=> page_id[g] = q
        /\ page_table[p] = f
        /\ page_table[q] = f <=> page_id[f] = q
    BY <1>1 DEF PoolInv, PageTableExact
  <2> QED BY <2>1, <2>2, <2>3, <1>1, <1>6
<1>9. NoSelfDeadlock'
  BY <1>2 DEF PoolInv, NoSelfDeadlock
<1> QED BY <1>5, <1>7, <1>8, <1>9 DEF PoolInv

LEMMA FlushPgKeepsPoolInv ==
  ASSUME PoolInv, NEW p \in PageIds, FlushPg(p)
  PROVE  PoolInv'
<1>1. /\ disk' = [disk EXCEPT ![p] = data[page_table[p]]]
      /\ UNCHANGED <<frameVars, listVars, next_page_id, stuck>>
      /\ page_table[p] \in Frames /\ page_table[p] # NoFrame
  BY ResidentLemma DEF FlushPg
<1>2. TypeOK'
  BY <1>1 DEF PoolInv, TypeOK, frameVars, listVars
<1>3. FramesAccounted' /\ PageTableExact' /\ NoSelfDeadlock'
  BY <1>1 DEF PoolInv, FramesAccounted, PageTableExact, NoSelfDeadlock, frameVars, listVars
<1> QED BY <1>2, <1>3 DEF PoolInv

LEMMA FlushAllPgsKeepsPoolInv ==
  ASSUME PoolInv, FlushAllPgs
  PROVE  PoolInv'
<1>1. /\ disk' = [p \in PageIds \union {INVALID_PAGE_ID} |->
                    IF \E f \in Frames : page_id[f] = p
                      THEN data[CHOOSE f \in Frames : page_id[f] = p]
                      ELSE disk[p]]
      /\ UNCHANGED <<frameVars, listVars, next_page_id, stuck>>
  BY DEF FlushAllPgs, PoolInv, TypeOK
<1>2. TypeOK'
  BY <1>1 DEF PoolInv, TypeOK, frameVars, listVars
<1>3. FramesAccounted' /\ PageTableExact' /\ NoSelfDeadlock'
  BY <1>1 DEF PoolInv, FramesAccounted, PageTableExact, NoSelfDeadlock, frameVars, listVars
<1> QED BY <1>2, <1>3 DEF PoolInv

LEMMA ClientWriteKeepsPoolInv ==
  ASSUME PoolInv, NEW f \in Frames, NEW v \in Data, ClientWrite(f, v)
  PROVE  PoolInv'
<1>1. /\ pin_count[f] > 0
      /\ data' = [data EXCEPT ![f] = v]
      /\ UNCHANGED <<page_id, pin_count, is_dirty, listVars, next_page_id, disk, stuck>>
  BY DEF ClientWrite
<1>2. TypeOK'
  BY <1>1 DEF PoolInv, TypeOK, listVars
<1>3. page_id[f] # INVALID_PAGE_ID
  BY <1>1 DEF PoolInv, TypeOK, FramesAccounted
<1>4. FramesAccounted'
  BY <1>1, <1>3 DEF PoolInv, TypeOK, FramesAccounted, listVars
<1>5. PageTableExact' /\ NoSelfDeadlock'
  BY <1>1 DEF PoolInv, PageTableExact, NoSelfDeadlock, listVars
<1> QED BY <1>2, <1>4, <1>5 DEF PoolInv

(* A new page is not resident: its id is a fresh one.                      *)
LEMMA NewIdIsFresh ==
  ASSUME IInv, NEW f \in Frames, NEW p \in PageIds, NewPgIn(f, p)
  PROVE  page_table[p] = NoFrame /\ disk[p] = Unwritten
BY DEF NewPgIn, AllocatePage, IInv, PoolInv, TypeOK, FreshIdsUnused

(* Every step keeps what every call keeps.                                 *)
LEMMA NextKeepsPoolInv == IInv /\ [Next]_vars => PoolInv'
<1> SUFFICES ASSUME IInv, [Next]_vars PROVE PoolInv'
  OBVIOUS
<1> USE DEF IInv
<1>1. CASE UNCHANGED vars
  BY <1>1 DEF PoolInv, TypeOK, FramesAccounted, PageTableExact, NoSelfDeadlock,
              vars, frameVars, listVars
<1>2. CASE NewPg
  BY <1>1, <1>2, NewPgKeepsPoolInv, NewIdIsFresh DEF NewPg, NewPgRefused
<1>3. CASE \E p \in PageIds : FetchPg(p)
  BY <1>1, <1>3, FetchHitKeepsPoolInv, FetchMissKeepsPoolInv DEF FetchPg, FetchRefused
<1>4. CASE \E p \in PageIds, dirty \in BOOLEAN : UnpinPg(p, dirty)
  BY <1>4, UnpinPgKeepsPoolInv
<1>5. CASE \E p \in PageIds : DeletePg(p) \/ DeleteNothing(p)
  BY <1>1, <1>5, DeletePgKeepsPoolInv DEF DeleteNothing
<1>6. CASE \E p \in PageIds : FlushPg(p) \/ NotResident(p)
  BY <1>1, <1>6, FlushPgKeepsPoolInv DEF NotResident
<1>7. CASE FlushAllPgs
  BY <1>7, FlushAllPgsKeepsPoolInv
<1>8. CASE \E f \in Frames, v \in Data : ClientWrite(f, v)
  BY <1>8, ClientWriteKeepsPoolInv
<1> QED BY <1>1, <1>2, <1>3, <1>4, <1>5, <1>6, <1>7, <1>8 DEF Next

(* Every step leaves the ids unused that are still to be allocated.        *)
LEMMA NextKeepsFresh == IInv /\ [Next]_vars => FreshIdsUnused'
<1> SUFFICES ASSUME IInv, [Next]_vars, NEW q \in PageIds, q >= next_page_id'
             PROVE  disk'[q] = Unwritten /\ page_table'[q] = NoFrame
  BY DEF FreshIdsUnused
<1>1. /\ disk \in [PageIds \union {INVALID_PAGE_ID} -> Data \union {Unwritten}]
      /\ page_table \in [PageIds -> Frames \union {NoFrame}]
      /\ page_id \in [Frames -> PageIds \union {INVALID_PAGE_ID}]
      /\ next_page_id \in Nat
  BY DEF IInv, PoolInv, TypeOK
<1>2. NoFrame \notin Frames /\ q # INVALID_PAGE_ID /\ q \in Nat
  BY PoolAssumption DEF Frames, PageIds, INVALID_PAGE_ID
<1>3. CASE UNCHANGED <<page_table, next_page_id, disk>>
  BY <1>3 DEF IInv, FreshIdsUnused
<1>4. ASSUME NEW f \in Frames, NEW p \in PageIds, NewPgIn(f, p)
      PROVE  disk'[q] = Unwritten /\ page_table'[q] = NoFrame
  <2>1. /\ p = next_page_id /\ next_page_id' = next_page_id + NumInstances
        /\ TakeFree(f, p) \/ TakeVictim(f, p)
        /\ disk' = [WrittenBack(f) EXCEPT ![p] = Zero]
    BY <1>4 DEF NewPgIn, AllocatePage, IdAfter
  <2>2. q # p /\ q >= next_page_id
    BY <2>1, <1>1, <1>2, PoolAssumption
  <2>3. disk[q] = Unwritten /\ page_table[q] = NoFrame
    BY <2>2 DEF IInv, FreshIdsUnused
  <2>4. page_table[p] = NoFrame
    BY <1>4, NewIdIsFresh
  <2>5. WrittenBack(f)[q] = Unwritten /\ page_table'[q] = NoFrame
    BY <2>1, <2>2, <2>3, <2>4, WrittenBackLemma, TakeLemma DEF IInv
  <2> QED BY <2>1, <2>2, <2>5
<1>5. CASE UNCHANGED next_page_id
  <2>1. disk[q] = Unwritten /\ page_table[q] = NoFrame
    BY <1>5 DEF IInv, FreshIdsUnused
  <2>2. ASSUME NEW f \in Frames, NEW p \in PageIds, FetchMissIn(f, p)
        PROVE  disk'[q] = Unwritten /\ page_table'[q] = NoFrame
    BY <2>1, <2>2, WrittenBackLemma, TakeLemma DEF IInv, FetchMissIn, OnDisk
  <2>3. ASSUME NEW p \in PageIds, DeletePg(p)
        PROVE  disk'[q] = Unwritten /\ page_table'[q] = NoFrame
    <3>1. page_id[page_table[p]] = p
      BY <2>3, ResidentLemma DEF IInv, DeletePg
    <3> QED BY <2>1, <2>3, <3>1, <1>1 DEF DeletePg
  <2>4. ASSUME NEW p \in PageIds, FlushPg(p)
        PROVE  disk'[q] = Unwritten /\ page_table'[q] = NoFrame
    BY <2>1, <2>4, <1>1 DEF FlushPg, listVars
  <2>5. ASSUME FlushAllPgs
        PROVE  disk'[q] = Unwritten /\ page_table'[q] = NoFrame
    <3>1. \A f \in Frames : page_id[f] # q
      BY <2>1, <1>2 DEF IInv, PoolInv, PageTableExact
    <3> QED BY <2>1, <2>5, <3>1, <1>1 DEF FlushAllPgs, listVars
  <2> QED
    BY <1>3, <1>4, <2>2, <2>3, <2>4, <2>5
    DEF Next, NewPg, NewPgRefused, FetchPg, FetchRefused, FetchHit, UnpinPg, DeleteNothing,
        NotResident, ClientWrite, vars, listVars
<1> QED
  BY <1>3, <1>4, <1>5
  DEF Next, NewPg, NewPgRefused, FetchPg, FetchRefused, FetchHit, FetchMissIn, UnpinPg,
      DeletePg, DeleteNothing, FlushPg, NotResident, FlushAllPgs, ClientWrite, vars, listVars

LEMMA NextKeepsIInv == IInv /\ [Next]_vars => IInv'
BY NextKeepsPoolInv, NextKeepsFresh DEF IInv

(* Whatever calls are made in whatever order, the invariant holds.         *)
THEOREM InvariantHolds == Spec => []IInv
<1>1. Init => IInv
  BY InitIInv
<1>2. IInv /\ [Next]_vars => IInv'
  BY NextKeepsIInv
<1> QED BY <1>1, <1>2, PTL DEF Spec
-----------------------------------------------------------------------------
(* Every variable keeps its type.                                          *)
THEOREM TypeCorrect == Spec => []TypeOK
<1>1. IInv => TypeOK
  BY DEF IInv, PoolInv
<1> QED BY <1>1, InvariantHolds, PTL

(* Every frame is free, evictable or pinned, and never two of them.        *)
THEOREM FramesAreAccounted == Spec => []FramesAccounted
<1>1. IInv => FramesAccounted
  BY DEF IInv, PoolInv
<1> QED BY <1>1, InvariantHolds, PTL

(* The page table and the frames' page ids always agree.                   *)
THEOREM PageTableIsExact == Spec => []PageTableExact
<1>1. IInv => PageTableExact
  BY DEF IInv, PoolInv
<1> QED BY <1>1, InvariantHolds, PTL

(* NewPage never gives out the id of a page that exists.                   *)
THEOREM FreshIdsAreUnused == Spec => []FreshIdsUnused
<1>1. IInv => FreshIdsUnused
  BY DEF IInv, PoolInv
<1> QED BY <1>1, InvariantHolds, PTL

(* No call waits for the replacer's latch while it holds it: the full list *)
(* that makes LRUReplacer::Unpin hang is never met in a buffer pool.       *)
THEOREM NeverSelfDeadlocks == Spec => []NoSelfDeadlock
<1>1. IInv => NoSelfDeadlock
  BY DEF IInv, PoolInv
<1> QED BY <1>1, InvariantHolds, PTL
-----------------------------------------------------------------------------
(* A frame that is taken for another page was not pinned, and its page is  *)
(* on the disk if it was dirty.                                            *)
LEMMA TakenFrame ==
  ASSUME PoolInv, NEW f \in Frames, NEW p \in PageIds, page_table[p] = NoFrame,
         TakeFree(f, p) \/ TakeVictim(f, p)
  PROVE  /\ pin_count[f] = 0
         /\ is_dirty[f] => WrittenBack(f)[page_id[f]] = data[f] /\ page_id[f] # p
<1> SUFFICES ASSUME is_dirty[f]
             PROVE  WrittenBack(f)[page_id[f]] = data[f] /\ page_id[f] # p
  BY TakeLemma
<1>1. page_id[f] \in PageIds /\ page_id[f] # INVALID_PAGE_ID
  BY DEF PoolInv, TypeOK, FramesAccounted
<1>2. page_table[page_id[f]] = f
  BY <1>1 DEF PoolInv, PageTableExact
<1>3. page_id[f] # p
  BY <1>2, PoolAssumption DEF Frames
<1>4. free_list = <<>>
  BY <1>1, TakeLemma
<1> QED BY <1>1, <1>3, <1>4 DEF WrittenBack, MustSave, PoolInv, TypeOK

LEMMA PinnedFrameStep ==
  ASSUME IInv, [Next]_vars, NEW g \in Frames, pin_count[g] > 0
  PROVE  page_id'[g] = page_id[g]
<1>1. page_id \in [Frames -> PageIds \union {INVALID_PAGE_ID}] /\ pin_count[g] # 0
  BY DEF IInv, PoolInv, TypeOK
<1>2. ASSUME NEW f \in Frames, NEW p \in PageIds, page_table[p] = NoFrame,
             TakeFree(f, p) \/ TakeVictim(f, p),
             page_id' = [page_id EXCEPT ![f] = p]
      PROVE  page_id'[g] = page_id[g]
  BY <1>1, <1>2, TakenFrame DEF IInv
<1>3. ASSUME NEW f \in Frames, NEW p \in PageIds, NewPgIn(f, p)
      PROVE  page_id'[g] = page_id[g]
  <2>1. page_table[p] = NoFrame
    BY <1>3, NewIdIsFresh
  <2> QED BY <1>2, <1>3, <2>1 DEF NewPgIn, Install
<1>4. ASSUME NEW f \in Frames, NEW p \in PageIds, FetchMissIn(f, p)
      PROVE  page_id'[g] = page_id[g]
  BY <1>2, <1>4 DEF FetchMissIn, Install
<1>5. ASSUME NEW p \in PageIds, DeletePg(p)
      PROVE  page_id'[g] = page_id[g]
  BY <1>1, <1>5 DEF DeletePg
<1>6. ASSUME NEW p \in PageIds, NEW dirty \in BOOLEAN,
             FetchHit(p) \/ UnpinPg(p, dirty) \/ FlushPg(p)
      PROVE  page_id'[g] = page_id[g]
  BY <1>6 DEF FetchHit, UnpinPg, FlushPg, frameVars
<1>7. ASSUME FlushAllPgs \/ \E f \in Frames, v \in Data : ClientWrite(f, v)
      PROVE  page_id'[g] = page_id[g]
  BY <1>7 DEF FlushAllPgs, ClientWrite, frameVars
<1>8. ASSUME UNCHANGED vars
      PROVE  page_id'[g] = page_id[g]
  BY <1>8 DEF vars, frameVars
<1> QED
  BY <1>3, <1>4, <1>5, <1>6, <1>7, <1>8
  DEF Next, NewPg, NewPgRefused, FetchPg, FetchRefused, DeleteNothing, NotResident

(* As long as a frame is pinned it holds the same page.                    *)
THEOREM PinnedFramesAreStable == Spec => PinnedFrameStable
<1>1. IInv /\ [Next]_vars
        => [\A f \in Frames : pin_count[f] > 0 => page_id'[f] = page_id[f]]_vars
  BY PinnedFrameStep
<1> QED BY <1>1, InvariantHolds, PTL DEF Spec, PinnedFrameStable

LEMMA DirtyPageStep ==
  ASSUME IInv, [Next]_vars, NEW g \in Frames, is_dirty[g], ~is_dirty'[g]
  PROVE  disk'[page_id[g]] = data[g]
<1>1. /\ is_dirty \in [Frames -> BOOLEAN]
      /\ disk \in [PageIds \union {INVALID_PAGE_ID} -> Data \union {Unwritten}]
      /\ page_id[g] \in PageIds
  BY DEF IInv, PoolInv, TypeOK, FramesAccounted
<1>2. ASSUME NEW f \in Frames, NEW p \in PageIds, NewPgIn(f, p)
      PROVE  disk'[page_id[g]] = data[g]
  <2>1. page_table[p] = NoFrame
    BY <1>2, NewIdIsFresh
  <2>2. f = g
    BY <1>1, <1>2 DEF NewPgIn, Install
  <2>3. WrittenBack(f)[page_id[f]] = data[f] /\ page_id[f] # p
    BY <1>2, <2>1, <2>2, TakenFrame DEF IInv, NewPgIn
  <2>4. DOMAIN WrittenBack(f) = PageIds \union {INVALID_PAGE_ID}
    BY <1>2, <2>1, WrittenBackLemma DEF IInv, NewPgIn
  <2> QED BY <1>1, <1>2, <2>2, <2>3, <2>4 DEF NewPgIn
<1>3. ASSUME NEW f \in Frames, NEW p \in PageIds, FetchMissIn(f, p)
      PROVE  disk'[page_id[g]] = data[g]
  <2>1. f = g
    BY <1>1, <1>3 DEF FetchMissIn, Install
  <2> QED BY <1>3, <2>1, TakenFrame DEF IInv, FetchMissIn
<1>4. ASSUME NEW p \in PageIds, DeletePg(p)
      PROVE  disk'[page_id[g]] = data[g]
  <2>1. page_table[p] = g
    BY <1>1, <1>4 DEF DeletePg
  <2> QED BY <1>1, <1>4, <2>1 DEF DeletePg
<1>5. ASSUME NEW p \in PageIds, NEW dirty \in BOOLEAN, UnpinPg(p, dirty)
      PROVE  FALSE
  <2>1. is_dirty' = [is_dirty EXCEPT ![page_table[p]] = is_dirty[page_table[p]] \/ dirty]
    BY <1>5 DEF UnpinPg, Raised
  <2> QED BY <1>1, <2>1, Zenon
<1>6. ASSUME UNCHANGED is_dirty
      PROVE  FALSE
  BY <1>6
<1> QED
  BY <1>2, <1>3, <1>4, <1>5, <1>6
  DEF Next, NewPg, NewPgRefused, FetchPg, FetchRefused, FetchHit, DeleteNothing, FlushPg,
      NotResident, FlushAllPgs, ClientWrite, vars, frameVars

(* A dirty mark goes only when the page is on the disk.                    *)
THEOREM DirtyPagesAreSaved == Spec => DirtyPageSaved
<1>1. IInv /\ [Next]_vars
        => [\A f \in Frames : is_dirty[f] /\ ~is_dirty'[f] => disk'[page_id[f]] = data[f]]_vars
  BY DirtyPageStep
<1> QED BY <1>1, InvariantHolds, PTL DEF Spec, DirtyPageSaved
-----------------------------------------------------------------------------
(* What the clients add to the state.                                      *)
ClientsTypeOK == /\ handle \in [Threads -> [PageIds -> Frames \union {NoFrame}]]
                 /\ wrote \subseteq Threads \X PageIds
                 /\ since \in [PageIds -> SUBSET Data]

(* Who has written to a page and not unpinned it yet still has it.         *)
WritersUse == \A t \in Threads, p \in PageIds : <<t, p>> \in wrote => Uses(t, p)

(* A page that is in memory has been on the disk since NewPage wrote it.   *)
ResidentOnDisk == \A p \in PageIds : page_table[p] # NoFrame => disk[p] # Unwritten

(* The disk and the memory hold something the page held at or after its    *)
(* last flush.                                                             *)
SavedSince == \A p \in PageIds :
  disk[p] # Unwritten => disk[p] \in since[p] /\ Content(p) \in since[p]

(* The inductive invariant.  FreshIdsUnused is not part of it: a restarted *)
(* pool begins again at the first id.                                      *)
ClientsInv == /\ PoolInv
              /\ ClientsTypeOK
              /\ PinsMatchHandles
              /\ HandlesValid
              /\ WritersUse
              /\ ResidentOnDisk
              /\ CleanIsOnDisk
              /\ SavedSince
-----------------------------------------------------------------------------
(* There are finitely many pointers.                                       *)
LEMMA FiniteUsers ==
  ASSUME NEW U \in SUBSET (Threads \X PageIds)
  PROVE  IsFiniteSet(U) /\ Cardinality(U) \in Nat
<1>1. IsFiniteSet(PageIds)
  <2>1. 0 \in Int /\ MaxPageId \in Int
    BY PoolAssumption
  <2> QED BY <2>1, FS_Interval DEF PageIds
<1>2. IsFiniteSet(Threads \X PageIds)
  BY <1>1, ClientsAssumption, FS_Product
<1> QED BY <1>2, FS_Subset, FS_CardinalityType

(* A pointer leads to the frame the page table names; the frame is pinned. *)
LEMMA HandleLemma ==
  ASSUME ClientsInv, NEW t \in Threads, NEW p \in PageIds, Uses(t, p)
  PROVE  /\ handle[t][p] \in Frames
         /\ page_id[handle[t][p]] = p
         /\ page_table[p] = handle[t][p]
         /\ page_table[p] # NoFrame
         /\ <<t, p>> \in Users(handle[t][p])
         /\ pin_count[handle[t][p]] > 0
<1> DEFINE f == handle[t][p]
<1>1. f \in Frames /\ f # NoFrame
  BY DEF ClientsInv, ClientsTypeOK, Uses
<1>2. page_id[f] = p /\ page_table[p] = f
  BY <1>1 DEF ClientsInv, HandlesValid, PoolInv, PageTableExact
<1>3. <<t, p>> \in Users(f)
  BY DEF Users
<1>4. IsFiniteSet(Users(f)) /\ Cardinality(Users(f)) \in Nat
  BY FiniteUsers DEF Users
<1>5. Cardinality(Users(f)) # 0
  BY <1>3, <1>4, FS_EmptySet
<1>6. pin_count[f] = Cardinality(Users(f))
  BY <1>1 DEF ClientsInv, PinsMatchHandles
<1> QED BY <1>1, <1>2, <1>3, <1>4, <1>5, <1>6

(* Nobody has a pointer to a frame without pins, or to a page that is not  *)
(* resident.                                                               *)
LEMMA UnpinnedUnused ==
  ASSUME ClientsInv
  PROVE  /\ \A f \in Frames : pin_count[f] = 0 =>
              Users(f) = {} /\ \A t \in Threads : <<t, page_id[f]>> \notin wrote
         /\ \A t \in Threads, p \in PageIds : page_table[p] = NoFrame => ~Uses(t, p)
<1>1. ASSUME NEW t \in Threads, NEW p \in PageIds, page_table[p] = NoFrame
      PROVE  ~Uses(t, p)
  BY <1>1, HandleLemma
<1>2. ASSUME NEW f \in Frames, pin_count[f] = 0
      PROVE  Users(f) = {}
  <2>1. Cardinality(Users(f)) = 0
    BY <1>2 DEF ClientsInv, PinsMatchHandles
  <2> QED BY <2>1, FiniteUsers, FS_EmptySet DEF Users
<1>3. ASSUME NEW f \in Frames, pin_count[f] = 0, NEW t \in Threads, <<t, page_id[f]>> \in wrote
      PROVE  FALSE
  <2>1. page_id[f] \in PageIds
    BY <1>3 DEF ClientsInv, ClientsTypeOK
  <2>2. Uses(t, page_id[f])
    BY <1>3, <2>1 DEF ClientsInv, WritersUse
  <2>3. page_table[page_id[f]] = f
    BY <2>1 DEF ClientsInv, PoolInv, PageTableExact
  <2> QED BY <1>3, <2>1, <2>2, <2>3, HandleLemma
<1> QED BY <1>1, <1>2, <1>3

(* A client is given a pointer.                                            *)
LEMMA GivenHandle ==
  ASSUME ClientsTypeOK, NEW t \in Threads, NEW p \in PageIds, NEW f \in Frames,
         ~Uses(t, p), handle' = [handle EXCEPT ![t][p] = f]
  PROVE  /\ handle' \in [Threads -> [PageIds -> Frames \union {NoFrame}]]
         /\ \A u \in Threads, q \in PageIds :
              handle'[u][q] = IF u = t /\ q = p THEN f ELSE handle[u][q]
         /\ \A g \in Frames : g # f => Users(g)' = Users(g)
         /\ Cardinality(Users(f)') = Cardinality(Users(f)) + 1
<1>1. handle[t][p] = NoFrame /\ NoFrame \notin Frames
  BY PoolAssumption DEF Uses, Frames
<1>2. /\ handle' \in [Threads -> [PageIds -> Frames \union {NoFrame}]]
      /\ \A u \in Threads, q \in PageIds :
           handle'[u][q] = IF u = t /\ q = p THEN f ELSE handle[u][q]
  BY DEF ClientsTypeOK
<1>3. \A g \in Frames : g # f => Users(g)' = Users(g)
  BY <1>1, <1>2 DEF Users
<1>4. Users(f)' = Users(f) \union {<<t, p>>} /\ <<t, p>> \notin Users(f)
  BY <1>1, <1>2 DEF Users
<1>5. IsFiniteSet(Users(f)) /\ Cardinality(Users(f)) \in Nat
  BY FiniteUsers DEF Users
<1>6. Cardinality(Users(f) \union {<<t, p>>}) = Cardinality(Users(f)) + 1
  BY <1>4, <1>5, FS_AddElement
<1> QED BY <1>2, <1>3, <1>4, <1>6
-----------------------------------------------------------------------------
(* A page moves into a frame that is taken for it, and client t is given   *)
(* the pointer: the pins, the pointers and what is known of clean pages.   *)
LEMMA TakenForClient ==
  ASSUME ClientsInv, NEW t \in Threads, NEW p \in PageIds, NEW f \in Frames, NEW v \in Data,
         page_table[p] = NoFrame, TakeFree(f, p) \/ TakeVictim(f, p), Install(f, p, v),
         handle' = [handle EXCEPT ![t][p] = f], wrote' = wrote,
         disk'[p] = v, \A q \in PageIds : q # p => disk'[q] = WrittenBack(f)[q]
  PROVE  /\ handle' \in [Threads -> [PageIds -> Frames \union {NoFrame}]]
         /\ PinsMatchHandles'
         /\ HandlesValid'
         /\ WritersUse'
         /\ ResidentOnDisk'
         /\ CleanIsOnDisk'
<1> USE DEF ClientsInv
<1>1. pin_count[f] = 0 /\ Users(f) = {} /\ ~Uses(t, p)
  BY TakeLemma, UnpinnedUnused
<1>2. /\ handle' \in [Threads -> [PageIds -> Frames \union {NoFrame}]]
      /\ \A u \in Threads, q \in PageIds :
           handle'[u][q] = IF u = t /\ q = p THEN f ELSE handle[u][q]
      /\ \A g \in Frames : g # f => Users(g)' = Users(g)
      /\ Cardinality(Users(f)') = Cardinality(Users(f)) + 1
  BY <1>1, GivenHandle
<1>3. /\ page_id'[f] = p /\ pin_count'[f] = 1 /\ data'[f] = v
      /\ \A g \in Frames \ {f} : /\ page_id'[g] = page_id[g]
                                 /\ pin_count'[g] = pin_count[g]
                                 /\ is_dirty'[g] = is_dirty[g]
                                 /\ data'[g] = data[g]
  BY DEF Install, PoolInv, TypeOK
<1>4. Cardinality(Users(f)) = 0
  BY <1>1, FS_EmptySet
<1>5. PinsMatchHandles'
  BY <1>2, <1>3, <1>4 DEF PinsMatchHandles
<1>6. HandlesValid'
  <2> SUFFICES ASSUME NEW u \in Threads, NEW q \in PageIds, Uses(u, q)'
               PROVE  page_id'[handle'[u][q]] = q
    BY DEF HandlesValid
  <2>1. CASE u = t /\ q = p
    BY <2>1, <1>2, <1>3
  <2>2. CASE ~(u = t /\ q = p)
    <3>1. handle'[u][q] = handle[u][q] /\ Uses(u, q)
      BY <2>2, <1>2 DEF Uses
    <3>2. handle[u][q] \in Frames /\ handle[u][q] # f /\ page_id[handle[u][q]] = q
      BY <3>1, <1>1, HandleLemma
    <3> QED BY <3>1, <3>2, <1>3
  <2> QED BY <2>1, <2>2
<1>7. WritersUse'
  BY <1>2, PoolAssumption DEF WritersUse, Uses, Frames
<1>8. ASSUME NEW q \in PageIds, disk[q] # Unwritten
      PROVE  disk'[q] # Unwritten
  <2>1. data[f] \in Data /\ v \in Data /\ Unwritten \notin Data
    BY PoolAssumption DEF PoolInv, TypeOK
  <2> QED BY <2>1, <1>8 DEF WrittenBack, PoolInv, TypeOK
<1>9. ResidentOnDisk'
  <2> SUFFICES ASSUME NEW q \in PageIds, page_table'[q] # NoFrame
               PROVE  disk'[q] # Unwritten
    BY DEF ResidentOnDisk
  <2>1. CASE q = p
    BY <2>1, PoolAssumption
  <2>2. CASE q # p
    <3>1. page_table[q] # NoFrame
      BY <2>2, TakeLemma
    <3> QED BY <3>1, <1>8 DEF ResidentOnDisk
  <2> QED BY <2>1, <2>2
<1>10. CleanIsOnDisk'
  <2> SUFFICES ASSUME NEW g \in Frames, page_id'[g] # INVALID_PAGE_ID, ~is_dirty'[g],
                      \A u \in Threads : <<u, page_id'[g]>> \notin wrote
               PROVE  disk'[page_id'[g]] = data'[g]
    BY Zenon DEF CleanIsOnDisk
  <2>1. CASE g = f
    BY <2>1, <1>3
  <2>2. CASE g # f
    <3>1. page_id[g] \in PageIds /\ page_table[page_id[g]] = g
      BY <2>2, <1>3 DEF PoolInv, TypeOK, PageTableExact
    <3>2. page_id[g] # p /\ page_id[g] # page_id[f]
      BY <2>2, <3>1, PoolAssumption DEF PoolInv, PageTableExact, Frames
    <3>3. disk'[page_id[g]] = disk[page_id[g]]
      BY <3>1, <3>2 DEF WrittenBack, PoolInv, TypeOK
    <3>4. disk[page_id[g]] = data[g]
      BY <2>2, <1>3 DEF CleanIsOnDisk
    <3> QED BY <2>2, <3>3, <3>4, <1>3
  <2> QED BY <2>1, <2>2
<1> QED BY <1>2, <1>5, <1>6, <1>7, <1>9, <1>10

(* Taking a frame for page p changes what no other page holds.             *)
LEMMA TakeKeepsContent ==
  ASSUME ClientsInv, NEW p \in PageIds, NEW f \in Frames, NEW v \in Data,
         page_table[p] = NoFrame, TakeFree(f, p) \/ TakeVictim(f, p), Install(f, p, v),
         NEW q \in PageIds, q # p, disk'[q] = WrittenBack(f)[q]
  PROVE  /\ Content(q)' = Content(q)
         /\ disk'[q] = disk[q] \/ (disk'[q] = Content(q) /\ disk[q] # Unwritten)
<1> USE DEF ClientsInv
<1>1. /\ page_table' \in [PageIds -> Frames \union {NoFrame}]
      /\ \A r \in PageIds, g \in Frames :
           page_table'[r] = g <=> IF g = f THEN r = p ELSE page_table[r] = g
      /\ page_table[q] = NoFrame => page_table'[q] = NoFrame
      /\ pin_count[f] = 0
      /\ free_list # <<>> <=> page_id[f] = INVALID_PAGE_ID
  BY TakeLemma
<1>2. /\ disk \in [PageIds \union {INVALID_PAGE_ID} -> Data \union {Unwritten}]
      /\ page_table[q] \in Frames \union {NoFrame} /\ NoFrame \notin Frames
      /\ q # INVALID_PAGE_ID
  <2>1. NoFrame \notin Frames /\ q # INVALID_PAGE_ID
    BY PoolAssumption DEF Frames, PageIds, INVALID_PAGE_ID
  <2> QED BY <2>1 DEF PoolInv, TypeOK
<1>3. \A g \in Frames \ {f} : data'[g] = data[g]
  BY DEF Install, PoolInv, TypeOK
<1>4. CASE page_table[q] = f
  <2>1. page_id[f] = q
    BY <1>4 DEF PoolInv, PageTableExact
  <2>2. page_table'[q] = NoFrame
    BY <1>1, <1>4
  <2>3. disk[q] # Unwritten
    BY <1>4, <1>2 DEF ResidentOnDisk
  <2>4. free_list = <<>>
    BY <1>1, <1>2, <2>1
  <2>5. ~is_dirty[f] => disk[q] = data[f]
    BY <1>1, <1>2, <2>1, UnpinnedUnused DEF CleanIsOnDisk
  <2>6. disk'[q] = data[f]
    BY <2>1, <2>4, <2>5, <1>2 DEF WrittenBack, MustSave
  <2> QED BY <1>2, <1>4, <2>2, <2>3, <2>6 DEF Content
<1>5. CASE page_table[q] # f
  <2>1. page_table'[q] = page_table[q]
    BY <1>1, <1>2, <1>5
  <2>2. page_id[f] # q
    BY <1>5 DEF PoolInv, PageTableExact
  <2>3. disk'[q] = disk[q]
    BY <2>2, <1>2 DEF WrittenBack
  <2>4. page_table[q] # NoFrame => data'[page_table[q]] = data[page_table[q]]
    BY <1>2, <1>3, <1>5
  <2>5. Content(q)' = Content(q)
    <3>1. CASE page_table[q] = NoFrame
      BY <2>1, <2>3, <3>1 DEF Content
    <3>2. CASE page_table[q] # NoFrame
      BY <2>1, <2>4, <3>2 DEF Content
    <3> QED BY <3>1, <3>2
  <2> QED BY <2>3, <2>5
<1> QED BY <1>4, <1>5
-----------------------------------------------------------------------------
(* The constructor, on an empty disk.                                      *)
LEMMA ClientsInitInv == ClientsInit => ClientsInv
<1> SUFFICES ASSUME ClientsInit PROVE ClientsInv
  OBVIOUS
<1>1. PoolInv
  BY InitIInv DEF ClientsInit, IInv
<1>2. /\ page_id = [f \in Frames |-> INVALID_PAGE_ID]
      /\ pin_count = [f \in Frames |-> 0]
      /\ page_table = [p \in PageIds |-> NoFrame]
      /\ disk = [p \in PageIds \union {INVALID_PAGE_ID} |-> Unwritten]
      /\ handle = [t \in Threads |-> [p \in PageIds |-> NoFrame]]
      /\ wrote = {}
      /\ since = [p \in PageIds |-> {}]
  BY DEF ClientsInit, Init, Constructed
<1>3. ClientsTypeOK /\ HandlesValid /\ WritersUse /\ ResidentOnDisk /\ CleanIsOnDisk /\ SavedSince
  BY <1>2 DEF ClientsTypeOK, HandlesValid, Uses, WritersUse, ResidentOnDisk, CleanIsOnDisk,
              SavedSince
<1>4. PinsMatchHandles
  <2>1. \A f \in Frames : Users(f) = {}
    BY <1>2, PoolAssumption DEF Users, Frames
  <2> QED BY <2>1, <1>2, FS_EmptySet DEF PinsMatchHandles
<1> QED BY <1>1, <1>3, <1>4 DEF ClientsInv

(* What a new page does to the history of the pages.                       *)
LEMMA NewPageKeepsInv ==
  ASSUME ClientsInv, NEW t \in Threads, NEW p \in PageIds, NEW f \in Frames,
         disk[p] = Unwritten, NewPgIn(f, p), handle' = [handle EXCEPT ![t][p] = f],
         since' = [since EXCEPT ![p] = {Zero}], wrote' = wrote
  PROVE  /\ ClientsInv'
         /\ ~Uses(t, p)
         /\ Content(p) = Unwritten
         /\ Content(p)' = Zero
         /\ \A q \in PageIds : q # p => Content(q)' = Content(q)
<1>1. page_table[p] = NoFrame /\ Zero \in Data /\ NoFrame \notin Frames
  BY PoolAssumption DEF ClientsInv, ResidentOnDisk, Frames
<1>2. /\ TakeFree(f, p) \/ TakeVictim(f, p)
      /\ Install(f, p, Zero)
      /\ disk' = [WrittenBack(f) EXCEPT ![p] = Zero]
  BY DEF NewPgIn
<1>3. PoolInv'
  BY <1>1, NewPgKeepsPoolInv DEF ClientsInv
<1>4. disk'[p] = Zero /\ \A q \in PageIds : q # p => disk'[q] = WrittenBack(f)[q]
  <2>1. WrittenBack(f) \in [PageIds \union {INVALID_PAGE_ID} -> Data \union {Unwritten}]
    BY <1>1, <1>2, WrittenBackLemma DEF ClientsInv
  <2> QED BY <1>2, <2>1
<1>5. /\ handle' \in [Threads -> [PageIds -> Frames \union {NoFrame}]]
      /\ PinsMatchHandles' /\ HandlesValid' /\ WritersUse' /\ ResidentOnDisk' /\ CleanIsOnDisk'
  <2>1. /\ page_table[p] = NoFrame /\ Zero \in Data
        /\ TakeFree(f, p) \/ TakeVictim(f, p)
        /\ Install(f, p, Zero)
        /\ disk'[p] = Zero /\ \A q \in PageIds : q # p => disk'[q] = WrittenBack(f)[q]
    BY <1>1, <1>2, <1>4
  <2> QED BY <2>1, TakenForClient
<1>6. ClientsTypeOK'
  BY <1>1, <1>5 DEF ClientsInv, ClientsTypeOK
<1>7. \A q \in PageIds : q # p =>
        /\ Content(q)' = Content(q)
        /\ disk'[q] = disk[q] \/ (disk'[q] = Content(q) /\ disk[q] # Unwritten)
  BY <1>1, <1>2, <1>4, TakeKeepsContent
<1>8. Content(p)' = Zero
  <2>1. page_table'[p] = f
    BY <1>1, <1>2, TakeLemma DEF ClientsInv
  <2>2. data'[f] = Zero
    BY <1>2 DEF Install, ClientsInv, PoolInv, TypeOK
  <2> QED BY <1>1, <2>1, <2>2 DEF Content
<1>9. SavedSince'
  <2> SUFFICES ASSUME NEW q \in PageIds, disk'[q] # Unwritten
               PROVE  disk'[q] \in since'[q] /\ Content(q)' \in since'[q]
    BY DEF SavedSince
  <2>1. CASE q = p
    BY <2>1, <1>4, <1>8 DEF ClientsInv, ClientsTypeOK
  <2>2. CASE q # p
    BY <2>2, <1>7 DEF ClientsInv, ClientsTypeOK, SavedSince
  <2> QED BY <2>1, <2>2
<1>10. ~Uses(t, p) /\ Content(p) = Unwritten
  BY <1>1, UnpinnedUnused DEF Content
<1> QED BY <1>3, <1>5, <1>6, <1>7, <1>8, <1>9, <1>10 DEF ClientsInv

(* FetchPage of a page that is not resident.                               *)
LEMMA FetchMissKeepsInv ==
  ASSUME ClientsInv, NEW t \in Threads, NEW p \in PageIds, NEW f \in Frames,
         FetchMissIn(f, p), handle' = [handle EXCEPT ![t][p] = page_table'[p]],
         since' = since, wrote' = wrote
  PROVE  /\ ClientsInv'
         /\ page_table'[p] = f
         /\ Content(p) \in Data
         /\ \A q \in PageIds : Content(q)' = Content(q)
<1>1. /\ disk[p] # Unwritten /\ page_table[p] = NoFrame
      /\ TakeFree(f, p) \/ TakeVictim(f, p)
      /\ disk' = WrittenBack(f)
      /\ Install(f, p, disk'[p])
  BY DEF FetchMissIn, OnDisk
<1>2. disk'[p] = disk[p]
  BY <1>1, WrittenBackLemma DEF ClientsInv
<1>3. disk'[p] \in Data /\ NoFrame \notin Frames
  BY <1>1, <1>2, PoolAssumption DEF ClientsInv, PoolInv, TypeOK, Frames
<1>4. PoolInv'
  BY FetchMissKeepsPoolInv DEF ClientsInv
<1>5. page_table'[p] = f
  BY <1>1, TakeLemma DEF ClientsInv
<1>6. /\ handle' \in [Threads -> [PageIds -> Frames \union {NoFrame}]]
      /\ PinsMatchHandles' /\ HandlesValid' /\ WritersUse' /\ ResidentOnDisk' /\ CleanIsOnDisk'
  BY <1>1, <1>3, <1>5, TakenForClient
<1>7. ClientsTypeOK'
  BY <1>6 DEF ClientsInv, ClientsTypeOK
<1>8. \A q \in PageIds : q # p =>
        /\ Content(q)' = Content(q)
        /\ disk'[q] = disk[q] \/ (disk'[q] = Content(q) /\ disk[q] # Unwritten)
  BY <1>1, <1>3, TakeKeepsContent
<1>9. Content(p)' = Content(p) /\ Content(p) = disk[p]
  <2>1. data'[f] = disk[p]
    BY <1>1, <1>2 DEF Install, ClientsInv, PoolInv, TypeOK
  <2> QED BY <1>1, <1>3, <1>5, <2>1 DEF Content
<1>10. SavedSince'
  BY <1>2, <1>8, <1>9 DEF ClientsInv, SavedSince
<1> QED BY <1>2, <1>3, <1>4, <1>5, <1>6, <1>7, <1>8, <1>9, <1>10 DEF ClientsInv

(* FetchPage of a resident page.                                           *)
LEMMA FetchHitKeepsInv ==
  ASSUME ClientsInv, NEW t \in Threads, NEW p \in PageIds, ~Uses(t, p),
         FetchHit(p), handle' = [handle EXCEPT ![t][p] = page_table'[p]],
         since' = since, wrote' = wrote
  PROVE  /\ ClientsInv'
         /\ page_table'[p] \in Frames
         /\ Content(p) \in Data
         /\ \A q \in PageIds : Content(q)' = Content(q)
<1>1. PICK f \in Frames : f = page_table[p] /\ page_id[f] = p /\ f # NoFrame
  BY ResidentLemma DEF ClientsInv, FetchHit
<1>2. /\ pin_count' = [pin_count EXCEPT ![f] = pin_count[f] + 1]
      /\ UNCHANGED <<page_id, is_dirty, data, page_table, disk>>
  BY <1>1 DEF FetchHit, OneMore
<1>3. page_table'[p] = f
  BY <1>1, <1>2
<1>4. PoolInv'
  BY FetchHitKeepsPoolInv DEF ClientsInv
<1>5. /\ handle' \in [Threads -> [PageIds -> Frames \union {NoFrame}]]
      /\ \A u \in Threads, q \in PageIds :
           handle'[u][q] = IF u = t /\ q = p THEN f ELSE handle[u][q]
      /\ \A g \in Frames : g # f => Users(g)' = Users(g)
      /\ Cardinality(Users(f)') = Cardinality(Users(f)) + 1
  BY <1>1, <1>3, GivenHandle DEF ClientsInv
<1>6. ClientsTypeOK'
  BY <1>5 DEF ClientsInv, ClientsTypeOK
<1>7. PinsMatchHandles'
  BY <1>1, <1>2, <1>5 DEF ClientsInv, PoolInv, TypeOK, PinsMatchHandles
<1>8. HandlesValid'
  BY <1>1, <1>2, <1>5 DEF ClientsInv, HandlesValid, Uses
<1>9. WritersUse'
  BY <1>1, <1>5 DEF ClientsInv, WritersUse, Uses
<1>10. ResidentOnDisk' /\ CleanIsOnDisk' /\ SavedSince'
  BY <1>2 DEF ClientsInv, ResidentOnDisk, CleanIsOnDisk, SavedSince, Content
<1>11. Content(p) \in Data
  BY <1>1 DEF Content, ClientsInv, PoolInv, TypeOK
<1>12. \A q \in PageIds : Content(q)' = Content(q)
  BY <1>2 DEF Content
<1> QED BY <1>1, <1>3, <1>4, <1>6, <1>7, <1>8, <1>9, <1>10, <1>11, <1>12 DEF ClientsInv

(* UnpinPage, by a client that says so if it has written to the page.      *)
LEMMA UnpinKeepsInv ==
  ASSUME ClientsInv, NEW t \in Threads, NEW p \in PageIds, NEW dirty \in BOOLEAN,
         UnpinPage(t, p, dirty)
  PROVE  /\ ClientsInv'
         /\ \A q \in PageIds : Content(q)' = Content(q)
         /\ \A u \in Threads, q \in PageIds :
              Uses(u, q)' <=> Uses(u, q) /\ <<u, q>> # <<t, p>>
<1>1. PICK f \in Frames : /\ f = page_table[p] /\ handle[t][p] = f
                          /\ page_id[f] = p /\ pin_count[f] > 0
                          /\ f # NoFrame
  BY HandleLemma DEF UnpinPage
<1>2. /\ is_dirty' = [is_dirty EXCEPT ![f] = is_dirty[f] \/ dirty]
      /\ pin_count' = [pin_count EXCEPT ![f] = IF pin_count[f] > 0 THEN pin_count[f] - 1
                                                                  ELSE pin_count[f]]
      /\ UNCHANGED <<page_id, data, page_table, disk>>
      /\ <<t, p>> \in wrote => dirty
      /\ handle' = [handle EXCEPT ![t][p] = NoFrame]
      /\ wrote' = wrote \ {<<t, p>>}
      /\ since' = since
  BY <1>1 DEF UnpinPage, UnpinPg, Raised, HasPin
<1>3. PoolInv'
  BY UnpinPgKeepsPoolInv DEF ClientsInv, UnpinPage
<1>4. /\ handle' \in [Threads -> [PageIds -> Frames \union {NoFrame}]]
      /\ \A u \in Threads, q \in PageIds :
           handle'[u][q] = IF u = t /\ q = p THEN NoFrame ELSE handle[u][q]
      /\ \A g \in Frames : g # f => Users(g)' = Users(g)
      /\ Cardinality(Users(f)') = Cardinality(Users(f)) - 1
  <2>1. NoFrame \notin Frames
    BY PoolAssumption DEF Frames
  <2>2. /\ handle' \in [Threads -> [PageIds -> Frames \union {NoFrame}]]
        /\ \A u \in Threads, q \in PageIds :
             handle'[u][q] = IF u = t /\ q = p THEN NoFrame ELSE handle[u][q]
    BY <1>2 DEF ClientsInv, ClientsTypeOK
  <2>3. \A g \in Frames : g # f => Users(g)' = Users(g)
    BY <1>1, <2>1, <2>2 DEF Users
  <2>4. Users(f)' = Users(f) \ {<<t, p>>} /\ <<t, p>> \in Users(f)
    BY <1>1, <2>1, <2>2 DEF Users
  <2>5. IsFiniteSet(Users(f)) /\ Cardinality(Users(f)) \in Nat
    BY FiniteUsers DEF Users
  <2>6. Cardinality(Users(f) \ {<<t, p>>}) = Cardinality(Users(f)) - 1
    BY <2>4, <2>5, FS_RemoveElement
  <2> QED BY <2>2, <2>3, <2>4, <2>6
<1>5. ClientsTypeOK'
  BY <1>2, <1>4 DEF ClientsInv, ClientsTypeOK
<1>6. PinsMatchHandles'
  BY <1>1, <1>2, <1>4 DEF ClientsInv, PoolInv, TypeOK, PinsMatchHandles
<1>7. HandlesValid'
  BY <1>2, <1>4 DEF ClientsInv, HandlesValid, Uses
<1>8. WritersUse'
  BY <1>2, <1>4 DEF ClientsInv, WritersUse, Uses
<1>9. ResidentOnDisk' /\ SavedSince'
  BY <1>2 DEF ClientsInv, ResidentOnDisk, SavedSince, Content
<1>10. CleanIsOnDisk'
  <2> SUFFICES ASSUME NEW g \in Frames, page_id[g] # INVALID_PAGE_ID, ~is_dirty'[g],
                      \A u \in Threads : <<u, page_id[g]>> \notin wrote'
               PROVE  disk[page_id[g]] = data[g]
    BY <1>2, Zenon DEF CleanIsOnDisk
  <2>1. is_dirty \in [Frames -> BOOLEAN]
    BY DEF ClientsInv, PoolInv, TypeOK
  <2>2. CASE g = f
    <3>1. ~is_dirty[f] /\ ~dirty
      BY <1>1, <1>2, <2>1, <2>2, Zenon
    <3>2. \A u \in Threads : <<u, page_id[g]>> \notin wrote
      BY <1>1, <1>2, <2>2, <3>1
    <3> QED BY <2>2, <3>1, <3>2 DEF ClientsInv, CleanIsOnDisk
  <2>3. CASE g # f
    <3>1. ~is_dirty[g]
      BY <1>1, <1>2, <2>1, <2>3, Zenon
    <3>2. page_id[g] # p
      BY <1>1, <2>3 DEF ClientsInv, PoolInv, PageTableExact
    <3>3. \A u \in Threads : <<u, page_id[g]>> \notin wrote
      BY <1>2, <3>2
    <3> QED BY <3>1, <3>3 DEF ClientsInv, CleanIsOnDisk
  <2> QED BY <2>2, <2>3
<1>11. \A q \in PageIds : Content(q)' = Content(q)
  BY <1>2 DEF Content
<1>12. \A u \in Threads, q \in PageIds :
         Uses(u, q)' <=> Uses(u, q) /\ <<u, q>> # <<t, p>>
  BY <1>4 DEF Uses
<1> QED BY <1>3, <1>5, <1>6, <1>7, <1>8, <1>9, <1>10, <1>11, <1>12 DEF ClientsInv

(* A client writes through its pointer.                                    *)
LEMMA WriteKeepsInv ==
  ASSUME ClientsInv, NEW t \in Threads, NEW p \in PageIds, NEW v \in Data, WritePage(t, p, v)
  PROVE  /\ ClientsInv'
         /\ Content(p)' = v
         /\ \A q \in PageIds : q # p => Content(q)' = Content(q)
<1>1. PICK f \in Frames : f = handle[t][p] /\ page_id[f] = p /\ page_table[p] = f /\ f # NoFrame
  BY HandleLemma DEF WritePage
<1>2. /\ data' = [data EXCEPT ![f] = v]
      /\ wrote' = wrote \union {<<t, p>>}
      /\ since' = [since EXCEPT ![p] = since[p] \union {v}]
      /\ UNCHANGED <<page_id, pin_count, is_dirty, page_table, disk, handle>>
      /\ Uses(t, p)
  BY <1>1 DEF WritePage, ClientWrite, listVars
<1>3. PoolInv'
  BY <1>1, ClientWriteKeepsPoolInv DEF ClientsInv, WritePage
<1>4. ClientsTypeOK'
  BY <1>2 DEF ClientsInv, ClientsTypeOK
<1>5. PinsMatchHandles' /\ HandlesValid' /\ ResidentOnDisk'
  BY <1>2 DEF ClientsInv, PinsMatchHandles, Users, HandlesValid, Uses, ResidentOnDisk
<1>6. WritersUse'
  BY <1>2 DEF ClientsInv, WritersUse, Uses
<1>7. data'[f] = v /\ \A g \in Frames : g # f => data'[g] = data[g]
  BY <1>2 DEF ClientsInv, PoolInv, TypeOK
<1>8. Content(p)' = v
  BY <1>1, <1>2, <1>7 DEF Content
<1>9. ASSUME NEW q \in PageIds, q # p
      PROVE  Content(q)' = Content(q)
  <2>1. page_table[q] # f
    BY <1>1, <1>9 DEF ClientsInv, PoolInv, PageTableExact
  <2>2. CASE page_table[q] = NoFrame
    BY <1>2, <2>2 DEF Content
  <2>3. CASE page_table[q] # NoFrame
    <3>1. page_table[q] \in Frames
      BY <2>3 DEF ClientsInv, PoolInv, TypeOK
    <3> QED BY <1>2, <1>7, <2>1, <2>3, <3>1 DEF Content
  <2> QED BY <2>2, <2>3
<1>10. SavedSince'
  <2> SUFFICES ASSUME NEW q \in PageIds, disk[q] # Unwritten
               PROVE  disk[q] \in since'[q] /\ Content(q)' \in since'[q]
    BY <1>2 DEF SavedSince
  <2>1. disk[q] \in since[q] /\ Content(q) \in since[q]
    BY DEF ClientsInv, SavedSince
  <2>2. since'[q] = IF q = p THEN since[p] \union {v} ELSE since[q]
    BY <1>2 DEF ClientsInv, ClientsTypeOK
  <2> QED BY <1>8, <1>9, <2>1, <2>2
<1>11. CleanIsOnDisk'
  <2> SUFFICES ASSUME NEW g \in Frames, page_id[g] # INVALID_PAGE_ID, ~is_dirty[g],
                      \A u \in Threads : <<u, page_id[g]>> \notin wrote'
               PROVE  disk[page_id[g]] = data'[g]
    BY <1>2, Zenon DEF CleanIsOnDisk
  <2>1. g # f
    BY <1>1, <1>2
  <2>2. \A u \in Threads : <<u, page_id[g]>> \notin wrote
    BY <1>2
  <2> QED BY <1>7, <2>1, <2>2 DEF ClientsInv, CleanIsOnDisk
<1> QED BY <1>3, <1>4, <1>5, <1>6, <1>8, <1>9, <1>10, <1>11 DEF ClientsInv

(* FlushPage.                                                              *)
LEMMA FlushKeepsInv ==
  ASSUME ClientsInv, NEW p \in PageIds, FlushPage(p)
  PROVE  /\ ClientsInv'
         /\ Content(p) \in Data
         /\ \A q \in PageIds : Content(q)' = Content(q)
<1>1. PICK f \in Frames : f = page_table[p] /\ page_id[f] = p /\ f # NoFrame
  BY ResidentLemma DEF ClientsInv, FlushPage, FlushPg
<1>2. /\ disk' = [disk EXCEPT ![p] = data[f]]
      /\ since' = [since EXCEPT ![p] = {Content(p)}]
      /\ UNCHANGED <<page_id, pin_count, is_dirty, data, page_table, handle, wrote>>
  BY <1>1 DEF FlushPage, FlushPg, frameVars, listVars, clientVars
<1>3. PoolInv'
  BY FlushPgKeepsPoolInv DEF ClientsInv, FlushPage
<1>4. Content(p) = data[f] /\ data[f] \in Data
  BY <1>1 DEF Content, ClientsInv, PoolInv, TypeOK
<1>5. /\ \A q \in PageIds : disk'[q] = IF q = p THEN data[f] ELSE disk[q]
      /\ \A q \in PageIds : since'[q] = IF q = p THEN {data[f]} ELSE since[q]
  BY <1>2, <1>4 DEF ClientsInv, PoolInv, TypeOK, ClientsTypeOK
<1>6. \A q \in PageIds : Content(q)' = Content(q)
  BY <1>1, <1>2, <1>5 DEF Content
<1>7. ClientsTypeOK'
  BY <1>2, <1>4 DEF ClientsInv, ClientsTypeOK
<1>8. PinsMatchHandles' /\ HandlesValid' /\ WritersUse'
  BY <1>2 DEF ClientsInv, PinsMatchHandles, Users, HandlesValid, Uses, WritersUse
<1>9. ResidentOnDisk'
  BY <1>2, <1>4, <1>5, PoolAssumption DEF ClientsInv, ResidentOnDisk
<1>10. CleanIsOnDisk'
  <2> SUFFICES ASSUME NEW g \in Frames, page_id[g] # INVALID_PAGE_ID, ~is_dirty[g],
                      \A u \in Threads : <<u, page_id[g]>> \notin wrote
               PROVE  disk'[page_id[g]] = data[g]
    BY <1>2, Zenon DEF CleanIsOnDisk
  <2>1. page_id[g] \in PageIds /\ disk[page_id[g]] = data[g]
    BY DEF ClientsInv, PoolInv, TypeOK, CleanIsOnDisk
  <2>2. page_id[g] = p => g = f
    BY <1>1 DEF ClientsInv, PoolInv, PageTableExact
  <2> QED BY <1>5, <2>1, <2>2
<1>11. SavedSince'
  <2> SUFFICES ASSUME NEW q \in PageIds, disk'[q] # Unwritten
               PROVE  disk'[q] \in since'[q] /\ Content(q) \in since'[q]
    BY <1>6 DEF SavedSince
  <2>1. CASE q = p
    BY <2>1, <1>4, <1>5
  <2>2. CASE q # p
    BY <2>2, <1>5 DEF ClientsInv, SavedSince
  <2> QED BY <2>1, <2>2
<1> QED BY <1>3, <1>4, <1>6, <1>7, <1>8, <1>9, <1>10, <1>11 DEF ClientsInv

(* FlushAllPages writes each resident page, and no other.                  *)
LEMMA FlushAllKeepsInv ==
  ASSUME ClientsInv, FlushAllPages
  PROVE  /\ ClientsInv'
         /\ \A q \in PageIds : /\ Content(q)' = Content(q)
                               /\ page_table[q] # NoFrame => Content(q) \in Data
<1>1. /\ since' = [q \in PageIds |-> IF page_table[q] = NoFrame THEN since[q] ELSE {Content(q)}]
      /\ UNCHANGED <<page_id, pin_count, is_dirty, data, page_table, handle, wrote>>
  BY DEF FlushAllPages, FlushAllPgs, frameVars, listVars, clientVars
<1>2. PoolInv'
  BY FlushAllPgsKeepsPoolInv DEF ClientsInv, FlushAllPages
<1>3. ASSUME NEW q \in PageIds
      PROVE  disk'[q] = IF page_table[q] = NoFrame THEN disk[q] ELSE data[page_table[q]]
  <2>1. disk'[q] = IF \E f \in Frames : page_id[f] = q
                     THEN data[CHOOSE f \in Frames : page_id[f] = q]
                     ELSE disk[q]
    BY DEF FlushAllPages, FlushAllPgs, ClientsInv, PoolInv, TypeOK
  <2>2. CASE page_table[q] = NoFrame
    <3>1. ~\E f \in Frames : page_id[f] = q
      BY <2>2, PoolAssumption DEF ClientsInv, PoolInv, PageTableExact, Frames
    <3> QED BY <2>1, <2>2, <3>1
  <2>3. CASE page_table[q] # NoFrame
    <3> DEFINE g == CHOOSE f \in Frames : page_id[f] = q
    <3>1. page_table[q] \in Frames /\ page_id[page_table[q]] = q
      BY <2>3, ResidentLemma DEF ClientsInv
    <3>2. g \in Frames /\ page_id[g] = q
      BY <3>1
    <3>3. g = page_table[q]
      BY <3>2 DEF ClientsInv, PoolInv, PageTableExact
    <3> QED BY <2>1, <2>3, <3>1, <3>3
  <2> QED BY <2>2, <2>3
<1>4. ASSUME NEW q \in PageIds
      PROVE  /\ Content(q)' = Content(q)
             /\ page_table[q] # NoFrame => Content(q) \in Data /\ disk'[q] = Content(q)
  <2>1. CASE page_table[q] = NoFrame
    BY <2>1, <1>1, <1>3 DEF Content
  <2>2. CASE page_table[q] # NoFrame
    <3>1. page_table[q] \in Frames
      BY <2>2, ResidentLemma DEF ClientsInv
    <3> QED BY <2>2, <3>1, <1>1, <1>3 DEF Content, ClientsInv, PoolInv, TypeOK
  <2> QED BY <2>1, <2>2
<1>5. ClientsTypeOK'
  BY <1>1, <1>4 DEF ClientsInv, ClientsTypeOK
<1>6. PinsMatchHandles' /\ HandlesValid' /\ WritersUse'
  BY <1>1 DEF ClientsInv, PinsMatchHandles, Users, HandlesValid, Uses, WritersUse
<1>7. ResidentOnDisk'
  BY <1>1, <1>4, PoolAssumption DEF ResidentOnDisk
<1>8. CleanIsOnDisk'
  <2> SUFFICES ASSUME NEW g \in Frames, page_id[g] # INVALID_PAGE_ID
               PROVE  disk'[page_id[g]] = data[g]
    BY <1>1, Zenon DEF CleanIsOnDisk
  <2>1. page_id[g] \in PageIds /\ page_table[page_id[g]] = g /\ g # NoFrame
    BY PoolAssumption DEF ClientsInv, PoolInv, TypeOK, PageTableExact, Frames
  <2> QED BY <1>3, <2>1
<1>9. SavedSince'
  <2> SUFFICES ASSUME NEW q \in PageIds, disk'[q] # Unwritten
               PROVE  disk'[q] \in since'[q] /\ Content(q) \in since'[q]
    BY <1>4 DEF SavedSince
  <2>1. CASE page_table[q] = NoFrame
    BY <2>1, <1>1, <1>3 DEF ClientsInv, SavedSince
  <2>2. CASE page_table[q] # NoFrame
    BY <2>2, <1>1, <1>4
  <2> QED BY <2>1, <2>2
<1> QED BY <1>2, <1>4, <1>5, <1>6, <1>7, <1>8, <1>9 DEF ClientsInv

(* DeletePage of a resident page nobody has a pointer to: what it held is  *)
(* what the disk holds then.                                               *)
LEMMA DeleteKeepsInv ==
  ASSUME ClientsInv, NEW p \in PageIds, DeletePage(p)
  PROVE  /\ ClientsInv'
         /\ \A q \in PageIds : Content(q)' = Content(q)
<1>1. PICK f \in Frames : f = page_table[p] /\ page_id[f] = p /\ f # NoFrame /\ pin_count[f] = 0
  BY ResidentLemma DEF ClientsInv, DeletePage, DeletePg
<1>2. /\ disk' = IF is_dirty[f] THEN [disk EXCEPT ![p] = data[f]] ELSE disk
      /\ is_dirty' = [is_dirty EXCEPT ![f] = FALSE]
      /\ page_id' = [page_id EXCEPT ![f] = INVALID_PAGE_ID]
      /\ data' = [data EXCEPT ![f] = Zero]
      /\ page_table' = [page_table EXCEPT ![p] = NoFrame]
      /\ UNCHANGED <<pin_count, handle, wrote, since>>
  BY <1>1 DEF DeletePage, DeletePg, clientVars
<1>3. PoolInv'
  BY DeletePgKeepsPoolInv DEF ClientsInv, DeletePage
<1>4. /\ Users(f) = {}
      /\ \A t \in Threads : <<t, p>> \notin wrote
      /\ \A t \in Threads, q \in PageIds : handle[t][q] # f
  <2>1. Users(f) = {} /\ \A t \in Threads : <<t, p>> \notin wrote
    BY <1>1, UnpinnedUnused
  <2>2. ASSUME NEW t \in Threads, NEW q \in PageIds, handle[t][q] = f
        PROVE  FALSE
    <3>1. <<t, q>> \in Users(f)
      BY <2>2 DEF Users
    <3> QED BY <2>1, <3>1
  <2> QED BY <2>1, <2>2
<1>5. /\ \A g \in Frames : g # f => /\ page_id'[g] = page_id[g]
                                    /\ is_dirty'[g] = is_dirty[g]
                                    /\ data'[g] = data[g]
      /\ page_id'[f] = INVALID_PAGE_ID
      /\ page_table'[p] = NoFrame
      /\ \A q \in PageIds : q # p => page_table'[q] = page_table[q] /\ page_table[q] # f
  BY <1>1, <1>2 DEF ClientsInv, PoolInv, TypeOK, PageTableExact
<1>6. disk'[p] = data[f] /\ disk'[p] \in Data /\ \A q \in PageIds : q # p => disk'[q] = disk[q]
  <2>1. ~is_dirty[f] => disk[p] = data[f]
    <3>1. p # INVALID_PAGE_ID
      BY DEF PageIds, INVALID_PAGE_ID
    <3> QED BY <1>1, <1>4, <3>1, Zenon DEF ClientsInv, CleanIsOnDisk
  <2>2. data[f] \in Data /\ disk \in [PageIds \union {INVALID_PAGE_ID} -> Data \union {Unwritten}]
    BY <1>1 DEF ClientsInv, PoolInv, TypeOK
  <2> QED BY <1>2, <2>1, <2>2
<1>7. ASSUME NEW q \in PageIds
      PROVE  Content(q)' = Content(q)
  <2>1. CASE q = p
    BY <2>1, <1>1, <1>5, <1>6 DEF Content
  <2>2. CASE q # p /\ page_table[q] = NoFrame
    BY <2>2, <1>5, <1>6 DEF Content
  <2>3. CASE q # p /\ page_table[q] # NoFrame
    <3>1. page_table[q] \in Frames
      BY <2>3, ResidentLemma DEF ClientsInv
    <3> QED BY <2>3, <3>1, <1>5 DEF Content
  <2> QED BY <2>1, <2>2, <2>3
<1>8. ClientsTypeOK' /\ PinsMatchHandles' /\ WritersUse'
  BY <1>2 DEF ClientsInv, ClientsTypeOK, PinsMatchHandles, Users, WritersUse, Uses
<1>9. HandlesValid'
  <2> SUFFICES ASSUME NEW t \in Threads, NEW q \in PageIds, Uses(t, q)
               PROVE  page_id'[handle[t][q]] = q
    BY <1>2 DEF HandlesValid, Uses
  <2>1. handle[t][q] \in Frames /\ handle[t][q] # f /\ page_id[handle[t][q]] = q
    BY <1>4, HandleLemma
  <2> QED BY <2>1, <1>5
<1>10. ResidentOnDisk'
  BY <1>5, <1>6 DEF ClientsInv, ResidentOnDisk
<1>11. CleanIsOnDisk'
  <2> SUFFICES ASSUME NEW g \in Frames, page_id'[g] # INVALID_PAGE_ID, ~is_dirty'[g],
                      \A u \in Threads : <<u, page_id'[g]>> \notin wrote
               PROVE  disk'[page_id'[g]] = data'[g]
    BY <1>2, Zenon DEF CleanIsOnDisk
  <2>1. g # f /\ page_id'[g] = page_id[g] /\ data'[g] = data[g] /\ is_dirty'[g] = is_dirty[g]
    BY <1>5, Zenon
  <2>2. page_id[g] \in PageIds /\ page_id[g] # p
    BY <1>1, <2>1 DEF ClientsInv, PoolInv, TypeOK, PageTableExact
  <2>3. disk[page_id[g]] = data[g]
    BY <2>1, Zenon DEF ClientsInv, CleanIsOnDisk
  <2> QED BY <1>6, <2>1, <2>2, <2>3
<1>12. SavedSince'
  <2> SUFFICES ASSUME NEW q \in PageIds, disk'[q] # Unwritten
               PROVE  disk'[q] \in since[q] /\ Content(q) \in since[q]
    BY <1>2, <1>7 DEF SavedSince
  <2>1. CASE q = p
    <3>1. disk[p] # Unwritten /\ Content(p) = data[f]
      BY <1>1 DEF ClientsInv, ResidentOnDisk, Content
    <3> QED BY <2>1, <3>1, <1>6 DEF ClientsInv, SavedSince
  <2>2. CASE q # p
    BY <2>2, <1>6 DEF ClientsInv, SavedSince
  <2> QED BY <2>1, <2>2
<1> QED BY <1>3, <1>7, <1>8, <1>9, <1>10, <1>11, <1>12 DEF ClientsInv

(* A new pool is made on the disk the old one left.                        *)
LEMMA RestartKeepsInv ==
  ASSUME ClientsInv, Restart
  PROVE  /\ ClientsInv'
         /\ \A q \in PageIds : Content(q)' = disk[q]
<1>1. /\ page_id' = [f \in Frames |-> INVALID_PAGE_ID]
      /\ pin_count' = [f \in Frames |-> 0]
      /\ is_dirty' = [f \in Frames |-> FALSE]
      /\ data' = [f \in Frames |-> Zero]
      /\ page_table' = [p \in PageIds |-> NoFrame]
      /\ replacer' = <<>>
      /\ free_list' = [i \in 1 .. PoolSize |-> i - 1]
      /\ next_page_id' = InstanceIndex
      /\ handle' = [t \in Threads |-> [p \in PageIds |-> NoFrame]]
      /\ wrote' = {}
      /\ since' = [p \in PageIds |-> {disk[p]} \ {Unwritten}]
      /\ disk' = disk /\ stuck' = stuck
  BY DEF Restart, Constructed
<1>2. free_list' \in Seq(Frames) /\ Range(free_list') = Frames /\ IsInjective(free_list')
  BY <1>1, FirstFreeList
<1>3. replacer' \in Seq(Frames) /\ Range(replacer') = {} /\ IsInjective(replacer')
  BY <1>1 DEF Range, IsInjective
<1>4. TypeOK' /\ NoSelfDeadlock'
  <2>1. next_page_id' \in Nat
    BY <1>1, PoolAssumption
  <2> QED BY <1>1, <1>2, <1>3, <2>1, PoolAssumption DEF ClientsInv, PoolInv, TypeOK, NoSelfDeadlock
<1>5. FramesAccounted'
  BY <1>1, <1>2, <1>3 DEF FramesAccounted
<1>6. PageTableExact'
  BY <1>1, PoolAssumption DEF PageTableExact, INVALID_PAGE_ID, Frames, PageIds
<1>7. ASSUME NEW q \in PageIds
      PROVE  Content(q)' = disk[q]
  BY <1>1 DEF Content
<1>8. ClientsTypeOK'
  BY <1>1 DEF ClientsInv, PoolInv, TypeOK, ClientsTypeOK
<1>9. HandlesValid' /\ WritersUse' /\ ResidentOnDisk' /\ CleanIsOnDisk'
  BY <1>1 DEF HandlesValid, Uses, WritersUse, ResidentOnDisk, CleanIsOnDisk
<1>10. PinsMatchHandles'
  <2>1. \A f \in Frames : Users(f)' = {}
    BY <1>1, PoolAssumption DEF Users, Frames
  <2> QED BY <2>1, <1>1, FS_EmptySet DEF PinsMatchHandles
<1>11. SavedSince'
  BY <1>1, <1>7 DEF SavedSince
<1> QED BY <1>4, <1>5, <1>6, <1>7, <1>8, <1>9, <1>10, <1>11 DEF ClientsInv, PoolInv

(* A call that the pool refuses gives no pointer.                          *)
LEMMA RefusedFetch ==
  ASSUME ClientsInv, NEW t \in Threads, NEW p \in PageIds, ~Uses(t, p), UNCHANGED vars,
         page_table[p] = NoFrame, handle' = [handle EXCEPT ![t][p] = page_table'[p]]
  PROVE  handle' = handle
<1>1. handle[t][p] = NoFrame /\ page_table'[p] = NoFrame
  BY DEF Uses, vars, listVars
<1> QED BY <1>1 DEF ClientsInv, ClientsTypeOK

clientsVars == <<vars, clientVars, since>>

LEMMA StutterKeepsInv == ClientsInv /\ UNCHANGED clientsVars => ClientsInv'
<1> SUFFICES ASSUME ClientsInv, UNCHANGED clientsVars PROVE ClientsInv'
  OBVIOUS
<1> USE DEF clientsVars, vars, frameVars, listVars, clientVars
<1>1. PoolInv'
  BY DEF ClientsInv, PoolInv, TypeOK, FramesAccounted, PageTableExact, NoSelfDeadlock
<1>2. ClientsTypeOK' /\ PinsMatchHandles' /\ HandlesValid' /\ WritersUse'
  BY DEF ClientsInv, ClientsTypeOK, PinsMatchHandles, Users, HandlesValid, Uses, WritersUse
<1>3. ResidentOnDisk' /\ CleanIsOnDisk' /\ SavedSince'
  BY DEF ClientsInv, ResidentOnDisk, CleanIsOnDisk, SavedSince, Content
<1> QED BY <1>1, <1>2, <1>3 DEF ClientsInv

(* Every step of the clients and of the pool keeps the invariant.          *)
LEMMA ClientsNextKeepsInv == ClientsInv /\ [ClientsNext]_clientsVars => ClientsInv'
<1> SUFFICES ASSUME ClientsInv, [ClientsNext]_clientsVars PROVE ClientsInv'
  OBVIOUS
<1>1. CASE UNCHANGED clientsVars
  BY <1>1, StutterKeepsInv
<1>2. ASSUME NEW t \in Threads, NewPage(t)
      PROVE  ClientsInv'
  <2>1. CASE NewPgRefused /\ UNCHANGED <<clientVars, since>>
    BY <2>1, <1>1 DEF NewPgRefused, clientsVars
  <2>2. CASE \E f \in Frames, p \in PageIds :
               /\ disk[p] = Unwritten
               /\ NewPgIn(f, p)
               /\ handle' = [handle EXCEPT ![t][p] = f]
               /\ since' = [since EXCEPT ![p] = {Zero}]
               /\ wrote' = wrote
    BY <2>2, NewPageKeepsInv
  <2> QED BY <1>2, <2>1, <2>2 DEF NewPage
<1>3. ASSUME NEW t \in Threads, NEW p \in PageIds, FetchPage(t, p)
      PROVE  ClientsInv'
  <2>1. /\ ~Uses(t, p) /\ FetchPg(p)
        /\ handle' = [handle EXCEPT ![t][p] = page_table'[p]]
        /\ wrote' = wrote /\ since' = since
    BY <1>3 DEF FetchPage
  <2>2. CASE FetchHit(p)
    BY <2>1, <2>2, FetchHitKeepsInv
  <2>3. ASSUME NEW f \in Frames, FetchMissIn(f, p)
        PROVE  ClientsInv'
    BY <2>1, <2>3, FetchMissKeepsInv
  <2>4. CASE FetchRefused(p)
    <3>1. handle' = handle
      BY <2>1, <2>4, RefusedFetch DEF FetchRefused
    <3> QED BY <2>1, <2>4, <3>1, <1>1 DEF FetchRefused, clientsVars, clientVars
  <2> QED BY <2>1, <2>2, <2>3, <2>4 DEF FetchPg
<1>4. ASSUME NEW t \in Threads, NEW p \in PageIds, NEW dirty \in BOOLEAN, UnpinPage(t, p, dirty)
      PROVE  ClientsInv'
  BY <1>4, UnpinKeepsInv
<1>5. ASSUME NEW t \in Threads, NEW p \in PageIds, NEW v \in Data, WritePage(t, p, v)
      PROVE  ClientsInv'
  BY <1>5, WriteKeepsInv
<1>6. ASSUME NEW p \in PageIds, FlushPage(p)
      PROVE  ClientsInv'
  BY <1>6, FlushKeepsInv
<1>7. ASSUME NEW p \in PageIds, DeletePage(p)
      PROVE  ClientsInv'
  BY <1>7, DeleteKeepsInv
<1>8. CASE FlushAllPages
  BY <1>8, FlushAllKeepsInv
<1>9. CASE Restart
  BY <1>9, RestartKeepsInv
<1> QED BY <1>1, <1>2, <1>3, <1>4, <1>5, <1>6, <1>7, <1>8, <1>9 DEF ClientsNext

(* Whatever the clients do, and whenever the program is started again.     *)
LEMMA ClientsInvariance == ClientsSpec => []ClientsInv
BY ClientsInitInv, ClientsNextKeepsInv, PTL DEF ClientsSpec, clientsVars
-----------------------------------------------------------------------------
(* A frame's pin count is the number of pointers to it, for any number of  *)
(* threads: no pin is lost or leaked.                                      *)
THEOREM PinsAreHandles == ClientsSpec => []PinsMatchHandles
<1>1. ClientsInv => PinsMatchHandles
  BY DEF ClientsInv
<1> QED BY <1>1, ClientsInvariance, PTL

(* The pointer a client holds leads to the page it asked for.              *)
THEOREM HandlesAreValid == ClientsSpec => []HandlesValid
<1>1. ClientsInv => HandlesValid
  BY DEF ClientsInv
<1> QED BY <1>1, ClientsInvariance, PTL

(* A page that is not dirty, and that no client is about to call dirty, is *)
(* on the disk as it is in memory.                                         *)
THEOREM CleanPagesAreOnDisk == ClientsSpec => []CleanIsOnDisk
<1>1. ClientsInv => CleanIsOnDisk
  BY DEF ClientsInv
<1> QED BY <1>1, ClientsInvariance, PTL
-----------------------------------------------------------------------------
(* The pages in use, as the page store sees them.                          *)
InUse == {u \in Threads \X PageIds : Uses(u[1], u[2])}

(* Each page in use has a frame of its own, so no more pages are in use    *)
(* than the pool has frames.                                               *)
LEMMA PagesFit == ClientsInv => Cardinality({u[2] : u \in InUse}) <= PoolSize
<1> SUFFICES ASSUME ClientsInv PROVE Cardinality({u[2] : u \in InUse}) <= PoolSize
  OBVIOUS
<1> DEFINE P == {u[2] : u \in InUse}
           F == [q \in P |-> page_table[q]]
<1>1. \A q \in P : q \in PageIds /\ page_table[q] \in Frames /\ page_id[page_table[q]] = q
  BY HandleLemma DEF InUse
<1>2. F \in Injection(P, Frames)
  BY <1>1 DEF Injection, IsInjective
<1>3. IsFiniteSet(Frames) /\ Cardinality(Frames) = PoolSize
  <2>1. PoolSize \in Nat /\ 0 \in Int /\ PoolSize - 1 \in Int
    BY PoolAssumption
  <2>2. /\ IsFiniteSet(0 .. PoolSize - 1)
        /\ Cardinality(0 .. PoolSize - 1)
             = IF 0 > PoolSize - 1 THEN 0 ELSE (PoolSize - 1) - 0 + 1
    BY <2>1, FS_Interval
  <2> QED BY <2>1, <2>2 DEF Frames
<1> HIDE DEF P, F
<1>4. Cardinality(P) <= Cardinality(Frames)
  BY <1>2, <1>3, FS_Injection
<1> QED BY <1>3, <1>4 DEF P

(* The page store counts as the pool does.                                 *)
LEMMA SameCardinality ==
  ASSUME NEW S
  PROVE  Store!Cardinality(S) = Cardinality(S)
BY DEF Store!Cardinality, Cardinality

(* What an existing page holds is data.                                    *)
LEMMA ExistingPage ==
  ASSUME ClientsInv, NEW p \in PageIds
  PROVE  /\ disk[p] = Unwritten <=> Content(p) = Unwritten
         /\ Content(p) \in Data \union {Unwritten}
<1>1. disk[p] \in Data \union {Unwritten} /\ Unwritten \notin Data
  BY PoolAssumption DEF ClientsInv, PoolInv, TypeOK
<1>2. CASE page_table[p] = NoFrame
  BY <1>1, <1>2 DEF Content
<1>3. CASE page_table[p] # NoFrame
  <2>1. page_table[p] \in Frames /\ disk[p] # Unwritten
    BY <1>3, ResidentLemma DEF ClientsInv, ResidentOnDisk
  <2>2. data[page_table[p]] \in Data
    BY <2>1 DEF ClientsInv, PoolInv, TypeOK
  <2> QED BY <1>1, <1>3, <2>1, <2>2 DEF Content
<1> QED BY <1>2, <1>3

(* One more pointer is one more page in use.                               *)
LEMMA GivenUse ==
  ASSUME ClientsInv, ClientsInv', NEW t \in Threads, NEW p \in PageIds, NEW f \in Frames,
         ~Uses(t, p), handle' = [handle EXCEPT ![t][p] = f]
  PROVE  Store!Use(t, p)
<1>1. ClientsInv' => (Cardinality({u[2] : u \in InUse}) <= PoolSize)'
  BY PagesFit, PTL
<1>2. \A u \in Threads, q \in PageIds :
        handle'[u][q] = IF u = t /\ q = p THEN f ELSE handle[u][q]
  BY GivenHandle DEF ClientsInv
<1>3. f # NoFrame
  BY PoolAssumption DEF Frames
<1>4. \A u \in Threads, q \in PageIds : Uses(u, q)' <=> Uses(u, q) \/ (u = t /\ q = p)
  BY <1>2, <1>3 DEF Uses
<1>5. InUse' = InUse \union {<<t, p>>}
  BY <1>4 DEF InUse
<1>6. Cardinality({u[2] : u \in InUse'}) <= PoolSize
  BY <1>1
<1>7. Store!Cardinality({u[2] : u \in InUse'}) <= PoolSize
  BY <1>6, SameCardinality
<1> QED BY <1>5, <1>7 DEF Store!Use, InUse
-----------------------------------------------------------------------------
(* NewPage is the store's New.                                             *)
LEMMA NewPageIsNew ==
  ASSUME ClientsInv, NEW t \in Threads, NEW p \in PageIds, NEW f \in Frames,
         disk[p] = Unwritten, NewPgIn(f, p), handle' = [handle EXCEPT ![t][p] = f],
         since' = [since EXCEPT ![p] = {Zero}], wrote' = wrote
  PROVE  Store!DurableNext
<1>1. /\ ClientsInv' /\ ~Uses(t, p)
      /\ Content(p) = Unwritten /\ Content(p)' = Zero
      /\ \A q \in PageIds : q # p => Content(q)' = Content(q)
  BY NewPageKeepsInv
<1>2. Store!Use(t, p)
  BY <1>1, GivenUse
<1>3. [q \in PageIds |-> Content(q)'] = [[q \in PageIds |-> Content(q)] EXCEPT ![p] = Zero]
  BY <1>1
<1>4. Store!New(t, p)
  BY <1>1, <1>2, <1>3 DEF Store!New, Store!Exists
<1> QED BY <1>4 DEF Store!DurableNext

(* FetchPage is the store's Open.                                          *)
LEMMA FetchPageIsOpen ==
  ASSUME ClientsInv, ClientsInv', NEW t \in Threads, NEW p \in PageIds, ~Uses(t, p),
         page_table'[p] \in Frames, handle' = [handle EXCEPT ![t][p] = page_table'[p]],
         since' = since, Content(p) \in Data, \A q \in PageIds : Content(q)' = Content(q)
  PROVE  Store!DurableNext
<1>1. Store!Use(t, p)
  BY GivenUse
<1>2. [q \in PageIds |-> Content(q)'] = [q \in PageIds |-> Content(q)]
  OBVIOUS
<1>3. Store!Open(t, p)
  BY <1>1, <1>2, PoolAssumption DEF Store!Open, Store!Exists
<1> QED BY <1>3 DEF Store!DurableNext

(* UnpinPage is the store's Close.                                         *)
LEMMA UnpinPageIsClose ==
  ASSUME ClientsInv, NEW t \in Threads, NEW p \in PageIds, NEW dirty \in BOOLEAN,
         UnpinPage(t, p, dirty)
  PROVE  Store!DurableNext
<1>1. /\ \A q \in PageIds : Content(q)' = Content(q)
      /\ \A u \in Threads, q \in PageIds :
           Uses(u, q)' <=> Uses(u, q) /\ <<u, q>> # <<t, p>>
      /\ since' = since
  BY UnpinKeepsInv DEF UnpinPage
<1>2. InUse' = InUse \ {<<t, p>>}
  BY <1>1 DEF InUse
<1>3. [q \in PageIds |-> Content(q)'] = [q \in PageIds |-> Content(q)]
  BY <1>1
<1>4. Store!Close(t, p)
  BY <1>2, <1>3 DEF Store!Close, InUse
<1> QED BY <1>1, <1>4 DEF Store!DurableNext

(* WritePage is the store's Write.                                         *)
LEMMA WritePageIsWrite ==
  ASSUME ClientsInv, NEW t \in Threads, NEW p \in PageIds, NEW v \in Data, WritePage(t, p, v)
  PROVE  Store!DurableNext
<1>1. /\ Content(p)' = v
      /\ \A q \in PageIds : q # p => Content(q)' = Content(q)
      /\ since' = [since EXCEPT ![p] = @ \union {v}]
      /\ handle' = handle /\ Uses(t, p)
  BY WriteKeepsInv DEF WritePage
<1>2. InUse' = InUse /\ <<t, p>> \in InUse
  BY <1>1 DEF InUse, Uses
<1>3. [q \in PageIds |-> Content(q)'] = [[q \in PageIds |-> Content(q)] EXCEPT ![p] = v]
  BY <1>1
<1>4. Store!Write(t, p, v)
  BY <1>2, <1>3 DEF Store!Write, InUse
<1> QED BY <1>1, <1>4 DEF Store!DurableNext

(* FlushPage and FlushAllPages are the store's Flush, and the store does   *)
(* not notice DeletePage.                                                  *)
LEMMA FlushPageIsFlush ==
  ASSUME ClientsInv, NEW p \in PageIds, FlushPage(p)
  PROVE  Store!DurableNext
<1>1. /\ Content(p) \in Data
      /\ \A q \in PageIds : Content(q)' = Content(q)
      /\ since' = [since EXCEPT ![p] = {Content(p)}]
      /\ handle' = handle
  BY FlushKeepsInv DEF FlushPage, clientVars
<1>2. InUse' = InUse
  BY <1>1 DEF InUse, Uses
<1>3. [q \in PageIds |-> Content(q)'] = [q \in PageIds |-> Content(q)]
  BY <1>1
<1>4. UNCHANGED Store!vars
  BY <1>2, <1>3 DEF Store!vars, InUse
<1>5. \A q \in PageIds : \/ since'[q] = since[q]
                         \/ Content(q) # Unwritten /\ since'[q] = {Content(q)}
  BY <1>1, PoolAssumption DEF ClientsInv, ClientsTypeOK
<1>6. Store!Flush
  BY <1>4, <1>5 DEF Store!Flush, Store!Exists
<1> QED BY <1>6 DEF Store!DurableNext

LEMMA FlushAllIsFlush ==
  ASSUME ClientsInv, FlushAllPages
  PROVE  Store!DurableNext
<1>1. /\ \A q \in PageIds : /\ Content(q)' = Content(q)
                            /\ page_table[q] # NoFrame => Content(q) \in Data
      /\ since' = [q \in PageIds |-> IF page_table[q] = NoFrame THEN since[q] ELSE {Content(q)}]
      /\ handle' = handle
  BY FlushAllKeepsInv DEF FlushAllPages, clientVars
<1>2. InUse' = InUse
  BY <1>1 DEF InUse, Uses
<1>3. [q \in PageIds |-> Content(q)'] = [q \in PageIds |-> Content(q)]
  BY <1>1
<1>4. UNCHANGED Store!vars
  BY <1>2, <1>3 DEF Store!vars, InUse
<1>5. \A q \in PageIds : \/ since'[q] = since[q]
                         \/ Content(q) # Unwritten /\ since'[q] = {Content(q)}
  BY <1>1, PoolAssumption
<1>6. Store!Flush
  BY <1>4, <1>5 DEF Store!Flush, Store!Exists
<1> QED BY <1>6 DEF Store!DurableNext

LEMMA DeletePageIsHidden ==
  ASSUME ClientsInv, NEW p \in PageIds, DeletePage(p)
  PROVE  UNCHANGED Store!durableVars
<1>1. /\ \A q \in PageIds : Content(q)' = Content(q)
      /\ since' = since
      /\ handle' = handle
  BY DeleteKeepsInv DEF DeletePage, clientVars
<1>2. InUse' = InUse
  BY <1>1 DEF InUse, Uses
<1>3. [q \in PageIds |-> Content(q)'] = [q \in PageIds |-> Content(q)]
  BY <1>1
<1> QED BY <1>1, <1>2, <1>3 DEF Store!durableVars, Store!vars, InUse

(* A restart of the program is a restart of the store.                     *)
LEMMA RestartIsRestart ==
  ASSUME ClientsInv, Restart
  PROVE  Store!DurableNext
<1>1. /\ handle' = [t \in Threads |-> [p \in PageIds |-> NoFrame]]
      /\ since' = [p \in PageIds |-> {disk[p]} \ {Unwritten}]
      /\ \A q \in PageIds : Content(q)' = disk[q]
  BY RestartKeepsInv DEF Restart
<1>2. InUse' = {}
  BY <1>1 DEF InUse, Uses
<1>3. ASSUME NEW q \in PageIds
      PROVE  IF Content(q) # Unwritten THEN Content(q)' \in since[q] ELSE Content(q)' = Unwritten
  BY <1>1, ExistingPage DEF ClientsInv, SavedSince
<1>4. since' = [q \in PageIds |-> IF Content(q) # Unwritten THEN {Content(q)'} ELSE {}]
  <2>1. \A q \in PageIds :
          {disk[q]} \ {Unwritten} = IF Content(q) # Unwritten THEN {Content(q)'} ELSE {}
    BY <1>1, ExistingPage
  <2> QED BY <1>1, <2>1
<1>5. Store!Restart
  BY <1>2, <1>3, <1>4 DEF Store!Restart, Store!Exists, InUse
<1> QED BY <1>5 DEF Store!DurableNext
-----------------------------------------------------------------------------
(* Every step of the pool and its clients is a step of the durable page    *)
(* store, or changes nothing the store speaks of.                          *)
LEMMA StepIsStoreStep ==
  ClientsInv /\ [ClientsNext]_clientsVars => [Store!DurableNext]_(Store!durableVars)
<1> SUFFICES ASSUME ClientsInv, [ClientsNext]_clientsVars
             PROVE  Store!DurableNext \/ UNCHANGED Store!durableVars
  OBVIOUS
<1>1. CASE UNCHANGED clientsVars
  BY <1>1 DEF clientsVars, vars, frameVars, listVars, clientVars, Store!durableVars, Store!vars,
              Content, Uses
<1>2. ASSUME NEW t \in Threads, NewPage(t)
      PROVE  Store!DurableNext \/ UNCHANGED Store!durableVars
  <2>1. CASE NewPgRefused /\ UNCHANGED <<clientVars, since>>
    BY <2>1, <1>1 DEF NewPgRefused, clientsVars
  <2>2. CASE \E f \in Frames, p \in PageIds :
               /\ disk[p] = Unwritten
               /\ NewPgIn(f, p)
               /\ handle' = [handle EXCEPT ![t][p] = f]
               /\ since' = [since EXCEPT ![p] = {Zero}]
               /\ wrote' = wrote
    BY <2>2, NewPageIsNew
  <2> QED BY <1>2, <2>1, <2>2 DEF NewPage
<1>3. ASSUME NEW t \in Threads, NEW p \in PageIds, FetchPage(t, p)
      PROVE  Store!DurableNext \/ UNCHANGED Store!durableVars
  <2>1. /\ ~Uses(t, p) /\ FetchPg(p)
        /\ handle' = [handle EXCEPT ![t][p] = page_table'[p]]
        /\ wrote' = wrote /\ since' = since
    BY <1>3 DEF FetchPage
  <2>2. CASE FetchHit(p)
    BY <2>1, <2>2, FetchHitKeepsInv, FetchPageIsOpen
  <2>3. ASSUME NEW f \in Frames, FetchMissIn(f, p)
        PROVE  Store!DurableNext
    <3>1. /\ ClientsInv' /\ page_table'[p] \in Frames /\ Content(p) \in Data
          /\ \A q \in PageIds : Content(q)' = Content(q)
      BY <2>1, <2>3, FetchMissKeepsInv
    <3> QED BY <2>1, <3>1, FetchPageIsOpen
  <2>4. CASE FetchRefused(p)
    <3>1. handle' = handle
      BY <2>1, <2>4, RefusedFetch DEF FetchRefused
    <3> QED BY <2>1, <2>4, <3>1, <1>1 DEF FetchRefused, clientsVars, clientVars
  <2> QED BY <2>1, <2>2, <2>3, <2>4 DEF FetchPg
<1>4. ASSUME NEW t \in Threads, NEW p \in PageIds, NEW dirty \in BOOLEAN, UnpinPage(t, p, dirty)
      PROVE  Store!DurableNext
  BY <1>4, UnpinPageIsClose
<1>5. ASSUME NEW t \in Threads, NEW p \in PageIds, NEW v \in Data, WritePage(t, p, v)
      PROVE  Store!DurableNext
  BY <1>5, WritePageIsWrite
<1>6. ASSUME NEW p \in PageIds, FlushPage(p)
      PROVE  Store!DurableNext
  BY <1>6, FlushPageIsFlush
<1>7. ASSUME NEW p \in PageIds, DeletePage(p)
      PROVE  UNCHANGED Store!durableVars
  BY <1>7, DeletePageIsHidden
<1>8. CASE FlushAllPages
  BY <1>8, FlushAllIsFlush
<1>9. CASE Restart
  BY <1>9, RestartIsRestart
<1> QED BY <1>1, <1>2, <1>3, <1>4, <1>5, <1>6, <1>7, <1>8, <1>9 DEF ClientsNext

(* The pool and its restarts are a durable page store: a client reads what *)
(* was last written to a page, whatever was evicted or deleted since, and  *)
(* a restart takes no page back behind its last flush.                     *)
THEOREM ImplementsDurableStore == ClientsSpec => IsDurableStore
<1>1. ClientsInit => Store!DurableInit
  BY DEF ClientsInit, Init, Constructed, Store!DurableInit, Store!Init, Content, Uses
<1> QED
  BY <1>1, ClientsInvariance, StepIsStoreStep, PTL
  DEF ClientsSpec, clientsVars, IsDurableStore, Store!DurableSpec
=============================================================================
