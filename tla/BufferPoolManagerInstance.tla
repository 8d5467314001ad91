---------------------- MODULE BufferPoolManagerInstance ----------------------
(***************************************************************************)
(* BufferPoolManagerInstance: PoolSize frames that cache the pages of a    *)
(* disk.  Every member function holds latch_ for its whole body, so each   *)
(* is one step; a client that holds a pinned frame writes to it without    *)
(* the latch, in steps of its own.                                         *)
(*                                                                         *)
(* The callers keep one rule: they fetch only pages that NewPage has given *)
(* out.  They may unpin, flush and delete whatever they like.              *)
(***************************************************************************)
EXTENDS LRUList, FiniteSets

CONSTANTS PoolSize,      \* pool_size_
          NumInstances,  \* num_instances_
          InstanceIndex, \* instance_index_
          MaxPageId,     \* bound: no id above this one is allocated
          MaxPins,       \* bound: FetchPage pins a page at most so often
          Data,          \* what a page can hold
          Zero,          \* the page ResetMemory leaves
          Unwritten,     \* a page of the disk that was never written
          NoFrame        \* page_table[p] when the table has no entry for p

ASSUME PoolAssumption ==
  /\ PoolSize \in Nat
  /\ NumInstances \in Nat \ {0}
  /\ InstanceIndex \in 0 .. NumInstances - 1
  /\ MaxPageId \in Nat
  /\ MaxPins \in Nat
  /\ Zero \in Data
  /\ Unwritten \notin Data
  /\ NoFrame \notin 0 .. PoolSize - 1

INVALID_PAGE_ID == -1

Frames == 0 .. PoolSize - 1

PageIds == 0 .. MaxPageId

VARIABLES page_id,      \* the members of pages_[f]
          pin_count,
          is_dirty,
          data,
          page_table,   \* page_table_
          replacer,     \* the list of replacer_
          free_list,    \* free_list_
          next_page_id, \* next_page_id_
          disk,         \* what WritePage last wrote under each id
          stuck         \* a thread waits for replacer_'s latch, which it
                        \* holds, and holds latch_: no call returns any more

frameVars == <<page_id, pin_count, is_dirty, data>>
listVars == <<page_table, replacer, free_list>>
vars == <<frameVars, listVars, next_page_id, disk, stuck>>

(* What the constructor makes of the members of a pool.                    *)
Constructed(id, pins, dirty, content, table, list, free, next) ==
  /\ id = [f \in Frames |-> INVALID_PAGE_ID]
  /\ pins = [f \in Frames |-> 0]
  /\ dirty = [f \in Frames |-> FALSE]
  /\ content = [f \in Frames |-> Zero]
  /\ table = [p \in PageIds |-> NoFrame]
  /\ list = <<>>
  /\ free = [i \in 1 .. PoolSize |-> i - 1]
  /\ next = InstanceIndex

Init == /\ Constructed(page_id, pin_count, is_dirty, data,
                       page_table, replacer, free_list, next_page_id)
        /\ disk = [p \in PageIds \union {INVALID_PAGE_ID} |-> Unwritten]
        /\ stuck = FALSE
-----------------------------------------------------------------------------
(* A mutation of ReplacerPin: the call is missing.                         *)
ReplacerPinMissing(f) == UNCHANGED replacer

(* replacer_->Pin(f).                                                      *)
ReplacerPin(f) == replacer' = Pinned(replacer, f)

(* A frame for page p: the free list first, from its back, ...             *)
TakeFree(f, p) == /\ free_list # <<>>
                  /\ f = Back(free_list)
                  /\ free_list' = PopBack(free_list)
                  /\ ReplacerPin(f)
                  /\ page_table' = [page_table EXCEPT ![p] = f]

(* A mutation of Rebound: the evicted page keeps its table entry.          *)
ReboundTwice(f, p) == [page_table EXCEPT ![p] = f]

Rebound(f, p) == [page_table EXCEPT ![page_id[f]] = NoFrame, ![p] = f]

(* ... then the replacer's victim, whose page leaves the table.            *)
TakeVictim(f, p) == /\ free_list = <<>>
                    /\ replacer # <<>>
                    /\ f = Back(replacer)
                    /\ replacer' = Pinned(PopBack(replacer), f)
                    /\ page_table' = Rebound(f, p)
                    /\ UNCHANGED free_list

(* A mutation of MustSave: the dirty test is the wrong way round.          *)
MustSaveClean(f) == free_list = <<>> /\ ~is_dirty[f]

(* Frame f is a victim, and dirty.                                         *)
MustSave(f) == free_list = <<>> /\ is_dirty[f]

(* The disk once the page that frame f held has been saved, if need be.    *)
WrittenBack(f) == IF MustSave(f) THEN [disk EXCEPT ![page_id[f]] = data[f]] ELSE disk

(* Page p moves into frame f with content v, pinned once and clean.        *)
Install(f, p, v) == /\ data' = [data EXCEPT ![f] = v]
                    /\ is_dirty' = [is_dirty EXCEPT ![f] = FALSE]
                    /\ page_id' = [page_id EXCEPT ![f] = p]
                    /\ pin_count' = [pin_count EXCEPT ![f] = 1]

NoReplacement == replacer = <<>> /\ free_list = <<>>

AllPinned == \A f \in Frames : pin_count[f] > 0
-----------------------------------------------------------------------------
(* A mutation of IdAfter: ids are counted modulo a bound.                  *)
IdAfterWraps(p) == (p + NumInstances) % MaxPageId

IdAfter(p) == p + NumInstances

AllocatePage(p) == /\ next_page_id <= MaxPageId
                   /\ p = next_page_id
                   /\ next_page_id' = IdAfter(p)

(* The new page is written to the disk at once, as zeros.                  *)
NewPgIn(f, p) ==
  /\ ~stuck
  /\ ~AllPinned
  /\ AllocatePage(p)
  /\ TakeFree(f, p) \/ TakeVictim(f, p)
  /\ Install(f, p, Zero)
  /\ disk' = [WrittenBack(f) EXCEPT ![p] = Zero]
  /\ UNCHANGED stuck

NewPgRefused == /\ ~stuck
                /\ AllPinned \/ NoReplacement
                /\ UNCHANGED vars

(* A mutation of OneMore: the page is handed out without a pin.            *)
OneMoreForgotten(pins) == pins

OneMore(pins) == pins + 1

FetchHit(p) ==
  LET f == page_table[p]
  IN  /\ ~stuck
      /\ f # NoFrame
      /\ pin_count[f] < MaxPins
      /\ pin_count' = [pin_count EXCEPT ![f] = OneMore(@)]
      /\ ReplacerPin(f)
      /\ UNCHANGED <<page_id, is_dirty, data, page_table, free_list,
                     next_page_id, disk, stuck>>

(* The pages that may be fetched: "the target page must exist on disk".    *)
OnDisk(p) == disk[p] # Unwritten

FetchMissIn(f, p) == /\ ~stuck
                     /\ OnDisk(p)
                     /\ page_table[p] = NoFrame
                     /\ TakeFree(f, p) \/ TakeVictim(f, p)
                     /\ disk' = WrittenBack(f)
                     /\ Install(f, p, disk'[p])
                     /\ UNCHANGED <<next_page_id, stuck>>

FetchRefused(p) == /\ ~stuck
                   /\ page_table[p] = NoFrame
                   /\ NoReplacement
                   /\ UNCHANGED vars

NewPg == NewPgRefused \/ \E f \in Frames, p \in PageIds : NewPgIn(f, p)

FetchPg(p) == FetchHit(p) \/ FetchRefused(p) \/ \E f \in Frames : FetchMissIn(f, p)
-----------------------------------------------------------------------------
(* replacer_->Unpin(f): on a full list it would wait for itself.           *)
ReplacerUnpin(f) ==
  LET full == Len(replacer) = PoolSize
  IN  /\ stuck' = full
      /\ replacer' = IF full THEN replacer ELSE Unpinned(replacer, f)

(* A mutation of Raised: the last client's word on dirtiness counts.       *)
RaisedOrLowered(flag, dirty) == dirty

(* A page that is dirty stays so.                                          *)
Raised(flag, dirty) == flag \/ dirty

(* A mutation of HasPin: no call is refused.                               *)
HasPinAlways(f) == TRUE

HasPin(f) == pin_count[f] > 0

(* A mutation of LastPin: the frame is listed while others still pin it.   *)
LastPinAlways(f) == TRUE

LastPin(f) == pin_count[f] = 1

(* The dirty flag is raised before the pin count is looked at.             *)
UnpinPg(p, dirty) ==
  LET f == page_table[p]
  IN  /\ ~stuck
      /\ f # NoFrame
      /\ is_dirty' = [is_dirty EXCEPT ![f] = Raised(@, dirty)]
      /\ pin_count' = [pin_count EXCEPT ![f] = IF HasPin(f) THEN @ - 1 ELSE @]
      /\ IF HasPin(f) /\ LastPin(f) THEN ReplacerUnpin(f) ELSE UNCHANGED <<replacer, stuck>>
      /\ UNCHANGED <<page_id, data, page_table, free_list, next_page_id, disk>>

(* A dirty page is saved although it is deleted, and its id stays          *)
(* allocated: DeallocatePage does nothing.                                 *)
DeletePg(p) ==
  LET f == page_table[p]
  IN  /\ ~stuck
      /\ f # NoFrame
      /\ pin_count[f] = 0
      /\ disk' = IF is_dirty[f] THEN [disk EXCEPT ![page_id[f]] = data[f]] ELSE disk
      /\ is_dirty' = [is_dirty EXCEPT ![f] = FALSE]
      /\ page_id' = [page_id EXCEPT ![f] = INVALID_PAGE_ID]
      /\ data' = [data EXCEPT ![f] = Zero]
      /\ ReplacerPin(f)
      /\ free_list' = Append(free_list, f)
      /\ page_table' = [page_table EXCEPT ![p] = NoFrame]
      /\ UNCHANGED <<pin_count, next_page_id, stuck>>

(* A pinned page is not deleted; a page that is not resident need not be.  *)
DeleteNothing(p) == /\ ~stuck
                    /\ page_table[p] # NoFrame => pin_count[page_table[p]] > 0
                    /\ UNCHANGED vars

(* A mutation of FlushPg: a page that nobody called dirty yet is skipped.  *)
FlushPgIfDirty(p) == /\ ~stuck
                     /\ page_table[p] # NoFrame
                     /\ disk' = IF is_dirty[page_table[p]]
                                THEN [disk EXCEPT ![p] = data[page_table[p]]] ELSE disk
                     /\ UNCHANGED <<frameVars, listVars, next_page_id, stuck>>

(* The dirty flag survives a flush.                                        *)
FlushPg(p) == /\ ~stuck
              /\ page_table[p] # NoFrame
              /\ disk' = [disk EXCEPT ![p] = data[page_table[p]]]
              /\ UNCHANGED <<frameVars, listVars, next_page_id, stuck>>

(* Unpin and Flush return false for a page that is not resident.           *)
NotResident(p) == /\ ~stuck
                  /\ page_table[p] = NoFrame
                  /\ UNCHANGED vars

(* Every frame is written under its page_id, those that hold no page too;  *)
(* the latter are all zero, so the order of the writes does not show.      *)
FlushAllPgs ==
  /\ ~stuck
  /\ disk' = [p \in DOMAIN disk |->
                IF \E f \in Frames : page_id[f] = p
                  THEN data[CHOOSE f \in Frames : page_id[f] = p]
                  ELSE disk[p]]
  /\ UNCHANGED <<frameVars, listVars, next_page_id, stuck>>

(* A client writes to a page it holds a pointer to.                        *)
ClientWrite(f, v) == /\ pin_count[f] > 0
                     /\ data' = [data EXCEPT ![f] = v]
                     /\ UNCHANGED <<page_id, pin_count, is_dirty, listVars,
                                    next_page_id, disk, stuck>>

Next == \/ NewPg
        \/ \E p \in PageIds : \/ FetchPg(p)
                              \/ \E dirty \in BOOLEAN : UnpinPg(p, dirty)
                              \/ DeletePg(p)
                              \/ DeleteNothing(p)
                              \/ FlushPg(p)
                              \/ NotResident(p)
        \/ FlushAllPgs
        \/ \E f \in Frames, v \in Data : ClientWrite(f, v)

Spec == Init /\ [][Next]_vars
-----------------------------------------------------------------------------
TypeOK == /\ page_id \in [Frames -> PageIds \union {INVALID_PAGE_ID}]
          /\ pin_count \in [Frames -> Nat]
          /\ is_dirty \in [Frames -> BOOLEAN]
          /\ data \in [Frames -> Data]
          /\ page_table \in [PageIds -> Frames \union {NoFrame}]
          /\ replacer \in Seq(Frames)
          /\ free_list \in Seq(Frames)
          /\ next_page_id \in Nat
          /\ disk \in [PageIds \union {INVALID_PAGE_ID} -> Data \union {Unwritten}]
          /\ stuck \in BOOLEAN

(* Every frame is in one place: on the free list and without a page, in    *)
(* the replacer and unpinned, or pinned; and neither list names a frame    *)
(* twice.  So a page is refused only when every frame is pinned, and no    *)
(* call hands out a frame somebody uses.                                   *)
FramesAccounted ==
  /\ IsInjective(replacer)
  /\ IsInjective(free_list)
  /\ \A f \in Frames :
       /\ f \in Range(free_list) <=> page_id[f] = INVALID_PAGE_ID
       /\ f \in Range(replacer) <=> page_id[f] # INVALID_PAGE_ID /\ pin_count[f] = 0
       /\ page_id[f] = INVALID_PAGE_ID => /\ pin_count[f] = 0
                                          /\ ~is_dirty[f]
                                          /\ data[f] = Zero

(* The page table and the page_id of the frames are each other's inverse:  *)
(* a page is in at most one frame, and is found there.                     *)
PageTableExact == \A p \in PageIds, f \in Frames : page_table[p] = f <=> page_id[f] = p

(* An id that is still to be allocated is neither on the disk nor in the   *)
(* pool: NewPage never hands out the id of an existing page.               *)
FreshIdsUnused == \A p \in PageIds :
  p >= next_page_id => disk[p] = Unwritten /\ page_table[p] = NoFrame

(* No call blocks for ever inside the replacer with latch_ held: the       *)
(* replacer is never full when a frame is added to it.                     *)
NoSelfDeadlock == ~stuck

(* A pinned frame is not given to another page, so the pointer a client    *)
(* holds stays the page it asked for.                                      *)
PinnedFrameStable ==
  [][\A f \in Frames : pin_count[f] > 0 => page_id'[f] = page_id[f]]_vars

(* A page marked dirty is on the disk before its mark is taken away,       *)
(* whichever call takes it away.                                           *)
DirtyPageSaved ==
  [][\A f \in Frames : is_dirty[f] /\ ~is_dirty'[f] => disk'[page_id[f]] = data[f]]_vars

(* "id of page to be flushed, cannot be INVALID_PAGE_ID": nothing is       *)
(* written to the disk under the invalid id.                               *)
InvalidIdNeverWritten == disk[INVALID_PAGE_ID] = Unwritten
=============================================================================
