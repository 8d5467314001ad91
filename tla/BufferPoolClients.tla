-------------------------- MODULE BufferPoolClients --------------------------
(***************************************************************************)
(* A buffer pool and the threads that use it.  A thread keeps the contract *)
(* of the pool: it uses a page through the pointer FetchPage or NewPage    *)
(* gave it, unpins it once, and says so if it has written to it.  The      *)
(* program may end at any time, and be started again on the same disk.     *)
(***************************************************************************)
EXTENDS BufferPoolManagerInstance

CONSTANTS Threads,
          MaxHeld  \* bound: the pages a thread has in use at a time

ASSUME ClientsAssumption == IsFiniteSet(Threads) /\ MaxHeld \in Nat

VARIABLES handle, \* handle[t][p]: the frame t was given for page p, or NoFrame
          wrote,  \* <<t, p>> \in wrote: t wrote to p since it was given it
          since   \* history: what each page held at its last flush, and since

clientVars == <<handle, wrote>>

(* What a client finds in page p: its frame, or else the disk.             *)
Content(p) == IF page_table[p] = NoFrame THEN disk[p] ELSE data[page_table[p]]

ClientsInit == /\ Init
               /\ handle = [t \in Threads |-> [p \in PageIds |-> NoFrame]]
               /\ wrote = {}
               /\ since = [p \in PageIds |-> {}]

Uses(t, p) == handle[t][p] # NoFrame

HoldsFew(t) == Cardinality({p \in PageIds : Uses(t, p)}) <= MaxHeld

(* A pool on a disk with pages hands out their ids again: its clients      *)
(* must not ask for new pages.                                             *)
NewPage(t) == \/ NewPgRefused /\ UNCHANGED <<clientVars, since>>
              \/ \E f \in Frames, p \in PageIds :
                    /\ disk[p] = Unwritten
                    /\ NewPgIn(f, p)
                    /\ handle' = [handle EXCEPT ![t][p] = f]
                    /\ HoldsFew(t)'
                    /\ since' = [since EXCEPT ![p] = {Zero}]
                    /\ UNCHANGED wrote

(* FetchPage returns the frame the table names when it is done, and null   *)
(* if that is none.                                                        *)
FetchPage(t, p) == /\ ~Uses(t, p)
                   /\ FetchPg(p)
                   /\ handle' = [handle EXCEPT ![t][p] = page_table'[p]]
                   /\ HoldsFew(t)'
                   /\ UNCHANGED <<wrote, since>>

(* A page may be called dirty that is not.                                 *)
UnpinPage(t, p, dirty) == /\ Uses(t, p)
                          /\ <<t, p>> \in wrote => dirty
                          /\ UnpinPg(p, dirty)
                          /\ handle' = [handle EXCEPT ![t][p] = NoFrame]
                          /\ wrote' = wrote \ {<<t, p>>}
                          /\ UNCHANGED since

WritePage(t, p, v) == /\ Uses(t, p)
                      /\ ClientWrite(handle[t][p], v)
                      /\ wrote' = wrote \union {<<t, p>>}
                      /\ since' = [since EXCEPT ![p] = @ \union {v}]
                      /\ UNCHANGED handle

(* Anybody may flush or delete any page at any time.                       *)
FlushPage(p) == /\ FlushPg(p)
                /\ since' = [since EXCEPT ![p] = {Content(p)}]
                /\ UNCHANGED clientVars

FlushAllPages == /\ FlushAllPgs
                 /\ since' = [p \in PageIds |-> IF page_table[p] = NoFrame
                                                  THEN since[p] ELSE {Content(p)}]
                 /\ UNCHANGED clientVars

DeletePage(p) == DeletePg(p) /\ UNCHANGED <<clientVars, since>>

(* The destructor flushes nothing, no more than a crash does.  A new pool  *)
(* is made on the disk.                                                    *)
Restart == /\ Constructed(page_id', pin_count', is_dirty', data',
                          page_table', replacer', free_list', next_page_id')
           /\ handle' = [t \in Threads |-> [p \in PageIds |-> NoFrame]]
           /\ wrote' = {}
           /\ since' = [p \in PageIds |-> {disk[p]} \ {Unwritten}]
           /\ UNCHANGED <<disk, stuck>>

ClientsNext == \/ \E t \in Threads :
                    \/ NewPage(t)
                    \/ \E p \in PageIds :
                         \/ FetchPage(t, p)
                         \/ \E dirty \in BOOLEAN : UnpinPage(t, p, dirty)
                         \/ \E v \in Data : WritePage(t, p, v)
               \/ \E p \in PageIds : FlushPage(p) \/ DeletePage(p)
               \/ FlushAllPages
               \/ Restart

ClientsSpec == ClientsInit /\ [][ClientsNext]_<<vars, clientVars, since>>
-----------------------------------------------------------------------------
(* The pointers to frame f that clients hold, each for one page.           *)
Users(f) == {u \in Threads \X PageIds : handle[u[1]][u[2]] = f}

(* A frame's pin count is the number of pointers to it that clients hold:  *)
(* no pin is lost or leaked, so no page is evicted in use or kept for ever.*)
PinsMatchHandles == \A f \in Frames : pin_count[f] = Cardinality(Users(f))

(* The frame a client was given for a page still holds that page, whatever *)
(* the others fetched, deleted or flushed in the meantime.                 *)
HandlesValid == \A t \in Threads, p \in PageIds :
  Uses(t, p) => page_id[handle[t][p]] = p

(* A page that is not marked dirty, and that no client is about to mark,   *)
(* is on the disk as it is in memory: dropping it loses nothing.           *)
CleanIsOnDisk == \A f \in Frames :
  \/ page_id[f] = INVALID_PAGE_ID
  \/ is_dirty[f]
  \/ \E t \in Threads : <<t, page_id[f]>> \in wrote
  \/ disk[page_id[f]] = data[f]

(* The pool is a page store: what a client reads through its pointer is    *)
(* what was last written to the page, across evictions and deletions.  It  *)
(* is a durable one: a restart takes no page back to what it held before   *)
(* it was last flushed, whoever held and wrote to it at that time.         *)
Store == INSTANCE DurablePageStore WITH
  Absent <- Unwritten,
  Capacity <- PoolSize,
  content <- [p \in PageIds |-> Content(p)],
  using <- {u \in Threads \X PageIds : Uses(u[1], u[2])}

IsDurableStore == Store!DurableSpec
=============================================================================
