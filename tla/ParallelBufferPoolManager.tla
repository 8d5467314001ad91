---------------------- MODULE ParallelBufferPoolManager ----------------------
(***************************************************************************)
(* ParallelBufferPoolManager: page ids are dealt out to num_instances_     *)
(* buffer pool instances, NewPage asks the instances in turn, and          *)
(* FlushAllPages goes through them one by one.  The manager has no latch,  *)
(* so its calls interleave between the calls of the instances, and where   *)
(* they read and write start_idx_.                                         *)
(*                                                                         *)
(* An instance is reduced to what BufferPoolClients shows of it: a call is *)
(* one step, it refuses a page only when PoolSize pages are pinned, it may *)
(* evict any page that is not pinned, and a page that leaves it is on the  *)
(* disk as it was in memory.                                               *)
(***************************************************************************)
EXTENDS Naturals, FiniteSets

CONSTANTS Threads,      \* the threads in NewPage and FlushAllPages
          NumInstances, \* num_instances_
          PoolSize,     \* pool_size_
          MaxCalls,     \* bound: the calls of NewPage and FlushAllPages
          MaxPins,      \* bound: FetchPage pins a page at most so often
          Data,         \* what a page can hold
          Zero,         \* what a new page holds
          Absent        \* a page that is not there

ASSUME ParallelAssumption == /\ NumInstances \in Nat \ {0}
                             /\ PoolSize \in Nat
                             /\ MaxCalls \in Nat
                             /\ MaxPins \in Nat \ {0}
                             /\ Zero \in Data
                             /\ Absent \notin Data

Instances == 0 .. NumInstances - 1

GetPoolSize == NumInstances * PoolSize

PageIds == 0 .. NumInstances * MaxCalls - 1

VARIABLES start_idx,    \* start_idx_
          at,           \* where in NewPgImp or FlushAllPgsImp a thread is
          idx,          \* its local idx, or the place of its iterator
          my_page,      \* its local my_page: no page, or one id
          seen,         \* the value of start_idx_ it is about to increment
          tried,        \* the instances that refused it in this call
          calls,        \* the calls made so far
          memory,       \* memory[i][p]: what instance i holds as page p
          pins,         \* pins[i][p]: the pin count of that page
          next_page_id, \* next_page_id_ of each instance
          disk,         \* what WritePage last wrote under each id
          since         \* history: what each page has held since a thread
                        \* called FlushAllPages

instanceVars == <<memory, pins, next_page_id, disk>>
newVars == <<my_page, seen, tried>>
callVars == <<at, idx, newVars, calls>>
vars == <<start_idx, callVars, instanceVars, since>>

Init == /\ start_idx = 0
        /\ at = [t \in Threads |-> "idle"]
        /\ idx = [t \in Threads |-> 0]
        /\ my_page = [t \in Threads |-> {}]
        /\ seen = [t \in Threads |-> 0]
        /\ tried = [t \in Threads |-> {}]
        /\ calls = 0
        /\ memory = [i \in Instances |-> [p \in PageIds |-> Absent]]
        /\ pins = [i \in Instances |-> [p \in PageIds |-> 0]]
        /\ next_page_id = [i \in Instances |-> i]
        /\ disk = [p \in PageIds |-> Absent]
        /\ since = [t \in Threads |-> [p \in PageIds |-> {}]]
-----------------------------------------------------------------------------
PinnedPages(i) == {p \in PageIds : pins[i][p] > 0}

AllPinned(i) == Cardinality(PinnedPages(i)) = PoolSize

Cached(i) == {p \in PageIds : memory[i][p] # Absent}

(* The disk once an instance has written some of its pages.                *)
Saved(i, pages) == [p \in PageIds |-> IF p \in pages \intersect Cached(i)
                                        THEN memory[i][p] ELSE disk[p]]

(* What an instance holds without some of its pages.                       *)
Without(i, pages) == [p \in PageIds |-> IF p \in pages THEN Absent ELSE memory[i][p]]

(* What may have to go for another page: nothing if a frame is free.       *)
Evictable(i) == IF Cardinality(Cached(i)) < PoolSize
                  THEN {{}}
                  ELSE {{victim} : victim \in Cached(i) \ PinnedPages(i)}

(* Instance i makes page p resident, with content v.                       *)
Admit(i, p, v) ==
  /\ \E gone \in Evictable(i) :
       /\ memory' = [memory EXCEPT ![i] = [Without(i, gone) EXCEPT ![p] = v]]
       /\ disk' = [Saved(i, gone) EXCEPT ![p] = v]
  /\ pins' = [pins EXCEPT ![i][p] = 1]

(* A mutation of Home: the quotient in place of the remainder.             *)
HomeByQuotient(p) == (p \div NumInstances) % NumInstances

(* GetBufferPoolManager: the instance responsible for page p.              *)
Home(p) == p % NumInstances

(* What a client finds in page p.                                          *)
Content(p) == IF p \in Cached(Home(p)) THEN memory[Home(p)][p] ELSE disk[p]

(* Page p holds v from now on, which calls of FlushAllPages remember.      *)
Remember(p, v) == since' = [t \in Threads |->
  IF at[t] = "flush" THEN [since[t] EXCEPT ![p] = @ \union {v}] ELSE since[t]]
-----------------------------------------------------------------------------
(* A call ends, and its locals with it.                                    *)
Returns(t) == /\ at' = [at EXCEPT ![t] = "idle"]
              /\ idx' = [idx EXCEPT ![t] = 0]
              /\ my_page' = [my_page EXCEPT ![t] = {}]
              /\ seen' = [seen EXCEPT ![t] = 0]
              /\ tried' = [tried EXCEPT ![t] = {}]
              /\ since' = [since EXCEPT ![t] = [p \in PageIds |-> {}]]

(* A thread calls NewPage and reads start_idx_ for its loop.               *)
NewBegin(t) == /\ at[t] = "idle"
               /\ calls < MaxCalls
               /\ calls' = calls + 1
               /\ at' = [at EXCEPT ![t] = "test"]
               /\ idx' = [idx EXCEPT ![t] = start_idx]
               /\ UNCHANGED <<start_idx, newVars, since, instanceVars>>

(* The loop's condition reads start_idx_ again.                            *)
InLoop(t) == idx[t] < start_idx + NumInstances

Test(t) == /\ at[t] = "test"
           /\ at' = [at EXCEPT ![t] = IF InLoop(t) THEN "try" ELSE "bump"]
           /\ UNCHANGED <<start_idx, idx, newVars, calls, since, instanceVars>>

(* A mutation of NextId: ids are dealt out one by one.                     *)
NextIdByOne(id) == id + 1

NextId(id) == id + NumInstances

(* The instance in turn makes a new page ...                               *)
TrySucceeds(t) ==
  LET i == idx[t] % NumInstances
      p == next_page_id[i]
  IN  /\ at[t] = "try"
      /\ Admit(i, p, Zero)
      /\ Remember(p, Zero)
      /\ next_page_id' = [next_page_id EXCEPT ![i] = NextId(p)]
      /\ my_page' = [my_page EXCEPT ![t] = {p}]
      /\ at' = [at EXCEPT ![t] = "bump"]
      /\ UNCHANGED <<start_idx, idx, seen, tried, calls>>

(* A mutation of TryFails: idx is not incremented.                         *)
TryFailsAgain(t) ==
  LET i == idx[t] % NumInstances
  IN  /\ at[t] = "try"
      /\ AllPinned(i)
      /\ tried' = [tried EXCEPT ![t] = @ \union {i}]
      /\ at' = [at EXCEPT ![t] = "test"]
      /\ UNCHANGED <<start_idx, idx, my_page, seen, calls, since, instanceVars>>

(* ... or refuses, and the loop goes on with the next one.                 *)
TryFails(t) ==
  LET i == idx[t] % NumInstances
  IN  /\ at[t] = "try"
      /\ AllPinned(i)
      /\ tried' = [tried EXCEPT ![t] = @ \union {i}]
      /\ idx' = [idx EXCEPT ![t] = @ + 1]
      /\ at' = [at EXCEPT ![t] = "test"]
      /\ UNCHANGED <<start_idx, my_page, seen, calls, since, instanceVars>>

(* start_idx_ = (start_idx_ + 1) % num_instances_ is a read and a write.   *)
BumpRead(t) == /\ at[t] = "bump"
               /\ seen' = [seen EXCEPT ![t] = start_idx]
               /\ at' = [at EXCEPT ![t] = "return"]
               /\ UNCHANGED <<start_idx, idx, my_page, tried, calls, since, instanceVars>>

(* A mutation of BumpWrite: the modulo is missing.                         *)
BumpWriteUnbounded(t) == /\ at[t] = "return"
                         /\ start_idx' = seen[t] + 1
                         /\ Returns(t)
                         /\ UNCHANGED <<calls, instanceVars>>

BumpWrite(t) == /\ at[t] = "return"
                /\ start_idx' = (seen[t] + 1) % NumInstances
                /\ Returns(t)
                /\ UNCHANGED <<calls, instanceVars>>

NewPgStep(t) == Test(t) \/ TrySucceeds(t) \/ TryFails(t) \/ BumpRead(t) \/ BumpWrite(t)
-----------------------------------------------------------------------------
(* A thread calls FlushAllPages, ...                                       *)
FlushBegin(t) == /\ at[t] = "idle"
                 /\ calls < MaxCalls
                 /\ calls' = calls + 1
                 /\ at' = [at EXCEPT ![t] = "flush"]
                 /\ idx' = [idx EXCEPT ![t] = 0]
                 /\ since' = [since EXCEPT ![t] = [p \in PageIds |-> {Content(p)} \ {Absent}]]
                 /\ UNCHANGED <<start_idx, newVars, instanceVars>>

(* A mutation of AllFlushed: the last instance is left out.                *)
AllFlushedButLast(i) == i >= NumInstances - 1

AllFlushed(i) == i >= NumInstances

(* ... which has the instances flush their pages one after the other.      *)
FlushNext(t) == /\ at[t] = "flush"
                /\ ~AllFlushed(idx[t])
                /\ disk' = Saved(idx[t], PageIds)
                /\ idx' = [idx EXCEPT ![t] = @ + 1]
                /\ UNCHANGED <<start_idx, at, newVars, calls, since, memory, pins, next_page_id>>

FlushReturn(t) == /\ at[t] = "flush"
                  /\ AllFlushed(idx[t])
                  /\ Returns(t)
                  /\ UNCHANGED <<start_idx, calls, instanceVars>>

FlushAllPgsStep(t) == FlushNext(t) \/ FlushReturn(t)
-----------------------------------------------------------------------------
(* Each of the other calls is one call of one instance.  Only pages that   *)
(* are on the disk may be fetched.                                         *)
FetchPg(p) ==
  LET i == Home(p)
  IN  /\ disk[p] # Absent
      /\ \/ /\ p \in Cached(i)
            /\ pins[i][p] < MaxPins
            /\ pins' = [pins EXCEPT ![i][p] = @ + 1]
            /\ UNCHANGED <<memory, disk>>
         \/ /\ p \notin Cached(i)
            /\ Admit(i, p, disk[p])
      /\ UNCHANGED <<start_idx, callVars, next_page_id, since>>

FetchRefused(p) == /\ p \notin Cached(Home(p))
                   /\ AllPinned(Home(p))
                   /\ UNCHANGED vars

UnpinPg(p) ==
  LET i == Home(p)
  IN  /\ pins[i][p] > 0
      /\ pins' = [pins EXCEPT ![i][p] = @ - 1]
      /\ UNCHANGED <<start_idx, callVars, memory, next_page_id, disk, since>>

DeletePg(p) ==
  LET i == Home(p)
  IN  /\ p \in Cached(i)
      /\ pins[i][p] = 0
      /\ disk' = Saved(i, {p})
      /\ memory' = [memory EXCEPT ![i] = Without(i, {p})]
      /\ UNCHANGED <<start_idx, callVars, pins, next_page_id, since>>

FlushPg(p) ==
  LET i == Home(p)
  IN  /\ p \in Cached(i)
      /\ disk' = Saved(i, {p})
      /\ UNCHANGED <<start_idx, callVars, memory, pins, next_page_id, since>>

(* Unpin, delete and flush change nothing for a page that is not resident. *)
NotResident(p) == p \notin Cached(Home(p)) /\ UNCHANGED vars

(* A client writes to a page through the pointer some instance gave it.    *)
ClientWrite(i, p, v) == /\ pins[i][p] > 0
                        /\ memory' = [memory EXCEPT ![i][p] = v]
                        /\ Remember(p, v)
                        /\ UNCHANGED <<start_idx, callVars, pins, next_page_id, disk>>

Next == \/ \E t \in Threads : \/ NewBegin(t)
                              \/ NewPgStep(t)
                              \/ FlushBegin(t)
                              \/ FlushAllPgsStep(t)
        \/ \E p \in PageIds : \/ FetchPg(p)
                              \/ FetchRefused(p)
                              \/ UnpinPg(p)
                              \/ DeletePg(p)
                              \/ FlushPg(p)
                              \/ NotResident(p)
                              \/ \E i \in Instances, v \in Data : ClientWrite(i, p, v)

(* The calls wait for nothing but the latches of the instances, which      *)
(* their holders give back: a call that was begun goes on.                 *)
Spec == /\ Init
        /\ [][Next]_vars
        /\ \A t \in Threads : WF_vars(NewPgStep(t) \/ FlushAllPgsStep(t))
-----------------------------------------------------------------------------
TypeOK == /\ start_idx \in Instances
          /\ at \in [Threads -> {"idle", "test", "try", "bump", "return", "flush"}]
          /\ idx \in [Threads -> 0 .. 2 * NumInstances]
          /\ my_page \in [Threads -> SUBSET PageIds]
          /\ seen \in [Threads -> Instances]
          /\ tried \in [Threads -> SUBSET Instances]
          /\ calls \in 0 .. MaxCalls
          /\ memory \in [Instances -> [PageIds -> Data \union {Absent}]]
          /\ pins \in [Instances -> [PageIds -> 0 .. MaxPins]]
          /\ next_page_id \in [Instances -> Nat]
          /\ disk \in [PageIds -> Data \union {Absent}]
          /\ since \in [Threads -> [PageIds -> SUBSET Data]]

(* No page is in memory twice, whichever instances made, evicted, fetched  *)
(* and deleted pages: all calls for a page meet in one instance.           *)
OneCopy == \A i, j \in Instances : i # j => Cached(i) \intersect Cached(j) = {}

(* The instances together are one page store of GetPoolSize frames: what a *)
(* client reads through the manager is what was last written to the page,  *)
(* and no new page has the id of an old one.                               *)
Store == INSTANCE PageStore WITH
  Threads <- {"clients"},
  Capacity <- GetPoolSize,
  content <- [p \in PageIds |-> Content(p)],
  using <- {<<"clients", p>> : p \in UNION {PinnedPages(i) : i \in Instances}}

IsPageStore == Store!Spec

(* When FlushAllPages returns, no page on the disk is older than the call, *)
(* whatever was written, made, evicted or deleted between the flushes of   *)
(* the instances.                                                          *)
FlushAllSaves ==
  [][\A t \in Threads : at[t] = "flush" /\ at'[t] = "idle" =>
       \A p \in PageIds : since[t][p] = {} \/ disk[p] \in since[t][p]]_vars

(* NewPage returns nullptr only when it has "looped around to starting     *)
(* index": every instance has refused the call.                            *)
NullMeansAllRefused == \A t \in Threads :
  at[t] = "return" /\ my_page[t] = {} => tried[t] = Instances

(* NewPage and FlushAllPages return, although start_idx_ moves under the   *)
(* loop of the former.                                                     *)
CallsReturn == \A t \in Threads : at[t] # "idle" ~> at[t] = "idle"
=============================================================================
