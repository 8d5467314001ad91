# TLA+ models of the buffer pool and the hash index

The repository holds coursework on the BusTub database system. Projects 1
and 2 have source code: a buffer pool over a disk, and a hash index whose pages
live in that pool. This directory models both, checks them with TLC and proves
their safety properties and refinements with TLAPS. Paths below are relative to `src/projects/project2/src/`
of the repository, which has the code of both projects.

## 1. The system

| Component | State | Operations | Interacts with |
|---|---|---|---|
| LRU replacer, `buffer/lru_replacer.cpp` | a list of frames, a map from frame to list node, a mutex | `Victim`, `Pin`, `Unpin`, `Size` | called by the pool instance |
| Buffer pool manager instance, `buffer/buffer_pool_manager_instance.cpp` | frames (page id, pin count, dirty flag, data), page table, free list, next page id, a mutex | `NewPage`, `FetchPage`, `UnpinPage`, `DeletePage`, `FlushPage`, `FlushAllPages` | the replacer, the disk manager; hands pointers to frames to its clients, who write without the mutex |
| Parallel buffer pool manager, `buffer/parallel_buffer_pool_manager.cpp` | the instances, the index `NewPage` starts at; no mutex | the same | its instances |
| Bucket page, `storage/page/hash_table_bucket_page.cpp` | array of pairs, `occupied_` and `readable_` bitmaps | `GetValue`, `Insert`, `Remove`, `RemoveAt`, `IsFull`, `IsEmpty`, `NumReadable` | lives in a frame; latched by the table |
| Directory page, `storage/page/hash_table_directory_page.cpp` | global depth, local depths, bucket page ids | grow, shrink, depths, split image, `VerifyIntegrity` | lives in a frame; latched by the table |
| Extendible hash table, `container/hash/extendible_hash_table.cpp` | id of its directory page, the table latch | `GetValue`, `Insert` (with `SplitInsert`), `Remove` (with `Merge`), `GetGlobalDepth`, `VerifyIntegrity` | the pool, both kinds of pages |

Not in the repository, and modelled only by how the code uses it: the disk
manager (`ReadPage`, `WritePage`), `Page`, `std::mutex`, `ReaderWriterLatch`,
the hash function, the base class `BufferPoolManager`. Projects 0, 3 and 4 are
READMEs and archives, and the homework is SQL; there is nothing to model.

What is hard in this code, and which properties are about it, is listed in
`PROJECT.json` under `hazards`. The main ones:

* the replacer locks its mutex twice if its list is full;
* a frame moves between free list, replacer and clients by way of six
  operations that each touch several structures;
* dirty flags decide alone whether a write survives eviction, and nothing is
  flushed when the program ends;
* `start_idx_` of the parallel manager is shared without a latch, and its
  `FlushAllPages` is not atomic;
* `Insert` and `Remove` drop their latches in the middle and go on with
  `SplitInsert` and `Merge`;
* index arithmetic over directory entries of different depths;
* scans of a bucket stop early, at the first slot never used;
* the latch of a bucket page is given back after the page was unpinned.

## 2. The modules

| Module | What it is | Lines of code it stands for |
|---|---|---|
| `LRUPolicy` | abstract: the least-recently-used policy | |
| `LRUList` | the list operations of the replacer | `lru_replacer.cpp` |
| `LRUReplacer` | the replacer with threads and its latch | `lru_replacer.cpp` |
| `BufferPoolManagerInstance` | the pool, one action per call and early return | `buffer_pool_manager_instance.cpp` |
| `PageStore` | abstract: a store of pages | |
| `DurablePageStore` | abstract: a store of pages whose program may end and start again | |
| `BufferPoolClients` | the pool together with threads that keep its contract, and restarts | pool and its users |
| `ParallelBufferPoolManager` | `NewPage` and `FlushAllPages` step by step, routing of the other calls | `parallel_buffer_pool_manager.cpp` |
| `BucketSet` | abstract: a set of pairs of limited size | |
| `HashTableBucketPage` | the bucket page | `hash_table_bucket_page.cpp` |
| `HashTrie` | abstract: a binary trie over hash bits | |
| `HashTableDirectoryPage` | operators on directories, split and merge of a bucket | `hash_table_directory_page.cpp`, parts of `SplitInsert` and `Merge` |
| `ExtendibleDirectory` | a directory under any splits and merges | the same |
| `PairStore` | abstract: a linearizable set of pairs | |
| `ExtendibleHashTable` | the table with threads, latches, pins and dirty marks | `extendible_hash_table.cpp` |
| `LRUListProofs` | lemmas about the list operations | |
| `LRUReplacerProofs` | theorems about the replacer | |
| `BufferPoolProofs` | theorems about the pool, alone and with its clients | |
| `ParallelBufferPoolManagerProofs` | theorems about the parallel manager | |
| `HashTableBucketPageProofs` | theorems about the bucket page | |
| `HashTableDirectoryPageProofs` | lemmas about powers of two, remainders, splits and merges | |
| `ExtendibleDirectoryProofs` | theorems about the directory | |
| `ExtendibleHashTableProofs` | theorems about the table | |

`LRUList` is shared by the replacer and the pool; the pool calls the replacer
with its own latch held, so there the replacer's operations are part of the
pool's steps. Each layer is used by the next in its abstract form: the parallel
manager has instances that cache, pin and save pages (as the pool does), and the
table has bucket pages that are sets (as `HashTableBucketPage` implements) and
a pool that pins, refuses and evicts.

### How state and steps correspond to the code

* **Replacer.** A member function holds `latch_` for its whole body, so
  `Begin` (the call), `Lock` and one body action per function are enough.
  `UnpinFull` is the path on which `Unpin` calls `Victim` with the latch held:
  the thread goes to `"relock"`, where it waits for itself.
* **Pool.** Each call holds `latch_` throughout and is one action; the early
  returns are actions of their own (`NewPgRefused`, `FetchRefused`,
  `DeleteNothing`, `NotResident`). `ClientWrite` is a client writing through
  the pointer it was given, outside the latch. `stuck` records that a thread
  has met the full replacer. `Constructed` is what the constructor does.
* **Clients.** A thread uses pages through the pointers it was given, which
  `handle` records, and unpins each once; it must say dirty if it has written,
  which `wrote` records. `Restart` is the end of the program, in an orderly way
  or not, and a new pool on the same disk. The destructor flushes nothing, so
  both ends are the same. `since` is a history variable: what each page held
  when it was last flushed, and after that. Flushing needs no pin and no mark:
  a page can be flushed between a write and the unpin that reports it.
* **Parallel manager.** The loop test of `NewPgImp`, the call of an instance,
  and the read and the write of `start_idx_` are separate steps, and so are the
  flushes of the instances in `FlushAllPgsImp`. The locals of a call are reset
  when it returns. Its history variable `since` holds what each page held since
  a thread's call of `FlushAllPages`. An instance always saves a page that
  leaves it: that the code does so only for dirty pages makes no difference as
  long as clients keep the contract (`CleanIsOnDisk`).
* **Bucket page.** A call is one action, since the table latches the page. The
  bitmaps are arrays of bytes, and a byte is the set of its bits that are set;
  `ByteBits` says how many it has. `ByteOf` and `BitOf` are the index arithmetic
  of the code.
* **Directory.** The arrays have as many entries as `Size()` says. What a
  shrink leaves behind that point is not modelled; TLC would report any read
  of it as an error.
* **Table.** `at[t]` says where in a call a thread is: waiting for the table
  latch (`"enter"`), holding it and about to fetch the bucket (`"fetch"`), about
  to latch the bucket (`"latch"`), looking through it (`"scan"`), changing it
  (`"write"`), about to unpin both pages (`"unpin"`) and to release both
  latches (`"unlatch"`), in this order: the latch of the bucket page is that of
  its frame and outlives the pin. At `"unlatch"` the frame may hold another page
  already, so the model lets the latch keep nobody out of the bucket any more,
  which allows at least what the code allows. Then the thread may wait for the table latch in write mode
  (`"split"`, `"merge"`). Who holds which latch follows from `at`. With the
  table latch in write mode a thread is alone, so `SplitInsert` and `Merge` are
  one action for each of their outcomes. `unsaved` holds the pages that were
  changed and not marked dirty since, which an eviction would take back. The
  table keeps no page id across its write-latched sections, so the ids of
  deleted bucket pages are used again in the model to keep it finite.
  `CanPin` counts the frames of one `BufferPoolManagerInstance`: a table on a
  parallel pool can be refused a page while another instance has room.
* **Failed assertions of the table.** The program is the one in which `assert` is
  compiled, as in a Debug build. A fetch or a `NewPage` that the pool refuses ends it:
  `FetchAborts`, `WriterAborts` (`SplitInsert` or `Merge` before they changed
  anything) and `SplitAborts` (the split image is refused, when `SplitInsert` has
  deepened the directory; it stays so, and pinned). `aborted` is set, `Ended` is the
  only step left, and so deadlock is checked in every run of the table.

## 3. The runs

`MC<Module>.tla` instantiates a module for TLC; each `.cfg` is one run.

| Configuration | What it shows |
|---|---|
| `MCLRUReplacer` | With more frames than `num_pages`: map and list agree, the list stays within `num_pages`, every call gives the latch back unless it waits for itself, victims follow the policy (`LRUPolicy` is implemented). |
| `MCLRUReplacerFull` | *Violation:* `Unpin` on a full list waits for itself. |
| `MCBufferPoolManagerInstance` | All invariants and action properties of the pool. |
| `MCBufferPoolManagerInstanceInvalid` | *Violation:* `FlushAllPages` writes under `INVALID_PAGE_ID`. |
| `MCBufferPoolClients` | Pins are the pointers clients hold, pointers stay valid, and the pool implements `DurablePageStore`: no write is lost while the program runs, and a restart takes no page back to before its last flush. |
| `MCParallelBufferPoolManager` | A page is in one instance only, the instances together implement `PageStore`, `FlushAllPages` leaves nothing older than its call on the disk, both calls return although `start_idx_` moves. |
| `MCParallelBufferPoolManagerNull` | *Violation:* with overlap `nullptr` may be returned although an instance was not asked. |
| `MCHashTableBucketPage` | Early-ending scans miss nothing, no pair is stored twice, the page implements `BucketSet`. |
| `MCExtendibleDirectory` | The assertions of `VerifyIntegrity` and of the merge hold, the directory is never larger than needed, other buckets are not disturbed, `HashTrie` is implemented. |
| `MCExtendibleHashTable` | The table implements `PairStore` (it is linearizable, and refuses a new pair only when a bucket's worth of pairs have the same usable hash bits); page ids are not stale; pins are returned; three frames are enough for two threads. |
| `MCExtendibleHashTableReturns` | With others using frames of the pool: changes are marked dirty, or their page is still pinned when an assertion ends the program. A call returns once the others stop calling, or an assertion ends the program because others use frames of the pool that the table needs. |
| `MCExtendibleHashTablePoolError` | *Violation:* `Insert` ends the program when the pool has no frame, instead of failing. |

The findings behind the four violations are in `PROJECT.json`, with the lines
of code and documentation that disagree. The full replacer hangs only callers
other than the pool, where it is never full, as is proved below. The write of
page -1 does not look at the page id. The early `nullptr` of the parallel
manager is a race. Comments in the table (`container/hash/extendible_hash_table.cpp:149`
and `:297`) let `Insert` return false on a buffer pool error, but the fetches and
`NewPage` are followed by assertions; the run ends in `SplitAborts`, with a directory that
was deepened and not split.

The models show four more places where code and documentation differ, for which
there is no run:

* overlapping `NewPage` calls of the parallel manager lose a bump of
  `start_idx_` (`BumpRead`, `BumpWrite`; comment at
  `buffer/parallel_buffer_pool_manager.cpp:68`);
* inserting a pair that is already in a full bucket splits the bucket
  (`InsertFindsFull`, `SplitBucket`; project 2 `README.md:106`);
* `Insert` releases its latches before `SplitInsert` (`Unlatch`), which may then
  find room (`SplitFindsRoom`; project 2 `README.md:172`);
* `Merge` looks at one bucket only (`MergeBuckets`; project 2 `README.md:180`).

The last three do not harm the contents of the table, as `IsPairStore` shows.

### Bounds

* Replacer: two threads, four frames and `num_pages` = 3, so that the list is
  empty, partly filled, full, and met by `Unpin` when full, and a `Pin` can take
  a frame out of its middle. A behaviour may end, when the thread that waits
  for itself keeps all others out.
* Pool: two frames, three pages, two data values. Every frame is reused for
  every page, in every state of pins and dirty flags; `MaxPageId` bounds the
  ids and `MaxPins` the pins of a page. Three frames and four pages (2.3
  million states) were checked once with the same result. The proofs have
  no bound.
* Clients: two threads, so that one holds a page while the other unpins,
  deletes, flushes or evicts; ids and pins as above. `MaxHeld` is 1: a thread
  has one page in use at a time, the two threads together all frames. Two pages
  for each thread (614,138 states) were checked once with the same result.
  Restarts are not bounded.
* Parallel manager: two instances and two overlapping calls are the least that
  race. `MaxCalls` bounds the calls of `NewPage` and `FlushAllPages` together.
* Bucket page: bytes of two bits, so that the three slots need two bytes, the
  second of which is used in part. Three slots and four pairs, so that a tombstone can be before,
  behind or between pairs, with the page never full, full, and full of
  tombstones.
* Directory: depth at most three, six buckets. Buckets of three different
  depths occur at once.
* Table: two threads, buckets of one pair, depth at most two, three keys of
  which two cannot be told apart at the full depth. So buckets split twice at
  once, the directory is full, and merges meet images of another depth. A
  fourth key (2.6 million states) was checked once with the same result.
  `OtherPins` bounds the frames others use. Here it is 0, so a pool of three frames,
  for five pages, must suffice. The run for dirty marks and for liveness has two keys that
  collide, a directory of at most two entries, and `OtherPins` = 3: others may take the
  whole pool, and each of the three aborts happens. The run for pool errors has
  one thread and a directory of at most two entries, the least that splits.

### Fairness

* Replacer: a thread inside a critical section goes on. Nothing is assumed of
  threads that wait for a mutex, so only the release of the latch is claimed,
  and not of one whose owner waits for it.
* Parallel manager: a call of `NewPage` or `FlushAllPages` that was begun goes on
  (weak fairness of each thread's steps); it waits only for latches
  of instances, whose holders do not wait.
* Table: a thread goes on (weak fairness), and one that waits for a latch gets
  it if it is free again and again (strong fairness): the latch class of
  the system lets no writer starve. Nothing says that threads call. `CallsReturn`
  assumes that the other threads stop beginning calls, and it has to: their
  `Merge` may undo a split before `Insert` gets back to the bucket, any number
  of times.

## 4. The proofs

`tlapm` checks every proof to the last leaf. Every invariant, every action property
and every refinement that a run checks is also a theorem; the runs
show it on a small instance, the theorem for every value of the constants. The
proofs use only the assumptions on the constants that the modules name:

| Assumption | What it says |
|---|---|
| `LRUAssumption`, `PoolAssumption`, `ParallelAssumption`, `BucketAssumption`, `DirectoryAssumption` | sizes, depths and bounds are numbers, positive where the code needs it, and special values such as `NoFrame` are none of the ordinary ones |
| `ClientsAssumption` | there are finitely many client threads, and `MaxHeld` is a number |
| `TableAssumption` | threads and page ids are finite, a hash has `MaxDepth` bits, and there are ids for as many bucket pages as the directory has entries at most |
| `CallAssumption` | `NoCall` is no call, `Pending` no answer |

Each module of proofs gives an inductive invariant `IInv`, one lemma for each action
(or for each group of actions and each part of `IInv` they touch), and then its
theorems. What the invariants had to say beyond the properties is where the
code is right for a reason, and is described here.

**Replacer** (`LRUReplacerProofs`). `OwnerInside` says that the owner of the latch is the
thread inside a function body, or waiting for itself. From it follow `BodiesExclude`,
and `SelfLockNeverEnds`: after `Unpin` met the full list nobody gets the latch any more.
`ImplementsPolicy` maps the list to the relation *was unpinned earlier than* on its
frames (`Older`); the lemmas say what each list operation does to that relation.

**Pool** (`BufferPoolProofs`). The invariant is

    PoolInv == TypeOK /\ FramesAccounted /\ PageTableExact /\ NoSelfDeadlock
    IInv    == PoolInv /\ FreshIdsUnused

No part is inductive alone. That the replacer has room when a frame is unpinned
(`NoSelfDeadlock`) is a pigeonhole argument: the list has no repetitions and does
not hold the frame, so it is shorter than the pool, which needs `FramesAccounted`.
That a victim's table entry is its only one needs `PageTableExact`; that a new
page is not yet in the table needs `FreshIdsUnused`. The action properties
`PinnedFramesAreStable` and `DirtyPagesAreSaved` follow.

**Pool and clients** (also `BufferPoolProofs`). `PoolInv` is apart from
`FreshIdsUnused` because a restart breaks the latter: the new pool counts from the
first id again over a disk with pages. What takes its place is the guard of
`NewPage` in `BufferPoolClients`. The invariant of the clients adds that pin counts are the
numbers of handles (`PinsMatchHandles`), that handles are valid, that an unmarked page
which nobody wrote is on the disk (`CleanIsOnDisk`), and that `since` contains what a page
holds and what the disk holds. A handle pins its frame, so `PinnedFrameStep` keeps
it valid; an evicted page is unpinned, has no writer, and is on the disk or is
written there. `ImplementsDurableStore` is the refinement, one lemma per action. The
bound on the pages in use holds because handles of different pages are in
different frames.

**Parallel manager** (`ParallelBufferPoolManagerProofs`). `OneCopy` comes from
`PagesAtHome` (a cached page is in the instance its remainder names) and
`IdsAtHome` (an instance deals out ids of its own remainder), whatever `start_idx_`
does: that variable matters to the loop only (`LoopBounded`). `IdsCounted` says that the
calls that are looking for a page and the ids dealt out are together no more than the calls
that were begun; it keeps ids within the bound of the model. `FlushesKeepUp` is the
loop invariant of `FlushAllPages`: instances below its index hold nothing on the
disk that is older than the call.

**Bucket page** (`HashTableBucketPageProofs`). `ScansMissNothing` needs that used slots come first
(`UsedComeFirst`) and that readable slots were used. Quotient and remainder by the
width of a byte find each slot once (`IndexInjective`, `SlotOfIndex`), and
`BitsHaveSlots` says that the spare bits of the last byte stay clear, without which
`NumReadable` would count too many. `ImplementsBucketSet` needs `StoredOnce`: otherwise `Remove` would
leave a copy.

**Directory** (`HashTableDirectoryPageProofs`, `ExtendibleDirectoryProofs`). `VerifyIntegrity`, which counts entries, is
not what a proof can carry through a split. `Consistent(d)` takes its place: two
entries have the same page exactly when they agree in as many low bits as the
local depth of one of them says, and then they have the same local depth, which is at most the global depth.
`SplitEffect`, `MergeEffect`, `GrownEffect` and `ShrunkEffect` say entry by entry what the loops of the
code do, in terms of low bits, and each keeps `Consistent`.
`ConsistentIsIntegral` then counts: the entries of a bucket of depth `k` are as many as
the numbers below `2^(g-k)`, by a bijection. The facts on powers of two are not in the
library and are proved first, from the number of subsets of a finite set;
inductions over numbers are arguments by a least counterexample. `OthersAreNotDisturbed` is that a
hash is led elsewhere only from the bucket that is split or merged.
`ImplementsTrie` maps the directory to the leaves of a trie, each a depth, low bits
and a page, which do not depend on the global depth (`ResizedLeaves`).

**Table** (`ExtendibleHashTableProofs`). The parts of the invariant:

* `LocalsFit(t)`: which call can be at which place, with which page and answer;
* `PageIdIsCurrent`: a thread with a page id has the table latch in read mode, so
  the directory does not change; when a writer changes it, nobody has an id
  (`NobodyElse`);
* `LatchesExclude`, `ReadyToWrite`: what `Insert` and `Remove` saw when they scanned the page is
  still so when they write, since nobody else is in it with them;
* `Consistent(dir)` and `PairsAreFindable`: `SplitKeepsPairs` and `MergeKeepsPairs` combine
  the lemmas about the directory with where the pairs are. A split needs a new page id, and there
  is one because two entries of the directory share a page before the split and
  there are ids for all entries (`NewPage`, another pigeonhole argument);
* `PinsAreUsers`: a page is pinned exactly as often as there are threads that use it;
* `ChangersMark`: who changed a page still has it pinned and will mark it.

They hold while the program runs, and are `Running`. An abort leaves pins nobody gives
back and perhaps a directory that is only half changed, so the invariant is

    IInv == IF aborted THEN Stopped ELSE Running

where `Stopped` is what is left of it: types, `PageIdIsCurrent`, `PairsAreFindable`,
`ChangesAreMarked` and `AbortsOnlyWhenExhausted`. (That pairs are findable in the directory
an aborted split leaves is shown by the theorem alone.) `AbortStops` is the step from one to the
other. It needs that a deepened directory leads every key where it did
(`DeepenedLeadsAsBefore`), and counts pages: the table never wants more of them pinned than
one for each thread and the directory, or three in `SplitInsert` (`AbortedFetch`, `AbortedWriter`).

From these follow the theorems, and the refinement `ImplementsPairStore`: the table is linearizable.
The points at which calls take effect are the scan, if it decides the answer, the write, and
the outcomes of `SplitInsert` that end the call; a split and a merge do not show. That
`Insert` refuses a pair only when a bucket is crowded with pairs of the same hash bits is
`RefusedIsCrowded`: a bucket that cannot be split has a local depth of `MaxDepth`
(`FullyGrown`), so all bits of the hash of its pairs agree.

All theorems about the table are about builds with assertions. `PinsAreGivenBack` holds until
one of them ends the program.

Only model-checked: liveness (`LatchReleased`, and `CallsReturn` of the parallel
manager and of the table), which the prover cannot treat under fairness; the
violations; the absence of deadlock. The theorems are about each component on
its own: that the parts fit together, the bucket page in the table as a set, the instances in
the parallel manager as stores, is by the refinement of each and not a theorem
about one big specification.

## 5. Not modelled

* The layout of pages in memory: `reinterpret_cast`, `lsn_`, printing and
  logging.
* The wrap of the 32-bit page id counter, 2^31 pages away.
* New pages of a second pool over an old disk: it starts at the first id again,
  and nothing is recorded from which it could know the ids in use. `NewPage` of
  `BufferPoolClients` is therefore called only when the next id is free; a
  second pool serves the old pages only.
* Failures of the constructor of a pool, and of the disk: the code checks neither.
* A constructor of the table that fails half way: it leaves an object on which no
  call is defined.
* The table in a build with `NDEBUG`. Every `UnpinPage` of the table, those of its
  constructor (`container/hash/extendible_hash_table.cpp:59` and `:60`) included, and the
  `DeletePage` of `Merge` (`:373`) are arguments of `assert`, so such a build makes none of
  these calls: nothing is ever unpinned or marked dirty. It also goes on with pages it was
  refused (`:97`, `:106`, `:248`), which C++ leaves undefined.
* `LRUReplacer::Size`, which only reads the size of the list, as a call of its own.
* Eviction within the table's model: `ChangesAreMarked` and `IsDurableStore` of the
  pool together say that an eviction does not show.

## 6. Plan

Done, in this order: replacer, pool and its proofs, clients, parallel manager,
bucket page, directory, table; then restarts of the pool, the complete parallel
manager, the bytes of the bitmaps, and the assertions of the directory; then the
proofs of every invariant, action property and refinement.

Next:

1. The lookup of a deleted or re-created bucket page under ids that are never used
   again, as `next_page_id_` deals them out, instead of ids that are taken to be reused.
2. Theorems that join two layers: `BucketSet` and the sets of the table, `PageStore` of
   one instance and the memory of the parallel manager.
3. A lemma for each step of the liveness arguments that needs no fairness: that a call of
   the parallel manager gets nearer to its end with each test of the loop, and that some
   thread of the table can always go on.
