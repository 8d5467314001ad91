------------------- MODULE ParallelBufferPoolManagerProofs -------------------
(***************************************************************************)
(* ParallelBufferPoolManager for any number of instances, frames, threads  *)
(* and calls: no page is in two instances, the instances together are one  *)
(* store of pages, and FlushAllPages leaves nothing older than its call.   *)
(***************************************************************************)
EXTENDS ParallelBufferPoolManager, FiniteSetTheorems, TLAPS

(* The threads in NewPage that have no page yet.                           *)
Making == {t \in Threads : at[t] \in {"test", "try"}}

(* start_idx_ moves under the loop, but not by more than its range.        *)
LoopBounded == \A t \in Threads :
  /\ at[t] = "test" => idx[t] < 2 * NumInstances
  /\ at[t] = "try" => idx[t] < 2 * NumInstances - 1

(* A page is only ever in the instance its id leads to.                    *)
PagesAtHome == \A i \in Instances : \A p \in Cached(i) : Home(p) = i

PinnedAreCached == \A i \in Instances : PinnedPages(i) \subseteq Cached(i)

WithinPoolSize == \A i \in Instances : Cardinality(Cached(i)) <= PoolSize

(* An instance deals out the ids that lead to it, ...                      *)
IdsAtHome == \A i \in Instances : Home(next_page_id[i]) = i

(* ... one for each call at most, ...                                      *)
IdsCounted ==
  /\ IsFiniteSet(Making)
  /\ \A i \in Instances :
       next_page_id[i] + NumInstances * Cardinality(Making) =< i + NumInstances * calls

(* ... and none of them twice.                                             *)
FreshIdsAbsent == \A p \in PageIds : p >= next_page_id[Home(p)] => Content(p) = Absent

(* What a page holds is among what it has held since a thread called       *)
(* FlushAllPages, and so is what the disk holds if the page's instance has *)
(* been flushed.                                                           *)
FlushesKeepUp == \A t \in Threads : at[t] = "flush" => \A p \in PageIds :
  /\ IF Content(p) = Absent THEN since[t][p] = {} ELSE Content(p) \in since[t][p]
  /\ Home(p) < idx[t] => since[t][p] = {} \/ disk[p] \in since[t][p]

IInv == /\ TypeOK
        /\ LoopBounded
        /\ PagesAtHome
        /\ PinnedAreCached
        /\ WithinPoolSize
        /\ IdsAtHome
        /\ IdsCounted
        /\ FreshIdsAbsent
        /\ FlushesKeepUp
-----------------------------------------------------------------------------
(* The remainder of an index is an instance, and the ids an instance deals *)
(* out, NumInstances apart, have the same one.                             *)
LEMMA Remainders ==
  /\ \A n \in Nat : n % NumInstances \in Instances
  /\ \A n \in Nat : Home(n) \in Instances
  /\ \A i \in Instances : Home(i) = i
  /\ \A n \in Nat : Home(NextId(n)) = Home(n)
<1>1. NumInstances \in Nat /\ NumInstances > 0
  BY ParallelAssumption
<1>2. ASSUME NEW n \in Nat
      PROVE  n % NumInstances \in Instances /\ (n + NumInstances) % NumInstances = n % NumInstances
  <2>1. n % NumInstances \in Instances
    BY <1>1 DEF Instances
  <2>2. PICK q \in Nat, r \in 0 .. NumInstances - 1 : n = NumInstances * q + r
    <3>1. n \div NumInstances \in Nat
      BY <1>1
    <3>2. n - NumInstances * (n \div NumInstances) \in 0 .. NumInstances - 1
      BY <1>1
    <3>3. PICK q \in Nat : n - NumInstances * q \in 0 .. NumInstances - 1
      BY <3>1, <3>2
    <3>4. n = NumInstances * q + (n - NumInstances * q)
      BY <1>1
    <3> QED BY <3>3, <3>4
  <2>3. \A k \in Nat : (NumInstances * k + r) % NumInstances = r
    BY <1>1, <2>2
  <2>4. n + NumInstances = NumInstances * (q + 1) + r
    BY <1>1, <2>2
  <2>5. (NumInstances * (q + 1) + r) % NumInstances = r
    BY <2>3
  <2> QED BY <2>1, <2>2, <2>3, <2>4, <2>5
<1>3. \A i \in Instances : i % NumInstances = i
  BY <1>1 DEF Instances
<1> QED BY <1>2, <1>3 DEF Home, NextId

LEMMA FinitelyManyPages ==
  /\ IsFiniteSet(PageIds) /\ PageIds \subseteq Nat
  /\ \A S \in SUBSET PageIds : IsFiniteSet(S) /\ Cardinality(S) \in Nat
<1>1. NumInstances * MaxCalls \in Nat
  BY ParallelAssumption
<1>2. IsFiniteSet(PageIds) /\ PageIds \subseteq Nat
  BY <1>1, FS_Interval DEF PageIds
<1>3. ASSUME NEW S \in SUBSET PageIds PROVE IsFiniteSet(S) /\ Cardinality(S) \in Nat
  <2>1. IsFiniteSet(S)
    BY <1>2, FS_Subset
  <2> QED BY <2>1, FS_CardinalityType
<1> QED BY <1>2, <1>3

(* A thread with a page to make finds an id for it below the bound.        *)
LEMMA NewIdIsPageId ==
  ASSUME IInv, NEW t \in Making, NEW i \in Instances
  PROVE  next_page_id[i] \in PageIds
<1>1. /\ NumInstances \in Nat /\ NumInstances > 0 /\ MaxCalls \in Nat
      /\ i \in Nat /\ i < NumInstances
      /\ calls \in Nat /\ calls =< MaxCalls
      /\ next_page_id[i] \in Nat
  BY ParallelAssumption DEF Instances, IInv, TypeOK
<1> DEFINE making == Cardinality(Making)
<1>2. IsFiniteSet(Making)
  BY DEF IInv, IdsCounted
<1>3. making \in Nat /\ making # 0
  <2>1. making \in Nat
    BY <1>2, FS_CardinalityType
  <2>2. making # 0
    BY <1>2, FS_EmptySet
  <2> QED BY <2>1, <2>2
<1>4. next_page_id[i] + NumInstances * making =< i + NumInstances * calls
  BY DEF IInv, IdsCounted
<1> HIDE DEF making
<1>5. NumInstances * making >= NumInstances /\ NumInstances * calls =< NumInstances * MaxCalls
  <2>1. \A a, b, c \in Nat : b =< c => a * b =< a * c
    OBVIOUS
  <2>2. NumInstances * 1 =< NumInstances * making
    BY <1>1, <1>3, <2>1
  <2>3. NumInstances * calls =< NumInstances * MaxCalls
    BY <1>1, <2>1
  <2> QED BY <1>1, <2>2, <2>3
<1>6. NumInstances * making \in Nat /\ NumInstances * calls \in Nat /\ NumInstances * MaxCalls \in Nat
  BY <1>1, <1>3
<1>7. next_page_id[i] < NumInstances * MaxCalls
  BY <1>1, <1>4, <1>5, <1>6
<1> QED BY <1>1, <1>6, <1>7 DEF PageIds-----------------------------------------------------------------------------
(* Page p holds what it held, and the disk has kept its copy or got that   *)
(* content.                                                                *)
Kept(p) == /\ Content(p)' = Content(p)
           /\ disk'[p] = disk[p] \/ (Content(p) # Absent /\ disk'[p] = Content(p))

InstanceTypes == /\ memory \in [Instances -> [PageIds -> Data \union {Absent}]]
                 /\ pins \in [Instances -> [PageIds -> 0 .. MaxPins]]
                 /\ next_page_id \in [Instances -> Nat]
                 /\ disk \in [PageIds -> Data \union {Absent}]

InstancesInv == InstanceTypes /\ PagesAtHome /\ PinnedAreCached /\ WithinPoolSize

(* An instance that admits a page evicts at most a page that is not        *)
(* pinned, and changes no other page.                                      *)
LEMMA AdmitEffect ==
  ASSUME InstancesInv, NEW i \in Instances, NEW p \in PageIds, Home(p) = i,
         NEW v \in Data, Admit(i, p, v), next_page_id' \in [Instances -> Nat]
  PROVE  /\ InstancesInv'
         /\ \A q \in PageIds : q # p => Kept(q)
         /\ Content(p)' = v /\ disk'[p] = v
         /\ \A j \in Instances :
              PinnedPages(j)' = IF j = i THEN PinnedPages(i) \union {p} ELSE PinnedPages(j)
<1>1. /\ memory \in [Instances -> [PageIds -> Data \union {Absent}]]
      /\ pins \in [Instances -> [PageIds -> 0 .. MaxPins]]
      /\ disk \in [PageIds -> Data \union {Absent}]
  BY DEF InstancesInv, InstanceTypes
<1>2. PICK gone \in Evictable(i) :
        /\ memory' = [memory EXCEPT ![i] = [Without(i, gone) EXCEPT ![p] = v]]
        /\ disk' = [Saved(i, gone) EXCEPT ![p] = v]
  BY DEF Admit
<1>3. /\ gone \subseteq Cached(i) \ PinnedPages(i)
      /\ Cardinality(Cached(i)) < PoolSize \/ \E victim \in Cached(i) : gone = {victim}
  BY <1>2 DEF Evictable
<1>4. /\ memory' \in [Instances -> [PageIds -> Data \union {Absent}]]
      /\ \A j \in Instances : j # i => memory'[j] = memory[j]
      /\ \A q \in PageIds :
           memory'[i][q] = IF q = p THEN v ELSE IF q \in gone THEN Absent ELSE memory[i][q]
  BY <1>1, <1>2 DEF Without
<1>5. /\ disk' \in [PageIds -> Data \union {Absent}]
      /\ \A q \in PageIds :
           disk'[q] = IF q = p THEN v ELSE IF q \in gone THEN memory[i][q] ELSE disk[q]
  BY <1>1, <1>2, <1>3 DEF Saved
<1>6. /\ pins' \in [Instances -> [PageIds -> 0 .. MaxPins]]
      /\ \A j \in Instances : j # i => pins'[j] = pins[j]
      /\ \A q \in PageIds : pins'[i][q] = IF q = p THEN 1 ELSE pins[i][q]
  BY <1>1, ParallelAssumption DEF Admit
<1>7. v # Absent
  BY ParallelAssumption
<1>8. /\ Cached(i)' = (Cached(i) \ gone) \union {p}
      /\ \A j \in Instances : j # i => Cached(j)' = Cached(j)
  BY <1>4, <1>7 DEF Cached
<1>9. \A j \in Instances :
        PinnedPages(j)' = IF j = i THEN PinnedPages(i) \union {p} ELSE PinnedPages(j)
  BY <1>6 DEF PinnedPages
<1>10. PagesAtHome'
  BY <1>8 DEF InstancesInv, PagesAtHome
<1>11. PinnedAreCached'
  BY <1>3, <1>8, <1>9 DEF InstancesInv, PinnedAreCached
<1>12. Cardinality(Cached(i)') <= PoolSize
  <2>1. IsFiniteSet(Cached(i)) /\ Cardinality(Cached(i)) \in Nat
    BY FinitelyManyPages DEF Cached
  <2>2. Cardinality(Cached(i)) <= PoolSize /\ PoolSize \in Nat
    BY ParallelAssumption DEF InstancesInv, WithinPoolSize
  <2>3. /\ IsFiniteSet(Cached(i) \ gone)
        /\ Cardinality(Cached(i) \ gone) \in Nat
        /\ Cardinality(Cached(i) \ gone) < PoolSize
    <3>1. CASE Cardinality(Cached(i)) < PoolSize
      <4>1. (Cached(i) \ gone) \in SUBSET Cached(i)
        OBVIOUS
      <4>2. IsFiniteSet(Cached(i) \ gone) /\ Cardinality(Cached(i) \ gone) <= Cardinality(Cached(i))
        BY <2>1, <4>1, FS_Subset
      <4>3. Cardinality(Cached(i) \ gone) \in Nat
        BY <4>2, FS_CardinalityType
      <4> QED BY <2>1, <2>2, <3>1, <4>2, <4>3
    <3>2. ASSUME NEW victim \in Cached(i), gone = {victim}
          PROVE  /\ IsFiniteSet(Cached(i) \ gone)
                 /\ Cardinality(Cached(i) \ gone) \in Nat
                 /\ Cardinality(Cached(i) \ gone) < PoolSize
      <4>1. /\ IsFiniteSet(Cached(i) \ {victim})
            /\ Cardinality(Cached(i) \ {victim}) = Cardinality(Cached(i)) - 1
        BY <2>1, FS_RemoveElement
      <4>2. Cardinality(Cached(i) \ {victim}) \in Nat
        BY <4>1, FS_CardinalityType
      <4> QED BY <2>1, <2>2, <3>2, <4>1, <4>2
    <3> QED BY <1>3, <3>1, <3>2
  <2>4. Cardinality((Cached(i) \ gone) \union {p}) =
          IF p \in Cached(i) \ gone THEN Cardinality(Cached(i) \ gone)
                                    ELSE Cardinality(Cached(i) \ gone) + 1
    BY <2>3, FS_AddElement
  <2>5. Cardinality((Cached(i) \ gone) \union {p}) <= PoolSize
    BY <2>2, <2>3, <2>4
  <2> QED BY <1>8, <2>5
<1>13. WithinPoolSize'
  BY <1>8, <1>12 DEF InstancesInv, WithinPoolSize
<1>14. \A q \in PageIds : Home(q) \in Instances
  BY Remainders, FinitelyManyPages
<1>15. ASSUME NEW q \in PageIds, q # p PROVE Kept(q)
  <2>1. CASE q \in gone
    <3>1. Home(q) = i /\ q \in Cached(i) /\ q \notin Cached(i)'
      BY <1>3, <1>8, <1>15, <2>1 DEF InstancesInv, PagesAtHome
    <3>2. Content(q) = memory[i][q] /\ Content(q)' = disk'[q]
      BY <3>1 DEF Content
    <3>3. disk'[q] = memory[i][q] /\ memory[i][q] # Absent
      BY <1>5, <1>15, <2>1, <3>1 DEF Cached
    <3> QED BY <3>2, <3>3 DEF Kept
  <2>2. CASE q \notin gone
    <3>1. /\ disk'[q] = disk[q]
          /\ memory'[Home(q)][q] = memory[Home(q)][q]
          /\ q \in Cached(Home(q))' <=> q \in Cached(Home(q))
      BY <1>4, <1>5, <1>8, <1>14, <1>15, <2>2
    <3> QED BY <3>1 DEF Kept, Content
  <2> QED BY <2>1, <2>2
<1>16. Content(p)' = v /\ disk'[p] = v
  BY <1>4, <1>5, <1>8 DEF Content
<1> QED BY <1>4, <1>5, <1>6, <1>9, <1>10, <1>11, <1>13, <1>15, <1>16 DEF InstancesInv, InstanceTypes

(* Writing pages to the disk, and dropping pages that are not pinned from  *)
(* memory once they are written, changes no page's content.                *)
LEMMA SaveEffect ==
  ASSUME InstancesInv, NEW i \in Instances, NEW S \in SUBSET PageIds,
         disk' = Saved(i, S),
         \/ memory' = memory
         \/ memory' = [memory EXCEPT ![i] = Without(i, S)] /\ PinnedPages(i) \intersect S = {},
         UNCHANGED <<pins, next_page_id>>
  PROVE  /\ InstancesInv'
         /\ \A q \in PageIds : Kept(q)
         /\ \A j \in Instances : PinnedPages(j)' = PinnedPages(j)
<1>1. /\ memory \in [Instances -> [PageIds -> Data \union {Absent}]]
      /\ disk \in [PageIds -> Data \union {Absent}]
  BY DEF InstancesInv, InstanceTypes
<1>2. PICK gone \in {{}, S} :
        /\ PinnedPages(i) \intersect gone = {}
        /\ memory' \in [Instances -> [PageIds -> Data \union {Absent}]]
        /\ \A j \in Instances : j # i => memory'[j] = memory[j]
        /\ \A q \in PageIds : memory'[i][q] = IF q \in gone THEN Absent ELSE memory[i][q]
  <2>1. CASE memory' = memory
    BY <1>1, <2>1
  <2>2. CASE memory' = [memory EXCEPT ![i] = Without(i, S)] /\ PinnedPages(i) \intersect S = {}
    BY <1>1, <2>2 DEF Without
  <2> QED BY <2>1, <2>2
<1>3. /\ disk' \in [PageIds -> Data \union {Absent}]
      /\ \A q \in PageIds :
           disk'[q] = IF q \in S /\ q \in Cached(i) THEN memory[i][q] ELSE disk[q]
  BY <1>1 DEF Saved
<1>4. /\ Cached(i)' = Cached(i) \ gone
      /\ \A j \in Instances : j # i => Cached(j)' = Cached(j)
  BY <1>2 DEF Cached
<1>5. \A j \in Instances : PinnedPages(j)' = PinnedPages(j)
  BY DEF PinnedPages
<1>6. PagesAtHome'
  BY <1>4 DEF InstancesInv, PagesAtHome
<1>7. PinnedAreCached'
  BY <1>2, <1>4, <1>5 DEF InstancesInv, PinnedAreCached
<1>8. Cardinality(Cached(i)') <= PoolSize
  <2>1. IsFiniteSet(Cached(i)) /\ Cardinality(Cached(i)) \in Nat
    BY FinitelyManyPages DEF Cached
  <2>2. Cardinality(Cached(i)) <= PoolSize /\ PoolSize \in Nat
    BY ParallelAssumption DEF InstancesInv, WithinPoolSize
  <2>3. (Cached(i) \ gone) \in SUBSET Cached(i)
    OBVIOUS
  <2>4. IsFiniteSet(Cached(i) \ gone) /\ Cardinality(Cached(i) \ gone) <= Cardinality(Cached(i))
    BY <2>1, <2>3, FS_Subset
  <2>5. Cardinality(Cached(i) \ gone) \in Nat
    BY <2>4, FS_CardinalityType
  <2> QED BY <1>4, <2>1, <2>2, <2>4, <2>5
<1>9. WithinPoolSize'
  BY <1>4, <1>8 DEF InstancesInv, WithinPoolSize
<1>10. \A q \in PageIds : Home(q) \in Instances
  BY Remainders, FinitelyManyPages
<1>11. ASSUME NEW q \in PageIds PROVE Kept(q)
  <2>1. CASE q \in S /\ q \in Cached(i)
    <3>1. Home(q) = i /\ Content(q) = memory[i][q] /\ memory[i][q] # Absent
      BY <2>1 DEF InstancesInv, PagesAtHome, Content, Cached
    <3>2. disk'[q] = memory[i][q]
      BY <1>3, <2>1
    <3>3. q \in Cached(i)' => memory'[i][q] = memory[i][q]
      BY <1>2, <1>4
    <3>4. Content(q)' = memory[i][q]
      BY <3>1, <3>2, <3>3 DEF Content
    <3> QED BY <3>1, <3>2, <3>4 DEF Kept
  <2>2. CASE q \notin S \/ q \notin Cached(i)
    <3>1. /\ disk'[q] = disk[q]
          /\ q \in Cached(Home(q))' <=> q \in Cached(Home(q))
          /\ q \in Cached(Home(q)) => memory'[Home(q)][q] = memory[Home(q)][q]
      BY <1>2, <1>3, <1>4, <1>10, <2>2
    <3> QED BY <3>1 DEF Kept, Content
  <2> QED BY <2>1, <2>2
<1> QED BY <1>2, <1>3, <1>5, <1>6, <1>7, <1>9, <1>11 DEF InstancesInv, InstanceTypes

(* A client writes to a page it has pinned, which is at home.              *)
LEMMA WriteEffect ==
  ASSUME InstancesInv, NEW i \in Instances, NEW p \in PageIds, NEW v \in Data,
         ClientWrite(i, p, v)
  PROVE  /\ InstancesInv'
         /\ \A q \in PageIds : q # p => Kept(q)
         /\ Content(p)' = v
         /\ Home(p) = i
         /\ \A j \in Instances : PinnedPages(j)' = PinnedPages(j)
<1>1. memory \in [Instances -> [PageIds -> Data \union {Absent}]]
  BY DEF InstancesInv, InstanceTypes
<1>2. p \in Cached(i) /\ Home(p) = i
  BY DEF InstancesInv, PinnedAreCached, PagesAtHome, ClientWrite, PinnedPages
<1>3. /\ memory' \in [Instances -> [PageIds -> Data \union {Absent}]]
      /\ \A j \in Instances : j # i => memory'[j] = memory[j]
      /\ \A q \in PageIds : memory'[i][q] = IF q = p THEN v ELSE memory[i][q]
      /\ UNCHANGED <<pins, next_page_id, disk>>
  BY <1>1 DEF ClientWrite
<1>4. v # Absent
  BY ParallelAssumption
<1>5. \A j \in Instances : Cached(j)' = Cached(j)
  <2>1. \A j \in Instances : j # i => Cached(j)' = Cached(j)
    BY <1>3 DEF Cached
  <2>2. Cached(i)' = Cached(i)
    BY <1>2, <1>3, <1>4 DEF Cached
  <2> QED BY <2>1, <2>2
<1>6. \A j \in Instances : PinnedPages(j)' = PinnedPages(j)
  BY <1>3 DEF PinnedPages
<1>7. PagesAtHome' /\ PinnedAreCached' /\ WithinPoolSize'
  BY <1>5, <1>6 DEF InstancesInv, PagesAtHome, PinnedAreCached, WithinPoolSize
<1>8. \A q \in PageIds : Home(q) \in Instances
  BY Remainders, FinitelyManyPages
<1>9. ASSUME NEW q \in PageIds, q # p PROVE Kept(q)
  <2>1. memory'[Home(q)][q] = memory[Home(q)][q] /\ Cached(Home(q))' = Cached(Home(q))
    BY <1>3, <1>5, <1>8, <1>9
  <2> QED BY <1>3, <2>1 DEF Kept, Content
<1>10. Content(p)' = v
  BY <1>2, <1>3, <1>5 DEF Content
<1> QED BY <1>2, <1>3, <1>6, <1>7, <1>9, <1>10 DEF InstancesInv, InstanceTypes-----------------------------------------------------------------------------
CallTypes ==
  /\ start_idx \in Instances
  /\ at \in [Threads -> {"idle", "test", "try", "bump", "return", "flush"}]
  /\ idx \in [Threads -> 0 .. 2 * NumInstances]
  /\ my_page \in [Threads -> SUBSET PageIds]
  /\ seen \in [Threads -> Instances]
  /\ tried \in [Threads -> SUBSET Instances]
  /\ calls \in 0 .. MaxCalls
  /\ since \in [Threads -> [PageIds -> SUBSET Data]]

LEMMA PartsOfIInv ==
  IInv <=> /\ CallTypes /\ InstancesInv /\ LoopBounded
           /\ IdsAtHome /\ IdsCounted /\ FreshIdsAbsent /\ FlushesKeepUp
BY DEF IInv, TypeOK, CallTypes, InstanceTypes, InstancesInv

(* The ids that are left suffice for the threads in NewPage when no more   *)
(* threads need one, and when a call adds one.                             *)
LEMMA CountKept ==
  ASSUME IdsCounted, calls \in Nat, calls' \in Nat, next_page_id \in [Instances -> Nat],
         next_page_id' = next_page_id,
         \/ Making' \subseteq Making /\ calls =< calls'
         \/ (\E t : Making' = Making \union {t}) /\ calls' = calls + 1
  PROVE  IdsCounted'
<1>1. NumInstances \in Nat /\ \A i \in Instances : i \in Nat
  BY ParallelAssumption DEF Instances
<1>2. IsFiniteSet(Making) /\ Cardinality(Making) \in Nat
  BY FS_CardinalityType DEF IdsCounted
<1>3. ASSUME Making' \subseteq Making, calls =< calls'
      PROVE  IdsCounted'
  <2>1. Making' \in SUBSET Making
    BY <1>3
  <2>2. IsFiniteSet(Making') /\ Cardinality(Making') <= Cardinality(Making)
    BY <1>2, <2>1, FS_Subset
  <2>3. Cardinality(Making') \in Nat
    BY <2>2, FS_CardinalityType
  <2>4. \A a, b, c \in Nat : b =< c => a * b =< a * c /\ a * b \in Nat /\ a * c \in Nat
    OBVIOUS
  <2>5. /\ NumInstances * Cardinality(Making') =< NumInstances * Cardinality(Making)
        /\ NumInstances * Cardinality(Making') \in Nat
        /\ NumInstances * Cardinality(Making) \in Nat
    BY <1>1, <1>2, <2>2, <2>3, <2>4
  <2>6. /\ NumInstances * calls =< NumInstances * calls'
        /\ NumInstances * calls \in Nat
        /\ NumInstances * calls' \in Nat
    BY <1>1, <1>3, <2>4
  <2>7. ASSUME NEW i \in Instances
        PROVE  next_page_id'[i] + NumInstances * Cardinality(Making') =< i + NumInstances * calls'
    <3>1. next_page_id[i] \in Nat
      OBVIOUS
    <3>2. next_page_id[i] + NumInstances * Cardinality(Making) =< i + NumInstances * calls
      BY DEF IdsCounted
    <3> QED BY <1>1, <2>5, <2>6, <3>1, <3>2
  <2> QED BY <2>2, <2>7 DEF IdsCounted
<1>4. ASSUME NEW t, Making' = Making \union {t}, calls' = calls + 1
      PROVE  IdsCounted'
  <2>1. /\ IsFiniteSet(Making')
        /\ Cardinality(Making') =
             IF t \in Making THEN Cardinality(Making) ELSE Cardinality(Making) + 1
    BY <1>2, <1>4, FS_AddElement
  <2>2. Cardinality(Making') \in Nat /\ Cardinality(Making') =< Cardinality(Making) + 1
    BY <1>2, <2>1
  <2>3. \A a, b, c \in Nat : b =< c + 1 => a * b =< a * c + a /\ a * b \in Nat /\ a * c \in Nat
    <3>1. \A a, b, c \in Nat : b =< c => a * b =< a * c /\ a * b \in Nat /\ a * c \in Nat
      OBVIOUS
    <3>2. \A a, c \in Nat : a * (c + 1) = a * c + a
      OBVIOUS
    <3>3. \A c \in Nat : c + 1 \in Nat
      OBVIOUS
    <3> QED BY <3>1, <3>2, <3>3
  <2>4. /\ NumInstances * Cardinality(Making') =< NumInstances * Cardinality(Making) + NumInstances
        /\ NumInstances * Cardinality(Making') \in Nat
        /\ NumInstances * Cardinality(Making) \in Nat
    BY <1>1, <1>2, <2>2, <2>3
  <2>5. NumInstances * calls' = NumInstances * calls + NumInstances
    BY <1>1, <1>4
  <2>6. NumInstances * calls \in Nat
    BY <1>1
  <2>7. ASSUME NEW i \in Instances
        PROVE  next_page_id'[i] + NumInstances * Cardinality(Making') =< i + NumInstances * calls'
    <3>1. next_page_id[i] \in Nat
      OBVIOUS
    <3>2. next_page_id[i] + NumInstances * Cardinality(Making) =< i + NumInstances * calls
      BY DEF IdsCounted
    <3>3. \A a, b, c, d, e, f \in Nat :
            a + b =< e + c /\ d =< b + f => a + d =< e + (c + f)
      OBVIOUS
    <3>4. next_page_id[i] + NumInstances * Cardinality(Making') =<
            i + (NumInstances * calls + NumInstances)
      BY <1>1, <2>4, <2>6, <3>1, <3>2, <3>3
    <3> QED BY <2>5, <3>4
  <2> QED BY <2>1, <2>7 DEF IdsCounted
<1> QED BY <1>3, <1>4

(* What an instance does for one call leaves the pages of others alone.    *)
LEMMA FlushesGoOn ==
  ASSUME FlushesKeepUp, \A p \in PageIds : Kept(p),
         \A t \in Threads : at'[t] = "flush" =>
           at[t] = "flush" /\ idx'[t] = idx[t] /\ since'[t] = since[t]
  PROVE  FlushesKeepUp'
<1> SUFFICES ASSUME NEW t \in Threads, at'[t] = "flush", NEW p \in PageIds
             PROVE  /\ IF Content(p)' = Absent THEN since'[t][p] = {}
                                               ELSE Content(p)' \in since'[t][p]
                    /\ Home(p) < idx'[t] => since'[t][p] = {} \/ disk'[p] \in since'[t][p]
  BY DEF FlushesKeepUp
<1>1. at[t] = "flush" /\ idx'[t] = idx[t] /\ since'[t] = since[t]
  OBVIOUS
<1>2. /\ IF Content(p) = Absent THEN since[t][p] = {} ELSE Content(p) \in since[t][p]
      /\ Home(p) < idx[t] => since[t][p] = {} \/ disk[p] \in since[t][p]
  BY <1>1 DEF FlushesKeepUp
<1>3. Kept(p)
  OBVIOUS
<1> QED BY <1>1, <1>2, <1>3 DEF Kept

(* Page p gets content v, which Remember records.                          *)
LEMMA FlushesRemember ==
  ASSUME FlushesKeepUp, since \in [Threads -> [PageIds -> SUBSET Data]],
         NEW p \in PageIds, NEW v \in Data, Remember(p, v),
         \A q \in PageIds : q # p => Kept(q),
         Content(p)' = v,
         disk'[p] = v \/ (disk'[p] = disk[p] /\ Content(p) # Absent),
         \A t \in Threads : at'[t] = "flush" => at[t] = "flush" /\ idx'[t] = idx[t]
  PROVE  FlushesKeepUp'
<1> SUFFICES ASSUME NEW t \in Threads, at'[t] = "flush", NEW q \in PageIds
             PROVE  /\ IF Content(q)' = Absent THEN since'[t][q] = {}
                                               ELSE Content(q)' \in since'[t][q]
                    /\ Home(q) < idx'[t] => since'[t][q] = {} \/ disk'[q] \in since'[t][q]
  BY DEF FlushesKeepUp
<1>1. at[t] = "flush" /\ idx'[t] = idx[t]
  OBVIOUS
<1>2. since'[t][q] = IF q = p THEN since[t][q] \union {v} ELSE since[t][q]
  BY <1>1 DEF Remember
<1>3. /\ IF Content(q) = Absent THEN since[t][q] = {} ELSE Content(q) \in since[t][q]
      /\ Home(q) < idx[t] => since[t][q] = {} \/ disk[q] \in since[t][q]
  BY <1>1 DEF FlushesKeepUp
<1>4. CASE q = p
  <2>1. v # Absent
    BY ParallelAssumption
  <2> QED BY <1>1, <1>2, <1>3, <1>4, <2>1
<1>5. CASE q # p
  <2>1. Kept(q)
    BY <1>5
  <2> QED BY <1>1, <1>2, <1>3, <1>5, <2>1 DEF Kept
<1> QED BY <1>4, <1>5-----------------------------------------------------------------------------
LEMMA InitIInv == Init => IInv
<1> SUFFICES ASSUME Init PROVE IInv
  OBVIOUS
<1>1. NumInstances \in Nat /\ NumInstances > 0 /\ PoolSize \in Nat /\ MaxPins \in Nat
  BY ParallelAssumption
<1>2. CallTypes
  BY <1>1, ParallelAssumption DEF Init, CallTypes, Instances
<1>3. InstanceTypes
  BY <1>1 DEF Init, InstanceTypes, Instances
<1>4. \A i \in Instances : Cached(i) = {} /\ PinnedPages(i) = {}
  BY DEF Init, Cached, PinnedPages
<1>5. PagesAtHome /\ PinnedAreCached /\ WithinPoolSize
  BY <1>1, <1>4, FS_EmptySet DEF PagesAtHome, PinnedAreCached, WithinPoolSize
<1>6. LoopBounded /\ FlushesKeepUp
  BY DEF Init, LoopBounded, FlushesKeepUp
<1>7. IdsAtHome
  BY Remainders DEF Init, IdsAtHome
<1>8. IdsCounted
  <2>1. Making = {} /\ calls = 0
    BY DEF Init, Making
  <2>2. IsFiniteSet(Making) /\ Cardinality(Making) = 0
    BY <2>1, FS_EmptySet
  <2>3. ASSUME NEW i \in Instances
        PROVE  next_page_id[i] + NumInstances * Cardinality(Making) =< i + NumInstances * calls
    <3>1. next_page_id[i] = i /\ i \in Nat
      BY <1>1 DEF Init, Instances
    <3>2. NumInstances * 0 = 0
      BY <1>1
    <3> QED BY <2>1, <2>2, <3>1, <3>2
  <2> QED BY <2>2, <2>3 DEF IdsCounted
<1>9. FreshIdsAbsent
  <2>1. \A p \in PageIds : Home(p) \in Instances
    BY Remainders, FinitelyManyPages
  <2> QED BY <1>4, <2>1 DEF Init, FreshIdsAbsent, Content
<1> QED BY <1>2, <1>3, <1>5, <1>6, <1>7, <1>8, <1>9, PartsOfIInv DEF InstancesInv

(* A step of a call that leaves the instances alone.                       *)
LEMMA CallStep ==
  ASSUME IInv, UNCHANGED instanceVars, CallTypes', LoopBounded',
         \/ Making' \subseteq Making /\ calls =< calls'
         \/ (\E t : Making' = Making \union {t}) /\ calls' = calls + 1,
         \/ FlushesKeepUp'
         \/ \A t \in Threads : at'[t] = "flush" =>
              at[t] = "flush" /\ idx'[t] = idx[t] /\ since'[t] = since[t]
  PROVE  IInv'
<1>1. memory' = memory /\ pins' = pins /\ next_page_id' = next_page_id /\ disk' = disk
  BY DEF instanceVars
<1>2. \A i \in Instances : Cached(i)' = Cached(i) /\ PinnedPages(i)' = PinnedPages(i)
  BY <1>1 DEF Cached, PinnedPages
<1>3. InstancesInv'
  BY <1>1, <1>2, PartsOfIInv
     DEF InstancesInv, InstanceTypes, PagesAtHome, PinnedAreCached, WithinPoolSize
<1>4. \A p \in PageIds : Content(p)' = Content(p)
  BY <1>1 DEF Content, Cached
<1>5. \A p \in PageIds : Kept(p)
  BY <1>1, <1>4 DEF Kept
<1>6. FreshIdsAbsent'
  BY <1>1, <1>4, PartsOfIInv DEF FreshIdsAbsent
<1>7. IdsAtHome'
  BY <1>1, PartsOfIInv DEF IdsAtHome
<1>8. IdsCounted'
  <2>1. IdsCounted /\ calls \in Nat /\ next_page_id \in [Instances -> Nat]
    BY PartsOfIInv DEF CallTypes, InstancesInv, InstanceTypes
  <2>2. calls' \in Nat
    BY DEF CallTypes
  <2> QED BY <1>1, <2>1, <2>2, CountKept
<1>9. FlushesKeepUp'
  <2>1. FlushesKeepUp
    BY PartsOfIInv
  <2> QED BY <1>5, <2>1, FlushesGoOn
<1> QED BY <1>3, <1>6, <1>7, <1>8, <1>9 DEF IInv, TypeOK, CallTypes, InstancesInv, InstanceTypes

(* A call of one instance that NewPage and FlushAllPages do not notice.    *)
LEMMA InstanceStep ==
  ASSUME IInv, UNCHANGED <<start_idx, callVars, next_page_id, since>>,
         InstancesInv', \A p \in PageIds : Kept(p)
  PROVE  IInv'
<1>1. /\ start_idx' = start_idx /\ at' = at /\ idx' = idx /\ my_page' = my_page
      /\ seen' = seen /\ tried' = tried /\ calls' = calls /\ since' = since
      /\ next_page_id' = next_page_id
  BY DEF callVars, newVars
<1>2. CallTypes' /\ LoopBounded'
  BY <1>1, PartsOfIInv DEF CallTypes, LoopBounded
<1>3. IdsAtHome' /\ IdsCounted'
  BY <1>1, PartsOfIInv DEF IdsAtHome, IdsCounted, Making
<1>4. FreshIdsAbsent'
  BY <1>1, PartsOfIInv DEF FreshIdsAbsent, Kept
<1>5. FlushesKeepUp'
  <2>1. FlushesKeepUp
    BY PartsOfIInv
  <2> QED BY <1>1, <2>1, FlushesGoOn
<1> QED BY <1>2, <1>3, <1>4, <1>5 DEF IInv, TypeOK, CallTypes, InstancesInv, InstanceTypes
-----------------------------------------------------------------------------
(* What the return of a call changes.                                      *)
LEMMA ReturnEffect ==
  ASSUME CallTypes, LoopBounded, NEW t \in Threads, Returns(t),
         start_idx' \in Instances, calls' = calls
  PROVE  /\ CallTypes' /\ LoopBounded' /\ Making' \subseteq Making
         /\ \A u \in Threads : at'[u] = "flush" =>
              at[u] = "flush" /\ idx'[u] = idx[u] /\ since'[u] = since[u]
<1>1. 0 \in Instances /\ 0 \in 0 .. 2 * NumInstances
  BY ParallelAssumption DEF Instances
<1>2. CallTypes'
  BY <1>1 DEF CallTypes, Returns
<1>3. LoopBounded' /\ Making' \subseteq Making
  BY DEF CallTypes, Returns, LoopBounded, Making
<1>4. \A u \in Threads : at'[u] = "flush" =>
        at[u] = "flush" /\ idx'[u] = idx[u] /\ since'[u] = since[u]
  BY DEF CallTypes, Returns
<1> QED BY <1>2, <1>3, <1>4

LEMMA NewBeginKeepsIInv ==
  ASSUME IInv, NEW t \in Threads, NewBegin(t)
  PROVE  IInv'
<1>1. CallTypes /\ LoopBounded
  BY PartsOfIInv
<1>2. /\ NumInstances \in Nat /\ start_idx \in Nat /\ start_idx < NumInstances
      /\ calls \in Nat /\ calls < MaxCalls /\ MaxCalls \in Nat
  BY <1>1, ParallelAssumption DEF CallTypes, Instances, NewBegin
<1>3. /\ at' = [at EXCEPT ![t] = "test"]
      /\ idx' = [idx EXCEPT ![t] = start_idx]
      /\ calls' = calls + 1
      /\ UNCHANGED <<start_idx, my_page, seen, tried, since>>
      /\ UNCHANGED instanceVars
  BY DEF NewBegin, newVars
<1>4. CallTypes'
  BY <1>1, <1>2, <1>3 DEF CallTypes
<1>5. LoopBounded'
  BY <1>1, <1>2, <1>3 DEF CallTypes, LoopBounded
<1>6. Making' = Making \union {t}
  BY <1>1, <1>3 DEF CallTypes, Making
<1>7. \A u \in Threads : at'[u] = "flush" =>
        at[u] = "flush" /\ idx'[u] = idx[u] /\ since'[u] = since[u]
  BY <1>1, <1>3 DEF CallTypes
<1> QED BY <1>3, <1>4, <1>5, <1>6, <1>7, CallStep

LEMMA TestKeepsIInv ==
  ASSUME IInv, NEW t \in Threads, Test(t)
  PROVE  IInv'
<1>1. CallTypes /\ LoopBounded
  BY PartsOfIInv
<1>2. NumInstances \in Nat /\ start_idx \in Nat /\ start_idx < NumInstances
  BY <1>1, ParallelAssumption DEF CallTypes, Instances
<1>3. /\ at[t] = "test"
      /\ at' = [at EXCEPT ![t] = IF InLoop(t) THEN "try" ELSE "bump"]
      /\ UNCHANGED <<start_idx, idx, my_page, seen, tried, calls, since>>
      /\ UNCHANGED instanceVars
  BY DEF Test, newVars
<1>4. CallTypes'
  BY <1>1, <1>3 DEF CallTypes
<1>5. LoopBounded'
  <2>1. InLoop(t) => idx[t] < 2 * NumInstances - 1
    BY <1>1, <1>2 DEF CallTypes, InLoop
  <2> QED BY <1>1, <1>3, <2>1 DEF CallTypes, LoopBounded
<1>6. Making' \subseteq Making /\ calls =< calls'
  BY <1>1, <1>3 DEF CallTypes, Making
<1>7. \A u \in Threads : at'[u] = "flush" =>
        at[u] = "flush" /\ idx'[u] = idx[u] /\ since'[u] = since[u]
  BY <1>1, <1>3 DEF CallTypes
<1> QED BY <1>3, <1>4, <1>5, <1>6, <1>7, CallStep

LEMMA TryFailsKeepsIInv ==
  ASSUME IInv, NEW t \in Threads, TryFails(t)
  PROVE  IInv'
<1>1. CallTypes /\ LoopBounded
  BY PartsOfIInv
<1>2. NumInstances \in Nat /\ idx[t] \in Nat /\ idx[t] < 2 * NumInstances - 1
  BY <1>1, ParallelAssumption DEF CallTypes, LoopBounded, TryFails
<1>3. idx[t] % NumInstances \in Instances
  BY <1>2, Remainders
<1>4. /\ at[t] = "try"
      /\ at' = [at EXCEPT ![t] = "test"]
      /\ idx' = [idx EXCEPT ![t] = @ + 1]
      /\ tried' = [tried EXCEPT ![t] = @ \union {idx[t] % NumInstances}]
      /\ UNCHANGED <<start_idx, my_page, seen, calls, since>>
      /\ UNCHANGED instanceVars
  BY DEF TryFails
<1>5. CallTypes'
  <2>1. tried' \in [Threads -> SUBSET Instances]
    BY <1>1, <1>3, <1>4 DEF CallTypes
  <2>2. idx' \in [Threads -> 0 .. 2 * NumInstances]
    BY <1>1, <1>2, <1>4 DEF CallTypes
  <2> QED BY <1>1, <1>4, <2>1, <2>2 DEF CallTypes
<1>6. LoopBounded'
  BY <1>1, <1>2, <1>4 DEF CallTypes, LoopBounded
<1>7. Making' \subseteq Making /\ calls =< calls'
  BY <1>1, <1>4 DEF CallTypes, Making
<1>8. \A u \in Threads : at'[u] = "flush" =>
        at[u] = "flush" /\ idx'[u] = idx[u] /\ since'[u] = since[u]
  BY <1>1, <1>4 DEF CallTypes
<1> QED BY <1>4, <1>5, <1>6, <1>7, <1>8, CallStep

LEMMA BumpReadKeepsIInv ==
  ASSUME IInv, NEW t \in Threads, BumpRead(t)
  PROVE  IInv'
<1>1. CallTypes /\ LoopBounded
  BY PartsOfIInv
<1>2. /\ at[t] = "bump"
      /\ at' = [at EXCEPT ![t] = "return"]
      /\ seen' = [seen EXCEPT ![t] = start_idx]
      /\ UNCHANGED <<start_idx, idx, my_page, tried, calls, since>>
      /\ UNCHANGED instanceVars
  BY DEF BumpRead
<1>3. CallTypes'
  BY <1>1, <1>2 DEF CallTypes
<1>4. LoopBounded'
  BY <1>1, <1>2 DEF CallTypes, LoopBounded
<1>5. Making' \subseteq Making /\ calls =< calls'
  BY <1>1, <1>2 DEF CallTypes, Making
<1>6. \A u \in Threads : at'[u] = "flush" =>
        at[u] = "flush" /\ idx'[u] = idx[u] /\ since'[u] = since[u]
  BY <1>1, <1>2 DEF CallTypes
<1> QED BY <1>2, <1>3, <1>4, <1>5, <1>6, CallStep

LEMMA BumpWriteKeepsIInv ==
  ASSUME IInv, NEW t \in Threads, BumpWrite(t)
  PROVE  IInv'
<1>1. CallTypes /\ LoopBounded
  BY PartsOfIInv
<1>2. seen[t] + 1 \in Nat
  BY <1>1 DEF CallTypes, Instances
<1>3. start_idx' \in Instances /\ Returns(t) /\ calls' = calls /\ UNCHANGED instanceVars
  BY <1>2, Remainders DEF BumpWrite
<1>4. /\ CallTypes' /\ LoopBounded' /\ Making' \subseteq Making
      /\ \A u \in Threads : at'[u] = "flush" =>
           at[u] = "flush" /\ idx'[u] = idx[u] /\ since'[u] = since[u]
  BY <1>1, <1>3, ReturnEffect
<1>5. calls =< calls'
  BY <1>1, <1>3 DEF CallTypes
<1> QED BY <1>3, <1>4, <1>5, CallStep

LEMMA FlushReturnKeepsIInv ==
  ASSUME IInv, NEW t \in Threads, FlushReturn(t)
  PROVE  IInv'
<1>1. CallTypes /\ LoopBounded
  BY PartsOfIInv
<1>2. start_idx' \in Instances /\ Returns(t) /\ calls' = calls /\ UNCHANGED instanceVars
  BY <1>1 DEF CallTypes, FlushReturn
<1>3. /\ CallTypes' /\ LoopBounded' /\ Making' \subseteq Making
      /\ \A u \in Threads : at'[u] = "flush" =>
           at[u] = "flush" /\ idx'[u] = idx[u] /\ since'[u] = since[u]
  BY <1>1, <1>2, ReturnEffect
<1>4. calls =< calls'
  BY <1>1, <1>2 DEF CallTypes
<1> QED BY <1>2, <1>3, <1>4, CallStep
LEMMA FlushBeginKeepsIInv ==
  ASSUME IInv, NEW t \in Threads, FlushBegin(t)
  PROVE  IInv'
<1>1. CallTypes /\ LoopBounded /\ FlushesKeepUp
  BY PartsOfIInv
<1>2. /\ at[t] = "idle" /\ calls < MaxCalls /\ calls' = calls + 1
      /\ at' = [at EXCEPT ![t] = "flush"]
      /\ idx' = [idx EXCEPT ![t] = 0]
      /\ since' = [since EXCEPT ![t] = [p \in PageIds |-> {Content(p)} \ {Absent}]]
      /\ UNCHANGED <<start_idx, my_page, seen, tried>>
      /\ UNCHANGED instanceVars
  BY DEF FlushBegin, newVars
<1>3. \A p \in PageIds : Home(p) \in Instances
  BY Remainders, FinitelyManyPages
<1>4. \A p \in PageIds : Content(p) \in Data \union {Absent}
  BY <1>3, PartsOfIInv DEF InstancesInv, InstanceTypes, Content
<1>5. CallTypes'
  <2>1. since' \in [Threads -> [PageIds -> SUBSET Data]]
    BY <1>1, <1>2, <1>4 DEF CallTypes
  <2>2. calls' \in 0 .. MaxCalls
    BY <1>1, <1>2, ParallelAssumption DEF CallTypes
  <2>3. idx' \in [Threads -> 0 .. 2 * NumInstances]
    BY <1>1, <1>2, ParallelAssumption DEF CallTypes
  <2> QED BY <1>1, <1>2, <2>1, <2>2, <2>3 DEF CallTypes
<1>6. LoopBounded'
  BY <1>1, <1>2 DEF CallTypes, LoopBounded
<1>7. Making' \subseteq Making /\ calls =< calls'
  BY <1>1, <1>2 DEF CallTypes, Making
<1>8. FlushesKeepUp'
  <2> SUFFICES ASSUME NEW u \in Threads, at'[u] = "flush", NEW p \in PageIds
               PROVE  /\ IF Content(p)' = Absent THEN since'[u][p] = {}
                                                 ELSE Content(p)' \in since'[u][p]
                      /\ Home(p) < idx'[u] => since'[u][p] = {} \/ disk'[p] \in since'[u][p]
    BY DEF FlushesKeepUp
  <2>1. Content(p)' = Content(p) /\ disk' = disk
    BY <1>2 DEF instanceVars, Content, Cached
  <2>2. CASE u = t
    <3>1. since'[u][p] = {Content(p)} \ {Absent} /\ idx'[u] = 0
      BY <1>1, <1>2, <2>2 DEF CallTypes
    <3>2. ~ (Home(p) < 0)
      BY <1>3 DEF Instances
    <3> QED BY <2>1, <3>1, <3>2
  <2>3. CASE u # t
    <3>1. at[u] = "flush" /\ idx'[u] = idx[u] /\ since'[u] = since[u]
      BY <1>1, <1>2, <2>3 DEF CallTypes
    <3> QED BY <1>1, <2>1, <3>1 DEF FlushesKeepUp
  <2> QED BY <2>2, <2>3
<1> QED BY <1>2, <1>5, <1>6, <1>7, <1>8, CallStep

(* The instance in turn writes its pages.                                  *)
LEMMA FlushNextKeepsIInv ==
  ASSUME IInv, NEW t \in Threads, FlushNext(t)
  PROVE  /\ IInv'
         /\ \A p \in PageIds : Kept(p)
         /\ \A i \in Instances : PinnedPages(i)' = PinnedPages(i)
<1>1. /\ CallTypes /\ LoopBounded /\ FlushesKeepUp /\ InstancesInv
      /\ IdsAtHome /\ IdsCounted /\ FreshIdsAbsent
  BY PartsOfIInv
<1>2. idx[t] \in Instances
  BY <1>1, ParallelAssumption DEF CallTypes, FlushNext, AllFlushed, Instances
<1>3. /\ at[t] = "flush"
      /\ disk' = Saved(idx[t], PageIds)
      /\ idx' = [idx EXCEPT ![t] = @ + 1]
      /\ UNCHANGED <<start_idx, at, my_page, seen, tried, calls, since>>
      /\ UNCHANGED <<memory, pins, next_page_id>>
  BY DEF FlushNext, newVars
<1>4. /\ InstancesInv'
      /\ \A p \in PageIds : Kept(p)
      /\ \A i \in Instances : PinnedPages(i)' = PinnedPages(i)
  BY <1>1, <1>2, <1>3, SaveEffect
<1>5. CallTypes'
  <2>1. idx' \in [Threads -> 0 .. 2 * NumInstances]
    BY <1>1, <1>2, <1>3, ParallelAssumption DEF CallTypes, Instances
  <2> QED BY <1>1, <1>3, <2>1 DEF CallTypes
<1>6. LoopBounded'
  BY <1>1, <1>3 DEF CallTypes, LoopBounded
<1>7. IdsAtHome' /\ IdsCounted'
  BY <1>1, <1>3 DEF IdsAtHome, IdsCounted, Making
<1>8. FreshIdsAbsent'
  BY <1>1, <1>3, <1>4 DEF FreshIdsAbsent, Kept
<1>9. FlushesKeepUp'
  <2> SUFFICES ASSUME NEW u \in Threads, at'[u] = "flush", NEW p \in PageIds
               PROVE  /\ IF Content(p)' = Absent THEN since'[u][p] = {}
                                                 ELSE Content(p)' \in since'[u][p]
                      /\ Home(p) < idx'[u] => since'[u][p] = {} \/ disk'[p] \in since'[u][p]
    BY DEF FlushesKeepUp
  <2>1. at[u] = "flush" /\ since'[u] = since[u]
    BY <1>3
  <2>2. /\ IF Content(p) = Absent THEN since[u][p] = {} ELSE Content(p) \in since[u][p]
        /\ Home(p) < idx[u] => since[u][p] = {} \/ disk[p] \in since[u][p]
    BY <1>1, <2>1 DEF FlushesKeepUp
  <2>3. Kept(p)
    BY <1>4
  <2>4. IF Content(p)' = Absent THEN since'[u][p] = {} ELSE Content(p)' \in since'[u][p]
    BY <2>1, <2>2, <2>3 DEF Kept
  <2>5. CASE Home(p) < idx[u]
    BY <2>1, <2>2, <2>3, <2>4, <2>5 DEF Kept
  <2>6. CASE ~ (Home(p) < idx[u])
    <3> SUFFICES ASSUME Home(p) < idx'[u]
                 PROVE  since'[u][p] = {} \/ disk'[p] \in since'[u][p]
      BY <2>4
    <3>1. Home(p) \in Nat /\ idx[u] \in Nat
      BY <1>1, Remainders, FinitelyManyPages DEF CallTypes, Instances
    <3>2. u = t /\ Home(p) = idx[t]
      <4>1. idx'[u] = IF u = t THEN idx[t] + 1 ELSE idx[u]
        BY <1>1, <1>3 DEF CallTypes
      <4> QED BY <2>6, <3>1, <4>1
    <3>3. disk'[p] = Content(p)
      BY <1>3, <3>2 DEF Saved, Content
    <3> QED BY <2>1, <2>2, <3>3
  <2> QED BY <2>5, <2>6
<1> QED BY <1>4, <1>5, <1>6, <1>7, <1>8, <1>9 DEF IInv, TypeOK, CallTypes, InstancesInv, InstanceTypes

(* An instance makes a page under an id that was never used.               *)
LEMMA TrySucceedsKeepsIInv ==
  ASSUME IInv, NEW t \in Threads, TrySucceeds(t)
  PROVE  /\ IInv'
         /\ \E i \in Instances, p \in PageIds :
              /\ Content(p) = Absent
              /\ Content(p)' = Zero
              /\ \A q \in PageIds : q # p => Content(q)' = Content(q)
              /\ \A j \in Instances :
                   PinnedPages(j)' = IF j = i THEN PinnedPages(i) \union {p} ELSE PinnedPages(j)
<1>1. /\ CallTypes /\ LoopBounded /\ FlushesKeepUp /\ InstancesInv
      /\ IdsAtHome /\ IdsCounted /\ FreshIdsAbsent
  BY PartsOfIInv
<1>2. PICK i \in Instances : i = idx[t] % NumInstances
  <2>1. idx[t] \in Nat
    BY <1>1 DEF CallTypes
  <2> QED BY <2>1, Remainders
<1>3. t \in Making /\ at[t] = "try"
  BY DEF TrySucceeds, Making
<1>4. PICK p \in PageIds : p = next_page_id[i]
  BY <1>3, NewIdIsPageId
<1>5. /\ Admit(i, p, Zero)
      /\ Remember(p, Zero)
      /\ next_page_id' = [next_page_id EXCEPT ![i] = NextId(p)]
      /\ my_page' = [my_page EXCEPT ![t] = {p}]
      /\ at' = [at EXCEPT ![t] = "bump"]
      /\ UNCHANGED <<start_idx, idx, seen, tried, calls>>
  BY <1>2, <1>4 DEF TrySucceeds
<1>6. /\ p \in Nat /\ Home(p) = i /\ Home(NextId(p)) = i
      /\ NextId(p) = p + NumInstances /\ NextId(p) \in Nat
      /\ NumInstances \in Nat /\ NumInstances > 0
  <2>1. p \in Nat /\ Home(p) = i /\ NumInstances \in Nat /\ NumInstances > 0
    BY <1>1, <1>4, FinitelyManyPages, ParallelAssumption DEF IdsAtHome
  <2> QED BY <2>1, Remainders DEF NextId
<1>7. next_page_id \in [Instances -> Nat] /\ next_page_id' \in [Instances -> Nat]
  BY <1>1, <1>5, <1>6 DEF InstancesInv, InstanceTypes
<1>8. Zero \in Data /\ Zero # Absent
  BY ParallelAssumption
<1>9. /\ InstancesInv'
      /\ \A q \in PageIds : q # p => Kept(q)
      /\ Content(p)' = Zero /\ disk'[p] = Zero
      /\ \A j \in Instances :
           PinnedPages(j)' = IF j = i THEN PinnedPages(i) \union {p} ELSE PinnedPages(j)
  BY <1>1, <1>5, <1>6, <1>7, <1>8, AdmitEffect
<1>10. Content(p) = Absent
  BY <1>1, <1>4, <1>6 DEF FreshIdsAbsent
<1>11. CallTypes'
  <2>1. since' \in [Threads -> [PageIds -> SUBSET Data]]
    BY <1>1, <1>5, <1>8 DEF CallTypes, Remember
  <2> QED BY <1>1, <1>5, <2>1 DEF CallTypes
<1>12. LoopBounded'
  BY <1>1, <1>5 DEF CallTypes, LoopBounded
<1>13. IdsAtHome'
  BY <1>1, <1>5, <1>6, <1>7 DEF IdsAtHome
<1>14. IdsCounted'
  <2>1. Making' = Making \ {t}
    BY <1>1, <1>5 DEF CallTypes, Making
  <2>2. IsFiniteSet(Making)
    BY <1>1 DEF IdsCounted
  <2>3. IsFiniteSet(Making') /\ Cardinality(Making') = Cardinality(Making) - 1
    BY <1>3, <2>1, <2>2, FS_RemoveElement
  <2>4. Cardinality(Making') \in Nat /\ Cardinality(Making) \in Nat
    BY <2>2, <2>3, FS_CardinalityType
  <2>5. /\ NumInstances * Cardinality(Making) = NumInstances * Cardinality(Making') + NumInstances
        /\ NumInstances * Cardinality(Making') \in Nat
        /\ NumInstances * calls \in Nat
    <3>1. \A a, b, c \in Nat : c = b - 1 => a * b = a * c + a /\ a * c \in Nat
      <4>1. \A a, c \in Nat : a * (c + 1) = a * c + a /\ a * c \in Nat
        OBVIOUS
      <4>2. \A b, c \in Nat : c = b - 1 => b = c + 1
        OBVIOUS
      <4> QED BY <4>1, <4>2
    <3>2. calls \in Nat
      BY <1>1 DEF CallTypes
    <3> QED BY <1>6, <2>3, <2>4, <3>1, <3>2
  <2>6. ASSUME NEW j \in Instances
        PROVE  next_page_id'[j] + NumInstances * Cardinality(Making') =< j + NumInstances * calls
    <3>1. next_page_id[j] + NumInstances * Cardinality(Making) =< j + NumInstances * calls
      BY <1>1 DEF IdsCounted
    <3>2. next_page_id'[j] =< next_page_id[j] + NumInstances
      BY <1>4, <1>5, <1>6, <1>7
    <3>3. next_page_id[j] \in Nat /\ next_page_id'[j] \in Nat /\ j \in Nat
      BY <1>7 DEF Instances
    <3>4. \A a, b, c, d, e, f \in Nat : a =< b + c /\ b + (d + c) =< e + f => a + d =< e + f
      OBVIOUS
    <3> QED BY <1>6, <2>5, <3>1, <3>2, <3>3, <3>4
  <2>7. calls' = calls
    BY <1>5
  <2> QED BY <2>3, <2>6, <2>7 DEF IdsCounted
<1>15. FreshIdsAbsent'
  <2> SUFFICES ASSUME NEW q \in PageIds, q >= next_page_id'[Home(q)]
               PROVE  Content(q)' = Absent
    BY DEF FreshIdsAbsent
  <2>1. q \in Nat /\ Home(q) \in Instances
    BY Remainders, FinitelyManyPages
  <2>2. q # p /\ q >= next_page_id[Home(q)]
    <3>1. CASE Home(q) = i
      <4>1. next_page_id'[Home(q)] = p + NumInstances /\ next_page_id[Home(q)] = p
        BY <1>4, <1>5, <1>6, <1>7, <3>1
      <4> QED BY <1>6, <2>1, <4>1
    <3>2. CASE Home(q) # i
      BY <1>5, <1>6, <1>7, <2>1, <3>2
    <3> QED BY <3>1, <3>2
  <2>3. Content(q) = Absent
    BY <1>1, <2>2 DEF FreshIdsAbsent
  <2>4. Kept(q)
    BY <1>9, <2>2
  <2> QED BY <2>3, <2>4 DEF Kept
<1>16. FlushesKeepUp'
  <2>1. since \in [Threads -> [PageIds -> SUBSET Data]]
    BY <1>1 DEF CallTypes
  <2>2. \A u \in Threads : at'[u] = "flush" => at[u] = "flush" /\ idx'[u] = idx[u]
    BY <1>1, <1>5 DEF CallTypes
  <2> QED BY <1>1, <1>5, <1>8, <1>9, <2>1, <2>2, FlushesRemember
<1>17. IInv'
  BY <1>9, <1>11, <1>12, <1>13, <1>14, <1>15, <1>16
     DEF IInv, TypeOK, CallTypes, InstancesInv, InstanceTypes
<1>18. \A q \in PageIds : q # p => Content(q)' = Content(q)
  BY <1>9 DEF Kept
<1> QED BY <1>9, <1>10, <1>17, <1>18-----------------------------------------------------------------------------
(* What the calls that go to one instance do to the pages: those clients   *)
(* have in use may change, the contents do not.                            *)
LEMMA FetchKeepsIInv ==
  ASSUME IInv, NEW p \in PageIds, FetchPg(p)
  PROVE  /\ IInv'
         /\ Content(p) # Absent
         /\ \A q \in PageIds : Content(q)' = Content(q)
         /\ \A j \in Instances :
              PinnedPages(j)' = IF j = Home(p) THEN PinnedPages(j) \union {p} ELSE PinnedPages(j)
<1>1. InstancesInv
  BY PartsOfIInv
<1>2. Home(p) \in Instances
  BY Remainders, FinitelyManyPages
<1>3. disk[p] # Absent /\ UNCHANGED <<start_idx, callVars, next_page_id, since>>
  BY DEF FetchPg
<1>4. Content(p) # Absent
  BY <1>3 DEF Content, Cached
<1>5. CASE /\ p \in Cached(Home(p))
           /\ pins[Home(p)][p] < MaxPins
           /\ pins' = [pins EXCEPT ![Home(p)][p] = @ + 1]
           /\ UNCHANGED <<memory, disk>>
  <2>1. /\ pins \in [Instances -> [PageIds -> 0 .. MaxPins]]
        /\ memory' = memory /\ disk' = disk /\ next_page_id' = next_page_id
    BY <1>1, <1>3, <1>5 DEF InstancesInv, InstanceTypes
  <2>2. /\ pins' \in [Instances -> [PageIds -> 0 .. MaxPins]]
        /\ \A j \in Instances : j # Home(p) => pins'[j] = pins[j]
        /\ \A q \in PageIds :
             pins'[Home(p)][q] = IF q = p THEN pins[Home(p)][p] + 1 ELSE pins[Home(p)][q]
    BY <1>2, <1>5, <2>1, ParallelAssumption
  <2>3. /\ \A j \in Instances : j # Home(p) => PinnedPages(j)' = PinnedPages(j)
        /\ PinnedPages(Home(p))' = PinnedPages(Home(p)) \union {p}
    BY <1>2, <2>1, <2>2 DEF PinnedPages
  <2>4. \A j \in Instances : Cached(j)' = Cached(j)
    BY <2>1 DEF Cached
  <2>5. InstancesInv'
    BY <1>1, <1>5, <2>1, <2>2, <2>3, <2>4
       DEF InstancesInv, InstanceTypes, PagesAtHome, PinnedAreCached, WithinPoolSize
  <2>6. \A q \in PageIds : Kept(q)
    BY <2>1 DEF Kept, Content, Cached
  <2>7. IInv'
    BY <1>3, <2>5, <2>6, InstanceStep
  <2> QED BY <1>4, <2>3, <2>6, <2>7 DEF Kept
<1>6. CASE p \notin Cached(Home(p)) /\ Admit(Home(p), p, disk[p])
  <2>1. PICK v \in Data : v = disk[p]
    BY <1>1, <1>3 DEF InstancesInv, InstanceTypes
  <2>2. next_page_id' \in [Instances -> Nat]
    BY <1>1, <1>3 DEF InstancesInv, InstanceTypes
  <2>3. PICK i \in Instances : i = Home(p)
    BY <1>2
  <2>4. /\ InstancesInv'
        /\ \A q \in PageIds : q # p => Kept(q)
        /\ Content(p)' = v /\ disk'[p] = v
        /\ \A j \in Instances :
             PinnedPages(j)' = IF j = i THEN PinnedPages(i) \union {p} ELSE PinnedPages(j)
    BY <1>1, <1>6, <2>1, <2>2, <2>3, AdmitEffect
  <2>5. Kept(p)
    BY <1>6, <2>1, <2>4 DEF Kept, Content
  <2>6. IInv'
    BY <1>3, <2>4, <2>5, InstanceStep
  <2> QED BY <1>4, <2>3, <2>4, <2>5, <2>6 DEF Kept
<1> QED BY <1>5, <1>6 DEF FetchPg

LEMMA UnpinKeepsIInv ==
  ASSUME IInv, NEW p \in PageIds, UnpinPg(p)
  PROVE  /\ IInv'
         /\ \A q \in PageIds : Content(q)' = Content(q)
         /\ \/ \A j \in Instances : PinnedPages(j)' = PinnedPages(j)
            \/ \A j \in Instances :
                 PinnedPages(j)' = IF j = Home(p) THEN PinnedPages(j) \ {p} ELSE PinnedPages(j)
<1>1. InstancesInv
  BY PartsOfIInv
<1>2. Home(p) \in Instances
  BY Remainders, FinitelyManyPages
<1>3. /\ pins[Home(p)][p] > 0
      /\ pins' = [pins EXCEPT ![Home(p)][p] = @ - 1]
      /\ UNCHANGED <<memory, next_page_id, disk>>
      /\ UNCHANGED <<start_idx, callVars, next_page_id, since>>
  BY DEF UnpinPg
<1>4. pins \in [Instances -> [PageIds -> 0 .. MaxPins]]
  BY <1>1 DEF InstancesInv, InstanceTypes
<1>5. /\ pins' \in [Instances -> [PageIds -> 0 .. MaxPins]]
      /\ \A j \in Instances : j # Home(p) => pins'[j] = pins[j]
      /\ \A q \in PageIds :
           pins'[Home(p)][q] = IF q = p THEN pins[Home(p)][p] - 1 ELSE pins[Home(p)][q]
  BY <1>2, <1>3, <1>4, ParallelAssumption
<1>6. \/ \A j \in Instances : PinnedPages(j)' = PinnedPages(j)
      \/ \A j \in Instances :
           PinnedPages(j)' = IF j = Home(p) THEN PinnedPages(j) \ {p} ELSE PinnedPages(j)
  <2>1. \A j \in Instances : j # Home(p) => PinnedPages(j)' = PinnedPages(j)
    BY <1>5 DEF PinnedPages
  <2>2. PinnedPages(Home(p))' = PinnedPages(Home(p)) \/ PinnedPages(Home(p))' = PinnedPages(Home(p)) \ {p}
    <3>1. pins[Home(p)][p] \in Nat
      BY <1>2, <1>4
    <3>2. CASE pins[Home(p)][p] = 1
      BY <1>4, <1>5, <3>2 DEF PinnedPages
    <3>3. CASE pins[Home(p)][p] # 1
      BY <1>3, <1>4, <1>5, <3>1, <3>3 DEF PinnedPages
    <3> QED BY <3>2, <3>3
  <2> QED BY <2>1, <2>2
<1>7. \A j \in Instances : Cached(j)' = Cached(j)
  BY <1>3 DEF Cached
<1>8. InstancesInv'
  BY <1>1, <1>3, <1>5, <1>6, <1>7
     DEF InstancesInv, InstanceTypes, PagesAtHome, PinnedAreCached, WithinPoolSize
<1>9. \A q \in PageIds : Kept(q)
  BY <1>3 DEF Kept, Content, Cached
<1>10. IInv'
  BY <1>3, <1>8, <1>9, InstanceStep
<1> QED BY <1>6, <1>9, <1>10 DEF Kept

(* DeletePage and FlushPage of a page that is resident.                    *)
LEMMA SaveKeepsIInv ==
  ASSUME IInv, NEW p \in PageIds, DeletePg(p) \/ FlushPg(p)
  PROVE  /\ IInv'
         /\ \A q \in PageIds : Content(q)' = Content(q)
         /\ \A j \in Instances : PinnedPages(j)' = PinnedPages(j)
<1>1. InstancesInv
  BY PartsOfIInv
<1>2. PICK i \in Instances : i = Home(p)
  BY Remainders, FinitelyManyPages
<1>3. {p} \in SUBSET PageIds
  OBVIOUS
<1>4. /\ disk' = Saved(i, {p})
      /\ UNCHANGED <<pins, next_page_id>>
      /\ UNCHANGED <<start_idx, callVars, next_page_id, since>>
      /\ \/ memory' = memory
         \/ memory' = [memory EXCEPT ![i] = Without(i, {p})] /\ PinnedPages(i) \intersect {p} = {}
  <2>1. CASE DeletePg(p)
    <3>1. PinnedPages(i) \intersect {p} = {}
      BY <1>2, <2>1 DEF DeletePg, PinnedPages
    <3> QED BY <1>2, <2>1, <3>1 DEF DeletePg
  <2>2. CASE FlushPg(p)
    BY <1>2, <2>2 DEF FlushPg
  <2> QED BY <2>1, <2>2
<1>5. /\ InstancesInv'
      /\ \A q \in PageIds : Kept(q)
      /\ \A j \in Instances : PinnedPages(j)' = PinnedPages(j)
  BY <1>1, <1>3, <1>4, SaveEffect
<1>6. IInv'
  BY <1>4, <1>5, InstanceStep
<1> QED BY <1>5, <1>6 DEF Kept

LEMMA ClientWriteKeepsIInv ==
  ASSUME IInv, NEW i \in Instances, NEW p \in PageIds, NEW v \in Data, ClientWrite(i, p, v)
  PROVE  /\ IInv'
         /\ p \in PinnedPages(i)
         /\ Content(p)' = v
         /\ \A q \in PageIds : q # p => Content(q)' = Content(q)
         /\ \A j \in Instances : PinnedPages(j)' = PinnedPages(j)
<1>1. /\ CallTypes /\ LoopBounded /\ FlushesKeepUp /\ InstancesInv
      /\ IdsAtHome /\ IdsCounted /\ FreshIdsAbsent
  BY PartsOfIInv
<1>2. /\ InstancesInv'
      /\ \A q \in PageIds : q # p => Kept(q)
      /\ Content(p)' = v
      /\ Home(p) = i
      /\ \A j \in Instances : PinnedPages(j)' = PinnedPages(j)
  BY <1>1, WriteEffect
<1>3. p \in PinnedPages(i)
  BY DEF ClientWrite, PinnedPages
<1>4. Content(p) # Absent
  BY <1>1, <1>2, <1>3 DEF InstancesInv, PinnedAreCached, Content, Cached
<1>5. /\ start_idx' = start_idx /\ at' = at /\ idx' = idx /\ my_page' = my_page
      /\ seen' = seen /\ tried' = tried /\ calls' = calls
      /\ next_page_id' = next_page_id /\ disk' = disk
      /\ Remember(p, v)
  BY DEF ClientWrite, callVars, newVars
<1>6. since' \in [Threads -> [PageIds -> SUBSET Data]]
  BY <1>1, <1>5 DEF CallTypes, Remember
<1>7. CallTypes' /\ LoopBounded' /\ IdsAtHome' /\ IdsCounted'
  BY <1>1, <1>5, <1>6 DEF CallTypes, LoopBounded, IdsAtHome, IdsCounted, Making
<1>8. FreshIdsAbsent'
  BY <1>1, <1>2, <1>4, <1>5 DEF FreshIdsAbsent, Kept
<1>9. FlushesKeepUp'
  <2>1. since \in [Threads -> [PageIds -> SUBSET Data]]
    BY <1>1 DEF CallTypes
  <2>2. disk'[p] = disk[p]
    BY <1>5
  <2>3. \A u \in Threads : at'[u] = "flush" => at[u] = "flush" /\ idx'[u] = idx[u]
    BY <1>5
  <2> QED BY <1>1, <1>2, <1>4, <1>5, <2>1, <2>2, <2>3, FlushesRemember
<1>10. IInv'
  BY <1>2, <1>7, <1>8, <1>9 DEF IInv, TypeOK, CallTypes, InstancesInv, InstanceTypes
<1>11. \A q \in PageIds : q # p => Content(q)' = Content(q)
  BY <1>2 DEF Kept
<1> QED BY <1>2, <1>3, <1>10, <1>11

LEMMA NothingKeepsIInv ==
  ASSUME IInv, UNCHANGED vars
  PROVE  IInv'
<1>1. /\ start_idx' = start_idx /\ at' = at /\ idx' = idx /\ my_page' = my_page
      /\ seen' = seen /\ tried' = tried /\ calls' = calls /\ since' = since
      /\ UNCHANGED instanceVars
  BY DEF vars, callVars, newVars
<1>2. CallTypes' /\ LoopBounded' /\ Making' \subseteq Making /\ calls =< calls'
  BY <1>1, PartsOfIInv DEF CallTypes, LoopBounded, Making
<1>3. \A t \in Threads : at'[t] = "flush" =>
        at[t] = "flush" /\ idx'[t] = idx[t] /\ since'[t] = since[t]
  BY <1>1
<1> QED BY <1>1, <1>2, <1>3, CallStep

LEMMA NextKeepsIInv == IInv /\ [Next]_vars => IInv'
<1> SUFFICES ASSUME IInv, [Next]_vars PROVE IInv'
  OBVIOUS
<1>1. ASSUME NEW t \in Threads, NewBegin(t) \/ NewPgStep(t) PROVE IInv'
  BY <1>1, NewBeginKeepsIInv, TestKeepsIInv, TrySucceedsKeepsIInv, TryFailsKeepsIInv,
     BumpReadKeepsIInv, BumpWriteKeepsIInv DEF NewPgStep
<1>2. ASSUME NEW t \in Threads, FlushBegin(t) \/ FlushAllPgsStep(t) PROVE IInv'
  BY <1>2, FlushBeginKeepsIInv, FlushNextKeepsIInv, FlushReturnKeepsIInv DEF FlushAllPgsStep
<1>3. ASSUME NEW p \in PageIds, FetchPg(p) \/ UnpinPg(p) \/ DeletePg(p) \/ FlushPg(p)
      PROVE  IInv'
  BY <1>3, FetchKeepsIInv, UnpinKeepsIInv, SaveKeepsIInv
<1>4. ASSUME NEW p \in PageIds, NEW i \in Instances, NEW v \in Data, ClientWrite(i, p, v)
      PROVE  IInv'
  BY <1>4, ClientWriteKeepsIInv
<1>5. ASSUME NEW p \in PageIds, FetchRefused(p) \/ NotResident(p) PROVE IInv'
  BY <1>5, NothingKeepsIInv DEF FetchRefused, NotResident
<1>6. CASE UNCHANGED vars
  BY <1>6, NothingKeepsIInv
<1> QED BY <1>1, <1>2, <1>3, <1>4, <1>5, <1>6 DEF Next

LEMMA Invariance == Spec => []IInv
BY InitIInv, NextKeepsIInv, PTL DEF Spec

(* Locals, ids and counters keep their ranges, although start_idx_ moves   *)
(* under the loop of NewPage; no id lies beyond those MaxCalls allow.      *)
THEOREM TypeCorrect == Spec => []TypeOK
<1>1. IInv => TypeOK
  BY DEF IInv
<1> QED BY <1>1, Invariance, PTL

(* No page is in memory twice: the ids an instance deals out all lead back *)
(* to it.                                                                  *)
THEOREM OnePlaceForEachPage == Spec => []OneCopy
<1>1. IInv => OneCopy
  BY DEF IInv, PagesAtHome, OneCopy
<1> QED BY <1>1, Invariance, PTL

(* When FlushAllPages returns, no page on the disk is older than the call, *)
(* whatever happened between the flushes of the instances.                 *)
THEOREM FlushAllSavesAll == Spec => FlushAllSaves
<1>1. IInv /\ [Next]_vars =>
        [\A t \in Threads : at[t] = "flush" /\ at'[t] = "idle" =>
           \A p \in PageIds : since[t][p] = {} \/ disk[p] \in since[t][p]]_vars
  <2> SUFFICES ASSUME IInv, Next, NEW t \in Threads, at[t] = "flush", at'[t] = "idle"
               PROVE  \A p \in PageIds : since[t][p] = {} \/ disk[p] \in since[t][p]
    OBVIOUS
  <2>1. CallTypes /\ FlushesKeepUp
    BY PartsOfIInv
  <2>2. FlushReturn(t)
    <3>1. ASSUME NEW u \in Threads, NewBegin(u) \/ FlushBegin(u) PROVE FALSE
      BY <2>1, <3>1 DEF CallTypes, NewBegin, FlushBegin
    <3>2. ASSUME NEW u \in Threads, NewPgStep(u) PROVE FALSE
      <4>1. u # t
        BY <3>2 DEF NewPgStep, Test, TrySucceeds, TryFails, BumpRead, BumpWrite
      <4>2. at'[t] = at[t]
        BY <2>1, <3>2, <4>1
           DEF CallTypes, NewPgStep, Test, TrySucceeds, TryFails, BumpRead, BumpWrite, Returns
      <4> QED BY <4>2
    <3>3. ASSUME NEW u \in Threads, FlushAllPgsStep(u) PROVE FlushReturn(t)
      <4>1. CASE FlushNext(u)
        BY <4>1 DEF FlushNext
      <4>2. CASE FlushReturn(u) /\ u # t
        BY <2>1, <4>2 DEF CallTypes, FlushReturn, Returns
      <4> QED BY <3>3, <4>1, <4>2 DEF FlushAllPgsStep
    <3>4. ASSUME NEW p \in PageIds,
                 \/ FetchPg(p) \/ FetchRefused(p) \/ UnpinPg(p) \/ DeletePg(p) \/ FlushPg(p)
                 \/ NotResident(p) \/ \E i \in Instances, v \in Data : ClientWrite(i, p, v)
          PROVE  FALSE
      <4>1. at' = at
        BY <3>4 DEF FetchPg, FetchRefused, UnpinPg, DeletePg, FlushPg, NotResident, ClientWrite,
                    vars, callVars
      <4> QED BY <4>1
    <3> QED BY <3>1, <3>2, <3>3, <3>4 DEF Next
  <2>3. idx[t] \in Nat /\ idx[t] >= NumInstances /\ NumInstances \in Nat
    BY <2>1, <2>2, ParallelAssumption DEF CallTypes, FlushReturn, AllFlushed
  <2>4. \A p \in PageIds : Home(p) \in Nat /\ Home(p) < NumInstances
    BY Remainders, FinitelyManyPages, ParallelAssumption DEF Instances
  <2>5. \A p \in PageIds : Home(p) < idx[t]
    BY <2>3, <2>4
  <2> QED BY <2>1, <2>5 DEF FlushesKeepUp
<1> QED BY <1>1, Invariance, PTL DEF Spec, FlushAllSaves-----------------------------------------------------------------------------
(* The pages that clients have in use.                                     *)
InUse == UNION {PinnedPages(i) : i \in Instances}

Contents == [p \in PageIds |-> Content(p)]

Using == {<<"clients", p>> : p \in InUse}

(* Clients have no more pages in use than the instances have frames: the   *)
(* pages of each instance are counted off by its frames.                   *)
LEMMA UseFitsFrames == IInv => Cardinality(InUse) <= GetPoolSize
<1> SUFFICES ASSUME IInv PROVE Cardinality(InUse) <= GetPoolSize
  OBVIOUS
<1> DEFINE Pinned == [i \in Instances |-> PinnedPages(i)]
           CountOff(i) == Bijection(1 .. Cardinality(Pinned[i]), Pinned[i])
           nth == [i \in Instances |-> CHOOSE f : f \in CountOff(i)]
           Frames == {s \in Instances \X (1 .. PoolSize) : s[2] =< Cardinality(Pinned[s[1]])}
           page == [s \in Frames |-> nth[s[1]][s[2]]]
<1>1. NumInstances \in Nat /\ NumInstances > 0 /\ PoolSize \in Nat
  BY ParallelAssumption
<1>2. ASSUME NEW i \in Instances
      PROVE  /\ IsFiniteSet(Pinned[i]) /\ Cardinality(Pinned[i]) \in Nat
             /\ Cardinality(Pinned[i]) =< PoolSize
             /\ nth[i] \in CountOff(i)
  <2>1. Pinned[i] = PinnedPages(i) /\ Pinned[i] \in SUBSET Cached(i)
    BY PartsOfIInv DEF InstancesInv, PinnedAreCached
  <2>2. IsFiniteSet(Cached(i)) /\ Cardinality(Cached(i)) \in Nat /\ Cardinality(Cached(i)) =< PoolSize
    BY FinitelyManyPages, PartsOfIInv DEF Cached, InstancesInv, WithinPoolSize
  <2>3. IsFiniteSet(Pinned[i]) /\ Cardinality(Pinned[i]) =< Cardinality(Cached(i))
    BY <2>1, <2>2, FS_Subset
  <2>4. /\ Cardinality(Pinned[i]) \in Nat
        /\ ExistsBijection(1 .. Cardinality(Pinned[i]), Pinned[i])
    BY <2>3, FS_CardinalityType
  <2> HIDE DEF Pinned
  <2>5. \E f : f \in CountOff(i)
    BY <2>4 DEF ExistsBijection
  <2>6. nth[i] = CHOOSE f : f \in CountOff(i)
    OBVIOUS
  <2> HIDE DEF CountOff, nth
  <2>7. nth[i] \in CountOff(i)
    BY <2>5, <2>6
  <2> QED BY <1>1, <2>2, <2>3, <2>4, <2>7
<1>3. ASSUME NEW s \in Frames PROVE page[s] \in InUse
  <2>1. s[1] \in Instances /\ s[2] \in 1 .. Cardinality(Pinned[s[1]])
    BY <1>1, <1>2
  <2>2. nth[s[1]] \in CountOff(s[1])
    BY <1>2, <2>1
  <2> HIDE DEF nth, Frames
  <2>3. nth[s[1]][s[2]] \in Pinned[s[1]]
    <3> HIDE DEF Pinned
    <3> QED BY <2>1, <2>2 DEF Bijection, Injection
  <2>4. Pinned[s[1]] = PinnedPages(s[1])
    BY <2>1
  <2> QED BY <2>1, <2>3, <2>4 DEF InUse
<1>4. ASSUME NEW p \in InUse PROVE \E s \in Frames : page[s] = p
  <2>1. PICK i \in Instances : p \in Pinned[i]
    BY DEF InUse
  <2>2. nth[i] \in CountOff(i) /\ Cardinality(Pinned[i]) \in Nat /\ Cardinality(Pinned[i]) =< PoolSize
    BY <1>2
  <2>3. PICK n \in 1 .. Cardinality(Pinned[i]) : nth[i][n] = p
    <3> HIDE DEF nth, Pinned
    <3> QED BY <2>1, <2>2 DEF Bijection, Surjection
  <2>4. n \in 1 .. PoolSize /\ n =< Cardinality(Pinned[i])
    BY <1>1, <2>2
  <2>5. <<i, n>> \in Frames
    <3> HIDE DEF Pinned, nth
    <3> QED BY <2>4
  <2>6. page[<<i, n>>] = nth[i][n]
    <3> HIDE DEF nth, Frames
    <3> QED BY <2>5
  <2> QED BY <2>3, <2>5, <2>6
<1>5. page \in Surjection(Frames, InUse)
  <2>1. page \in [Frames -> InUse]
    BY <1>3
  <2> HIDE DEF page, Frames
  <2> QED BY <1>4, <2>1 DEF Surjection
<1>6. IsFiniteSet(Frames) /\ Cardinality(Frames) =< NumInstances * PoolSize
  <2>1. IsFiniteSet(Instances) /\ Cardinality(Instances) = NumInstances
    BY <1>1, FS_Interval DEF Instances
  <2>2. IsFiniteSet(1 .. PoolSize) /\ Cardinality(1 .. PoolSize) = PoolSize
    BY <1>1, FS_Interval
  <2>3. /\ IsFiniteSet(Instances \X (1 .. PoolSize))
        /\ Cardinality(Instances \X (1 .. PoolSize)) = NumInstances * PoolSize
    BY <2>1, <2>2, FS_Product
  <2>4. Frames \in SUBSET (Instances \X (1 .. PoolSize))
    OBVIOUS
  <2> HIDE DEF Frames
  <2> QED BY <2>3, <2>4, FS_Subset
<1>7. Cardinality(InUse) <= Cardinality(Frames) /\ IsFiniteSet(InUse)
  <2> HIDE DEF page, Frames
  <2> QED BY <1>5, <1>6, FS_Surjection
<1>8. Cardinality(InUse) \in Nat /\ Cardinality(Frames) \in Nat /\ NumInstances * PoolSize \in Nat
  <2> HIDE DEF Frames
  <2>1. Cardinality(InUse) \in Nat
    BY <1>7, FS_CardinalityType
  <2>2. Cardinality(Frames) \in Nat
    BY <1>6, FS_CardinalityType
  <2> QED BY <1>1, <2>1, <2>2
<1> HIDE DEF Frames
<1> QED BY <1>6, <1>7, <1>8 DEF GetPoolSize

(* PageStore counts as this module does.                                   *)
LEMMA SameCardinality == \A S : Store!Cardinality(S) = Cardinality(S)
BY DEF Store!Cardinality, Cardinality

(* A call that takes page p into use, in terms of the store.               *)
LEMMA UseFollows ==
  ASSUME IInv, IInv', NEW p \in PageIds, InUse' = InUse \union {p}
  PROVE  Store!Use("clients", p)
<1>1. Using' = Using \union {<<"clients", p>>}
  BY DEF Using
<1>2. {u[2] : u \in Using'} = InUse'
  <2>1. ASSUME NEW u \in Using' PROVE u[2] \in InUse'
    BY DEF Using
  <2>2. ASSUME NEW q \in InUse' PROVE \E u \in Using' : q = u[2]
    <3>1. <<"clients", q>> \in Using' /\ q = <<"clients", q>>[2]
      BY DEF Using
    <3> QED BY <3>1
  <2> QED BY <2>1, <2>2
<1>3. Cardinality(InUse') <= GetPoolSize
  <2>1. (IInv => Cardinality(InUse) <= GetPoolSize)'
    BY UseFitsFrames, PTL
  <2> QED BY <2>1
<1>4. Store!Cardinality({u[2] : u \in Using'}) <= GetPoolSize
  BY <1>2, <1>3, SameCardinality
<1> QED BY <1>1, <1>4 DEF Store!Use, Using, InUse

LEMMA InitFollows == Init => Store!Init
<1> SUFFICES ASSUME Init PROVE Store!Init
  OBVIOUS
<1>1. \A i \in Instances : Cached(i) = {} /\ PinnedPages(i) = {}
  BY DEF Init, Cached, PinnedPages
<1>2. \A p \in PageIds : Home(p) \in Instances
  BY Remainders, FinitelyManyPages
<1>3. \A p \in PageIds : Content(p) = Absent
  BY <1>1, <1>2 DEF Init, Content
<1>4. InUse = {}
  BY <1>1 DEF InUse
<1> QED BY <1>3, <1>4 DEF Store!Init, InUse

(* Every step is one of the store, or changes nothing that clients see.    *)
LEMMA StepFollows == IInv /\ IInv' /\ [Next]_vars => [Store!Next]_(Store!vars)
<1> SUFFICES ASSUME IInv, IInv', [Next]_vars PROVE [Store!Next]_(Store!vars)
  OBVIOUS
<1>1. ASSUME \A q \in PageIds : Content(q)' = Content(q),
             \A j \in Instances : PinnedPages(j)' = PinnedPages(j)
      PROVE  UNCHANGED Store!vars
  <2>1. Contents' = Contents /\ Using' = Using
    BY <1>1 DEF Contents, Using, InUse
  <2> QED BY <2>1 DEF Store!vars, Contents, Using, InUse
<1>2. ASSUME UNCHANGED instanceVars PROVE UNCHANGED Store!vars
  <2>1. \A q \in PageIds : Content(q)' = Content(q)
    BY <1>2 DEF instanceVars, Content, Cached
  <2>2. \A j \in Instances : PinnedPages(j)' = PinnedPages(j)
    BY <1>2 DEF instanceVars, PinnedPages
  <2> QED BY <1>1, <2>1, <2>2
<1>3. ASSUME NEW t \in Threads, NewBegin(t) \/ FlushBegin(t) \/ FlushReturn(t)
      PROVE  UNCHANGED Store!vars
  BY <1>2, <1>3 DEF NewBegin, FlushBegin, FlushReturn
<1>4. ASSUME NEW t \in Threads, Test(t) \/ TryFails(t) \/ BumpRead(t) \/ BumpWrite(t)
      PROVE  UNCHANGED Store!vars
  BY <1>2, <1>4 DEF Test, TryFails, BumpRead, BumpWrite
<1>5. ASSUME NEW t \in Threads, TrySucceeds(t)
      PROVE  Store!Next
  <2>1. PICK i \in Instances, p \in PageIds :
          /\ Content(p) = Absent
          /\ Content(p)' = Zero
          /\ \A q \in PageIds : q # p => Content(q)' = Content(q)
          /\ \A j \in Instances :
               PinnedPages(j)' = IF j = i THEN PinnedPages(i) \union {p} ELSE PinnedPages(j)
    BY <1>5, TrySucceedsKeepsIInv
  <2>2. InUse' = InUse \union {p}
    BY <2>1 DEF InUse
  <2>3. Store!Use("clients", p)
    BY <2>2, UseFollows
  <2>4. Contents' = [Contents EXCEPT ![p] = Zero] /\ Contents[p] = Absent
    BY <2>1 DEF Contents
  <2>5. Store!New("clients", p)
    BY <2>3, <2>4 DEF Store!New, Store!Exists, Contents
  <2> QED BY <2>5 DEF Store!Next
<1>6. ASSUME NEW p \in PageIds, FetchPg(p)
      PROVE  Store!Next
  <2>1. /\ Content(p) # Absent
        /\ \A q \in PageIds : Content(q)' = Content(q)
        /\ \A j \in Instances :
             PinnedPages(j)' = IF j = Home(p) THEN PinnedPages(j) \union {p} ELSE PinnedPages(j)
    BY <1>6, FetchKeepsIInv
  <2>2. Home(p) \in Instances
    BY Remainders, FinitelyManyPages
  <2>3. InUse' = InUse \union {p}
    BY <2>1, <2>2 DEF InUse
  <2>4. Store!Use("clients", p)
    BY <2>3, UseFollows
  <2>5. Contents' = Contents /\ Contents[p] # Absent
    BY <2>1 DEF Contents
  <2>6. Store!Open("clients", p)
    BY <2>4, <2>5 DEF Store!Open, Store!Exists, Contents
  <2> QED BY <2>6 DEF Store!Next
<1>7. ASSUME NEW p \in PageIds, UnpinPg(p)
      PROVE  [Store!Next]_(Store!vars)
  <2>1. /\ \A q \in PageIds : Content(q)' = Content(q)
        /\ \/ \A j \in Instances : PinnedPages(j)' = PinnedPages(j)
           \/ \A j \in Instances :
                PinnedPages(j)' = IF j = Home(p) THEN PinnedPages(j) \ {p} ELSE PinnedPages(j)
    BY <1>7, UnpinKeepsIInv
  <2>2. CASE \A j \in Instances : PinnedPages(j)' = PinnedPages(j)
    BY <1>1, <2>1, <2>2
  <2>3. CASE \A j \in Instances :
               PinnedPages(j)' = IF j = Home(p) THEN PinnedPages(j) \ {p} ELSE PinnedPages(j)
    <3>1. \A j \in Instances : j # Home(p) => p \notin PinnedPages(j)
      BY PartsOfIInv DEF InstancesInv, PagesAtHome, PinnedAreCached
    <3>2. InUse' = InUse \ {p}
      BY <2>3, <3>1 DEF InUse
    <3>3. Using' = Using \ {<<"clients", p>>}
      BY <3>2 DEF Using
    <3>4. Contents' = Contents
      BY <2>1 DEF Contents
    <3>5. Store!Close("clients", p)
      BY <3>3, <3>4 DEF Store!Close, Contents, Using, InUse
    <3> QED BY <3>5 DEF Store!Next
  <2> QED BY <2>1, <2>2, <2>3
<1>8. ASSUME NEW p \in PageIds, DeletePg(p) \/ FlushPg(p)
      PROVE  UNCHANGED Store!vars
  BY <1>1, <1>8, SaveKeepsIInv
<1>9. ASSUME NEW p \in PageIds, NEW i \in Instances, NEW v \in Data, ClientWrite(i, p, v)
      PROVE  Store!Next
  <2>1. /\ p \in PinnedPages(i)
        /\ Content(p)' = v
        /\ \A q \in PageIds : q # p => Content(q)' = Content(q)
        /\ \A j \in Instances : PinnedPages(j)' = PinnedPages(j)
    BY <1>9, ClientWriteKeepsIInv
  <2>2. Using' = Using /\ <<"clients", p>> \in Using
    BY <2>1 DEF Using, InUse
  <2>3. Contents' = [Contents EXCEPT ![p] = v]
    BY <2>1 DEF Contents
  <2>4. Store!Write("clients", p, v)
    BY <2>2, <2>3 DEF Store!Write, Contents, Using, InUse
  <2> QED BY <2>4 DEF Store!Next
<1>10. ASSUME NEW t \in Threads, FlushNext(t)
       PROVE  UNCHANGED Store!vars
  <2>1. (\A q \in PageIds : Kept(q)) /\ \A j \in Instances : PinnedPages(j)' = PinnedPages(j)
    BY <1>10, FlushNextKeepsIInv
  <2> QED BY <1>1, <2>1 DEF Kept
<1>11. ASSUME UNCHANGED vars PROVE UNCHANGED Store!vars
  BY <1>2, <1>11 DEF vars
<1>12. ASSUME NEW p \in PageIds, FetchRefused(p) \/ NotResident(p)
       PROVE  UNCHANGED Store!vars
  BY <1>11, <1>12 DEF FetchRefused, NotResident
<1> QED BY <1>3, <1>4, <1>5, <1>6, <1>7, <1>8, <1>9, <1>10, <1>11, <1>12
        DEF Next, NewPgStep, FlushAllPgsStep

(* The instances together are one store of pages with as many frames as    *)
(* all of them have: what a client reads was last written to the page,     *)
(* and NewPage gives out no id of an old page.                             *)
THEOREM ImplementsPageStore == Spec => IsPageStore
BY InitFollows, StepFollows, Invariance, PTL DEF Spec, IsPageStore, Store!Spec
=============================================================================
