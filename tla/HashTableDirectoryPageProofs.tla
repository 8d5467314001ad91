-------------------- MODULE HashTableDirectoryPageProofs --------------------
(***************************************************************************)
(* What the operators of HashTableDirectoryPage do to a directory of any   *)
(* depth, for any numbers of buckets.                                      *)
(***************************************************************************)
EXTENDS HashTableDirectoryPage, Integers, FiniteSetTheorems, WellFoundedInduction, TLAPS

(* The least element of a set of numbers.                                  *)
LEMMA LeastNumber ==
  ASSUME NEW S, S \subseteq Nat, S # {}
  PROVE  \E x \in S : \A y \in S : x =< y
<1>1. PICK x \in S : \A y \in S : ~ (<<y, x>> \in OpToRel(<, Nat))
  BY WFMin, NatLessThanWellFounded
<1>2. ASSUME NEW y \in S PROVE x =< y
  <2>1. ~ (<<y, x>> \in OpToRel(<, Nat))
    BY <1>1
  <2>2. x \in Nat /\ y \in Nat
    OBVIOUS
  <2>3. ~ (y < x)
    BY <2>1, <2>2 DEF OpToRel
  <2> QED BY <2>2, <2>3
<1> QED BY <1>2

(* Induction over the natural numbers, for the set of counterexamples.     *)
LEMMA NoCounterexample ==
  ASSUME NEW S, S \subseteq Nat, 0 \notin S, \A n \in Nat : n + 1 \in S => n \in S
  PROVE  S = {}
<1> SUFFICES ASSUME S # {} PROVE FALSE
  OBVIOUS
<1>1. PICK x \in S : \A y \in S : x =< y
  BY LeastNumber
<1>2. x \in Nat /\ x # 0 /\ x - 1 \in Nat /\ (x - 1) + 1 = x
  OBVIOUS
<1>3. x - 1 \in S
  BY <1>2
<1> QED BY <1>1, <1>2, <1>3
-----------------------------------------------------------------------------
(* A power of two is the number of subsets of a set, ...                   *)
LEMMA PowerCounts ==
  ASSUME NEW n \in Nat
  PROVE  /\ IsFiniteSet(SUBSET (1 .. n))
         /\ Cardinality(SUBSET (1 .. n)) = 2 ^ n
<1>1. IsFiniteSet(1 .. n) /\ Cardinality(1 .. n) = n
  BY FS_Interval
<1> QED BY <1>1, FS_SUBSET

LEMMA PowerIsPositive == \A n \in Nat : 2 ^ n \in Nat /\ 2 ^ n > 0
<1> SUFFICES ASSUME NEW n \in Nat PROVE 2 ^ n \in Nat /\ 2 ^ n > 0
  OBVIOUS
<1>1. IsFiniteSet(SUBSET (1 .. n)) /\ Cardinality(SUBSET (1 .. n)) = 2 ^ n
  BY PowerCounts
<1>2. 2 ^ n \in Nat
  BY <1>1, FS_CardinalityType
<1>3. SUBSET (1 .. n) # {}
  OBVIOUS
<1>4. 2 ^ n # 0
  BY <1>1, <1>3, FS_EmptySet
<1> QED BY <1>2, <1>4

(* ... which doubles with every element of the set.                        *)
LEMMA PowerDoubles == \A n \in Nat : 2 ^ (n + 1) = 2 * 2 ^ n
<1> SUFFICES ASSUME NEW n \in Nat PROVE 2 ^ (n + 1) = 2 * 2 ^ n
  OBVIOUS
<1> DEFINE old == SUBSET (1 .. n)
           new == {A \union {n + 1} : A \in old}
           add == [A \in old |-> A \union {n + 1}]
<1>1. IsFiniteSet(old) /\ Cardinality(old) = 2 ^ n
  BY PowerCounts
<1>2. n + 1 \notin 1 .. n /\ 1 .. (n + 1) = (1 .. n) \union {n + 1}
  OBVIOUS
<1>3. SUBSET (1 .. (n + 1)) = old \union new
  <2>1. ASSUME NEW A \in SUBSET (1 .. (n + 1)), n + 1 \in A PROVE A \in new
    <3>1. A \ {n + 1} \in old /\ A = (A \ {n + 1}) \union {n + 1}
      BY <1>2, <2>1
    <3> QED BY <3>1
  <2>2. ASSUME NEW A \in SUBSET (1 .. (n + 1)), n + 1 \notin A PROVE A \in old
    BY <1>2, <2>2
  <2>3. ASSUME NEW A \in old \union new PROVE A \in SUBSET (1 .. (n + 1))
    BY <1>2
  <2> QED BY <2>1, <2>2, <2>3
<1>4. old \intersect new = {}
  BY <1>2
<1>5. add \in Bijection(old, new)
  <2>1. add \in [old -> new]
    OBVIOUS
  <2>2. ASSUME NEW A \in old, NEW B \in old, add[A] = add[B] PROVE A = B
    <3>1. A \union {n + 1} = B \union {n + 1} /\ n + 1 \notin A /\ n + 1 \notin B
      BY <1>2, <2>2
    <3> QED BY <3>1
  <2>3. \A B \in new : \E A \in old : add[A] = B
    OBVIOUS
  <2> HIDE DEF add, old, new
  <2> QED BY <2>1, <2>2, <2>3 DEF Bijection, Injection, Surjection, IsInjective
<1>6. IsFiniteSet(new) /\ Cardinality(new) = Cardinality(old)
  <2> HIDE DEF add, old, new
  <2>1. ExistsBijection(old, new)
    BY <1>5 DEF ExistsBijection
  <2> QED BY <1>1, <2>1, FS_Bijection
<1>7. Cardinality(old \union new) = Cardinality(old) + Cardinality(new) - Cardinality(old \intersect new)
  <2> HIDE DEF add, old, new
  <2> QED BY <1>1, <1>6, FS_Union
<1>8. Cardinality(SUBSET (1 .. (n + 1))) = 2 ^ (n + 1)
  BY PowerCounts
<1>9. Cardinality({}) = 0
  BY FS_EmptySet
<1>10. 2 ^ n \in Nat
  BY PowerIsPositive
<1>11. Cardinality(old \union new) = 2 ^ (n + 1)
  BY <1>3, <1>8
<1>12. Cardinality(old \union new) = 2 ^ n + 2 ^ n
  <2> HIDE DEF add, old, new
  <2> QED BY <1>1, <1>4, <1>6, <1>7, <1>9, <1>10
<1> QED BY <1>10, <1>11, <1>12

(* Powers multiply when their exponents are added, and grow with them.     *)
LEMMA PowersMultiply == \A m, n \in Nat : 2 ^ (m + n) = 2 ^ m * 2 ^ n
<1> SUFFICES ASSUME NEW m \in Nat PROVE \A n \in Nat : 2 ^ (m + n) = 2 ^ m * 2 ^ n
  OBVIOUS
<1> DEFINE S == {n \in Nat : 2 ^ (m + n) # 2 ^ m * 2 ^ n}
<1>1. 0 \notin S
  <2>1. m + 0 = m /\ 2 ^ 0 = 1 /\ 2 ^ m \in Nat
    BY PowerIsPositive
  <2> QED BY <2>1
<1>2. ASSUME NEW n \in Nat, n \notin S PROVE n + 1 \notin S
  <2>1. 2 ^ (m + n) = 2 ^ m * 2 ^ n
    BY <1>2
  <2>2. 2 ^ (m + n + 1) = 2 * 2 ^ (m + n)
    BY PowerDoubles
  <2>3. 2 ^ (n + 1) = 2 * 2 ^ n
    BY PowerDoubles
  <2>4. 2 ^ m \in Nat /\ 2 ^ n \in Nat
    BY PowerIsPositive
  <2>5. 2 * (2 ^ m * 2 ^ n) = 2 ^ m * (2 * 2 ^ n)
    BY <2>4
  <2>6. m + (n + 1) = m + n + 1
    OBVIOUS
  <2>7. 2 ^ (m + (n + 1)) = 2 ^ m * 2 ^ (n + 1)
    BY <2>1, <2>2, <2>3, <2>5, <2>6
  <2> QED BY <2>7
<1>3. S \subseteq Nat
  OBVIOUS
<1> HIDE DEF S
<1>4. S = {}
  BY <1>1, <1>2, <1>3, NoCounterexample
<1> QED BY <1>4 DEF S

LEMMA PowersGrow ==
  ASSUME NEW m \in Nat, NEW n \in Nat
  PROVE  /\ m =< n => 2 ^ m =< 2 ^ n
         /\ m < n => 2 ^ m < 2 ^ n
<1>1. 2 ^ m \in Nat /\ 2 ^ m > 0 /\ 2 ^ n \in Nat
  BY PowerIsPositive
<1>2. ASSUME m =< n PROVE 2 ^ m =< 2 ^ n
  <2>1. n - m \in Nat /\ m + (n - m) = n
    BY <1>2
  <2>2. 2 ^ n = 2 ^ m * 2 ^ (n - m)
    BY <2>1, PowersMultiply
  <2>3. 2 ^ (n - m) \in Nat /\ 2 ^ (n - m) > 0
    BY <2>1, PowerIsPositive
  <2>4. \A a, b \in Nat : b > 0 => a =< a * b
    OBVIOUS
  <2> QED BY <1>1, <2>2, <2>3, <2>4
<1>3. ASSUME m < n PROVE 2 ^ m < 2 ^ n
  <2>1. n - m - 1 \in Nat /\ (m + 1) + (n - m - 1) = n
    BY <1>3
  <2>2. 2 ^ n = 2 ^ (m + 1) * 2 ^ (n - m - 1) /\ 2 ^ (m + 1) = 2 * 2 ^ m
    BY <2>1, PowersMultiply, PowerDoubles
  <2>3. 2 ^ (n - m - 1) \in Nat /\ 2 ^ (n - m - 1) > 0
    BY <2>1, PowerIsPositive
  <2>4. \A a, b \in Nat : b > 0 /\ a > 0 => a < (2 * a) * b
    OBVIOUS
  <2> QED BY <1>1, <2>2, <2>3, <2>4
<1> QED BY <1>2, <1>3
-----------------------------------------------------------------------------
(* Division by M, as the provers can use it.                               *)
LEMMA Division ==
  ASSUME NEW M \in Nat \ {0}, NEW n \in Nat
  PROVE  \E q \in Nat, r \in 0 .. M - 1 : n = M * q + r /\ n % M = r /\ n \div M = q
<1>1. n \div M \in Nat
  OBVIOUS
<1>2. n - M * (n \div M) \in 0 .. M - 1
  OBVIOUS
<1>3. PICK q \in Nat : q = n \div M /\ n - M * q \in 0 .. M - 1
  BY <1>1, <1>2
<1>4. PICK r \in 0 .. M - 1 : n = M * q + r
  BY <1>3
<1>5. (M * q + r) % M = r
  OBVIOUS
<1> QED BY <1>3, <1>4, <1>5

(* Two numbers have the same remainder if their difference is divisible.   *)
LEMMA SameRemainder ==
  ASSUME NEW M \in Nat \ {0}, NEW i \in Nat, NEW j \in Nat
  PROVE  i % M = j % M <=> \E c \in Int : i - j = M * c
<1>1. PICK qi \in Nat, ri \in 0 .. M - 1 : i = M * qi + ri /\ i % M = ri
  BY Division
<1>2. PICK qj \in Nat, rj \in 0 .. M - 1 : j = M * qj + rj /\ j % M = rj
  BY Division
<1>3. ASSUME ri = rj PROVE \E c \in Int : i - j = M * c
  <2>1. qi - qj \in Int /\ M * (qi - qj) = M * qi - M * qj
    OBVIOUS
  <2>2. i - j = M * (qi - qj)
    BY <1>1, <1>2, <1>3, <2>1
  <2> QED BY <2>1, <2>2
<1>4. ASSUME NEW c \in Int, i - j = M * c PROVE ri = rj
  <2>1. PICK e \in Int : e = c - qi + qj
    OBVIOUS
  <2>2. M * e = M * c - M * qi + M * qj
    BY <2>1
  <2>3. ri - rj = M * e
    BY <1>1, <1>2, <1>4, <2>2
  <2>4. e > 0 => M * e >= M
    OBVIOUS
  <2>5. e < 0 => M * e <= -M
    <3>1. e < 0 => M * (-e) >= M
      OBVIOUS
    <3> QED BY <3>1
  <2>6. M * 0 = 0
    OBVIOUS
  <2> QED BY <2>3, <2>4, <2>5, <2>6
<1> QED BY <1>1, <1>2, <1>3, <1>4

(* What a remainder is, and that it keeps the remainder.                   *)
LEMMA RemainderOf ==
  ASSUME NEW M \in Nat \ {0}, NEW i \in Nat
  PROVE  /\ i % M \in 0 .. M - 1
         /\ (i % M) % M = i % M
         /\ i < M => i % M = i
<1>1. PICK q \in Nat, r \in 0 .. M - 1 : i = M * q + r /\ i % M = r
  BY Division
<1>2. r % M = r
  <2>1. (M * 0 + r) % M = r /\ M * 0 + r = r
    OBVIOUS
  <2> QED BY <2>1
<1>3. ASSUME i < M PROVE r = i
  <2>1. q > 0 => M * q >= M
    OBVIOUS
  <2>2. q = 0 => M * q = 0
    OBVIOUS
  <2> QED BY <1>1, <1>3, <2>1, <2>2
<1> QED BY <1>1, <1>2, <1>3

(* The remainder by M can be taken from the remainder by a multiple of M.  *)
LEMMA CoarserRemainder ==
  ASSUME NEW M \in Nat \ {0}, NEW N \in Nat \ {0}, N % M = 0, NEW i \in Nat
  PROVE  (i % N) % M = i % M
<1>1. PICK P \in Nat : N = M * P
  BY Division
<1>2. ASSUME NEW n \in Nat, NEW j \in Nat, n % N = j % N PROVE n % M = j % M
  <2>1. PICK c \in Int : n - j = N * c
    BY <1>2, SameRemainder
  <2>2. N * c = M * (P * c) /\ P * c \in Int
    BY <1>1
  <2>3. \E e \in Int : n - j = M * e
    BY <2>1, <2>2
  <2> QED BY <2>3, SameRemainder
<1>3. i % N \in 0 .. N - 1 /\ (i % N) % N = i % N
  BY RemainderOf
<1>4. (i % N) % M = i % M
  <2>1. PICK n \in Nat : n = i % N
    BY <1>3
  <2>2. n % M = i % M
    BY <1>2, <1>3, <2>1
  <2> QED BY <2>1, <2>2
<1> QED BY <1>4

(* Numbers with the same remainder by H, halved: those whose remainder by  *)
(* 2 * H is that of i, and the others.  Flipping the bit of value H leads  *)
(* from one half to the other, within every multiple of 2 * H.             *)
LEMMA Halves ==
  ASSUME NEW H \in Nat \ {0}, NEW i \in Nat, NEW k \in Nat,
         (i \div H) % 2 = 0 => k = i + H,
         (i \div H) % 2 # 0 => k = i - H
  PROVE  /\ k % H = i % H
         /\ k % (2 * H) # i % (2 * H)
         /\ \A j \in Nat : j % H = i % H <=> j % (2 * H) \in {i % (2 * H), k % (2 * H)}
         /\ \A P \in Nat : i < (2 * H) * P => k < (2 * H) * P
<1>1. PICK M \in Nat \ {0} : M = 2 * H
  OBVIOUS
<1>2. ASSUME NEW n \in Nat, NEW j \in Nat, n % M = j % M PROVE n % H = j % H
  <2>1. PICK c \in Int : n - j = M * c
    BY <1>2, SameRemainder
  <2>2. 2 * c \in Int /\ n - j = H * (2 * c)
    BY <1>1, <2>1
  <2>3. \E e \in Int : n - j = H * e
    BY <2>2
  <2> QED BY <2>3, SameRemainder
<1>5. PICK s \in {1, -1} : i - k = H * s
  <2>1. \A x \in Int : x = H => -x = H * (-1) /\ x = H * 1
    OBVIOUS
  <2> QED BY <2>1
<1>6. k % H = i % H
  <2>1. \E c \in Int : i - k = H * c
    BY <1>5
  <2> QED BY <2>1, SameRemainder
<1>7. k % M # i % M
  <2>1. ASSUME NEW c \in Int PROVE H * s # M * c
    <3>1. H * s = M * c => H * (s - 2 * c) = 0
      BY <1>1
    <3>2. s - 2 * c # 0
      BY <1>5
    <3>3. \A x \in Int : H * x = 0 => x = 0
      OBVIOUS
    <3>4. s - 2 * c \in Int
      BY <1>5
    <3> QED BY <3>1, <3>2, <3>3, <3>4
  <2>2. ~ \E c \in Int : i - k = M * c
    BY <1>5, <2>1
  <2> QED BY <2>2, SameRemainder
<1>8. ASSUME NEW j \in Nat, j % H = i % H, j % M # i % M PROVE j % M = k % M
  <2>1. PICK c \in Int : j - i = H * c
    BY <1>8, SameRemainder
  <2>2. PICK e \in Int : c = 2 * e \/ c = 2 * e + 1
    <3>1. c \div 2 \in Int /\ c - 2 * (c \div 2) \in {0, 1}
      OBVIOUS
    <3>2. PICK e \in Int : c - 2 * e \in {0, 1}
      BY <3>1
    <3> QED BY <3>2
  <2>3. PICK h \in Int : c + s = 2 * h
    <3>1. CASE c = 2 * e
      <4>1. j - i = M * e
        BY <1>1, <2>1, <3>1
      <4>2. \E x \in Int : j - i = M * x
        BY <4>1
      <4> QED BY <1>8, <4>2, SameRemainder
    <3>2. CASE c = 2 * e + 1
      <4>1. c + 1 = 2 * (e + 1) /\ c + (-1) = 2 * e
        BY <3>2
      <4>2. e \in Int /\ e + 1 \in Int
        OBVIOUS
      <4>3. s = 1 \/ s = -1
        BY <1>5
      <4> QED BY <4>1, <4>2, <4>3
    <3> QED BY <2>2, <3>1, <3>2
  <2>4. j - k = H * (c + s)
    BY <1>5, <2>1
  <2>5. j - k = M * h
    BY <1>1, <2>3, <2>4
  <2>6. \E x \in Int : j - k = M * x
    BY <2>5
  <2> QED BY <2>6, SameRemainder
<1>9. ASSUME NEW P \in Nat, i < M * P PROVE k < M * P
  <2>1. CASE k < i
    BY <1>9, <2>1
  <2>2. CASE k >= i
    <3>1. k = i + H /\ (i \div H) % 2 = 0
      BY <2>2
    <3>2. PICK q \in Nat, r \in 0 .. H - 1 : i = H * q + r /\ i \div H = q
      BY Division
    <3>3. PICK e \in Nat : q = 2 * e
      BY <3>1, <3>2
    <3>4. i = M * e + r /\ k = M * e + r + H
      BY <1>1, <3>1, <3>2, <3>3
    <3>5. e < P
      <4>1. e >= P => M * e >= M * P
        BY <1>1
      <4> QED BY <1>9, <3>4, <4>1
    <3>6. M * e + M =< M * P
      <4>1. M * (e + 1) =< M * P
        BY <3>5
      <4> QED BY <4>1
    <3> QED BY <1>1, <3>4, <3>6
  <2> QED BY <2>1, <2>2
<1> QED BY <1>1, <1>2, <1>6, <1>7, <1>8, <1>9
-----------------------------------------------------------------------------
(* The low bits of an index, as many as a depth says.                      *)
LEMMA LowBits ==
  ASSUME NEW k \in Nat, NEW g \in Nat, k =< g, NEW i \in Nat
  PROVE  /\ i % 2 ^ k \in 0 .. 2 ^ k - 1
         /\ i < 2 ^ k => i % 2 ^ k = i
         /\ (i % 2 ^ g) % 2 ^ k = i % 2 ^ k
<1>1. g - k \in Nat /\ k + (g - k) = g
  OBVIOUS
<1>2. 2 ^ g = 2 ^ k * 2 ^ (g - k)
  BY <1>1, PowersMultiply
<1>3. 2 ^ k \in Nat \ {0} /\ 2 ^ g \in Nat \ {0} /\ 2 ^ (g - k) \in Nat \ {0}
  BY <1>1, PowerIsPositive
<1>4. PICK M \in Nat \ {0}, N \in Nat \ {0} : M = 2 ^ k /\ N = 2 ^ g /\ N % M = 0
  <2>1. \A M, P \in Nat \ {0} : (M * P) % M = 0
    OBVIOUS
  <2> QED BY <1>2, <1>3, <2>1
<1>5. (i % N) % M = i % M
  <2>1. N % M = 0
    BY <1>4
  <2> QED BY <2>1, CoarserRemainder, Zenon
<1>6. i % M \in 0 .. M - 1 /\ (i < M => i % M = i)
  BY RemainderOf
<1> QED BY <1>4, <1>5, <1>6

LEMMA HalfOfPower == /\ 2 ^ 0 \div 2 = 0
                     /\ \A k \in Nat : 2 ^ (k + 1) \div 2 = 2 ^ k /\ 2 ^ k \in Nat \ {0}
<1>1. 2 ^ 0 \div 2 = 0
  OBVIOUS
<1>2. ASSUME NEW k \in Nat PROVE 2 ^ (k + 1) \div 2 = 2 ^ k /\ 2 ^ k \in Nat \ {0}
  <2>1. 2 ^ (k + 1) = 2 * 2 ^ k /\ 2 ^ k \in Nat /\ 2 ^ k > 0
    BY PowerDoubles, PowerIsPositive
  <2>2. \A x \in Nat : (2 * x) \div 2 = x
    OBVIOUS
  <2> QED BY <2>1, <2>2
<1> QED BY <1>1, <1>2

(* A directory is a record of these three fields.                          *)
LEMMA DirectoryShape ==
  ASSUME NEW d
  PROVE  IsDirectory(d) <=>
           /\ d = [global_depth |-> d.global_depth,
                   local_depths |-> d.local_depths,
                   bucket_page_ids |-> d.bucket_page_ids]
           /\ d.global_depth \in 0 .. MaxDepth
           /\ d.local_depths \in [Indices(d) -> 0 .. MaxDepth]
           /\ d.bucket_page_ids \in [Indices(d) -> BucketIds]
BY DEF IsDirectory, Indices, Size

LEMMA DirectoryTypes ==
  ASSUME NEW d, IsDirectory(d)
  PROVE  /\ d.global_depth \in Nat
         /\ d.global_depth =< MaxDepth
         /\ Size(d) = 2 ^ d.global_depth
         /\ Size(d) \in Nat \ {0}
         /\ 0 \in Indices(d)
         /\ \A i : i \in Indices(d) <=> i \in Nat /\ i < Size(d)
         /\ \A i \in Indices(d) : /\ d.local_depths[i] \in Nat
                                  /\ d.local_depths[i] =< MaxDepth
                                  /\ d.bucket_page_ids[i] \in BucketIds
<1>1. d.global_depth \in Nat /\ d.global_depth =< MaxDepth
  BY DirectoryAssumption, DirectoryShape
<1>2. Size(d) = 2 ^ d.global_depth /\ Size(d) \in Nat \ {0}
  BY <1>1, PowerIsPositive DEF Size
<1>3. /\ 0 \in Indices(d)
      /\ \A i : i \in Indices(d) <=> i \in Nat /\ i < Size(d)
  BY <1>2 DEF Indices
<1>4. ASSUME NEW i \in Indices(d)
      PROVE  /\ d.local_depths[i] \in Nat
             /\ d.local_depths[i] =< MaxDepth
             /\ d.bucket_page_ids[i] \in BucketIds
  <2>1. d.local_depths[i] \in 0 .. MaxDepth /\ d.bucket_page_ids[i] \in BucketIds
    BY DirectoryShape
  <2> QED BY <2>1, DirectoryAssumption
<1> QED BY <1>1, <1>2, <1>3, <1>4

(* The split image of a bucket that uses a bit is in the other half of the *)
(* entries that agree in the other bits.                                   *)
LEMMA ImageIsOtherHalf ==
  ASSUME NEW d, IsDirectory(d), NEW i \in Indices(d), NEW k \in Nat,
         d.local_depths[i] = k + 1, k + 1 =< d.global_depth
  PROVE  LET image == GetSplitImageIndex(d, i)
         IN  /\ image \in Indices(d)
             /\ image # i
             /\ image % 2 ^ k = i % 2 ^ k
             /\ image % 2 ^ (k + 1) # i % 2 ^ (k + 1)
             /\ \A j \in Nat : j % 2 ^ k = i % 2 ^ k <=>
                  j % 2 ^ (k + 1) \in {i % 2 ^ (k + 1), image % 2 ^ (k + 1)}
<1>1. PICK H \in Nat \ {0} : H = 2 ^ k /\ GetLocalHighBit(d, i) = H /\ 2 ^ (k + 1) = 2 * H
  BY HalfOfPower, PowerDoubles DEF GetLocalHighBit
<1>2. PICK image : image = GetSplitImageIndex(d, i)
  OBVIOUS
<1>3. image = IF (i \div H) % 2 = 0 THEN i + H ELSE i - H
  BY <1>1, <1>2 DEF GetSplitImageIndex
<1>4. i \in Nat /\ i < Size(d) /\ d.global_depth \in Nat /\ Size(d) = 2 ^ d.global_depth
  BY DirectoryTypes
<1>5. image \in Nat
  <2>1. CASE (i \div H) % 2 = 0
    BY <1>3, <1>4, <2>1
  <2>2. CASE (i \div H) % 2 # 0
    <3>1. PICK q \in Nat, r \in 0 .. H - 1 : i = H * q + r /\ i \div H = q
      BY <1>4, Division
    <3>2. q # 0
      BY <2>2, <3>1
    <3>3. H * q >= H
      BY <3>2
    <3> QED BY <1>3, <1>4, <2>2, <3>1, <3>3
  <2> QED BY <2>1, <2>2
<1>6. PICK P \in Nat : Size(d) = (2 * H) * P
  <2>1. PICK n \in Nat : (k + 1) + n = d.global_depth
    <3>1. d.global_depth - (k + 1) \in Nat /\ (k + 1) + (d.global_depth - (k + 1)) = d.global_depth
      BY <1>4
    <3> QED BY <3>1
  <2>2. 2 ^ d.global_depth = 2 ^ (k + 1) * 2 ^ n
    <3>1. 2 ^ ((k + 1) + n) = 2 ^ (k + 1) * 2 ^ n
      BY PowersMultiply
    <3> QED BY <2>1, <3>1
  <2>3. 2 ^ n \in Nat
    BY PowerIsPositive
  <2> QED BY <1>1, <1>4, <2>2, <2>3
<1>7. /\ image % H = i % H
      /\ image % (2 * H) # i % (2 * H)
      /\ \A j \in Nat : j % H = i % H <=> j % (2 * H) \in {i % (2 * H), image % (2 * H)}
      /\ \A n \in Nat : i < (2 * H) * n => image < (2 * H) * n
  <2>1. (i \div H) % 2 = 0 => image = i + H
    BY <1>3
  <2>2. (i \div H) % 2 # 0 => image = i - H
    BY <1>3
  <2>3. i \in Nat
    BY <1>4
  <2> QED BY <1>5, <2>1, <2>2, <2>3, Halves, Zenon
<1>8. image \in Indices(d)
  BY <1>4, <1>5, <1>6, <1>7, DirectoryTypes
<1> QED BY <1>1, <1>2, <1>7, <1>8

(* The siblings of an entry are the entries that agree in the low bits.    *)
LEMMA SiblingsAgree ==
  ASSUME NEW d, NEW i, NEW k \in Nat, d.local_depths[i] = k + 1
  PROVE  Siblings(d, i) = {j \in Indices(d) : j % 2 ^ (k + 1) = i % 2 ^ (k + 1)}
<1>1. 2 * GetLocalHighBit(d, i) = 2 ^ (k + 1)
  BY HalfOfPower, PowerDoubles DEF GetLocalHighBit
<1> QED BY <1>1 DEF Siblings
-----------------------------------------------------------------------------
(* What relates the entries of a directory: two have the same bucket page  *)
(* if and only if they agree in as many low bits as their local depth      *)
(* says, which is the same for both and not above the global depth.        *)
Low(i, k) == i % 2 ^ k

Consistent(d) == \A i \in Indices(d) :
  /\ d.local_depths[i] =< d.global_depth
  /\ \A j \in Indices(d) :
       /\ d.bucket_page_ids[j] = d.bucket_page_ids[i]
            <=> Low(j, d.local_depths[i]) = Low(i, d.local_depths[i])
       /\ d.bucket_page_ids[j] = d.bucket_page_ids[i] => d.local_depths[j] = d.local_depths[i]

LEMMA LowFacts ==
  \A k, i \in Nat : Low(i, k) \in 0 .. 2 ^ k - 1 /\ (i < 2 ^ k => Low(i, k) = i)
BY LowBits DEF Low

LEMMA LowOfLow == \A k, g, i \in Nat : k =< g => Low(Low(i, g), k) = Low(i, k)
BY LowBits, Zenon DEF Low

LEMMA FewerBits == \A k, g, i, j \in Nat : k =< g /\ Low(i, g) = Low(j, g) => Low(i, k) = Low(j, k)
<1> SUFFICES ASSUME NEW k \in Nat, NEW g \in Nat, NEW i \in Nat, NEW j \in Nat,
                    k =< g, Low(i, g) = Low(j, g)
             PROVE  Low(i, k) = Low(j, k)
  OBVIOUS
<1>1. Low(Low(i, g), k) = Low(i, k) /\ Low(Low(j, g), k) = Low(j, k)
  BY LowOfLow
<1> QED BY <1>1

(* The directory with its arrays at another global depth.                  *)
LEMMA Resized ==
  ASSUME NEW d, IsDirectory(d), NEW g \in Nat, g =< MaxDepth
  PROVE  LET r == WithGlobalDepth(d, g)
         IN  /\ IsDirectory(r)
             /\ r.global_depth = g
             /\ \A j \in Indices(r) :
                  /\ j \in Nat
                  /\ Low(j, d.global_depth) \in Indices(d)
                  /\ r.local_depths[j] = d.local_depths[Low(j, d.global_depth)]
                  /\ r.bucket_page_ids[j] = d.bucket_page_ids[Low(j, d.global_depth)]
             /\ g =< d.global_depth =>
                  \A j \in Indices(r) : j \in Indices(d) /\ Low(j, d.global_depth) = j
             /\ d.global_depth =< g =>
                  \A j \in Indices(d) : j \in Indices(r) /\ Low(j, d.global_depth) = j
<1>1. PICK r : r = WithGlobalDepth(d, g)
  OBVIOUS
<1>2. PICK n \in Nat : n = d.global_depth
  BY DirectoryTypes
<1>3. /\ Size(d) = 2 ^ n
      /\ \A i : i \in Indices(d) <=> i \in Nat /\ i < 2 ^ n
      /\ 2 ^ n \in Nat /\ 2 ^ g \in Nat
  BY <1>2, DirectoryTypes, PowerIsPositive
<1>4. /\ r = [global_depth |-> g,
              local_depths |-> [j \in 0 .. 2 ^ g - 1 |-> d.local_depths[j % Size(d)]],
              bucket_page_ids |-> [j \in 0 .. 2 ^ g - 1 |-> d.bucket_page_ids[j % Size(d)]]]
  BY <1>1 DEF WithGlobalDepth, CopiedFrom
<1>5. r.global_depth = g /\ Indices(r) = 0 .. 2 ^ g - 1
  BY <1>4 DEF Indices, Size
<1>6. \A j \in Indices(r) : j \in Nat /\ j < 2 ^ g
  BY <1>3, <1>5
<1>7. ASSUME NEW j \in Nat PROVE Low(j, n) \in Indices(d) /\ (j < 2 ^ n => Low(j, n) = j)
  <2>1. Low(j, n) \in 0 .. 2 ^ n - 1 /\ (j < 2 ^ n => Low(j, n) = j)
    BY LowFacts
  <2>2. Low(j, n) \in Nat /\ Low(j, n) < 2 ^ n
    BY <1>3, <2>1
  <2> QED BY <1>3, <2>1, <2>2
<1>8. ASSUME NEW j \in Indices(r)
      PROVE  /\ r.local_depths[j] = d.local_depths[Low(j, n)]
             /\ r.bucket_page_ids[j] = d.bucket_page_ids[Low(j, n)]
  BY <1>3, <1>4, <1>5 DEF Low
<1>9. IsDirectory(r)
  <2>1. r.global_depth \in 0 .. MaxDepth
    BY <1>5, DirectoryAssumption
  <2>2. ASSUME NEW j \in Indices(r)
        PROVE  r.local_depths[j] \in 0 .. MaxDepth /\ r.bucket_page_ids[j] \in BucketIds
    <3>1. Low(j, n) \in Indices(d)
      BY <1>6, <1>7
    <3>2. /\ d.local_depths[Low(j, n)] \in 0 .. MaxDepth
          /\ d.bucket_page_ids[Low(j, n)] \in BucketIds
      BY <3>1, DirectoryShape
    <3> QED BY <1>8, <3>2
  <2>3. r.local_depths \in [Indices(r) -> 0 .. MaxDepth]
    BY <1>4, <1>5, <2>2
  <2>4. r.bucket_page_ids \in [Indices(r) -> BucketIds]
    BY <1>4, <1>5, <2>2
  <2>5. r = [global_depth |-> r.global_depth,
             local_depths |-> r.local_depths,
             bucket_page_ids |-> r.bucket_page_ids]
    BY <1>4
  <2> QED BY <2>1, <2>3, <2>4, <2>5, DirectoryShape
<1>10. ASSUME g =< n, NEW j \in Indices(r) PROVE j \in Indices(d) /\ Low(j, n) = j
  <2>1. 2 ^ g =< 2 ^ n
    BY <1>10, PowersGrow
  <2> QED BY <1>3, <1>6, <1>7, <2>1
<1>11. ASSUME n =< g, NEW j \in Indices(d) PROVE j \in Indices(r) /\ Low(j, n) = j
  <2>1. 2 ^ n =< 2 ^ g
    BY <1>11, PowersGrow
  <2> QED BY <1>3, <1>5, <1>7, <2>1
<1> QED BY <1>1, <1>2, <1>5, <1>6, <1>7, <1>8, <1>9, <1>10, <1>11

(* ... stays consistent when it has no depth above the new one.            *)
LEMMA ResizedIsConsistent ==
  ASSUME NEW d, IsDirectory(d), Consistent(d), NEW g \in Nat, g =< MaxDepth,
         \A j \in Indices(WithGlobalDepth(d, g)) : WithGlobalDepth(d, g).local_depths[j] =< g
  PROVE  Consistent(WithGlobalDepth(d, g))
<1>1. PICK r : r = WithGlobalDepth(d, g)
  OBVIOUS
<1>2. PICK n \in Nat : n = d.global_depth
  BY DirectoryTypes
<1>3. /\ r.global_depth = g
      /\ \A j \in Indices(r) :
           /\ j \in Nat
           /\ Low(j, n) \in Indices(d)
           /\ r.local_depths[j] = d.local_depths[Low(j, n)]
           /\ r.bucket_page_ids[j] = d.bucket_page_ids[Low(j, n)]
  BY <1>1, <1>2, Resized
<1>4. ASSUME NEW i \in Indices(r), NEW j \in Indices(r)
      PROVE  /\ r.local_depths[i] =< r.global_depth
             /\ r.bucket_page_ids[j] = r.bucket_page_ids[i]
                  <=> Low(j, r.local_depths[i]) = Low(i, r.local_depths[i])
             /\ r.bucket_page_ids[j] = r.bucket_page_ids[i]
                  => r.local_depths[j] = r.local_depths[i]
  <2>1. PICK x \in Indices(d), y \in Indices(d) : x = Low(i, n) /\ y = Low(j, n)
    BY <1>3
  <2>2. PICK k \in Nat : k = d.local_depths[x] /\ k =< n
    BY <1>2, DirectoryTypes DEF Consistent
  <2>3. /\ d.bucket_page_ids[y] = d.bucket_page_ids[x] <=> Low(y, k) = Low(x, k)
        /\ d.bucket_page_ids[y] = d.bucket_page_ids[x] => d.local_depths[y] = d.local_depths[x]
    BY <2>2 DEF Consistent
  <2>4. Low(y, k) = Low(j, k) /\ Low(x, k) = Low(i, k)
    <3>1. \A m \in Nat : Low(Low(m, n), k) = Low(m, k)
      BY <2>2, LowOfLow
    <3> QED BY <1>3, <2>1, <3>1
  <2>5. r.local_depths[i] =< r.global_depth
    BY <1>1, <1>3
  <2> QED BY <1>3, <2>1, <2>2, <2>3, <2>4, <2>5
<1> QED BY <1>1, <1>4 DEF Consistent
-----------------------------------------------------------------------------
(* A bucket that can be split leaves room for one more bit.                *)
LEMMA RoomToSplit ==
  ASSUME NEW d, IsDirectory(d), NEW i \in Indices(d), ~CannotSplit(d, i)
  PROVE  d.local_depths[i] < d.global_depth \/ d.global_depth < MaxDepth
<1> SUFFICES ASSUME ~(d.local_depths[i] < d.global_depth), ~(d.global_depth < MaxDepth)
             PROVE  FALSE
  OBVIOUS
<1>1. d.global_depth = MaxDepth /\ MaxDepth \in Nat /\ d.local_depths[i] >= d.global_depth
  BY DirectoryTypes, DirectoryAssumption
<1>2. Size(d) = 2 ^ MaxDepth /\ 2 ^ MaxDepth \in Nat /\ 2 ^ MaxDepth > 0
  BY <1>1, DirectoryTypes, PowerIsPositive
<1>3. \A x \in Nat : x > 0 => x > x \div 2
  OBVIOUS
<1> QED BY <1>1, <1>2, <1>3 DEF CannotSplit

(* The directory after SplitInsert grew it if need be.                     *)
Grown(d, i) == IF d.local_depths[i] < d.global_depth THEN d ELSE IncrGlobalDepth(d)

LEMMA GrownEffect ==
  ASSUME NEW d, IsDirectory(d), Consistent(d), NEW i \in Indices(d), ~CannotSplit(d, i)
  PROVE  LET e == Grown(d, i)
         IN  /\ IsDirectory(e) /\ Consistent(e)
             /\ i \in Indices(e)
             /\ e.local_depths[i] = d.local_depths[i]
             /\ d.local_depths[i] < e.global_depth
             /\ d.global_depth =< e.global_depth
             /\ e.global_depth \in {d.global_depth, d.local_depths[i] + 1}
             /\ \A j \in Indices(e) :
                  /\ Low(j, d.global_depth) \in Indices(d)
                  /\ e.local_depths[j] = d.local_depths[Low(j, d.global_depth)]
                  /\ e.bucket_page_ids[j] = d.bucket_page_ids[Low(j, d.global_depth)]
             /\ \A j \in Indices(d) : j \in Indices(e) /\ Low(j, d.global_depth) = j
<1>1. PICK n \in Nat, k \in Nat : n = d.global_depth /\ k = d.local_depths[i]
  BY DirectoryTypes
<1>2. k =< n /\ \A j \in Indices(d) : d.local_depths[j] \in Nat /\ d.local_depths[j] =< n
  BY <1>1, DirectoryTypes DEF Consistent
<1>3. ASSUME NEW j \in Indices(d) PROVE Low(j, n) = j
  <2>1. j \in Nat /\ j < 2 ^ n
    BY <1>1, DirectoryTypes
  <2> QED BY <2>1, LowFacts
<1>4. CASE k < n
  <2>1. Grown(d, i) = d
    BY <1>1, <1>4 DEF Grown
  <2> QED BY <1>1, <1>2, <1>3, <1>4, <2>1
<1>5. CASE ~(k < n)
  <2>1. PICK e : e = Grown(d, i)
    OBVIOUS
  <2>2. PICK g \in Nat : g = n + 1 /\ g =< MaxDepth
    BY <1>1, <1>5, RoomToSplit, DirectoryAssumption
  <2>3. e = WithGlobalDepth(d, g)
    BY <1>1, <1>5, <2>1, <2>2 DEF Grown, IncrGlobalDepth
  <2>4. /\ IsDirectory(e)
        /\ e.global_depth = g
        /\ \A j \in Indices(e) :
             /\ Low(j, n) \in Indices(d)
             /\ e.local_depths[j] = d.local_depths[Low(j, n)]
             /\ e.bucket_page_ids[j] = d.bucket_page_ids[Low(j, n)]
        /\ \A j \in Indices(d) : j \in Indices(e)
    BY <1>1, <2>2, <2>3, Resized
  <2>5. \A j \in Indices(e) : e.local_depths[j] =< g
    BY <1>2, <2>2, <2>4
  <2>6. Consistent(e)
    BY <2>2, <2>3, <2>5, ResizedIsConsistent
  <2> QED BY <1>1, <1>2, <1>3, <1>5, <2>1, <2>2, <2>4, <2>6
<1> QED BY <1>4, <1>5

(* SplitInsert: the entries of the bucket at i agree in its k low bits.    *)
(* All of them get the local depth k + 1, and those that agree with the    *)
(* split image in one more bit the page p.                                 *)
LEMMA SplitEffect ==
  ASSUME NEW d, IsDirectory(d), Consistent(d), NEW i \in Indices(d), ~CannotSplit(d, i),
         NEW p \in BucketIds, NEW k \in Nat, k = d.local_depths[i]
  PROVE  LET e == Grown(d, i)
             s == SplitDirectory(d, i, p)
             image == GetSplitImageIndex(s, i)
         IN  /\ IsDirectory(s)
             /\ s.global_depth = e.global_depth
             /\ Indices(s) = Indices(e)
             /\ image \in Indices(s)
             /\ Low(image, k) = Low(i, k)
             /\ Low(image, k + 1) # Low(i, k + 1)
             /\ \A j \in Nat : Low(j, k) = Low(i, k) <=>
                  Low(j, k + 1) \in {Low(i, k + 1), Low(image, k + 1)}
             /\ \A j \in Indices(s) :
                  /\ s.local_depths[j] = IF Low(j, k) = Low(i, k) THEN k + 1
                                                                  ELSE e.local_depths[j]
                  /\ s.bucket_page_ids[j] = IF Low(j, k + 1) = Low(image, k + 1)
                                              THEN p ELSE e.bucket_page_ids[j]
<1>1. PICK e : e = Grown(d, i)
  OBVIOUS
<1>2. PICK deep : deep = [e EXCEPT !.local_depths[i] = @ + 1]
  OBVIOUS
<1>3. PICK image : image = GetSplitImageIndex(deep, i)
  OBVIOUS
<1>4. PICK known : known = SetLocalDepths(deep, {image}, k + 1)
  OBVIOUS
<1>5. /\ IsDirectory(e) /\ Consistent(e)
      /\ i \in Indices(e)
      /\ e.local_depths[i] = k
      /\ k < e.global_depth
  BY <1>1, GrownEffect
<1>6. /\ e.global_depth \in Nat
      /\ e.global_depth =< MaxDepth
      /\ \A j \in Indices(e) : j \in Nat
  BY <1>5, DirectoryTypes
<1>7. k + 1 \in 0 .. MaxDepth /\ k + 1 =< e.global_depth
  BY <1>5, <1>6, DirectoryAssumption
<1>8. deep = [global_depth |-> e.global_depth,
              local_depths |-> [e.local_depths EXCEPT ![i] = k + 1],
              bucket_page_ids |-> e.bucket_page_ids]
  <2>1. e = [global_depth |-> e.global_depth,
             local_depths |-> e.local_depths,
             bucket_page_ids |-> e.bucket_page_ids]
    BY <1>5, DirectoryShape
  <2> QED BY <1>2, <1>5, <2>1
<1>9. IsDirectory(deep) /\ Indices(deep) = Indices(e) /\ deep.local_depths[i] = k + 1
  <2>1. e.local_depths \in [Indices(e) -> 0 .. MaxDepth] /\ e.global_depth \in 0 .. MaxDepth
        /\ e.bucket_page_ids \in [Indices(e) -> BucketIds]
    BY <1>5, DirectoryShape
  <2>2. Indices(deep) = Indices(e)
    BY <1>8 DEF Indices, Size
  <2>3. [e.local_depths EXCEPT ![i] = k + 1] \in [Indices(deep) -> 0 .. MaxDepth]
    BY <1>7, <2>1, <2>2
  <2>4. deep.local_depths[i] = k + 1
    BY <1>5, <1>8, <2>1
  <2> QED BY <1>8, <2>1, <2>2, <2>3, <2>4, DirectoryShape
<1>10. /\ image \in Indices(e)
       /\ image # i
       /\ Low(image, k) = Low(i, k)
       /\ Low(image, k + 1) # Low(i, k + 1)
       /\ \A j \in Nat : Low(j, k) = Low(i, k) <=>
            Low(j, k + 1) \in {Low(i, k + 1), Low(image, k + 1)}
  <2>1. k + 1 =< deep.global_depth
    BY <1>7, <1>8
  <2>2. i \in Indices(deep)
    BY <1>5, <1>9
  <2>3. LET m == GetSplitImageIndex(deep, i)
        IN  /\ m \in Indices(deep)
            /\ m # i
            /\ m % 2 ^ k = i % 2 ^ k
            /\ m % 2 ^ (k + 1) # i % 2 ^ (k + 1)
            /\ \A j \in Nat : j % 2 ^ k = i % 2 ^ k <=>
                 j % 2 ^ (k + 1) \in {i % 2 ^ (k + 1), m % 2 ^ (k + 1)}
    BY <1>9, <2>1, <2>2, ImageIsOtherHalf, Zenon
  <2> QED BY <1>3, <1>9, <2>3, Zenon DEF Low
<1>11. known = [global_depth |-> e.global_depth,
                local_depths |-> [j \in Indices(e) |-> IF j \in {i, image} THEN k + 1
                                                       ELSE e.local_depths[j]],
                bucket_page_ids |-> e.bucket_page_ids]
  <2>1. e.local_depths \in [Indices(e) -> 0 .. MaxDepth]
    BY <1>5, DirectoryShape
  <2>2. known = [deep EXCEPT !.local_depths =
                   [j \in Indices(e) |-> IF j \in {image} THEN k + 1 ELSE @[j]]]
    BY <1>4, <1>9 DEF SetLocalDepths
  <2>3. known = [global_depth |-> e.global_depth,
                 local_depths |-> [j \in Indices(e) |-> IF j \in {image} THEN k + 1
                                                        ELSE deep.local_depths[j]],
                 bucket_page_ids |-> e.bucket_page_ids]
    BY <1>8, <2>2
  <2>4. \A j \in Indices(e) : deep.local_depths[j] = IF j = i THEN k + 1 ELSE e.local_depths[j]
    BY <1>5, <1>8, <2>1
  <2> QED BY <2>3, <2>4
<1>12. /\ Indices(known) = Indices(e)
       /\ known.local_depths[i] = k + 1
       /\ known.local_depths[image] = k + 1
  BY <1>5, <1>10, <1>11 DEF Indices, Size
<1>13. PICK moved, kept : /\ moved = Siblings(known, image)
                          /\ kept = Siblings(known, i)
                          /\ moved = {j \in Indices(e) : Low(j, k + 1) = Low(image, k + 1)}
                          /\ kept = {j \in Indices(e) : Low(j, k + 1) = Low(i, k + 1)}
  BY <1>12, SiblingsAgree DEF Low
<1>14. PICK s : s = SplitDirectory(d, i, p)
  OBVIOUS
<1>15. s = SetBucketPageIds(SetLocalDepths(known, moved \union kept, k + 1), moved, p)
  <2>1. deep = Deepened(d, i)
    BY <1>1, <1>2 DEF Deepened, Grown
  <2> QED BY <1>3, <1>4, <1>9, <1>13, <1>14, <2>1 DEF SplitDirectory
<1>16. s = [global_depth |-> e.global_depth,
            local_depths |-> [j \in Indices(e) |-> IF j \in moved \union kept THEN k + 1
                                                   ELSE known.local_depths[j]],
            bucket_page_ids |-> [j \in Indices(e) |-> IF j \in moved THEN p
                                                      ELSE e.bucket_page_ids[j]]]
  <2>1. PICK w : w = SetLocalDepths(known, moved \union kept, k + 1)
    OBVIOUS
  <2>2. w = [global_depth |-> e.global_depth,
             local_depths |-> [j \in Indices(e) |-> IF j \in moved \union kept THEN k + 1
                                                    ELSE known.local_depths[j]],
             bucket_page_ids |-> e.bucket_page_ids]
    BY <1>11, <1>12, <2>1 DEF SetLocalDepths
  <2>3. Indices(w) = Indices(e)
    BY <2>2 DEF Indices, Size
  <2>4. s = [w EXCEPT !.bucket_page_ids =
               [j \in Indices(e) |-> IF j \in moved THEN p ELSE @[j]]]
    BY <1>15, <2>1, <2>3 DEF SetBucketPageIds
  <2> QED BY <2>2, <2>4
<1>17. Indices(s) = Indices(e) /\ s.global_depth = e.global_depth
  BY <1>16 DEF Indices, Size
<1>18. ASSUME NEW j \in Indices(e)
       PROVE  /\ s.local_depths[j] = IF Low(j, k) = Low(i, k) THEN k + 1
                                                             ELSE e.local_depths[j]
              /\ s.bucket_page_ids[j] = IF Low(j, k + 1) = Low(image, k + 1)
                                          THEN p ELSE e.bucket_page_ids[j]
  <2>1. j \in moved \union kept <=> Low(j, k) = Low(i, k)
    BY <1>6, <1>10, <1>13
  <2>2. j \in {i, image} => j \in moved \union kept
    BY <1>13
  <2>3. j \in moved <=> Low(j, k + 1) = Low(image, k + 1)
    BY <1>13
  <2> QED BY <1>11, <1>16, <2>1, <2>2, <2>3
<1>19. IsDirectory(s)
  <2>1. \A j \in Indices(e) : e.local_depths[j] \in 0 .. MaxDepth
                              /\ e.bucket_page_ids[j] \in BucketIds
    BY <1>5, DirectoryShape
  <2>2. \A j \in Indices(e) : s.local_depths[j] \in 0 .. MaxDepth
                              /\ s.bucket_page_ids[j] \in BucketIds
    BY <1>7, <1>18, <2>1
  <2>3. s.local_depths \in [Indices(s) -> 0 .. MaxDepth]
    BY <1>16, <1>17, <2>2
  <2>4. s.bucket_page_ids \in [Indices(s) -> BucketIds]
    BY <1>16, <1>17, <2>2
  <2>5. s.global_depth \in 0 .. MaxDepth
    BY <1>6, <1>17, DirectoryAssumption
  <2>6. s = [global_depth |-> s.global_depth,
             local_depths |-> s.local_depths,
             bucket_page_ids |-> s.bucket_page_ids]
    BY <1>16
  <2> QED BY <2>3, <2>4, <2>5, <2>6, DirectoryShape
<1>20. image = GetSplitImageIndex(s, i)
  <2>1. s.local_depths[i] = deep.local_depths[i]
    BY <1>5, <1>9, <1>18
  <2> QED BY <1>3, <2>1 DEF GetSplitImageIndex, GetLocalHighBit
<1> QED BY <1>1, <1>10, <1>14, <1>17, <1>18, <1>19, <1>20

(* A split with a page that is not in use keeps the directory consistent.  *)
LEMMA SplitIsConsistent ==
  ASSUME NEW d, IsDirectory(d), Consistent(d), NEW i \in Indices(d), ~CannotSplit(d, i),
         NEW p \in BucketIds, \A j \in Indices(d) : d.bucket_page_ids[j] # p
  PROVE  Consistent(SplitDirectory(d, i, p))
<1>0. PICK k \in Nat : k = d.local_depths[i]
  BY DirectoryTypes
<1>1. PICK e, s : e = Grown(d, i) /\ s = SplitDirectory(d, i, p)
  OBVIOUS
<1>2. PICK image : image = GetSplitImageIndex(s, i)
  OBVIOUS
<1>3. /\ IsDirectory(e) /\ Consistent(e)
      /\ i \in Indices(e)
      /\ e.local_depths[i] = k
      /\ k < e.global_depth
      /\ \A j \in Indices(e) : e.bucket_page_ids[j] # p
  BY <1>0, <1>1, GrownEffect
<1>4. /\ s.global_depth = e.global_depth
      /\ Indices(s) = Indices(e)
      /\ image \in Indices(e)
      /\ Low(image, k) = Low(i, k)
      /\ Low(image, k + 1) # Low(i, k + 1)
      /\ \A j \in Nat : Low(j, k) = Low(i, k) <=>
           Low(j, k + 1) \in {Low(i, k + 1), Low(image, k + 1)}
      /\ \A j \in Indices(e) :
           /\ s.local_depths[j] = IF Low(j, k) = Low(i, k) THEN k + 1 ELSE e.local_depths[j]
           /\ s.bucket_page_ids[j] = IF Low(j, k + 1) = Low(image, k + 1)
                                       THEN p ELSE e.bucket_page_ids[j]
  BY <1>0, <1>1, <1>2, SplitEffect
<1>5. /\ e.global_depth \in Nat
      /\ \A j \in Indices(e) : j \in Nat /\ e.local_depths[j] \in Nat
  BY <1>3, DirectoryTypes
<1>6. \A j \in Indices(e) : e.bucket_page_ids[j] = e.bucket_page_ids[i] <=> Low(j, k) = Low(i, k)
  BY <1>3 DEF Consistent
<1>7. ASSUME NEW x \in Indices(e), NEW y \in Indices(e)
      PROVE  /\ s.local_depths[x] =< s.global_depth
             /\ s.bucket_page_ids[y] = s.bucket_page_ids[x]
                  <=> Low(y, s.local_depths[x]) = Low(x, s.local_depths[x])
             /\ s.bucket_page_ids[y] = s.bucket_page_ids[x]
                  => s.local_depths[y] = s.local_depths[x]
  <2>1. PICK n \in Nat : n = e.local_depths[x] /\ n =< e.global_depth
    BY <1>3, <1>5 DEF Consistent
  <2>2. /\ e.bucket_page_ids[y] = e.bucket_page_ids[x] <=> Low(y, n) = Low(x, n)
        /\ e.bucket_page_ids[y] = e.bucket_page_ids[x] => e.local_depths[y] = n
    BY <1>3, <2>1 DEF Consistent
  <2>3. \A j \in Indices(e) : Low(j, k + 1) = Low(image, k + 1) => Low(j, k) = Low(i, k)
    BY <1>4, <1>5
  <2>4. CASE Low(x, k) # Low(i, k)
    <3>1. s.local_depths[x] = n /\ s.bucket_page_ids[x] = e.bucket_page_ids[x]
      BY <1>4, <2>1, <2>3, <2>4
    <3>2. CASE Low(y, k) = Low(i, k)
      <4>1. e.bucket_page_ids[y] # e.bucket_page_ids[x]
        BY <1>6, <2>4, <3>2
      <4>2. s.bucket_page_ids[y] # e.bucket_page_ids[x]
        BY <1>3, <1>4, <4>1
      <4> QED BY <1>4, <2>1, <2>2, <3>1, <4>1, <4>2
    <3>3. CASE Low(y, k) # Low(i, k)
      <4>1. s.local_depths[y] = e.local_depths[y] /\ s.bucket_page_ids[y] = e.bucket_page_ids[y]
        BY <1>4, <2>3, <3>3
      <4> QED BY <1>4, <2>1, <2>2, <3>1, <4>1
    <3> QED BY <3>2, <3>3
  <2>5. CASE Low(x, k) = Low(i, k)
    <3>1. s.local_depths[x] = k + 1 /\ k + 1 =< s.global_depth
      BY <1>3, <1>4, <1>5, <2>5
    <3>2. CASE Low(y, k) # Low(i, k)
      <4>1. s.bucket_page_ids[y] = e.bucket_page_ids[y] /\ Low(y, k + 1) # Low(x, k + 1)
        BY <1>4, <1>5, <2>3, <2>5, <3>2
      <4>2. e.bucket_page_ids[y] # e.bucket_page_ids[x]
        BY <1>6, <2>5, <3>2
      <4>3. s.bucket_page_ids[y] # s.bucket_page_ids[x]
        BY <1>3, <1>4, <4>1, <4>2
      <4> QED BY <3>1, <4>1, <4>3
    <3>3. CASE Low(y, k) = Low(i, k)
      <4>1. s.local_depths[y] = k + 1
        BY <1>4, <3>3
      <4>2. /\ Low(x, k + 1) \in {Low(i, k + 1), Low(image, k + 1)}
            /\ Low(y, k + 1) \in {Low(i, k + 1), Low(image, k + 1)}
        BY <1>4, <1>5, <2>5, <3>3
      <4>3. e.bucket_page_ids[x] = e.bucket_page_ids[y]
        BY <1>6, <2>5, <3>3
      <4>4. s.bucket_page_ids[y] = s.bucket_page_ids[x] <=> Low(y, k + 1) = Low(x, k + 1)
        BY <1>3, <1>4, <4>2, <4>3
      <4> QED BY <3>1, <4>1, <4>4
    <3> QED BY <3>2, <3>3
  <2> QED BY <2>4, <2>5
<1> QED BY <1>1, <1>4, <1>7 DEF Consistent
-----------------------------------------------------------------------------
(* The directory that Merge has handed the entries of the bucket at i to   *)
(* its split image in, before it shrinks it.                               *)
Merged(d, i) ==
  LET image == GetSplitImageIndex(d, i)
  IN  SetBucketPageIds(DecrLocalDepths(d, Siblings(d, i) \union Siblings(d, image)),
                       Siblings(d, i), d.bucket_page_ids[image])

(* The entries of both buckets agree in k low bits; all of them get this   *)
(* local depth and the page of the split image.                            *)
LEMMA MergeEffect ==
  ASSUME NEW d, IsDirectory(d), Consistent(d), NEW i \in Indices(d), CanMerge(d, i)
  PROVE  \E k \in Nat, image \in Indices(d) :
           LET m == Merged(d, i)
           IN  /\ image = GetSplitImageIndex(d, i)
               /\ d.local_depths[i] = k + 1
               /\ d.local_depths[image] = k + 1
               /\ Low(image, k) = Low(i, k)
               /\ Low(image, k + 1) # Low(i, k + 1)
               /\ \A j \in Nat : Low(j, k) = Low(i, k) <=>
                    Low(j, k + 1) \in {Low(i, k + 1), Low(image, k + 1)}
               /\ IsDirectory(m)
               /\ m.global_depth = d.global_depth
               /\ Indices(m) = Indices(d)
               /\ \A j \in Indices(d) :
                    /\ m.local_depths[j] = IF Low(j, k) = Low(i, k) THEN k ELSE d.local_depths[j]
                    /\ m.bucket_page_ids[j] = IF Low(j, k) = Low(i, k)
                                                THEN d.bucket_page_ids[image]
                                                ELSE d.bucket_page_ids[j]
<1>1. PICK image : image = GetSplitImageIndex(d, i)
  OBVIOUS
<1>2. PICK k \in Nat : d.local_depths[i] = k + 1 /\ k + 1 =< d.global_depth
  <2>1. d.local_depths[i] \in Nat /\ d.local_depths[i] # 0 /\ d.local_depths[i] =< d.global_depth
    BY DirectoryTypes DEF CanMerge, Consistent
  <2>2. d.local_depths[i] - 1 \in Nat /\ (d.local_depths[i] - 1) + 1 = d.local_depths[i]
    BY <2>1
  <2> QED BY <2>1, <2>2
<1>3. d.local_depths[image] = k + 1
  BY <1>1, <1>2 DEF CanMerge
<1>4. /\ image \in Indices(d)
      /\ Low(image, k) = Low(i, k)
      /\ Low(image, k + 1) # Low(i, k + 1)
      /\ \A j \in Nat : Low(j, k) = Low(i, k) <=>
           Low(j, k + 1) \in {Low(i, k + 1), Low(image, k + 1)}
  <2>1. LET m == GetSplitImageIndex(d, i)
        IN  /\ m \in Indices(d)
            /\ m # i
            /\ m % 2 ^ k = i % 2 ^ k
            /\ m % 2 ^ (k + 1) # i % 2 ^ (k + 1)
            /\ \A j \in Nat : j % 2 ^ k = i % 2 ^ k <=>
                 j % 2 ^ (k + 1) \in {i % 2 ^ (k + 1), m % 2 ^ (k + 1)}
    BY <1>2, ImageIsOtherHalf, Zenon
  <2> QED BY <1>1, <2>1, Zenon DEF Low
<1>5. /\ d.global_depth \in Nat
      /\ \A j \in Indices(d) : j \in Nat
      /\ k \in 0 .. MaxDepth
  BY <1>2, DirectoryTypes, DirectoryAssumption
<1>6. PICK moved, kept : /\ moved = Siblings(d, i)
                         /\ kept = Siblings(d, image)
                         /\ moved = {j \in Indices(d) : Low(j, k + 1) = Low(i, k + 1)}
                         /\ kept = {j \in Indices(d) : Low(j, k + 1) = Low(image, k + 1)}
  BY <1>2, <1>3, SiblingsAgree DEF Low
<1>7. PICK m : m = Merged(d, i)
  OBVIOUS
<1>8. d = [global_depth |-> d.global_depth,
           local_depths |-> d.local_depths,
           bucket_page_ids |-> d.bucket_page_ids]
  BY DirectoryShape
<1>9. m = [global_depth |-> d.global_depth,
           local_depths |-> [j \in Indices(d) |-> IF j \in moved \union kept
                                                  THEN d.local_depths[j] - 1
                                                  ELSE d.local_depths[j]],
           bucket_page_ids |-> [j \in Indices(d) |-> IF j \in moved
                                                     THEN d.bucket_page_ids[image]
                                                     ELSE d.bucket_page_ids[j]]]
  <2>1. PICK w : w = DecrLocalDepths(d, moved \union kept)
    OBVIOUS
  <2>2. w = [global_depth |-> d.global_depth,
             local_depths |-> [j \in Indices(d) |-> IF j \in moved \union kept
                                                    THEN d.local_depths[j] - 1
                                                    ELSE d.local_depths[j]],
             bucket_page_ids |-> d.bucket_page_ids]
    BY <1>8, <2>1 DEF DecrLocalDepths
  <2>3. Indices(w) = Indices(d)
    BY <2>2 DEF Indices, Size
  <2>4. m = SetBucketPageIds(w, moved, d.bucket_page_ids[image])
    BY <1>1, <1>6, <1>7, <2>1 DEF Merged
  <2>5. m = [w EXCEPT !.bucket_page_ids =
               [j \in Indices(d) |-> IF j \in moved THEN d.bucket_page_ids[image] ELSE @[j]]]
    BY <2>3, <2>4 DEF SetBucketPageIds
  <2> QED BY <2>2, <2>5
<1>10. Indices(m) = Indices(d) /\ m.global_depth = d.global_depth
  BY <1>9 DEF Indices, Size
<1>11. ASSUME NEW j \in Indices(d)
       PROVE  /\ m.local_depths[j] = IF Low(j, k) = Low(i, k) THEN k ELSE d.local_depths[j]
              /\ m.bucket_page_ids[j] = IF Low(j, k) = Low(i, k)
                                          THEN d.bucket_page_ids[image]
                                          ELSE d.bucket_page_ids[j]
  <2>1. j \in moved \union kept <=> Low(j, k) = Low(i, k)
    BY <1>4, <1>5, <1>6
  <2>2. j \in moved => d.local_depths[j] = k + 1
    <3>1. j \in moved => Low(j, d.local_depths[i]) = Low(i, d.local_depths[i])
      BY <1>2, <1>6
    <3> QED BY <1>2, <3>1 DEF Consistent
  <2>3. j \in kept => d.local_depths[j] = k + 1 /\ d.bucket_page_ids[j] = d.bucket_page_ids[image]
    <3>1. j \in kept => Low(j, d.local_depths[image]) = Low(image, d.local_depths[image])
      BY <1>3, <1>6
    <3> QED BY <1>3, <1>4, <3>1 DEF Consistent
  <2>4. (k + 1) - 1 = k
    OBVIOUS
  <2>5. m.local_depths[j] = IF j \in moved \union kept THEN d.local_depths[j] - 1
                                                       ELSE d.local_depths[j]
    BY <1>9
  <2>6. m.bucket_page_ids[j] = IF j \in moved THEN d.bucket_page_ids[image]
                                              ELSE d.bucket_page_ids[j]
    BY <1>9
  <2> QED BY <2>1, <2>2, <2>3, <2>4, <2>5, <2>6
<1>12. IsDirectory(m)
  <2>1. \A j \in Indices(d) : d.local_depths[j] \in 0 .. MaxDepth
                              /\ d.bucket_page_ids[j] \in BucketIds
    BY DirectoryShape
  <2>2. \A j \in Indices(d) : m.local_depths[j] \in 0 .. MaxDepth
                              /\ m.bucket_page_ids[j] \in BucketIds
    BY <1>4, <1>5, <1>11, <2>1
  <2>3. m.local_depths \in [Indices(m) -> 0 .. MaxDepth]
    BY <1>9, <1>10, <2>2
  <2>4. m.bucket_page_ids \in [Indices(m) -> BucketIds]
    BY <1>9, <1>10, <2>2
  <2>5. m.global_depth \in 0 .. MaxDepth
    BY <1>10, DirectoryShape
  <2>6. m = [global_depth |-> m.global_depth,
             local_depths |-> m.local_depths,
             bucket_page_ids |-> m.bucket_page_ids]
    BY <1>9
  <2> QED BY <2>3, <2>4, <2>5, <2>6, DirectoryShape
<1> QED BY <1>1, <1>2, <1>3, <1>4, <1>7, <1>10, <1>11, <1>12

LEMMA MergedIsConsistent ==
  ASSUME NEW d, IsDirectory(d), Consistent(d), NEW i \in Indices(d), CanMerge(d, i)
  PROVE  Consistent(Merged(d, i))
<1>1. PICK m : m = Merged(d, i)
  OBVIOUS
<1>2. PICK k \in Nat, image \in Indices(d) :
        /\ d.local_depths[i] = k + 1
        /\ d.local_depths[image] = k + 1
        /\ Low(image, k) = Low(i, k)
        /\ \A j \in Nat : Low(j, k) = Low(i, k) <=>
             Low(j, k + 1) \in {Low(i, k + 1), Low(image, k + 1)}
        /\ m.global_depth = d.global_depth
        /\ Indices(m) = Indices(d)
        /\ \A j \in Indices(d) :
             /\ m.local_depths[j] = IF Low(j, k) = Low(i, k) THEN k ELSE d.local_depths[j]
             /\ m.bucket_page_ids[j] = IF Low(j, k) = Low(i, k)
                                         THEN d.bucket_page_ids[image]
                                         ELSE d.bucket_page_ids[j]
  BY <1>1, MergeEffect
<1>3. /\ d.global_depth \in Nat
      /\ k + 1 =< d.global_depth
      /\ \A j \in Indices(d) : j \in Nat /\ d.local_depths[j] \in Nat
  BY <1>2, DirectoryTypes DEF Consistent
<1>4. ASSUME NEW j \in Indices(d)
      PROVE  /\ d.bucket_page_ids[j] = d.bucket_page_ids[image] => Low(j, k) = Low(i, k)
             /\ Low(j, k) = Low(i, k) => d.local_depths[j] = k + 1
  <2>1. /\ d.bucket_page_ids[j] = d.bucket_page_ids[image] <=> Low(j, k + 1) = Low(image, k + 1)
        /\ d.bucket_page_ids[j] = d.bucket_page_ids[i] <=> Low(j, k + 1) = Low(i, k + 1)
        /\ d.bucket_page_ids[j] = d.bucket_page_ids[image] => d.local_depths[j] = k + 1
        /\ d.bucket_page_ids[j] = d.bucket_page_ids[i] => d.local_depths[j] = k + 1
    BY <1>2 DEF Consistent
  <2>2. Low(j, k) = Low(i, k) <=> Low(j, k + 1) \in {Low(i, k + 1), Low(image, k + 1)}
    BY <1>2, <1>3
  <2> QED BY <2>1, <2>2
<1>5. ASSUME NEW x \in Indices(d), NEW y \in Indices(d)
      PROVE  /\ m.local_depths[x] =< m.global_depth
             /\ m.bucket_page_ids[y] = m.bucket_page_ids[x]
                  <=> Low(y, m.local_depths[x]) = Low(x, m.local_depths[x])
             /\ m.bucket_page_ids[y] = m.bucket_page_ids[x]
                  => m.local_depths[y] = m.local_depths[x]
  <2>1. PICK n \in Nat : n = d.local_depths[x] /\ n =< d.global_depth
    BY <1>3 DEF Consistent
  <2>2. /\ d.bucket_page_ids[y] = d.bucket_page_ids[x] <=> Low(y, n) = Low(x, n)
        /\ d.bucket_page_ids[y] = d.bucket_page_ids[x] => d.local_depths[y] = n
    BY <2>1 DEF Consistent
  <2>3. CASE Low(x, k) = Low(i, k)
    <3>1. m.local_depths[x] = k /\ m.bucket_page_ids[x] = d.bucket_page_ids[image]
      BY <1>2, <2>3
    <3>2. k =< m.global_depth
      BY <1>2, <1>3
    <3>3. CASE Low(y, k) = Low(i, k)
      <4>1. m.local_depths[y] = k /\ m.bucket_page_ids[y] = d.bucket_page_ids[image]
        BY <1>2, <3>3
      <4> QED BY <2>3, <3>1, <3>2, <3>3, <4>1
    <3>4. CASE Low(y, k) # Low(i, k)
      <4>1. m.bucket_page_ids[y] # d.bucket_page_ids[image]
        BY <1>2, <1>4, <3>4
      <4> QED BY <2>3, <3>1, <3>2, <3>4, <4>1
    <3> QED BY <3>3, <3>4
  <2>4. CASE Low(x, k) # Low(i, k)
    <3>1. m.local_depths[x] = n /\ m.bucket_page_ids[x] = d.bucket_page_ids[x]
      BY <1>2, <2>1, <2>4
    <3>2. CASE Low(y, k) # Low(i, k)
      <4>1. m.local_depths[y] = d.local_depths[y] /\ m.bucket_page_ids[y] = d.bucket_page_ids[y]
        BY <1>2, <3>2
      <4> QED BY <1>2, <2>1, <2>2, <3>1, <4>1
    <3>3. CASE Low(y, k) = Low(i, k)
      <4>1. m.bucket_page_ids[y] = d.bucket_page_ids[image]
        BY <1>2, <3>3
      <4>2. d.bucket_page_ids[x] # d.bucket_page_ids[image]
        BY <1>4, <2>4
      <4>3. ASSUME Low(y, n) = Low(x, n) PROVE FALSE
        <5>1. n = k + 1
          BY <1>4, <2>2, <3>3, <4>3
        <5>2. Low(y, k) = Low(x, k)
          BY <1>3, <4>3, <5>1, FewerBits
        <5> QED BY <2>4, <3>3, <5>2
      <4> QED BY <1>2, <2>1, <3>1, <4>1, <4>2, <4>3
    <3> QED BY <3>2, <3>3
  <2> QED BY <2>3, <2>4
<1> QED BY <1>1, <1>2, <1>5 DEF Consistent

(* The greatest element of a set of numbers that has a bound.              *)
LEMMA GreatestNumber ==
  ASSUME NEW n \in Nat, NEW S, S \subseteq 0 .. n, S # {}
  PROVE  Max(S) \in S /\ \A y \in S : Max(S) >= y
<1> DEFINE T == {n - x : x \in S}
<1>1. T \subseteq Nat /\ T # {}
  OBVIOUS
<1>2. PICK t \in T : \A u \in T : t =< u
  <2> HIDE DEF T
  <2> QED BY <1>1, LeastNumber
<1>3. PICK x \in S : t = n - x
  BY <1>2
<1>4. \A y \in S : x >= y
  <2> SUFFICES ASSUME NEW y \in S PROVE x >= y
    OBVIOUS
  <2>1. t =< n - y
    BY <1>2
  <2>2. x \in 0 .. n /\ y \in 0 .. n
    OBVIOUS
  <2> QED BY <1>3, <2>1, <2>2
<1> QED BY <1>4 DEF Max

(* Merge makes the directory as small as its deepest bucket allows.        *)
LEMMA ShrunkEffect ==
  ASSUME NEW d, IsDirectory(d), Consistent(d)
  PROVE  \E g \in Nat : /\ g =< d.global_depth
                        /\ Shrunk(d) = WithGlobalDepth(d, g)
                        /\ IsDirectory(Shrunk(d))
                        /\ Consistent(Shrunk(d))
                        /\ \E i \in Indices(Shrunk(d)) : Shrunk(d).local_depths[i] = g
<1>1. PICK n \in Nat : n = d.global_depth /\ n =< MaxDepth /\ MaxDepth \in Nat
  BY DirectoryTypes, DirectoryAssumption
<1>2. PICK S : S = {g \in 0 .. n : ~CanShrink(d, g)}
  OBVIOUS
<1>3. 0 \in S
  <2>1. 0 \in 0 .. 2 ^ 0 - 1
    BY PowerIsPositive
  <2>2. ~(d.local_depths[0] < 0)
    BY DirectoryTypes
  <2> QED BY <1>2, <2>1, <2>2 DEF CanShrink
<1>4. PICK g \in Nat : g = Max(S) /\ g =< n /\ g \in S /\ \A y \in S : g >= y
  <2>1. S \subseteq 0 .. n
    BY <1>2
  <2>2. S # {}
    BY <1>3
  <2>3. Max(S) \in S /\ \A y \in S : Max(S) >= y
    BY <2>1, <2>2, GreatestNumber
  <2>4. Max(S) \in 0 .. n
    BY <2>1, <2>3
  <2>5. Max(S) \in Nat /\ Max(S) =< n
    BY <2>4
  <2> QED BY <2>3, <2>5
<1>5. PICK r : r = Shrunk(d) /\ r = WithGlobalDepth(d, g)
  BY <1>1, <1>2, <1>4 DEF Shrunk
<1>6. /\ IsDirectory(r)
      /\ r.global_depth = g
      /\ \A j \in Indices(r) : j \in Indices(d) /\ r.local_depths[j] = d.local_depths[j]
  <2>1. g =< MaxDepth
    BY <1>1, <1>4
  <2>2. /\ IsDirectory(r)
        /\ r.global_depth = g
        /\ \A j \in Indices(r) : r.local_depths[j] = d.local_depths[Low(j, d.global_depth)]
    BY <1>5, <2>1, Resized
  <2>3. g =< d.global_depth
    BY <1>1, <1>4
  <2>4. \A j \in Indices(r) : j \in Indices(d) /\ Low(j, d.global_depth) = j
    BY <1>5, <2>1, <2>3, Resized
  <2> QED BY <2>2, <2>4
<1>7. \A j : j \in Indices(r) <=> j \in 0 .. 2 ^ g - 1
  BY <1>6 DEF Indices, Size
<1>8. \A j \in Indices(r) : d.local_depths[j] \in Nat /\ d.local_depths[j] =< g
  <2> SUFFICES ASSUME NEW j \in Indices(r) PROVE d.local_depths[j] \in Nat /\ d.local_depths[j] =< g
    OBVIOUS
  <2>1. d.local_depths[j] \in Nat /\ d.local_depths[j] =< n
    BY <1>1, <1>6, DirectoryTypes DEF Consistent
  <2>2. CASE g = n
    BY <2>1, <2>2
  <2>3. CASE g # n
    <3>1. CanShrink(d, g + 1)
      <4>1. g + 1 \in 0 .. n /\ g + 1 \notin S
        BY <1>4, <2>3
      <4> QED BY <1>2, <4>1
    <3>2. j \in 0 .. 2 ^ (g + 1) - 1
      <4>1. 2 ^ (g + 1) = 2 * 2 ^ g /\ 2 ^ g \in Nat
        BY PowerDoubles, PowerIsPositive
      <4> QED BY <1>7, <4>1
    <3>3. d.local_depths[j] < g + 1
      BY <3>1, <3>2 DEF CanShrink
    <3> QED BY <2>1, <3>3
  <2> QED BY <2>2, <2>3
<1>9. Consistent(r)
  <2>1. g =< MaxDepth /\ \A j \in Indices(r) : r.local_depths[j] =< g
    BY <1>1, <1>4, <1>6, <1>8
  <2> QED BY <1>5, <2>1, ResizedIsConsistent
<1>10. \E i \in Indices(r) : r.local_depths[i] = g
  <2>1. ~CanShrink(d, g)
    BY <1>2, <1>4
  <2>2. PICK i \in 0 .. 2 ^ g - 1 : ~(d.local_depths[i] < g)
    BY <2>1 DEF CanShrink
  <2>3. i \in Indices(r) /\ d.local_depths[i] = g
    BY <1>7, <1>8, <2>2
  <2> QED BY <1>6, <2>3
<1> QED BY <1>1, <1>4, <1>5, <1>6, <1>9, <1>10
-----------------------------------------------------------------------------
(* The entry a hash leads to.                                              *)
LEMMA LeadsTo ==
  ASSUME NEW d, IsDirectory(d), NEW h \in Nat
  PROVE  /\ HashToIndex(d, h) = Low(h, d.global_depth)
         /\ Low(h, d.global_depth) \in Indices(d)
         /\ h \in Indices(d) => Low(h, d.global_depth) = h
<1>1. PICK n \in Nat : n = d.global_depth
  BY DirectoryTypes
<1>2. Low(h, n) \in 0 .. 2 ^ n - 1 /\ (h < 2 ^ n => Low(h, n) = h)
  BY LowFacts
<1>3. Indices(d) = 0 .. 2 ^ n - 1 /\ Size(d) = 2 ^ n /\ 2 ^ n \in Nat
  BY <1>1, PowerIsPositive DEF Indices, Size
<1> QED BY <1>1, <1>2, <1>3 DEF HashToIndex, Low

(* At another global depth every hash leads to the same bucket.            *)
LEMMA ResizedLeadsTo ==
  ASSUME NEW d, IsDirectory(d), Consistent(d), NEW g \in Nat, g =< MaxDepth,
         \A j \in Indices(WithGlobalDepth(d, g)) : WithGlobalDepth(d, g).local_depths[j] =< g,
         NEW h \in Nat
  PROVE  LET r == WithGlobalDepth(d, g)
         IN  /\ r.local_depths[Low(h, g)] = d.local_depths[Low(h, d.global_depth)]
             /\ r.bucket_page_ids[Low(h, g)] = d.bucket_page_ids[Low(h, d.global_depth)]
<1>1. PICK r : r = WithGlobalDepth(d, g)
  OBVIOUS
<1>2. PICK n \in Nat : n = d.global_depth
  BY DirectoryTypes
<1>3. /\ IsDirectory(r)
      /\ r.global_depth = g
      /\ \A j \in Indices(r) :
           /\ j \in Nat
           /\ Low(j, n) \in Indices(d)
           /\ r.local_depths[j] = d.local_depths[Low(j, n)]
           /\ r.bucket_page_ids[j] = d.bucket_page_ids[Low(j, n)]
  BY <1>1, <1>2, Resized
<1>4. PICK x \in Indices(r) : x = Low(h, g)
  BY <1>3, LeadsTo
<1>5. PICK y \in Indices(d) : y = Low(h, n)
  BY <1>2, LeadsTo
<1>6. PICK z \in Indices(d) : z = Low(x, n)
  BY <1>3, <1>4
<1>7. PICK k \in Nat : k = d.local_depths[z] /\ k =< n
  BY <1>2, DirectoryTypes DEF Consistent
<1>8. k =< g
  BY <1>1, <1>3, <1>6, <1>7
<1>9. Low(y, k) = Low(z, k)
  <2>1. x \in Nat
    BY <1>3
  <2>2. Low(y, k) = Low(h, k) /\ Low(x, k) = Low(h, k) /\ Low(z, k) = Low(x, k)
    BY <1>4, <1>5, <1>6, <1>7, <1>8, <2>1, LowOfLow
  <2> QED BY <2>2
<1>10. d.bucket_page_ids[y] = d.bucket_page_ids[z] /\ d.local_depths[y] = d.local_depths[z]
  BY <1>7, <1>9 DEF Consistent
<1> QED BY <1>1, <1>2, <1>3, <1>4, <1>5, <1>6, <1>10

(* A new directory.                                                        *)
LEMMA NewDirectoryEffect ==
  ASSUME NEW p \in BucketIds
  PROVE  LET d == NewDirectory(p)
         IN  /\ IsDirectory(d) /\ Consistent(d)
             /\ Indices(d) = {0}
             /\ d.global_depth = 0
             /\ d.local_depths[0] = 0
             /\ d.bucket_page_ids[0] = p
<1>1. PICK d : d = NewDirectory(p)
  OBVIOUS
<1>2. d.global_depth = 0 /\ d.local_depths = [i \in {0} |-> 0] /\ d.bucket_page_ids = [i \in {0} |-> p]
  BY <1>1 DEF NewDirectory
<1>3. Indices(d) = {0}
  BY <1>2 DEF Indices, Size
<1>4. IsDirectory(d)
  <2>1. 0 \in 0 .. MaxDepth
    BY DirectoryAssumption
  <2>2. d.local_depths \in [{0} -> 0 .. MaxDepth] /\ d.bucket_page_ids \in [{0} -> BucketIds]
    BY <1>2, <2>1
  <2>3. d = [global_depth |-> d.global_depth,
             local_depths |-> d.local_depths,
             bucket_page_ids |-> d.bucket_page_ids]
    BY <1>1 DEF NewDirectory
  <2> QED BY <1>2, <1>3, <2>1, <2>2, <2>3, DirectoryShape
<1>5. Consistent(d)
  BY <1>2, <1>3 DEF Consistent
<1> QED BY <1>1, <1>2, <1>3, <1>4, <1>5
-----------------------------------------------------------------------------
(* How many entries agree in k of g bits.                                  *)
LEMMA ClassCount ==
  ASSUME NEW k \in Nat, NEW g \in Nat, k =< g, NEW i \in Nat
  PROVE  Cardinality({j \in 0 .. 2 ^ g - 1 : Low(j, k) = Low(i, k)}) = 2 ^ (g - k)
<1>1. PICK l \in Nat : l = g - k /\ g = k + l
  OBVIOUS
<1>2. PICK M \in Nat \ {0}, P \in Nat \ {0} : M = 2 ^ k /\ P = 2 ^ l /\ 2 ^ g = M * P
  <2>1. 2 ^ g = 2 ^ k * 2 ^ l
    BY <1>1, PowersMultiply
  <2> QED BY <2>1, PowerIsPositive
<1>3. PICK r \in 0 .. M - 1 : r = Low(i, k)
  BY <1>2, LowFacts
<1> DEFINE S == {j \in 0 .. 2 ^ g - 1 : Low(j, k) = Low(i, k)}
           f == [n \in 0 .. P - 1 |-> M * n + r]
<1>4. ASSUME NEW n \in 0 .. P - 1 PROVE f[n] \in S
  <2>1. M * n + r \in Nat /\ (M * n + r) % M = r
    OBVIOUS
  <2>2. M * n + r < M * P
    <3>1. M * (n + 1) =< M * P
      OBVIOUS
    <3>2. M * (n + 1) = M * n + M
      OBVIOUS
    <3> QED BY <3>1, <3>2
  <2>3. Low(M * n + r, k) = r
    BY <1>2, <2>1 DEF Low
  <2>4. M * n + r \in 0 .. 2 ^ g - 1
    BY <1>2, <2>1, <2>2
  <2>5. f[n] = M * n + r
    OBVIOUS
  <2> QED BY <1>3, <2>3, <2>4, <2>5
<1>5. ASSUME NEW m \in 0 .. P - 1, NEW n \in 0 .. P - 1, f[m] = f[n] PROVE m = n
  <2>1. M * m + r = M * n + r
    BY <1>5
  <2>2. M * (m - n) = 0
    BY <2>1
  <2>3. m - n \in Int /\ \A x \in Int : M * x = 0 => x = 0
    OBVIOUS
  <2> QED BY <2>2, <2>3
<1>6. ASSUME NEW j \in S PROVE \E n \in 0 .. P - 1 : f[n] = j
  <2>1. j \in Nat /\ j < M * P /\ j % M = r
    <3>1. j \in 0 .. 2 ^ g - 1 /\ Low(j, k) = r
      BY <1>3
    <3> QED BY <1>2, <3>1 DEF Low
  <2>2. PICK q \in Nat : j = M * q + r
    BY <2>1, Division
  <2>3. q < P
    <3>1. q >= P => M * q >= M * P
      OBVIOUS
    <3> QED BY <2>1, <2>2, <3>1
  <2> QED BY <2>2, <2>3
<1>7. f \in Bijection(0 .. P - 1, S)
  <2>1. f \in [0 .. P - 1 -> S]
    BY <1>4
  <2> HIDE DEF f, S
  <2> QED BY <1>5, <1>6, <2>1 DEF Bijection, Injection, Surjection, IsInjective
<1>8. IsFiniteSet(0 .. P - 1) /\ Cardinality(0 .. P - 1) = P
  <2>1. 0 \in Int /\ P - 1 \in Int /\ P - 1 - 0 + 1 = P /\ 0 =< P - 1
    OBVIOUS
  <2> QED BY <2>1, FS_Interval
<1> HIDE DEF f, S
<1>9. Cardinality(S) = P
  <2>1. ExistsBijection(0 .. P - 1, S)
    BY <1>7 DEF ExistsBijection
  <2> QED BY <1>8, <2>1, FS_Bijection
<1> QED BY <1>1, <1>2, <1>9 DEF S

(* A consistent directory passes the assertions of VerifyIntegrity.        *)
LEMMA ConsistentIsIntegral ==
  ASSUME NEW d, IsDirectory(d), Consistent(d)
  PROVE  VerifyIntegrity(d)
<1> SUFFICES ASSUME NEW i \in Indices(d)
             PROVE  LET Same == {j \in Indices(d) : d.bucket_page_ids[j] = d.bucket_page_ids[i]}
                    IN  /\ d.local_depths[i] <= d.global_depth
                        /\ \A j \in Same : d.local_depths[j] = d.local_depths[i]
                        /\ Cardinality(Same) = 2 ^ (d.global_depth - d.local_depths[i])
  BY DEF VerifyIntegrity
<1>1. PICK g \in Nat, k \in Nat : g = d.global_depth /\ k = d.local_depths[i] /\ k =< g
  <2>1. d.global_depth \in Nat /\ d.local_depths[i] \in Nat /\ d.local_depths[i] =< d.global_depth
    BY DirectoryTypes DEF Consistent
  <2> QED BY <2>1
<1>2. Indices(d) = 0 .. 2 ^ g - 1 /\ i \in Nat
  BY <1>1, DirectoryTypes DEF Indices, Size
<1>3. PICK Same : Same = {j \in Indices(d) : d.bucket_page_ids[j] = d.bucket_page_ids[i]}
  OBVIOUS
<1>4. Same = {j \in 0 .. 2 ^ g - 1 : Low(j, k) = Low(i, k)}
  BY <1>1, <1>2, <1>3 DEF Consistent
<1>5. Cardinality(Same) = 2 ^ (g - k)
  BY <1>1, <1>2, <1>4, ClassCount
<1>6. \A j \in Same : d.local_depths[j] = d.local_depths[i]
  BY <1>3 DEF Consistent
<1> QED BY <1>1, <1>3, <1>5, <1>6
-----------------------------------------------------------------------------
(* One more bit is 0 or 1.                                                 *)
LEMMA NextBit ==
  ASSUME NEW k \in Nat, NEW i \in Nat
  PROVE  \E bit \in {0, 1} : Low(i, k + 1) = Low(i, k) + bit * 2 ^ k
<1>1. PICK M \in Nat \ {0} : M = 2 ^ k /\ 2 ^ (k + 1) = 2 * M
  BY PowerIsPositive, PowerDoubles
<1>2. PICK q \in Nat, r \in 0 .. M - 1 : i = M * q + r /\ i % M = r
  BY Division
<1>3. PICK e \in Nat, bit \in {0, 1} : q = 2 * e + bit
  <2>1. q \div 2 \in Nat /\ q - 2 * (q \div 2) \in {0, 1}
    OBVIOUS
  <2>2. PICK e \in Nat : q - 2 * e \in {0, 1}
    BY <2>1
  <2> QED BY <2>2
<1>4. PICK R \in Nat : R = r + bit * M /\ R < 2 * M
  <2>1. bit = 0 \/ bit = 1
    OBVIOUS
  <2>2. r + 0 * M = r /\ r + 1 * M = r + M
    OBVIOUS
  <2> QED BY <2>1, <2>2
<1>5. PICK N \in Nat \ {0} : N = 2 * M
  OBVIOUS
<1>6. i = N * e + R
  <2>1. bit = 0 \/ bit = 1
    OBVIOUS
  <2>2. M * (2 * e + 0) = N * e /\ M * (2 * e + 1) = N * e + M /\ 0 * M = 0 /\ 1 * M = M
    BY <1>5
  <2> QED BY <1>2, <1>3, <1>4, <2>1, <2>2
<1>7. i % N = R
  <2>1. R \in 0 .. N - 1
    BY <1>4, <1>5
  <2>2. (N * e + R) % N = R
    BY <2>1
  <2> QED BY <1>6, <2>2
<1>8. Low(i, k + 1) = i % N /\ Low(i, k) = i % M
  BY <1>1, <1>5 DEF Low
<1> QED BY <1>1, <1>2, <1>4, <1>7, <1>8

(* Two numbers that first differ in this bit.                              *)
LEMMA OtherBit ==
  ASSUME NEW k \in Nat, NEW i \in Nat, NEW j \in Nat,
         Low(j, k) = Low(i, k), Low(j, k + 1) # Low(i, k + 1)
  PROVE  \E bit \in {0, 1} : /\ Low(i, k + 1) = Low(i, k) + bit * 2 ^ k
                             /\ Low(j, k + 1) = Low(i, k) + (1 - bit) * 2 ^ k
<1>1. PICK bit \in {0, 1} : Low(i, k + 1) = Low(i, k) + bit * 2 ^ k
  BY NextBit
<1>2. PICK other \in {0, 1} : Low(j, k + 1) = Low(i, k) + other * 2 ^ k
  BY NextBit
<1>3. other # bit
  BY <1>1, <1>2
<1>4. other = 1 - bit
  BY <1>3
<1> QED BY <1>1, <1>2, <1>4
-----------------------------------------------------------------------------
(* The leaves of the trie the directory stands for.                        *)
LeavesOf(d) ==
  {<<d.local_depths[i], i % 2 ^ d.local_depths[i], d.bucket_page_ids[i]>> : i \in Indices(d)}

LeafAt(d, i) == <<d.local_depths[i], Low(i, d.local_depths[i]), d.bucket_page_ids[i]>>

LEMMA Leaves ==
  ASSUME NEW d
  PROVE  /\ \A i \in Indices(d) : LeafAt(d, i) \in LeavesOf(d)
         /\ \A leaf \in LeavesOf(d) : \E i \in Indices(d) : leaf = LeafAt(d, i)
BY DEF LeavesOf, LeafAt, Low

(* They do not depend on the global depth.                                 *)
LEMMA ResizedLeaves ==
  ASSUME NEW d, IsDirectory(d), Consistent(d), NEW g \in Nat, g =< MaxDepth,
         \A j \in Indices(WithGlobalDepth(d, g)) : WithGlobalDepth(d, g).local_depths[j] =< g
  PROVE  LeavesOf(WithGlobalDepth(d, g)) = LeavesOf(d)
<1>1. PICK r : r = WithGlobalDepth(d, g)
  OBVIOUS
<1>2. PICK n \in Nat : n = d.global_depth
  BY DirectoryTypes
<1>3. /\ IsDirectory(r)
      /\ r.global_depth = g
      /\ \A j \in Indices(r) :
           /\ j \in Nat
           /\ Low(j, n) \in Indices(d)
           /\ r.local_depths[j] = d.local_depths[Low(j, n)]
           /\ r.bucket_page_ids[j] = d.bucket_page_ids[Low(j, n)]
  BY <1>1, <1>2, Resized
<1>4. ASSUME NEW x \in Indices(r) PROVE LeafAt(r, x) \in LeavesOf(d)
  <2>1. PICK z \in Indices(d) : z = Low(x, n)
    BY <1>3
  <2>2. PICK k \in Nat : k = d.local_depths[z] /\ k =< n
    BY <1>2, DirectoryTypes DEF Consistent
  <2>3. Low(z, k) = Low(x, k)
    BY <1>3, <2>1, <2>2, LowOfLow
  <2>4. LeafAt(r, x) = LeafAt(d, z)
    BY <1>3, <2>1, <2>2, <2>3 DEF LeafAt
  <2> QED BY <2>4, Leaves
<1>5. ASSUME NEW y \in Indices(d) PROVE LeafAt(d, y) \in LeavesOf(r)
  <2>1. y \in Nat /\ Low(y, n) = y
    BY <1>2, DirectoryTypes, LeadsTo
  <2>2. PICK x \in Indices(r) : x = Low(y, g)
    BY <1>3, <2>1, LeadsTo
  <2>3. r.local_depths[x] = d.local_depths[y] /\ r.bucket_page_ids[x] = d.bucket_page_ids[y]
    BY <1>1, <1>2, <2>1, <2>2, ResizedLeadsTo
  <2>4. PICK k \in Nat : k = d.local_depths[y] /\ k =< g
    <3>1. d.local_depths[y] \in Nat
      BY DirectoryTypes
    <3> QED BY <1>1, <2>2, <2>3, <3>1
  <2>5. Low(x, k) = Low(y, k)
    BY <2>1, <2>2, <2>4, LowOfLow
  <2>6. LeafAt(r, x) = LeafAt(d, y)
    BY <2>3, <2>4, <2>5 DEF LeafAt
  <2> QED BY <2>6, Leaves
<1>6. LeavesOf(r) \subseteq LeavesOf(d)
  BY <1>4, Leaves
<1>7. LeavesOf(d) \subseteq LeavesOf(r)
  BY <1>5, Leaves
<1> QED BY <1>1, <1>6, <1>7

(* A split replaces the leaf at i by two.                                  *)
LEMMA SplitLeaves ==
  ASSUME NEW d, IsDirectory(d), Consistent(d), NEW i \in Indices(d), ~CannotSplit(d, i),
         NEW p \in BucketIds, NEW k \in Nat, k = d.local_depths[i]
  PROVE  \E bit \in {0, 1} :
           LeavesOf(SplitDirectory(d, i, p)) =
             (LeavesOf(d) \ {LeafAt(d, i)})
               \union {<<k + 1, Low(i, k) + bit * 2 ^ k, d.bucket_page_ids[i]>>,
                       <<k + 1, Low(i, k) + (1 - bit) * 2 ^ k, p>>}
<1>1. PICK e, s : e = Grown(d, i) /\ s = SplitDirectory(d, i, p)
  OBVIOUS
<1>2. PICK image : image = GetSplitImageIndex(s, i)
  OBVIOUS
<1>3. /\ IsDirectory(e) /\ Consistent(e)
      /\ i \in Indices(e)
      /\ e.local_depths[i] = k
      /\ \A j \in Indices(e) :
           /\ Low(j, d.global_depth) \in Indices(d)
           /\ e.bucket_page_ids[j] = d.bucket_page_ids[Low(j, d.global_depth)]
      /\ \A j \in Indices(d) : Low(j, d.global_depth) = j
  BY <1>1, GrownEffect
<1>4. /\ Indices(s) = Indices(e)
      /\ image \in Indices(e)
      /\ Low(image, k) = Low(i, k)
      /\ Low(image, k + 1) # Low(i, k + 1)
      /\ \A j \in Nat : Low(j, k) = Low(i, k) <=>
           Low(j, k + 1) \in {Low(i, k + 1), Low(image, k + 1)}
      /\ \A j \in Indices(e) :
           /\ s.local_depths[j] = IF Low(j, k) = Low(i, k) THEN k + 1 ELSE e.local_depths[j]
           /\ s.bucket_page_ids[j] = IF Low(j, k + 1) = Low(image, k + 1)
                                       THEN p ELSE e.bucket_page_ids[j]
  BY <1>1, <1>2, SplitEffect
<1>5. \A j \in Indices(e) : j \in Nat
  BY <1>3, DirectoryTypes
<1>6. PICK q : q = d.bucket_page_ids[i] /\ e.bucket_page_ids[i] = q
  BY <1>3
<1>7. LeavesOf(e) = LeavesOf(d)
  <2>1. CASE d.local_depths[i] < d.global_depth
    BY <1>1, <2>1 DEF Grown
  <2>2. CASE ~(d.local_depths[i] < d.global_depth)
    <3>1. PICK g \in Nat : g = d.global_depth + 1 /\ g =< MaxDepth
      BY <2>2, RoomToSplit, DirectoryTypes, DirectoryAssumption
    <3>2. e = WithGlobalDepth(d, g)
      BY <1>1, <2>2, <3>1 DEF Grown, IncrGlobalDepth
    <3>3. e.global_depth = g
      BY <3>2 DEF WithGlobalDepth
    <3>4. \A j \in Indices(e) : e.local_depths[j] =< g
      BY <1>3, <3>3 DEF Consistent
    <3> QED BY <3>1, <3>2, <3>4, ResizedLeaves
  <2> QED BY <2>1, <2>2
<1>8. PICK old, near, far : /\ old = <<k, Low(i, k), q>>
                            /\ near = <<k + 1, Low(i, k + 1), q>>
                            /\ far = <<k + 1, Low(image, k + 1), p>>
  OBVIOUS
<1>9. LeafAt(d, i) = old /\ LeafAt(e, i) = old
  BY <1>3, <1>6, <1>8 DEF LeafAt
<1>10. ASSUME NEW j \in Indices(e), Low(j, k) = Low(i, k)
       PROVE  LeafAt(e, j) = old /\ LeafAt(s, j) \in {near, far}
  <2>1. e.local_depths[j] = k /\ e.bucket_page_ids[j] = q
    BY <1>3, <1>6, <1>10 DEF Consistent
  <2>2. LeafAt(e, j) = old
    BY <1>8, <1>10, <2>1 DEF LeafAt
  <2>3. s.local_depths[j] = k + 1 /\ Low(j, k + 1) \in {Low(i, k + 1), Low(image, k + 1)}
    BY <1>4, <1>5, <1>10
  <2>4. LeafAt(s, j) \in {near, far}
    BY <1>4, <1>8, <2>1, <2>3 DEF LeafAt
  <2> QED BY <2>2, <2>4
<1>11. ASSUME NEW j \in Indices(e), Low(j, k) # Low(i, k)
       PROVE  LeafAt(e, j) # old /\ LeafAt(s, j) = LeafAt(e, j)
  <2>1. e.bucket_page_ids[j] # q
    BY <1>3, <1>6, <1>11 DEF Consistent
  <2>2. LeafAt(e, j) # old
    BY <1>8, <2>1 DEF LeafAt
  <2>3. s.local_depths[j] = e.local_depths[j] /\ s.bucket_page_ids[j] = e.bucket_page_ids[j]
    BY <1>4, <1>5, <1>11
  <2>4. LeafAt(s, j) = LeafAt(e, j)
    BY <2>3 DEF LeafAt
  <2> QED BY <2>2, <2>4
<1>12. LeafAt(s, i) = near /\ LeafAt(s, image) = far
  BY <1>3, <1>4, <1>6, <1>8 DEF LeafAt
<1>13. LeavesOf(s) = (LeavesOf(e) \ {old}) \union {near, far}
  <2>1. ASSUME NEW leaf \in LeavesOf(s) PROVE leaf \in (LeavesOf(e) \ {old}) \union {near, far}
    <3>1. PICK j \in Indices(e) : leaf = LeafAt(s, j)
      BY <1>4, Leaves
    <3> QED BY <1>10, <1>11, <3>1, Leaves
  <2>2. ASSUME NEW leaf \in LeavesOf(e), leaf # old PROVE leaf \in LeavesOf(s)
    <3>1. PICK j \in Indices(e) : leaf = LeafAt(e, j)
      BY Leaves
    <3>2. leaf = LeafAt(s, j)
      BY <1>10, <1>11, <2>2, <3>1
    <3> QED BY <1>4, <3>2, Leaves
  <2>3. near \in LeavesOf(s) /\ far \in LeavesOf(s)
    BY <1>3, <1>4, <1>12, Leaves
  <2> QED BY <2>1, <2>2, <2>3
<1>14. PICK bit \in {0, 1} : /\ Low(i, k + 1) = Low(i, k) + bit * 2 ^ k
                             /\ Low(image, k + 1) = Low(i, k) + (1 - bit) * 2 ^ k
  BY <1>3, <1>4, <1>5, OtherBit
<1> QED BY <1>1, <1>6, <1>7, <1>8, <1>9, <1>13, <1>14

(* A merge replaces the leaves at i and at its split image by one.         *)
LEMMA MergeLeaves ==
  ASSUME NEW d, IsDirectory(d), Consistent(d), NEW i \in Indices(d), CanMerge(d, i)
  PROVE  \E k \in Nat, image \in Indices(d) :
           /\ d.local_depths[i] = k + 1
           /\ d.local_depths[image] = k + 1
           /\ Low(image, k) = Low(i, k)
           /\ Low(image, k + 1) # Low(i, k + 1)
           /\ LeavesOf(MergeDirectory(d, i)) =
                (LeavesOf(d) \ {LeafAt(d, i), LeafAt(d, image)})
                  \union {<<k, Low(i, k), d.bucket_page_ids[image]>>}
<1>1. PICK m : m = Merged(d, i) /\ MergeDirectory(d, i) = Shrunk(m)
  BY DEF MergeDirectory, Merged
<1>2. PICK k \in Nat, image \in Indices(d) :
        /\ d.local_depths[i] = k + 1
        /\ d.local_depths[image] = k + 1
        /\ Low(image, k) = Low(i, k)
        /\ Low(image, k + 1) # Low(i, k + 1)
        /\ \A j \in Nat : Low(j, k) = Low(i, k) <=>
             Low(j, k + 1) \in {Low(i, k + 1), Low(image, k + 1)}
        /\ IsDirectory(m)
        /\ m.global_depth = d.global_depth
        /\ Indices(m) = Indices(d)
        /\ \A j \in Indices(d) :
             /\ m.local_depths[j] = IF Low(j, k) = Low(i, k) THEN k ELSE d.local_depths[j]
             /\ m.bucket_page_ids[j] = IF Low(j, k) = Low(i, k)
                                         THEN d.bucket_page_ids[image]
                                         ELSE d.bucket_page_ids[j]
  BY <1>1, MergeEffect
<1>3. Consistent(m)
  BY <1>1, MergedIsConsistent
<1>4. LeavesOf(Shrunk(m)) = LeavesOf(m)
  <2>1. PICK g \in Nat : g =< m.global_depth /\ Shrunk(m) = WithGlobalDepth(m, g)
                         /\ Consistent(Shrunk(m))
    BY <1>2, <1>3, ShrunkEffect
  <2>2. g =< MaxDepth
    BY <1>2, <2>1, DirectoryTypes, DirectoryAssumption
  <2>3. \A j \in Indices(WithGlobalDepth(m, g)) : WithGlobalDepth(m, g).local_depths[j] =< g
    <3>1. WithGlobalDepth(m, g).global_depth = g
      BY DEF WithGlobalDepth
    <3> QED BY <2>1, <3>1 DEF Consistent
  <2> QED BY <1>2, <1>3, <2>1, <2>2, <2>3, ResizedLeaves
<1>5. PICK here, there, both :
        /\ here = LeafAt(d, i)
        /\ there = LeafAt(d, image)
        /\ both = <<k, Low(i, k), d.bucket_page_ids[image]>>
  OBVIOUS
<1>6. \A j \in Indices(d) : j \in Nat
  BY DirectoryTypes
<1>7. ASSUME NEW j \in Indices(d), Low(j, k) = Low(i, k)
      PROVE  LeafAt(d, j) \in {here, there} /\ LeafAt(m, j) = both
  <2>1. Low(j, k + 1) \in {Low(i, k + 1), Low(image, k + 1)}
    BY <1>2, <1>6, <1>7
  <2>2. CASE Low(j, k + 1) = Low(i, k + 1)
    <3>1. d.local_depths[j] = k + 1 /\ d.bucket_page_ids[j] = d.bucket_page_ids[i]
      BY <1>2, <2>2 DEF Consistent
    <3> QED BY <1>2, <1>5, <1>7, <2>2, <3>1 DEF LeafAt
  <2>3. CASE Low(j, k + 1) = Low(image, k + 1)
    <3>1. d.local_depths[j] = k + 1 /\ d.bucket_page_ids[j] = d.bucket_page_ids[image]
      BY <1>2, <2>3 DEF Consistent
    <3> QED BY <1>2, <1>5, <1>7, <2>3, <3>1 DEF LeafAt
  <2> QED BY <2>1, <2>2, <2>3
<1>8. ASSUME NEW j \in Indices(d), Low(j, k) # Low(i, k)
      PROVE  LeafAt(d, j) \notin {here, there} /\ LeafAt(m, j) = LeafAt(d, j)
  <2>1. Low(j, k + 1) \notin {Low(i, k + 1), Low(image, k + 1)}
    BY <1>2, <1>6, <1>8
  <2>2. d.bucket_page_ids[j] \notin {d.bucket_page_ids[i], d.bucket_page_ids[image]}
    BY <1>2, <2>1 DEF Consistent
  <2>3. LeafAt(d, j) \notin {here, there}
    BY <1>5, <2>2 DEF LeafAt
  <2>4. m.local_depths[j] = d.local_depths[j] /\ m.bucket_page_ids[j] = d.bucket_page_ids[j]
    BY <1>2, <1>8
  <2>5. LeafAt(m, j) = LeafAt(d, j)
    BY <2>4 DEF LeafAt
  <2> QED BY <2>3, <2>5
<1>9. LeavesOf(m) = (LeavesOf(d) \ {here, there}) \union {both}
  <2>1. ASSUME NEW leaf \in LeavesOf(m) PROVE leaf \in (LeavesOf(d) \ {here, there}) \union {both}
    <3>1. PICK j \in Indices(d) : leaf = LeafAt(m, j)
      BY <1>2, Leaves
    <3> QED BY <1>7, <1>8, <3>1, Leaves
  <2>2. ASSUME NEW leaf \in LeavesOf(d), leaf \notin {here, there} PROVE leaf \in LeavesOf(m)
    <3>1. PICK j \in Indices(d) : leaf = LeafAt(d, j)
      BY Leaves
    <3>2. leaf = LeafAt(m, j)
      BY <1>7, <1>8, <2>2, <3>1
    <3> QED BY <1>2, <3>2, Leaves
  <2>3. both \in LeavesOf(m)
    BY <1>2, <1>7, Leaves
  <2> QED BY <2>1, <2>2, <2>3
<1> QED BY <1>1, <1>2, <1>4, <1>5, <1>9
-----------------------------------------------------------------------------
(* Where a split and a merge lead a hash.                                  *)
LEMMA SplitLeadsTo ==
  ASSUME NEW d, IsDirectory(d), Consistent(d), NEW i \in Indices(d), ~CannotSplit(d, i),
         NEW p \in BucketIds, NEW h \in Nat
  PROVE  LET s    == SplitDirectory(d, i, p)
             from == d.bucket_page_ids[HashToIndex(d, h)]
             to   == s.bucket_page_ids[HashToIndex(s, h)]
         IN  from # to => from = d.bucket_page_ids[i] /\ to = p
<1>2. PICK s, e : s = SplitDirectory(d, i, p) /\ e = Grown(d, i)
  OBVIOUS
<1>4. PICK k \in Nat : k = d.local_depths[i]
  BY DirectoryTypes
<1>5. PICK image : image = GetSplitImageIndex(s, i)
  OBVIOUS
<1>6. /\ IsDirectory(s)
      /\ s.global_depth = e.global_depth
      /\ Indices(s) = Indices(e)
      /\ \A j \in Nat : Low(j, k) = Low(i, k) <=>
           Low(j, k + 1) \in {Low(i, k + 1), Low(image, k + 1)}
      /\ \A j \in Indices(s) :
           s.bucket_page_ids[j] = IF Low(j, k + 1) = Low(image, k + 1)
                                    THEN p ELSE e.bucket_page_ids[j]
  BY <1>2, <1>4, <1>5, SplitEffect
<1>7. /\ k < e.global_depth
      /\ d.global_depth =< e.global_depth
      /\ \A j \in Indices(e) :
           e.bucket_page_ids[j] = d.bucket_page_ids[Low(j, d.global_depth)]
  BY <1>2, <1>4, GrownEffect
<1>8. PICK n \in Nat, g \in Nat : n = d.global_depth /\ g = s.global_depth
  BY <1>6, DirectoryTypes
<1>9. /\ HashToIndex(d, h) = Low(h, n)
      /\ HashToIndex(s, h) = Low(h, g)
      /\ Low(h, g) \in Indices(s)
      /\ Low(h, n) \in Indices(d)
  BY <1>6, <1>8, LeadsTo
<1>10. k =< n
  BY <1>4, <1>8 DEF Consistent
<1>11. Low(h, g) \in Nat
  BY <1>6, <1>9, DirectoryTypes
<1>12. Low(Low(h, g), n) = Low(h, n) /\ Low(Low(h, g), k) = Low(h, k) /\ Low(Low(h, n), k) = Low(h, k)
  BY <1>6, <1>7, <1>8, <1>10, LowOfLow
<1>13. CASE Low(Low(h, g), k + 1) = Low(image, k + 1)
  <2>1. s.bucket_page_ids[Low(h, g)] = p
    BY <1>6, <1>9, <1>13
  <2>2. Low(Low(h, g), k) = Low(i, k)
    BY <1>6, <1>11, <1>13
  <2>3. d.bucket_page_ids[Low(h, n)] = d.bucket_page_ids[i]
    BY <1>4, <1>9, <1>12, <2>2 DEF Consistent
  <2> QED BY <1>2, <1>9, <2>1, <2>3
<1>14. CASE Low(Low(h, g), k + 1) # Low(image, k + 1)
  <2>1. s.bucket_page_ids[Low(h, g)] = d.bucket_page_ids[Low(h, n)]
    BY <1>6, <1>7, <1>8, <1>9, <1>12, <1>14
  <2> QED BY <1>2, <1>9, <2>1
<1> QED BY <1>13, <1>14

LEMMA MergeLeadsTo ==
  ASSUME NEW d, IsDirectory(d), Consistent(d), NEW i \in Indices(d), CanMerge(d, i), NEW h \in Nat
  PROVE  LET r     == MergeDirectory(d, i)
             from  == d.bucket_page_ids[HashToIndex(d, h)]
             to    == r.bucket_page_ids[HashToIndex(r, h)]
             image == GetSplitImageIndex(d, i)
         IN  /\ image \in Indices(d)
             /\ from # to => from = d.bucket_page_ids[i] /\ to = d.bucket_page_ids[image]
<1>2. PICK m, r : m = Merged(d, i) /\ r = Shrunk(m)
  OBVIOUS
<1>3. r = MergeDirectory(d, i)
  BY <1>2 DEF MergeDirectory, Merged
<1>4. PICK k \in Nat, image \in Indices(d) :
        /\ image = GetSplitImageIndex(d, i)
        /\ d.local_depths[i] = k + 1
        /\ d.local_depths[image] = k + 1
        /\ \A j \in Nat : Low(j, k) = Low(i, k) <=>
             Low(j, k + 1) \in {Low(i, k + 1), Low(image, k + 1)}
        /\ IsDirectory(m)
        /\ m.global_depth = d.global_depth
        /\ \A j \in Indices(d) :
             m.bucket_page_ids[j] = IF Low(j, k) = Low(i, k)
                                      THEN d.bucket_page_ids[image]
                                      ELSE d.bucket_page_ids[j]
  BY <1>2, MergeEffect
<1>5. Consistent(m)
  BY <1>2, MergedIsConsistent
<1>6. PICK g \in Nat : g =< m.global_depth /\ r = WithGlobalDepth(m, g) /\ IsDirectory(r) /\ Consistent(r)
  BY <1>2, <1>4, <1>5, ShrunkEffect
<1>7. PICK n \in Nat : n = d.global_depth /\ n =< MaxDepth
  BY DirectoryTypes
<1>8. g =< MaxDepth /\ r.global_depth = g
  BY <1>4, <1>6, <1>7, DirectoryAssumption DEF WithGlobalDepth
<1>9. \A j \in Indices(r) : r.local_depths[j] =< g
  BY <1>6, <1>8 DEF Consistent
<1>10. r.bucket_page_ids[Low(h, g)] = m.bucket_page_ids[Low(h, m.global_depth)]
  BY <1>4, <1>5, <1>6, <1>8, <1>9, ResizedLeadsTo
<1>11. /\ HashToIndex(d, h) = Low(h, n)
       /\ HashToIndex(r, h) = Low(h, g)
       /\ Low(h, n) \in Indices(d)
  BY <1>6, <1>7, <1>8, LeadsTo
<1>12. PICK x \in Indices(d) : x = Low(h, n)
  BY <1>11
<1>13. r.bucket_page_ids[Low(h, g)] = IF Low(x, k) = Low(i, k) THEN d.bucket_page_ids[image]
                                                              ELSE d.bucket_page_ids[x]
  BY <1>4, <1>7, <1>10, <1>12
<1>14. CASE Low(x, k) = Low(i, k)
  <2>1. x \in Nat
    BY DirectoryTypes
  <2>2. Low(x, k + 1) \in {Low(i, k + 1), Low(image, k + 1)}
    BY <1>4, <1>14, <2>1
  <2>3. d.bucket_page_ids[x] \in {d.bucket_page_ids[i], d.bucket_page_ids[image]}
    BY <1>4, <2>2 DEF Consistent
  <2> QED BY <1>3, <1>4, <1>11, <1>12, <1>13, <1>14, <2>3
<1>15. CASE Low(x, k) # Low(i, k)
  BY <1>3, <1>4, <1>11, <1>12, <1>13, <1>15
<1> QED BY <1>14, <1>15
=============================================================================
