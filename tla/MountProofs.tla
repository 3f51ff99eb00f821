---------------------------- MODULE MountProofs ----------------------------
(***************************************************************************)
(* Proofs about Mount, for every image and every size of the tables.       *)
(***************************************************************************)
EXTENDS Mount, WellFoundedInduction, SequenceTheorems, TLAPS

(***************************************************************************)
(* Block sizes.                                                            *)
(***************************************************************************)
\* A set of numbers has a least one.
LEMMA LeastNumber ==
  ASSUME NEW T, T \subseteq Nat, T # {}
  PROVE  \E x \in T : \A y \in T : x <= y
  <1> DEFINE R == OpToRel(<, Nat)
  <1>1. IsWellFoundedOn(R, Nat)
    BY NatLessThanWellFounded
  <1>2. \A x, y \in Nat : x < y => <<x, y>> \in R
    BY DEF OpToRel
  <1> HIDE DEF R
  <1>3. PICK x \in T : \A y \in T : ~(<<y, x>> \in R)
    BY <1>1, WFMin
  <1>4. ASSUME NEW y \in T PROVE x <= y
    <2>1. x \in Nat /\ y \in Nat /\ ~(y < x)
      BY <1>2, <1>3
    <2> QED
      BY <2>1
  <1> QED
    BY <1>4

\* What a set of numbers holds when it holds every number below which there are
\* only numbers of it.
LEMMA EveryNumber ==
  ASSUME NEW T, \A n \in Nat : (\A m \in 0 .. n - 1 : m \in T) => n \in T
  PROVE  \A n \in Nat : n \in T
  <1> SUFFICES ASSUME NEW n \in Nat, n \notin T PROVE FALSE
    OBVIOUS
  <1> DEFINE Out == {m \in Nat : m \notin T}
  <1>1. PICK x \in Out : \A y \in Out : x <= y
    <2>1. Out \subseteq Nat /\ Out # {}
      OBVIOUS
    <2> HIDE DEF Out
    <2> QED
      BY <2>1, LeastNumber
  <1>2. \A m \in 0 .. x - 1 : m \in T
    <2> SUFFICES ASSUME NEW m \in 0 .. x - 1, m \notin T PROVE FALSE
      OBVIOUS
    <2>1. m \in Out /\ m < x
      BY <1>1
    <2> QED
      BY <1>1, <2>1
  <1> QED
    BY <1>1, <1>2

\* A recursive definition over the numbers, given by the numbers it starts from
\* (Base, of value b) and, for the others, by the smaller number prev[i] and what
\* step makes of its value.  The definition has a solution: it is put together
\* from the tables of the first n values, which agree with each other.
Descends(Base, b, prev, step) ==
  /\ b \in Nat /\ prev \in [Nat -> Nat] /\ step \in [Nat -> Nat]
  /\ \A i \in Nat : i \notin Base => prev[i] \in 0 .. i - 1

Table(g, n, Base, b, prev, step) ==
  /\ g \in [0 .. n -> Nat]
  /\ \A i \in 0 .. n : g[i] = IF i \in Base THEN b ELSE step[g[prev[i]]]

LEMMA TablesAgree ==
  ASSUME NEW Base, NEW b, NEW prev, NEW step, Descends(Base, b, prev, step),
         NEW m \in Nat, NEW n \in Nat, NEW g, NEW h,
         Table(g, m, Base, b, prev, step), Table(h, n, Base, b, prev, step)
  PROVE  \A i \in Nat : i <= m /\ i <= n => g[i] = h[i]
  <1> DEFINE T == {i \in Nat : i <= m /\ i <= n => g[i] = h[i]}
  <1>1. ASSUME NEW i \in Nat, \A j \in 0 .. i - 1 : j \in T PROVE i \in T
    <2>1. ASSUME i <= m, i <= n, i \notin Base PROVE g[i] = h[i]
      <3>1. prev[i] \in 0 .. i - 1
        BY <2>1 DEF Descends
      <3>2. prev[i] \in T
        BY <1>1, <3>1
      <3>3. g[prev[i]] = h[prev[i]]
        BY <2>1, <3>1, <3>2
      <3> QED
        BY <2>1, <3>3 DEF Table
    <2>2. ASSUME i <= m, i <= n, i \in Base PROVE g[i] = h[i]
      BY <2>2 DEF Table
    <2> QED
      BY <2>1, <2>2
  <1> HIDE DEF T
  <1>2. \A i \in Nat : i \in T
    BY <1>1, EveryNumber
  <1> QED
    BY <1>2 DEF T

LEMMA TablesExist ==
  ASSUME NEW Base, NEW b, NEW prev, NEW step, Descends(Base, b, prev, step)
  PROVE  \A n \in Nat : \E g : Table(g, n, Base, b, prev, step)
  <1> DEFINE T == {n \in Nat : \E g : Table(g, n, Base, b, prev, step)}
  <1>1. ASSUME NEW n \in Nat, \A m \in 0 .. n - 1 : m \in T PROVE n \in T
    <2>1. PICK g : /\ \A i \in 0 .. n - 1 : g[i] \in Nat
                   /\ \A i \in 0 .. n - 1 :
                        g[i] = IF i \in Base THEN b ELSE step[g[prev[i]]]
      <3>1. CASE n = 0
        BY <3>1
      <3>2. CASE n > 0
        <4>1. n - 1 \in T
          BY <1>1, <3>2
        <4>2. PICK g : Table(g, n - 1, Base, b, prev, step)
          BY <4>1
        <4> QED
          BY <4>2 DEF Table
      <3> QED
        BY <3>1, <3>2
    <2> DEFINE v == IF n \in Base THEN b ELSE step[g[prev[n]]]
    <2> DEFINE h == [i \in 0 .. n |-> IF i = n THEN v ELSE g[i]]
    <2>2. n \notin Base => prev[n] \in 0 .. n - 1
      BY DEF Descends
    <2>3. v \in Nat
      BY <2>1, <2>2 DEF Descends
    <2>4. h \in [0 .. n -> Nat] /\ h[n] = v /\ \A i \in 0 .. n - 1 : h[i] = g[i]
      <3> HIDE DEF v
      <3> QED
        BY <2>1, <2>3
    <2> HIDE DEF h
    <2>5. ASSUME NEW i \in 0 .. n PROVE h[i] = IF i \in Base THEN b ELSE step[h[prev[i]]]
      <3>1. CASE i = n
        BY <2>2, <2>4, <3>1
      <3>2. CASE i # n
        <4>1. i \in 0 .. n - 1 /\ (i \notin Base => prev[i] \in 0 .. n - 1)
          BY <3>2 DEF Descends
        <4>2. g[i] = IF i \in Base THEN b ELSE step[g[prev[i]]]
          BY <2>1, <4>1
        <4> QED
          BY <2>4, <4>1, <4>2
      <3> QED
        BY <3>1, <3>2
    <2> QED
      BY <2>4, <2>5 DEF Table
  <1> HIDE DEF T
  <1>2. \A n \in Nat : n \in T
    BY <1>1, EveryNumber
  <1> QED
    BY <1>2 DEF T

LEMMA Solution ==
  ASSUME NEW Base, NEW b, NEW prev, NEW step, Descends(Base, b, prev, step)
  PROVE  \E f \in [Nat -> Nat] :
           \A n \in Nat : f[n] = IF n \in Base THEN b ELSE step[f[prev[n]]]
  <1> DEFINE Tab(n) == CHOOSE g : Table(g, n, Base, b, prev, step)
  <1> DEFINE F == [n \in Nat |-> Tab(n)[n]]
  <1>1. \A n \in Nat : Table(Tab(n), n, Base, b, prev, step)
    BY TablesExist
  <1> HIDE DEF Tab
  <1>2. F \in [Nat -> Nat]
    BY <1>1 DEF Table
  <1>3. ASSUME NEW n \in Nat PROVE F[n] = IF n \in Base THEN b ELSE step[F[prev[n]]]
    <2>1. F[n] = IF n \in Base THEN b ELSE step[Tab(n)[prev[n]]]
      BY <1>1 DEF Table
    <2>2. n \notin Base => prev[n] \in Nat /\ prev[n] <= n
      BY DEF Descends
    <2>3. n \notin Base => Tab(n)[prev[n]] = Tab(prev[n])[prev[n]]
      BY <1>1, <2>2, TablesAgree
    <2> QED
      BY <2>1, <2>2, <2>3
  <1> HIDE DEF F
  <1> QED
    BY <1>2, <1>3

LEMMA HalvingsValue ==
  \A n \in Nat : Halvings[n] = IF n <= 1 THEN 0 ELSE 1 + Halvings[n \div 2]
  <1> DEFINE prev == [n \in Nat |-> n \div 2]
             step == [n \in Nat |-> 1 + n]
  <1>1. Descends({0, 1}, 0, prev, step)
    BY DEF Descends
  <1>2. PICK f \in [Nat -> Nat] :
               \A n \in Nat : f[n] = IF n \in {0, 1} THEN 0 ELSE step[f[prev[n]]]
    <2> HIDE DEF prev, step
    <2> QED
      BY <1>1, Solution
  <1>3. ASSUME NEW n \in Nat PROVE f[n] = IF n <= 1 THEN 0 ELSE 1 + f[n \div 2]
    <2>1. prev[n] = n \div 2 /\ f[n \div 2] \in Nat
      OBVIOUS
    <2>2. step[f[n \div 2]] = 1 + f[n \div 2]
      BY <2>1
    <2>3. n \in {0, 1} <=> n <= 1
      OBVIOUS
    <2> HIDE DEF prev, step
    <2> QED
      BY <1>2, <2>1, <2>2, <2>3
  <1>4. f = [n \in Nat |-> IF n <= 1 THEN 0 ELSE 1 + f[n \div 2]]
    BY <1>2, <1>3
  <1>5. Halvings = CHOOSE g : g = [n \in Nat |-> IF n <= 1 THEN 0 ELSE 1 + g[n \div 2]]
    BY DEF Halvings
  <1>6. Halvings = [n \in Nat |-> IF n <= 1 THEN 0 ELSE 1 + Halvings[n \div 2]]
    BY <1>4, <1>5
  <1> QED
    BY <1>6

LEMMA Pow2Value ==
  \A n \in Nat : Pow2[n] = IF n = 0 THEN 1 ELSE 2 * Pow2[n - 1]
  <1> DEFINE prev == [n \in Nat |-> IF n = 0 THEN 0 ELSE n - 1]
             step == [n \in Nat |-> 2 * n]
  <1>1. Descends({0}, 1, prev, step)
    BY DEF Descends
  <1>2. PICK f \in [Nat -> Nat] :
               \A n \in Nat : f[n] = IF n \in {0} THEN 1 ELSE step[f[prev[n]]]
    <2> HIDE DEF prev, step
    <2> QED
      BY <1>1, Solution
  <1>3. ASSUME NEW n \in Nat PROVE f[n] = IF n = 0 THEN 1 ELSE 2 * f[n - 1]
    <2>1. n # 0 => prev[n] = n - 1 /\ f[n - 1] \in Nat
      OBVIOUS
    <2>2. n # 0 => step[f[n - 1]] = 2 * f[n - 1]
      BY <2>1
    <2> HIDE DEF prev, step
    <2> QED
      BY <1>2, <2>1, <2>2
  <1>4. f = [n \in Nat |-> IF n = 0 THEN 1 ELSE 2 * f[n - 1]]
    BY <1>2, <1>3
  <1>5. Pow2 = CHOOSE g : g = [n \in Nat |-> IF n = 0 THEN 1 ELSE 2 * g[n - 1]]
    BY DEF Pow2
  <1>6. Pow2 = [n \in Nat |-> IF n = 0 THEN 1 ELSE 2 * Pow2[n - 1]]
    BY <1>4, <1>5
  <1> QED
    BY <1>6

\* A power of two is halved as often as its exponent says.
LEMMA PowersOfTwo ==
  \A k \in Nat : Pow2[k] \in Nat /\ k < Pow2[k] /\ Halvings[Pow2[k]] = k
  <1> DEFINE T == {k \in Nat : Pow2[k] \in Nat /\ k < Pow2[k] /\ Halvings[Pow2[k]] = k}
  <1>1. ASSUME NEW k \in Nat, \A j \in 0 .. k - 1 : j \in T PROVE k \in T
    <2>1. CASE k = 0
      <3>1. Pow2[k] = 1
        BY <2>1, Pow2Value
      <3>2. Halvings[1] = 0
        BY HalvingsValue
      <3> QED
        BY <2>1, <3>1, <3>2
    <2>2. CASE k > 0
      <3> DEFINE p == Pow2[k - 1]
      <3>1. p \in Nat /\ k - 1 < p /\ Halvings[p] = k - 1
        BY <1>1, <2>2
      <3>2. Pow2[k] = 2 * p
        BY <2>2, Pow2Value
      <3> HIDE DEF p
      <3>3. 2 * p \in Nat /\ ~(2 * p <= 1) /\ (2 * p) \div 2 = p /\ k < 2 * p
        BY <2>2, <3>1
      <3>4. Halvings[2 * p] = 1 + Halvings[p]
        BY <3>3, HalvingsValue
      <3> QED
        BY <2>2, <3>1, <3>2, <3>3, <3>4
    <2> QED
      BY <2>1, <2>2
  <1> HIDE DEF T
  <1>2. \A k \in Nat : k \in T
    BY <1>1, EveryNumber
  <1> QED
    BY <1>2 DEF T

\* The checks of validate_block_size say that the size is two to the logarithm.
LEMMA BlockSizes ==
  ASSUME NEW i \in Images
  PROVE  ValidBlockSize(i) <=> /\ i.block_size = Pow2[i.block_log]
                               /\ i.block_size \in MIN_BLOCK .. MAX_BLOCK
  <1>1. i.block_size \in Nat /\ i.block_log \in Nat
    BY ImageTypes
  <1>2. ASSUME ValidBlockSize(i) PROVE i.block_size = Pow2[i.block_log]
    <2>1. PICK k \in 0 .. i.block_size : Pow2[k] = i.block_size
      BY <1>2 DEF ValidBlockSize
    <2>2. Halvings[i.block_size] = k
      BY <1>1, <2>1, PowersOfTwo
    <2> QED
      BY <1>2, <2>1, <2>2 DEF ValidBlockSize
  <1>3. ASSUME i.block_size = Pow2[i.block_log], i.block_size \in MIN_BLOCK .. MAX_BLOCK
        PROVE  ValidBlockSize(i)
    <2>1. i.block_log < i.block_size /\ Halvings[i.block_size] = i.block_log
      BY <1>1, <1>3, PowersOfTwo
    <2>2. i.block_log \in 0 .. i.block_size /\ i.block_size # 0
      BY <1>1, <2>1
    <2> QED
      BY <1>1, <1>3, <2>1, <2>2, MountSizes DEF ValidBlockSize
  <1> QED
    BY <1>1, <1>2, <1>3, MountSizes DEF ValidBlockSize

LEMMA AcceptsSupported == image \in Images => (Accepted(image) <=> Supported)
  BY BlockSizes DEF Accepted, Supported, Implemented

(***************************************************************************)
(* The blocks of a table.                                                  *)
(***************************************************************************)
LEMMA Blocks ==
  ASSUME NEW n \in Nat, NEW d \in Nat \ {0}
  PROVE  Ceil(n, d) \in Nat /\ n <= Ceil(n, d) * d
  <1> DEFINE a == n + d - 1
             q == a \div d
             r == a % d
  <1>1. a \in Nat /\ d > 0
    OBVIOUS
  <1>2. q \in Nat /\ r \in 0 .. d - 1 /\ a = d * q + r
    <2> HIDE DEF a
    <2> QED
      BY <1>1
  <1>3. d * q = q * d
    <2> HIDE DEF q
    <2> QED
      BY <1>2
  <1> QED
    <2> DEFINE m == q * d
    <2>1. a = m + r /\ m \in Int
      BY <1>2, <1>3
    <2> HIDE DEF m, q, r
    <2>2. n <= m
      BY <1>2, <2>1
    <2> QED
      BY <1>2, <2>2 DEF Ceil, q, m

(***************************************************************************)
(* What an exit is still to release.                                       *)
(***************************************************************************)
CacheNames == {"inode_cache", "dir_cache", "meta_cache", "data_cache"}

Things ==
  {"fd", "sb", "comp", "id_pos_table", "id_table", "meta_block", "fragment_table", "entries",
   "index", "block_buf"} \union CacheNames

\* A list of releases that names each of the things L once.
Lists(list, L) ==
  /\ list \in Seq(Things)
  /\ \A i, j \in DOMAIN list : list[i] = list[j] => i = j
  /\ ToSet(list) = L

\* What stays held when the exit is through.
Rest == held \ ToSet(todo)

LEMMA CachesListed == Lists(Caches, CacheNames)
  <1>1. DOMAIN Caches = 1 .. 4 /\ Caches \in Seq(Things)
    BY DEF Caches, Things, CacheNames
  <1>2. \A i \in 1 .. 4 : i = 1 \/ i = 2 \/ i = 3 \/ i = 4
    OBVIOUS
  <1>3. /\ Caches[1] = "inode_cache" /\ Caches[2] = "dir_cache"
        /\ Caches[3] = "meta_cache" /\ Caches[4] = "data_cache"
    BY DEF Caches
  <1>4. ToSet(Caches) = CacheNames
    BY <1>1, <1>2, <1>3 DEF ToSet, CacheNames
  <1>5. \A i, j \in 1 .. 4 : Caches[i] = Caches[j] => i = j
    BY <1>2, <1>3
  <1> QED
    BY <1>1, <1>4, <1>5 DEF Lists

LEMMA EmptyList == Lists(<<>>, {})
  BY DEF Lists, ToSet

LEMMA ShortLists ==
  /\ \A a \in Things : Lists(<<a>>, {a})
  /\ \A a, b \in Things : a # b => Lists(<<a, b>>, {a, b})
  /\ \A a, b, c \in Things : a # b /\ a # c /\ b # c => Lists(<<a, b, c>>, {a, b, c})
  BY DEF Lists, ToSet

\* Two lists after one another.
LEMMA JoinedLists ==
  ASSUME NEW s, NEW t, NEW S, NEW T, Lists(s, S), Lists(t, T), S \intersect T = {}
  PROVE  Lists(s \o t, S \union T)
  <1> DEFINE u == s \o t
  <1>1. /\ s \in Seq(Things) /\ t \in Seq(Things)
        /\ DOMAIN s = 1 .. Len(s) /\ DOMAIN t = 1 .. Len(t)
        /\ Len(s) \in Nat /\ Len(t) \in Nat
    BY DEF Lists
  <1>2. /\ u \in Seq(Things) /\ DOMAIN u = 1 .. Len(s) + Len(t)
        /\ \A i \in 1 .. Len(s) : u[i] = s[i]
        /\ \A i \in 1 .. Len(t) : u[Len(s) + i] = t[i]
    BY <1>1
  <1> HIDE DEF u
  <1>3. \A i \in DOMAIN u : i \in 1 .. Len(s) \/ \E j \in 1 .. Len(t) : i = Len(s) + j
    <2> SUFFICES ASSUME NEW i \in DOMAIN u, i \notin 1 .. Len(s)
                 PROVE  \E j \in 1 .. Len(t) : i = Len(s) + j
      OBVIOUS
    <2>1. i - Len(s) \in 1 .. Len(t) /\ i = Len(s) + (i - Len(s))
      BY <1>1, <1>2
    <2> QED
      BY <2>1
  <1>4. /\ \A i \in 1 .. Len(s) : s[i] \in S
        /\ \A i \in 1 .. Len(t) : t[i] \in T
    BY <1>1 DEF Lists, ToSet
  <1>5. ToSet(u) = S \union T
    <2>1. ToSet(u) \subseteq S \union T
      BY <1>2, <1>3, <1>4 DEF ToSet
    <2>2. ASSUME NEW x \in S PROVE x \in ToSet(u)
      <3>1. PICK i \in 1 .. Len(s) : x = s[i]
        BY <1>1 DEF Lists, ToSet
      <3> QED
        BY <1>1, <1>2, <3>1 DEF ToSet
    <2>3. ASSUME NEW x \in T PROVE x \in ToSet(u)
      <3>1. PICK i \in 1 .. Len(t) : x = t[i]
        BY <1>1 DEF Lists, ToSet
      <3>2. Len(s) + i \in DOMAIN u
        BY <1>1, <1>2
      <3> QED
        BY <1>2, <3>1, <3>2 DEF ToSet
    <2> QED
      BY <2>1, <2>2, <2>3
  <1>6. ASSUME NEW i \in DOMAIN u, NEW j \in DOMAIN u, u[i] = u[j] PROVE i = j
    <2>1. CASE i \in 1 .. Len(s) /\ j \in 1 .. Len(s)
      BY <1>1, <1>2, <1>6, <2>1 DEF Lists
    <2>2. CASE i \in 1 .. Len(s) /\ j \notin 1 .. Len(s)
      BY <1>2, <1>3, <1>4, <1>6, <2>2
    <2>3. CASE i \notin 1 .. Len(s) /\ j \in 1 .. Len(s)
      BY <1>2, <1>3, <1>4, <1>6, <2>3
    <2>4. CASE i \notin 1 .. Len(s) /\ j \notin 1 .. Len(s)
      <3>1. PICK m \in 1 .. Len(t) : i = Len(s) + m
        BY <1>3, <2>4
      <3>2. PICK n \in 1 .. Len(t) : j = Len(s) + n
        BY <1>3, <2>4
      <3>3. t[m] = t[n]
        BY <1>2, <1>6, <3>1, <3>2
      <3>4. m = n
        BY <1>1, <3>3 DEF Lists
      <3> QED
        BY <3>1, <3>2, <3>4
    <2> QED
      BY <2>1, <2>2, <2>3, <2>4
  <1> QED
    BY <1>2, <1>5, <1>6 DEF Lists, u

\* The first of a list, and the others.
LEMMA ListTail ==
  ASSUME NEW s, NEW S, Lists(s, S), s # <<>>
  PROVE  Head(s) \in S /\ Head(s) \in Things /\ Lists(Tail(s), S \ {Head(s)})
  <1> DEFINE t == Tail(s)
             n == Len(s)
  <1>1. s \in Seq(Things) /\ DOMAIN s = 1 .. n /\ n \in Nat \ {0}
    BY DEF Lists
  <1>2. /\ t \in Seq(Things) /\ DOMAIN t = 1 .. n - 1
        /\ \A i \in 1 .. n - 1 : t[i] = s[i + 1]
        /\ Head(s) = s[1]
    BY <1>1
  <1> HIDE DEF t, n
  <1>3. Head(s) \in S /\ Head(s) \in Things
    BY <1>1, <1>2 DEF Lists, ToSet
  <1>4. ASSUME NEW i \in DOMAIN t, NEW j \in DOMAIN t, t[i] = t[j] PROVE i = j
    <2>1. i + 1 \in DOMAIN s /\ j + 1 \in DOMAIN s /\ s[i + 1] = s[j + 1] /\ i \in Int /\ j \in Int
      BY <1>1, <1>2, <1>4
    <2>2. i + 1 = j + 1
      BY <2>1 DEF Lists
    <2> QED
      BY <2>1, <2>2
  <1>5. ToSet(t) = S \ {Head(s)}
    <2>1. ASSUME NEW i \in DOMAIN t PROVE t[i] \in S \ {Head(s)}
      <3>1. i + 1 \in DOMAIN s /\ 1 \in DOMAIN s /\ i + 1 # 1 /\ t[i] = s[i + 1]
        BY <1>1, <1>2
      <3> QED
        BY <1>2, <3>1 DEF Lists, ToSet
    <2>2. ASSUME NEW x \in S, x # Head(s) PROVE \E i \in DOMAIN t : x = t[i]
      <3>1. PICK i \in DOMAIN s : x = s[i]
        BY DEF Lists, ToSet
      <3>2. i - 1 \in DOMAIN t /\ i = (i - 1) + 1
        BY <1>1, <1>2, <2>2, <3>1
      <3> QED
        BY <1>2, <3>1, <3>2
    <2> QED
      BY <2>1, <2>2 DEF ToSet
  <1> QED
    BY <1>2, <1>3, <1>4, <1>5 DEF Lists, t

(***************************************************************************)
(* What holds between two steps of a mount.                                *)
(***************************************************************************)
LoadingIds == {"idlist", "idtable", "idbuf", "idblock"}
WithEntries == {"fragindex", "fraglist", "fragbuf", "fragblocks"}
LoadingTable == {"fragentries"} \union WithEntries
Served == {"mounted", "crashed", "unmounted"}
WithComp ==
  {"caches", "ids", "frags", "error", "mounted", "crashed"} \union LoadingIds \union LoadingTable
Labels == {"main", "context", "sb", "comp", "close", "failed"} \union WithComp \union Served

TypesInv ==
  /\ image \in Images
  /\ pc \in Labels
  /\ loaded \in BOOLEAN /\ fault \in BOOLEAN

\* What is to be released is held, or a cache.
TodoInv ==
  /\ Lists(todo, ToSet(todo))
  /\ ToSet(todo) \subseteq held \union CacheNames
  /\ ~wild
  /\ held \subseteq Things

\* What every step holds, the releases on the way to it done.
HeldInv ==
  /\ "fd" \in Rest <=> pc \notin {"main", "failed", "unmounted"}
  /\ "sb" \in Rest <=> pc \in {"sb", "comp"} \union WithComp
  /\ "comp" \in Rest <=> pc \in WithComp
  /\ pc = "caches" => ~no_cache
  /\ Rest \intersect CacheNames # {} => pc \in WithComp /\ ~no_cache
  /\ "id_pos_table" \in Rest <=> pc \in LoadingIds
  /\ "meta_block" \in Rest <=> pc = "idblock"
  /\ pc \in {"idbuf", "idblock"} => "id_table" \in Rest
  /\ "id_table" \in Rest => pc \in {"idbuf", "idblock"} \/ id_table # <<>>
  /\ pc \in LoadingIds => image.ids > 0
  /\ pc = "unmounted" => id_table = <<>>
  /\ "fragment_table" \in Rest => pc \in LoadingTable \union Served
  /\ pc \in WithEntries => "entries" \in Rest
  /\ "entries" \in Rest => pc \in WithEntries \/ (pc \in Served /\ loaded)
  /\ "index" \in Rest <=> pc \in {"fraglist", "fragbuf", "fragblocks"}
  /\ "block_buf" \in Rest <=> pc = "fragblocks"

\* A mount fails for a reason.
FailsInv ==
  pc \in {"error", "close", "failed"} =>
    fault \/ ~Accepted(image) \/ ~InFile(image.ids) \/ ~IdBlockReadable

\* The first blk blocks of the fragment table have been read.
EntriesRead ==
  entries = [i \in 1 .. image.frags |-> IF i <= blk * FRAGS_PER_BLOCK THEN i ELSE 0]

NotReadable == \E b \in 0 .. Ceil(image.frags, FRAGS_PER_BLOCK) - 1 : ~BlockReadable(b)

TableInv ==
  /\ pc \notin Served => ~loaded
  /\ pc \notin Served \union {"fragblocks"} => blk = 0
  /\ pc \in LoadingTable => has_fragments
  /\ pc \in WithEntries => blk \in 0 .. Ceil(image.frags, FRAGS_PER_BLOCK) /\ EntriesRead
  /\ loaded => entries = [i \in 1 .. image.frags |-> i]
  /\ pc = "mounted" /\ has_fragments /\ ~loaded => fault \/ NotReadable

MInv == TypesInv /\ TodoInv /\ HeldInv /\ FailsInv /\ TableInv

\* What depends on the image alone.
LEMMA SameImage ==
  ASSUME UNCHANGED image
  PROVE  /\ Accepted(image)' <=> Accepted(image)
         /\ InFile(image.ids)' <=> InFile(image.ids)
         /\ IdBlockReadable' <=> IdBlockReadable
         /\ has_fragments' <=> has_fragments
         /\ NotReadable' <=> NotReadable
         /\ Ceil(image.frags, FRAGS_PER_BLOCK)' = Ceil(image.frags, FRAGS_PER_BLOCK)
  BY DEF Accepted, ValidBlockSize, Implemented, InFile, IdBlockReadable, has_fragments,
         NotReadable, BlockReadable, InBlock, Ceil

LEMMA MountInit == Init => MInv
  <1> SUFFICES ASSUME Init PROVE MInv
    OBVIOUS
  <1>1. Rest = {} /\ TodoInv
    BY EmptyList DEF Init, Rest, TodoInv, Lists
  <1> QED
    BY <1>1 DEF Init, MInv, TypesInv, HeldInv, FailsInv, TableInv, Labels, WithComp, LoadingIds,
           LoadingTable, WithEntries, Served

\* A step that acquires S.
LEMMA AcquireStep ==
  ASSUME MInv, todo = <<>>, NEW label \in Labels, NEW S \in SUBSET Things, Acquire(label, S)
  PROVE  /\ Rest = held /\ Rest' = Rest \union S
         /\ TodoInv'
  <1>1. ToSet(todo) = {} /\ ToSet(todo)' = {} /\ todo' = todo
    BY DEF Acquire, ToSet
  <1> QED
    BY <1>1 DEF Acquire, MInv, TodoInv, Rest, Lists

\* A step that leads to the releases of L.
LEMMA ReleaseStep ==
  ASSUME MInv, todo = <<>>, NEW label, NEW list, NEW L, Lists(list, L),
         L \subseteq held \union CacheNames, Release(label, list)
  PROVE  /\ Rest = held /\ Rest' = Rest \ L
         /\ TodoInv'
  <1>1. ToSet(todo) = {} /\ ToSet(todo)' = L /\ todo' = list
    BY DEF Release, ToSet, Lists
  <1> QED
    BY <1>1 DEF Release, MInv, TodoInv, Rest

\* The steps that acquire something and leave the tables alone.
LEMMA QuietStep ==
  ASSUME MInv, todo = <<>>, NEW label \in Labels, NEW S \in SUBSET Things, Acquire(label, S),
         UNCHANGED <<id_table, fragment_table>>,
         pc \notin Served \union {"fragblocks"},
         label \notin {"error", "close", "failed", "crashed", "unmounted"},
         label \in LoadingTable => has_fragments,
         label \in WithEntries => pc \in WithEntries,
         label = "mounted" => ~has_fragments
  PROVE  TypesInv' /\ TodoInv' /\ FailsInv' /\ TableInv'
  <1>1. TypesInv' /\ FailsInv' /\ UNCHANGED <<image, fault, loaded, blk, entries>> /\ pc' = label
    BY DEF Acquire, MInv, TypesInv, FailsInv, fragment_table
  <1>2. loaded = FALSE /\ blk = 0
    BY DEF MInv, TypesInv, TableInv
  <1>3. EntriesRead' <=> EntriesRead
    BY <1>1 DEF EntriesRead
  <1>4. TableInv'
    BY <1>1, <1>2, <1>3, SameImage DEF MInv, TableInv, Served
  <1> QED
    BY <1>1, <1>4, AcquireStep

LEMMA ContextStep ==
  ASSUME MInv, OpenImage \/ AllocSuperblock \/ LoadSuperblock \/ CreateCompressor \/ InitCache
  PROVE  MInv'
  <1> USE DEF At, Things, Labels, WithComp, LoadingIds, LoadingTable, WithEntries, Served
  <1>1. CASE OpenImage
    <2>1. /\ pc = "main" /\ pc' = "context" /\ Rest' = Rest \union {"fd"}
          /\ UNCHANGED <<no_cache, image, id_table>>
      BY <1>1, AcquireStep DEF OpenImage, Acquire
    <2>2. TypesInv' /\ TodoInv' /\ FailsInv' /\ TableInv'
      BY <1>1, QuietStep DEF OpenImage
    <2>3. HeldInv'
      BY <2>1 DEF MInv, HeldInv, CacheNames
    <2> QED
      BY <2>2, <2>3 DEF MInv
  <1>2. CASE AllocSuperblock
    <2>1. /\ pc = "context" /\ pc' = "sb" /\ Rest' = Rest \union {"sb"}
          /\ UNCHANGED <<no_cache, image, id_table>>
      BY <1>2, AcquireStep DEF AllocSuperblock, Acquire
    <2>2. TypesInv' /\ TodoInv' /\ FailsInv' /\ TableInv'
      BY <1>2, QuietStep DEF AllocSuperblock
    <2>3. HeldInv'
      BY <2>1 DEF MInv, HeldInv, CacheNames
    <2> QED
      BY <2>2, <2>3 DEF MInv
  <1>3. CASE LoadSuperblock
    <2>1. /\ pc = "sb" /\ pc' = "comp" /\ Rest' = Rest \union {}
          /\ UNCHANGED <<no_cache, image, id_table>>
      BY <1>3, AcquireStep DEF LoadSuperblock, Acquire
    <2>2. TypesInv' /\ TodoInv' /\ FailsInv' /\ TableInv'
      BY <1>3, QuietStep DEF LoadSuperblock
    <2>3. HeldInv'
      BY <2>1 DEF MInv, HeldInv, CacheNames
    <2> QED
      BY <2>2, <2>3 DEF MInv
  <1>4. CASE CreateCompressor
    <2> DEFINE label == IF no_cache THEN "ids" ELSE "caches"
    <2>0. /\ label \in {"ids", "caches"} /\ (no_cache <=> label = "ids")
          /\ Acquire(label, {"comp"}) /\ todo = <<>> /\ pc = "comp"
          /\ UNCHANGED <<id_table, fragment_table>>
      BY <1>4 DEF CreateCompressor
    <2> HIDE DEF label
    <2>1. pc' = label /\ Rest' = Rest \union {"comp"} /\ UNCHANGED <<no_cache, image>>
      BY <2>0, AcquireStep DEF Acquire
    <2>2. TypesInv' /\ TodoInv' /\ FailsInv' /\ TableInv'
      BY <2>0, QuietStep
    <2>3. HeldInv'
      BY <2>0, <2>1 DEF MInv, HeldInv, CacheNames
    <2> QED
      BY <2>2, <2>3 DEF MInv
  <1>5. CASE InitCache
    <2>0. PICK i \in DOMAIN Caches :
                 Acquire(IF i = Len(Caches) THEN "ids" ELSE "caches", {Caches[i]})
      BY <1>5 DEF InitCache
    <2> DEFINE label == IF i = Len(Caches) THEN "ids" ELSE "caches"
               c == Caches[i]
    <2>1. c \in CacheNames
      BY CachesListed DEF Lists, ToSet
    <2>2. /\ label \in {"ids", "caches"}
          /\ Acquire(label, {c}) /\ todo = <<>> /\ pc = "caches"
          /\ UNCHANGED <<id_table, fragment_table>>
      BY <1>5, <2>0 DEF InitCache
    <2> HIDE DEF label, c
    <2>3. pc' = label /\ Rest' = Rest \union {c} /\ UNCHANGED <<no_cache, image>>
      BY <2>1, <2>2, AcquireStep DEF Acquire
    <2>4. TypesInv' /\ TodoInv' /\ FailsInv' /\ TableInv'
      BY <2>1, <2>2, QuietStep
    <2>5. HeldInv'
      BY <2>1, <2>2, <2>3 DEF MInv, HeldInv, CacheNames
    <2> QED
      BY <2>4, <2>5 DEF MInv
  <1> QED
    BY <1>1, <1>2, <1>3, <1>4, <1>5

LEMMA IdStep ==
  ASSUME MInv, NoIds \/ AllocIdList \/ ReadIdList \/ AllocIdTable \/ AllocIdBlock
  PROVE  MInv'
  <1> USE DEF At, Things, Labels, WithComp, LoadingIds, LoadingTable, WithEntries, Served
  <1>1. CASE NoIds
    <2>1. /\ pc = "ids" /\ pc' = "frags" /\ Rest' = Rest \union {}
          /\ UNCHANGED <<no_cache, image, id_table>>
      BY <1>1, AcquireStep DEF NoIds, Acquire
    <2>2. TypesInv' /\ TodoInv' /\ FailsInv' /\ TableInv'
      BY <1>1, QuietStep DEF NoIds
    <2>3. HeldInv'
      BY <2>1 DEF MInv, HeldInv, CacheNames
    <2> QED
      BY <2>2, <2>3 DEF MInv
  <1>2. CASE AllocIdList
    <2>1. /\ pc = "ids" /\ pc' = "idlist" /\ Rest' = Rest \union {"id_pos_table"}
          /\ UNCHANGED <<no_cache, image, id_table>> /\ image.ids > 0
      BY <1>2, AcquireStep DEF AllocIdList, Acquire
    <2>2. TypesInv' /\ TodoInv' /\ FailsInv' /\ TableInv'
      BY <1>2, QuietStep DEF AllocIdList
    <2>3. HeldInv'
      BY <2>1 DEF MInv, HeldInv, CacheNames
    <2> QED
      BY <2>2, <2>3 DEF MInv
  <1>3. CASE ReadIdList
    <2>1. /\ pc = "idlist" /\ pc' = "idtable" /\ Rest' = Rest \union {}
          /\ UNCHANGED <<no_cache, image, id_table>>
      BY <1>3, AcquireStep DEF ReadIdList, Acquire
    <2>2. TypesInv' /\ TodoInv' /\ FailsInv' /\ TableInv'
      BY <1>3, QuietStep DEF ReadIdList
    <2>3. HeldInv'
      BY <2>1 DEF MInv, HeldInv, CacheNames
    <2> QED
      BY <2>2, <2>3 DEF MInv
  <1>4. CASE AllocIdTable
    <2>1. /\ pc = "idtable" /\ pc' = "idbuf" /\ Rest' = Rest \union {"id_table"}
          /\ UNCHANGED <<no_cache, image, id_table>>
      BY <1>4, AcquireStep DEF AllocIdTable, Acquire
    <2>2. TypesInv' /\ TodoInv' /\ FailsInv' /\ TableInv'
      BY <1>4, QuietStep DEF AllocIdTable
    <2>3. HeldInv'
      BY <2>1 DEF MInv, HeldInv, CacheNames
    <2> QED
      BY <2>2, <2>3 DEF MInv
  <1>5. CASE AllocIdBlock
    <2>1. /\ pc = "idbuf" /\ pc' = "idblock" /\ Rest' = Rest \union {"meta_block"}
          /\ UNCHANGED <<no_cache, image, id_table>>
      BY <1>5, AcquireStep DEF AllocIdBlock, Acquire
    <2>2. TypesInv' /\ TodoInv' /\ FailsInv' /\ TableInv'
      BY <1>5, QuietStep DEF AllocIdBlock
    <2>3. HeldInv'
      BY <2>1 DEF MInv, HeldInv, CacheNames
    <2> QED
      BY <2>2, <2>3 DEF MInv
  <1> QED
    BY <1>1, <1>2, <1>3, <1>4, <1>5


LEMMA FragmentsStep ==
  ASSUME MInv, NoFragments \/ AllocFragments \/ AllocIndex \/ ReadIndex \/ AllocBlock
  PROVE  MInv'
  <1> USE DEF At, Things, Labels, WithComp, LoadingIds, LoadingTable, WithEntries, Served
  <1>0. (pc \in LoadingTable => has_fragments) /\ (pc \notin Served => loaded = FALSE)
    BY DEF MInv, TableInv, TypesInv
  <1>1. CASE NoFragments
    <2>1. /\ pc = "frags" /\ pc' = "mounted" /\ Rest' = Rest \union {}
          /\ UNCHANGED <<no_cache, image, id_table, loaded>>
      BY <1>1, AcquireStep DEF NoFragments, Acquire, fragment_table
    <2>2. TypesInv' /\ TodoInv' /\ FailsInv' /\ TableInv'
      BY <1>1, QuietStep DEF NoFragments
    <2>3. HeldInv'
      BY <2>1 DEF MInv, HeldInv, CacheNames
    <2> QED
      BY <2>2, <2>3 DEF MInv
  <1>2. CASE AllocFragments
    <2>1. /\ pc = "frags" /\ pc' = "fragentries" /\ Rest' = Rest \union {"fragment_table"}
          /\ UNCHANGED <<no_cache, image, id_table, loaded>>
      BY <1>2, AcquireStep DEF AllocFragments, Acquire, fragment_table
    <2>2. TypesInv' /\ TodoInv' /\ FailsInv' /\ TableInv'
      BY <1>2, QuietStep DEF AllocFragments
    <2>3. HeldInv'
      BY <2>1 DEF MInv, HeldInv, CacheNames
    <2> QED
      BY <2>2, <2>3 DEF MInv
  <1>3. CASE AllocIndex
    <2>1. /\ pc = "fragindex" /\ pc' = "fraglist" /\ Rest' = Rest \union {"index"}
          /\ UNCHANGED <<no_cache, image, id_table, loaded>>
      BY <1>3, AcquireStep DEF AllocIndex, Acquire, fragment_table
    <2>2. TypesInv' /\ TodoInv' /\ FailsInv' /\ TableInv'
      BY <1>0, <1>3, QuietStep DEF AllocIndex
    <2>3. HeldInv'
      BY <2>1 DEF MInv, HeldInv, CacheNames
    <2> QED
      BY <2>2, <2>3 DEF MInv
  <1>4. CASE ReadIndex
    <2>1. /\ pc = "fraglist" /\ pc' = "fragbuf" /\ Rest' = Rest \union {}
          /\ UNCHANGED <<no_cache, image, id_table, loaded>>
      BY <1>4, AcquireStep DEF ReadIndex, Acquire, fragment_table
    <2>2. TypesInv' /\ TodoInv' /\ FailsInv' /\ TableInv'
      BY <1>0, <1>4, QuietStep DEF ReadIndex
    <2>3. HeldInv'
      BY <2>1 DEF MInv, HeldInv, CacheNames
    <2> QED
      BY <2>2, <2>3 DEF MInv
  <1>5. CASE AllocBlock
    <2>1. /\ pc = "fragbuf" /\ pc' = "fragblocks" /\ Rest' = Rest \union {"block_buf"}
          /\ UNCHANGED <<no_cache, image, id_table, loaded>>
      BY <1>5, AcquireStep DEF AllocBlock, Acquire, fragment_table
    <2>2. TypesInv' /\ TodoInv' /\ FailsInv' /\ TableInv'
      BY <1>0, <1>5, QuietStep DEF AllocBlock
    <2>3. HeldInv'
      BY <2>1 DEF MInv, HeldInv, CacheNames
    <2> QED
      BY <2>2, <2>3 DEF MInv
  <1> QED
    BY <1>1, <1>2, <1>3, <1>4, <1>5

LEMMA EntriesStep ==
  ASSUME MInv, AllocEntries
  PROVE  MInv'
  <1> USE DEF At, Things, Labels, WithComp, LoadingIds, LoadingTable, WithEntries, Served
  <1>0. /\ pc = "fragentries" /\ todo = <<>> /\ image.frags \in Nat
        /\ UNCHANGED <<image, no_cache, fault, id_table, blk>>
        /\ blk = 0 /\ loaded = FALSE /\ has_fragments
        /\ entries' = [i \in 1 .. image.frags |-> 0]
    BY ImageTypes DEF AllocEntries, Acquire, MInv, TypesInv, TableInv
  <1>1. CASE image.frags = 0
    <2>1. pc' = "mounted" /\ loaded' = TRUE /\ Acquire("mounted", {})
      BY <1>1 DEF AllocEntries, Acquire
    <2>2. Rest' = Rest \union {} /\ TodoInv'
      BY <1>0, <2>1, AcquireStep
    <2>3. entries' = [i \in 1 .. image.frags |-> i]
      BY <1>0, <1>1
    <2>4. TypesInv' /\ FailsInv' /\ TableInv'
      BY <1>0, <2>1, <2>3 DEF MInv, TypesInv, FailsInv, TableInv
    <2>5. HeldInv'
      BY <1>0, <2>1, <2>2 DEF MInv, HeldInv, CacheNames
    <2> QED
      BY <2>2, <2>4, <2>5 DEF MInv
  <1>2. CASE image.frags # 0
    <2>1. pc' = "fragindex" /\ loaded' = FALSE /\ Acquire("fragindex", {"entries"})
      BY <1>0, <1>2 DEF AllocEntries, Acquire
    <2>2. Rest' = Rest \union {"entries"} /\ TodoInv'
      BY <1>0, <2>1, AcquireStep
    <2>3. EntriesRead'
      BY <1>0, MountSizes DEF EntriesRead
    <2>4. (blk \in 0 .. Ceil(image.frags, FRAGS_PER_BLOCK))'
      <3>1. Ceil(image.frags, FRAGS_PER_BLOCK) \in Nat
        BY <1>0, Blocks, MountSizes
      <3>2. Ceil(image.frags, FRAGS_PER_BLOCK)' = Ceil(image.frags, FRAGS_PER_BLOCK)
        BY <1>0, SameImage
      <3> QED
        BY <1>0, <3>1, <3>2
    <2>5. TypesInv' /\ FailsInv' /\ TableInv'
      BY <1>0, <2>1, <2>3, <2>4, SameImage DEF MInv, TypesInv, FailsInv, TableInv
    <2>6. HeldInv'
      BY <1>0, <2>1, <2>2 DEF MInv, HeldInv, CacheNames
    <2> QED
      BY <2>2, <2>5, <2>6 DEF MInv
  <1> QED
    BY <1>1, <1>2

\* Reading a block more of the table.
LEMMA BlockStep ==
  ASSUME MInv, ReadFragmentBlock
  PROVE  MInv'
  <1> DEFINE F == FRAGS_PER_BLOCK
             n == image.frags
             first == blk * F
  <1>0. /\ pc = "fragblocks" /\ n \in Nat /\ F \in Nat \ {0} /\ blk \in Nat
        /\ blk < Ceil(n, F) /\ Ceil(n, F) \in Nat
        /\ UNCHANGED <<image, no_cache, pc, todo, held, wild, id_table, loaded, fault>>
        /\ blk' = blk + 1 /\ loaded = FALSE /\ has_fragments /\ EntriesRead
    <2>1. /\ pc = "fragblocks" /\ blk' = blk + 1 /\ blk < Ceil(n, F)
          /\ UNCHANGED <<image, no_cache, pc, todo, held, wild, id_table, loaded, fault>>
      BY DEF ReadFragmentBlock, At
    <2>2. n \in Nat /\ F \in Nat \ {0}
      BY ImageTypes, MountSizes DEF MInv, TypesInv
    <2>3. Ceil(n, F) \in Nat
      BY <2>2, Blocks
    <2>4. /\ loaded = FALSE /\ has_fragments /\ EntriesRead
          /\ blk \in 0 .. Ceil(n, F)
      BY <2>1 DEF MInv, TypesInv, TableInv, Served, LoadingTable, WithEntries
    <2> QED
      BY <2>1, <2>2, <2>3, <2>4
  <1>1. first \in Nat /\ (blk + 1) * F = first + F
    BY <1>0
  <1>2. entries = [i \in 1 .. n |-> IF i <= first THEN i ELSE 0]
    BY <1>0 DEF EntriesRead
  <1>3. entries' = [i \in DOMAIN entries |->
                      IF i \in first + 1 .. first + InBlock(blk) THEN i ELSE entries[i]]
    BY DEF ReadFragmentBlock
  <1>4. InBlock(blk) = IF n - first > F THEN F ELSE n - first
    BY DEF InBlock
  <1> HIDE DEF F, n, first
  <1>5. entries' = [i \in 1 .. n |-> IF i <= first + F THEN i ELSE 0]
    BY <1>0, <1>1, <1>2, <1>3, <1>4
  <1>6. EntriesRead'
    BY <1>0, <1>1, <1>5 DEF EntriesRead, F, n
  <1>7. (blk \in 0 .. Ceil(image.frags, FRAGS_PER_BLOCK))'
    BY <1>0 DEF F, n
  <1>8. TypesInv' /\ FailsInv' /\ TableInv'
    BY <1>0, <1>6, <1>7, SameImage
       DEF MInv, TypesInv, FailsInv, TableInv, Served, LoadingTable, WithEntries
  <1>9. Rest' = Rest /\ TodoInv' /\ HeldInv'
    BY <1>0 DEF MInv, TodoInv, HeldInv, Rest
  <1> QED
    BY <1>8, <1>9 DEF MInv


LEMMA LoadedStep ==
  ASSUME MInv, FragmentsLoaded
  PROVE  MInv'
  <1> USE DEF At, Labels, WithComp, LoadingIds, LoadingTable, WithEntries, Served
  <1>0. /\ pc = "fragblocks" /\ pc' = "mounted" /\ todo = <<>> /\ loaded' = TRUE
        /\ UNCHANGED <<image, no_cache, fault, id_table, entries>>
        /\ Release("mounted", <<"block_buf", "index">>)
        /\ image.frags \in Nat /\ blk = Ceil(image.frags, FRAGS_PER_BLOCK)
        /\ EntriesRead
    BY ImageTypes DEF FragmentsLoaded, Release, MInv, TypesInv, TableInv
  <1>1. entries = [i \in 1 .. image.frags |-> i]
    <2> DEFINE m == blk * FRAGS_PER_BLOCK
    <2>1. m \in Nat /\ image.frags <= m
      <3> DEFINE c == Ceil(image.frags, FRAGS_PER_BLOCK)
      <3>1. c \in Nat /\ image.frags <= c * FRAGS_PER_BLOCK
        BY <1>0, Blocks, MountSizes
      <3>2. blk = c
        BY <1>0
      <3> HIDE DEF c
      <3> QED
        BY <3>1, <3>2, MountSizes
    <2>2. entries = [i \in 1 .. image.frags |-> IF i <= m THEN i ELSE 0]
      BY <1>0 DEF EntriesRead
    <2> HIDE DEF m
    <2> QED
      BY <1>0, <2>1, <2>2
  <1>2. TypesInv' /\ FailsInv' /\ TableInv'
    BY <1>0, <1>1, SameImage DEF MInv, TypesInv, FailsInv, TableInv
  <1>3. Lists(<<"block_buf", "index">>, {"block_buf", "index"})
    BY ShortLists DEF Things
  <1>4. {"block_buf", "index"} \subseteq held
    BY <1>0 DEF MInv, HeldInv, Rest
  <1>5. Rest' = Rest \ {"block_buf", "index"} /\ TodoInv'
    BY <1>0, <1>3, <1>4, ReleaseStep
  <1>6. HeldInv'
    BY <1>0, <1>5 DEF MInv, HeldInv, CacheNames
  <1> QED
    BY <1>2, <1>5, <1>6 DEF MInv

LEMMA ReadIdsStep ==
  ASSUME MInv, ReadIds
  PROVE  MInv'
  <1> USE DEF At, Labels, WithComp, LoadingIds, LoadingTable, WithEntries, Served
  <1>0. /\ pc = "idblock" /\ pc' = "frags" /\ todo = <<>>
        /\ UNCHANGED <<image, no_cache, fault, fragment_table>>
        /\ Release("frags", <<"meta_block", "id_pos_table">>)
        /\ id_table' = [i \in 1 .. image.ids |-> IF i <= IDS_PER_BLOCK THEN i ELSE 0]
    BY DEF ReadIds, Release
  <1>1. id_table' # <<>>
    <2>1. image.ids \in Nat /\ image.ids > 0
      BY <1>0, ImageTypes DEF MInv, TypesInv, HeldInv
    <2>2. DOMAIN id_table' = 1 .. image.ids /\ 1 \in 1 .. image.ids
      BY <1>0, <2>1
    <2>3. 1 \notin DOMAIN <<>>
      OBVIOUS
    <2> HIDE DEF At, LoadingIds, WithEntries, LoadingTable, Served, WithComp, Labels
    <2> QED
      BY <2>2, <2>3
  <1>2. TypesInv' /\ FailsInv' /\ TableInv'
    BY <1>0, SameImage DEF MInv, TypesInv, FailsInv, TableInv, fragment_table
  <1>3. Lists(<<"meta_block", "id_pos_table">>, {"meta_block", "id_pos_table"})
    BY ShortLists DEF Things
  <1>4. {"meta_block", "id_pos_table"} \subseteq held
    BY <1>0 DEF MInv, HeldInv, Rest
  <1>5. Rest' = Rest \ {"meta_block", "id_pos_table"} /\ TodoInv'
    BY <1>0, <1>3, <1>4, ReleaseStep
  <1>6. HeldInv'
    <2>1. loaded' = loaded
      BY <1>0 DEF fragment_table
    <2> QED
      BY <1>0, <1>1, <1>5, <2>1 DEF MInv, HeldInv, CacheNames
  <1> QED
    BY <1>2, <1>5, <1>6 DEF MInv

\* What an exit of a loader releases, by the step that fails.
FreesSet ==
  CASE pc \in {"sb", "comp"} -> {"sb"}
    [] pc \in {"idlist", "idtable"} -> {"id_pos_table"}
    [] pc = "idbuf" -> {"id_pos_table", "id_table"}
    [] pc = "idblock" -> {"meta_block", "id_pos_table", "id_table"}
    [] pc = "fragindex" -> {"entries"}
    [] pc \in {"fraglist", "fragbuf"} -> {"index", "entries"}
    [] pc = "fragblocks" -> {"block_buf", "index", "entries"}
    [] OTHER -> {}

LEMMA FreesListed ==
  ASSUME MInv, Tries
  PROVE  Lists(Frees[pc], FreesSet) /\ FreesSet \subseteq held
  <1>0. Rest = held /\ pc \in DOMAIN Frees
    BY DEF Tries, Rest, ToSet
  <1>1. CASE pc \in {"context", "caches", "ids", "frags", "fragentries"}
    <2>1. Frees[pc] = <<>> /\ FreesSet = {}
      BY <1>1 DEF Frees, FreesSet
    <2> QED
      BY <2>1, EmptyList
  <1>2. CASE pc \in {"sb", "comp"}
    <2>1. Frees[pc] = <<"sb">> /\ FreesSet = {"sb"}
      BY <1>2 DEF Frees, FreesSet
    <2>2. "sb" \in held
      BY <1>0, <1>2 DEF MInv, HeldInv
    <2> QED
      BY <2>1, <2>2, ShortLists DEF Things
  <1>3. CASE pc \in {"idlist", "idtable"}
    <2>1. Frees[pc] = <<"id_pos_table">> /\ FreesSet = {"id_pos_table"}
      BY <1>3 DEF Frees, FreesSet
    <2>2. "id_pos_table" \in held
      BY <1>0, <1>3 DEF MInv, HeldInv, LoadingIds
    <2> QED
      BY <2>1, <2>2, ShortLists DEF Things
  <1>4. CASE pc = "idbuf"
    <2>1. Frees[pc] = <<"id_pos_table", "id_table">> /\ FreesSet = {"id_pos_table", "id_table"}
      BY <1>4 DEF Frees, FreesSet
    <2>2. "id_pos_table" \in held /\ "id_table" \in held
      BY <1>0, <1>4 DEF MInv, HeldInv, LoadingIds
    <2> QED
      BY <2>1, <2>2, ShortLists DEF Things
  <1>5. CASE pc = "idblock"
    <2>1. /\ Frees[pc] = <<"meta_block", "id_pos_table", "id_table">>
          /\ FreesSet = {"meta_block", "id_pos_table", "id_table"}
      BY <1>5 DEF Frees, FreesSet
    <2>2. "id_pos_table" \in held /\ "id_table" \in held /\ "meta_block" \in held
      BY <1>0, <1>5 DEF MInv, HeldInv, LoadingIds
    <2> QED
      BY <2>1, <2>2, ShortLists DEF Things
  <1>6. CASE pc = "fragindex"
    <2>1. Frees[pc] = <<"entries">> /\ FreesSet = {"entries"}
      BY <1>6 DEF Frees, FreesSet
    <2>2. "entries" \in held
      BY <1>0, <1>6 DEF MInv, HeldInv, WithEntries
    <2> QED
      BY <2>1, <2>2, ShortLists DEF Things
  <1>7. CASE pc \in {"fraglist", "fragbuf"}
    <2>1. Frees[pc] = <<"index", "entries">> /\ FreesSet = {"index", "entries"}
      BY <1>7 DEF Frees, FreesSet
    <2>2. "index" \in held /\ "entries" \in held
      BY <1>0, <1>7 DEF MInv, HeldInv, WithEntries
    <2> QED
      BY <2>1, <2>2, ShortLists DEF Things
  <1>8. CASE pc = "fragblocks"
    <2>1. /\ Frees[pc] = <<"block_buf", "index", "entries">>
          /\ FreesSet = {"block_buf", "index", "entries"}
      BY <1>8 DEF Frees, FreesSet
    <2>2. "block_buf" \in held /\ "index" \in held /\ "entries" \in held
      BY <1>0, <1>8 DEF MInv, HeldInv, WithEntries
    <2> QED
      BY <2>1, <2>2, ShortLists DEF Things
  <1> QED
    BY <1>0, <1>1, <1>2, <1>3, <1>4, <1>5, <1>6, <1>7, <1>8 DEF Frees


LEMMA FailStep ==
  ASSUME MInv, MountFails
  PROVE  MInv'
  <1> USE DEF At, Labels, WithComp, LoadingIds, LoadingTable, WithEntries, Served
  <1> DEFINE label == IF pc \in {"context", "sb", "comp"} THEN "close" ELSE "error"
  <1>0. /\ todo = <<>> /\ Tries /\ Release(label, Frees[pc])
        /\ pc \in {"context", "sb", "comp", "caches", "ids", "idlist", "idtable", "idbuf",
                   "idblock", "frags"}
        /\ UNCHANGED <<id_table, fragment_table>>
        /\ fault' = (fault \/ ~Refused)
    BY DEF MountFails, Tries
  <1>1. /\ label \in {"close", "error"}
        /\ label = "close" <=> pc \in {"context", "sb", "comp"}
    OBVIOUS
  <1> HIDE DEF label
  <1>2. /\ pc' = label /\ UNCHANGED <<image, no_cache, id_table, entries, loaded, blk>>
        /\ fault' \in BOOLEAN /\ (fault => fault')
    BY <1>0 DEF Release, fragment_table, Refused, MInv, TypesInv
  <1>3. Rest = held /\ Rest' = Rest \ FreesSet /\ TodoInv'
    BY <1>0, FreesListed, ReleaseStep
  <1>4. fault' \/ ~Accepted(image) \/ ~InFile(image.ids) \/ ~IdBlockReadable
    BY <1>0 DEF Refused
  <1>5. TypesInv' /\ FailsInv'
    BY <1>1, <1>2, <1>4, SameImage DEF MInv, TypesInv, FailsInv
  <1>6. TableInv'
    BY <1>0, <1>1, <1>2, SameImage DEF MInv, TypesInv, TableInv
  <1>7. HeldInv'
    BY <1>0, <1>1, <1>2, <1>3 DEF MInv, HeldInv, CacheNames, FreesSet
  <1> QED
    BY <1>3, <1>5, <1>6, <1>7 DEF MInv

LEMMA TableFailStep ==
  ASSUME MInv, FragmentsFail
  PROVE  MInv'
  <1> USE DEF At, Labels, WithComp, LoadingIds, LoadingTable, WithEntries, Served
  <1>0. /\ todo = <<>> /\ Tries /\ Release("mounted", Frees[pc])
        /\ pc \in {"fragentries", "fragindex", "fraglist", "fragbuf", "fragblocks"}
        /\ UNCHANGED <<image, no_cache, id_table, loaded>> /\ pc' = "mounted"
        /\ fault' = (fault \/ ~Refused)
    BY DEF FragmentsFail, Release, Tries
  <1>1. fault' \in BOOLEAN /\ (fault => fault') /\ loaded = FALSE
    BY <1>0 DEF Refused, MInv, TypesInv, TableInv
  <1>2. Rest = held /\ Rest' = Rest \ FreesSet /\ TodoInv'
    BY <1>0, FreesListed, ReleaseStep
  <1>3. fault' \/ NotReadable
    <2>1. CASE pc # "fragblocks"
      BY <1>0, <2>1 DEF Refused
    <2>2. CASE pc = "fragblocks"
      <3> DEFINE c == Ceil(image.frags, FRAGS_PER_BLOCK)
      <3>1. c \in Nat
        BY ImageTypes, MountSizes, Blocks DEF MInv, TypesInv
      <3>2. blk \in 0 .. c /\ blk < c
        BY <1>0, <2>2 DEF MInv, TableInv, Tries
      <3>3. blk \in 0 .. c - 1
        <4> HIDE DEF c
        <4> QED
          BY <3>1, <3>2
      <3>4. BlockReadable(blk) => fault'
        BY <1>0, <2>2 DEF Refused
      <3> QED
        BY <3>3, <3>4 DEF NotReadable
    <2> QED
      BY <2>1, <2>2
  <1>4. TypesInv' /\ FailsInv'
    BY <1>0, <1>1 DEF MInv, TypesInv, FailsInv
  <1>5. TableInv'
    BY <1>0, <1>1, <1>3, SameImage DEF MInv, TableInv
  <1>6. HeldInv'
    BY <1>0, <1>1, <1>2 DEF MInv, HeldInv, CacheNames, FreesSet
  <1> QED
    BY <1>2, <1>4, <1>5, <1>6 DEF MInv

\* Main before init_context, and the exits after it.
LEMMA ExitStep ==
  ASSUME MInv, OpenFails \/ ErrorExit \/ CloseImage
  PROVE  MInv'
  <1> USE DEF At, Labels, WithComp, LoadingIds, LoadingTable, WithEntries, Served
  <1>1. CASE OpenFails
    <2>1. /\ pc = "main" /\ pc' = "failed" /\ todo = <<>> /\ fault' = TRUE
          /\ UNCHANGED <<image, no_cache, id_table, entries, loaded, blk>>
          /\ Release("failed", <<>>)
      BY <1>1 DEF OpenFails, Release, fragment_table
    <2>2. Rest' = Rest \ {} /\ TodoInv'
      BY <2>1, EmptyList, ReleaseStep
    <2>3. TypesInv' /\ FailsInv' /\ TableInv'
      BY <2>1, SameImage DEF MInv, TypesInv, FailsInv, TableInv
    <2>4. HeldInv'
      BY <2>1, <2>2 DEF MInv, HeldInv, CacheNames
    <2> QED
      BY <2>2, <2>3, <2>4 DEF MInv
  <1>2. CASE ErrorExit
    <2> DEFINE list == IF no_cache THEN <<"comp", "sb">> ELSE Caches \o <<"comp", "sb">>
               L == IF no_cache THEN {"comp", "sb"} ELSE CacheNames \union {"comp", "sb"}
    <2>1. /\ pc = "error" /\ pc' = "close" /\ todo = <<>>
          /\ UNCHANGED <<image, no_cache, id_table, entries, loaded, blk, fault>>
          /\ Release("close", list)
      BY <1>2 DEF ErrorExit, Release, fragment_table
    <2>2. Lists(list, L)
      <3>1. Lists(<<"comp", "sb">>, {"comp", "sb"})
        BY ShortLists DEF Things
      <3>2. Lists(Caches \o <<"comp", "sb">>, CacheNames \union {"comp", "sb"})
        BY <3>1, CachesListed, JoinedLists DEF CacheNames
      <3> QED
        BY <3>1, <3>2
    <2>3. L \subseteq held \union CacheNames
      BY <2>1 DEF MInv, HeldInv, Rest
    <2> HIDE DEF list
    <2>4. Rest' = Rest \ L /\ TodoInv'
      BY <2>1, <2>2, <2>3, ReleaseStep
    <2>5. TypesInv' /\ FailsInv' /\ TableInv'
      BY <2>1, SameImage DEF MInv, TypesInv, FailsInv, TableInv
    <2>6. HeldInv'
      BY <2>1, <2>4 DEF MInv, HeldInv, CacheNames
    <2> QED
      BY <2>4, <2>5, <2>6 DEF MInv
  <1>3. CASE CloseImage
    <2>1. /\ pc = "close" /\ pc' = "failed" /\ todo = <<>>
          /\ UNCHANGED <<image, no_cache, id_table, entries, loaded, blk, fault>>
          /\ Release("failed", <<"fd">>)
      BY <1>3 DEF CloseImage, Release, fragment_table
    <2>2. Lists(<<"fd">>, {"fd"}) /\ "fd" \in held
      BY <2>1, ShortLists DEF MInv, HeldInv, Rest, Things
    <2>3. Rest' = Rest \ {"fd"} /\ TodoInv'
      BY <2>1, <2>2, ReleaseStep
    <2>4. TypesInv' /\ FailsInv' /\ TableInv'
      BY <2>1, SameImage DEF MInv, TypesInv, FailsInv, TableInv
    <2>5. HeldInv'
      BY <2>1, <2>3 DEF MInv, HeldInv, CacheNames
    <2> QED
      BY <2>3, <2>4, <2>5 DEF MInv
  <1> QED
    BY <1>1, <1>2, <1>3

\* One release: what stays held is the same.
LEMMA FreeStep ==
  ASSUME MInv, FreeNext
  PROVE  MInv'
  <1> DEFINE S == ToSet(todo)
             h == Head(todo)
  <1>1. /\ todo # <<>> /\ held' = held \ {h} /\ todo' = Tail(todo)
        /\ wild' = (wild \/ h \notin held \union ToSet(Caches))
        /\ UNCHANGED <<image, no_cache, pc, id_table, entries, loaded, blk, fault>>
    BY DEF FreeNext, fragment_table
  <1>2. Lists(todo, S) /\ S \subseteq held \union CacheNames /\ held \subseteq Things /\ ~wild
    BY DEF MInv, TodoInv
  <1>3. h \in S /\ Lists(todo', S \ {h})
    BY <1>1, <1>2, ListTail
  <1>4. ToSet(Caches) = CacheNames
    BY CachesListed DEF Lists
  <1>5. ToSet(todo)' = S \ {h}
    BY <1>3 DEF Lists
  <1> HIDE DEF S, h
  <1>6. TodoInv'
    BY <1>1, <1>2, <1>3, <1>4, <1>5 DEF TodoInv
  <1>7. Rest' = Rest
    BY <1>1, <1>3, <1>5 DEF Rest, S
  <1>8. HeldInv'
    BY <1>1, <1>7 DEF MInv, HeldInv
  <1>9. TypesInv' /\ FailsInv' /\ TableInv'
    BY <1>1, SameImage DEF MInv, TypesInv, FailsInv, TableInv, EntriesRead
  <1> QED
    BY <1>6, <1>8, <1>9 DEF MInv

LEMMA MountedStep ==
  ASSUME MInv, ServeRead \/ Unmount
  PROVE  MInv'
  <1> USE DEF At, Labels, WithComp, LoadingIds, LoadingTable, WithEntries, Served
  <1>1. CASE ServeRead
    <2>1. /\ pc = "mounted" /\ pc' \in {"mounted", "crashed"}
          /\ UNCHANGED <<image, no_cache, todo, held, wild, id_table, entries, loaded, blk, fault>>
      BY <1>1 DEF ServeRead, fragment_table
    <2>2. Rest' = Rest /\ TodoInv'
      BY <2>1 DEF MInv, TodoInv, Rest
    <2>3. TypesInv' /\ FailsInv' /\ TableInv'
      BY <2>1, SameImage DEF MInv, TypesInv, FailsInv, TableInv
    <2>4. HeldInv'
      BY <2>1, <2>2 DEF MInv, HeldInv
    <2> QED
      BY <2>2, <2>3, <2>4 DEF MInv
  <1>2. CASE Unmount
    <2> DEFINE ids == IF "id_table" \in held THEN <<"id_table">> ELSE <<>>
               Ids == IF "id_table" \in held THEN {"id_table"} ELSE {}
               caches == IF no_cache THEN <<>> ELSE Caches
               Cs == IF no_cache THEN {} ELSE CacheNames
               last == <<"comp", "sb", "fd">>
               list == ids \o caches \o last
               L == Ids \union Cs \union {"comp", "sb", "fd"}
    <2>1. /\ pc = "mounted" /\ pc' = "unmounted" /\ todo = <<>> /\ id_table' = <<>>
          /\ UNCHANGED <<image, no_cache, entries, loaded, blk, fault>>
          /\ Release("unmounted", list)
      BY <1>2 DEF Unmount, Release, fragment_table
    <2>2. Lists(list, L)
      <3>1. Lists(ids, Ids)
        BY EmptyList, ShortLists DEF Things
      <3>2. Lists(caches, Cs)
        BY EmptyList, CachesListed
      <3>3. Lists(last, {"comp", "sb", "fd"})
        BY ShortLists DEF Things
      <3>4. /\ Ids \intersect Cs = {}
            /\ (Ids \union Cs) \intersect {"comp", "sb", "fd"} = {}
        BY DEF CacheNames
      <3> HIDE DEF ids, Ids, caches, Cs, last
      <3>5. Lists(ids \o caches, Ids \union Cs)
        BY <3>1, <3>2, <3>4, JoinedLists
      <3> QED
        BY <3>3, <3>4, <3>5, JoinedLists
    <2>3. L \subseteq held \union CacheNames
      BY <2>1 DEF MInv, HeldInv, Rest
    <2> HIDE DEF list
    <2>4. Rest = held /\ Rest' = Rest \ L /\ TodoInv'
      BY <2>1, <2>2, <2>3, ReleaseStep
    <2>5. TypesInv' /\ FailsInv' /\ TableInv'
      BY <2>1, SameImage DEF MInv, TypesInv, FailsInv, TableInv
    <2>6. HeldInv'
      BY <2>1, <2>4 DEF MInv, HeldInv, CacheNames
    <2> QED
      BY <2>4, <2>5, <2>6 DEF MInv
  <1> QED
    BY <1>1, <1>2

LEMMA MountNext == MInv /\ [Next]_vars => MInv'
  <1> SUFFICES ASSUME MInv, [Next]_vars PROVE MInv'
    OBVIOUS
  <1>1. CASE UNCHANGED vars
    <2>1. UNCHANGED <<image, no_cache, pc, todo, held, wild, id_table, entries, loaded, blk, fault>>
      BY <1>1 DEF vars
    <2>2. TodoInv' /\ Rest' = Rest
      BY <2>1 DEF MInv, TodoInv, Rest
    <2> QED
      BY <2>1, <2>2, SameImage DEF MInv, TypesInv, HeldInv, FailsInv, TableInv, EntriesRead
  <1> QED
    BY <1>1, ContextStep, IdStep, ReadIdsStep, FragmentsStep, EntriesStep, BlockStep, LoadedStep,
       FailStep, TableFailStep, ExitStep, FreeStep, MountedStep DEF Next

LEMMA MountInvariant == Spec => []MInv
  BY MountInit, MountNext, PTL DEF Spec

\* Whatever step of a mount fails, the exits it goes through release everything
\* that is held, once, and nothing else, but for an ID table that was read; so
\* does an unmount, but for the fragment table (init_context, load_id_table,
\* sqfs_fragment_table_load, destroy_context).
THEOREM UnwindCorrect == Spec => []Unwinds
  <1>1. MInv => Unwinds
    <2> SUFFICES ASSUME MInv PROVE Unwinds
      OBVIOUS
    <2>1. todo = <<>> => Rest = held
      BY DEF Rest, ToSet
    <2>2. held \subseteq Things /\ ~wild
      BY DEF MInv, TodoInv
    <2> QED
      BY <2>1, <2>2
         DEF MInv, HeldInv, Unwinds, At, Things, CacheNames, WithComp, LoadingIds, LoadingTable,
             WithEntries, Served
  <1> QED
    BY <1>1, MountInvariant, PTL

\* A fragment table that counts as loaded has every entry of the image's, in
\* order, however many blocks it takes; one that is not was kept from it.
THEOREM TableCorrect == Spec => []FragmentsFaithful
  <1>1. MInv => FragmentsFaithful
    BY DEF MInv, TableInv, FragmentsFaithful, NotReadable, At
  <1> QED
    BY <1>1, MountInvariant, PTL

\* A supported image with room behind the list of the ID table's blocks fails to
\* mount only when the system fails.
THEOREM PaddedMount == Spec => []PaddedImagesMount
  <1>1. MInv => PaddedImagesMount
    <2> SUFFICES ASSUME MInv, pc = "failed", Supported, image.tail >= image.ids, IdBlockReadable
                 PROVE  fault
      BY DEF PaddedImagesMount
    <2>1. image \in Images /\ image.ids \in Nat /\ image.tail \in Nat
      BY ImageTypes DEF MInv, TypesInv
    <2>2. Ceil(image.ids, IDS_PER_BLOCK) \in Nat
      BY <2>1, Blocks, MountSizes
    <2>3. InFile(image.ids)
      BY <2>1, <2>2 DEF InFile
    <2> QED
      BY <2>1, <2>3, AcceptsSupported DEF MInv, FailsInv
  <1> QED
    BY <1>1, MountInvariant, PTL

=============================================================================
