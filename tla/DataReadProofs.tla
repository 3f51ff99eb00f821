--------------------------- MODULE DataReadProofs ---------------------------
(***************************************************************************)
(* Proofs about DataRead, for every file, every size of a block and every  *)
(* offset and length of a read.  The lemmas on sums are those of           *)
(* DirectoryProofs: each module of proofs can be read alone.               *)
(***************************************************************************)
EXTENDS DataRead, SequenceTheorems, WellFoundedInduction, TLAPS

(***************************************************************************)
(* Sums.                                                                   *)
(***************************************************************************)
\* What holds of a number whenever it holds of the one before holds of all.
LEMMA EveryNumber ==
  ASSUME NEW T, 0 \in T, \A n \in Nat : n \in T => n + 1 \in T
  PROVE  \A n \in Nat : n \in T
  <1> SUFFICES ASSUME NEW n \in Nat, n \notin T PROVE FALSE
    OBVIOUS
  <1> DEFINE R == OpToRel(<, Nat)
             Out == {m \in Nat : m \notin T}
  <1>1. IsWellFoundedOn(R, Nat)
    BY NatLessThanWellFounded
  <1>2. \A x, y \in Nat : x < y => <<x, y>> \in R
    BY DEF OpToRel
  <1>3. PICK x \in Out : \A y \in Out : ~(<<y, x>> \in R)
    <2>1. Out \subseteq Nat /\ Out # {}
      OBVIOUS
    <2> HIDE DEF R, Out
    <2> QED
      BY <1>1, <2>1, WFMin
  <1> HIDE DEF R
  <1>4. x \in Nat /\ x # 0 /\ x \notin T
    BY <1>3
  <1>5. x - 1 \in Nat /\ x - 1 < x /\ (x - 1) + 1 = x
    BY <1>4
  <1>6. x - 1 \notin Out
    BY <1>2, <1>3, <1>4, <1>5
  <1> QED
    BY <1>4, <1>5, <1>6

\* f has the sums of the first 0, 1, ... n numbers of d.
IsSum(d, f, n) == f = [i \in 0 .. n |-> IF i = 0 THEN 0 ELSE f[i - 1] + d[i]]

LEMMA SumsExist ==
  ASSUME NEW d, NEW N \in Nat, \A i \in 1 .. N : d[i] \in Nat
  PROVE  \A n \in 0 .. N : \E f \in [0 .. n -> Nat] : IsSum(d, f, n)
  <1> DEFINE T == {n \in Nat : n <= N => \E f \in [0 .. n -> Nat] : IsSum(d, f, n)}
  <1>1. 0 \in T
    <2> DEFINE f == [i \in 0 .. 0 |-> 0]
    <2>1. f \in [0 .. 0 -> Nat] /\ IsSum(d, f, 0)
      BY DEF IsSum
    <2> QED
      BY <2>1
  <1>2. ASSUME NEW n \in Nat, n \in T PROVE n + 1 \in T
    <2> SUFFICES ASSUME n + 1 <= N
                 PROVE  \E f \in [0 .. n + 1 -> Nat] : IsSum(d, f, n + 1)
      OBVIOUS
    <2>1. PICK f \in [0 .. n -> Nat] : IsSum(d, f, n)
      BY <1>2
    <2>2. \A i \in 0 .. n : f[i] = IF i = 0 THEN 0 ELSE f[i - 1] + d[i]
      BY <2>1 DEF IsSum
    <2> DEFINE g == [i \in 0 .. n + 1 |-> IF i = n + 1 THEN f[n] + d[n + 1] ELSE f[i]]
    <2>3. d[n + 1] \in Nat /\ f[n] \in Nat
      <3>1. n + 1 \in 1 .. N
        OBVIOUS
      <3> QED
        BY <2>1, <3>1
    <2>4. g \in [0 .. n + 1 -> Nat]
      BY <2>1, <2>3
    <2>5. ASSUME NEW i \in 0 .. n + 1
          PROVE  g[i] = IF i = 0 THEN 0 ELSE g[i - 1] + d[i]
      <3>1. CASE i = n + 1
        BY <3>1
      <3>2. CASE i \in 0 .. n
        BY <2>2, <3>2
      <3> QED
        BY <3>1, <3>2
    <2>6. IsSum(d, g, n + 1)
      <3>1. DOMAIN g = 0 .. n + 1
        OBVIOUS
      <3> HIDE DEF g
      <3> QED
        BY <2>4, <2>5 DEF IsSum
    <2> QED
      BY <2>4, <2>6
  <1> HIDE DEF T
  <1>3. \A n \in Nat : n \in T
    BY <1>1, <1>2, EveryNumber
  <1>4. ASSUME NEW n \in 0 .. N PROVE \E f \in [0 .. n -> Nat] : IsSum(d, f, n)
    <2>1. n \in T /\ n <= N
      BY <1>3
    <2> QED
      BY <2>1 DEF T
  <1> QED
    BY <1>4

LEMMA SumsAgree ==
  ASSUME NEW d, NEW m \in Nat, NEW n \in Nat, NEW f, NEW g, IsSum(d, f, m), IsSum(d, g, n)
  PROVE  \A i \in Nat : i <= m /\ i <= n => f[i] = g[i]
  <1> DEFINE T == {i \in Nat : i <= m /\ i <= n => f[i] = g[i]}
  <1>f. \A i \in 0 .. m : f[i] = IF i = 0 THEN 0 ELSE f[i - 1] + d[i]
    BY DEF IsSum
  <1>g. \A i \in 0 .. n : g[i] = IF i = 0 THEN 0 ELSE g[i - 1] + d[i]
    BY DEF IsSum
  <1>1. 0 \in T
    BY <1>f, <1>g
  <1>2. ASSUME NEW i \in Nat, i \in T PROVE i + 1 \in T
    <2> SUFFICES ASSUME i + 1 <= m, i + 1 <= n PROVE f[i + 1] = g[i + 1]
      OBVIOUS
    <2>1. f[i + 1] = f[i] + d[i + 1] /\ g[i + 1] = g[i] + d[i + 1]
      BY <1>f, <1>g
    <2> QED
      BY <1>2, <2>1
  <1> HIDE DEF T
  <1>3. \A i \in Nat : i \in T
    BY <1>1, <1>2, EveryNumber
  <1> QED
    BY <1>3 DEF T

\* One number more.
LEMMA TotalFacts ==
  ASSUME NEW d, NEW N \in Nat, \A i \in 1 .. N : d[i] \in Nat
  PROVE  /\ Total(d, 0) = 0
         /\ \A n \in 0 .. N : Total(d, n) \in Nat
         /\ \A n \in 1 .. N : Total(d, n) = Total(d, n - 1) + d[n]
  <1> DEFINE F(n) == CHOOSE f : IsSum(d, f, n)
  <1>1. ASSUME NEW n PROVE Total(d, n) = F(n)[n]
    BY DEF Total, IsSum
  <1>2. ASSUME NEW n \in 0 .. N PROVE IsSum(d, F(n), n) /\ F(n)[n] \in Nat
    <2>1. PICK f \in [0 .. n -> Nat] : IsSum(d, f, n)
      BY SumsExist
    <2>2. IsSum(d, F(n), n)
      BY <2>1
    <2> HIDE DEF F
    <2>3. F(n)[n] = f[n]
      BY <2>1, <2>2, SumsAgree
    <2> QED
      BY <2>1, <2>2, <2>3
  <1> HIDE DEF F
  <1>3. Total(d, 0) = 0
    <2>1. 0 \in 0 .. N
      OBVIOUS
    <2>2. IsSum(d, F(0), 0) /\ Total(d, 0) = F(0)[0]
      BY <1>1, <1>2, <2>1
    <2>3. F(0)[0] = 0
      BY <2>2 DEF IsSum
    <2> QED
      BY <2>2, <2>3
  <1>4. ASSUME NEW n \in 1 .. N PROVE Total(d, n) = Total(d, n - 1) + d[n]
    <2>1. n \in 0 .. N /\ n - 1 \in 0 .. N /\ n # 0
      OBVIOUS
    <2>2. IsSum(d, F(n), n) /\ IsSum(d, F(n - 1), n - 1)
      BY <1>2, <2>1
    <2>3. F(n)[n] = F(n)[n - 1] + d[n]
      BY <2>1, <2>2 DEF IsSum
    <2>4. F(n)[n - 1] = F(n - 1)[n - 1]
      <3>1. n \in Nat /\ n - 1 \in Nat /\ n - 1 <= n /\ n - 1 <= n - 1
        OBVIOUS
      <3> QED
        BY <2>2, <3>1, SumsAgree
    <2> QED
      BY <1>1, <2>3, <2>4
  <1> QED
    BY <1>1, <1>2, <1>3, <1>4

\* Later sums are larger.
LEMMA TotalGrows ==
  ASSUME NEW d, NEW N \in Nat, \A i \in 1 .. N : d[i] \in Nat
  PROVE  \A m, n \in 0 .. N : m <= n => Total(d, m) <= Total(d, n)
  <1> SUFFICES ASSUME NEW m \in 0 .. N
               PROVE  \A n \in 0 .. N : m <= n => Total(d, m) <= Total(d, n)
    OBVIOUS
  <1> DEFINE T == {k \in Nat : m + k <= N => Total(d, m) <= Total(d, m + k)}
  <1>1. 0 \in T
    <2>1. Total(d, m) \in Nat /\ m + 0 = m
      BY TotalFacts
    <2> QED
      BY <2>1
  <1>2. ASSUME NEW k \in Nat, k \in T PROVE k + 1 \in T
    <2> SUFFICES ASSUME m + (k + 1) <= N PROVE Total(d, m) <= Total(d, m + (k + 1))
      OBVIOUS
    <2>1. m + (k + 1) \in 1 .. N /\ (m + (k + 1)) - 1 = m + k /\ m + k \in 0 .. N
      OBVIOUS
    <2>2. Total(d, m + (k + 1)) = Total(d, m + k) + d[m + (k + 1)]
      BY <2>1, TotalFacts
    <2>3. Total(d, m) \in Nat /\ Total(d, m + k) \in Nat /\ d[m + (k + 1)] \in Nat
      BY <2>1, TotalFacts
    <2>4. Total(d, m) <= Total(d, m + k)
      BY <1>2, <2>1
    <2> QED
      BY <2>2, <2>3, <2>4
  <1> HIDE DEF T
  <1>3. \A k \in Nat : k \in T
    BY <1>1, <1>2, EveryNumber
  <1>4. ASSUME NEW n \in 0 .. N, m <= n PROVE Total(d, m) <= Total(d, n)
    <2>1. n - m \in Nat /\ m + (n - m) = n
      BY <1>4
    <2>2. n - m \in T
      BY <1>3, <2>1
    <2> QED
      BY <2>1, <2>2 DEF T
  <1> QED
    BY <1>4


-----------------------------------------------------------------------------
(***************************************************************************)
(* Blocks and offsets.                                                     *)
(***************************************************************************)
B == block_size

LEMMA DivMod ==
  ASSUME NEW a \in Nat
  PROVE  /\ a \div B \in Nat /\ a % B \in 0 .. B - 1
         /\ a = ((a \div B) * B) + (a % B)
         /\ (a \div B) * B \in Nat
  <1>1. B \in Nat /\ B > 0
    BY BlockSizePositive DEF B
  <1> QED
    BY <1>1

LEMMA FewerBlocks ==
  ASSUME NEW q \in Nat, NEW k \in Nat, q * B < k * B
  PROVE  q < k
  <1>1. B \in Nat /\ B > 0
    BY BlockSizePositive DEF B
  <1>2. CASE q >= k
    <2>1. PICK d \in Nat : q = k + d
      <3>1. q - k \in Nat /\ q = k + (q - k)
        BY <1>2
      <3> QED
        BY <3>1
    <2>2. q * B = k * B + d * B /\ d * B >= 0 /\ d * B \in Int /\ k * B \in Int
      BY <1>1, <2>1
    <2> QED
      BY <2>2
  <1> QED
    BY <1>2

\* The quotient is the only one with a remainder below block_size, and grows with
\* the number.
LEMMA Quotient ==
  ASSUME NEW a \in Nat, NEW q \in Nat, NEW r \in Nat, a = q * B + r
  PROVE  q <= a \div B /\ (r < B => a \div B = q /\ a % B = r)
  <1> DEFINE p == a \div B
             t == a % B
  <1>1. B \in Nat /\ B > 0
    BY BlockSizePositive DEF B
  <1>2. p \in Nat /\ t \in 0 .. B - 1 /\ a = p * B + t /\ p * B \in Nat /\ q * B \in Nat
    BY <1>1, DivMod
  <1> HIDE DEF p, t
  <1>3. (p + 1) * B = p * B + B /\ (q + 1) * B = q * B + B
    BY <1>1, <1>2
  <1>4. q < p + 1
    <2>1. q * B < (p + 1) * B
      BY <1>1, <1>2, <1>3
    <2> QED
      BY <1>2, <2>1, FewerBlocks
  <1>5. ASSUME r < B PROVE p = q /\ t = r
    <2>1. p * B < (q + 1) * B
      BY <1>1, <1>2, <1>3, <1>5
    <2>2. p < q + 1
      BY <1>2, <2>1, FewerBlocks
    <2>3. p = q
      BY <1>2, <1>4, <2>2
    <2> QED
      BY <1>2, <2>3
  <1>6. q <= p
    BY <1>2, <1>4
  <1> QED
    BY <1>5, <1>6 DEF p, t

\* The block of a byte that is in the file exists, or the byte is in the fragment.
LEMMA Where ==
  ASSUME NEW f \in Files, NEW x \in Nat, x < f.file_size
  PROVE  LET idx == x \div B
             off == x % B
             tail == f.file_size % B
         IN  /\ idx \in Nat /\ off \in 0 .. B - 1 /\ idx * B \in Nat /\ x = (idx * B) + off
             /\ BlockCount(f) \in Nat /\ idx <= BlockCount(f)
             /\ idx = BlockCount(f) =>
                  /\ f.frag /\ off < tail /\ tail \in Nat
                  /\ f.file_size = (idx * B) + tail
  <1> DEFINE idx == x \div B
             off == x % B
             q == f.file_size \div B
             tail == f.file_size % B
  <1>1. B \in Nat /\ B > 0 /\ f.file_size \in Nat /\ f.frag \in BOOLEAN
    BY BlockSizePositive, FileTypes DEF B
  <1>2. idx \in Nat /\ off \in 0 .. B - 1 /\ idx * B \in Nat /\ x = (idx * B) + off
    BY DivMod
  <1>3. q \in Nat /\ tail \in 0 .. B - 1 /\ q * B \in Nat /\ f.file_size = (q * B) + tail
    BY <1>1, DivMod
  <1>4. BlockCount(f) = q + (IF tail > 0 /\ ~f.frag THEN 1 ELSE 0)
    BY DEF BlockCount, B
  <1> HIDE DEF idx, off, q, tail
  <1>5. BlockCount(f) \in Nat /\ q <= BlockCount(f)
    BY <1>3, <1>4
  <1>6. idx <= q
    <2>1. (q + 1) * B = q * B + B
      BY <1>1, <1>3
    <2>2. idx * B < (q + 1) * B
      BY <1>1, <1>2, <1>3, <2>1
    <2> QED
      BY <1>2, <1>3, <2>2, FewerBlocks
  <1>7. ASSUME idx = BlockCount(f)
        PROVE  f.frag /\ off < tail /\ f.file_size = (idx * B) + tail
    <2>1. idx = q
      BY <1>2, <1>3, <1>5, <1>6, <1>7
    <2>2. off < tail
      BY <1>1, <1>2, <1>3, <2>1
    <2>3. f.frag
      BY <1>1, <1>2, <1>3, <1>4, <1>7, <2>1, <2>2
    <2> QED
      BY <1>3, <2>1, <2>2, <2>3
  <1> QED
    BY <1>1, <1>2, <1>3, <1>5, <1>6, <1>7 DEF idx, off, tail

\* The bytes behind byte x, up to the end of its block, as they were packed.
LEMMA ByteOf ==
  ASSUME NEW f \in Files, NEW x \in Nat, NEW j \in Nat, j >= 1, (x % B) + j <= B,
         x + j <= f.file_size
  PROVE  /\ Content(f)[x + j] \in Nat
         /\ Content(f)[x + j]
              = IF x \div B < BlockCount(f) /\ f.block_sizes[(x \div B) + 1].len = 0
                  THEN 0 ELSE x + j
  <1>1. x + j \in 1 .. f.file_size
    BY FileTypes
  <1>2. (x + j - 1) \div B = x \div B
    <2> DEFINE q == x \div B
               r == x % B
    <2>1. q \in Nat /\ r \in Nat /\ x = (q * B) + r /\ q * B \in Nat /\ B \in Nat
      BY DivMod, BlockSizePositive DEF B
    <2> HIDE DEF q, r
    <2>2. x + j - 1 \in Nat /\ r + j - 1 \in Nat /\ x + j - 1 = (q * B) + (r + j - 1)
      BY <2>1
    <2>3. r + j - 1 < B
      BY <2>1 DEF r
    <2> QED
      BY <2>1, <2>2, <2>3, Quotient DEF q
  <1> QED
    BY <1>1, <1>2 DEF Content, InHole, B

-----------------------------------------------------------------------------
(***************************************************************************)
(* The data area.                                                          *)
(***************************************************************************)
LEMMA Sizes ==
  ASSUME NEW f \in Files
  PROVE  LET N == Len(f.block_sizes) IN
         /\ N \in Nat /\ DOMAIN f.block_sizes = 1 .. N
         /\ \A b \in 1 .. N : StoredSizes(f)[b] \in Nat /\ StoredSizes(f)[b] = f.block_sizes[b].len
  BY FileTypes DEF StoredSizes

LEMMA Behind ==
  ASSUME NEW x \in Nat, NEW y \in Nat, NEW n \in Nat, x + n <= y,
         NEW i \in Nat, i <= n, NEW j \in Nat, j >= 1
  PROVE  x + i < y + j
  OBVIOUS

\* The cells of an earlier block come before those of a later one.
LEMMA Apart ==
  ASSUME NEW f \in Files,
         NEW a \in 1 .. Len(f.block_sizes), NEW b \in 1 .. Len(f.block_sizes), a < b,
         NEW i \in 1 .. f.block_sizes[a].len, NEW j \in 1 .. f.block_sizes[b].len
  PROVE  Total(StoredSizes(f), a - 1) + i < Total(StoredSizes(f), b - 1) + j
  <1> DEFINE d == StoredSizes(f)
             N == Len(f.block_sizes)
  <1>1. N \in Nat /\ \A k \in 1 .. N : d[k] \in Nat
    BY Sizes
  <1>2. d[a] = f.block_sizes[a].len /\ d[b] = f.block_sizes[b].len /\ d[a] \in Nat /\ d[b] \in Nat
    BY Sizes
  <1>3. /\ a \in 0 .. N /\ a - 1 \in 0 .. N /\ b - 1 \in 0 .. N /\ a <= b - 1
        /\ i \in Nat /\ i <= d[a] /\ j \in Nat /\ j >= 1
    BY <1>1, <1>2
  <1> HIDE DEF d
  <1>4. /\ Total(d, a) = Total(d, a - 1) + d[a] /\ Total(d, a) \in Nat
        /\ Total(d, a - 1) \in Nat /\ Total(d, b - 1) \in Nat
    BY <1>1, <1>3, TotalFacts
  <1>5. Total(d, a) <= Total(d, b - 1)
    BY <1>1, <1>3, TotalGrows
  <1>6. Total(d, a - 1) + i < Total(d, b - 1) + j
    BY <1>2, <1>3, <1>4, <1>5, Behind
  <1> QED
    BY <1>6 DEF d

\* Each position of the data area is one cell of one block.
LEMMA CellAt ==
  ASSUME NEW f \in Files, NEW b \in 1 .. Len(f.block_sizes), NEW j \in 1 .. f.block_sizes[b].len
  PROVE  LET p == Total(StoredSizes(f), b - 1) + j IN
         /\ p \in DOMAIN DataArea(f)
         /\ DataArea(f)[p] = <<b, j>>
  <1> DEFINE d == StoredSizes(f)
             N == Len(f.block_sizes)
             p == Total(d, b - 1) + j
  <1>1. /\ N \in Nat /\ \A k \in 1 .. N : d[k] \in Nat
        /\ DOMAIN f.block_sizes = 1 .. N /\ d[b] = f.block_sizes[b].len /\ d[b] \in Nat
    BY Sizes
  <1>2. p \in 1 .. Total(d, N)
    <2>1. /\ b \in 0 .. N /\ b - 1 \in 0 .. N /\ N \in 0 .. N /\ b <= N
          /\ j \in Nat /\ j >= 1 /\ j <= d[b]
      BY <1>1
    <2> HIDE DEF d, N
    <2>2. b \in 1 .. N
      BY DEF N
    <2>3. /\ Total(d, b) = Total(d, b - 1) + d[b] /\ Total(d, b - 1) \in Nat
          /\ Total(d, b) \in Nat /\ Total(d, N) \in Nat
      BY <1>1, <2>1, <2>2, TotalFacts
    <2>4. Total(d, b) <= Total(d, N)
      BY <1>1, <2>1, TotalGrows
    <2> QED
      BY <1>1, <2>1, <2>3, <2>4
  <1>3. ASSUME NEW c \in Cells(f), Total(d, c[1] - 1) + c[2] = p PROVE c = <<b, j>>
    <2>1. PICK a \in DOMAIN f.block_sizes : c \in {a} \X (1 .. f.block_sizes[a].len)
      BY <1>3 DEF Cells
    <2>2. c = <<a, c[2]>> /\ c[1] = a /\ c[2] \in 1 .. f.block_sizes[a].len /\ a \in 1 .. N
      BY <1>1, <2>1
    <2> DEFINE i == c[2]
    <2>3. i \in 1 .. f.block_sizes[a].len /\ Total(d, a - 1) + i = p
      BY <1>3, <2>2
    <2> HIDE DEF i
    <2>4. f.block_sizes[a].len \in Nat /\ f.block_sizes[b].len \in Nat
      BY <2>2, Sizes
    <2>5. Total(d, a - 1) \in Nat /\ Total(d, b - 1) \in Nat
      <3>1. a - 1 \in 0 .. N /\ b - 1 \in 0 .. N
        BY <1>1, <2>2
      <3> HIDE DEF d, N
      <3> QED
        BY <1>1, <3>1, TotalFacts
    <2> HIDE DEF p
    <2>6. ASSUME a < b PROVE FALSE
      <3>1. Total(d, a - 1) + i < p
        BY <2>2, <2>3, <2>6, Apart DEF p
      <3> QED
        BY <2>3, <2>5, <3>1 DEF p
    <2>7. ASSUME b < a PROVE FALSE
      <3>1. p < Total(d, a - 1) + i
        BY <2>2, <2>3, <2>7, Apart DEF p
      <3> QED
        BY <2>3, <2>5, <3>1 DEF p
    <2>8. a = b
      BY <1>1, <2>2, <2>6, <2>7
    <2>9. i = j
      BY <2>3, <2>4, <2>5, <2>8 DEF p
    <2> QED
      BY <2>2, <2>8, <2>9 DEF i
  <1>4. <<b, j>> \in Cells(f) /\ Total(d, <<b, j>>[1] - 1) + <<b, j>>[2] = p
    BY <1>1 DEF Cells
  <1>5. (CHOOSE c \in Cells(f) : Total(d, c[1] - 1) + c[2] = p) = <<b, j>>
    BY <1>3, <1>4
  <1> QED
    BY <1>2, <1>5 DEF DataArea

\* The n elements behind the first a.
LEMMA Cut ==
  ASSUME NEW s, NEW a \in Nat, NEW n \in Nat
  PROVE  SubSeq(s, a + 1, a + n) = [j \in 1 .. n |-> s[a + j]]
  <1> DEFINE S == {s[i] : i \in a + 1 .. a + n}
             t == SubSeq(s, a + 1, a + n)
             g == [j \in 1 .. n |-> s[a + j]]
  <1>1. \A i \in a + 1 .. a + n : s[i] \in S
    OBVIOUS
  <1>2. /\ t \in Seq(S)
        /\ Len(t) = IF a + 1 <= a + n THEN (a + n) - (a + 1) + 1 ELSE 0
        /\ \A i \in 1 .. (a + n) - (a + 1) + 1 : t[i] = s[(a + 1) + i - 1]
    <2>1. a + 1 \in Int /\ a + n \in Int
      OBVIOUS
    <2> HIDE DEF S
    <2> QED
      BY <1>1, <2>1, SubSeqProperties
  <1>3. Len(t) = n
    <2>1. (a + 1 <= a + n => (a + n) - (a + 1) + 1 = n) /\ (~(a + 1 <= a + n) => n = 0)
      OBVIOUS
    <2> HIDE DEF t
    <2> QED
      BY <1>2, <2>1
  <1>4. ASSUME NEW i \in 1 .. n PROVE t[i] = s[a + i]
    <2>1. (a + n) - (a + 1) + 1 = n /\ (a + 1) + i - 1 = a + i
      OBVIOUS
    <2> HIDE DEF t
    <2> QED
      BY <1>2, <2>1
  <1>5. g \in Seq(S) /\ Len(g) = n /\ \A i \in 1 .. n : g[i] = s[a + i]
    <2>1. \A j \in 1 .. n : s[a + j] \in S
      <3>1. \A j \in 1 .. n : a + j \in a + 1 .. a + n
        OBVIOUS
      <3> HIDE DEF S
      <3> QED
        BY <1>1, <3>1
    <2> HIDE DEF S
    <2> QED
      BY <2>1
  <1> HIDE DEF S, t, g
  <1>6. t = g
    BY <1>2, <1>3, <1>4, <1>5, SeqEqual
  <1> QED
    BY <1>6 DEF t, g

\* A stored block of an intact file: its stretch of the file.
Stretch(f, b) == Minimum(B, f.file_size - (b - 1) * B)

LEMMA StoredBlock ==
  ASSUME NEW f \in Files, Intact(f), NEW b \in DOMAIN f.block_sizes, f.block_sizes[b].len > 0
  PROVE  f.stored[b] = [j \in 1 .. Stretch(f, b) |-> (b - 1) * B + j]
  BY DEF Intact, Stretch, B

\* The block comes out of sqfs_data_read_block while device and memory work.
ComesOut(f, b) == f.block_sizes[b].raw \/ BlockInPlace(Len(f.stored[b]), f.block_sizes[b])

\* sqfs_data_read_block gives exactly the block at whose place it reads, or fails.
LEMMA BlockComes ==
  ASSUME NEW f \in Files, Intact(f), NEW b \in DOMAIN f.block_sizes, f.block_sizes[b].len > 0
  PROVE  ReadBlock(f, BlockPos(f, b - 1), f.block_sizes[b])
           = IF ComesOut(f, b) THEN f.stored[b] ELSE <<>>
  <1> DEFINE pos  == BlockPos(f, b - 1)
             word == f.block_sizes[b]
             area == DataArea(f)
             cut  == SubSeq(area, pos + 1, pos + word.len)
             blk  == cut[1][1]
  <1>1. /\ b \in 1 .. Len(f.block_sizes) /\ word.len \in Nat /\ pos \in Nat
        /\ Len(f.block_sizes) \in Nat
    <2>1. b \in 1 .. Len(f.block_sizes) /\ word.len \in Nat /\ Len(f.block_sizes) \in Nat
      BY Sizes
    <2>2. b - 1 \in 0 .. Len(f.block_sizes)
      BY <2>1
    <2> QED
      BY <2>1, <2>2, Sizes, TotalFacts DEF BlockPos
  <1>2. \A j \in 1 .. word.len : pos + j \in DOMAIN area /\ area[pos + j] = <<b, j>>
    BY <1>1, CellAt DEF BlockPos
  <1>3. cut = [j \in 1 .. word.len |-> <<b, j>>]
    <2>1. cut = [j \in 1 .. word.len |-> area[pos + j]]
      <3> HIDE DEF pos, area, word
      <3> QED
        BY <1>1, Cut
    <2> HIDE DEF pos, area, word
    <2> QED
      BY <1>2, <2>1
  <1>4. pos + word.len <= Len(area)
    <2>1. word.len \in 1 .. word.len
      BY <1>1
    <2>2. pos + word.len \in DOMAIN area
      BY <1>2, <2>1
    <2>3. DOMAIN area = 1 .. Total(StoredSizes(f), Len(f.block_sizes))
      BY DEF DataArea
    <2>4. Total(StoredSizes(f), Len(f.block_sizes)) \in Nat
      <3>1. Len(f.block_sizes) \in 0 .. Len(f.block_sizes)
        BY <1>1
      <3> QED
        BY <1>1, <3>1, Sizes, TotalFacts
    <2>5. Len(area) = Total(StoredSizes(f), Len(f.block_sizes))
      BY <2>3, <2>4 DEF DataArea
    <2> HIDE DEF pos, area, word
    <2> QED
      BY <1>1, <2>2, <2>3, <2>4, <2>5
  <1>5. blk = b
    <2>1. 1 \in 1 .. word.len
      BY <1>1
    <2> HIDE DEF cut, word
    <2> QED
      BY <1>3, <2>1
  <1>6. ReadBlock(f, pos, word)
          = IF pos + word.len > Len(area)
              THEN <<>>
              ELSE IF word.raw
                THEN [j \in 1 .. word.len |-> f.stored[cut[j][1]][cut[j][2]]]
                ELSE IF /\ cut = [j \in 1 .. f.block_sizes[blk].len |-> <<blk, j>>]
                        /\ BlockInPlace(Len(f.stored[blk]), word)
                  THEN f.stored[blk]
                  ELSE <<>>
    BY DEF ReadBlock
  <1>7. ~(pos + word.len > Len(area))
    <2>1. Len(area) \in Nat
      <3>1. Total(StoredSizes(f), Len(f.block_sizes)) \in Nat
        <4>1. Len(f.block_sizes) \in 0 .. Len(f.block_sizes)
          BY <1>1
        <4> QED
          BY <1>1, <4>1, Sizes, TotalFacts
      <3> QED
        BY <3>1 DEF DataArea
    <2> HIDE DEF pos, area, word
    <2> QED
      BY <1>1, <1>4, <2>1
  <1>8. CASE word.raw
    <2>1. [j \in 1 .. word.len |-> f.stored[cut[j][1]][cut[j][2]]]
            = [j \in 1 .. word.len |-> f.stored[b][j]]
      <3> HIDE DEF cut, word
      <3> QED
        BY <1>3
    <2>2. Len(f.stored[b]) = word.len
      BY <1>8, FileTypes
    <2>3. f.stored[b] = [j \in 1 .. word.len |-> f.stored[b][j]]
      <3>1. f.stored[b] = [j \in 1 .. Stretch(f, b) |-> (b - 1) * B + j]
        BY StoredBlock
      <3>2. Stretch(f, b) \in Int
        BY <1>1, FileTypes, BlockSizePositive DEF Stretch, Minimum, B
      <3> DEFINE n == Stretch(f, b)
                 L == word.len
      <3>3. Len(f.stored[b]) = L /\ L \in Nat /\ L > 0
        BY <1>1, <2>2
      <3>4. n = L
        <4>1. CASE n \in Nat
          <5> HIDE DEF n, L
          <5>1. Len([j \in 1 .. n |-> (b - 1) * B + j]) = n
            BY <4>1
          <5> QED
            BY <3>1, <3>3, <5>1 DEF n
        <4>2. CASE n < 0
          <5>1. f.stored[b] = <<>>
            <6> HIDE DEF n
            <6>1. 1 .. n = {}
              BY <3>2, <4>2 DEF n
            <6>2. f.stored[b] = [j \in {} |-> (b - 1) * B + j]
              BY <3>1, <6>1 DEF n
            <6> QED
              BY <6>2
          <5> QED
            BY <3>3, <5>1
        <4> QED
          BY <3>2, <4>1, <4>2
      <3> QED
        BY <3>1, <3>4
    <2> HIDE DEF cut, pos, area, blk, word
    <2>4. ReadBlock(f, pos, word) = f.stored[b]
      BY <1>6, <1>7, <1>8, <2>1, <2>3
    <2> QED
      BY <1>8, <2>4 DEF pos, word, ComesOut
  <1>9. CASE ~word.raw
    <2>1. f.block_sizes[blk] = word
      BY <1>5
    <2> HIDE DEF cut, pos, area, blk, word
    <2>2. cut = [j \in 1 .. f.block_sizes[blk].len |-> <<blk, j>>]
      BY <1>3, <1>5, <2>1
    <2>3. ReadBlock(f, pos, word)
            = IF BlockInPlace(Len(f.stored[b]), word) THEN f.stored[b] ELSE <<>>
      BY <1>5, <1>6, <1>7, <1>9, <2>2
    <2> QED
      BY <1>9, <2>3 DEF pos, word, ComesOut
  <1> QED
    BY <1>8, <1>9

-----------------------------------------------------------------------------
(***************************************************************************)
(* The loop.                                                               *)
(***************************************************************************)
\* The caller's buffer has the bytes of the file from offset on.
Filled ==
  /\ out \in Seq(Nat) /\ Len(out) = bytes_read
  /\ \A i \in 1 .. bytes_read : out[i] = Content(file)[offset + i]

\* The rest of what was asked for is still to come, and is in the file.
Progress ==
  /\ offset \in Nat /\ size \in Nat /\ bytes_read \in Nat /\ bytes_remaining \in Nat
  /\ offset < file.file_size
  /\ bytes_read + bytes_remaining = Clamped(offset, size)
  /\ zeroed = "no" /\ Filled

\* A position in the cache is that of a stored block, and has its bytes.
CacheGood ==
  \A p \in DOMAIN cached : \E b \in DOMAIN file.block_sizes :
    /\ file.block_sizes[b].len > 0
    /\ p = BlockPos(file, b - 1) /\ cached[p] = file.stored[b]

ReadInv ==
  /\ file \in Files
  /\ Intact(file) => CacheGood /\ (pc = "loop" => Progress)
  /\ ReadIsSlice /\ ZeroedTailOnly

\* The next n bytes of the file.
Continues(bytes, n) ==
  /\ bytes \in Seq(Nat) /\ Len(bytes) = n
  /\ \A j \in 1 .. n : bytes[j] = Content(file)[offset + bytes_read + j]

LEMMA LoopFacts ==
  ASSUME ReadInv, Intact(file), InLoop
  PROVE  LET x == offset + bytes_read IN
         /\ file \in Files /\ file.file_size \in Nat /\ B \in Nat /\ B > 0
         /\ x \in Nat /\ x < file.file_size /\ x + bytes_remaining <= file.file_size
         /\ bytes_remaining \in Nat /\ bytes_remaining > 0 /\ bytes_read \in Nat
         /\ offset \in Nat
         /\ block_idx = x \div B /\ block_offset = x % B
         /\ Progress /\ CacheGood
  <1>1. file \in Files /\ Progress /\ CacheGood /\ bytes_remaining > 0
    BY DEF ReadInv, InLoop
  <1>2. file.file_size \in Nat /\ B \in Nat /\ B > 0
    BY <1>1, FileTypes, BlockSizePositive DEF B
  <1>3. /\ offset \in Nat /\ size \in Nat /\ bytes_read \in Nat /\ bytes_remaining \in Nat
        /\ offset < file.file_size /\ bytes_read + bytes_remaining = Clamped(offset, size)
    BY <1>1 DEF Progress
  <1>4. Clamped(offset, size) <= file.file_size - offset
    BY <1>2, <1>3 DEF Clamped
  <1> QED
    BY <1>1, <1>2, <1>3, <1>4 DEF block_idx, block_offset, B

\* In a block of the file.
LEMMA BlockFacts ==
  ASSUME ReadInv, Intact(file), InBlock
  PROVE  LET x == offset + bytes_read IN
         /\ block_idx \in Nat /\ block_idx + 1 \in DOMAIN file.block_sizes
         /\ (block_idx + 1) - 1 = block_idx
         /\ block_offset \in 0 .. B - 1 /\ block_idx * B \in Nat
         /\ x = (block_idx * B) + block_offset
         /\ \A j \in Nat : j >= 1 /\ block_offset + j <= B /\ x + j <= file.file_size =>
              Content(file)[x + j] = IF Word.len = 0 THEN 0 ELSE x + j
  <1> DEFINE x == offset + bytes_read
  <1>1. InLoop /\ block_idx < BlockCount(file)
    BY DEF InBlock
  <1>2. /\ file \in Files /\ x \in Nat /\ x < file.file_size
        /\ block_idx = x \div B /\ block_offset = x % B
    BY <1>1, LoopFacts
  <1> HIDE DEF x
  <1>3. /\ block_idx \in Nat /\ block_offset \in 0 .. B - 1 /\ block_idx * B \in Nat
        /\ x = (block_idx * B) + block_offset /\ BlockCount(file) \in Nat
    BY <1>2, Where
  <1>4. block_idx + 1 \in DOMAIN file.block_sizes /\ (block_idx + 1) - 1 = block_idx
    <2>1. DOMAIN file.block_sizes = 1 .. BlockCount(file)
      BY <1>2, Sizes DEF Intact
    <2> QED
      BY <1>1, <1>3, <2>1
  <1>5. ASSUME NEW j \in Nat, j >= 1, block_offset + j <= B, x + j <= file.file_size
        PROVE  Content(file)[x + j] = IF Word.len = 0 THEN 0 ELSE x + j
    <2>1. Content(file)[x + j]
            = IF x \div B < BlockCount(file) /\ file.block_sizes[(x \div B) + 1].len = 0
                THEN 0 ELSE x + j
      BY <1>2, <1>5, ByteOf
    <2> QED
      BY <1>1, <1>2, <2>1 DEF Word
  <1> QED
    BY <1>3, <1>4, <1>5 DEF x

LEMMA HoleBytes ==
  ASSUME ReadInv, Intact(file), InBlock, Word.len = 0
  PROVE  /\ HoleLength \in Nat /\ HoleLength <= bytes_remaining
         /\ Continues([j \in 1 .. HoleLength |-> 0], HoleLength)
  <1> DEFINE x == offset + bytes_read
             n == HoleLength
  <1>1. /\ x \in Nat /\ x + bytes_remaining <= file.file_size /\ bytes_remaining \in Nat
        /\ B \in Nat /\ file.file_size \in Nat /\ bytes_remaining > 0
    BY LoopFacts DEF InBlock
  <1>2. /\ block_offset \in 0 .. B - 1
        /\ \A j \in Nat : j >= 1 /\ block_offset + j <= B /\ x + j <= file.file_size =>
             Content(file)[x + j] = 0
    BY BlockFacts
  <1>3. n \in Nat /\ n <= bytes_remaining /\ n <= B - block_offset
    BY <1>1, <1>2 DEF HoleLength, Minimum, B
  <1> HIDE DEF n, x
  <1>4. ASSUME NEW j \in 1 .. n PROVE Content(file)[x + j] = 0
    <2>1. j \in Nat /\ j >= 1 /\ block_offset + j <= B /\ x + j <= file.file_size
      BY <1>1, <1>2, <1>3
    <2> QED
      BY <1>2, <2>1
  <1>5. /\ [j \in 1 .. n |-> 0] \in Seq(Nat) /\ Len([j \in 1 .. n |-> 0]) = n
        /\ \A j \in 1 .. n : [k \in 1 .. n |-> 0][j] = 0
    BY <1>3
  <1>6. Continues([j \in 1 .. n |-> 0], n)
    BY <1>4, <1>5 DEF Continues, x
  <1> QED
    BY <1>3, <1>6 DEF n

\* The block of byte x, as it is stored.
LEMMA DataOf ==
  ASSUME ReadInv, Intact(file), InBlock, Word.len > 0
  PROVE  LET data == file.stored[block_idx + 1] IN
         /\ data \in Seq(Nat) /\ Len(data) \in Nat
         /\ Len(data) <= B /\ block_offset < Len(data)
         /\ \A j \in Nat : j >= 1 /\ block_offset + j <= Len(data)
                             /\ offset + bytes_read + j <= file.file_size =>
              data[block_offset + j] = Content(file)[offset + bytes_read + j]
  <1> DEFINE x == offset + bytes_read
             b == block_idx + 1
             L == Stretch(file, b)
             data == file.stored[b]
             first == block_idx * B
  <1>1. /\ file \in Files /\ x \in Nat /\ x < file.file_size /\ B \in Nat /\ B > 0
        /\ file.file_size \in Nat
    BY LoopFacts DEF InBlock
  <1>2. /\ block_idx \in Nat /\ b \in DOMAIN file.block_sizes /\ b - 1 = block_idx
        /\ block_offset \in 0 .. B - 1 /\ first \in Nat /\ x = first + block_offset
        /\ \A j \in Nat : j >= 1 /\ block_offset + j <= B /\ x + j <= file.file_size =>
             Content(file)[x + j] = IF Word.len = 0 THEN 0 ELSE x + j
    BY BlockFacts
  <1>3. data = [j \in 1 .. L |-> first + j]
    <2>1. file.block_sizes[b].len > 0
      BY DEF Word
    <2> HIDE DEF b
    <2> QED
      BY <1>1, <1>2, <2>1, StoredBlock
  <1>4. L = Minimum(B, file.file_size - first)
    BY <1>2 DEF Stretch
  <1> HIDE DEF L, first, x, b
  <1>5. L \in Nat /\ L <= B /\ block_offset < L
    BY <1>1, <1>2, <1>4 DEF Minimum
  <1>6. data \in Seq(Nat) /\ Len(data) = L /\ \A j \in 1 .. L : data[j] = first + j
    <2> HIDE DEF data
    <2> QED
      BY <1>2, <1>3, <1>5
  <1>7. ASSUME NEW j \in Nat, j >= 1, block_offset + j <= Len(data), x + j <= file.file_size
        PROVE  data[block_offset + j] = Content(file)[x + j]
    <2> HIDE DEF data
    <2>1. block_offset + j \in 1 .. L /\ block_offset + j <= B
      BY <1>1, <1>2, <1>5, <1>6, <1>7
    <2>2. data[block_offset + j] = first + (block_offset + j)
      BY <1>6, <2>1
    <2>3. first + (block_offset + j) = x + j
      BY <1>2
    <2>4. Content(file)[x + j] = x + j
      <3>1. Word.len # 0
        BY <1>2, FileTypes DEF Word
      <3> QED
        BY <1>2, <1>7, <2>1, <3>1
    <2> QED
      BY <2>2, <2>3, <2>4
  <1> QED
    BY <1>5, <1>6, <1>7 DEF x, b

\* A copy out of the block: n bytes from block_offset on.
LEMMA CopyBytes ==
  ASSUME ReadInv, Intact(file), InBlock, Word.len > 0,
         NEW n \in Nat, n <= bytes_remaining, block_offset + n <= Len(file.stored[block_idx + 1])
  PROVE  Continues([j \in 1 .. n |-> file.stored[block_idx + 1][block_offset + j]], n)
  <1> DEFINE x == offset + bytes_read
             data == file.stored[block_idx + 1]
             copy == [j \in 1 .. n |-> data[block_offset + j]]
  <1>1. /\ x \in Nat /\ x + bytes_remaining <= file.file_size /\ bytes_remaining \in Nat
        /\ file.file_size \in Nat
    BY LoopFacts DEF InBlock
  <1>2. /\ data \in Seq(Nat) /\ Len(data) \in Nat
        /\ \A j \in Nat : j >= 1 /\ block_offset + j <= Len(data) /\ x + j <= file.file_size =>
             data[block_offset + j] = Content(file)[x + j]
    BY DataOf
  <1>3. block_offset \in Nat
    <2>1. block_offset \in 0 .. B - 1 /\ B \in Nat
      BY BlockFacts, BlockSizePositive DEF B
    <2> QED
      BY <2>1
  <1>4. block_offset + n <= Len(data)
    OBVIOUS
  <1> HIDE DEF x, data
  <1>5. ASSUME NEW j \in 1 .. n
        PROVE  data[block_offset + j] = Content(file)[x + j] /\ data[block_offset + j] \in Nat
    <2>1. j \in Nat /\ j >= 1 /\ block_offset + j <= Len(data) /\ x + j <= file.file_size
      <3> DEFINE l == Len(data)
                 m == file.file_size
      <3>1. /\ l \in Nat /\ m \in Nat /\ x \in Nat /\ block_offset \in Nat
            /\ bytes_remaining \in Nat /\ x + bytes_remaining <= m /\ block_offset + n <= l
        BY <1>1, <1>2, <1>3, <1>4
      <3> HIDE DEF l, m
      <3>2. j \in Nat /\ j >= 1 /\ block_offset + j <= l /\ x + j <= m
        BY <3>1
      <3> QED
        BY <3>2 DEF l, m
    <2>2. block_offset + j \in 1 .. Len(data)
      BY <1>2, <1>3, <2>1
    <2> QED
      BY <1>2, <2>1, <2>2, ElementOfSeq
  <1>6. /\ copy \in Seq(Nat) /\ Len(copy) = n
        /\ \A j \in 1 .. n : copy[j] = data[block_offset + j]
    BY <1>5
  <1> HIDE DEF copy
  <1>7. Continues(copy, n)
    BY <1>5, <1>6 DEF Continues, x
  <1> QED
    BY <1>7 DEF copy, data

\* A hit: the cache has the block that is wanted, and no other.
LEMMA HitIsBlock ==
  ASSUME ReadInv, Intact(file), InBlock, Word.len > 0, Pos \in DOMAIN cached
  PROVE  cached[Pos] = file.stored[block_idx + 1]
  <1> DEFINE a == block_idx + 1
             d == StoredSizes(file)
  <1>1. file \in Files /\ CacheGood
    BY LoopFacts DEF InBlock
  <1>2. PICK b \in DOMAIN file.block_sizes :
          /\ file.block_sizes[b].len > 0
          /\ Pos = BlockPos(file, b - 1) /\ cached[Pos] = file.stored[b]
    BY <1>1 DEF CacheGood
  <1>3. a \in DOMAIN file.block_sizes /\ Pos = BlockPos(file, a - 1) /\ file.block_sizes[a].len > 0
    BY BlockFacts DEF Pos, Word
  <1> HIDE DEF a
  <1>4. /\ a \in 1 .. Len(file.block_sizes) /\ b \in 1 .. Len(file.block_sizes)
        /\ file.block_sizes[a].len \in Nat /\ file.block_sizes[b].len \in Nat
        /\ Len(file.block_sizes) \in Nat
    BY <1>1, <1>2, <1>3, Sizes
  <1>5. 1 \in 1 .. file.block_sizes[a].len /\ 1 \in 1 .. file.block_sizes[b].len
    BY <1>2, <1>3, <1>4
  <1>6. Pos \in Nat
    <2>1. a - 1 \in 0 .. Len(file.block_sizes)
      BY <1>4
    <2> QED
      BY <1>1, <1>3, <1>4, <2>1, Sizes, TotalFacts DEF BlockPos
  <1>7. ASSUME a < b PROVE FALSE
    <2>1. Total(d, a - 1) + 1 < Total(d, b - 1) + 1
      BY <1>1, <1>4, <1>5, <1>7, Apart
    <2> QED
      BY <1>2, <1>3, <1>6, <2>1 DEF BlockPos
  <1>8. ASSUME b < a PROVE FALSE
    <2>1. Total(d, b - 1) + 1 < Total(d, a - 1) + 1
      BY <1>1, <1>4, <1>5, <1>8, Apart
    <2> QED
      BY <1>2, <1>3, <1>6, <2>1 DEF BlockPos
  <1>9. a = b
    BY <1>4, <1>7, <1>8
  <1> QED
    BY <1>2, <1>9 DEF a

\* Where the tail is.
LEMMA TailFacts ==
  ASSUME ReadInv, Intact(file), InLoop, InFragment
  PROVE  LET x == offset + bytes_read
             tail == file.file_size % B
         IN  /\ block_idx * B \in Nat /\ block_offset \in Nat /\ tail \in Nat /\ tail <= B
             /\ x = (block_idx * B) + block_offset
             /\ file.file_size = (block_idx * B) + tail
             /\ block_idx = BlockCount(file) /\ file.frag
  <1> DEFINE x == offset + bytes_read
             idx == x \div B
  <1>1. /\ file \in Files /\ x \in Nat /\ x < file.file_size /\ file.file_size \in Nat
        /\ B \in Nat /\ B > 0 /\ block_idx = idx /\ block_offset = x % B
    BY LoopFacts
  <1>2. block_idx = BlockCount(file) /\ file.frag
    BY DEF InFragment
  <1> HIDE DEF x
  <1>3. /\ idx * B \in Nat /\ x % B \in 0 .. B - 1 /\ x = (idx * B) + (x % B)
        /\ idx = BlockCount(file) => file.file_size = (idx * B) + (file.file_size % B)
    BY <1>1, Where
  <1>4. file.file_size % B \in 0 .. B - 1
    BY <1>1, DivMod
  <1> HIDE DEF idx
  <1>5. x % B \in Nat /\ file.file_size % B \in Nat /\ file.file_size % B <= B
    BY <1>1, <1>3, <1>4
  <1> QED
    BY <1>1, <1>2, <1>3, <1>5 DEF x

\* What sqfs_fragment_read gives of an intact fragment block.
LEMMA TailBytes ==
  ASSUME ReadInv, Intact(file), InLoop, InFragment
  PROVE  Continues(FragmentBytes(bytes_remaining), bytes_remaining)
  <1> DEFINE x == offset + bytes_read
             n == bytes_remaining
             tail == file.file_size % B
             at == file.frag_offset + block_offset
             copy == FragmentBytes(n)
  <1>1. /\ file \in Files /\ x \in Nat /\ x + n <= file.file_size /\ n \in Nat
        /\ file.file_size \in Nat /\ B \in Nat /\ block_idx = x \div B /\ block_offset = x % B
    BY LoopFacts
  <1>2. /\ block_idx * B \in Nat /\ block_offset \in Nat /\ tail \in Nat /\ tail <= B
        /\ x = (block_idx * B) + block_offset /\ file.file_size = (block_idx * B) + tail
        /\ block_idx = BlockCount(file) /\ file.frag
    BY TailFacts
  <1>3. /\ file.frag_offset + tail <= Len(file.fragment)
        /\ Len(file.fragment) \in Nat /\ file.frag_offset \in Nat
        /\ \A j \in 1 .. tail :
             file.fragment[file.frag_offset + j] = file.file_size - tail + j
    BY <1>1, <1>2, FileTypes DEF Intact, B
  <1> HIDE DEF x, n, tail
  <1>4. /\ at + n <= Len(file.fragment) /\ at \in Nat
        /\ \A j \in 1 .. n : /\ block_offset + j \in 1 .. tail
                             /\ at + j = file.frag_offset + (block_offset + j)
                             /\ file.file_size - tail + (block_offset + j) = x + j
                             /\ j \in Nat /\ j >= 1
                             /\ x + j <= file.file_size /\ x + j \in Nat
    <2> DEFINE q == block_idx * B
               l == Len(file.fragment)
    <2>1. /\ x \in Nat /\ n \in Nat /\ file.file_size \in Nat /\ q \in Nat
          /\ block_offset \in Nat /\ tail \in Nat /\ file.frag_offset \in Nat /\ l \in Nat
          /\ x = q + block_offset /\ file.file_size = q + tail /\ x + n <= file.file_size
          /\ file.frag_offset + tail <= l
      BY <1>1, <1>2, <1>3
    <2> HIDE DEF q, l
    <2>2. /\ at + n <= l /\ at \in Nat
          /\ \A j \in 1 .. n : /\ block_offset + j \in 1 .. tail
                               /\ at + j = file.frag_offset + (block_offset + j)
                               /\ file.file_size - tail + (block_offset + j) = x + j
                               /\ j \in Nat /\ j >= 1
                               /\ x + j <= file.file_size /\ x + j \in Nat
      BY <2>1
    <2> QED
      BY <2>2 DEF l
  <1>5. copy = [j \in 1 .. n |-> file.fragment[at + j]]
    <2>1. TailAt = at
      BY DEF TailAt
    <2> HIDE DEF at
    <2>2. at <= Len(file.fragment) /\ Minimum(at + n, Len(file.fragment)) = at + n
      BY <1>1, <1>3, <1>4 DEF Minimum
    <2>3. ~(at > Len(file.fragment))
      BY <1>3, <1>4, <2>2
    <2>4. copy = SubSeq(file.fragment, at + 1, at + n)
      BY <2>1, <2>2, <2>3 DEF FragmentBytes
    <2> HIDE DEF copy
    <2>5. SubSeq(file.fragment, at + 1, at + n) = [j \in 1 .. n |-> file.fragment[at + j]]
      BY <1>1, <1>4, Cut
    <2> QED
      BY <2>4, <2>5
  <1> HIDE DEF at, copy
  <1>6. ASSUME NEW j \in 1 .. n
        PROVE  /\ file.fragment[at + j] = x + j /\ Content(file)[x + j] = x + j
               /\ x + j \in Nat
    <2>1. /\ block_offset + j \in 1 .. tail /\ at + j = file.frag_offset + (block_offset + j)
          /\ file.file_size - tail + (block_offset + j) = x + j
          /\ j \in Nat /\ j >= 1 /\ x + j <= file.file_size /\ x + j \in Nat
      BY <1>4
    <2>2. file.fragment[at + j] = x + j
      BY <1>3, <2>1
    <2>3. (x % B) + j <= B
      BY <1>1, <1>2, <2>1
    <2>4. ~(x \div B < BlockCount(file))
      <3>1. x \div B = BlockCount(file) /\ x \div B \in Nat
        BY <1>1, <1>2, DivMod
      <3> QED
        BY <3>1
    <2>5. Content(file)[x + j] = x + j
      BY <1>1, <2>1, <2>3, <2>4, ByteOf
    <2> QED
      BY <2>1, <2>2, <2>5
  <1>7. /\ copy \in Seq(Nat) /\ Len(copy) = n
        /\ \A j \in 1 .. n : copy[j] = Content(file)[x + j]
    <2>1. n \in Nat /\ \A j \in 1 .. n : file.fragment[at + j] \in Nat
      BY <1>1, <1>6
    <2>2. /\ copy \in Seq(Nat) /\ Len(copy) = n
          /\ \A j \in 1 .. n : copy[j] = file.fragment[at + j]
      BY <1>5, <2>1
    <2>3. \A j \in 1 .. n : file.fragment[at + j] = Content(file)[x + j]
      BY <1>6
    <2> QED
      BY <2>2, <2>3
  <1> QED
    BY <1>7 DEF Continues, copy, n, x

\* The turn of the loop adds what it copies.
LEMMA Longer ==
  ASSUME Filled, offset \in Nat, bytes_read \in Nat, NEW n \in Nat, NEW bytes, Continues(bytes, n)
  PROVE  /\ out \o bytes \in Seq(Nat) /\ Len(out \o bytes) = bytes_read + n
         /\ \A i \in 1 .. bytes_read + n : (out \o bytes)[i] = Content(file)[offset + i]
  <1>1. /\ out \in Seq(Nat) /\ Len(out) = bytes_read
        /\ \A i \in 1 .. bytes_read : out[i] = Content(file)[offset + i]
    BY DEF Filled
  <1>2. /\ bytes \in Seq(Nat) /\ Len(bytes) = n
        /\ \A j \in 1 .. n : bytes[j] = Content(file)[offset + bytes_read + j]
    BY DEF Continues
  <1>3. /\ out \o bytes \in Seq(Nat) /\ Len(out \o bytes) = bytes_read + n
        /\ \A i \in 1 .. bytes_read + n :
             (out \o bytes)[i] = IF i <= bytes_read THEN out[i] ELSE bytes[i - bytes_read]
    <2>1. out \in Seq(Nat) /\ bytes \in Seq(Nat)
      BY <1>1, <1>2
    <2>2. /\ out \o bytes \in Seq(Nat) /\ Len(out \o bytes) = Len(out) + Len(bytes)
          /\ \A i \in 1 .. Len(out) + Len(bytes) :
               (out \o bytes)[i] = IF i <= Len(out) THEN out[i] ELSE bytes[i - Len(out)]
      BY <2>1, ConcatProperties
    <2>3. Len(out) = bytes_read /\ Len(bytes) = n
      BY <1>1, <1>2
    <2> QED
      BY <2>2, <2>3
  <1>4. ASSUME NEW i \in 1 .. bytes_read + n PROVE (out \o bytes)[i] = Content(file)[offset + i]
    <2>1. CASE i <= bytes_read
      BY <1>1, <1>3, <2>1
    <2>2. CASE ~(i <= bytes_read)
      <3>1. i - bytes_read \in 1 .. n /\ offset + bytes_read + (i - bytes_read) = offset + i
        BY <2>2
      <3> QED
        BY <1>2, <1>3, <2>2, <3>1
    <2> QED
      BY <2>1, <2>2
  <1> QED
    BY <1>3, <1>4

LEMMA TakeStep ==
  ASSUME ReadInv, Intact(file), InLoop, NEW n \in Nat, n <= bytes_remaining,
         NEW bytes, Continues(bytes, n), Take(bytes)
  PROVE  pc' = "loop" /\ Progress'
  <1>1. /\ offset \in Nat /\ bytes_read \in Nat /\ bytes_remaining \in Nat /\ Progress
    BY LoopFacts
  <1>2. Len(bytes) = n
    BY DEF Continues
  <1>3. /\ out' = out \o bytes /\ bytes_read' = bytes_read + n
        /\ bytes_remaining' = bytes_remaining - n
        /\ UNCHANGED <<file, offset, size, pc, ret, zeroed>>
    BY <1>2 DEF Take
  <1>4. Filled'
    <2>1. /\ out \o bytes \in Seq(Nat) /\ Len(out \o bytes) = bytes_read + n
          /\ \A i \in 1 .. bytes_read + n : (out \o bytes)[i] = Content(file)[offset + i]
      BY <1>1, Longer DEF Progress
    <2> QED
      BY <1>3, <2>1 DEF Filled
  <1>5. Clamped(offset, size)' = Clamped(offset, size)
    BY <1>3 DEF Clamped
  <1>6. /\ bytes_read' \in Nat /\ bytes_remaining' \in Nat
        /\ bytes_read' + bytes_remaining' = bytes_read + bytes_remaining
    BY <1>1, <1>3
  <1> QED
    BY <1>1, <1>3, <1>4, <1>5, <1>6 DEF Progress, InLoop

-----------------------------------------------------------------------------
(***************************************************************************)
(* The answer.                                                             *)
(***************************************************************************)
LEMMA WantedBytes ==
  ASSUME file \in Files, offset \in Nat, size \in Nat, offset < file.file_size
  PROVE  /\ Wanted \in Seq(Nat) /\ Len(Wanted) = Clamped(offset, size)
         /\ Clamped(offset, size) \in Nat
         /\ \A i \in 1 .. Clamped(offset, size) : Wanted[i] = Content(file)[offset + i]
  <1> DEFINE n == Clamped(offset, size)
  <1>1. file.file_size \in Nat
    BY FileTypes
  <1>2. /\ n \in Nat /\ offset + n <= file.file_size
        /\ Minimum(offset + size, file.file_size) = offset + n
    BY <1>1 DEF Clamped, Minimum
  <1> HIDE DEF n
  <1>3. Wanted = [j \in 1 .. n |-> Content(file)[offset + j]]
    <2>1. Wanted = SubSeq(Content(file), offset + 1, offset + n)
      BY <1>2 DEF Wanted
    <2> QED
      BY <1>2, <2>1, Cut
  <1>4. ASSUME NEW j \in 1 .. n PROVE Content(file)[offset + j] \in Nat
    <2>1. offset + j \in 1 .. file.file_size /\ offset + j \in Nat
      BY <1>1, <1>2
    <2> QED
      BY <2>1 DEF Content
  <1>5. /\ Wanted \in Seq(Nat) /\ Len(Wanted) = n
        /\ \A j \in 1 .. n : Wanted[j] = Content(file)[offset + j]
    <2> HIDE DEF Wanted
    <2> QED
      BY <1>2, <1>3, <1>4
  <1> QED
    BY <1>2, <1>5 DEF n

\* The buffer with all that was asked for is the answer.
LEMMA WholeAnswer ==
  ASSUME file \in Files, offset \in Nat, size \in Nat, offset < file.file_size,
         NEW s \in Seq(Nat), Len(s) = Clamped(offset, size),
         \A i \in 1 .. Clamped(offset, size) : s[i] = Content(file)[offset + i]
  PROVE  s = Wanted
  <1>1. /\ Wanted \in Seq(Nat) /\ Len(Wanted) = Clamped(offset, size)
        /\ Clamped(offset, size) \in Nat
        /\ \A i \in 1 .. Clamped(offset, size) : Wanted[i] = Content(file)[offset + i]
    BY WantedBytes
  <1>2. Len(s) = Len(Wanted) /\ \A i \in 1 .. Len(s) : s[i] = Wanted[i]
    BY <1>1
  <1> QED
    BY <1>1, <1>2, SeqEqual

\* Past the end, or of no length.
LEMMA NothingWanted ==
  ASSUME NEW f \in Files, NEW o \in Nat, NEW n \in Nat,
         o >= f.file_size \/ (IF o + n > f.file_size THEN f.file_size - o ELSE n) = 0
  PROVE  SubSeq(Content(f), o + 1, Minimum(o + n, f.file_size)) = <<>>
  <1>1. f.file_size \in Nat
    BY FileTypes
  <1> DEFINE m == Minimum(o + n, f.file_size)
  <1>2. m \in Int /\ m < o + 1
    BY <1>1 DEF Minimum
  <1> HIDE DEF m
  <1>3. SubSeq(Content(f), o + 1, m) = <<>>
    BY <1>2, SubSeqEmpty
  <1> QED
    BY <1>3 DEF m

LEMMA SameFile ==
  ASSUME UNCHANGED <<file, offset, size>>
  PROVE  /\ Wanted' = Wanted /\ Intact(file)' = Intact(file)
         /\ BlockCount(file)' = BlockCount(file) /\ Clamped(offset, size)' = Clamped(offset, size)
  BY DEF Wanted, Intact, Content, InHole, BlockCount, Clamped

LEMMA CallStep ==
  ASSUME ReadInv, NEW o \in Offsets, NEW n \in Lengths,
         ReadNothing(o, n) \/ ReadNoMemory(o, n) \/ ReadStart(o, n)
  PROVE  ReadInv'
  <1>1. /\ Call(o, n) /\ file' = file /\ cached' = cached /\ offset' = o /\ size' = n
        /\ out' = <<>> /\ bytes_read' = 0 /\ zeroed' = "no"
        /\ file \in Files /\ o \in Nat /\ n \in Nat
    BY ReadBounds DEF ReadNothing, ReadNoMemory, ReadStart, Call, ReadInv
  <1>2. Intact(file) => CacheGood'
    BY <1>1 DEF ReadInv, CacheGood
  <1>3. CASE ReadNothing(o, n)
    <2>1. Wanted' = <<>>
      BY <1>1, <1>3, NothingWanted DEF ReadNothing, Wanted, Clamped
    <2> QED
      BY <1>1, <1>2, <1>3, <2>1 DEF ReadNothing, ReadInv, ReadIsSlice, ZeroedTailOnly
  <1>4. CASE ReadNoMemory(o, n)
    BY <1>1, <1>2, <1>4 DEF ReadNoMemory, ReadInv, ReadIsSlice, ZeroedTailOnly
  <1>5. CASE ReadStart(o, n)
    <2>1. /\ o < file.file_size /\ Clamped(o, n) > 0 /\ bytes_remaining' = Clamped(o, n)
          /\ pc' = "loop"
      BY <1>5 DEF ReadStart
    <2>2. Clamped(o, n) \in Nat
      <3>1. file.file_size \in Nat
        BY <1>1, FileTypes
      <3> QED
        BY <1>1, <2>1, <3>1 DEF Clamped
    <2>3. out' \in Seq(Nat) /\ Len(out') = 0
      BY <1>1, EmptySeq
    <2>4. Filled'
      BY <1>1, <2>3 DEF Filled
    <2>5. Clamped(offset, size)' = Clamped(o, n)
      BY <1>1 DEF Clamped
    <2>6. Progress'
      BY <1>1, <2>1, <2>2, <2>4, <2>5 DEF Progress
    <2> QED
      BY <1>1, <1>2, <2>1, <2>6 DEF ReadInv, ReadIsSlice, ZeroedTailOnly
  <1> QED
    BY <1>3, <1>4, <1>5

\* A turn of the loop that goes on.
LEMMA Around ==
  ASSUME ReadInv, file' = file, pc' = "loop", Intact(file) => CacheGood' /\ Progress'
  PROVE  ReadInv'
  BY DEF ReadInv, ReadIsSlice, ZeroedTailOnly

LEMMA HoleStep == ASSUME ReadInv, ReadHole PROVE ReadInv'
  <1>1. /\ InBlock /\ InLoop /\ Word.len = 0 /\ cached' = cached /\ file' = file /\ pc' = "loop"
        /\ Take([j \in 1 .. HoleLength |-> 0])
    BY DEF ReadHole, Take, InBlock, InLoop
  <1>2. ASSUME Intact(file) PROVE CacheGood' /\ Progress'
    <2>1. Progress'
      BY <1>1, <1>2, HoleBytes, TakeStep
    <2> QED
      BY <1>1, <1>2, <2>1 DEF ReadInv, CacheGood
  <1> QED
    BY <1>1, <1>2, Around

LEMMA CachedStep == ASSUME ReadInv, ReadCached PROVE ReadInv'
  <1> DEFINE data == cached[Pos]
             n == Minimum(Len(data) - block_offset, bytes_remaining)
  <1>1. /\ InBlock /\ InLoop /\ Word.len > 0 /\ Pos \in DOMAIN cached
        /\ block_offset < Len(data)
        /\ cached' = cached /\ file' = file /\ pc' = "loop"
        /\ Take(SubSeq(data, block_offset + 1, block_offset + n))
    BY DEF ReadCached, Take, InBlock, InLoop, Hit
  <1>2. ASSUME Intact(file) PROVE CacheGood' /\ Progress'
    <2>1. data = file.stored[block_idx + 1]
      BY <1>1, <1>2, HitIsBlock
    <2>2. /\ bytes_remaining \in Nat /\ B \in Nat
      BY <1>1, <1>2, LoopFacts
    <2>3. Len(data) \in Nat /\ block_offset \in 0 .. B - 1
      BY <1>1, <1>2, <2>1, DataOf, BlockFacts
    <2> HIDE DEF data
    <2>4. /\ n \in Nat /\ n <= bytes_remaining /\ block_offset + n <= Len(data)
          /\ block_offset \in Nat
      BY <1>1, <2>2, <2>3 DEF Minimum
    <2> HIDE DEF n
    <2>5. SubSeq(data, block_offset + 1, block_offset + n)
            = [j \in 1 .. n |-> data[block_offset + j]]
      BY <2>4, Cut
    <2>6. Continues(SubSeq(data, block_offset + 1, block_offset + n), n)
      BY <1>1, <1>2, <2>1, <2>4, <2>5, CopyBytes
    <2>7. Progress'
      BY <1>1, <1>2, <2>4, <2>6, TakeStep
    <2> QED
      BY <1>1, <1>2, <2>7 DEF ReadInv, CacheGood
  <1> QED
    BY <1>1, <1>2, Around

LEMMA MissedStep == ASSUME ReadInv, ReadMissed PROVE ReadInv'
  <1> DEFINE data == ReadBlock(file, Pos, Word)
             b == block_idx + 1
             n == CopyLength(Len(data))
             put == [p \in DOMAIN cached \union {Pos} |-> IF p = Pos THEN data ELSE cached[p]]
  <1>1. /\ InBlock /\ InLoop /\ Word.len > 0 /\ file' = file /\ pc' = "loop"
        /\ Take(FromBlock(data)) /\ (cached' = cached \/ cached' = put)
    BY DEF ReadMissed, Take, InBlock, InLoop
  <1>0. data # <<>>
    BY DEF ReadMissed
  <1>2. ASSUME Intact(file) PROVE CacheGood' /\ Progress'
    <2>1. /\ file \in Files /\ b \in DOMAIN file.block_sizes /\ b - 1 = block_idx
          /\ Word = file.block_sizes[b] /\ Pos = BlockPos(file, b - 1) /\ CacheGood
      BY <1>1, <1>2, BlockFacts, LoopFacts DEF Word, Pos
    <2>2. data = file.stored[b]
      <3> HIDE DEF b
      <3> QED
        BY <1>0, <1>1, <1>2, <2>1, BlockComes
    <2>3. /\ bytes_remaining \in Nat /\ B \in Nat /\ block_offset \in 0 .. B - 1
      BY <1>1, <1>2, LoopFacts, BlockFacts
    <2>4. Len(data) \in Nat /\ block_offset < Len(data)
      BY <1>1, <1>2, <2>2, DataOf
    <2> HIDE DEF data
    <2>5. /\ n \in Nat /\ n <= bytes_remaining /\ block_offset + n <= Len(data)
          /\ block_offset \in Nat
      BY <2>3, <2>4 DEF CopyLength, Minimum, B
    <2>6. FromBlock(data) = [j \in 1 .. n |-> data[block_offset + j]]
      <3>1. \A j \in 1 .. n : block_offset + j <= Len(data)
        <4> HIDE DEF n
        <4> QED
          BY <2>4, <2>5
      <3> QED
        BY <3>1 DEF FromBlock
    <2> HIDE DEF n
    <2>7. Continues(FromBlock(data), n)
      BY <1>1, <1>2, <2>2, <2>5, <2>6, CopyBytes
    <2>8. Progress'
      BY <1>1, <1>2, <2>5, <2>7, TakeStep
    <2>9. CacheGood'
      <3>1. CASE cached' = cached
        BY <1>1, <2>1, <3>1 DEF CacheGood
      <3>2. CASE cached' = put
        <4> SUFFICES ASSUME NEW p \in DOMAIN cached \union {Pos}
                     PROVE  \E c \in DOMAIN file.block_sizes :
                              /\ file.block_sizes[c].len > 0
                              /\ p = BlockPos(file, c - 1) /\ put[p] = file.stored[c]
          BY <1>1, <3>2 DEF CacheGood
        <4>1. CASE p = Pos
          BY <1>1, <2>1, <2>2, <4>1
        <4>2. CASE p # Pos
          <5>1. p \in DOMAIN cached /\ put[p] = cached[p]
            BY <4>2
          <5> HIDE DEF put
          <5> QED
            BY <2>1, <5>1 DEF CacheGood
        <4> QED
          BY <4>1, <4>2
      <3> QED
        BY <1>1, <3>1, <3>2
    <2> QED
      BY <2>8, <2>9
  <1> QED
    BY <1>1, <1>2, Around

LEMMA TailStep == ASSUME ReadInv, ReadTail PROVE ReadInv'
  <1> DEFINE bytes == FragmentBytes(bytes_remaining)
  <1>1. /\ InLoop /\ InFragment /\ pc' = "done" /\ zeroed' = zeroed /\ out' = out \o bytes
        /\ UNCHANGED <<file, offset, size>> /\ cached' = cached /\ file \in Files
    BY DEF ReadTail, EndWith, request, ReadInv
  <1>2. ASSUME Intact(file) PROVE CacheGood' /\ out' = Wanted /\ zeroed = "no"
    <2>1. Continues(bytes, bytes_remaining)
      BY <1>1, <1>2, TailBytes
    <2>2. Progress /\ CacheGood
      BY <1>1, <1>2, LoopFacts
    <2>3. /\ offset \in Nat /\ size \in Nat /\ bytes_read \in Nat /\ bytes_remaining \in Nat
          /\ offset < file.file_size /\ zeroed = "no" /\ Filled
          /\ bytes_read + bytes_remaining = Clamped(offset, size)
      BY <2>2 DEF Progress
    <2> HIDE DEF bytes
    <2>4. /\ out \o bytes \in Seq(Nat) /\ Len(out \o bytes) = bytes_read + bytes_remaining
          /\ \A i \in 1 .. bytes_read + bytes_remaining :
               (out \o bytes)[i] = Content(file)[offset + i]
      BY <2>1, <2>3, Longer
    <2>5. out \o bytes = Wanted
      BY <1>1, <2>3, <2>4, WholeAnswer
    <2> QED
      BY <1>1, <2>2, <2>3, <2>5 DEF CacheGood
  <1> QED
    BY <1>1, <1>2, SameFile DEF ReadInv, ReadIsSlice, ZeroedTailOnly

LEMMA TailFailedStep == ASSUME ReadInv, ReadTailFailed PROVE ReadInv'
  <1> DEFINE zeros == [j \in 1 .. bytes_remaining |-> 0]
  <1>1. /\ InLoop /\ InFragment /\ pc' = "done" /\ zeroed' # "no" /\ out' = out \o zeros
        /\ UNCHANGED <<file, offset, size>> /\ cached' = cached /\ file \in Files
    BY DEF ReadTailFailed, EndWith, request, ReadInv
  <1>2. ASSUME Intact(file)
        PROVE  /\ CacheGood' /\ Len(out') = Len(Wanted)
               /\ \A i \in 1 .. Len(out') :
                    out'[i] # Wanted[i] => offset + i > block_size * BlockCount(file)
    <2>1. Progress /\ CacheGood
      BY <1>1, <1>2, LoopFacts
    <2>2. /\ offset \in Nat /\ size \in Nat /\ bytes_read \in Nat /\ bytes_remaining \in Nat
          /\ offset < file.file_size /\ Filled
          /\ bytes_read + bytes_remaining = Clamped(offset, size)
      BY <2>1 DEF Progress
    <2>3. /\ Len(Wanted) = Clamped(offset, size)
          /\ \A i \in 1 .. Clamped(offset, size) : Wanted[i] = Content(file)[offset + i]
      BY <1>1, <2>2, WantedBytes
    <2>4. zeros \in Seq(Nat) /\ Len(zeros) = bytes_remaining
      BY <2>2
    <2> HIDE DEF zeros
    <2>5. /\ out \in Seq(Nat) /\ Len(out) = bytes_read
          /\ \A i \in 1 .. bytes_read : out[i] = Content(file)[offset + i]
      BY <2>2 DEF Filled
    <2>6. /\ Len(out \o zeros) = bytes_read + bytes_remaining
          /\ \A i \in 1 .. bytes_read : (out \o zeros)[i] = out[i]
      <3>1. out \in Seq(Nat) /\ zeros \in Seq(Nat)
        BY <2>4, <2>5
      <3>2. /\ Len(out \o zeros) = Len(out) + Len(zeros)
            /\ \A i \in 1 .. Len(out) + Len(zeros) :
                 (out \o zeros)[i] = IF i <= Len(out) THEN out[i] ELSE zeros[i - Len(out)]
        BY <3>1, ConcatProperties
      <3>3. Len(out) = bytes_read /\ Len(zeros) = bytes_remaining
        BY <2>4, <2>5
      <3> QED
        BY <2>2, <3>2, <3>3
    <2>7. ASSUME NEW i \in 1 .. bytes_read + bytes_remaining, (out \o zeros)[i] # Wanted[i]
          PROVE  offset + i > block_size * BlockCount(file)
      <3>1. ~(i <= bytes_read)
        <4> SUFFICES ASSUME i <= bytes_read PROVE FALSE
          OBVIOUS
        <4>1. i \in 1 .. bytes_read /\ i \in 1 .. Clamped(offset, size)
          BY <2>2
        <4> QED
          BY <2>3, <2>5, <2>6, <2>7, <4>1
      <3>2. /\ block_idx * B \in Nat /\ block_offset \in Nat
            /\ offset + bytes_read = (block_idx * B) + block_offset
            /\ block_idx = BlockCount(file)
        BY <1>1, <1>2, TailFacts
      <3>3. block_size * BlockCount(file) = block_idx * B
        <4>1. block_idx \in Nat /\ B \in Nat
          <5>1. /\ offset + bytes_read \in Nat /\ block_idx = (offset + bytes_read) \div B
                /\ B \in Nat
            BY <1>1, <1>2, LoopFacts
          <5> QED
            BY <5>1, DivMod
        <4> QED
          BY <3>2, <4>1 DEF B
      <3> DEFINE q == block_idx * B
      <3>4. q \in Nat /\ offset + bytes_read = q + block_offset /\ block_offset \in Nat
        BY <3>2
      <3> HIDE DEF q
      <3>5. offset + i > q
        BY <2>2, <3>1, <3>4
      <3> QED
        BY <3>3, <3>5 DEF q
    <2> QED
      BY <1>1, <2>1, <2>2, <2>3, <2>6, <2>7 DEF CacheGood
  <1> QED
    BY <1>1, <1>2, SameFile DEF ReadInv, ReadIsSlice, ZeroedTailOnly

LEMMA LoopEndStep == ASSUME ReadInv, LoopEnd PROVE ReadInv'
  <1>1. /\ pc = "loop" /\ bytes_remaining = 0 /\ pc' = "done" /\ zeroed' = zeroed /\ out' = out
        /\ UNCHANGED <<file, offset, size>> /\ cached' = cached /\ file \in Files
    BY DEF LoopEnd, request, ReadInv
  <1>2. ASSUME Intact(file) PROVE CacheGood' /\ out = Wanted /\ zeroed = "no"
    <2>1. Progress /\ CacheGood
      BY <1>1, <1>2 DEF ReadInv
    <2>2. /\ offset \in Nat /\ size \in Nat /\ bytes_read \in Nat /\ offset < file.file_size
          /\ zeroed = "no" /\ bytes_read = Clamped(offset, size)
          /\ out \in Seq(Nat) /\ Len(out) = bytes_read
          /\ \A i \in 1 .. bytes_read : out[i] = Content(file)[offset + i]
      BY <1>1, <2>1 DEF Progress, Filled
    <2>3. out = Wanted
      BY <1>1, <2>2, WholeAnswer
    <2> QED
      BY <1>1, <2>1, <2>2, <2>3 DEF CacheGood
  <1> QED
    BY <1>1, <1>2, SameFile DEF ReadInv, ReadIsSlice, ZeroedTailOnly

\* Nothing but the cache changes, and it only loses blocks.
LEMMA OnlyLost ==
  ASSUME ReadInv, DOMAIN cached' \subseteq DOMAIN cached,
         \A p \in DOMAIN cached' : cached'[p] = cached[p],
         UNCHANGED <<file, offset, size, bytes_read, bytes_remaining, out, pc, ret, zeroed>>
  PROVE  ReadInv'
  <1>1. Intact(file) => CacheGood'
    BY DEF ReadInv, CacheGood
  <1>2. Filled' = Filled
    BY DEF Filled, Content
  <1>3. Progress' = Progress
    BY <1>2, SameFile DEF Progress
  <1>4. ReadIsSlice' = ReadIsSlice /\ ZeroedTailOnly' = ZeroedTailOnly
    BY SameFile DEF ReadIsSlice, ZeroedTailOnly
  <1> QED
    BY <1>1, <1>3, <1>4 DEF ReadInv

LEMMA ReadNext == ReadInv /\ [Next]_vars => ReadInv'
  <1> SUFFICES ASSUME ReadInv, [Next]_vars PROVE ReadInv'
    OBVIOUS
  <1>1. ASSUME NEW p \in DOMAIN cached, Evicted(p) PROVE ReadInv'
    <2>1. /\ cached' = [q \in DOMAIN cached \ {p} |-> cached[q]]
          /\ UNCHANGED <<file, offset, size, bytes_read, bytes_remaining, out, pc, ret, zeroed>>
      BY <1>1 DEF Evicted
    <2>2. DOMAIN cached' \subseteq DOMAIN cached /\ \A q \in DOMAIN cached' : cached'[q] = cached[q]
      BY <2>1
    <2> QED
      BY <2>1, <2>2, OnlyLost
  <1>2. CASE UNCHANGED vars
    <2>1. /\ cached' = cached
          /\ UNCHANGED <<file, offset, size, bytes_read, bytes_remaining, out, pc, ret, zeroed>>
      BY <1>2 DEF vars, request
    <2> QED
      BY <2>1, OnlyLost
  <1>3. CASE ReadFailed \/ Replied
    <2>1. /\ UNCHANGED <<file, cached>> /\ pc' # "loop" /\ (pc' = "done" => ret' # "ok")
      BY <1>3 DEF ReadFailed, Fail, Replied
    <2>2. Intact(file) => CacheGood'
      BY <2>1 DEF ReadInv, CacheGood
    <2> QED
      BY <2>1, <2>2 DEF ReadInv, ReadIsSlice, ZeroedTailOnly
  <1>4. ASSUME NEW o \in Offsets, NEW n \in Lengths,
               ReadNothing(o, n) \/ ReadNoMemory(o, n) \/ ReadStart(o, n)
        PROVE  ReadInv'
    BY <1>4, CallStep
  <1>5. CASE Reading
    BY <1>3, <1>5, HoleStep, CachedStep, MissedStep, TailStep, TailFailedStep, LoopEndStep
       DEF Reading
  <1> QED
    BY <1>1, <1>2, <1>4, <1>5 DEF Next

LEMMA ReadInvariant == Spec => []ReadInv
  <1>1. Init => ReadInv
    BY DEF Init, ReadInv, CacheGood, ReadIsSlice, ZeroedTailOnly
  <1> QED
    BY <1>1, ReadNext, PTL DEF Spec

\* For every file, every size of a block and every read: a read that ends well
\* (of the compressed blocks only those end well that leave room in the buffer)
\* returns exactly the bytes of the file that were asked for, whatever blocks are
\* evicted from the data cache meanwhile (sqfs_data_read_internal,
\* sqfs_data_read_block, sqfs_fragment_read).
THEOREM SliceCorrect == Spec => []ReadIsSlice
  <1>1. ReadInv => ReadIsSlice
    BY DEF ReadInv
  <1> QED
    BY <1>1, ReadInvariant, PTL

\* When the fragment block cannot be read, the zeros that read_from_fragment
\* answers have the length of the tail that was asked for and cover nothing but
\* the tail.
THEOREM ZeroedCorrect == Spec => []ZeroedTailOnly
  <1>1. ReadInv => ZeroedTailOnly
    BY DEF ReadInv
  <1> QED
    BY <1>1, ReadInvariant, PTL

-----------------------------------------------------------------------------
(***************************************************************************)
(* What comes out.                                                         *)
(***************************************************************************)
\* A fragment block is no larger than a block, and one that is compressed leaves
\* the room its decompressor needs behind its output.
FragmentRoomLeft ==
  \A f \in Files :
    f.frag => /\ Len(f.fragment) <= block_size
              /\ f.frag_room = 0 \/ Len(f.fragment) + f.frag_room <= block_size

\* So does every compressed data block, or it is longer on disk than a block.
BlockRoomLeft ==
  \A f \in Files : \A b \in DOMAIN f.block_sizes : f.block_sizes[b].len > 0 => ComesOut(f, b)

LEMMA SameImage == [Next]_vars => UNCHANGED file
  BY DEF Next, Reading, vars, ReadNothing, ReadNoMemory, ReadStart, Call, ReadTail,
         ReadTailFailed, EndWith, ReadHole, ReadCached, ReadMissed, Take, ReadFailed,
         Fail, LoopEnd, Replied, Evicted

\* The only thing that keeps the tail of an intact file from being read, while
\* device and memory work, is a compressed fragment block that leaves no room at
\* the end of the buffer it is decompressed to (sqfs_fragment_read_block).
THEOREM TailsReadWithRoom == ASSUME FragmentRoomLeft PROVE Spec => []TailsRead
  <1>1. Init => TailsRead
    BY DEF Init, TailsRead
  <1>2. ASSUME ReadInv, TailsRead, [Next]_vars PROVE TailsRead'
    <2>1. file' = file
      BY <1>2, SameImage
    <2>2. Intact(file)' = Intact(file)
      BY <2>1 DEF Intact
    <2>3. CASE ReadTailFailed
      <3>1. ASSUME Intact(file) PROVE TailAt < block_size /\ FragmentInPlace
        <4> DEFINE q == block_idx * B
                   tail == file.file_size % B
                   at == file.frag_offset + block_offset
        <4>1. InLoop /\ InFragment
          BY <2>3 DEF ReadTailFailed
        <4>2. /\ q \in Nat /\ block_offset \in Nat /\ tail \in Nat
              /\ offset + bytes_read = q + block_offset /\ file.file_size = q + tail /\ file.frag
          BY <1>2, <3>1, <4>1, TailFacts
        <4>3. /\ offset + bytes_read < file.file_size /\ file \in Files
          BY <1>2, <3>1, <4>1, LoopFacts
        <4>4. /\ file.frag_offset + tail <= Len(file.fragment)
              /\ Len(file.fragment) \in Nat /\ file.frag_offset \in Nat
          BY <3>1, <4>2, <4>3, FileTypes DEF Intact, B
        <4>5. Len(file.fragment) <= block_size /\ FragmentInPlace
          BY <4>2, <4>3 DEF FragmentRoomLeft, FragmentInPlace
        <4>6. TailAt = at /\ block_size \in Nat
          BY BlockSizePositive DEF TailAt
        <4> HIDE DEF q, tail
        <4>7. block_offset < tail
          BY <4>2, <4>3
        <4>8. at < block_size
          BY <4>2, <4>4, <4>5, <4>6, <4>7
        <4> QED
          BY <4>5, <4>6, <4>8
      <3> QED
        BY <2>2, <2>3, <3>1 DEF ReadTailFailed, TailsRead
    <2>4. CASE ~ReadTailFailed
      <3>1. zeroed' = "no" \/ zeroed' = zeroed
        BY <1>2, <2>4 DEF Next, Reading, vars, ReadNothing, ReadNoMemory, ReadStart, Call,
                  ReadTail, ReadHole, ReadCached, ReadMissed, Take, ReadFailed, Fail, LoopEnd,
                  Replied, Evicted
      <3> QED
        BY <1>2, <2>2, <3>1 DEF TailsRead
    <2> QED
      BY <2>3, <2>4
  <1> QED
    BY <1>1, <1>2, ReadInvariant, PTL DEF Spec

\* The only thing that keeps a block of an intact file from being read, while
\* device and memory work, is that it is compressed and leaves no room at the end
\* of the buffer it is decompressed to (sqfs_data_read_block).
THEOREM BlocksReadWithRoom == ASSUME BlockRoomLeft PROVE Spec => []BlocksRead
  <1>1. Init => BlocksRead
    BY DEF Init, BlocksRead
  <1>2. ASSUME ReadInv, BlocksRead, [Next]_vars PROVE BlocksRead'
    <2>1. file' = file /\ Intact(file)' = Intact(file)
      BY <1>2, SameImage DEF Intact
    <2>2. CASE ReadFailed
      <3>1. ASSUME Intact(file) PROVE ReadBlock(file, Pos, Word) # <<>>
        <4> DEFINE b == block_idx + 1
        <4>1. InBlock /\ InLoop /\ Word.len > 0
          BY <2>2 DEF ReadFailed, InBlock
        <4>2. /\ file \in Files /\ b \in DOMAIN file.block_sizes /\ b - 1 = block_idx
              /\ Word = file.block_sizes[b] /\ Pos = BlockPos(file, b - 1)
          BY <1>2, <3>1, <4>1, BlockFacts, LoopFacts DEF Word, Pos
        <4>3. Len(file.stored[b]) \in Nat /\ block_offset < Len(file.stored[b])
          BY <1>2, <3>1, <4>1, DataOf
        <4>4. block_offset \in Nat
          BY <1>2, <3>1, <4>1, BlockFacts
        <4>5. file.stored[b] # <<>>
          BY <4>3, <4>4
        <4>6. ReadBlock(file, BlockPos(file, b - 1), file.block_sizes[b]) = file.stored[b]
          <5> HIDE DEF b
          <5> QED
            BY <3>1, <4>1, <4>2, BlockComes DEF BlockRoomLeft
        <4> QED
          BY <4>2, <4>5, <4>6
      <3> QED
        BY <2>1, <2>2, <3>1 DEF ReadFailed, Fail, BlocksRead
    <2>3. CASE ~ReadFailed
      <3>1. ret' # "block" \/ ret' = ret
        BY <1>2, <2>3 DEF Next, Reading, vars, ReadNothing, ReadNoMemory, ReadStart, ReadTail,
                  ReadTailFailed, EndWith, ReadHole, ReadCached, ReadMissed, Take, LoopEnd,
                  Replied, Evicted
      <3> QED
        BY <1>2, <2>1, <3>1 DEF BlocksRead
    <2> QED
      BY <2>2, <2>3
  <1> QED
    BY <1>1, <1>2, ReadInvariant, PTL DEF Spec

=============================================================================
