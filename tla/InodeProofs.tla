---------------------------- MODULE InodeProofs ----------------------------
(***************************************************************************)
(* Proofs about Metadata and Inode, for every table, every size of a block *)
(* and everything that may be asked for.                                   *)
(***************************************************************************)
EXTENDS Inode, SequenceTheorems, WellFoundedInduction, TLAPS

M == META_BLOCK_SIZE

(***************************************************************************)
(* Blocks and offsets.                                                     *)
(***************************************************************************)
LEMMA DivMod ==
  ASSUME NEW a \in Nat
  PROVE  /\ a \div M \in Nat /\ a % M \in 0 .. M - 1
         /\ a = ((a \div M) * M) + (a % M)
  <1>1. M \in Nat /\ M > 0
    BY MetaSizes DEF M
  <1> QED
    BY <1>1

LEMMA FewerBlocks ==
  ASSUME NEW q \in Nat, NEW k \in Nat, q * M < k * M
  PROVE  q < k
  <1>1. M \in Nat /\ M > 0
    BY MetaSizes DEF M
  <1>2. CASE q >= k
    <2>1. PICK d \in Nat : q = k + d
      <3>1. q - k \in Nat /\ q = k + (q - k)
        BY <1>2
      <3> QED
        BY <3>1
    <2>2. q * M = k * M + d * M /\ d * M >= 0 /\ d * M \in Int /\ k * M \in Int
      BY <1>1, <2>1
    <2> QED
      BY <2>2
  <1> QED
    BY <1>2

\* The quotient is between those of a smaller and of a larger number.
LEMMA Between ==
  ASSUME NEW a \in Nat, NEW c \in Nat, NEW e \in Nat, a <= c, c <= e,
         NEW q \in Nat, NEW r \in 0 .. M - 1, c = q * M + r
  PROVE  a \div M <= q /\ q <= e \div M
  <1>1. M \in Nat /\ M > 0
    BY MetaSizes DEF M
  <1> DEFINE qa == a \div M
             qe == e \div M
  <1>2. /\ qa \in Nat /\ qe \in Nat
        /\ qa * M \in Nat /\ qe * M \in Nat /\ q * M \in Nat
    BY <1>1, DivMod
  <1>3. qa * M <= a /\ e < qe * M + M
    BY <1>1, <1>2, DivMod
  <1>4. (q + 1) * M = q * M + M /\ (qe + 1) * M = qe * M + M
    <2> HIDE DEF qa, qe
    <2> QED
      BY <1>1, <1>2
  <1> HIDE DEF qa, qe
  <1>5. qa * M < (q + 1) * M /\ q * M < (qe + 1) * M
    BY <1>1, <1>2, <1>3, <1>4
  <1>6. qa < q + 1 /\ q < qe + 1
    BY <1>2, <1>5, FewerBlocks
  <1> QED
    BY <1>2, <1>6 DEF qa, qe

LEMMA LeastNumber ==
  ASSUME NEW T, T \subseteq Nat, T # {}
  PROVE  \E x \in T : \A y \in T : x <= y
  <1> DEFINE R == OpToRel(<, Nat)
  <1>1. IsWellFoundedOn(R, Nat)
    BY NatLessThanWellFounded
  <1>2. \A x, y \in Nat : x < y => <<x, y>> \in R
    BY DEF OpToRel
  <1> HIDE DEF R
  <1>3. PICK x \in T : \A y \in T : ~(<<y, x>> \in R)
    BY <1>1, WFMin
  <1>4. ASSUME NEW y \in T PROVE x <= y
    <2>1. x \in Nat /\ y \in Nat /\ ~(y < x)
      BY <1>2, <1>3
    <2> QED
      BY <2>1
  <1> QED
    BY <1>4

\* No two blocks of a table start at the same place.
LEMMA StartsApart ==
  ASSUME NEW t \in Tables, NEW a \in 1 .. Len(t.len) + 1
  PROVE  \A b \in 1 .. Len(t.len) + 1 : a < b => t.start[a] < t.start[b]
  <1> DEFINE L == Len(t.len)
             T == {b \in Nat : b <= L + 1 /\ a < b /\ ~(t.start[a] < t.start[b])}
  <1>1. L \in Nat /\ t.start \in [1 .. L + 1 -> Nat] /\ a \in 1 .. L + 1
    BY MetaTables
  <1>2. \A b \in 1 .. L : t.start[b + 1] > t.start[b]
    <2> SUFFICES ASSUME NEW b \in 1 .. L PROVE t.start[b + 1] > t.start[b]
      OBVIOUS
    <2>1. t.start[b + 1] = t.start[b] + BlockHeader + StoredBytes(t, b)
      BY MetaTables
    <2>2. BlockFirst(b) \in Int /\ t.size \in Nat /\ M \in Nat /\ t.len[b] \in Nat
      BY MetaTables, MetaSizes DEF BlockFirst, M
    <2>3. StoredBytes(t, b) \in Nat
      BY <2>2 DEF StoredBytes, BlockBytes, Min2, M
    <2>4. t.start[b] \in Nat
      BY <1>1
    <2> QED
      BY <2>1, <2>3, <2>4 DEF BlockHeader
  <1> HIDE DEF L
  <1>3. T = {}
    <2> SUFFICES ASSUME T # {} PROVE FALSE
      OBVIOUS
    <2>1. T \subseteq Nat
      OBVIOUS
    <2>2. PICK b \in T : \A y \in T : b <= y
      <3> HIDE DEF T
      <3> QED
        BY <2>1, LeastNumber
    <2>3. b - 1 \in 1 .. L /\ a <= b - 1 /\ b - 1 \in Nat
      BY <1>1, <2>2
    <2>4. b - 1 \notin T
      <3>1. ~(b <= b - 1)
        BY <2>3
      <3> HIDE DEF T
      <3> QED
        BY <2>2, <3>1
    <2>5. a = b - 1 \/ t.start[a] < t.start[b - 1]
      BY <1>1, <2>3, <2>4
    <2>6. t.start[b - 1] < t.start[b]
      <3>1. (b - 1) + 1 = b
        BY <2>2
      <3> QED
        BY <1>2, <2>3, <3>1
    <2>7. t.start[a] \in Nat /\ t.start[b - 1] \in Nat /\ t.start[b] \in Nat
      BY <1>1, <2>2, <2>3
    <2>8. t.start[a] < t.start[b]
      BY <2>5, <2>6, <2>7
    <2> QED
      BY <2>2, <2>8
  <1>4. ASSUME NEW b \in 1 .. L + 1, a < b PROVE t.start[a] < t.start[b]
    BY <1>1, <1>3, <1>4
  <1> QED
    BY <1>4 DEF L

\* The block whose header is where block b starts is block b.
LEMMA BlockFound ==
  ASSUME table \in Tables, NEW b \in 1 .. Len(table.len)
  PROVE  BlockAt(table.start[b]) = b
  <1> DEFINE L == Len(table.len)
  <1>1. L \in Nat /\ table.start \in [1 .. L + 1 -> Nat]
    BY MetaTables
  <1>2. ASSUME NEW c \in 1 .. L, table.start[c] = table.start[b] PROVE c = b
    <2>1. b \in 1 .. L + 1 /\ c \in 1 .. L + 1 /\ table.start[b] \in Nat
      BY <1>1
    <2>2. ~(b < c) /\ ~(c < b)
      BY <1>2, <2>1, StartsApart
    <2> QED
      BY <1>1, <2>2
  <1> QED
    BY <1>2 DEF BlockAt

LEMMA FirstBytes ==
  ASSUME NEW b \in Nat \ {0}
  PROVE  BlockFirst(b) \in Nat /\ BlockFirst(b + 1) = BlockFirst(b) + M
  <1>1. M \in Nat /\ M > 0 /\ b - 1 \in Nat
    BY MetaSizes DEF M
  <1>2. (b + 1) - 1 = (b - 1) + 1
    OBVIOUS
  <1>3. ((b - 1) + 1) * M = (b - 1) * M + M /\ (b - 1) * M \in Nat
    BY <1>1
  <1> QED
    BY <1>1, <1>2, <1>3 DEF BlockFirst, M

LEMMA TableTypes ==
  ASSUME NEW t \in Tables
  PROVE  /\ t.size \in Nat /\ t.len \in Seq(Nat) /\ Len(t.len) \in Nat
         /\ t.start \in [1 .. Len(t.len) + 1 -> Nat]
         /\ \A b \in 1 .. Len(t.len) : t.start[b + 1] = t.start[b] + BlockHeader + StoredBytes(t, b)
         /\ M \in Nat /\ M > 0
  BY MetaTables, MetaSizes DEF M

\* The block that holds a byte of the stream, and the one behind it.
LEMMA BlockOf ==
  ASSUME table \in Tables, NEW b \in Nat \ {0}, NEW r \in 0 .. M - 1,
         BlockFirst(b) + r < table.size
  PROVE  /\ b \in 1 .. Len(table.len)
         /\ BlockAt(table.start[b]) = b
         /\ NextBlock(table.start[b]) = table.start[b + 1]
         /\ BlockBytes(table, b) = Min2(M, table.size - BlockFirst(b))
         /\ BlockBytes(table, b) \in r + 1 .. M
         /\ BlockData(b) = [j \in 1 .. BlockBytes(table, b) |-> BlockFirst(b) + j]
  <1> DEFINE L == Len(table.len)
             f == BlockFirst(b)
  <1>1. M \in Nat /\ M > 0 /\ L \in Nat /\ table.size \in Nat /\ f \in Nat
    BY FirstBytes, TableTypes
  <1>2. table.size <= L * M /\ L * M \in Nat
    BY <1>1, MetaTables DEF M
  <1>3. b - 1 < L
    <2>1. f < L * M
      <3> DEFINE x == L * M
                 w == table.size
      <3>1. f + r < w
        OBVIOUS
      <3> HIDE DEF f, x, w, L
      <3> QED
        BY <1>1, <1>2, <3>1 DEF x, w
    <2>2. b - 1 \in Nat /\ f = (b - 1) * M
      BY DEF BlockFirst, M
    <2> HIDE DEF f
    <2> QED
      BY <1>1, <2>1, <2>2, FewerBlocks
  <1>4. b \in 1 .. L
    BY <1>1, <1>3
  <1>5. BlockAt(table.start[b]) = b
    BY <1>4, BlockFound
  <1>6. NextBlock(table.start[b]) = table.start[b + 1]
    BY <1>4, <1>5, TableTypes DEF NextBlock
  <1>7. ~(f >= table.size)
    <2> HIDE DEF f
    <2> QED
      BY <1>1 DEF f
  <1>8. BlockBytes(table, b) = Min2(M, table.size - f)
    BY <1>7 DEF BlockBytes, M
  <1>9. Min2(M, table.size - f) \in r + 1 .. M
    <2>1. f + r < table.size
      OBVIOUS
    <2> HIDE DEF f
    <2> QED
      BY <1>1, <2>1 DEF Min2
  <1>10. BlockData(b) = [j \in 1 .. BlockBytes(table, b) |-> f + j]
    BY <1>7 DEF BlockData
  <1> QED
    BY <1>4, <1>5, <1>6, <1>8, <1>9, <1>10

\* What the two ways to read that block make of it.
LEMMA BlockRead ==
  ASSUME table \in Tables, NEW b \in Nat \ {0}, NEW r \in 0 .. M - 1,
         BlockFirst(b) + r < table.size
  PROVE  /\ ReadMetaBlock(table.start[b]) = BlockData(b)
         /\ MetaReadBlock(table.start[b]) =
              IF InPlace(Len(BlockData(b)), table.len[b]) THEN BlockData(b) ELSE <<>>
         /\ BlockData(b) \in Seq(Nat) /\ Len(BlockData(b)) = BlockBytes(table, b)
         /\ Len(BlockData(b)) \in r + 1 .. M
  <1> DEFINE n == BlockBytes(table, b)
             f == BlockFirst(b)
  <1>1. n \in r + 1 .. M /\ f \in Nat /\ M \in Nat /\ n \in Nat
    <2>1. n \in r + 1 .. M
      BY BlockOf
    <2>2. f \in Nat
      BY FirstBytes
    <2>3. M \in Nat /\ r \in Nat
      BY TableTypes
    <2> HIDE DEF n, f
    <2> QED
      BY <2>1, <2>2, <2>3
  <1>2. BlockAt(table.start[b]) = b
    BY BlockOf
  <1>3. BlockData(b) = [j \in 1 .. n |-> f + j]
    BY BlockOf
  <1> HIDE DEF n, f
  <1>4. BlockData(b) \in Seq(Nat) /\ Len(BlockData(b)) = n
    BY <1>1, <1>3
  <1> QED
    BY <1>1, <1>2, <1>4 DEF ReadMetaBlock, MetaReadBlock, n

(***************************************************************************)
(* What holds between two steps of a read.                                 *)
(***************************************************************************)
EarlySteps == {"header", "fixed", "full", "alloc"}
InodeSteps == EarlySteps \union {"parse", "check"}
StreamSteps == {"first", "next", "turn"}
Labels == InodeSteps \union StreamSteps \union {"idle", "export", "ref", "done", "crashed"}

\* The n bytes of the stream from a on.
Slice(a, n) == [j \in 1 .. n |-> a + j]

Asked ==
  item.who \in {"dir", "meta"} /\ item.at \in 0 .. table.size /\ item.size \in Nat \ {0}

ItemInv ==
  /\ table \in Tables /\ pc \in Labels
  /\ pc \in {"idle", "export", "ref"} => item = Idle
  /\ pc \in StreamSteps => Asked /\ (pc = "turn" <=> item.who = "meta")
  /\ pc \in InodeSteps => IsInode(item, table.size)
  /\ pc = "done" => item = Idle \/ Asked \/ IsInode(item, table.size)
  /\ pc # "done" => ret = "ok"

\* The next byte to be read is byte off of block b, which is at pos.
Placed(b, off) ==
  /\ off \in 0 .. M - 1
  /\ item.at + Len(out) = BlockFirst(b) + off
  /\ pos = table.start[b]

PosInv ==
  /\ pc \in {"first", "header", "fixed", "full"} =>
       out = <<>> /\ \E b \in Nat \ {0} : Placed(b, block_offset)
  /\ pc = "next" /\ Whole =>
       /\ Len(out) \in 0 .. item.size - 1 /\ out = Slice(item.at, Len(out))
       /\ \E b \in Nat \ {0} : Placed(b, 0)
  /\ pc = "turn" /\ Whole =>
       /\ Len(out) \in 0 .. item.size - 1 /\ out = Slice(item.at, Len(out))
       /\ \E b \in Nat \ {0} : Placed(b, block_offset)
  /\ pc \in {"alloc", "parse", "check"} /\ item.at < table.size =>
       out = Slice(item.at, InodeSize) /\ item.at + InodeSize <= table.size

\* What a read has to do with the number it was asked for by.
ExportInv ==
  /\ exp.junk \in BOOLEAN
  /\ exp.addr # 0 /\ ~exp.junk => exp.refs = Refs(exp.addr)
  /\ pc \in StreamSteps \union {"idle"} => num = 0
  /\ pc \in {"export", "ref"} => num \in 1 .. Len(table.inodes) + 1
  /\ pc = "ref" => exp.addr = ExportBlock(num)
  /\ num \in Nat
  /\ pc \in InodeSteps /\ num > 0 /\ ~exp.junk =>
       num \in DOMAIN table.inodes /\ item = table.inodes[num]
  /\ pc = "done" /\ num > 0 /\ ret = "ok" =>
       /\ item.who = "inode"
       /\ ~exp.junk => num \in DOMAIN table.inodes /\ item = table.inodes[num]

\* What sqfs_inode_get_by_ref has allocated so far, and what the caller has.
Owned ==
  IF pc = "parse" THEN {"inode"}
  ELSE IF pc = "check" \/ (pc = "done" /\ ret = "ok" /\ item.who = "inode")
    THEN {"inode"} \union Arrays(item)
    ELSE {}

HeapInv ==
  /\ cut \in BOOLEAN /\ wild = FALSE
  /\ pc # "crashed" => heap = Owned \/ (cut /\ heap = Owned \union {"lost"})

Answers == StreamSlice /\ IntactReads /\ InodeInBounds

MInv == ItemInv /\ PosInv /\ ExportInv /\ HeapInv /\ Answers

LEMMA NoAnswer ==
  ASSUME pc # "done"
  PROVE  Answers
  BY DEF Answers, StreamSlice, IntactReads, InodeInBounds

LEMMA MetaInit == InodeInit => MInv
  <1> SUFFICES ASSUME InodeInit PROVE MInv
    OBVIOUS
  <1>1. ItemInv /\ PosInv
    BY DEF InodeInit, Init, ItemInv, PosInv, Labels, InodeSteps, EarlySteps, StreamSteps
  <1>2. ExportInv /\ HeapInv
    BY DEF InodeInit, Init, ExportInv, HeapInv, Owned, InodeSteps, EarlySteps, StreamSteps
  <1> QED
    BY <1>1, <1>2, NoAnswer DEF InodeInit, Init, MInv

\* A step of a read keeps what it is about.
LEMMA SameItem ==
  ASSUME UNCHANGED <<table, item>>
  PROVE  /\ Whole' <=> Whole
         /\ OneBlock' <=> OneBlock
         /\ Readable' <=> Readable
         /\ Asked' <=> Asked
         /\ IsInode(item, table.size)' <=> IsInode(item, table.size)
         /\ Arrays(item)' = Arrays(item)
         /\ InodeSize' = InodeSize
         /\ Idle' = Idle
  BY DEF Whole, OneBlock, Readable, InPlace, Room, BlockData, BlockBytes, BlockFirst, RefOffset,
         Asked, IsInode, Arrays, InodeSize, Min2, Idle

\* A step of one of the stream's readers concerns nothing else.
LEMMA StreamOnly ==
  ASSUME MInv, pc \in StreamSteps, pc' \in StreamSteps \union {"done"},
         UNCHANGED <<table, item, inodeVars>>
  PROVE  ExportInv' /\ HeapInv'
  <1>1. num = 0 /\ item.who \in {"dir", "meta"} /\ Refs(exp.addr)' = Refs(exp.addr)
    BY DEF MInv, ItemInv, ExportInv, Asked, Refs, inodeVars
  <1>2. ExportInv'
    BY <1>1 DEF MInv, ExportInv, inodeVars, InodeSteps, EarlySteps, StreamSteps
  <1>3. HeapInv'
    <2>1. Owned = {} /\ Owned' = {}
      BY <1>1 DEF Owned, StreamSteps
    <2>2. pc # "crashed" /\ UNCHANGED <<heap, cut, wild>>
      BY DEF StreamSteps, inodeVars
    <2> QED
      BY <2>1, <2>2 DEF MInv, HeapInv
  <1> QED
    BY <1>2, <1>3

\* Before the structure is allocated sqfs_inode_get_by_ref has nothing to free.
LEMMA EarlyHeap ==
  ASSUME MInv, pc \in EarlySteps, UNCHANGED inodeVars,
         pc' \in EarlySteps \/ (pc' = "done" /\ ret' = "corrupt")
  PROVE  HeapInv'
  <1>1. Owned = {} /\ Owned' = {}
    BY DEF Owned, EarlySteps
  <1>2. pc # "crashed" /\ UNCHANGED <<heap, cut, wild>>
    BY DEF EarlySteps, inodeVars
  <1> QED
    BY <1>1, <1>2 DEF MInv, HeapInv

(***************************************************************************)
(* The readers of the stream.                                              *)
(***************************************************************************)
LEMMA Joined ==
  ASSUME NEW a \in Nat, NEW k \in Nat, NEW n \in Nat
  PROVE  /\ [j \in 1 .. k |-> a + j] \o [j \in 1 .. n |-> a + k + j] = [j \in 1 .. k + n |-> a + j]
         /\ Len([j \in 1 .. k + n |-> a + j]) = k + n
  <1> DEFINE g == [j \in 1 .. n |-> a + k + j]
             h == [j \in 1 .. k |-> a + j]
             s == [j \in 1 .. k + n |-> a + j]
  <1>1. g \in Seq(Nat) /\ Len(g) = n /\ \A j \in 1 .. n : g[j] = a + k + j
    OBVIOUS
  <1>2. h \in Seq(Nat) /\ Len(h) = k /\ \A j \in 1 .. k : h[j] = a + j
    OBVIOUS
  <1>3. s \in Seq(Nat) /\ Len(s) = k + n /\ \A j \in 1 .. k + n : s[j] = a + j
    OBVIOUS
  <1> HIDE DEF g, h, s
  <1>4. /\ h \o g \in Seq(Nat) /\ Len(h \o g) = k + n
        /\ \A j \in 1 .. k + n : (h \o g)[j] = IF j <= k THEN h[j] ELSE g[j - k]
    BY <1>1, <1>2, ConcatProperties
  <1>5. ASSUME NEW j \in 1 .. k + n PROVE (h \o g)[j] = s[j]
    <2>1. CASE j <= k
      BY <1>2, <1>3, <1>4, <2>1
    <2>2. CASE j > k
      <3>1. j - k \in 1 .. n /\ a + k + (j - k) = a + j /\ ~(j <= k)
        BY <2>2
      <3> QED
        BY <1>1, <1>3, <1>4, <3>1
    <2>3. j <= k \/ j > k
      OBVIOUS
    <2> QED
      BY <2>1, <2>2, <2>3
  <1>6. h \o g = s
    BY <1>3, <1>4, <1>5, SeqEqual
  <1> QED
    BY <1>3, <1>6 DEF g, h, s

\* The stretch of a block from r on.
LEMMA Stretch ==
  ASSUME NEW f \in Nat, NEW r \in Nat, NEW l \in Nat, NEW n \in Nat, r + n <= l,
         NEW c \in Nat, c = f + r
  PROVE  SubSeq([j \in 1 .. l |-> f + j], r + 1, r + n) = [j \in 1 .. n |-> c + j]
  <1> DEFINE d == [j \in 1 .. l |-> f + j]
             g == [j \in 1 .. n |-> c + j]
             s == SubSeq(d, r + 1, r + n)
  <1>1. d \in Seq(Nat) /\ Len(d) = l /\ \A j \in 1 .. l : d[j] = f + j
    OBVIOUS
  <1>2. g \in Seq(Nat) /\ Len(g) = n /\ \A j \in 1 .. n : g[j] = c + j
    OBVIOUS
  <1>3. r + 1 \in 1 .. Len(d) + 1 /\ r + n \in r .. Len(d) /\ (r + n) - (r + 1) + 1 = n
    BY <1>1
  <1> HIDE DEF d, g
  <1>4. s \in Seq(Nat) /\ Len(s) = n /\ \A j \in 1 .. n : s[j] = d[r + j]
    BY <1>1, <1>3
  <1> HIDE DEF s
  <1>5. ASSUME NEW j \in 1 .. n PROVE s[j] = g[j]
    <2>1. r + j \in 1 .. l /\ f + (r + j) = c + j
      OBVIOUS
    <2> QED
      BY <1>1, <1>2, <1>4, <2>1
  <1>6. s = g
    BY <1>2, <1>4, <1>5, SeqEqual
  <1> QED
    BY <1>6 DEF s, g, d

\* Byte k of what was asked for is byte r of block b, of which so many are copied.
Aligned(k, b, r) == k < item.size /\ item.at + k = BlockFirst(b) + r

Copied(k, b, r) == Min2(item.size - k, Len(BlockData(b)) - r)

Piece(b, r, n) == SubSeq(BlockData(b), r + 1, r + n)

\* What has been copied after it.
Continues(k, b, r, n) == Slice(item.at, k) \o Piece(b, r, n) = Slice(item.at, k + n)

LEMMA Smaller ==
  ASSUME NEW x \in Int, NEW y \in Int, x > 0, y > 0
  PROVE  Min2(x, y) \in Nat \ {0} /\ Min2(x, y) <= x /\ Min2(x, y) <= y /\ Min2(x, y) \in {x, y}
  BY DEF Min2

\* The piece of a block that is copied continues what has been copied so far, and
\* if more is wanted the block was used up.
LEMMA Chunk ==
  ASSUME table \in Tables, Whole, item.at \in Nat, item.size \in Nat,
         NEW k \in Nat, NEW b \in Nat \ {0}, NEW r \in 0 .. M - 1, Aligned(k, b, r)
  PROVE  LET n == Copied(k, b, r)
         IN  /\ BlockFirst(b) + r < table.size
             /\ n \in Nat \ {0} /\ k + n <= item.size
             /\ Continues(k, b, r, n)
             /\ Len(Slice(item.at, k + n)) = k + n
             /\ k + n # item.size => item.at + (k + n) = BlockFirst(b + 1)
  <1> DEFINE n == Copied(k, b, r)
             f == BlockFirst(b)
             d == BlockData(b)
             a == item.at
             z == item.size
             w == table.size
             l == Len(d)
  <1>1. /\ M \in Nat /\ M > 0 /\ w \in Nat /\ f \in Nat /\ r \in Nat
        /\ a \in Nat /\ z \in Nat /\ a + z <= w /\ a + k = f + r /\ k < z
    BY FirstBytes, TableTypes DEF Whole, Aligned
  <1>2. f + r < w
    <2> HIDE DEF f, a, z, w
    <2> QED
      BY <1>1
  <1>3. /\ l = Min2(M, w - f) /\ l \in r + 1 .. M /\ l \in Nat
        /\ d = [j \in 1 .. l |-> f + j] /\ d \in Seq(Nat)
    BY <1>1, <1>2, BlockOf, BlockRead
  <1>4. n = Min2(z - k, l - r) /\ BlockFirst(b + 1) = f + M
    BY FirstBytes DEF Copied
  <1> HIDE DEF n
  <1>5. l = M \/ l = w - f
    BY <1>3 DEF Min2
  <1>6. /\ n \in Nat \ {0} /\ k + n <= z /\ r + n <= l
        /\ k + n # z => a + (k + n) = f + M
    <2> HIDE DEF f, a, z, w, d, l
    <2>0. l \in Nat
      BY <1>3
    <2>1. r < l /\ l <= M
      BY <1>1, <1>3
    <2>3. z - k \in Int /\ l - r \in Int /\ z - k > 0 /\ l - r > 0
      BY <1>1, <1>3, <2>1
    <2>4. n \in Nat \ {0} /\ n <= z - k /\ n <= l - r /\ n \in {z - k, l - r}
      BY <1>4, <2>3, Smaller
    <2>5. CASE n = z - k
      BY <1>1, <2>0, <2>1, <2>4, <2>5
    <2>6. CASE n = l - r
      <3>1. k + n # z => k + n < z
        BY <1>1, <2>0, <2>4
      <3>2. CASE l = w - f
        BY <1>1, <2>0, <2>4, <2>6, <3>1, <3>2
      <3>3. CASE l = M
        BY <1>1, <2>0, <2>4, <2>6, <3>1, <3>3
      <3> QED
        BY <1>5, <3>2, <3>3
    <2> QED
      BY <2>4, <2>5, <2>6
  <1>7. SubSeq(d, r + 1, r + n) = [j \in 1 .. n |-> (a + k) + j]
    <2> HIDE DEF f, a, z, w, d, l
    <2> DEFINE c == a + k
    <2>1. n \in Nat /\ c \in Nat /\ c = f + r /\ l \in Nat /\ r + n <= l
      BY <1>1, <1>3, <1>6
    <2> HIDE DEF c
    <2>2. SubSeq([j \in 1 .. l |-> f + j], r + 1, r + n) = [j \in 1 .. n |-> c + j]
      BY <1>1, <2>1, Stretch
    <2> QED
      BY <1>3, <2>2 DEF c
  <1>8. /\ Slice(a, k) \o SubSeq(d, r + 1, r + n) = Slice(a, k + n)
        /\ Len(Slice(a, k + n)) = k + n
    <2>1. Slice(a, k) = [j \in 1 .. k |-> a + j] /\ Slice(a, k + n) = [j \in 1 .. k + n |-> a + j]
      BY DEF Slice
    <2> HIDE DEF a, d, f, z, w, l
    <2>2. a \in Nat /\ k \in Nat /\ n \in Nat
      BY <1>1, <1>6
    <2>3. /\ [j \in 1 .. k |-> a + j] \o [j \in 1 .. n |-> a + k + j] = [j \in 1 .. k + n |-> a + j]
          /\ Len([j \in 1 .. k + n |-> a + j]) = k + n
      BY <2>2, Joined
    <2> QED
      BY <1>7, <2>1, <2>3
  <1> QED
    <2> HIDE DEF f, a, z, d, w, l
    <2>1. k + n # z => a + (k + n) = BlockFirst(b + 1)
      BY <1>4, <1>6
    <2> QED
      BY <1>2, <1>6, <1>8, <2>1 DEF f, a, z, d, w, n, Piece, Continues

\* Where a reference leads to.
LEMMA Reference ==
  ASSUME table \in Tables, NEW at \in Nat
  PROVE  \E b \in Nat \ {0} :
           /\ RefOffset(at) \in 0 .. M - 1 /\ at = BlockFirst(b) + RefOffset(at)
           /\ RefBlock(at) = table.start[b]
  <1> DEFINE q == at \div M
             r == at % M
             x == q * M
  <1>1. q \in Nat /\ r \in 0 .. M - 1 /\ at = x + r /\ M \in Nat
    BY DivMod, TableTypes
  <1>2. BlockFirst(q + 1) = x
    <2>1. (q + 1) - 1 = q
      <3> HIDE DEF q
      <3> QED
        BY <1>1
    <2> QED
      BY <2>1 DEF BlockFirst, M
  <1>3. RefOffset(at) = r /\ RefBlock(at) = table.start[q + 1]
    BY DEF RefOffset, RefBlock, M
  <1>4. q + 1 \in Nat \ {0}
    <2> HIDE DEF q
    <2> QED
      BY <1>1
  <1> HIDE DEF q, r, x
  <1> QED
    BY <1>1, <1>2, <1>3, <1>4

\* There is only one way to take an offset apart.
LEMMA OffsetOf ==
  ASSUME table \in Tables, NEW at \in Nat, NEW b \in Nat \ {0}, NEW r \in 0 .. M - 1,
         at = BlockFirst(b) + r
  PROVE  RefOffset(at) = r
  <1> DEFINE q == at \div M
             p == b - 1
             x == p * M
  <1>1. q \in Nat /\ at % M \in 0 .. M - 1 /\ at = (q * M) + (at % M) /\ M \in Nat
    BY DivMod, TableTypes
  <1>2. p \in Nat /\ BlockFirst(b) = x
    BY DEF BlockFirst, M
  <1>3. at = p * M + r /\ at <= at
    BY <1>2
  <1>4. q <= p /\ p <= q
    <2> HIDE DEF p
    <2> QED
      BY <1>2, <1>3, Between
  <1>5. q = p
    <2> HIDE DEF p, q
    <2> QED
      BY <1>1, <1>2, <1>4
  <1>6. at = x + (at % M) /\ at = x + r /\ x \in Nat
    <2>1. x \in Nat
      BY <1>2, FirstBytes
    <2> HIDE DEF q, p
    <2> QED
      BY <1>1, <1>2, <1>3, <1>5, <2>1
  <1> DEFINE m == at % M
  <1>7. RefOffset(at) = m /\ m \in Int /\ r \in Int
    BY <1>1 DEF RefOffset, M
  <1> HIDE DEF x, m
  <1>8. m = r
    <2>1. at = x + m /\ at = x + r /\ x \in Nat
      BY <1>6 DEF m
    <2> QED
      BY <1>7, <2>1
  <1> QED
    BY <1>7, <1>8

\* The blocks of what can be read come out of sqfs_meta_read_block.
LEMMA ComesOut ==
  ASSUME table \in Tables, Readable, item.at \in Nat, item.size \in Nat,
         NEW k \in Nat, NEW b \in Nat \ {0}, NEW r \in 0 .. M - 1, Aligned(k, b, r)
  PROVE  InPlace(Len(BlockData(b)), table.len[b])
  <1> DEFINE c == item.at + k
             e == item.at + item.size - 1
             p == b - 1
  <1>1. M \in Nat /\ k < item.size /\ c = BlockFirst(b) + r
    BY TableTypes DEF Aligned
  <1>2. p \in Nat /\ BlockFirst(b) = p * M
    BY DEF BlockFirst, M
  <1>3. c \in Nat /\ e \in Nat /\ item.at <= c /\ c <= e
    BY <1>1
  <1>4. item.at \div M <= p /\ p <= e \div M
    <2>1. c = p * M + r
      BY <1>1, <1>2
    <2> HIDE DEF c, e, p
    <2> QED
      BY <1>2, <1>3, <2>1, Between
  <1> DEFINE x == item.at \div M
             y == e \div M
  <1>5. x \in Nat /\ y \in Nat
    <2> HIDE DEF e
    <2> QED
      BY <1>3, DivMod
  <1>6. \A d \in x + 1 .. y + 1 : InPlace(Len(BlockData(d)), table.len[d])
    BY DEF Readable, M
  <1>7. x <= b - 1 /\ b - 1 <= y
    BY <1>4
  <1> HIDE DEF x, y
  <1>8. b \in x + 1 .. y + 1
    BY <1>5, <1>7
  <1> QED
    BY <1>6, <1>8

\* The block a reader is at.
LEMMA Source ==
  ASSUME table \in Tables, Whole, item.at \in Nat, item.size \in Nat,
         NEW k \in Nat, NEW b \in Nat \ {0}, NEW r \in 0 .. M - 1, Aligned(k, b, r),
         pos = table.start[b]
  PROVE  /\ ReadMetaBlock(pos) = BlockData(b)
         /\ MetaReadBlock(pos) # <<>> => MetaReadBlock(pos) = BlockData(b)
         /\ Readable => MetaReadBlock(pos) = BlockData(b)
         /\ BlockData(b) # <<>> /\ Len(BlockData(b)) \in Nat /\ r < Len(BlockData(b))
         /\ NextBlock(pos) = table.start[b + 1]
  <1>1. BlockFirst(b) + r < table.size
    BY Chunk
  <1>2. /\ ReadMetaBlock(pos) = BlockData(b)
        /\ MetaReadBlock(pos) =
             IF InPlace(Len(BlockData(b)), table.len[b]) THEN BlockData(b) ELSE <<>>
        /\ BlockData(b) \in Seq(Nat)
        /\ Len(BlockData(b)) \in r + 1 .. M
    BY <1>1, BlockRead
  <1>3. NextBlock(pos) = table.start[b + 1]
    BY <1>1, BlockOf
  <1>4. Len(BlockData(b)) \in Nat /\ r < Len(BlockData(b)) /\ BlockData(b) # <<>>
    <2>1. M \in Nat /\ r \in Nat
      BY TableTypes
    <2> DEFINE l == Len(BlockData(b))
    <2>2. l \in Nat /\ r < l
      <3>1. l \in r + 1 .. M
        BY <1>2
      <3> HIDE DEF l
      <3> QED
        BY <2>1, <3>1
    <2>3. BlockData(b) # <<>>
      <3>1. Len(<<>>) = 0
        OBVIOUS
      <3>2. l # 0
        <4> HIDE DEF l
        <4> QED
          BY <2>1, <2>2
      <3> QED
        BY <3>1, <3>2
    <2> QED
      BY <2>2, <2>3
  <1>5. Readable => InPlace(Len(BlockData(b)), table.len[b])
    BY ComesOut
  <1> QED
    BY <1>2, <1>3, <1>4, <1>5

\* A reader takes a reference apart.
LEMMA BeginPlaced ==
  ASSUME table \in Tables, NEW i, i.at \in Nat, NEW label, Begin(i, label)
  PROVE  /\ out' = <<>> /\ item' = i /\ table' = table /\ pc' = label /\ ret' = ret
         /\ \E b \in Nat \ {0} : Placed(b, block_offset)'
  <1>1. PICK b \in Nat \ {0} :
          /\ RefOffset(i.at) \in 0 .. M - 1 /\ i.at = BlockFirst(b) + RefOffset(i.at)
          /\ RefBlock(i.at) = table.start[b]
    BY Reference
  <1>2. Len(<<>>) = 0 /\ i.at + 0 = i.at
    OBVIOUS
  <1>3. /\ item' = i /\ out' = <<>> /\ table' = table /\ pc' = label /\ ret' = ret
        /\ pos' = RefBlock(i.at) /\ block_offset' = RefOffset(i.at)
    BY DEF Begin
  <1>4. Placed(b, block_offset)'
    BY <1>1, <1>2, <1>3 DEF Placed
  <1> QED
    BY <1>3, <1>4

LEMMA StartStep ==
  ASSUME MInv, NEW i \in Items(table.size), Start(i), UNCHANGED inodeVars
  PROVE  MInv'
  <1>1. table \in Tables /\ pc = "idle" /\ item = Idle /\ ret = "ok"
    BY DEF MInv, ItemInv, Start
  <1>2. i.who \in {"dir", "meta"} /\ i.at \in 0 .. table.size /\ i.size \in Nat \ {0}
    BY <1>1, MetaItems
  <1>3. i.at \in Nat /\ table.size \in Nat
    BY <1>1, <1>2, TableTypes
  <1>4. /\ out' = <<>> /\ item' = i /\ table' = table /\ pc' = FirstStep[i.who] /\ ret' = "ok"
        /\ \E b \in Nat \ {0} : Placed(b, block_offset)'
    BY <1>1, <1>3, BeginPlaced DEF Start
  <1>5. (pc' = "first" /\ i.who = "dir") \/ (pc' = "turn" /\ i.who = "meta")
    BY <1>2, <1>4 DEF FirstStep
  <1>6. ItemInv'
    BY <1>1, <1>2, <1>4, <1>5 DEF ItemInv, Asked, Labels, StreamSteps, InodeSteps, EarlySteps
  <1>7. PosInv'
    <2>1. Len(<<>>) = 0 /\ \A x : Slice(x, 0) = <<>>
      BY DEF Slice
    <2>2. 0 \in 0 .. i.size - 1
      BY <1>2
    <2>3. Len(out') \in 0 .. item'.size - 1 /\ out' = Slice(item'.at, Len(out'))
      BY <1>4, <2>1, <2>2
    <2> QED
      BY <1>4, <1>5, <2>3 DEF PosInv
  <1>8. ExportInv'
    <2>1. Refs(exp.addr)' = Refs(exp.addr)
      BY <1>4 DEF Refs, inodeVars
    <2> QED
      BY <1>1, <1>4, <1>5, <2>1 DEF MInv, ExportInv, inodeVars, StreamSteps, InodeSteps, EarlySteps
  <1>9. HeapInv'
    <2>1. Owned = {} /\ Owned' = {} /\ pc # "crashed"
      BY <1>1, <1>5 DEF Owned
    <2> QED
      BY <2>1 DEF MInv, HeapInv, inodeVars
  <1>10. Answers'
    BY <1>5 DEF Answers, StreamSlice, IntactReads, InodeInBounds
  <1> QED
    BY <1>6, <1>7, <1>8, <1>9, <1>10 DEF MInv

\* A turn of a reader's loop: it goes on where it was, and comes to the end of what
\* was asked for or of the block.
LEMMA Turned ==
  ASSUME MInv, Asked, Whole, Len(out) \in 0 .. item.size - 1, out = Slice(item.at, Len(out)),
         NEW b \in Nat \ {0}, NEW r \in 0 .. M - 1, Placed(b, r),
         UNCHANGED <<table, item>>,
         out' = out \o Piece(b, r, Copied(Len(out), b, r))
  PROVE  LET n == Copied(Len(out), b, r) IN
         /\ n \in Nat \ {0} /\ Aligned(Len(out), b, r)
         /\ out' = Slice(item.at, Len(out) + n) /\ Len(out') = Len(out) + n
         /\ Len(out) + n <= item.size
         /\ Len(out) + n # item.size /\ pos' = table.start[b + 1] => Placed(b + 1, 0)'
  <1>1. table \in Tables /\ item.at \in Nat /\ item.size \in Nat /\ M \in Nat /\ M > 0
    BY TableTypes DEF MInv, ItemInv, Asked
  <1> DEFINE k == Len(out)
  <1>2. Aligned(k, b, r) /\ k \in Nat
    BY <1>1 DEF Placed, Aligned
  <1>3. out = Slice(item.at, k) /\ out' = out \o Piece(b, r, Copied(k, b, r))
    OBVIOUS
  <1> HIDE DEF k
  <1> DEFINE n == Copied(k, b, r)
  <1>4. /\ n \in Nat \ {0} /\ k + n <= item.size
        /\ Continues(k, b, r, n)
        /\ Len(Slice(item.at, k + n)) = k + n
        /\ k + n # item.size => item.at + (k + n) = BlockFirst(b + 1)
    BY <1>1, <1>2, Chunk
  <1> HIDE DEF n
  <1>5. out' = Slice(item.at, k + n) /\ Len(out') = k + n
    BY <1>3, <1>4 DEF n, Continues
  <1>6. ASSUME k + n # item.size, pos' = table.start[b + 1] PROVE Placed(b + 1, 0)'
    <2>1. item.at + Len(out') = BlockFirst(b + 1) + 0
      <3>1. b + 1 \in Nat \ {0}
        OBVIOUS
      <3>2. BlockFirst(b + 1) \in Nat
        BY <3>1, FirstBytes
      <3>3. item.at + (k + n) = BlockFirst(b + 1)
        BY <1>4, <1>6
      <3> QED
        BY <1>5, <3>2, <3>3
    <2>2. 0 \in 0 .. M - 1
      BY <1>1
    <2> QED
      BY <1>6, <2>1, <2>2 DEF Placed
  <1> QED
    BY <1>2, <1>4, <1>5, <1>6 DEF n, k

\* What is left to show of a step of a reader of the stream.
LEMMA StreamStep ==
  ASSUME MInv, pc \in StreamSteps, pc' \in {pc, "next", "done"},
         pc' = "next" => item.who = "dir", UNCHANGED <<table, item, inodeVars>>,
         pc' # "done" => ret' = "ok", PosInv',
         pc' = "done" /\ ret' = "ok" /\ Whole => out' = Slice(item.at, item.size),
         pc' = "done" /\ ~io' /\ Whole /\ (item.who # "dir" => Readable) => ret' = "ok"
  PROVE  MInv'
  <1>1. /\ Asked /\ table \in Tables /\ pc \in {"first", "next", "turn"}
        /\ pc = "turn" <=> item.who = "meta"
    BY DEF MInv, ItemInv, StreamSteps
  <1>2. item.who \in {"dir", "meta"} /\ "dir" # "inode" /\ "meta" # "inode" /\ "dir" # "meta"
    BY <1>1 DEF Asked
  <1>3. ItemInv'
    <2>1. Asked' /\ table' \in Tables /\ pc' \in {"first", "next", "turn", "done"}
      BY <1>1, SameItem
    <2>2. pc' # "done" => (pc' = "turn" <=> item'.who = "meta")
      BY <1>1, <1>2
    <2> QED
      BY <2>1, <2>2 DEF ItemInv, Labels, StreamSteps, InodeSteps, EarlySteps
  <1>4. ExportInv' /\ HeapInv'
    <2>1. pc' \in StreamSteps \union {"done"}
      BY DEF StreamSteps
    <2> QED
      BY <2>1, StreamOnly
  <1>5. StreamSlice'
    BY SameItem DEF StreamSlice, Slice
  <1>6. IntactReads'
    BY <1>2, SameItem DEF IntactReads
  <1>7. InodeInBounds'
    BY <1>2 DEF InodeInBounds
  <1> QED
    BY <1>3, <1>4, <1>5, <1>6, <1>7 DEF MInv, Answers

LEMMA DirFirstStep ==
  ASSUME MInv, DirFirst, UNCHANGED inodeVars
  PROVE  MInv'
  <1> DEFINE data == ReadMetaBlock(pos)
             n == Min2(item.size, Len(data) - block_offset)
  <1>1. /\ pc = "first" /\ UNCHANGED <<table, item, block_offset, ret, io>>
        /\ out' = SubSeq(data, block_offset + 1, block_offset + n)
        /\ pos' = NextBlock(pos)
        /\ pc' = IF n = item.size THEN "done" ELSE "next"
    BY DEF DirFirst
  <1>2. Asked /\ item.who = "dir" /\ ret = "ok" /\ table \in Tables
    BY <1>1 DEF MInv, ItemInv, StreamSteps, Asked
  <1>3. item.at \in Nat /\ item.size \in Nat /\ item.size > 0
    BY <1>2, TableTypes DEF Asked
  <1>4. ASSUME Whole
        PROVE  \E b \in Nat \ {0} :
                 /\ out' = Slice(item.at, n) /\ Len(out') = n /\ n \in Nat /\ n <= item.size
                 /\ n # item.size => Placed(b + 1, 0)'
    <2>1. PICK b \in Nat \ {0} : out = <<>> /\ Placed(b, block_offset)
      BY <1>1 DEF MInv, PosInv
    <2>2. /\ 0 \in Nat /\ 0 < item.size /\ 0 = Len(out) /\ out = Slice(item.at, 0)
          /\ item.size - 0 = item.size
      BY <1>3, <2>1 DEF Slice
    <2>3. block_offset \in 0 .. M - 1 /\ Aligned(0, b, block_offset) /\ pos = table.start[b]
      BY <2>1, <2>2 DEF Placed, Aligned
    <2>4. data = BlockData(b) /\ pos' = table.start[b + 1]
      BY <1>1, <1>2, <1>3, <1>4, <2>2, <2>3, Source
    <2>5. BlockData(b) \in Seq(Nat)
      <3>1. BlockFirst(b) + block_offset < table.size
        BY <1>2, <1>3, <1>4, <2>2, <2>3, Chunk
      <3> QED
        BY <1>2, <2>3, <3>1, BlockRead
    <2>6. n = Copied(0, b, block_offset)
      BY <2>2, <2>4 DEF Copied
    <2>7. n \in Nat \ {0} /\ block_offset + n <= Len(BlockData(b))
      <3>1. Len(BlockData(b)) \in Nat /\ block_offset < Len(BlockData(b))
        BY <1>2, <1>3, <1>4, <2>2, <2>3, Source
      <3>2. block_offset \in Nat
        BY <1>2, <2>3, TableTypes
      <3> DEFINE l == Len(BlockData(b))
      <3>3. n = Min2(item.size, l - block_offset)
        BY <2>4
      <3> HIDE DEF n, l, data
      <3>4. l \in Nat /\ block_offset < l
        BY <3>1 DEF l
      <3> QED
        BY <1>3, <3>2, <3>3, <3>4 DEF Min2, l
    <2>8. out' = out \o Piece(b, block_offset, n)
      <3> DEFINE c == SubSeq(BlockData(b), block_offset + 1, block_offset + n)
      <3>1. c \in Seq(Nat)
        <4>1. block_offset \in Nat
          BY <1>2, <2>3, TableTypes
        <4> HIDE DEF n
        <4> QED
          BY <2>5, <2>7, <4>1
      <3>2. out' = c
        BY <1>1, <2>4
      <3> HIDE DEF c
      <3>3. <<>> \o c = c
        BY <3>1
      <3> QED
        BY <2>1, <3>2, <3>3 DEF c, Piece
    <2> HIDE DEF n, data
    <2> DEFINE k == Len(out)
    <2>9. /\ k \in 0 .. item.size - 1 /\ out = Slice(item.at, k) /\ n = Copied(k, b, block_offset)
          /\ k + n = n
      BY <1>3, <2>2, <2>6, <2>7
    <2>10. /\ n \in Nat \ {0} /\ out' = Slice(item.at, k + n) /\ Len(out') = k + n
           /\ k + n <= item.size
           /\ k + n # item.size => Placed(b + 1, 0)'
      BY <1>1, <1>2, <1>4, <2>1, <2>3, <2>4, <2>8, <2>9, Turned
    <2> HIDE DEF k
    <2> QED
      BY <2>9, <2>10
  <1> HIDE DEF n, data
  <1>5. PosInv'
    <2>1. pc' \in {"next", "done"} /\ (Whole' <=> Whole)
      BY <1>1, SameItem
    <2>2. ASSUME pc' = "next", Whole
          PROVE  /\ Len(out') \in 0 .. item'.size - 1 /\ out' = Slice(item'.at, Len(out'))
                 /\ \E b \in Nat \ {0} : Placed(b, 0)'
      <3>1. n # item.size /\ item' = item
        BY <1>1, <2>2
      <3>2. PICK b \in Nat \ {0} :
              /\ out' = Slice(item.at, n) /\ Len(out') = n /\ n \in Nat /\ n <= item.size
              /\ Placed(b + 1, 0)'
        BY <1>4, <2>2, <3>1
      <3>3. b + 1 \in Nat \ {0} /\ n \in 0 .. item.size - 1
        BY <1>3, <3>1, <3>2
      <3> QED
        BY <3>1, <3>2, <3>3
    <2> QED
      BY <2>1, <2>2 DEF PosInv
  <1>6. pc' = "done" /\ Whole => out' = Slice(item.at, item.size)
    <2> SUFFICES ASSUME pc' = "done", Whole PROVE out' = Slice(item.at, item.size)
      OBVIOUS
    <2>1. n = item.size
      BY <1>1
    <2> QED
      BY <1>4, <2>1
  <1> QED
    BY <1>1, <1>2, <1>5, <1>6, StreamStep DEF StreamSteps

LEMMA DirNextStep ==
  ASSUME MInv, DirNext, UNCHANGED inodeVars
  PROVE  MInv'
  <1> DEFINE data == ReadMetaBlock(pos)
             k == Len(out)
             n == Min2(item.size - k, Len(data))
  <1>1. /\ pc = "next" /\ UNCHANGED <<table, item, block_offset, ret, io>>
        /\ out' = out \o SubSeq(data, 1, n)
        /\ pos' = NextBlock(pos)
        /\ pc' = IF k + n = item.size THEN "done" ELSE "next"
    BY DEF DirNext, FromStart
  <1>2. Asked /\ item.who = "dir" /\ ret = "ok" /\ table \in Tables
    BY <1>1 DEF MInv, ItemInv, StreamSteps, Asked
  <1>3. item.at \in Nat /\ item.size \in Nat /\ M \in Nat /\ M > 0
    BY <1>2, TableTypes DEF Asked
  <1>4. ASSUME Whole
        PROVE  \E b \in Nat \ {0} :
                 /\ n \in Nat \ {0} /\ k \in Nat
                 /\ out' = Slice(item.at, k + n) /\ Len(out') = k + n /\ k + n <= item.size
                 /\ k + n # item.size => Placed(b + 1, 0)'
    <2>1. PICK b \in Nat \ {0} : Placed(b, 0) /\ k \in 0 .. item.size - 1 /\ out = Slice(item.at, k)
      BY <1>1, <1>4 DEF MInv, PosInv
    <2>2. 0 \in 0 .. M - 1 /\ Aligned(k, b, 0) /\ pos = table.start[b] /\ k \in Nat
      BY <1>3, <2>1 DEF Placed, Aligned
    <2>3. /\ data = BlockData(b) /\ pos' = table.start[b + 1] /\ Len(BlockData(b)) \in Nat
      <3> HIDE DEF k
      <3> QED
        BY <1>1, <1>2, <1>3, <1>4, <2>2, Source
    <2>4. n = Copied(k, b, 0)
      BY <2>3 DEF Copied
    <2>5. n \in Nat \ {0}
      <3> HIDE DEF k, n, data
      <3> QED
        BY <1>2, <1>3, <1>4, <2>2, <2>4, Chunk
    <2>6. out' = out \o Piece(b, 0, n)
      <3>1. 0 + 1 = 1 /\ 0 + n = n
        BY <2>5
      <3> HIDE DEF n
      <3> QED
        BY <1>1, <2>3, <3>1 DEF Piece
    <2> HIDE DEF n, data
    <2>7. /\ n \in Nat \ {0} /\ out' = Slice(item.at, k + n) /\ Len(out') = k + n
          /\ k + n <= item.size
          /\ k + n # item.size => Placed(b + 1, 0)'
      BY <1>1, <1>2, <1>4, <2>1, <2>2, <2>3, <2>4, <2>6, Turned
    <2> QED
      BY <2>2, <2>7
  <1> HIDE DEF n, data
  <1>5. PosInv'
    <2>1. pc' \in {"next", "done"} /\ (Whole' <=> Whole)
      BY <1>1, SameItem
    <2>2. ASSUME pc' = "next", Whole
          PROVE  /\ Len(out') \in 0 .. item'.size - 1 /\ out' = Slice(item'.at, Len(out'))
                 /\ \E b \in Nat \ {0} : Placed(b, 0)'
      <3>1. k + n # item.size /\ item' = item
        BY <1>1, <2>2
      <3>2. PICK b \in Nat \ {0} :
              /\ n \in Nat \ {0} /\ k \in Nat
              /\ out' = Slice(item.at, k + n) /\ Len(out') = k + n /\ k + n <= item.size
              /\ Placed(b + 1, 0)'
        BY <1>4, <2>2, <3>1
      <3> HIDE DEF k
      <3>3. b + 1 \in Nat \ {0} /\ k + n \in 0 .. item.size - 1
        BY <1>3, <3>1, <3>2
      <3> QED
        BY <3>1, <3>2, <3>3
    <2> QED
      BY <2>1, <2>2 DEF PosInv
  <1>6. pc' = "done" /\ Whole => out' = Slice(item.at, item.size)
    <2> SUFFICES ASSUME pc' = "done", Whole PROVE out' = Slice(item.at, item.size)
      OBVIOUS
    <2>1. k + n = item.size
      BY <1>1
    <2> QED
      BY <1>4, <2>1
  <1> QED
    BY <1>1, <1>2, <1>5, <1>6, StreamStep DEF StreamSteps

LEMMA MetaTurnStep ==
  ASSUME MInv, MetaTurn, UNCHANGED inodeVars
  PROVE  MInv'
  <1> DEFINE data == MetaReadBlock(pos)
             k == Len(out)
             n == Min2(item.size - k, Len(data) - block_offset)
  <1>1. /\ pc = "turn" /\ UNCHANGED <<table, item, ret, io>> /\ data # <<>>
        /\ out' = out \o SubSeq(data, block_offset + 1, block_offset + n)
        /\ \/ k + n = item.size /\ pc' = "done"
           \/ k + n # item.size /\ pos' = NextBlock(pos) /\ block_offset' = 0 /\ pc' = "turn"
    BY DEF MetaTurn
  <1>2. Asked /\ item.who = "meta" /\ ret = "ok" /\ table \in Tables
    BY <1>1 DEF MInv, ItemInv, StreamSteps, Asked
  <1>3. item.at \in Nat /\ item.size \in Nat /\ M \in Nat /\ M > 0
    BY <1>2, TableTypes DEF Asked
  <1>4. ASSUME Whole
        PROVE  \E b \in Nat \ {0} :
                 /\ n \in Nat \ {0} /\ k \in Nat
                 /\ out' = Slice(item.at, k + n) /\ Len(out') = k + n /\ k + n <= item.size
                 /\ k + n # item.size => Placed(b + 1, 0)'
    <2>1. PICK b \in Nat \ {0} :
            Placed(b, block_offset) /\ k \in 0 .. item.size - 1 /\ out = Slice(item.at, k)
      BY <1>1, <1>4 DEF MInv, PosInv
    <2>2. /\ block_offset \in 0 .. M - 1 /\ Aligned(k, b, block_offset) /\ pos = table.start[b]
          /\ k \in Nat
      BY <1>3, <2>1 DEF Placed, Aligned
    <2>3. data = BlockData(b) /\ NextBlock(pos) = table.start[b + 1]
      <3> HIDE DEF k
      <3> QED
        BY <1>1, <1>2, <1>3, <1>4, <2>2, Source
    <2>4. n = Copied(k, b, block_offset)
      BY <2>3 DEF Copied
    <2>5. out' = out \o Piece(b, block_offset, n)
      BY <1>1, <2>3 DEF Piece
    <2> HIDE DEF n, data
    <2>6. /\ n \in Nat \ {0} /\ out' = Slice(item.at, k + n) /\ Len(out') = k + n
          /\ k + n <= item.size
          /\ k + n # item.size /\ pos' = table.start[b + 1] => Placed(b + 1, 0)'
      BY <1>1, <1>2, <1>4, <2>1, <2>2, <2>4, <2>5, Turned
    <2>7. k + n # item.size => pos' = table.start[b + 1]
      BY <1>1, <2>3
    <2> QED
      BY <2>2, <2>6, <2>7
  <1> HIDE DEF n, data
  <1>5. PosInv'
    <2>1. pc' \in {"turn", "done"} /\ (Whole' <=> Whole)
      BY <1>1, SameItem
    <2>2. ASSUME pc' = "turn", Whole
          PROVE  /\ Len(out') \in 0 .. item'.size - 1 /\ out' = Slice(item'.at, Len(out'))
                 /\ \E b \in Nat \ {0} : Placed(b, block_offset)'
      <3>1. k + n # item.size /\ item' = item /\ block_offset' = 0
        BY <1>1, <2>2
      <3>2. PICK b \in Nat \ {0} :
              /\ n \in Nat \ {0} /\ k \in Nat
              /\ out' = Slice(item.at, k + n) /\ Len(out') = k + n /\ k + n <= item.size
              /\ Placed(b + 1, 0)'
        BY <1>4, <2>2, <3>1
      <3> HIDE DEF k
      <3>3. b + 1 \in Nat \ {0} /\ k + n \in 0 .. item.size - 1
        BY <1>3, <3>1, <3>2
      <3>4. Placed(b + 1, block_offset)'
        BY <3>1, <3>2 DEF Placed
      <3> QED
        BY <3>1, <3>2, <3>3, <3>4
    <2> QED
      BY <2>1, <2>2 DEF PosInv
  <1>6. pc' = "done" /\ Whole => out' = Slice(item.at, item.size)
    <2> SUFFICES ASSUME pc' = "done", Whole PROVE out' = Slice(item.at, item.size)
      OBVIOUS
    <2>1. k + n = item.size
      BY <1>1
    <2> QED
      BY <1>4, <2>1
  <1> QED
    BY <1>1, <1>2, <1>5, <1>6, StreamStep DEF StreamSteps

\* A read ends with an error only where the table is at fault.
LEMMA StreamBadStep ==
  ASSUME MInv, DirBad \/ MetaBad, UNCHANGED inodeVars
  PROVE  MInv'
  <1>1. /\ \/ pc = "first" /\ block_offset >= Len(ReadMetaBlock(pos))
           \/ pc = "next" /\ ReadMetaBlock(pos) = <<>>
           \/ pc = "turn" /\ MetaReadBlock(pos) = <<>>
        /\ UNCHANGED <<table, item>> /\ pc' = "done" /\ ret' = "corrupt"
    BY DEF DirBad, MetaBad, Finish
  <1>2. Asked /\ table \in Tables /\ (pc = "turn" <=> item.who = "meta")
    BY <1>1 DEF MInv, ItemInv, StreamSteps
  <1>3. item.at \in Nat /\ item.size \in Nat /\ item.size > 0 /\ M \in Nat /\ M > 0
    BY <1>2, TableTypes DEF Asked
  <1>4. ASSUME Whole, item.who # "dir" => Readable PROVE FALSE
    <2>1. PICK b \in Nat \ {0} :
            \/ pc \in {"first", "turn"} /\ Placed(b, block_offset)
            \/ pc = "next" /\ Placed(b, 0)
      BY <1>1, <1>4 DEF MInv, PosInv
    <2>2. PICK r \in 0 .. M - 1 : Placed(b, r) /\ (pc \in {"first", "turn"} => r = block_offset)
      <3>1. 0 \in 0 .. M - 1
        BY <1>3
      <3> QED
        BY <2>1, <3>1 DEF Placed
    <2> DEFINE k == Len(out)
    <2>3. k \in Nat /\ k < item.size
      <3>1. CASE pc = "first"
        BY <1>3, <3>1 DEF MInv, PosInv
      <3>2. CASE pc # "first"
        BY <1>1, <1>3, <1>4, <3>2 DEF MInv, PosInv
      <3> QED
        BY <3>1, <3>2
    <2>4. Aligned(k, b, r) /\ pos = table.start[b]
      BY <2>2, <2>3 DEF Placed, Aligned
    <2> HIDE DEF k
    <2>5. /\ ReadMetaBlock(pos) = BlockData(b)
          /\ Readable => MetaReadBlock(pos) = BlockData(b)
          /\ BlockData(b) # <<>> /\ Len(BlockData(b)) \in Nat /\ r < Len(BlockData(b))
      BY <1>2, <1>3, <1>4, <2>3, <2>4, Source
    <2>6. CASE pc = "first"
      <3> DEFINE l == Len(BlockData(b))
      <3>1. r >= l /\ r < l /\ l \in Nat /\ r \in Int
        BY <1>1, <1>3, <2>2, <2>5, <2>6
      <3> HIDE DEF l
      <3> QED
        BY <3>1
    <2>7. CASE pc = "next"
      BY <1>1, <2>5, <2>7
    <2>8. CASE pc = "turn"
      BY <1>1, <1>2, <1>4, <2>5, <2>8
    <2> QED
      BY <1>1, <2>6, <2>7, <2>8
  <1>5. PosInv'
    BY <1>1 DEF PosInv
  <1> QED
    BY <1>1, <1>4, <1>5, StreamStep DEF StreamSteps

LEMMA IoErrorStep ==
  ASSUME MInv, IoError, UNCHANGED inodeVars
  PROVE  MInv'
  <1>1. pc \in StreamSteps /\ UNCHANGED <<table, item>> /\ pc' = "done" /\ ret' = "corrupt" /\ io'
    BY DEF IoError, StreamSteps
  <1>2. PosInv'
    BY <1>1 DEF PosInv
  <1> QED
    BY <1>1, <1>2, StreamStep

(***************************************************************************)
(* sqfs_inode_get_by_ref                                                   *)
(***************************************************************************)
LEMMA InodeTypes ==
  ASSUME MInv, pc \in InodeSteps
  PROVE  /\ table \in Tables /\ table.size \in Nat /\ M \in Nat /\ M > 0
         /\ item.who = "inode" /\ item.at \in Nat /\ item.size \in Nat /\ item.size > 0
         /\ HEADER \in Nat /\ HEADER <= item.size /\ item.fixed \in 0 .. item.size
         /\ InodeSize \in Nat /\ InodeSize > 0 /\ InodeSize <= item.size
         /\ item.size <= M => InodeSize = item.size
         /\ ret = "ok"
  <1>1. table \in Tables /\ IsInode(item, table.size) /\ ret = "ok"
    BY DEF MInv, ItemInv, InodeSteps, EarlySteps
  <1>2. table.size \in Nat /\ M \in Nat /\ M > 0
    BY <1>1, TableTypes
  <1>3. /\ item.who = "inode" /\ item.at \in Nat /\ item.size \in Nat /\ item.size > 0
        /\ HEADER \in Nat /\ HEADER <= item.size /\ item.fixed \in 0 .. item.size
    BY <1>1, <1>2, HeaderSize DEF IsInode
  <1>4. InodeSize = Min2(item.size, M)
    BY DEF InodeSize, M
  <1>5. /\ InodeSize \in Nat /\ InodeSize > 0 /\ InodeSize <= item.size
        /\ item.size <= M => InodeSize = item.size
    BY <1>2, <1>3, <1>4 DEF Min2
  <1> QED
    BY <1>1, <1>2, <1>3, <1>5

\* What is left to show of a step that does not come to an answer.
LEMMA InodeStep ==
  ASSUME MInv, pc \in InodeSteps, UNCHANGED <<table, item, num, exp>>,
         pc' \in InodeSteps \/ pc' = "crashed" \/ (pc' = "done" /\ ret' = "corrupt"),
         pc' # "done" => ret' = "ok", PosInv', HeapInv',
         pc' = "done" => io' \/ ~Whole \/ ~Readable \/ ~OneBlock \/ item.kind = "bad"
  PROVE  MInv'
  <1>1. table \in Tables /\ IsInode(item, table.size) /\ item.who = "inode"
    BY DEF MInv, ItemInv, InodeSteps, EarlySteps, IsInode
  <1>2. ItemInv'
    <2>1. IsInode(item, table.size)' /\ table' \in Tables
      BY <1>1, SameItem
    <2> QED
      BY <2>1 DEF ItemInv, Labels, InodeSteps, EarlySteps, StreamSteps
  <1>3. ExportInv'
    <2>1. Refs(exp.addr)' = Refs(exp.addr)
      BY DEF Refs
    <2> QED
      BY <2>1 DEF MInv, ExportInv, InodeSteps, EarlySteps, StreamSteps
  <1>4. Answers'
    <2>1. CASE pc' = "done" /\ ret' = "corrupt"
      <3>1. StreamSlice' /\ InodeInBounds'
        BY <2>1 DEF StreamSlice, InodeInBounds
      <3>2. IntactReads'
        BY <1>1, <2>1, SameItem DEF IntactReads
      <3> QED
        BY <3>1, <3>2 DEF Answers
    <2>2. CASE pc' \in InodeSteps \/ pc' = "crashed"
      BY <2>2 DEF Answers, StreamSlice, IntactReads, InodeInBounds, InodeSteps, EarlySteps
    <2> QED
      BY <2>1, <2>2
  <1> QED
    BY <1>2, <1>3, <1>4 DEF MInv

\* An inode in one block that comes out passes the bounds check in every round.
LEMMA OneBlockFits ==
  ASSUME MInv, pc \in {"header", "fixed", "full"}, Whole, Readable, OneBlock,
         NEW n \in Nat, n <= item.size
  PROVE  Fits(n)
  <1>1. /\ table \in Tables /\ table.size \in Nat /\ M \in Nat /\ M > 0
        /\ item.at \in Nat /\ item.size \in Nat /\ item.size > 0
    BY InodeTypes DEF InodeSteps, EarlySteps
  <1>2. PICK b \in Nat \ {0} : out = <<>> /\ Placed(b, block_offset)
    BY DEF MInv, PosInv
  <1>3. block_offset \in 0 .. M - 1 /\ item.at = BlockFirst(b) + block_offset /\ pos = table.start[b]
    <2>1. Len(<<>>) = 0 /\ item.at + 0 = item.at
      BY <1>1
    <2> QED
      BY <1>2, <2>1 DEF Placed
  <1>4. Aligned(0, b, block_offset)
    BY <1>1, <1>3 DEF Aligned
  <1>5. MetaReadBlock(pos) = BlockData(b)
    <2>1. 0 \in Nat
      OBVIOUS
    <2> QED
      BY <1>1, <1>3, <1>4, <2>1, Source
  <1>6. RefOffset(item.at) = block_offset
    BY <1>1, <1>3, OffsetOf
  <1>7. BlockFirst(b) + block_offset < table.size /\ BlockFirst(b) \in Nat
    BY <1>1, <1>3, FirstBytes DEF Whole
  <1>8. Len(BlockData(b)) = Min2(M, table.size - BlockFirst(b))
    BY <1>1, <1>3, <1>7, BlockOf, BlockRead
  <1>9. block_offset + item.size <= M /\ item.at + item.size <= table.size
    BY <1>6 DEF OneBlock, Whole, M
  <1>10. block_offset + n <= Len(BlockData(b))
    <2> DEFINE f == BlockFirst(b)
               w == table.size
    <2>1. /\ f \in Nat /\ w \in Nat /\ item.at = f + block_offset /\ block_offset \in Int
          /\ item.at + item.size <= w
      BY <1>1, <1>3, <1>7, <1>9
    <2>2. Len(BlockData(b)) = Min2(M, w - f)
      BY <1>8
    <2> HIDE DEF f, w
    <2>3. block_offset + n <= M /\ block_offset + n <= w - f
      BY <1>1, <1>9, <2>1
    <2> QED
      BY <1>1, <2>1, <2>2, <2>3 DEF Min2
  <1> QED
    BY <1>5, <1>10 DEF Fits

LEMMA ReadHeaderStep ==
  ASSUME MInv, ReadHeader \/ ReadFixed
  PROVE  MInv'
  <1>1. /\ pc \in {"header", "fixed"} /\ pc' \in {"fixed", "full"} /\ ret' = ret
        /\ UNCHANGED <<table, item, inodeVars>> /\ UNCHANGED <<out, pos, block_offset>>
    BY DEF ReadHeader, ReadFixed
  <1>2. PosInv'
    <2>1. PICK b \in Nat \ {0} : out = <<>> /\ Placed(b, block_offset)
      BY <1>1 DEF MInv, PosInv
    <2>2. out' = <<>> /\ Placed(b, block_offset)'
      BY <1>1, <2>1 DEF Placed
    <2> QED
      BY <1>1, <2>2 DEF PosInv
  <1>3. ret' = "ok"
    BY <1>1, InodeTypes DEF InodeSteps, EarlySteps
  <1>4. HeapInv'
    BY <1>1, EarlyHeap DEF EarlySteps
  <1>5. UNCHANGED <<num, exp>>
    BY <1>1 DEF inodeVars
  <1> QED
    BY <1>1, <1>2, <1>3, <1>4, <1>5, InodeStep DEF InodeSteps, EarlySteps

LEMMA ReadFullStep ==
  ASSUME MInv, ReadFull
  PROVE  MInv'
  <1>1. /\ pc = "full" /\ pc' = "alloc" /\ ret' = ret /\ Fits(InodeSize)
        /\ UNCHANGED <<table, item, inodeVars>>
        /\ out' = SubSeq(MetaReadBlock(pos), block_offset + 1, block_offset + InodeSize)
    BY DEF ReadFull
  <1>2. /\ table \in Tables /\ table.size \in Nat /\ M \in Nat
        /\ item.at \in Nat /\ InodeSize \in Nat /\ InodeSize > 0 /\ ret' = "ok"
    BY <1>1, InodeTypes DEF InodeSteps, EarlySteps
  <1>3. ASSUME item.at < table.size
        PROVE  out' = Slice(item.at, InodeSize) /\ item.at + InodeSize <= table.size
    <2>1. PICK b \in Nat \ {0} : out = <<>> /\ Placed(b, block_offset)
      BY <1>1 DEF MInv, PosInv
    <2>2. /\ block_offset \in 0 .. M - 1 /\ block_offset \in Nat
          /\ item.at = BlockFirst(b) + block_offset /\ pos = table.start[b]
      <3>1. Len(<<>>) = 0 /\ item.at + 0 = item.at
        BY <1>2
      <3> QED
        BY <1>2, <2>1, <3>1 DEF Placed
    <2> DEFINE f == BlockFirst(b)
               w == table.size
               l == Len(BlockData(b))
    <2>3. f + block_offset < w /\ f \in Nat
      BY <1>3, <2>2, FirstBytes
    <2>4. /\ l = Min2(M, w - f) /\ l \in block_offset + 1 .. M
          /\ BlockData(b) = [j \in 1 .. l |-> f + j]
          /\ MetaReadBlock(pos) = BlockData(b) \/ MetaReadBlock(pos) = <<>>
      BY <1>2, <2>2, <2>3, BlockOf, BlockRead
    <2>5. MetaReadBlock(pos) = BlockData(b)
      <3>1. ~(block_offset + InodeSize <= 0) /\ Len(<<>>) = 0
        BY <1>2, <2>2
      <3> QED
        BY <1>1, <2>4, <3>1 DEF Fits
    <2>6. block_offset + InodeSize <= l
      BY <1>1, <2>5 DEF Fits
    <2>7. SubSeq([j \in 1 .. l |-> f + j], block_offset + 1, block_offset + InodeSize)
            = [j \in 1 .. InodeSize |-> item.at + j]
      <3>1. l \in Nat
        <4> HIDE DEF l
        <4> QED
          BY <1>2, <2>2, <2>4
      <3>2. item.at = f + block_offset /\ f \in Nat
        BY <2>2, <2>3
      <3> HIDE DEF f, l
      <3> QED
        BY <1>2, <2>2, <2>6, <3>1, <3>2, Stretch
    <2>8. item.at + InodeSize <= w
      <3>1. item.at = f + block_offset /\ w \in Nat
        BY <1>2, <2>2
      <3> HIDE DEF f, l, w
      <3> QED
        BY <1>2, <2>2, <2>3, <2>4, <2>6, <3>1 DEF Min2
    <2> QED
      BY <1>1, <2>4, <2>5, <2>7, <2>8 DEF Slice
  <1>4. PosInv'
    <2>1. InodeSize' = InodeSize
      BY <1>1, SameItem
    <2> QED
      BY <1>1, <1>3, <2>1 DEF PosInv
  <1>5. HeapInv'
    BY <1>1, EarlyHeap DEF EarlySteps
  <1>6. UNCHANGED <<num, exp>>
    BY <1>1 DEF inodeVars
  <1> QED
    BY <1>1, <1>2, <1>4, <1>5, <1>6, InodeStep DEF InodeSteps, EarlySteps

LEMMA BadInodeStep ==
  ASSUME MInv, BadInode \/ InodeError
  PROVE  MInv'
  <1>1. /\ \/ pc = "header" /\ (~Fits(HEADER) \/ item.kind = "bad")
           \/ pc = "fixed" /\ ~Fits(item.fixed)
           \/ pc = "full" /\ ~Fits(InodeSize)
           \/ pc \in EarlySteps /\ io'
        /\ pc' = "done" /\ ret' = "corrupt" /\ UNCHANGED <<table, item, inodeVars>>
    BY DEF BadInode, InodeError, Finish, EarlySteps
  <1>2. pc \in InodeSteps /\ pc \in EarlySteps
    BY <1>1 DEF InodeSteps, EarlySteps
  <1>3. /\ HEADER \in Nat /\ HEADER <= item.size /\ item.fixed \in Nat /\ item.fixed <= item.size
        /\ InodeSize \in Nat /\ InodeSize <= item.size
    BY <1>2, InodeTypes
  <1>4. io' \/ ~Whole \/ ~Readable \/ ~OneBlock \/ item.kind = "bad"
    BY <1>1, <1>3, OneBlockFits
  <1>5. PosInv'
    BY <1>1 DEF PosInv
  <1>6. HeapInv'
    BY <1>1, <1>2, EarlyHeap
  <1>7. UNCHANGED <<num, exp>>
    BY <1>1 DEF inodeVars
  <1> QED
    BY <1>1, <1>2, <1>4, <1>5, <1>6, <1>7, InodeStep

LEMMA ArraysOf ==
  ASSUME NEW i
  PROVE  /\ Arrays(i) \subseteq {"block_sizes", "target"}
         /\ "target" \in Arrays(i) <=> i.kind = "symlink"
  BY DEF Arrays

\* A step on the way, with raw_inode as it is.
LEMMA RawKept ==
  ASSUME MInv, pc \in {"alloc", "parse", "check"}, UNCHANGED <<table, item, out>>,
         pc' \in {"parse", "check", "crashed", "done"}
  PROVE  PosInv'
  <1>1. InodeSize' = InodeSize
    BY SameItem
  <1> QED
    BY <1>1 DEF MInv, PosInv

LEMMA AllocStep ==
  ASSUME MInv, AllocInode \/ Parse \/ ParseOverruns
  PROVE  MInv'
  <1>1. /\ pc \in {"alloc", "parse"} /\ pc' \in {"parse", "check", "crashed"}
        /\ UNCHANGED <<table, item, out, ret, num, exp, cut, wild>>
    BY DEF AllocInode, Parse, ParseOverruns, Allocate
  <1>2. ret = "ok"
    BY <1>1, InodeTypes DEF InodeSteps, EarlySteps
  <1>3. HeapInv'
    <2>1. Arrays(item)' = Arrays(item)
      BY <1>1, SameItem
    <2>2. CASE AllocInode
      <3>1. Owned = {} /\ Owned' = {"inode"} /\ heap' = heap \union {"inode"} /\ pc = "alloc"
        BY <2>2 DEF Owned, AllocInode, Allocate
      <3> QED
        BY <1>1, <3>1 DEF MInv, HeapInv
    <2>3. CASE Parse
      <3>1. /\ Owned = {"inode"} /\ Owned' = {"inode"} \union Arrays(item)
            /\ heap' = heap \union Arrays(item) /\ pc = "parse"
        BY <2>1, <2>3 DEF Owned, Parse, Allocate
      <3> DEFINE X == Arrays(item)
      <3> HIDE DEF X
      <3>2. heap' = Owned' \/ (cut /\ heap' = Owned' \union {"lost"})
        BY <3>1 DEF X, MInv, HeapInv
      <3> QED
        BY <1>1, <3>2 DEF MInv, HeapInv
    <2>4. CASE ParseOverruns
      BY <1>1, <2>4 DEF ParseOverruns, MInv, HeapInv
    <2> QED
      BY <2>2, <2>3, <2>4
  <1>4. PosInv'
    BY <1>1, RawKept
  <1> QED
    BY <1>1, <1>2, <1>3, <1>4, InodeStep DEF InodeSteps, EarlySteps

LEMMA ParseFailsStep ==
  ASSUME MInv, ParseNoMemory \/ ParseRefuses
  PROVE  MInv'
  <1>1. /\ pc \in {"parse", "check"} /\ pc' = "done" /\ ret' = "corrupt"
        /\ UNCHANGED <<table, item, out, num, exp>>
    BY DEF ParseNoMemory, ParseRefuses, Finish
  <1>2. Owned' = {}
    BY <1>1 DEF Owned
  <1>3. HeapInv'
    <2>1. CASE ParseNoMemory
      <3>1. /\ Owned = {"inode"} /\ pc = "parse" /\ heap' = heap \ {"inode"} /\ cut' = cut
            /\ wild' = (wild \/ ~({"inode"} \subseteq heap))
        BY <2>1 DEF ParseNoMemory, Free, Owned
      <3> QED
        BY <1>1, <1>2, <3>1 DEF MInv, HeapInv
    <2>2. CASE ParseRefuses
      <3> DEFINE X == Arrays(item)
      <3>1. /\ Owned = {"inode"} \union X /\ pc = "check" /\ cut' = TRUE
            /\ wild' = (wild \/ "inode" \notin heap)
            /\ heap' = (heap \ ({"inode"} \union X)) \union (IF X = {} THEN {} ELSE {"lost"})
        BY <2>2 DEF ParseRefuses, Owned
      <3> HIDE DEF X
      <3>2. wild = FALSE /\ (heap = Owned \/ heap = Owned \union {"lost"})
        BY <3>1 DEF MInv, HeapInv
      <3>3. wild' = FALSE /\ (heap' = {} \/ heap' = {"lost"})
        BY <3>1, <3>2
      <3>4. {} \union {"lost"} = {"lost"}
        OBVIOUS
      <3> QED
        BY <1>1, <1>2, <3>1, <3>3, <3>4 DEF HeapInv
    <2> QED
      BY <2>1, <2>2
  <1>4. io' \/ ~OneBlock
    <2>1. CASE ParseNoMemory
      BY <2>1 DEF ParseNoMemory
    <2>2. CASE ParseRefuses
      <3>1. /\ item.size > InodeSize /\ item.size \in Nat /\ item.at \in Nat /\ M \in Nat
            /\ M > 0 /\ InodeSize \in Nat
            /\ item.size <= M => InodeSize = item.size
        BY <1>1, <2>2, InodeTypes DEF ParseRefuses, InodeSteps, EarlySteps
      <3>2. RefOffset(item.at) \in Nat
        BY <3>1, DivMod DEF RefOffset, M
      <3> QED
        BY <3>1, <3>2 DEF OneBlock, M
    <2> QED
      BY <2>1, <2>2
  <1>5. PosInv'
    BY <1>1, RawKept
  <1> QED
    BY <1>1, <1>3, <1>4, <1>5, InodeStep DEF InodeSteps, EarlySteps

LEMMA ParseEndsStep ==
  ASSUME MInv, ParseEnds
  PROVE  MInv'
  <1>1. /\ pc = "check" /\ pc' = "done" /\ UNCHANGED <<table, item, num, exp, out>>
        /\ item.size <= InodeSize /\ ret' = "ok" /\ UNCHANGED <<heap, cut, wild>>
    BY DEF ParseEnds, Finish, inodeVars
  <1>2. /\ table \in Tables /\ table.size \in Nat /\ M \in Nat /\ M > 0
        /\ item.who = "inode" /\ item.at \in Nat /\ item.size \in Nat /\ item.size > 0
        /\ InodeSize \in Nat /\ InodeSize <= item.size
    BY <1>1, InodeTypes DEF InodeSteps, EarlySteps
  <1>3. ItemInv'
    <2>1. IsInode(item, table.size)
      BY <1>1 DEF MInv, ItemInv, InodeSteps, EarlySteps
    <2>2. IsInode(item, table.size)'
      BY <1>1, <2>1, SameItem
    <2> QED
      BY <1>1, <1>2, <2>2 DEF ItemInv, Labels, InodeSteps, EarlySteps, StreamSteps
  <1>4. PosInv'
    BY <1>1 DEF PosInv
  <1>5. ExportInv'
    <2>1. Refs(exp.addr)' = Refs(exp.addr)
      BY <1>1 DEF Refs
    <2> QED
      BY <1>1, <1>2, <2>1 DEF MInv, ExportInv, InodeSteps, EarlySteps, StreamSteps
  <1>6. HeapInv'
    <2>1. Owned' = Owned /\ pc # "crashed"
      BY <1>1, <1>2, SameItem DEF Owned
    <2> QED
      BY <1>1, <2>1 DEF MInv, HeapInv
  <1>7. item.size = InodeSize
    BY <1>1, <1>2
  <1>8. ASSUME item.at < table.size
        PROVE  out = Slice(item.at, item.size) /\ Whole
    BY <1>1, <1>7, <1>8 DEF MInv, PosInv, Whole
  <1>9. StreamSlice'
    <2> SUFFICES ASSUME Whole' PROVE out' = [j \in 1 .. item'.size |-> item'.at + j]
      BY DEF StreamSlice
    <2>1. item.at < table.size
      BY <1>1, <1>2 DEF Whole
    <2> QED
      BY <1>1, <1>8, <2>1 DEF Slice
  <1>10. IntactReads'
    BY <1>1 DEF IntactReads
  <1>11. InodeInBounds'
    <2>1. Whole' <=> Whole
      BY <1>1, SameItem
    <2> QED
      BY <1>1, <1>8, <2>1 DEF InodeInBounds
  <1> QED
    BY <1>3, <1>4, <1>5, <1>6, <1>9, <1>10, <1>11 DEF MInv, Answers

\* The first step of sqfs_inode_get_by_ref, called with a reference or by
\* sqfs_inode_load.
LEMMA GetByRefStep ==
  ASSUME MInv, pc \in {"idle", "ref"}, NEW i, IsInode(i, table.size), Begin(i, "header"),
         UNCHANGED inodeVars,
         num > 0 /\ ~exp.junk => num \in DOMAIN table.inodes /\ i = table.inodes[num]
  PROVE  MInv'
  <1>1. table \in Tables /\ ret = "ok" /\ pc # "done"
    BY DEF MInv, ItemInv
  <1>2. i.at \in Nat
    BY <1>1, TableTypes DEF IsInode
  <1>3. /\ out' = <<>> /\ item' = i /\ table' = table /\ pc' = "header" /\ ret' = "ok"
        /\ \E b \in Nat \ {0} : Placed(b, block_offset)'
    BY <1>1, <1>2, BeginPlaced
  <1>4. ItemInv'
    BY <1>1, <1>3 DEF ItemInv, Labels, InodeSteps, EarlySteps, StreamSteps
  <1>5. PosInv'
    BY <1>3 DEF PosInv
  <1>6. ExportInv'
    <2>1. Refs(exp.addr)' = Refs(exp.addr)
      BY <1>3 DEF Refs, inodeVars
    <2> QED
      BY <1>3, <2>1 DEF MInv, ExportInv, inodeVars, InodeSteps, EarlySteps, StreamSteps
  <1>7. HeapInv'
    <2>1. Owned = {} /\ Owned' = {} /\ pc # "crashed"
      BY <1>3 DEF Owned
    <2> QED
      BY <2>1 DEF MInv, HeapInv, inodeVars
  <1>8. Answers'
    BY <1>3 DEF Answers, StreamSlice, IntactReads, InodeInBounds
  <1> QED
    BY <1>4, <1>5, <1>6, <1>7, <1>8 DEF MInv

(***************************************************************************)
(* sqfs_inode_load                                                         *)
(***************************************************************************)
\* What is left to show of a step before a reference is followed.
LEMMA LoadStep ==
  ASSUME MInv, pc \in {"idle", "export", "ref"}, UNCHANGED <<table, item, heap, cut, wild>>,
         pc' \in {"export", "ref"} \/ (pc' = "done" /\ ret' \in {"corrupt", "not_found"}),
         pc' # "done" => ret' = "ok", ExportInv'
  PROVE  MInv'
  <1>1. table \in Tables /\ item = Idle /\ item.who = "none"
    BY DEF MInv, ItemInv, Idle
  <1>2. item' = Idle' /\ table' \in Tables
    BY <1>1, SameItem
  <1>3. ItemInv'
    BY <1>2 DEF ItemInv, Labels, InodeSteps, EarlySteps, StreamSteps
  <1>4. PosInv'
    BY DEF PosInv
  <1>5. HeapInv'
    <2>1. Owned = {} /\ Owned' = {} /\ pc # "crashed"
      BY DEF Owned
    <2> QED
      BY <2>1 DEF MInv, HeapInv
  <1>6. Answers'
    BY <1>1 DEF Answers, StreamSlice, IntactReads, InodeInBounds
  <1> QED
    BY <1>3, <1>4, <1>5, <1>6 DEF MInv

LEMMA LoadSteps ==
  ASSUME MInv,
         \/ \E n \in 0 .. Len(table.inodes) + 1 : Load(n)
         \/ ExportAbsent \/ ExportRead \/ ExportHit \/ ExportFails \/ NoRef
  PROVE  MInv'
  <1>1. table \in Tables /\ Len(table.inodes) \in Nat
    BY InodeTables DEF MInv, ItemInv
  <1>2. ASSUME NEW n \in 0 .. Len(table.inodes) + 1, Load(n) PROVE MInv'
    <2>1. /\ pc = "idle" /\ num' = n /\ UNCHANGED <<table, item, exp, heap, cut, wild>>
          /\ \/ pc' = "done" /\ ret' = "not_found"
             \/ n # 0 /\ pc' = "export" /\ ret' = ret
      BY <1>2 DEF Load
    <2>2. ret = "ok"
      BY <2>1 DEF MInv, ItemInv
    <2>3. n \in Nat /\ (n # 0 => n \in 1 .. Len(table.inodes) + 1)
      BY <1>1
    <2>4. Refs(exp.addr)' = Refs(exp.addr)
      BY <2>1 DEF Refs
    <2>5. ExportInv'
      BY <2>1, <2>3, <2>4 DEF MInv, ExportInv, InodeSteps, EarlySteps, StreamSteps
    <2> QED
      BY <2>1, <2>2, <2>5, LoadStep
  <1>3. CASE ExportAbsent \/ NoRef
    <2>1. /\ pc \in {"export", "ref"} /\ UNCHANGED <<table, item, heap, cut, wild>> /\ pc' = "done"
          /\ ret' \in {"corrupt", "not_found"} /\ UNCHANGED <<num, exp>>
      BY <1>3 DEF ExportAbsent, NoRef, Finish, inodeVars
    <2>2. Refs(exp.addr)' = Refs(exp.addr)
      BY <2>1 DEF Refs
    <2>3. ExportInv'
      BY <2>1, <2>2 DEF MInv, ExportInv, InodeSteps, EarlySteps, StreamSteps
    <2> QED
      BY <2>1, <2>3, LoadStep
  <1>4. CASE ExportRead
    <2>1. /\ pc = "export" /\ UNCHANGED <<table, item, heap, cut, wild, num, ret>> /\ pc' = "ref"
          /\ exp' = [addr |-> ExportBlock(num), refs |-> Refs(ExportBlock(num)), junk |-> FALSE]
      BY <1>4 DEF ExportRead
    <2>2. ret = "ok"
      BY <2>1 DEF MInv, ItemInv
    <2>3. /\ Refs(exp.addr)' = Refs(ExportBlock(num)) /\ exp'.refs = Refs(ExportBlock(num))
          /\ exp'.addr = ExportBlock(num) /\ exp'.junk = FALSE /\ ExportBlock(num)' = ExportBlock(num)
      BY <2>1 DEF Refs, ExportBlock
    <2>4. ExportInv'
      BY <2>1, <2>3 DEF MInv, ExportInv, InodeSteps, EarlySteps, StreamSteps
    <2> QED
      BY <2>1, <2>2, <2>4, LoadStep
  <1>5. CASE ExportHit
    <2>1. /\ pc = "export" /\ UNCHANGED <<table, item, heap, cut, wild, num, exp, ret>> /\ pc' = "ref"
          /\ exp.addr = ExportBlock(num)
      BY <1>5 DEF ExportHit, inodeVars
    <2>2. ret = "ok"
      BY <2>1 DEF MInv, ItemInv
    <2>3. Refs(exp.addr)' = Refs(exp.addr) /\ ExportBlock(num)' = ExportBlock(num)
      BY <2>1 DEF Refs, ExportBlock
    <2>4. ExportInv'
      BY <2>1, <2>3 DEF MInv, ExportInv, InodeSteps, EarlySteps, StreamSteps
    <2> QED
      BY <2>1, <2>2, <2>4, LoadStep
  <1>6. CASE ExportFails
    <2>1. /\ pc = "export" /\ UNCHANGED <<table, item, heap, cut, wild, num>> /\ pc' = "done"
          /\ ret' = "corrupt" /\ (exp' = exp \/ exp' = [exp EXCEPT !.junk = TRUE])
      BY <1>6 DEF ExportFails
    <2>2. ExportInv'
      <3>1. CASE exp' = exp
        <4>1. Refs(exp.addr)' = Refs(exp.addr)
          BY <2>1, <3>1 DEF Refs
        <4> QED
          BY <2>1, <3>1, <4>1 DEF MInv, ExportInv, InodeSteps, EarlySteps, StreamSteps
      <3>2. CASE exp' = [exp EXCEPT !.junk = TRUE]
        <4>1. exp'.junk = TRUE
          BY <3>2
        <4> QED
          BY <2>1, <4>1 DEF MInv, ExportInv, InodeSteps, EarlySteps, StreamSteps
      <3> QED
        BY <2>1, <3>1, <3>2
    <2> QED
      BY <2>1, <2>2, LoadStep
  <1> QED
    BY <1>2, <1>3, <1>4, <1>5, <1>6

\* The reference at an inode's place in its block is the inode's.
LEMMA OwnReference ==
  ASSUME table \in Tables, NEW n \in 1 .. Len(table.inodes) + 1,
         IndexInBlock(n) < Len(Refs(ExportBlock(n)))
  PROVE  /\ n \in DOMAIN table.inodes
         /\ Refs(ExportBlock(n))[IndexInBlock(n) + 1] = table.inodes[n].at
  <1> DEFINE N == Len(table.inodes)
             q == (n - 1) \div M
             r == (n - 1) % M
             x == q * M
  <1>1. N \in Nat /\ DOMAIN table.inodes = 1 .. N /\ M \in Nat /\ M > 0
    BY InodeTables, TableTypes
  <1>2. n - 1 \in Nat /\ n \in Nat /\ n <= N + 1
    BY <1>1
  <1>3. q \in Nat /\ r \in 0 .. M - 1 /\ n - 1 = x + r
    BY <1>2, DivMod
  <1>4. x \in Nat
    <2> HIDE DEF q, r
    <2> QED
      BY <1>1, <1>3
  <1>5. ExportBlock(n) = q + 1 /\ IndexInBlock(n) = r
    BY DEF ExportBlock, IndexInBlock, REFS_PER_BLOCK, M
  <1>6. (q + 1) - 1 = q
    <2> HIDE DEF q
    <2> QED
      BY <1>3
  <1> DEFINE m == Min2(M, N - x)
  <1>7. Refs(ExportBlock(n)) = [j \in 1 .. m |-> table.inodes[x + j].at]
    BY <1>5, <1>6 DEF Refs, REFS_PER_BLOCK, M
  <1>8. m \in Nat /\ m <= N - x
    <2> HIDE DEF q, r, x, N
    <2> QED
      BY <1>1, <1>2, <1>3, <1>4 DEF Min2
  <1> HIDE DEF m, x, r, q, N
  <1>9. Len(Refs(ExportBlock(n))) = m
    BY <1>7, <1>8
  <1>10. r < m
    BY <1>5, <1>9
  <1>11. r + 1 \in 1 .. m /\ x + (r + 1) = n /\ n \in 1 .. N
    BY <1>1, <1>2, <1>3, <1>4, <1>8, <1>10
  <1>12. Refs(ExportBlock(n))[r + 1] = table.inodes[x + (r + 1)].at
    BY <1>7, <1>11
  <1> QED
    BY <1>1, <1>5, <1>11, <1>12

LEMMA FollowRefStep ==
  ASSUME MInv, FollowRef
  PROVE  MInv'
  <1>1. table \in Tables /\ pc = "ref" /\ UNCHANGED inodeVars
    BY DEF MInv, ItemInv, FollowRef
  <1>2. PICK i \in ToSet(table.inodes) :
          /\ exp.junk \/ i.at = exp.refs[IndexInBlock(num) + 1]
          /\ Begin(i, "header")
    BY DEF FollowRef
  <1>3. PICK m \in DOMAIN table.inodes : i = table.inodes[m]
    BY <1>1, <1>2, InodeTables DEF ToSet
  <1>4. IsInode(i, table.size)
    BY <1>1, <1>3, InodeTables
  <1>5. ASSUME num > 0, ~exp.junk PROVE num \in DOMAIN table.inodes /\ i = table.inodes[num]
    <2>1. num \in 1 .. Len(table.inodes) + 1 /\ exp.addr = ExportBlock(num)
      BY <1>1 DEF MInv, ExportInv
    <2>2. ExportBlock(num) # 0
      <3>1. Len(table.inodes) \in Nat
        BY <1>1, InodeTables
      <3>2. num - 1 \in Nat
        BY <2>1, <3>1
      <3>3. (num - 1) \div M \in Nat
        BY <3>2, DivMod
      <3> QED
        BY <3>3 DEF ExportBlock, REFS_PER_BLOCK, M
    <2>3. exp.refs = Refs(ExportBlock(num))
      BY <1>5, <2>1, <2>2 DEF MInv, ExportInv
    <2>4. IndexInBlock(num) < Len(Refs(ExportBlock(num)))
      BY <2>3 DEF FollowRef
    <2>5. num \in DOMAIN table.inodes /\ i.at = table.inodes[num].at
      BY <1>1, <1>2, <1>5, <2>1, <2>3, <2>4, OwnReference
    <2> QED
      BY <1>1, <1>3, <2>5, InodeTables
  <1> QED
    BY <1>1, <1>2, <1>4, <1>5, GetByRefStep

LEMMA InodeDoneStep ==
  ASSUME MInv, InodeDone
  PROVE  MInv'
  <1>1. /\ pc = "done" /\ item' = Idle /\ pc' = "idle" /\ ret' = "ok" /\ table' = table
        /\ num' = 0 /\ UNCHANGED <<exp, cut>>
        /\ \/ item.who = "inode" /\ ret = "ok" /\ Free(Freed)
           \/ ~(item.who = "inode" /\ ret = "ok") /\ UNCHANGED <<heap, wild>>
    BY DEF InodeDone, Done
  <1>2. ItemInv'
    <2>1. table' \in Tables /\ Idle' = Idle
      BY <1>1 DEF MInv, ItemInv, Idle
    <2> QED
      BY <1>1, <2>1 DEF ItemInv, Labels, InodeSteps, EarlySteps, StreamSteps
  <1>3. PosInv'
    BY <1>1 DEF PosInv
  <1>4. ExportInv'
    <2>1. Refs(exp.addr)' = Refs(exp.addr)
      BY <1>1 DEF Refs
    <2> QED
      BY <1>1, <2>1 DEF MInv, ExportInv, InodeSteps, EarlySteps, StreamSteps
  <1>5. HeapInv'
    <2>1. Owned' = {}
      BY <1>1 DEF Owned
    <2>2. CASE item.who = "inode" /\ ret = "ok" /\ Free(Freed)
      <3> DEFINE X == Arrays(item)
      <3>1. /\ wild = FALSE
            /\ heap = {"inode"} \union X \/ (cut /\ heap = ({"inode"} \union X) \union {"lost"})
        BY <1>1, <2>2 DEF MInv, HeapInv, Owned
      <3>2. X \subseteq {"block_sizes", "target"} /\ ("target" \in X <=> item.kind = "symlink")
        BY ArraysOf
      <3>3. heap' = heap \ Freed /\ wild' = (wild \/ ~(Freed \subseteq heap))
        BY <2>2 DEF Free
      <3>4. Freed = {"inode"} \union X
        <4> HIDE DEF X
        <4> QED
          BY <3>1, <3>2 DEF Freed
      <3> HIDE DEF X
      <3>5. wild' = FALSE /\ (heap' = {} \/ (cut /\ heap' = {} \union {"lost"}))
        BY <3>1, <3>2, <3>3, <3>4
      <3> QED
        BY <1>1, <2>1, <3>5 DEF MInv, HeapInv
    <2>3. CASE ~(item.who = "inode" /\ ret = "ok") /\ UNCHANGED <<heap, wild>>
      <3>1. Owned = {} /\ pc # "crashed"
        BY <1>1, <2>3 DEF Owned
      <3> QED
        BY <1>1, <2>1, <2>3, <3>1 DEF MInv, HeapInv
    <2> QED
      BY <1>1, <2>2, <2>3
  <1>6. Answers'
    BY <1>1 DEF Answers, StreamSlice, IntactReads, InodeInBounds
  <1> QED
    BY <1>2, <1>3, <1>4, <1>5, <1>6 DEF MInv

LEMMA MetaIdle ==
  ASSUME MInv, UNCHANGED <<vars, inodeVars>>
  PROVE  MInv'
  <1>1. /\ UNCHANGED <<table, item, pos, block_offset, out, pc, ret, io>>
        /\ UNCHANGED <<num, exp, heap, cut, wild>>
    BY DEF vars, inodeVars
  <1>2. ItemInv'
    BY <1>1 DEF MInv, ItemInv, Asked, IsInode, Idle
  <1>3. PosInv'
    BY <1>1 DEF MInv, PosInv, Placed, Whole, InodeSize, Min2
  <1>4. ExportInv'
    BY <1>1 DEF MInv, ExportInv, Refs, ExportBlock
  <1>5. HeapInv'
    <2>1. Owned' = Owned
      BY <1>1, SameItem DEF Owned
    <2> QED
      BY <1>1, <2>1 DEF MInv, HeapInv
  <1>6. Answers'
    BY <1>1, SameItem DEF MInv, Answers, StreamSlice, IntactReads, InodeInBounds
  <1> QED
    BY <1>2, <1>3, <1>4, <1>5, <1>6 DEF MInv

LEMMA MetaNext ==
  ASSUME MInv, InodeNext
  PROVE  MInv'
  <1>1. CASE Reading /\ UNCHANGED inodeVars
    <2>1. ASSUME NEW i \in Items(table.size), Start(i) PROVE MInv'
      BY <1>1, <2>1, StartStep
    <2>2. CASE DirFirst
      BY <1>1, <2>2, DirFirstStep
    <2>3. CASE DirNext
      BY <1>1, <2>3, DirNextStep
    <2>4. CASE DirBad \/ MetaBad
      BY <1>1, <2>4, StreamBadStep
    <2>5. CASE MetaTurn
      BY <1>1, <2>5, MetaTurnStep
    <2>6. CASE IoError
      BY <1>1, <2>6, IoErrorStep
    <2> QED
      BY <1>1, <2>1, <2>2, <2>3, <2>4, <2>5, <2>6 DEF Reading
  <1>2. ASSUME NEW i \in Inodes(table.size), GetByRef(i) PROVE MInv'
    <2>1. pc = "idle" /\ Begin(i, "header") /\ UNCHANGED inodeVars
      BY <1>2 DEF GetByRef
    <2>2. table \in Tables /\ num = 0
      BY <2>1 DEF MInv, ItemInv, ExportInv
    <2>3. IsInode(i, table.size)
      BY <2>2, InodeTables
    <2>4. ~(num > 0)
      BY <2>2
    <2> QED
      BY <2>1, <2>3, <2>4, GetByRefStep
  <1>3. CASE ReadHeader \/ ReadFixed
    BY <1>3, ReadHeaderStep
  <1>4. CASE ReadFull
    BY <1>4, ReadFullStep
  <1>5. CASE BadInode \/ InodeError
    BY <1>5, BadInodeStep
  <1>6. CASE AllocInode \/ Parse \/ ParseOverruns
    BY <1>6, AllocStep
  <1>10. CASE ParseNoMemory \/ ParseRefuses
    BY <1>10, ParseFailsStep
  <1>11. CASE ParseEnds
    BY <1>11, ParseEndsStep
  <1>12. CASE Crashed
    BY <1>12, MetaIdle DEF Crashed
  <1>7. CASE \/ \E n \in 0 .. Len(table.inodes) + 1 : Load(n)
             \/ ExportAbsent \/ ExportRead \/ ExportHit \/ ExportFails \/ NoRef
    BY <1>7, LoadSteps
  <1>8. CASE FollowRef
    BY <1>8, FollowRefStep
  <1>9. CASE InodeDone
    BY <1>9, InodeDoneStep
  <1> QED
    BY <1>1, <1>2, <1>3, <1>4, <1>5, <1>6, <1>7, <1>8, <1>9, <1>10, <1>11, <1>12
       DEF InodeNext

\* MInv is inductive.
LEMMA MetaInvariant == InodeSpec => []MInv
  <1>1. MInv /\ [InodeNext]_<<vars, inodeVars>> => MInv'
    BY MetaNext, MetaIdle
  <1> QED
    BY <1>1, MetaInit, PTL DEF InodeSpec

(***************************************************************************)
(* The theorems.                                                           *)
(***************************************************************************)
\* read_directory_data, sqfs_meta_read and sqfs_inode_get_by_ref return the stretch
\* of the stream they were asked for, whatever the size of the blocks and of the
\* table, and however many blocks it goes through.
THEOREM SliceCorrect == InodeSpec => []StreamSlice
  <1>1. MInv => StreamSlice
    BY DEF MInv, Answers
  <1> QED
    BY <1>1, MetaInvariant, PTL

\* Without a failure of the device or of memory, a listing can be read from
\* wherever it is, anything else from blocks that come out in place, and an inode
\* from one such block.
THEOREM IntactCorrect == InodeSpec => []IntactReads
  <1>1. MInv => IntactReads
    BY DEF MInv, Answers
  <1> QED
    BY <1>1, MetaInvariant, PTL

\* An inode that claims more bytes than the table has left is refused.
THEOREM BoundsCorrect == InodeSpec => []InodeInBounds
  <1>1. MInv => InodeInBounds
    BY DEF MInv, Answers
  <1> QED
    BY <1>1, MetaInvariant, PTL

\* A load by number returns the inode with that number, for every export table and
\* every history of the static block, as long as no read has spoilt it.
THEOREM LoadCorrect == InodeSpec => []LoadFindsInode
  <1>1. ASSUME MInv PROVE LoadFindsInode
    <2> SUFFICES ASSUME pc = "done", ret = "ok", num > 0, ~exp.junk
                 PROVE  out = [j \in 1 .. table.inodes[num].size |-> table.inodes[num].at + j]
      BY DEF LoadFindsInode
    <2>1. table \in Tables /\ item.who = "inode" /\ num \in DOMAIN table.inodes /\ item = table.inodes[num]
      BY <1>1 DEF MInv, ItemInv, ExportInv
    <2>2. item.at < table.size
      BY <2>1, InodeTables
    <2>3. Whole
      BY <1>1, <2>1, <2>2 DEF MInv, Answers, InodeInBounds
    <2> QED
      BY <1>1, <2>1, <2>3 DEF MInv, Answers, StreamSlice
  <1> QED
    BY <1>1, MetaInvariant, PTL

\* Whichever allocation fails and whatever an inode has beside its structure,
\* sqfs_inode_get_by_ref and sqfs_inode_free leave nothing allocated between two
\* calls, but the array of an inode longer than MAX_INODE_SIZE, and free nothing
\* that is not allocated.
THEOREM OwnedCorrect == InodeSpec => []InodesOwned
  <1>1. ASSUME MInv PROVE InodesOwned
    <2>1. pc = "idle" => Owned = {}
      BY DEF Owned
    <2> QED
      BY <1>1, <2>1 DEF MInv, HeapInv, InodesOwned
  <1> QED
    BY <1>1, MetaInvariant, PTL

=============================================================================
