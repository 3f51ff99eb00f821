---------------------------- MODULE XattrProofs ----------------------------
(***************************************************************************)
(* Proofs about Xattr, for every table of attribute sets and every request.*)
(***************************************************************************)
EXTENDS Xattr, TLAPS

(***************************************************************************)
(* The pairs of a request.                                                 *)
(***************************************************************************)
Busy == {"buffer", "read", "count", "key", "value", "use", "undo", "free"}

\* The request has passed the early returns.
Granted ==
  /\ loaded /\ call \in Calls
  /\ call.idx \in 0 .. Len(image.entries) - 1

\* A request that was granted names an entry, and the entry a place in a block.
LEMMA EntryFacts ==
  ASSUME image \in Images, call.idx \in 0 .. Len(image.entries) - 1
  PROVE  /\ Entry.first \in Nat \ {0} /\ Entry.count \in Nat
         /\ Block.pairs \in Seq(Pair)
  <1> DEFINE E == [block : DOMAIN image.blocks, first : Nat \ {0}, count : Nat]
             B == [pairs : Seq(Pair), tail : {"none", "few", "cut"}]
  <1>1. image.entries \in Seq(E) /\ image.blocks \in Seq(B)
    BY XattrImages
  <1>2. Entry \in E
    <2> HIDE DEF E
    <2>1. call.idx + 1 \in 1 .. Len(image.entries)
      BY <1>1
    <2> QED
      BY <1>1, <2>1 DEF Entry
  <1>3. Block \in B
    <2>1. Entry.block \in DOMAIN image.blocks
      BY <1>2
    <2> HIDE DEF B
    <2> QED
      BY <1>1, <2>1 DEF Block
  <1> QED
    BY <1>2, <1>3

\* The entry's own pairs are the first of those that read_xattr_pairs copies.
LEMMA OwnFirst ==
  ASSUME image \in Images, call.idx \in 0 .. Len(image.entries) - 1
  PROVE  /\ Rest \in Seq(Pair) /\ Own \in Seq(Pair)
         /\ Len(Own) <= Len(Rest)
         /\ \A i \in 1 .. Len(Own) : Own[i] = Rest[i]
  <1> DEFINE p == Block.pairs
             f == Entry.first
             last == Entry.first + Entry.count - 1
             m == IF last <= Len(p) THEN last ELSE Len(p)
  <1>1. p \in Seq(Pair) /\ f \in Nat \ {0} /\ Len(p) \in Nat /\ last \in Nat
    BY EntryFacts
  <1>2. m \in Nat /\ m <= Len(p)
    BY <1>1
  <1>3. Rest = SubSeq(p, f, Len(p)) /\ Own = SubSeq(p, f, m)
    BY DEF Rest, Own
  <1> HIDE DEF p, f, last, m
  <1>4. CASE f <= m
    BY <1>1, <1>2, <1>3, <1>4
  <1>5. CASE f > m
    BY <1>1, <1>2, <1>3, <1>5
  <1> QED
    BY <1>1, <1>2, <1>4, <1>5

(***************************************************************************)
(* The cells of the copies.                                                *)
(***************************************************************************)
\* The copies of the pairs m to n.
Copies(m, n) == UNION {Key(j) \union Value(j) : j \in m .. n}

LEMMA CopiesEnds ==
  ASSUME NEW m \in Nat, NEW n \in Nat
  PROVE  /\ m > n => Copies(m, n) = {}
         /\ m <= n + 1 => Copies(m, n + 1) = Copies(m, n) \union Key(n + 1) \union Value(n + 1)
         /\ m <= n => /\ Key(m) \union Value(m) \subseteq Copies(m, n)
                      /\ Copies(m, n) \ (Key(m) \union Value(m)) = Copies(m + 1, n)
  <1>1. ASSUME m > n PROVE Copies(m, n) = {}
    BY <1>1 DEF Copies
  <1>2. ASSUME m <= n + 1
        PROVE  Copies(m, n + 1) = Copies(m, n) \union Key(n + 1) \union Value(n + 1)
    <2>1. m .. n + 1 = (m .. n) \union {n + 1}
      BY <1>2
    <2> QED
      BY <2>1 DEF Copies
  <1>3. ASSUME m <= n
        PROVE  /\ Key(m) \union Value(m) \subseteq Copies(m, n)
               /\ Copies(m, n) \ (Key(m) \union Value(m)) = Copies(m + 1, n)
    <2>1. m .. n = (m + 1 .. n) \union {m} /\ m \notin m + 1 .. n
      BY <1>3
    <2>2. Copies(m, n) = Copies(m + 1, n) \union Key(m) \union Value(m)
      BY <2>1 DEF Copies
    <2>3. \A j \in m + 1 .. n : (Key(j) \union Value(j)) \intersect (Key(m) \union Value(m)) = {}
      BY <2>1 DEF Key, Value
    <2>4. Copies(m + 1, n) \intersect (Key(m) \union Value(m)) = {}
      BY <2>3 DEF Copies
    <2> QED
      BY <2>2, <2>4
  <1> QED
    BY <1>1, <1>2, <1>3

\* No two kinds of cells have one in common.
LEMMA CellsApart ==
  ASSUME NEW m \in Nat, NEW n \in Nat
  PROVE  /\ Copies(m, n) \intersect (Table \union Entries \union Buffer \union Array) = {}
         /\ (Key(n + 1) \union Value(n + 1)) \intersect
              (Table \union Entries \union Buffer \union Array \union Copies(m, n)) = {}
         /\ Key(n + 1) \intersect Value(n + 1) = {}
         /\ Table \intersect Entries = {} /\ Table \intersect Buffer = {}
         /\ Table \intersect Array = {} /\ Entries \intersect Buffer = {}
         /\ Entries \intersect Array = {} /\ Buffer \intersect Array = {}
  BY DEF Copies, Table, Entries, Buffer, Array, Key, Value

(***************************************************************************)
(* What holds between two steps of a request.                              *)
(***************************************************************************)
Loading == {"header", "entries", "records"}
LoadCall == [NoCall EXCEPT !.op = "load"]

TypesInv ==
  /\ image \in Images
  /\ loaded \in BOOLEAN /\ fault \in BOOLEAN
  /\ pc \in Busy \union Loading \union {"idle", "done"}
  /\ pc \in Busy => Granted
  /\ pc \in Loading => call = LoadCall /\ ~loaded
  /\ pc = "done" => call \in Calls \/ call = LoadCall
  /\ pc = "undo" => fault

TableCells == IF loaded THEN LoadedTable ELSE {}
PairCells == IF Rest = <<>> THEN {} ELSE Array

\* The pairs copied are the first of Rest.
Copying ==
  /\ Countable /\ pair_count = Len(Rest) /\ Rest # <<>>
  /\ result = SubSeq(Rest, 1, Len(result)) /\ Len(result) \in 0 .. Len(Rest)

\* What is allocated, and what has been copied.
CopiesInv ==
  /\ ~wild
  /\ pc \in {"idle", "done", "buffer"} => result = <<>> /\ heap = TableCells
  /\ pc \in {"header", "entries"} => result = <<>> /\ heap = Table
  /\ pc \in {"entries", "records"} => image.entries # <<>>
  /\ pc = "records" => result = <<>> /\ heap = Table \union Entries
  /\ pc \in {"read", "count"} => result = <<>> /\ heap = TableCells \union Buffer
  /\ pc = "key" =>
       Copying /\ heap = TableCells \union Buffer \union Array \union Copies(1, Len(result))
  /\ pc = "value" =>
       /\ Copying /\ Len(result) < Len(Rest)
       /\ heap = TableCells \union Buffer \union Array \union Copies(1, Len(result))
                   \union Key(Len(result) + 1)
  /\ pc = "undo" =>
       /\ Copying /\ next \in 1 .. Len(result) + 1
       /\ heap = TableCells \union Buffer \union Array \union Copies(next, Len(result))
  /\ pc = "use" =>
       /\ Countable /\ result = Rest
       /\ heap = TableCells \union PairCells \union Copies(1, Len(result))
  /\ pc = "free" =>
       /\ Countable /\ result = Rest /\ next \in 1 .. Len(result) + 1
       /\ heap = TableCells \union PairCells \union Copies(next, Len(result))

XInv == TypesInv /\ CopiesInv /\ GetOwn /\ ListOwn

\* Only a request that is answered has anything to say about the answer.
LEMMA NotAnswered ==
  ASSUME pc \notin {"free", "done"}
  PROVE  GetOwn /\ ListOwn
  BY DEF GetOwn, ListOwn, Answered

LEMMA XInit == Init => XInv
  <1> SUFFICES ASSUME Init PROVE XInv
    OBVIOUS
  <1>1. TypesInv /\ CopiesInv
    BY DEF Init, TypesInv, CopiesInv, Busy, Loading, TableCells
  <1> QED
    BY <1>1, NotAnswered DEF Init, XInv

\* What a step that keeps the image and the request says of the pairs it is about.
LEMMA SamePairs ==
  ASSUME UNCHANGED <<image, call>>
  PROVE  /\ Rest' = Rest /\ Own' = Own /\ (Countable' <=> Countable) /\ Calls' = Calls
         /\ Block' = Block /\ Entry' = Entry /\ PairCells' = PairCells
         /\ LoadedTable' = LoadedTable
         /\ UNCHANGED loaded => TableCells' = TableCells
  BY DEF Rest, Own, Countable, Block, Entry, Calls, PairCells, LoadedTable, TableCells

(***************************************************************************)
(* Every step keeps it.                                                    *)
(***************************************************************************)
\* A step of the loader ends it, or takes it on.
LEMMA LoaderStep ==
  ASSUME XInv, pc \in {"idle"} \union Loading, pc' \in Loading \union {"done"},
         call' = LoadCall, UNCHANGED <<image, result>>, ~wild',
         loaded' \in BOOLEAN, fault' \in BOOLEAN, pc' \in Loading => ~loaded',
         pc' = "done" => heap' = TableCells',
         pc' \in {"header", "entries"} => heap' = Table,
         pc' \in {"entries", "records"} => image.entries # <<>>,
         pc' = "records" => heap' = Table \union Entries
  PROVE  XInv'
  <1> USE DEF Busy, Loading
  <1>1. call'.op = "load"
    BY DEF NoCall, LoadCall
  <1>2. GetOwn' /\ ListOwn'
    BY <1>1 DEF GetOwn, ListOwn, Answered
  <1>3. TypesInv'
    BY DEF XInv, TypesInv
  <1>4. result = <<>>
    BY DEF XInv, CopiesInv
  <1>5. CopiesInv'
    BY <1>4 DEF CopiesInv
  <1> QED
    BY <1>2, <1>3, <1>5 DEF XInv

LEMMA LoadStep ==
  ASSUME XInv, LoadTable \/ ReadHeader \/ AllocEntries \/ ReadEntries
  PROVE  XInv'
  <1> USE DEF Loading
  <1>0. /\ pc \in {"idle"} \union Loading /\ ~loaded /\ ~wild
        /\ UNCHANGED <<image, result>> /\ LoadedTable' = LoadedTable
        /\ call' = LoadCall /\ fault \in BOOLEAN /\ loaded = FALSE
    BY DEF LoadTable, ReadHeader, AllocEntries, ReadEntries, XInv, TypesInv, CopiesInv,
           LoadCall, LoadedTable
  <1>1. Table \intersect Entries = {}
    BY DEF Table, Entries
  <1>2. TableCells' = IF loaded' THEN LoadedTable ELSE {}
    BY <1>0 DEF TableCells
  <1>3. CASE LoadTable
    <2>1. pc = "idle" /\ heap = {} /\ UNCHANGED loaded
      BY <1>0, <1>3 DEF LoadTable, XInv, CopiesInv, TableCells
    <2>2. CASE Leave("not_found") /\ UNCHANGED memory
      BY <1>0, <1>2, <2>1, <2>2, LoaderStep DEF Leave, memory
    <2>3. CASE Allocate(Table) /\ Step("header")
      BY <1>0, <1>2, <2>1, <2>3, LoaderStep DEF Allocate, Step
    <2>4. CASE Fault("done", "no_memory") /\ UNCHANGED memory
      BY <1>0, <1>2, <2>1, <2>4, LoaderStep DEF Fault, memory
    <2> QED
      BY <1>3, <2>2, <2>3, <2>4 DEF LoadTable
  <1>4. CASE ReadHeader
    <2>1. pc = "header" /\ heap = Table
      BY <1>4 DEF ReadHeader, XInv, CopiesInv
    <2>2. CASE image.entries = <<>> /\ loaded' = TRUE /\ Leave("ok") /\ UNCHANGED memory
      <3>1. LoadedTable = Table
        BY <2>2 DEF LoadedTable
      <3> QED
        BY <1>0, <1>2, <2>1, <2>2, <3>1, LoaderStep DEF Leave, memory
    <2>3. CASE image.entries # <<>> /\ Step("entries") /\ UNCHANGED <<loaded, memory>>
      BY <1>0, <1>2, <2>1, <2>3, LoaderStep DEF Step, memory
    <2>4. CASE Free(Table) /\ Fault("done", "io") /\ UNCHANGED loaded
      BY <1>0, <1>2, <2>1, <2>4, LoaderStep DEF Free, Fault
    <2> QED
      BY <1>4, <2>2, <2>3, <2>4 DEF ReadHeader
  <1>5. CASE AllocEntries
    <2>1. pc = "entries" /\ heap = Table /\ image.entries # <<>> /\ UNCHANGED loaded
      BY <1>5 DEF AllocEntries, XInv, CopiesInv
    <2>2. CASE Allocate(Entries) /\ Step("records")
      BY <1>0, <1>2, <2>1, <2>2, LoaderStep DEF Allocate, Step
    <2>3. CASE Free(Table) /\ Fault("done", "no_memory")
      BY <1>0, <1>2, <2>1, <2>3, LoaderStep DEF Free, Fault
    <2> QED
      BY <1>5, <2>2, <2>3 DEF AllocEntries
  <1>6. CASE ReadEntries
    <2>1. pc = "records" /\ heap = Table \union Entries /\ image.entries # <<>>
      BY <1>6 DEF ReadEntries, XInv, CopiesInv
    <2>2. CASE loaded' = TRUE /\ Leave("ok") /\ UNCHANGED memory
      <3>1. LoadedTable = Table \union Entries
        BY <2>1 DEF LoadedTable
      <3> QED
        BY <1>0, <1>2, <2>1, <2>2, <3>1, LoaderStep DEF Leave, memory
    <2>3. CASE Free(Entries \union Table) /\ Fault("done", "io") /\ UNCHANGED loaded
      BY <1>0, <1>2, <2>1, <2>3, LoaderStep DEF Free, Fault
    <2> QED
      BY <1>6, <2>2, <2>3 DEF ReadEntries
  <1> QED
    BY <1>3, <1>4, <1>5, <1>6

LEMMA DestroyStep ==
  ASSUME XInv, DestroyTable
  PROVE  XInv'
  <1>1. /\ pc = "idle" /\ loaded /\ loaded' = FALSE /\ heap' = heap \ LoadedTable
        /\ wild' = (wild \/ ~(LoadedTable \subseteq heap))
        /\ UNCHANGED <<image, pc, result, fault>>
    BY DEF DestroyTable, Free
  <1>2. heap' = {} /\ ~wild'
    BY <1>1 DEF XInv, CopiesInv, TableCells
  <1>3. TypesInv'
    BY <1>1 DEF XInv, TypesInv, Busy, Loading
  <1>4. CopiesInv'
    BY <1>1, <1>2 DEF XInv, CopiesInv, TableCells
  <1>5. GetOwn' /\ ListOwn'
    BY <1>1 DEF GetOwn, ListOwn, Answered
  <1> QED
    BY <1>3, <1>4, <1>5 DEF XInv

\* The early returns turn away every request that names no entry.
LEMMA RefusalFacts ==
  ASSUME image \in Images, loaded \in BOOLEAN, NEW c \in Calls
  PROVE  Refusal(c) = "none" <=> loaded /\ c.idx \in 0 .. Len(image.entries) - 1
  <1>1. c.idx \in None .. Len(image.entries)
    BY DEF Calls
  <1>2. Len(image.entries) \in Nat
    BY XattrImages
  <1>3. c.idx \in Int /\ c.idx >= -1 /\ c.idx <= Len(image.entries)
    BY <1>1, <1>2 DEF None
  <1>4. CASE ~loaded
    BY <1>4 DEF Refusal
  <1>5. CASE loaded /\ c.idx = None
    BY <1>5 DEF Refusal, None
  <1>6. CASE loaded /\ c.idx # None /\ c.idx >= Len(image.entries)
    BY <1>2, <1>3, <1>6 DEF Refusal
  <1>7. CASE loaded /\ c.idx # None /\ ~(c.idx >= Len(image.entries))
    BY <1>2, <1>3, <1>7 DEF Refusal, None
  <1> QED
    BY <1>4, <1>5, <1>6, <1>7

LEMMA CallStep ==
  ASSUME XInv, NEW c \in Calls, Call(c)
  PROVE  XInv'
  <1>1. /\ pc = "idle" /\ call' = c /\ UNCHANGED <<image, loaded, result, heap, wild, fault>>
        /\ pc' = IF Refusal(c) = "none" THEN "buffer" ELSE "done"
    BY DEF Call, Step, Leave, memory
  <1>2. Calls' = Calls /\ TableCells' = TableCells
    BY <1>1 DEF Calls, TableCells, LoadedTable
  <1>3. Refusal(c) = "none" <=> loaded /\ c.idx \in 0 .. Len(image.entries) - 1
    BY RefusalFacts DEF XInv, TypesInv
  <1>4. TypesInv'
    BY <1>1, <1>2, <1>3 DEF XInv, TypesInv, Busy, Loading, Granted
  <1>5. CopiesInv'
    BY <1>1, <1>2 DEF XInv, CopiesInv
  <1>6. GetOwn' /\ ListOwn'
    BY <1>1, <1>3 DEF GetOwn, ListOwn, Answered
  <1> QED
    BY <1>4, <1>5, <1>6 DEF XInv

\* A step inside read_xattr_pairs, to another step of it.
LEMMA InsideStep ==
  ASSUME XInv, pc \in Busy, pc' \in Busy \ {"undo", "free"},
         UNCHANGED <<image, loaded, call>>, fault' \in BOOLEAN
  PROVE  TypesInv' /\ GetOwn' /\ ListOwn'
  BY SamePairs DEF XInv, TypesInv, Busy, Loading, Granted, GetOwn, ListOwn, Answered

\* A step that gives up, or starts to.
LEMMA GiveUp ==
  ASSUME XInv, pc \in Busy, pc' \in {"undo", "done"}, UNCHANGED <<image, loaded, call>>,
         \/ fault' = TRUE
         \/ pc' = "done" /\ fault' = fault /\ ~Countable /\ ret' = "bad_xattr"
  PROVE  TypesInv' /\ GetOwn' /\ ListOwn'
  BY SamePairs DEF XInv, TypesInv, Busy, Loading, Granted, GetOwn, ListOwn, Answered

LEMMA CountSteps ==
  ASSUME XInv, AllocBuffer \/ ReadBlock \/ BadPairs \/ NoPairs \/ CountPairs
  PROVE  XInv'
  <1> USE DEF Busy
  <1>0. /\ UNCHANGED <<image, loaded, call, result>> /\ TableCells' = TableCells
        /\ pc \in {"buffer", "read", "count"} /\ result = <<>> /\ ~wild
    <2>1. UNCHANGED <<image, loaded, call, result>> /\ pc \in {"buffer", "read", "count"}
      BY DEF AllocBuffer, ReadBlock, BadPairs, NoPairs, CountPairs
    <2>2. result = <<>> /\ ~wild
      BY <2>1 DEF XInv, CopiesInv
    <2> QED
      BY <2>1, <2>2, SamePairs
  <1>A. TableCells \intersect Buffer = {} /\ TableCells \intersect Array = {}
    BY DEF TableCells, LoadedTable, Table, Entries, Buffer, Array
  <1>B. fault \in BOOLEAN
    BY DEF XInv, TypesInv
  <1>1. CASE AllocBuffer
    <2>0. heap = TableCells
      BY <1>1 DEF AllocBuffer, XInv, CopiesInv
    <2>1. CASE Allocate(Buffer) /\ Step("read")
      <3>1. CopiesInv'
        BY <1>0, <2>0, <2>1 DEF CopiesInv, Allocate, Step
      <3> QED
        BY <1>0, <1>B, <2>1, <3>1, InsideStep DEF XInv, Step
    <2>2. CASE Fault("done", "no_memory") /\ UNCHANGED memory
      <3>1. CopiesInv'
        BY <1>0, <2>0, <2>2 DEF CopiesInv, Fault, memory
      <3> QED
        BY <1>0, <2>2, <3>1, GiveUp DEF XInv, Fault
    <2> QED
      BY <1>1, <2>1, <2>2 DEF AllocBuffer
  <1>2. CASE ReadBlock
    <2>0. heap = TableCells \union Buffer
      BY <1>2 DEF ReadBlock, XInv, CopiesInv
    <2>1. CASE Step("count") /\ UNCHANGED memory
      <3>1. CopiesInv'
        BY <1>0, <2>0, <2>1 DEF CopiesInv, memory, Step
      <3> QED
        BY <1>0, <1>B, <2>1, <3>1, InsideStep DEF XInv, Step
    <2>2. CASE Free(Buffer) /\ Fault("done", "io")
      <3>1. CopiesInv'
        BY <1>0, <1>A, <2>0, <2>2 DEF CopiesInv, Fault, Free
      <3> QED
        BY <1>0, <2>2, <3>1, GiveUp DEF XInv, Fault
    <2> QED
      BY <1>2, <2>1, <2>2 DEF ReadBlock
  <1>3. CASE BadPairs
    <2>1. CopiesInv'
      BY <1>0, <1>A, <1>3 DEF BadPairs, XInv, CopiesInv, Leave, Free
    <2> QED
      BY <1>0, <1>3, <2>1, GiveUp DEF BadPairs, XInv, Leave
  <1>4. CASE NoPairs
    <2>0. /\ heap = TableCells \union Buffer /\ Rest = <<>> /\ Countable
          /\ Rest' = Rest /\ Countable' /\ PairCells' = {} /\ Len(<<>>) = 0
      BY <1>0, <1>4, SamePairs DEF NoPairs, XInv, CopiesInv, PairCells
    <2>1. Copies(1, 0) = {}
      BY CopiesEnds
    <2>2. CopiesInv'
      BY <1>0, <1>A, <1>4, <2>0, <2>1 DEF NoPairs, CopiesInv, Free, Step
    <2> QED
      BY <1>0, <1>B, <1>4, <2>2, InsideStep DEF NoPairs, XInv, Step
  <1>5. CASE CountPairs
    <2>0. /\ heap = TableCells \union Buffer /\ Rest # <<>> /\ Countable /\ pc = "count"
          /\ Rest' = Rest /\ Countable'
      BY <1>0, <1>5, SamePairs DEF CountPairs, XInv, CopiesInv
    <2>1. CASE pair_count' = Len(Rest) /\ Allocate(Array) /\ Step("key")
      <3>1. Rest \in Seq(Pair)
        BY <2>0, OwnFirst DEF XInv, TypesInv, Granted
      <3>2. result = SubSeq(Rest, 1, Len(result)) /\ Len(result) = 0 /\ 0 \in 0 .. Len(Rest)
        BY <1>0, <3>1
      <3>3. Copying'
        BY <1>0, <2>0, <2>1, <3>2 DEF Copying
      <3>4. Copies(1, 0) = {}
        BY CopiesEnds
      <3>5. CopiesInv'
        BY <1>0, <2>0, <2>1, <3>2, <3>3, <3>4 DEF CopiesInv, Allocate, Step
      <3> QED
        BY <1>0, <1>B, <2>1, <3>5, InsideStep DEF XInv, Step
    <2>2. CASE Free(Buffer) /\ Fault("done", "no_memory")
      <3>1. CopiesInv'
        BY <1>0, <1>A, <2>0, <2>2 DEF CopiesInv, Fault, Free
      <3> QED
        BY <1>0, <2>2, <3>1, GiveUp DEF XInv, Fault
    <2> QED
      BY <1>5, <2>1, <2>2 DEF CountPairs
  <1> QED
    BY <1>1, <1>2, <1>3, <1>4, <1>5


LEMMA FillSteps ==
  ASSUME XInv, CopyKey \/ KeyFails \/ CopyValue \/ ValueFails \/ Filled
  PROVE  XInv'
  <1> USE DEF Busy
  <1> DEFINE n == Len(result)
  <1>0. /\ UNCHANGED <<image, loaded, call>> /\ TableCells' = TableCells
        /\ pc \in {"key", "value"} /\ ~wild /\ fault \in BOOLEAN
    <2>1. UNCHANGED <<image, loaded, call>> /\ pc \in {"key", "value"}
      BY DEF CopyKey, KeyFails, CopyValue, ValueFails, Filled
    <2> QED
      BY <2>1, SamePairs DEF XInv, TypesInv, CopiesInv
  <1>1. /\ Copying /\ Rest \in Seq(Pair) /\ n \in Nat
        /\ Countable /\ pair_count = Len(Rest) /\ Rest # <<>>
        /\ result = SubSeq(Rest, 1, n) /\ n \in 0 .. Len(Rest)
    BY <1>0, OwnFirst DEF XInv, TypesInv, CopiesInv, Granted, Copying
  <1> DEFINE cells == TableCells \union Buffer \union Array
  <1>A. /\ TableCells \intersect (Buffer \union Array) = {} /\ Buffer \intersect Array = {}
        /\ Copies(1, n) \intersect cells = {}
        /\ (Key(n + 1) \union Value(n + 1)) \intersect (cells \union Copies(1, n)) = {}
        /\ Key(n + 1) \intersect Value(n + 1) = {}
    BY <1>1, CellsApart DEF TableCells, LoadedTable
  <1>B. Rest' = Rest /\ (Countable' <=> Countable) /\ PairCells' = Array
    BY <1>0, <1>1, SamePairs DEF PairCells
  <1>2. CASE CopyKey
    <2>1. /\ pc = "key" /\ n < Len(Rest) /\ pc' = "value" /\ UNCHANGED <<result, pair_count, fault>>
          /\ heap' = heap \union Key(n + 1) /\ wild' = wild
          /\ heap = cells \union Copies(1, n)
      BY <1>1, <1>2 DEF CopyKey, Allocate, Step, idx, XInv, CopiesInv
    <2>2. Copying'
      BY <1>0, <1>1, <1>B, <2>1 DEF Copying
    <2>3. CopiesInv'
      BY <1>0, <1>B, <2>1, <2>2 DEF CopiesInv
    <2> QED
      BY <1>0, <2>1, <2>3, InsideStep DEF XInv
  <1>3. CASE KeyFails
    <2>1. /\ pc = "key" /\ pc' = "undo" /\ UNCHANGED <<result, pair_count, heap, wild>>
          /\ fault' = TRUE /\ next' = 1
          /\ heap = cells \union Copies(1, n)
      BY <1>3 DEF KeyFails, Fault, memory, XInv, CopiesInv
    <2>2. Copying' /\ 1 \in 1 .. n + 1
      BY <1>0, <1>1, <1>B, <2>1 DEF Copying
    <2>3. CopiesInv'
      BY <1>0, <2>1, <2>2 DEF CopiesInv
    <2> QED
      BY <1>0, <2>1, <2>3, GiveUp DEF XInv
  <1>4. CASE CopyValue
    <2>1. /\ pc = "value" /\ pc' = "key" /\ result' = Append(result, Rest[n + 1])
          /\ n < Len(Rest)
          /\ UNCHANGED <<pair_count, fault, wild>>
          /\ heap' = heap \union Value(n + 1)
          /\ heap = cells \union Copies(1, n) \union Key(n + 1)
      BY <1>4 DEF CopyValue, Allocate, Step, idx, XInv, CopiesInv
    <2>2. Copies(1, n + 1) = Copies(1, n) \union Key(n + 1) \union Value(n + 1)
      BY <1>1, CopiesEnds
    <2> HIDE DEF n, cells
    <2>3. /\ result' = SubSeq(Rest, 1, n + 1) /\ Len(result') = n + 1
          /\ n + 1 \in 0 .. Len(Rest)
      BY <1>1, <2>1
    <2>4. Copying'
      BY <1>0, <1>1, <1>B, <2>1, <2>3 DEF Copying
    <2>5. heap' = cells \union Copies(1, n + 1)
      BY <2>1, <2>2
    <2>6. CopiesInv'
      BY <1>0, <2>1, <2>3, <2>4, <2>5 DEF CopiesInv, cells
    <2> QED
      BY <1>0, <2>1, <2>6, InsideStep DEF XInv
  <1>5. CASE ValueFails
    <2>1. /\ pc = "value" /\ pc' = "undo" /\ UNCHANGED <<result, pair_count>>
          /\ fault' = TRUE /\ next' = 1 /\ heap' = heap \ Key(n + 1)
          /\ wild' = (wild \/ ~(Key(n + 1) \subseteq heap))
          /\ heap = cells \union Copies(1, n) \union Key(n + 1)
      BY <1>5 DEF ValueFails, Fault, Free, idx, XInv, CopiesInv
    <2>2. Copying' /\ 1 \in 1 .. n + 1
      BY <1>0, <1>1, <1>B, <2>1 DEF Copying
    <2> HIDE DEF cells
    <2>3. heap' = cells \union Copies(1, n) /\ ~wild'
      BY <1>0, <1>A, <2>1
    <2>4. CopiesInv'
      BY <1>0, <2>1, <2>2, <2>3 DEF CopiesInv, cells
    <2> QED
      BY <1>0, <2>1, <2>4, GiveUp DEF XInv
  <1>6. CASE Filled
    <2>1. /\ pc = "key" /\ pc' = "use" /\ UNCHANGED <<result, pair_count, fault>>
          /\ n = Len(Rest) /\ heap' = heap \ Buffer
          /\ wild' = (wild \/ ~(Buffer \subseteq heap))
          /\ heap = cells \union Copies(1, n)
      BY <1>1, <1>6 DEF Filled, Free, Step, XInv, CopiesInv
    <2>2. result = Rest
      BY <1>1, <2>1
    <2>3. heap' = TableCells \union Array \union Copies(1, n) /\ ~wild'
      BY <1>0, <1>A, <2>1
    <2>4. CopiesInv'
      BY <1>0, <1>1, <1>B, <2>1, <2>2, <2>3 DEF CopiesInv
    <2> QED
      BY <1>0, <2>1, <2>4, InsideStep DEF XInv
  <1> QED
    BY <1>2, <1>3, <1>4, <1>5, <1>6

\* The loops that free the copies, and their ends.
LEMMA FreeSteps ==
  ASSUME XInv, FreePair \/ Undone \/ PairsFreed
  PROVE  XInv'
  <1> USE DEF Busy
  <1> DEFINE n == Len(result)
             cells == IF pc = "undo" THEN TableCells \union Buffer \union Array
                                     ELSE TableCells \union PairCells
  <1>0. /\ UNCHANGED <<image, loaded, call, answer, fault>> /\ TableCells' = TableCells
        /\ pc \in {"undo", "free"} /\ pc' \in {pc, "done"} /\ ~wild
        /\ Rest' = Rest /\ (Countable' <=> Countable) /\ PairCells' = PairCells
    <2>1. /\ UNCHANGED <<image, loaded, call, answer, fault>>
          /\ pc \in {"undo", "free"} /\ pc' \in {pc, "done"}
      BY DEF FreePair, Undone, PairsFreed
    <2> QED
      BY <2>1, SamePairs DEF XInv, CopiesInv
  <1>1. /\ Rest \in Seq(Pair) /\ n \in Nat /\ next \in 1 .. n + 1 /\ next \in Nat
        /\ heap = cells \union Copies(next, n)
    <2>1. Rest \in Seq(Pair)
      BY <1>0, OwnFirst DEF XInv, TypesInv, Granted
    <2>2. n \in Nat
      BY <1>0, <2>1 DEF XInv, CopiesInv, Copying
    <2>3. next \in 1 .. n + 1 /\ heap = cells \union Copies(next, n)
      BY <1>0 DEF XInv, CopiesInv
    <2> QED
      BY <2>1, <2>2, <2>3
  <1>2. /\ Copies(next, n) \intersect cells = {}
        /\ TableCells \intersect (Buffer \union Array) = {}
    BY <1>1, CellsApart DEF TableCells, LoadedTable, PairCells
  <1>3. TypesInv' /\ GetOwn' /\ ListOwn'
    <2>1. TypesInv' /\ (pc = "undo" => fault = TRUE)
      BY <1>0, SamePairs DEF XInv, TypesInv, Loading, Granted
    <2> QED
      BY <1>0, <2>1, SamePairs DEF XInv, GetOwn, ListOwn, Answered, answer
  <1>4. CASE FreePair
    <2> DEFINE pair == Key(next) \union Value(next)
    <2>1. /\ next <= n /\ heap' = heap \ pair /\ wild' = (wild \/ ~(pair \subseteq heap))
          /\ next' = next + 1 /\ UNCHANGED <<pc, result, pair_count>>
      BY <1>4 DEF FreePair, Free
    <2>2. pair \subseteq Copies(next, n) /\ Copies(next, n) \ pair = Copies(next + 1, n)
      BY <1>1, <2>1, CopiesEnds
    <2>3. next + 1 \in 1 .. n + 1
      BY <1>1, <2>1
    <2> HIDE DEF pair, cells
    <2>4. heap' = cells \union Copies(next + 1, n) /\ ~wild'
      BY <1>0, <1>1, <1>2, <2>1, <2>2
    <2>5. Copying' <=> Copying
      BY <1>0, <2>1 DEF Copying
    <2>6. CopiesInv'
      BY <1>0, <2>1, <2>3, <2>4, <2>5 DEF XInv, CopiesInv, cells
    <2> QED
      BY <1>3, <2>6 DEF XInv
  <1>5. CASE Undone
    <2>1. /\ pc = "undo" /\ pc' = "done" /\ next > n /\ result' = <<>>
          /\ heap' = heap \ (Array \union Buffer)
          /\ wild' = (wild \/ ~(Array \union Buffer \subseteq heap))
      BY <1>5 DEF Undone, Free
    <2>2. Copies(next, n) = {}
      BY <1>1, <2>1, CopiesEnds
    <2>3. heap' = TableCells /\ ~wild'
      BY <1>0, <1>1, <1>2, <2>1, <2>2
    <2>4. CopiesInv'
      BY <1>0, <2>1, <2>3 DEF CopiesInv
    <2> QED
      BY <1>3, <2>4 DEF XInv
  <1>6. CASE PairsFreed
    <2>1. /\ pc = "free" /\ pc' = "done" /\ next > n /\ result' = <<>>
          /\ heap' = heap \ (IF result = <<>> THEN {} ELSE Array)
          /\ wild' = (wild \/ ~((IF result = <<>> THEN {} ELSE Array) \subseteq heap))
      BY <1>6 DEF PairsFreed, Free
    <2>2. Copies(next, n) = {} /\ result = Rest
      BY <1>1, <2>1, CopiesEnds DEF XInv, CopiesInv
    <2>3. heap' = TableCells /\ ~wild'
      BY <1>0, <1>1, <1>2, <2>1, <2>2 DEF PairCells
    <2>4. CopiesInv'
      BY <1>0, <2>1, <2>3 DEF CopiesInv
    <2> QED
      BY <1>3, <2>4 DEF XInv
  <1> QED
    BY <1>4, <1>5, <1>6

\* What the answers have in common.
LEMMA ReturnStep ==
  ASSUME XInv, pc = "use", NEW r, Return(r)
  PROVE  /\ TypesInv' /\ CopiesInv'
         /\ result = Rest /\ Rest' = Rest /\ Own' = Own /\ ret' = r /\ Granted
         /\ UNCHANGED call /\ image \in Images
  <1>1. /\ pc' = "free" /\ ret' = r /\ next' = 1
        /\ UNCHANGED <<image, loaded, call, result, pair_count, heap, wild, fault>>
    BY DEF Return, memory
  <1>2. Rest' = Rest /\ Own' = Own /\ (Countable' <=> Countable) /\ PairCells' = PairCells
        /\ TableCells' = TableCells /\ Calls' = Calls
    BY <1>1, SamePairs
  <1>3. Granted /\ image \in Images /\ result = Rest
    BY DEF XInv, TypesInv, CopiesInv, Busy
  <1>4. TypesInv'
    BY <1>1, <1>2, <1>3 DEF XInv, TypesInv, Busy, Loading, Granted
  <1>5. 1 \in 1 .. Len(result) + 1
    <2>1. Len(result) \in Nat
      BY <1>3, OwnFirst DEF Granted
    <2> QED
      BY <2>1
  <1>6. CopiesInv'
    BY <1>1, <1>2, <1>5 DEF XInv, CopiesInv
  <1> QED
    BY <1>1, <1>2, <1>3, <1>4, <1>6

LEMMA GetStep ==
  ASSUME XInv, Get
  PROVE  XInv'
  <1>0. PICK r : Return(r) /\ pc = "use" /\ call.op = "get"
    BY DEF Get
  <1>1. /\ TypesInv' /\ CopiesInv' /\ result = Rest /\ Own' = Own /\ Granted
        /\ UNCHANGED call /\ image \in Images
    BY <1>0, ReturnStep
  <1>2. /\ Rest \in Seq(Pair) /\ Own \in Seq(Pair) /\ Len(Own) <= Len(Rest)
        /\ \A i \in 1 .. Len(Own) : Own[i] = Rest[i]
    BY <1>1, OwnFirst DEF Granted
  <1>3. ListOwn'
    BY <1>0, <1>1 DEF ListOwn, Answered
  <1>4. ASSUME NEW i \in DOMAIN Own, Own[i].key = call.key,
               \A j \in 1 .. i - 1 : Own[j].key # call.key
        PROVE  /\ out_size' = Own[i].size
               /\ ret' = (IF call.size = None \/ call.size >= Own[i].size THEN "ok" ELSE "overflow")
               /\ ret' = "ok" /\ call.size # None => out' = <<Own[i].value>>
    <2> DEFINE S == {j \in DOMAIN result : result[j].key = call.key}
    <2>1. i \in S /\ \A j \in S : i <= j
      BY <1>1, <1>2, <1>4
    <2>2. S \subseteq Nat
      BY <1>1, <1>2
    <2>3. Match(call.key) = i
      <3>1. Match(call.key) = CHOOSE x \in S : \A y \in S : x <= y
        BY DEF Match, Min
      <3> HIDE DEF S
      <3>2. ASSUME NEW x \in S, \A y \in S : x <= y PROVE x = i
        <4>1. x <= i /\ i <= x /\ x \in Nat /\ i \in Nat
          BY <2>1, <2>2, <3>2
        <4> QED
          BY <4>1
      <3> QED
        BY <2>1, <3>1, <3>2
    <2> DEFINE p == Own[i]
    <2>4. result[Match(call.key)] = p /\ p.size \in Nat
      <3>1. p \in Pair /\ result[i] = p
        BY <1>1, <1>2
      <3> QED
        BY <2>3, <3>1 DEF Pair
    <2>5. /\ out_size' = p.size
          /\ out' = IF call.size >= p.size THEN <<p.value>> ELSE <<>>
          /\ Return(IF call.size # None /\ call.size < p.size THEN "overflow" ELSE "ok")
      BY <2>1, <2>4 DEF Get
    <2>6. ret' = IF call.size # None /\ call.size < p.size THEN "overflow" ELSE "ok"
      BY <1>0, <2>5, ReturnStep
    <2>7. call.size \in Int
      <3> DEFINE A == Sizes \union {None}
      <3>1. call.size \in A
        <4>1. \A c \in Calls : c.size \in A
          <5> HIDE DEF A
          <5>1. Calls = [op : {"get"}, idx : None .. Len(image.entries), key : Keys, size : A]
                          \union [op : {"list"}, idx : None .. Len(image.entries),
                                  key : {"none"}, size : A]
            BY DEF Calls, A
          <5> QED
            BY <5>1
        <4> QED
          BY <1>1, <4>1 DEF Granted
      <3>2. \A x \in A : x \in Int
        <4>1. None \in Int
          BY DEF None
        <4>2. Sizes \subseteq Int
          BY XattrConstants
        <4> QED
          BY <4>1, <4>2
      <3> HIDE DEF A
      <3> QED
        BY <3>1, <3>2
    <2> HIDE DEF p
    <2>8. call.size < p.size <=> ~(call.size >= p.size)
      BY <2>4, <2>7
    <2> QED
      BY <2>5, <2>6, <2>8 DEF p
  <1>5. GetOwn'
    BY <1>1, <1>4 DEF GetOwn
  <1> QED
    BY <1>1, <1>3, <1>5 DEF XInv

LEMMA ListStep ==
  ASSUME XInv, List
  PROVE  XInv'
  <1> DEFINE fits == call.size >= TotalSize
  <1>0. /\ pc = "use" /\ call.op = "list"
        /\ out' = IF call.size # None /\ fits THEN ListedKeys ELSE <<>>
        /\ Return(IF call.size = None \/ fits THEN "ok" ELSE "overflow")
    BY DEF List
  <1>1. /\ TypesInv' /\ CopiesInv' /\ result = Rest /\ Own' = Own /\ Granted
        /\ ret' = (IF call.size = None \/ fits THEN "ok" ELSE "overflow")
        /\ UNCHANGED call /\ image \in Images
    BY <1>0, ReturnStep
  <1>2. /\ Rest \in Seq(Pair) /\ Own \in Seq(Pair) /\ Len(Own) <= Len(Rest)
        /\ \A i \in 1 .. Len(Own) : Own[i] = Rest[i]
    BY <1>1, OwnFirst DEF Granted
  <1>3. GetOwn'
    BY <1>0, <1>1 DEF GetOwn, Answered
  <1>4. ASSUME ret' = "ok", call.size # None
        PROVE  /\ Len(out') >= Len(Own) /\ \A i \in DOMAIN Own : out'[i] = Own[i].key
               /\ call.size >= NameBytes(out')
    <2>1. out' = ListedKeys /\ fits
      BY <1>0, <1>1, <1>4
    <2>2. ListedKeys \in Seq(DOMAIN KeyLen) /\ Len(ListedKeys) = Len(Rest)
      <3>1. ASSUME NEW i \in 1 .. Len(Rest) PROVE Rest[i].key \in DOMAIN KeyLen
        <4>1. Rest[i] \in Pair
          BY <1>2
        <4> QED
          BY <4>1 DEF Pair
      <3> QED
        BY <1>1, <1>2, <3>1 DEF ListedKeys
    <2>3. \A i \in DOMAIN Own : ListedKeys[i] = Own[i].key
      BY <1>1, <1>2 DEF ListedKeys
    <2> QED
      BY <1>2, <2>1, <2>2, <2>3 DEF TotalSize
  <1>5. ListOwn'
    BY <1>1, <1>4 DEF ListOwn
  <1> QED
    BY <1>1, <1>3, <1>5 DEF XInv

LEMMA DoneStep ==
  ASSUME XInv, Done
  PROVE  XInv'
  <1>1. /\ pc = "done" /\ pc' = "idle" /\ fault' = FALSE
        /\ UNCHANGED <<image, loaded, result, heap, wild>>
    BY DEF Done, memory
  <1>2. TableCells' = TableCells
    BY <1>1 DEF TableCells, LoadedTable
  <1> QED
    BY <1>1, <1>2
       DEF XInv, TypesInv, CopiesInv, Busy, Loading, GetOwn, ListOwn, Answered

LEMMA XNext == XInv /\ [Next]_vars => XInv'
  <1> SUFFICES ASSUME XInv, [Next]_vars PROVE XInv'
    OBVIOUS
  <1>1. CASE UNCHANGED vars
    <2>0. UNCHANGED <<image, loaded, pc, call, result, pair_count, next, ret, out_size, out,
                      heap, wild, fault>>
      BY <1>1 DEF vars, answer, memory
    <2>1. TypesInv' /\ CopiesInv'
      BY <2>0, SamePairs DEF XInv, TypesInv, CopiesInv, Granted, Copying
    <2>2. GetOwn' /\ ListOwn'
      BY <2>0, SamePairs DEF XInv, GetOwn, ListOwn, Answered
    <2> QED
      BY <2>1, <2>2 DEF XInv
  <1> QED
    BY <1>1, LoadStep, DestroyStep, CallStep, CountSteps, FillSteps, FreeSteps, GetStep, ListStep,
       DoneStep DEF Next

LEMMA XInvariant == Spec => []XInv
  BY XInit, XNext, PTL DEF Spec

\* Between two calls exactly the table is allocated, and nothing is freed that is
\* not: whatever fails, after however many pairs (sqfs_xattr_table_load,
\* read_xattr_pairs, free_xattr_pairs).
THEOREM OnlyTableKept == Spec => []OnlyTheTable
  <1>1. XInv => OnlyTheTable
    BY DEF XInv, CopiesInv, OnlyTheTable, TableCells
  <1> QED
    BY <1>1, XInvariant, PTL

\* An attribute of the inode is found with its own value, however many pairs of
\* other inodes with the same name follow in the block.
THEOREM GetCorrect == Spec => []GetOwn
  BY XInvariant, PTL DEF XInv

\* The inode's own names come first in the list, complete and in order, and the
\* list fits the caller's buffer.
THEOREM ListCorrect == Spec => []ListOwn
  BY XInvariant, PTL DEF XInv

=============================================================================
