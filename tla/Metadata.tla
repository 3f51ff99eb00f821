------------------------------ MODULE Metadata ------------------------------
(***************************************************************************)
(* Reading the metadata tables: a table is one stream of bytes, cut into   *)
(* blocks of META_BLOCK_SIZE bytes (the last may be shorter), each stored  *)
(* behind a two-byte header that gives its stored size.  What starts in    *)
(* one block may go on in the next.  Two readers follow it from block to   *)
(* block:                                                                  *)
(*   - read_directory_data (src/core/directory.c);                         *)
(*   - sqfs_meta_read (src/core/data.c), the general reader.               *)
(* Module Inode adds the third, which reads one block at a time.           *)
(* A byte is its position in the stream, from 1; the bytes of the table    *)
(* that follows in the image, which the readers may run into, are 0.       *)
(***************************************************************************)
EXTENDS Integers, Sequences

CONSTANTS
  META_BLOCK_SIZE,  \* SQFS_META_BLOCK_SIZE, and MAX_INODE_SIZE (both 8192)
  TRAILER,          \* what ends a block compressed by zlib
  Tables,           \* [size: bytes of the stream, comp: "gzip" or "zstd",
                    \* len: stored sizes of its blocks, 0 for a raw one, and,
                    \* if one follows, of the next table's first block,
                    \* start: where these blocks start in the image, and where
                    \* the last of them ends; inodes, exports: see Inode]
  Items(_)          \* what may be asked of a table of a given size

\* The two bytes before every stored block.
BlockHeader == 2

ASSUME MetaSizes == META_BLOCK_SIZE \in Nat \ {0} /\ TRAILER \in Nat \ {0}

Min2(m, n) == IF m < n THEN m ELSE n

\* Where block b of a table starts in the stream, how many bytes it has (a block
\* of the next table is full), and the size in its header.
BlockFirst(b) == (b - 1) * META_BLOCK_SIZE

BlockBytes(t, b) ==
  IF BlockFirst(b) >= t.size THEN META_BLOCK_SIZE
  ELSE Min2(META_BLOCK_SIZE, t.size - BlockFirst(b))

StoredBytes(t, b) == IF t.len[b] = 0 THEN BlockBytes(t, b) ELSE t.len[b]

\* The blocks of a table hold its bytes, and lie one behind the other.
ASSUME MetaTables ==
  \A t \in Tables :
    /\ t.size \in Nat /\ t.len \in Seq(Nat)
    /\ t.size <= Len(t.len) * META_BLOCK_SIZE
    /\ t.start \in [1 .. Len(t.len) + 1 -> Nat]
    /\ \A b \in 1 .. Len(t.len) : t.start[b + 1] = t.start[b] + BlockHeader + StoredBytes(t, b)

\* What the readers of this module are asked for.
ASSUME MetaItems ==
  \A t \in Tables : \A i \in Items(t.size) :
    i.who \in {"dir", "meta"} /\ i.at \in 0 .. t.size /\ i.size \in Nat \ {0}

VARIABLES
  table,
  item,          \* [who, at, size, ...]: what is being read, at its offset
                 \* in the stream
  pos,           \* position in the image of the next block to read
  block_offset,
  out,
  pc,            \* "idle", "first", "next", "turn", "done"
  ret,           \* "ok", "corrupt" (and "not_found" in Inode)
  io             \* history: an I/O or memory error was met

vars == <<table, item, pos, block_offset, out, pc, ret, io>>

-----------------------------------------------------------------------------
(***************************************************************************)
(* The table as mksquashfs wrote it.                                       *)
(***************************************************************************)
\* The bytes of block b, from 1; those of the next table are foreign.
BlockData(b) ==
  [j \in 1 .. BlockBytes(table, b) |-> IF BlockFirst(b) >= table.size THEN 0 ELSE BlockFirst(b) + j]

\* The block whose header is at p: 0 when p is not at a header.
BlockAt(p) ==
  IF \E b \in 1 .. Len(table.len) : table.start[b] = p
    THEN CHOOSE b \in 1 .. Len(table.len) : table.start[b] = p
    ELSE 0

-----------------------------------------------------------------------------
\* What a decompressor needs of the output buffer behind the output, when its
\* input, of len bytes, lies at the buffer's end.  zstd first asks for room for
\* the whole block; inflate goes along until its output meets the checksum it
\* has still to read.
Room(len) == IF table.comp = "zstd" THEN len ELSE TRAILER

\* sqfs_meta_read_block reads a compressed block into the end of the buffer it
\* decompresses it to: a block of that size and stored size comes out whole.
InPlace(size, len) == len = 0 \/ size + Room(len) <= META_BLOCK_SIZE

\* sqfs_meta_read_block: <<>> where there is no block, or it does not come out.
MetaReadBlock(p) ==
  LET b == BlockAt(p)
  IN  IF b # 0 /\ InPlace(Len(BlockData(b)), table.len[b]) THEN BlockData(b) ELSE <<>>

\* read_meta_block: the stored bytes have a buffer of their own.
ReadMetaBlock(p) == IF BlockAt(p) = 0 THEN <<>> ELSE BlockData(BlockAt(p))

\* Mutant: the header is not skipped.
NextWithoutHeader(p) == p + StoredBytes(table, BlockAt(p))

\* The block after the one at p.
NextBlock(p) == p + BlockHeader + StoredBytes(table, BlockAt(p))

\* A metadata reference: where the block starts, and where in its bytes.
RefBlock(at)  == table.start[(at \div META_BLOCK_SIZE) + 1]
RefOffset(at) == at % META_BLOCK_SIZE

-----------------------------------------------------------------------------
Idle == [who |-> "none", at |-> 0, size |-> 0]

Init ==
  /\ table \in Tables
  /\ item = Idle
  /\ pos = 0 /\ block_offset = 0
  /\ out = <<>>
  /\ pc = "idle" /\ ret = "ok" /\ io = FALSE

\* A reader takes the reference of i apart.
Begin(i, label) ==
  /\ item' = i
  /\ pos' = RefBlock(i.at) /\ block_offset' = RefOffset(i.at)
  /\ out' = <<>>
  /\ pc' = label
  /\ UNCHANGED <<table, ret, io>>

FirstStep == [dir |-> "first", meta |-> "turn"]

Start(i) == pc = "idle" /\ Begin(i, FirstStep[i.who])

Finish(r) ==
  /\ pc' = "done" /\ ret' = r
  /\ UNCHANGED <<table, item, block_offset, io>>

\* pread or malloc fails, in whatever the reader does next.
IoError ==
  /\ pc \in {"first", "next", "turn"}
  /\ pc' = "done" /\ ret' = "corrupt" /\ io' = TRUE
  /\ UNCHANGED <<table, item, pos, block_offset, out>>

Done ==
  /\ pc = "done"
  /\ item' = Idle /\ pos' = 0 /\ block_offset' = 0 /\ out' = <<>>
  /\ pc' = "idle" /\ ret' = "ok" /\ io' = FALSE
  /\ UNCHANGED table

-----------------------------------------------------------------------------
(***************************************************************************)
(* read_directory_data                                                     *)
(***************************************************************************)
\* The first block; the data may end in it.
DirFirst ==
  /\ pc = "first"
  /\ block_offset < Len(ReadMetaBlock(pos))
  /\ LET data == ReadMetaBlock(pos)
         n    == Min2(item.size, Len(data) - block_offset)
     IN  /\ out' = SubSeq(data, block_offset + 1, block_offset + n)
         /\ pos' = NextBlock(pos)
         /\ pc' = IF n = item.size THEN "done" ELSE "next"
         /\ UNCHANGED <<table, item, block_offset, ret, io>>

\* Mutant: a later block is read from the offset of the first.
FromOffset(data, n) ==
  SubSeq(data, block_offset + 1, Min2(block_offset + n, Len(data)))

\* A later block is copied from its start.
FromStart(data, n) == SubSeq(data, 1, n)

DirNext ==
  /\ pc = "next"
  /\ ReadMetaBlock(pos) # <<>>
  /\ LET data == ReadMetaBlock(pos)
         n    == Min2(item.size - Len(out), Len(data))
     IN  /\ out' = out \o FromStart(data, n)
         /\ pos' = NextBlock(pos)
         /\ pc' = IF Len(out) + n = item.size THEN "done" ELSE "next"
         /\ UNCHANGED <<table, item, block_offset, ret, io>>

\* No block where one should be, or a first block that ends before the offset.
DirBad ==
  /\ \/ pc = "first" /\ block_offset >= Len(ReadMetaBlock(pos))
     \/ pc = "next" /\ ReadMetaBlock(pos) = <<>>
  /\ Finish("corrupt")
  /\ UNCHANGED <<pos, out>>

-----------------------------------------------------------------------------
(***************************************************************************)
(* sqfs_meta_read: one turn of its loop.                                   *)
(***************************************************************************)
MetaTurn ==
  /\ pc = "turn"
  /\ MetaReadBlock(pos) # <<>>
  /\ LET data == MetaReadBlock(pos)
         n    == Min2(item.size - Len(out), Len(data) - block_offset)
     IN  /\ out' = out \o SubSeq(data, block_offset + 1, block_offset + n)
         /\ IF Len(out) + n = item.size
              THEN pc' = "done" /\ UNCHANGED <<pos, block_offset>>
              ELSE pos' = NextBlock(pos) /\ block_offset' = 0 /\ UNCHANGED pc
         /\ UNCHANGED <<table, item, ret, io>>

MetaBad ==
  /\ pc = "turn"
  /\ MetaReadBlock(pos) = <<>>
  /\ Finish("corrupt")
  /\ UNCHANGED <<pos, out>>

-----------------------------------------------------------------------------
Reading ==
  \/ \E i \in Items(table.size) : Start(i)
  \/ DirFirst \/ DirNext \/ DirBad
  \/ MetaTurn \/ MetaBad
  \/ IoError

Next == Reading \/ Done

Spec == Init /\ [][Next]_vars

-----------------------------------------------------------------------------
Whole == item.at + item.size <= table.size

OneBlock == RefOffset(item.at) + item.size <= META_BLOCK_SIZE

\* The blocks that hold what is asked for, all of which come out in place.
Readable ==
  \A b \in (item.at \div META_BLOCK_SIZE) + 1 ..
           ((item.at + item.size - 1) \div META_BLOCK_SIZE) + 1 :
    InPlace(Len(BlockData(b)), table.len[b])

\* What a reader returns of a table is the stretch of the stream it was asked
\* for, put together across blocks in the right order (read_directory_data,
\* sqfs_meta_read, sqfs_inode_get_by_ref).
StreamSlice ==
  pc = "done" /\ ret = "ok" /\ item.who # "none" /\ Whole =>
    out = [j \in 1 .. item.size |-> item.at + j]

\* Whatever is in the table can be read, in as many blocks as it takes, unless
\* the device or memory fails: a listing always, anything else from blocks that
\* come out of sqfs_meta_read_block, an inode only from one block.
IntactReads ==
  /\ pc = "done" /\ ~io /\ item.who # "none" /\ Whole
  /\ item.who # "dir" => Readable
  /\ item.who = "inode" => OneBlock /\ item.kind # "bad"
  => ret = "ok"

=============================================================================
