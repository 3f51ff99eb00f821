------------------------------ MODULE DataRead ------------------------------
(***************************************************************************)
(* sqfs_data_read (src/core/data.c): one file, read at any offset and in   *)
(* any length through its data blocks, its holes and its tail, which is    *)
(* either a short last block or a piece of a fragment block.               *)
(*                                                                         *)
(* The image is what mksquashfs wrote: the file's stored blocks, one after *)
(* the other, in the data area, and a fragment block shared by several     *)
(* files.  A byte of the file that is not in a hole is its own position,   *)
(* counted from 1; a byte of a hole is 0.  A cell of the data area is      *)
(* <<block, position in the block>>: what a decompressor makes of a run of *)
(* cells depends on the whole run, so it yields the block's bytes only for *)
(* exactly that block's cells.                                             *)
(*                                                                         *)
(* The data cache is LossyMap seen by one reader: it may hold a block this *)
(* reader put and lose it at any time.  Cache and BlockCache model it.     *)
(***************************************************************************)
EXTENDS Integers, Sequences, Sums

CONSTANTS
  block_size,  \* of the superblock
  Files,       \* the files (inode and stored bytes) that may be read
  Offsets,     \* arguments of a read
  Lengths,
  Junk         \* what uninitialised memory holds

ASSUME BlockSizePositive == block_size \in Nat \ {0}
ASSUME ReadBounds == Offsets \subseteq Nat /\ Lengths \subseteq Nat

\* A block has a size on disk; of a raw block that is the number of its bytes.
ASSUME FileTypes ==
  \A f \in Files :
    /\ f.file_size \in Nat /\ f.frag \in BOOLEAN /\ f.frag_offset \in Nat
    /\ Len(f.fragment) \in Nat
    /\ Len(f.block_sizes) \in Nat /\ DOMAIN f.block_sizes = 1 .. Len(f.block_sizes)
    /\ \A b \in DOMAIN f.block_sizes :
         /\ f.block_sizes[b].len \in Nat /\ f.block_sizes[b].room \in Nat
         /\ f.block_sizes[b].raw /\ f.block_sizes[b].len > 0 =>
              Len(f.stored[b]) = f.block_sizes[b].len

VARIABLES
  file,             \* [file_size, frag, frag_offset, block_sizes (of records
                    \* [len, raw, room]), stored, fragment, frag_room]; room is
                    \* 0 for a raw block, else what the decompressor needs of
                    \* the buffer behind its output
  cached,           \* block position -> bytes, for the blocks in the data cache
  offset, size,     \* arguments of the read in progress
  bytes_read, bytes_remaining,
  out,              \* the caller's buffer, as far as it is filled
  pc,               \* "idle", "loop" or "done"
  ret,              \* "ok"; "fault": device or memory failed; "block": a block
                    \* did not come out (to the caller both are an error)
  zeroed            \* history: why this read answered zeros for its fragment:
                    \* "no" (it did not), "fault", "block"

request == <<offset, size>>
vars == <<file, cached, request, bytes_read, bytes_remaining, out, pc, ret, zeroed>>

Minimum(m, n) == IF m < n THEN m ELSE n

-----------------------------------------------------------------------------
(***************************************************************************)
(* The layout of a file.                                                   *)
(***************************************************************************)
\* calculate_block_layout: a tail that is not in a fragment is one more block.
BlockCount(f) ==
  f.file_size \div block_size
    + (IF f.file_size % block_size > 0 /\ ~f.frag THEN 1 ELSE 0)

\* The size on disk of every block; a hole has none.
StoredSizes(f) == [b \in DOMAIN f.block_sizes |-> f.block_sizes[b].len]

\* Mutant: holes are counted as if they were stored.
PosCountingHoles(f, idx) ==
  Total([b \in DOMAIN f.block_sizes |->
           IF f.block_sizes[b].len = 0 THEN 1 ELSE f.block_sizes[b].len], idx)

\* sqfs_file_block_location: the stored sizes of all earlier blocks, added up
\* (from blocks_start, here 0).  Blocks are numbered from 0, sequences from 1.
BlockPos(f, idx) == Total(StoredSizes(f), idx)

\* The data area: the cells of the stored blocks in order.
Cells(f) ==
  UNION {{b} \X (1 .. f.block_sizes[b].len) : b \in DOMAIN f.block_sizes}

DataArea(f) ==
  [p \in 1 .. Total(StoredSizes(f), Len(f.block_sizes)) |->
     CHOOSE c \in Cells(f) : Total(StoredSizes(f), c[1] - 1) + c[2] = p]

\* A compressed block is read into the end of the buffer it is decompressed to,
\* of block_size bytes: what it needs there must not be written over.  A block
\* that is longer than that on disk has a buffer of its own.
BlockInPlace(n, word) == word.len > block_size \/ n + word.room <= block_size

\* sqfs_data_read_block: pread at pos and, unless the block is stored raw,
\* decompression.  <<>> stands for an error: the file ends early, the run of
\* cells is not a block's, or the output runs over the input.
ReadBlock(f, pos, word) ==
  LET area == DataArea(f)
      run  == SubSeq(area, pos + 1, pos + word.len)
      blk  == run[1][1]
  IN  IF pos + word.len > Len(area)
        THEN <<>>
        ELSE IF word.raw
          THEN [j \in 1 .. word.len |-> f.stored[run[j][1]][run[j][2]]]
          ELSE IF /\ run = [j \in 1 .. f.block_sizes[blk].len |-> <<blk, j>>]
                  /\ BlockInPlace(Len(f.stored[blk]), word)
            THEN f.stored[blk]
            ELSE <<>>

-----------------------------------------------------------------------------
Init ==
  /\ file \in Files
  /\ cached = [p \in {} |-> <<>>]
  /\ offset = 0 /\ size = 0
  /\ bytes_read = 0 /\ bytes_remaining = 0
  /\ out = <<>>
  /\ pc = "idle" /\ ret = "ok" /\ zeroed = "no"

\* The clamp to the end of the file.
Clamped(o, n) == IF o + n > file.file_size THEN file.file_size - o ELSE n

\* The entry of sqfs_data_read_internal with its early returns: past the end,
\* nothing to read, no memory for block_buf.
Call(o, n) ==
  /\ pc = "idle"
  /\ offset' = o /\ size' = n
  /\ out' = <<>> /\ bytes_read' = 0 /\ zeroed' = "no"
  /\ UNCHANGED <<file, cached>>

ReadNothing(o, n) ==
  /\ Call(o, n)
  /\ o >= file.file_size \/ Clamped(o, n) = 0
  /\ bytes_remaining' = 0
  /\ pc' = "done" /\ ret' = "ok"

ReadNoMemory(o, n) ==
  /\ Call(o, n)
  /\ o < file.file_size /\ Clamped(o, n) > 0
  /\ bytes_remaining' = 0
  /\ pc' = "done" /\ ret' = "fault"

ReadStart(o, n) ==
  /\ Call(o, n)
  /\ o < file.file_size /\ Clamped(o, n) > 0
  /\ bytes_remaining' = Clamped(o, n)
  /\ pc' = "loop" /\ UNCHANGED ret

\* Where the loop is.
block_idx    == (offset + bytes_read) \div block_size
block_offset == (offset + bytes_read) % block_size

InLoop == pc = "loop" /\ bytes_remaining > 0

\* The loop takes these bytes and goes round.
Take(bytes) ==
  /\ out' = out \o bytes
  /\ bytes_read' = bytes_read + Len(bytes)
  /\ bytes_remaining' = bytes_remaining - Len(bytes)
  /\ UNCHANGED <<file, offset, size, pc, ret, zeroed>>

Fail(why) ==
  /\ pc' = "done" /\ ret' = why
  /\ UNCHANGED <<file, cached, request, bytes_read, bytes_remaining, out, zeroed>>

-----------------------------------------------------------------------------
InFragment == block_idx = BlockCount(file) /\ file.frag

\* The offset in the fragment block that read_from_fragment is given.
TailAt == file.frag_offset + block_offset

\* sqfs_fragment_read: what there is of the fragment block from TailAt on, at
\* most n bytes.  Past the end of its data: zeros up to the block size.
FragmentBytes(n) ==
  IF TailAt > Len(file.fragment)
    THEN [j \in 1 .. Minimum(n, block_size - TailAt) |-> 0]
    ELSE SubSeq(file.fragment, TailAt + 1, Minimum(TailAt + n, Len(file.fragment)))

\* sqfs_fragment_read_block reads a compressed block into the end of the buffer
\* it decompresses it to: what it needs there must not be written over.
FragmentInPlace ==
  file.frag_room = 0 \/ Len(file.fragment) + file.frag_room <= block_size

\* The read of the tail ends the loop, however many bytes it gave.
EndWith(bytes) ==
  /\ out' = out \o bytes
  /\ bytes_read' = bytes_read + Len(bytes)
  /\ pc' = "done" /\ ret' = "ok"
  /\ UNCHANGED <<file, cached, request, bytes_remaining>>

ReadTail ==
  /\ InLoop /\ InFragment
  /\ TailAt < block_size /\ FragmentInPlace
  /\ EndWith(FragmentBytes(bytes_remaining))
  /\ UNCHANGED zeroed

\* Mutant: a whole block of zeros is answered.
ZeroWholeBlock ==
  /\ InLoop /\ InFragment
  /\ EndWith([j \in 1 .. block_size |-> 0])
  /\ zeroed' = "fault"

\* sqfs_fragment_read failed (no memory, I/O, the table is not loaded; the
\* offset is beyond a block, the block does not come out): read_from_fragment
\* answers zeros.
ReadTailFailed ==
  /\ InLoop /\ InFragment
  /\ EndWith([j \in 1 .. bytes_remaining |-> 0])
  /\ zeroed' = IF TailAt < block_size /\ FragmentInPlace THEN "fault" ELSE "block"

-----------------------------------------------------------------------------
\* The word of the current block; only evaluated where the block exists.
Word == file.block_sizes[block_idx + 1]
Pos  == BlockPos(file, block_idx)

InBlock == InLoop /\ block_idx < BlockCount(file)

\* How much of a hole the read takes.
HoleLength == Minimum(block_size - block_offset, bytes_remaining)

ReadHole ==
  /\ InBlock /\ Word.len = 0
  /\ Take([j \in 1 .. HoleLength |-> 0])
  /\ UNCHANGED cached

\* A hit only counts when its data reaches the offset.
Hit == Pos \in DOMAIN cached /\ block_offset < Len(cached[Pos])

ReadCached ==
  /\ InBlock /\ Word.len > 0 /\ Hit
  /\ LET n == Minimum(Len(cached[Pos]) - block_offset, bytes_remaining)
     IN  Take(SubSeq(cached[Pos], block_offset + 1, block_offset + n))
  /\ UNCHANGED cached

\* Mutant: the copy stops one byte early.
CopyOneShort(actual) ==
  LET n == Minimum(block_size - block_offset, bytes_remaining)
  IN  IF block_offset >= actual THEN n ELSE Minimum(n, actual - block_offset - 1)

\* What is copied out of block_buf.  actual_size - block_offset is a size_t: of
\* a block that ends before block_offset the copy is not limited by its data,
\* and takes bytes no read has put there.
CopyLength(actual) ==
  LET n == Minimum(block_size - block_offset, bytes_remaining)
  IN  IF block_offset > actual THEN n ELSE Minimum(n, actual - block_offset)

FromBlock(data) ==
  [j \in 1 .. CopyLength(Len(data)) |->
     IF block_offset + j <= Len(data) THEN data[block_offset + j] ELSE Junk]

\* The put after a miss may fail, or another reader may already have evicted it.
ReadMissed ==
  /\ InBlock /\ Word.len > 0 /\ ~Hit
  /\ LET data == ReadBlock(file, Pos, Word) IN
       /\ data # <<>>
       /\ Take(FromBlock(data))
       /\ \/ UNCHANGED cached
          \/ cached' = [p \in DOMAIN cached \union {Pos} |->
                          IF p = Pos THEN data ELSE cached[p]]

\* I/O error, no memory, or a block that does not decompress.
ReadFailed ==
  /\ InBlock /\ Word.len > 0 /\ ~Hit
  /\ Fail(IF ReadBlock(file, Pos, Word) # <<>> THEN "fault" ELSE "block")

\* Another reader's put evicts a block.
Evicted(p) ==
  /\ cached' = [q \in DOMAIN cached \ {p} |-> cached[q]]
  /\ UNCHANGED <<file, offset, size, bytes_read, bytes_remaining, out, pc, ret, zeroed>>

\* The end of the loop.
LoopEnd ==
  /\ pc = "loop" /\ bytes_remaining = 0
  /\ pc' = "done" /\ ret' = "ok"
  /\ UNCHANGED <<file, cached, request, bytes_read, bytes_remaining, out, zeroed>>

\* The reply is with the kernel; the locals are dead.
Replied ==
  /\ pc = "done"
  /\ pc' = "idle"
  /\ UNCHANGED <<file, cached, request, bytes_read, bytes_remaining, out, ret, zeroed>>

Reading ==
  \/ ReadTail \/ ReadTailFailed \/ ReadHole \/ ReadCached \/ ReadMissed \/ ReadFailed
  \/ LoopEnd \/ Replied

Next ==
  \/ \E o \in Offsets, n \in Lengths :
       ReadNothing(o, n) \/ ReadNoMemory(o, n) \/ ReadStart(o, n)
  \/ Reading
  \/ \E p \in DOMAIN cached : Evicted(p)

Spec == Init /\ [][Next]_vars

\* A read that has been started is run to its end.
FairSpec == Spec /\ WF_vars(Reading)

-----------------------------------------------------------------------------
(***************************************************************************)
(* Properties                                                              *)
(***************************************************************************)
\* The file as it was packed: byte number i, from 1.
InHole(f, i) ==
  LET blk == (i - 1) \div block_size
  IN  blk < BlockCount(f) /\ f.block_sizes[blk + 1].len = 0

Content(f) == [i \in 1 .. f.file_size |-> IF InHole(f, i) THEN 0 ELSE i]

\* A file is intact when every stored block is the whole of its stretch of the
\* file and the fragment block holds the tail at frag_offset.
Intact(f) ==
  /\ Len(f.block_sizes) = BlockCount(f)
  /\ \A b \in DOMAIN f.block_sizes : f.block_sizes[b].len > 0 =>
       f.stored[b] = [j \in 1 .. Minimum(block_size, f.file_size - (b - 1) * block_size) |->
                        (b - 1) * block_size + j]
  /\ f.frag =>
       LET tail == f.file_size % block_size
       IN  /\ f.frag_offset + tail <= Len(f.fragment)
           /\ \A j \in 1 .. tail : f.fragment[f.frag_offset + j] = f.file_size - tail + j

\* The bytes a read may return: those of the file from offset on.
Wanted == SubSeq(Content(file), offset + 1, Minimum(offset + size, file.file_size))

\* A read that ends well returned exactly the bytes of the file that were asked
\* for, up to its end: across blocks, holes and the tail, from the image or
\* from the cache, evicted in the middle or not.
ReadIsSlice ==
  pc = "done" /\ ret = "ok" /\ zeroed = "no" /\ Intact(file) => out = Wanted

\* Zeros in the place of a tail that could not be read never spread over bytes
\* that could, and never change the length of the answer.
ZeroedTailOnly ==
  pc = "done" /\ ret = "ok" /\ zeroed # "no" /\ Intact(file) =>
    /\ Len(out) = Len(Wanted)
    /\ \A i \in 1 .. Len(out) :
         out[i] # Wanted[i] => offset + i > block_size * BlockCount(file)

\* A block of an intact file is always read while device and memory work
\* (sqfs_data_read_block, sqfs_data_read_internal).
\* (The code does not keep this: README, section 6.)
BlocksRead == Intact(file) => ret # "block"

\* A tail in an intact fragment block is never answered with zeros while device
\* and memory work (sqfs_fragment_read_block, read_from_fragment).
\* (The code does not keep this: README, section 6.)
TailsRead == Intact(file) => zeroed # "block"

\* Every read comes to an end: each turn of the loop copies something
\* (sqfs_data_read_internal; of a file whose blocks hold less than their stretch
\* of it this does not hold: README, section 6).
ReadsEnd == pc = "loop" ~> pc = "done"

=============================================================================
