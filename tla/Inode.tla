------------------------------- MODULE Inode -------------------------------
(***************************************************************************)
(* Inodes (src/core/inode.c), over the table of Metadata:                  *)
(*   - sqfs_inode_get_by_ref, in up to three rounds: the header, the fixed *)
(*     part of an inode of variable size, all of it; then the structure    *)
(*     and, for files with blocks and symbolic links, an array are         *)
(*     allocated and filled;                                               *)
(*   - sqfs_inode_load, by number, through the export table, of which the  *)
(*     last block used is kept in static variables;                        *)
(*   - sqfs_inode_free, by the caller, when it is done with the inode.     *)
(* The export table lists the offsets of the inodes in the stream, in      *)
(* metadata blocks of REFS_PER_BLOCK references.                           *)
(***************************************************************************)
EXTENDS Metadata, SequencesExt

CONSTANTS
  HEADER,      \* bytes of the common inode header
  Inodes(_)    \* [who: "inode", at, size, fixed: bytes needed to know the size,
               \* kind]: the inodes a table of a given size may have, of kind
               \* "file", "symlink", "plain" or, of a type that is none, "bad"

\* table.inodes: the inodes of an image with an export table, by number;
\* table.exports: the stored sizes of the table's blocks, 0 for a raw one, and
\* Absent for an invalid position in the list of blocks.
Absent == -1

\* 1024: the bytes of a block, counted in references.
REFS_PER_BLOCK == META_BLOCK_SIZE

ASSUME HeaderSize == HEADER \in Nat \ {0}

\* What an inode may be: at least a header; where all of it has to be read to know
\* the size, the part to be read first is part of it.
IsInode(i, n) ==
  /\ i.who = "inode" /\ i.at \in 0 .. n /\ i.size \in Nat
  /\ HEADER <= i.size /\ i.fixed \in 0 .. i.size

\* The references of an export table lead to inodes of the table, one at a place.
ASSUME InodeTables ==
  \A t \in Tables :
    /\ \A i \in Inodes(t.size) : IsInode(i, t.size)
    /\ Len(t.inodes) \in Nat /\ DOMAIN t.inodes = 1 .. Len(t.inodes)
    /\ \A m \in DOMAIN t.inodes : IsInode(t.inodes[m], t.size) /\ t.inodes[m].at < t.size
    /\ \A m, n \in DOMAIN t.inodes :
         t.inodes[m].at = t.inodes[n].at => t.inodes[m] = t.inodes[n]

VARIABLES
  num,    \* the number sqfs_inode_load was given, 0 in a load by reference
  exp,    \* the static block: addr (0 for none), refs, and whether a read that
          \* failed has written over it
  heap,   \* what is allocated of "inode", "block_sizes", "target"; and "lost"
          \* for what no pointer leads to any more
  cut,    \* history: an inode longer than MAX_INODE_SIZE was refused
  wild    \* history: something was freed that is not allocated

inodeVars == <<num, exp, heap, cut, wild>>

InodeInit ==
  /\ Init
  /\ num = 0
  /\ exp = [addr |-> 0, refs |-> <<>>, junk |-> FALSE]
  /\ heap = {} /\ cut = FALSE /\ wild = FALSE

-----------------------------------------------------------------------------
(***************************************************************************)
(* sqfs_inode_get_by_ref                                                   *)
(***************************************************************************)
GetByRef(i) == pc = "idle" /\ Begin(i, "header") /\ UNCHANGED inodeVars

\* read_inode_metadata reads ONE block and refuses what goes beyond it.
Fits(n) == block_offset + n <= Len(MetaReadBlock(pos))

InodeSize == Min2(item.size, META_BLOCK_SIZE)

ReadHeader ==
  /\ pc = "header" /\ Fits(HEADER) /\ item.kind # "bad"
  /\ pc' = IF item.fixed > 0 THEN "fixed" ELSE "full"
  /\ UNCHANGED <<table, item, pos, block_offset, out, ret, io, inodeVars>>

\* Files and symlinks: the part that tells how long the rest is.
ReadFixed ==
  /\ pc = "fixed" /\ Fits(item.fixed)
  /\ pc' = "full"
  /\ UNCHANGED <<table, item, pos, block_offset, out, ret, io, inodeVars>>

\* All of it, capped to MAX_INODE_SIZE.
ReadFull ==
  /\ pc = "full" /\ Fits(InodeSize)
  /\ out' = SubSeq(MetaReadBlock(pos), block_offset + 1, block_offset + InodeSize)
  /\ pc' = "alloc"
  /\ UNCHANGED <<table, item, pos, block_offset, ret, io, inodeVars>>

\* No block, or the bounds check of read_inode_metadata, in each of the rounds;
\* and a type that is none.
BadInode ==
  /\ \/ pc = "header" /\ (~Fits(HEADER) \/ item.kind = "bad")
     \/ pc = "fixed" /\ ~Fits(item.fixed)
     \/ pc = "full" /\ ~Fits(InodeSize)
  /\ Finish("corrupt")
  /\ UNCHANGED <<pos, out, inodeVars>>

Allocate(things) == heap' = heap \union things /\ UNCHANGED wild

Free(things) ==
  /\ heap' = heap \ things
  /\ wild' = (wild \/ ~(things \subseteq heap))

\* pread fails in one of the rounds, or the allocation of the structure.
InodeError ==
  /\ pc \in {"header", "fixed", "full", "alloc"}
  /\ pc' = "done" /\ ret' = "corrupt" /\ io' = TRUE
  /\ UNCHANGED <<table, item, pos, block_offset, out, inodeVars>>

AllocInode ==
  /\ pc = "alloc"
  /\ Allocate({"inode"})
  /\ pc' = "parse"
  /\ UNCHANGED <<table, item, pos, block_offset, out, ret, io, num, exp, cut>>

\* What parse_inode allocates beside the structure.
Arrays(i) ==
  CASE i.kind = "file" /\ i.size > i.fixed -> {"block_sizes"}
    [] i.kind = "symlink" -> {"target"}
    [] OTHER -> {}

\* The array is allocated and filled from raw_inode.
Parse ==
  /\ pc = "parse"
  /\ Allocate(Arrays(item))
  /\ pc' = "check"
  /\ UNCHANGED <<table, item, pos, block_offset, out, ret, io, num, exp, cut>>

\* What an inode longer than raw_inode is filled from lies behind it on the stack:
\* the copy may go wrong there and end the process.
ParseOverruns ==
  /\ pc = "parse" /\ item.size > InodeSize
  /\ Allocate(Arrays(item))
  /\ pc' = "crashed"
  /\ UNCHANGED <<table, item, pos, block_offset, out, ret, io, num, exp, cut>>

\* Mutant: the structure is not given back.
ParseKeepsStructure ==
  /\ pc = "parse" /\ Arrays(item) # {}
  /\ pc' = "done" /\ ret' = "corrupt" /\ io' = TRUE
  /\ UNCHANGED <<table, item, pos, block_offset, out, inodeVars>>

\* The array cannot be allocated: sqfs_inode_get_by_ref frees the structure.
ParseNoMemory ==
  /\ pc = "parse" /\ Arrays(item) # {}
  /\ Free({"inode"})
  /\ pc' = "done" /\ ret' = "corrupt" /\ io' = TRUE
  /\ UNCHANGED <<table, item, pos, block_offset, out, num, exp, cut>>

\* Mutant: what parse_inode consumed is not compared with what was read.
ParseUnchecked ==
  /\ pc = "check"
  /\ Finish("ok")
  /\ UNCHANGED <<pos, out, inodeVars>>

\* What parse_inode consumed was all read.
ParseEnds ==
  /\ pc = "check" /\ item.size <= InodeSize
  /\ Finish("ok")
  /\ UNCHANGED <<pos, out, inodeVars>>

\* It was not: sqfs_inode_get_by_ref frees the structure alone, and the array is
\* out of reach.
ParseRefuses ==
  /\ pc = "check" /\ item.size > InodeSize
  /\ heap' = (heap \ ({"inode"} \union Arrays(item))) \union
                (IF Arrays(item) = {} THEN {} ELSE {"lost"})
  /\ wild' = (wild \/ "inode" \notin heap)
  /\ cut' = TRUE
  /\ Finish("corrupt")
  /\ UNCHANGED <<pos, out, num, exp>>

\* The process has ended.
Crashed == pc = "crashed" /\ UNCHANGED <<vars, inodeVars>>

-----------------------------------------------------------------------------
(***************************************************************************)
(* sqfs_inode_load                                                         *)
(***************************************************************************)
ExportBlock(n) == ((n - 1) \div REFS_PER_BLOCK) + 1
IndexInBlock(n) == (n - 1) % REFS_PER_BLOCK

\* The references in block b of the export table.
Refs(b) ==
  LET first == (b - 1) * REFS_PER_BLOCK
  IN  [j \in 1 .. Min2(REFS_PER_BLOCK, Len(table.inodes) - first) |->
         table.inodes[first + j].at]

Load(n) ==
  /\ pc = "idle"
  /\ num' = n
  /\ IF n = 0 \/ table.inodes = <<>>
       THEN pc' = "done" /\ ret' = "not_found"
       ELSE pc' = "export" /\ UNCHANGED ret
  /\ UNCHANGED <<table, item, pos, block_offset, out, io, exp, heap, cut, wild>>

\* The block of the export table has a position, and comes out.
Listed(b) == table.exports[b] # Absent
BlockReadable(b) == Listed(b) /\ InPlace(Len(Refs(b)), table.exports[b])

ExportAbsent ==
  /\ pc = "export" /\ ~Listed(ExportBlock(num))
  /\ Finish("not_found")
  /\ UNCHANGED <<pos, out, inodeVars>>

\* Mutant: the address of the block kept is not written down.
ExportReadForgets ==
  /\ pc = "export" /\ exp.addr # ExportBlock(num)
  /\ BlockReadable(ExportBlock(num))
  /\ exp' = [exp EXCEPT !.addr = IF @ = 0 THEN ExportBlock(num) ELSE @,
                        !.refs = Refs(ExportBlock(num)), !.junk = FALSE]
  /\ pc' = "ref"
  /\ UNCHANGED <<table, item, pos, block_offset, out, ret, io, num, heap, cut, wild>>

\* The block is another one than the last time.
ExportRead ==
  /\ pc = "export" /\ exp.addr # ExportBlock(num)
  /\ BlockReadable(ExportBlock(num))
  /\ exp' = [addr |-> ExportBlock(num), refs |-> Refs(ExportBlock(num)), junk |-> FALSE]
  /\ pc' = "ref"
  /\ UNCHANGED <<table, item, pos, block_offset, out, ret, io, num, heap, cut, wild>>

ExportHit ==
  /\ pc = "export" /\ exp.addr = ExportBlock(num)
  /\ pc' = "ref"
  /\ UNCHANGED <<table, item, pos, block_offset, out, ret, io, inodeVars>>

\* The list of block positions cannot be read, or the buffer not allocated; or
\* the read of another block fails with part of it in the static buffer, whose
\* address and size stay those of the block before.
ExportFails ==
  /\ pc = "export"
  /\ \/ io' = TRUE /\ UNCHANGED exp
     \/ /\ exp.addr # ExportBlock(num) /\ Listed(ExportBlock(num))
        /\ io' \in {TRUE, BlockReadable(ExportBlock(num))}
        /\ exp' = [exp EXCEPT !.junk = TRUE]
  /\ pc' = "done" /\ ret' = "corrupt"
  /\ UNCHANGED <<table, item, pos, block_offset, out, num, heap, cut, wild>>

\* The reference at the inode's place; one that was written over leads to any
\* inode of the table or to none.
FollowRef ==
  /\ pc = "ref" /\ IndexInBlock(num) < Len(exp.refs)
  /\ \E i \in ToSet(table.inodes) :
       /\ exp.junk \/ i.at = exp.refs[IndexInBlock(num) + 1]
       /\ Begin(i, "header")
  /\ UNCHANGED inodeVars

NoRef ==
  /\ pc = "ref"
  /\ IF IndexInBlock(num) < Len(exp.refs)
       THEN exp.junk /\ Finish("corrupt") ELSE Finish("not_found")
  /\ UNCHANGED <<pos, out, inodeVars>>

-----------------------------------------------------------------------------
\* What sqfs_inode_free gives back of an inode: the array of a file if there is
\* one, the target of a symbolic link, the structure.
Freed ==
  (heap \intersect {"block_sizes"})
    \union (IF item.kind = "symlink" THEN {"target"} ELSE {}) \union {"inode"}

\* The caller has used the inode, if it got one, and frees it.
InodeDone ==
  /\ Done
  /\ IF item.who = "inode" /\ ret = "ok" THEN Free(Freed) ELSE UNCHANGED <<heap, wild>>
  /\ num' = 0
  /\ UNCHANGED <<exp, cut>>

InodeNext ==
  \/ Reading /\ UNCHANGED inodeVars
  \/ \E i \in Inodes(table.size) : GetByRef(i)
  \/ ReadHeader \/ ReadFixed \/ ReadFull \/ BadInode \/ InodeError
  \/ AllocInode \/ Parse \/ ParseOverruns \/ ParseNoMemory \/ ParseEnds \/ ParseRefuses
  \/ \E n \in 0 .. Len(table.inodes) + 1 : Load(n)
  \/ ExportAbsent \/ ExportRead \/ ExportHit \/ ExportFails \/ FollowRef \/ NoRef
  \/ InodeDone \/ Crashed

InodeSpec == InodeInit /\ [][InodeNext]_<<vars, inodeVars>>

-----------------------------------------------------------------------------
\* An inode that claims more bytes than the table has left is refused, in
\* whichever round finds out: it is never completed with the next table's bytes
\* (read_inode_metadata, parse_inode).
InodeInBounds ==
  pc = "done" /\ item.who = "inode" /\ item.at < table.size /\ ~Whole => ret = "corrupt"

\* The inode loaded by a number is the one the export table has under it, from
\* whichever block the loads before have left in the static buffer, as long as
\* no read has failed since it was filled (sqfs_inode_load).
LoadFindsInode ==
  pc = "done" /\ ret = "ok" /\ num > 0 /\ ~exp.junk =>
    out = [j \in 1 .. table.inodes[num].size |-> table.inodes[num].at + j]

\* Between two calls nothing that sqfs_inode_get_by_ref allocated is left,
\* whichever allocation failed and whatever the inode has beside its structure,
\* unless an inode longer than MAX_INODE_SIZE was refused; and on no exit is
\* anything freed that is not allocated (sqfs_inode_get_by_ref, sqfs_inode_free).
InodesOwned ==
  /\ ~wild
  /\ pc = "idle" => heap \subseteq (IF cut THEN {"lost"} ELSE {})

\* parse_inode fills the arrays from what was read, also for an inode that is
\* longer than the buffer.
\* (The code does not keep this: README, section 6.)
NeverOverread == pc # "crashed"

\* An inode in one block of the table can be loaded unless the device or memory
\* fails, also from a full block (sqfs_meta_read_block, read_inode_metadata).
\* (The code does not keep this: README, section 6.)
OneBlockInodesLoad ==
  pc = "done" /\ ~io /\ item.who = "inode" /\ item.kind # "bad" /\ Whole /\ OneBlock => ret = "ok"

\* Every inode of the table can be loaded, also one that crosses the end of a
\* metadata block.
\* (The code does not keep this: README, section 6.)
InodesLoad ==
  pc = "done" /\ ~io /\ item.who = "inode" /\ item.kind # "bad" /\ Whole => ret = "ok"

\* The inode loaded by a number is its own, also after a failed read.
\* (The code does not keep this: README, section 6.)
LoadNeverConfused ==
  pc = "done" /\ ret = "ok" /\ num > 0 =>
    out = [j \in 1 .. table.inodes[num].size |-> table.inodes[num].at + j]

\* Nothing is left, also of an inode that was refused for its length.
\* (The code does not keep this: README, section 6.)
InodesReleased == pc = "idle" => heap = {}

=============================================================================
