------------------------------- MODULE Mount -------------------------------
(***************************************************************************)
(* From main to the unmount (src/fuse/fuse_main.c): the image is opened,   *)
(* init_context acquires the superblock, which sqfs_superblock_load checks *)
(* (src/core/superblock.c), the compressor for it, the four caches,        *)
(* the ID table and the fragment table, in that order, each of which may   *)
(* fail.  Every exit has a list of its own of what it releases, and leads  *)
(* to the caller's: load_id_table to the label error of init_context, that *)
(* to main.  Requests are served once init_context is through;             *)
(* destroy_context undoes it.                                              *)
(*                                                                         *)
(* The two lookup tables are arrays cut into metadata blocks of            *)
(* IDS_PER_BLOCK or FRAGS_PER_BLOCK entries, found through a list of block *)
(* positions.  An entry of a table on disk is its index plus one; 0 is     *)
(* what the program has not filled in.                                     *)
(***************************************************************************)
EXTENDS Integers, Sequences, SequencesExt

CONSTANTS
  IDS_PER_BLOCK,    \* 8192 / 4
  FRAGS_PER_BLOCK,  \* FRAGMENT_ENTRIES_PER_BLOCK, 8192 / 16
  MIN_BLOCK, MAX_BLOCK, \* the block sizes allowed, 4 KiB to 1 MiB
  Images,           \* the superblock: magic, version (whether they are right),
                    \* comp, block_size, block_log, bytes_used, file_size,
                    \* no_frags (the flag), frag_table (whether the position is
                    \* valid), ids, frags; and the image: tail (what follows the
                    \* ID table's position list, in list entries), id_room,
                    \* frag_room (of the blocks of a table: 0 when they are raw,
                    \* else the entries' worth of buffer their decompression
                    \* needs behind its output: InPlace of Metadata)
  NoCache           \* the values --nocache may have

ASSUME MountSizes ==
  /\ IDS_PER_BLOCK \in Nat \ {0} /\ FRAGS_PER_BLOCK \in Nat \ {0}
  /\ MIN_BLOCK \in Nat \ {0} /\ MAX_BLOCK \in Nat

\* The numbers of the superblock.
ASSUME ImageTypes ==
  \A i \in Images :
    /\ {i.block_size, i.block_log, i.bytes_used, i.file_size} \subseteq Nat
    /\ {i.ids, i.frags, i.tail, i.id_room, i.frag_room} \subseteq Nat

VARIABLES
  image, no_cache,
  pc,        \* the next step, named for what it acquires or reads: "main",
             \* "context", "sb", "comp", "caches"; in load_id_table "ids",
             \* "idlist", "idtable", "idbuf", "idblock"; "frags"; in
             \* sqfs_fragment_table_load "fragentries", "fragindex", "fraglist",
             \* "fragbuf", "fragblocks"; the exits "error" of init_context and
             \* "close" of main; "mounted", "crashed", "failed", "unmounted"
  todo,      \* what is released before that, in order
  held,      \* what is open, allocated or initialised
  wild,      \* history: something was released that is not held
  id_table,  \* the IDs, once they are read
  entries, loaded, blk, \* the fragment table, and the next of its blocks to read
  fault      \* history: a call of the system or an allocation failed

vars == <<image, no_cache, pc, todo, held, wild, id_table, entries, loaded, blk, fault>>
fragment_table == <<entries, loaded, blk>>

Caches == <<"inode_cache", "dir_cache", "meta_cache", "data_cache">>

Ceil(n, d) == (n + d - 1) \div d

Init ==
  /\ image \in Images /\ no_cache \in NoCache
  /\ pc = "main" /\ todo = <<>> /\ held = {} /\ wild = FALSE
  /\ id_table = <<>>
  /\ entries = <<>> /\ loaded = FALSE /\ blk = 0
  /\ fault = FALSE

-----------------------------------------------------------------------------
At(label) == pc = label /\ todo = <<>>

\* Step to label, holding also S.
Acquire(label, S) ==
  /\ pc' = label /\ held' = held \union S
  /\ UNCHANGED <<image, no_cache, todo, wild, fault>>

\* Step to label, with the releases on the way.
Release(label, list) ==
  /\ pc' = label /\ todo' = list
  /\ UNCHANGED <<image, no_cache, held, wild>>

\* One release.  A cache that was never initialised is all zeros, and nothing is
\* released of it.
FreeNext ==
  /\ todo # <<>>
  /\ held' = held \ {Head(todo)}
  /\ wild' = (wild \/ Head(todo) \notin held \union ToSet(Caches))
  /\ todo' = Tail(todo)
  /\ UNCHANGED <<image, no_cache, pc, id_table, fragment_table, fault>>

OpenImage ==
  /\ At("main")
  /\ Acquire("context", {"fd"})
  /\ UNCHANGED <<id_table, fragment_table>>

OpenFails ==
  /\ At("main")
  /\ Release("failed", <<>>) /\ fault' = TRUE
  /\ UNCHANGED <<id_table, fragment_table>>

AllocSuperblock ==
  /\ At("context")
  /\ Acquire("sb", {"sb"})
  /\ UNCHANGED <<id_table, fragment_table>>

\* Powers of two.
Pow2[k \in Nat] == IF k = 0 THEN 1 ELSE 2 * Pow2[k - 1]

\* validate_block_size: one bit set, in range, and the logarithm is the number
\* of times it can be halved.
Halvings[n \in Nat] == IF n <= 1 THEN 0 ELSE 1 + Halvings[n \div 2]

ValidBlockSize(i) ==
  /\ i.block_size # 0 /\ \E k \in 0 .. i.block_size : Pow2[k] = i.block_size
  /\ i.block_size >= MIN_BLOCK /\ i.block_size <= MAX_BLOCK
  /\ Halvings[i.block_size] = i.block_log

\* is_compressor_supported, and the cases of sqfs_compressor_create.
Implemented(comp) == comp \in {"gzip", "zstd"}

\* The checks of sqfs_superblock_load.
Accepted(i) ==
  /\ i.magic /\ i.version
  /\ Implemented(i.comp)
  /\ ValidBlockSize(i)
  /\ i.bytes_used <= i.file_size

has_fragments == ~image.no_frags /\ image.frag_table

LoadSuperblock ==
  /\ At("sb") /\ Accepted(image)
  /\ Acquire("comp", {})
  /\ UNCHANGED <<id_table, fragment_table>>

CreateCompressor ==
  /\ At("comp")
  /\ Acquire(IF no_cache THEN "ids" ELSE "caches", {"comp"})
  /\ UNCHANGED <<id_table, fragment_table>>

\* The caches are initialised in turn.
InitCache ==
  /\ At("caches")
  /\ \E i \in DOMAIN Caches :
       /\ Caches[i] \notin held
       /\ \A j \in 1 .. i - 1 : Caches[j] \in held
       /\ Acquire(IF i = Len(Caches) THEN "ids" ELSE "caches", {Caches[i]})
  /\ UNCHANGED <<id_table, fragment_table>>

-----------------------------------------------------------------------------
(***************************************************************************)
(* load_id_table                                                           *)
(***************************************************************************)
\* Mutant: two entries per ID are read of it.
InFileTwice(n) == 2 * n <= Ceil(image.ids, IDS_PER_BLOCK) + image.tail

\* The list of positions has one entry per block; one per ID is read of it.
InFile(n) == n <= Ceil(image.ids, IDS_PER_BLOCK) + image.tail

\* A block of n entries comes out of sqfs_meta_read_block.
ComesOut(n, perBlock, room) == room = 0 \/ n + room <= perBlock

IdBlockReadable ==
  LET n == IF image.ids < IDS_PER_BLOCK THEN image.ids ELSE IDS_PER_BLOCK
  IN  ComesOut(n, IDS_PER_BLOCK, image.id_room)

NoIds ==
  /\ At("ids") /\ image.ids = 0
  /\ Acquire("frags", {})
  /\ UNCHANGED <<id_table, fragment_table>>

AllocIdList ==
  /\ At("ids") /\ image.ids > 0
  /\ Acquire("idlist", {"id_pos_table"})
  /\ UNCHANGED <<id_table, fragment_table>>

ReadIdList ==
  /\ At("idlist") /\ InFile(image.ids)
  /\ Acquire("idtable", {})
  /\ UNCHANGED <<id_table, fragment_table>>

AllocIdTable ==
  /\ At("idtable")
  /\ Acquire("idbuf", {"id_table"})
  /\ UNCHANGED <<id_table, fragment_table>>

AllocIdBlock ==
  /\ At("idbuf")
  /\ Acquire("idblock", {"meta_block"})
  /\ UNCHANGED <<id_table, fragment_table>>

\* The first block, and as many IDs as it has.
ReadIds ==
  /\ At("idblock") /\ IdBlockReadable
  /\ id_table' = [i \in 1 .. image.ids |-> IF i <= IDS_PER_BLOCK THEN i ELSE 0]
  /\ Release("frags", <<"meta_block", "id_pos_table">>)
  /\ UNCHANGED <<fault, fragment_table>>

-----------------------------------------------------------------------------
(***************************************************************************)
(* The fragment table: without it the mount goes on, and every read of a   *)
(* fragment fails later.                                                   *)
(***************************************************************************)
NoFragments ==
  /\ At("frags") /\ ~has_fragments
  /\ Acquire("mounted", {})
  /\ UNCHANGED <<id_table, fragment_table>>

AllocFragments ==
  /\ At("frags") /\ has_fragments
  /\ Acquire("fragentries", {"fragment_table"})
  /\ UNCHANGED <<id_table, fragment_table>>

\* sqfs_fragment_table_load: the entries, and the list of block positions.
AllocEntries ==
  /\ At("fragentries")
  /\ entries' = [i \in 1 .. image.frags |-> 0]
  /\ IF image.frags = 0
       THEN loaded' = TRUE /\ Acquire("mounted", {})
       ELSE UNCHANGED loaded /\ Acquire("fragindex", {"entries"})
  /\ UNCHANGED <<id_table, blk>>

AllocIndex ==
  /\ At("fragindex")
  /\ Acquire("fraglist", {"index"})
  /\ UNCHANGED <<id_table, fragment_table>>

ReadIndex ==
  /\ At("fraglist")
  /\ Acquire("fragbuf", {})
  /\ UNCHANGED <<id_table, fragment_table>>

AllocBlock ==
  /\ At("fragbuf")
  /\ Acquire("fragblocks", {"block_buf"})
  /\ UNCHANGED <<id_table, fragment_table>>

\* Mutant: the last entry of a full block is left out.
InBlockShort(b) ==
  IF image.frags - b * FRAGS_PER_BLOCK >= FRAGS_PER_BLOCK
    THEN FRAGS_PER_BLOCK - 1 ELSE image.frags - b * FRAGS_PER_BLOCK

\* Entries of the table in block b.
InBlock(b) ==
  IF image.frags - b * FRAGS_PER_BLOCK > FRAGS_PER_BLOCK
    THEN FRAGS_PER_BLOCK ELSE image.frags - b * FRAGS_PER_BLOCK

BlockReadable(b) == ComesOut(InBlock(b), FRAGS_PER_BLOCK, image.frag_room)

\* load_fragment_entries: block by block.
ReadFragmentBlock ==
  /\ At("fragblocks") /\ blk < Ceil(image.frags, FRAGS_PER_BLOCK)
  /\ BlockReadable(blk)
  /\ LET first == blk * FRAGS_PER_BLOCK
     IN  entries' = [i \in DOMAIN entries |->
                       IF i \in first + 1 .. first + InBlock(blk) THEN i ELSE entries[i]]
  /\ blk' = blk + 1
  /\ UNCHANGED <<image, no_cache, pc, todo, held, wild, id_table, loaded, fault>>

FragmentsLoaded ==
  /\ At("fragblocks") /\ blk = Ceil(image.frags, FRAGS_PER_BLOCK)
  /\ loaded' = TRUE
  /\ Release("mounted", <<"block_buf", "index">>)
  /\ UNCHANGED <<id_table, entries, blk, fault>>

-----------------------------------------------------------------------------
(***************************************************************************)
(* The exits                                                               *)
(***************************************************************************)
\* Mutant: load_id_table leaves the table to its caller when the block is bad.
FreesLess ==
  [context |-> <<>>, sb |-> <<"sb">>, comp |-> <<"sb">>, caches |-> <<>>,
   ids |-> <<>>, idlist |-> <<"id_pos_table">>, idtable |-> <<"id_pos_table">>,
   idbuf |-> <<"id_pos_table", "id_table">>, idblock |-> <<"meta_block", "id_pos_table">>,
   frags |-> <<>>, fragentries |-> <<>>, fragindex |-> <<"entries">>,
   fraglist |-> <<"index", "entries">>, fragbuf |-> <<"index", "entries">>,
   fragblocks |-> <<"block_buf", "index", "entries">>]

\* What the function that fails at a step releases itself.
Frees ==
  [context |-> <<>>, sb |-> <<"sb">>, comp |-> <<"sb">>, caches |-> <<>>,
   ids |-> <<>>, idlist |-> <<"id_pos_table">>, idtable |-> <<"id_pos_table">>,
   idbuf |-> <<"id_pos_table", "id_table">>,
   idblock |-> <<"meta_block", "id_pos_table", "id_table">>,
   frags |-> <<>>, fragentries |-> <<>>, fragindex |-> <<"entries">>,
   fraglist |-> <<"index", "entries">>, fragbuf |-> <<"index", "entries">>,
   fragblocks |-> <<"block_buf", "index", "entries">>]

\* The step is there to be tried.
Tries ==
  /\ pc \in DOMAIN Frees /\ todo = <<>>
  /\ pc = "ids" => image.ids > 0
  /\ pc = "frags" => has_fragments
  /\ pc = "fragentries" => image.frags > 0
  /\ pc = "fragblocks" => blk < Ceil(image.frags, FRAGS_PER_BLOCK)

\* The image makes it fail: a superblock that is refused, a read past the end of
\* the file, a block that does not come out.
Refused ==
  \/ pc = "sb" /\ ~Accepted(image)
  \/ pc = "idlist" /\ ~InFile(image.ids)
  \/ pc = "idblock" /\ ~IdBlockReadable
  \/ pc = "fragblocks" /\ ~BlockReadable(blk)

\* The image or the system makes a step of init_context or of load_id_table fail.
MountFails ==
  /\ Tries
  /\ \/ pc \in {"context", "sb", "comp"} /\ Release("close", Frees[pc])
     \/ /\ pc \in {"caches", "ids", "idlist", "idtable", "idbuf", "idblock", "frags"}
        /\ Release("error", Frees[pc])
  /\ fault' = (fault \/ ~Refused)
  /\ UNCHANGED <<id_table, fragment_table>>

\* The same in sqfs_fragment_table_load: the mount goes on.
FragmentsFail ==
  /\ Tries
  /\ pc \in {"fragentries", "fragindex", "fraglist", "fragbuf", "fragblocks"}
  /\ Release("mounted", Frees[pc])
  /\ fault' = (fault \/ ~Refused)
  /\ entries' = <<>> /\ blk' = 0
  /\ UNCHANGED <<id_table, loaded>>

\* The label error of init_context.
ErrorExit ==
  /\ At("error")
  /\ Release("close", IF no_cache THEN <<"comp", "sb">> ELSE Caches \o <<"comp", "sb">>)
  /\ UNCHANGED <<id_table, fragment_table, fault>>

\* main closes the image.
CloseImage ==
  /\ At("close")
  /\ Release("failed", <<"fd">>)
  /\ UNCHANGED <<id_table, fragment_table, fault>>

-----------------------------------------------------------------------------
\* A read of a block or a fragment goes through ctx->data_cache, which is there
\* (as a structure) whether it was initialised or not: sqfs_cache_get follows
\* its buckets.
ServeRead ==
  /\ At("mounted")
  /\ pc' = IF "data_cache" \in held THEN "mounted" ELSE "crashed"
  /\ UNCHANGED <<image, no_cache, todo, held, wild, id_table, fragment_table, fault>>

\* sqfs_fuse_destroy: destroy_context, which frees the ID table if there is one,
\* and close.
Unmount ==
  /\ At("mounted")
  /\ Release("unmounted", (IF "id_table" \in held THEN <<"id_table">> ELSE <<>>)
                             \o (IF no_cache THEN <<>> ELSE Caches)
                             \o <<"comp", "sb", "fd">>)
  /\ id_table' = <<>>
  /\ UNCHANGED <<fragment_table, fault>>

Next ==
  \/ OpenImage \/ OpenFails \/ AllocSuperblock \/ LoadSuperblock \/ CreateCompressor \/ InitCache
  \/ NoIds \/ AllocIdList \/ ReadIdList \/ AllocIdTable \/ AllocIdBlock \/ ReadIds
  \/ NoFragments \/ AllocFragments \/ AllocEntries \/ AllocIndex \/ ReadIndex \/ AllocBlock
  \/ ReadFragmentBlock \/ FragmentsLoaded
  \/ MountFails \/ FragmentsFail \/ ErrorExit \/ CloseImage \/ FreeNext
  \/ ServeRead \/ Unmount

Spec == Init /\ [][Next]_vars

-----------------------------------------------------------------------------
\* What a fragment read looks up is the entry the image has at that index, for
\* every index, once the table counts as loaded (load_fragment_entries over any
\* number of blocks, the last of them partly filled); and it is loaded in every
\* mount, unless the system failed or one of its blocks does not come out.
FragmentsFaithful ==
  /\ loaded => entries = [i \in 1 .. image.frags |-> i]
  /\ At("mounted") /\ has_fragments /\ ~loaded =>
       fault \/ \E b \in 0 .. Ceil(image.frags, FRAGS_PER_BLOCK) - 1 : ~BlockReadable(b)

\* Whatever step fails, its exit and those it leads to release the image, the
\* superblock, the compressor, the caches and every buffer of the loaders, and
\* nothing that is not held; what a failed mount may keep is an ID table that was
\* read, what an unmount keeps is the fragment table, which destroy_context does
\* not know of; a fragment table that is not loaded has no entries (init_context,
\* load_id_table, sqfs_fragment_table_load, destroy_context).
Unwinds ==
  /\ ~wild
  /\ At("failed") => held \subseteq IF id_table = <<>> THEN {} ELSE {"id_table"}
  /\ At("unmounted") => held \subseteq {"fragment_table", "entries"}
  /\ At("mounted") =>
       /\ held \intersect {"id_pos_table", "meta_block", "index", "block_buf"} = {}
       /\ ~loaded => "entries" \notin held

\* An image the file system can work with, as the format describes it.
Supported ==
  /\ image.magic /\ image.version /\ image.comp \in {"gzip", "zstd"}
  /\ image.block_size = Pow2[image.block_log]
  /\ image.block_size \in MIN_BLOCK .. MAX_BLOCK
  /\ image.bytes_used <= image.file_size

\* No read meets a cache that was never initialised (init_context,
\* sqfs_data_read).
\* (The code does not keep this: README, section 6.)
NeverCrashes == pc # "crashed"

\* A supported image, with at least as many bytes behind the ID table's position
\* list as load_id_table reads too many and a first block of IDs that comes out
\* of sqfs_meta_read_block, is mounted unless the system fails.
PaddedImagesMount ==
  pc = "failed" /\ Supported /\ image.tail >= image.ids /\ IdBlockReadable => fault

\* A supported image is mounted unless the system fails (load_id_table).
\* (The code does not keep this: README, section 6.)
GoodImagesMount == pc = "failed" /\ Supported => fault

\* The fragment table of a mounted image is loaded unless the system fails.
\* (The code does not keep this: README, section 6.)
FragmentTableLoads == pc = "mounted" /\ has_fragments => loaded \/ fault

\* Whatever init_context acquired is released when it fails, and at the unmount.
\* (The code does not keep this: README, section 6.)
AllReleased == At("failed") \/ At("unmounted") => held = {}

=============================================================================
