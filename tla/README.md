# squashfs-fuse: TLA+ models, checks and proofs

This directory holds a verification development for squashfs-fuse, a read-only
SquashFS 4.0 file system for FUSE 3. The code modelled is the C code under
`src/src/`; `src/doc/squashfs.adoc` (the on-disk format) and `src/doc/design.md`
say what it is meant to do. Every definition that stands for code is listed with
its lines in `PROJECT.json` ("map"); what may go wrong and is hard to test is
listed there under "hazards".

1. [The system](#1-the-system)
2. [Modules and how they correspond to the code](#2-modules-and-how-they-correspond-to-the-code)
3. [Runs, bounds and what they show](#3-runs-bounds-and-what-they-show)
4. [Fairness](#4-fairness)
5. [Proofs](#5-proofs)
6. [Where the code and its documents disagree](#6-where-the-code-and-its-documents-disagree)
7. [Assumptions, and what is not modelled](#7-assumptions-and-what-is-not-modelled)
8. [Plan](#8-plan)

## 1. The system

`main` opens the image and builds one `sqfs_ctx_t` (superblock, compressor, four
caches, ID table, fragment table). The FUSE loop then runs callbacks in several
worker threads (one with `-s`). All of them share that context; all of it but
the cache is read-only once the mount is through.

| Component | State | Operations | Uses / is used by |
|---|---|---|---|
| LRU cache (`core/cache.c`) | hash table with chains, LRU list over the same entries, counts, hits/misses, one `pthread_rwlock` | init, get, put, remove, clear, destroy | data and fragment readers, from every worker |
| Data and fragment block cache (`core/data.c`, `core/fragment.c`) | `ctx->data_cache`: blocks under their position, fragments under their index | look up, copy; on a miss read, wrap, put, copy | LRU cache below, file reading above |
| File reading (`core/data.c`) | the loop of one read: offset, bytes read, bytes remaining | `sqfs_data_read`, the block layout, holes, the tail | block cache, fragment table |
| Metadata reading (`data.c`, `directory.c`, `inode.c`) | none kept: every read starts at a block | three readers of the block stream; most blocks are decompressed over their own input | inodes, directories, tables |
| Inodes (`core/inode.c`) | an inode and its array on the heap, owned by its caller; the last export block, static | get by reference, parse by type, free; load by number through the export table | VFS |
| Directories (`core/directory.c`) | an array of entries with malloc'ed names, owned by its caller | read, parse, look up, free | VFS |
| VFS (`vfs/vfs_ops.c`) and FUSE callbacks (`fuse/vfs_fuse.c`) | handles of open files, each owning an inode | resolve a path; getattr, open, read, release, readdir, readlink, statfs, getxattr, listxattr | all of the above |
| Mount (`fuse/fuse_main.c`) | what has been acquired so far | `init_context`, `load_id_table`, `destroy_context` | superblock, compressors, caches, tables |
| Superblock (`core/superblock.c`) | a copy of the superblock and flags | load and check | mount |
| Fragment table (`core/fragment.c`) | array of entries, `loaded` | load, look up, destroy (never called) | mount, file reading |
| Extended attributes (`core/xattr.c`) | the table of attribute sets | load, get, list, destroy | the VFS looks for the table, which nothing loads |
| Log (`core/log.c`) | file handle, path, counted size, level, one mutex; the file is shared by all mounts | init, log, log with data, flush, destroy | every component, every worker |
| Compressors, statistics, utilities | small or none | see section 7 | |

What is hard in it:

- **Concurrency.** `sqfs_cache_get` takes the lock twice (shared to search,
  exclusive to move the entry to the front) and returns a pointer that is used
  with no lock at all; it counts under the shared lock. `put` evicts, allocates
  and may double the table, all while others wait.
- **Partial failure.** Every `malloc`, `pread` and decompression may fail, and
  most functions leave through many exits that have to give back different
  things: a cache entry, names of a half-parsed listing, the inode and listing
  of a path component, half of a context.
- **Boundaries.** Holes, raw blocks, short last blocks, tails in fragments;
  structures that cross a metadata block; tables whose last block is partly
  filled; sizes that are three larger than what they measure; signed offsets on
  unsigned numbers.
- **Buffers that do two things.** `sqfs_data_read_block`, `sqfs_meta_read_block`
  and `sqfs_fragment_read_block` read compressed bytes into the end of the
  buffer they are decompressed into.
- **Checks that come late.** `parse_inode` copies what an inode claims to hold
  and then compares its length with what was read.
- **Several processes.** Every mounted image is a process that appends to, and
  cuts, the same log file; each may be killed at any time.
- **Progress.** The eviction loop, the read loop and the path walk must end, and
  the locks of cache and log must be released on every exit.

What makes each component correct:

- *cache*: list and chains hold the same entries, once each; counts and memory
  match them and the limits; every buffer has one owner and none is lost; a
  reader is not disturbed; callers see a map that may only forget; calls return.
- *block cache*: a reply carries the bytes under the key asked for; nothing is
  read after it was freed, freed twice or lost; every read is answered.
- *file reading*: a read returns the slice of the file it names, and ends.
- *metadata*: a reader returns the bytes of the stream it asked for, whatever
  the blocks look like, and never those of the next table.
- *inodes*: the inode loaded is the one named, by reference or number, whatever
  was loaded before; nothing it allocates outlives it.
- *extended attributes*: an inode's own attributes are found, with their own
  values; what is copied fits the caller's buffer; every copy is freed, once.
- *log*: the file stays bounded whatever the processes do; a call returns.
- *directories*: the listing is complete and right, or refused; every name is
  freed once; the array is never overrun.
- *VFS*: a request is answered from the inode its path names, and leaves nothing
  behind; an open file owns its inode until the release.
- *mount*: whichever step fails, the exits behind it release what is held and
  nothing else; a good image mounts; the tables in memory are those of the image.

## 2. Modules and how they correspond to the code

| Module | Models | State | Actions |
|---|---|---|---|
| `Cache` | `core/cache.c` and any caller that keeps the contract of `cache.h` | `lru`, `buckets`, `entry` (the structs), `heap` (the value buffers), `current_entries`, `current_memory`, `hits`, `misses`, `readers`/`writer` (the rwlock), per thread `pc`, `key`, `ptr`, `mem`, `seen` | one per stretch of code between two points another thread can observe: `GetRdLock`, `GetFindHit`, `GetHit` (load, then store of a counter), `GetWrLock`, `GetTouch`, `PutWrLock`, `PutReplace`, `PutEvict` (one turn of the loop), `PutInsert`, `PutFail`, `PutResize`, ... |
| `LossyMap` | what `cache.h` promises, with no lock, list or table | `map`, `want`, `res`, `offer` | `Ask`, `Lookup`, `Finish`, `Offer`, `Store`, `Refuse`, `Drop` |
| `CacheRefinement` | the mapping from `Cache` to `LossyMap` | | |
| `BlockCache` (extends `Cache`) | the two users of the data cache | adds `job`, `staged` (what a reader has in hand between a miss and its put: the bytes, the entry, the entry's data), `content` (whose bytes a buffer holds), `served` | `StartRead`, `CopyCached`, `Missed`, `ReadDone`, `ReadFailed`, `NewEntry`, `NewData`, `NoEntryMemory`, `NoDataMemory`, `PutBlock`, and what each reader does after the put |
| `DataRead` | `sqfs_data_read` for one file at a time | `file`, `cached`, the loop's variables, `out` | `ReadStart`, `ReadNothing`, `ReadHole`, `ReadCached`, `ReadMissed`, `ReadTail`, `ReadTailFailed`, `Evicted`, ... |
| `Metadata` | `read_directory_data`, `sqfs_meta_read`, and the two ways a block is read (`read_meta_block`; `sqfs_meta_read_block`, in place) | `table`, `item`, `pos`, `block_offset`, `out` | `DirFirst`, `DirNext`, `DirBad`; `MetaTurn`, `MetaBad`; `IoError` |
| `Inode` (extends `Metadata`) | `sqfs_inode_get_by_ref`, the parsers, `sqfs_inode_load`, `sqfs_inode_free` | adds `num`, `exp` (the static export block), `heap`, `cut`, `wild` | `ReadHeader`, `ReadFixed`, `ReadFull`, `BadInode`, `InodeError`; `AllocInode`, `Parse`, `ParseOverruns`, `ParseNoMemory`, `ParseEnds`, `ParseRefuses`; `Load`, `ExportRead`, `ExportHit`, `ExportFails`, `FollowRef`, `NoRef`; `InodeDone` |
| `Directory` | `parse_inode_dir`/`_ldir` (the size), `sqfs_dir_read`, `sqfs_dirent_free` | `listing`, `size`, `ptr`, `run`, `left`, `result`, `capacity`, `names` | `Read`, `Header`, `ParseEntry`, `BadDir`, `NoMemory`, `EndOfData`, `Free`, ... |
| `Vfs` | `vfs/vfs_ops.c` behind `fuse/vfs_fuse.c` | per worker `pc`, `call`, `todo`, `inode`, `entries`, `reading`, `reply`; `handles`; live `inodes` and `arrays` | `Ask`, `LoadRoot`, `ReadDir`, `Find`, `FindFails`, `GetAttr`, `Open`, `ReadLink`, `ReadDirEntries`, `FillDir`, `GetXattr`, `StartRead`, `EndRead`, `Release`, `StatFs`, ... |
| `Mount` | `main` from the open of the image, `sqfs_superblock_load`, `init_context`, `load_id_table`, the fragment table's load, `destroy_context` | `image`, `pc`, `held`, `todo` (what the exit under way still releases, in the order of the code), `wild`, `id_table`, `entries`, `loaded`, `blk` | one per acquisition and per read (`AllocSuperblock`, `CreateCompressor`, `InitCache`, `AllocIdList`, `ReadIdList`, ...); `MountFails` and `FragmentsFail`, with the list of each exit in `Frees`; `ErrorExit`, `CloseImage`, `FreeNext` (one release); `ServeRead`, `Unmount` |
| `Xattr` | `core/xattr.c` | `image`, `loaded`, `call`, `result`, `pair_count`, `next`, `heap` (every allocation), `wild` | `LoadTable`, `ReadHeader`, `AllocEntries`, `ReadEntries`; `Call`, `AllocBuffer`, `ReadBlock`, `CountPairs`, `BadPairs`, `CopyKey`, `KeyFails`, `CopyValue`, `ValueFails`, `FreePair`, `Undone`; `Get`, `List`, `PairsFreed`, `DestroyTable` |
| `Log` | `core/log.c` in several processes | `disk` (the files), per process `g` (`g_log`) and `mutex`, per thread `pc` and `call`; history `mine`, `excused` | `Lock`, `InitOpen`, `InitStat`, `Begin` (the level, the open of a log that is not), `Rotate`, `Write`, `Destroy`, `Flush`, `Kill`: one per system call another process can come between |
| `Sums` | the loop of `sqfs_file_block_location` that adds up sizes; also where the runs and entries of a listing lie | | |
| `CacheProofs`, `DataReadProofs`, `InodeProofs`, `DirectoryProofs`, `VfsProofs`, `MountProofs`, `XattrProofs`, `LogProofs` | theorems about the module (`CacheProofs`: also `CacheRefinement` and `BlockCache`; `InodeProofs`: also `Metadata`), section 5 | | |
| `MC*` | instances for TLC | | |

How the levels fit: `BlockCache` is `Cache` with its real callers instead of any
callers. `DataRead` sees the cache as one reader of `LossyMap` (a block it put
may be there or gone), which `cache_threads` justifies. `Vfs` takes reading an
inode, a listing or a file as one call that succeeds or fails: `Inode`,
`Directory` and `DataRead` say what those calls return. `Mount` and `DataRead`
take from `Metadata` when a block that is decompressed over its own input comes
out (`ComesOut`, `BlockInPlace`, `FragmentInPlace`).

Data is abstracted. A key or a buffer is a model value; a byte of a file, table
or stream is its position, so that any misplaced byte shows; a compressed run of
bytes decompresses to its block only if it is exactly that block's run; a name
is its length and a string; a line of the log is its length. Each module's header comment gives its abstraction.

Undefined behaviour is a choice over outcomes: a racing counter keeps either
store; a freed buffer may be allocated again for another key (`heap[b]` then
says so); memory that was never written is `Junk`; a copy from behind a buffer
goes on or ends the process. Where a property is about who frees what, a release
of what is not allocated is written down in `wild`, which a set of what is
allocated alone would not show.

What the code computes is stated a second time, apart from it: `LossyMap` for
the cache; the slice of a stream or file for the readers; for the VFS the nodes
a path leads through (`Follows`, `Reached`, `Named`, `LeadsNowhere`); for the
mount what a supported image is. The layout of a metadata table (`start`: where
each block begins) is part of the table, with the assumption `MetaTables` that
blocks lie one behind the other; the readers find their way by the headers.

## 3. Runs, bounds and what they show

To repeat one: `tlc -workers 2 -config <cfg> <module>` in this directory.

| Run | Module, cfg | Checks | Shows |
|---|---|---|---|
| `cache_threads` | `MCCache`, `MCCache_threads.cfg` | `TypeOK`, `LockDiscipline`, `StructureOK`, `EntriesBounded`, `MemoryExact`, `MemoryWithinLimit`, `BufsOwnedOnce`, `NoLeak`, `ReadersUndisturbed`, `UsedIsMostRecent`, `LookupsNotInvented`, `ImplementsMap` | two threads, all operations, every allocation failure, the unmount: the structures stay consistent, the list is in the order of use, the racing counters count nothing twice, and the cache implements `LossyMap` |
| `reads_single` | `MCBlockCache`, `MCBlockCache_single.cfg` | `BytesOfTheKey`, `NoUseAfterFree` | with one worker (`-s`), and a block and a fragment of one key, replies have the bytes of their key and pointers stay valid |
| `reads_threads` | `MCBlockCache`, `MCBlockCache_threads.cfg` | `BufsOwnedOnce`, `FragmentsNotLeaked`, `EveryReadReplies` | two workers: one owner per buffer, no fragment lost, every read answered |
| `reads_uaf` | `MCBlockCache`, `MCBlockCache_uaf.cfg` | `NoUseAfterFree` (violated) | the same property with two workers: section 6 |
| `file_reads` | `MCDataRead`, `MCDataRead.cfg` | `ReadIsSlice`, `ZeroedTailOnly`, `ReadsEnd` | a read of any small intact file is its slice or fails, and ends |
| `inodes` | `MCInode`, `MCInode.cfg` | `StreamSlice`, `IntactReads`, `InodeInBounds`, `LoadFindsInode`, `InodesOwned` | the three readers return the right bytes, refuse nothing they could read and stay inside their table; a load by number finds its inode through whatever block was kept; every exit frees what was allocated for it |
| `meta_full` | `MCInode`, `MCInode_full.cfg` | `OneBlockInodesLoad` (violated) | a full compressed metadata block: section 6 |
| `dir_listings` | `MCDirectory`, `MCDirectory.cfg` | `ListingComplete`, `NamesOwned` | listings are complete or refused, through every failed allocation; no name is lost and the array is never overrun |
| `vfs_requests` | `MCVfs`, `MCVfs.cfg` | `AnswersThePath`, `OwnedOnce`, `EveryRequestAnswered` | two workers and an open handle, every failure: right inode, one owner, an answer |
| `mount` | `MCMount`, `MCMount.cfg` | `FragmentsFaithful`, `Unwinds`, `PaddedImagesMount` | a failure at every step of the mount and each exit's own releases, with and without `--nocache`, over supported and unsupported superblocks and tables of any small size |
| `xattr` | `MCXattr`, `MCXattr.cfg` | `GetOwn`, `ListOwn`, `OnlyTheTable` | sets of two inodes in one block, unknown prefixes, pairs cut at its end, buffers of every relevant size, every failed allocation |
| `log` | `MCLog`, `MCLog.cfg` | `LogBounded`, `CountCovers`, `EveryLogCallReturns` | two processes share the file, are killed and come back, every system call may fail: bounded, counted, no lock kept |

Bounds, and why they are enough for the questions asked:

- *Cache*: two threads (every hazard of the lock is a pair: a reader and a
  writer, or two readers), three keys of which two share a bucket and two
  entries fit, so that chains, evictions of another's entry, replacements,
  doubling (`INITIAL_BUCKETS` and `BUCKET_CAP` are the code's 64 and 65536
  scaled down) and values too large for the cache all occur. `MaxCalls` bounds
  the calls of a behaviour: five fill the cache, evict, and leave one call of
  each thread in flight.
- *BlockCache*: blocks and a fragment over a cache that is too small for them
  (two keys over two entries of half the memory each and three jobs for one
  worker, two over one entry for two), so that each put may evict what the other
  worker uses, or replace what has its key; `MaxCalls` as above.
- *DataRead*: blocks of three bytes (so a read may begin and end inside one),
  files of up to seven bytes (three blocks, or two and a tail), every choice of
  hole, raw or compressed (with and without room for its input) for each block,
  tail block or fragment, every offset,
  and lengths inside a block, across a block and beyond the file.
- *Metadata, Inode*: blocks of four bytes, streams that end inside, at and
  behind the end of a block, up to three blocks, each raw or compressed well or
  badly, for both compressors, with and without another table behind; every
  offset and size; a header of one byte. Inodes of each kind, of a bad type, and
  longer than `MAX_INODE_SIZE`; an export table of two blocks, the second partly
  filled or missing, so that loads alternate between them.
- *Directory*: an array that starts with room for one entry (16 in the code), up
  to three entries in one run or two runs, offsets to either side of the base.
  Numbers have three bits; bases stay below the sign bit (see section 6).
- *Vfs*: a tree of four inodes with one of each type that is treated
  differently, paths that end at, lead through and lead nowhere, two workers
  (one reads through a handle while the other opens and walks) and one handle.
- *Mount*: two entries per table block, up to five of each: none, a partly
  filled block, full blocks, and three blocks, raw or compressed; every
  superblock with block sizes of 0 to 8 where 2 to 4 are allowed; each with and
  without `--nocache`.
- *Xattr*: up to three pairs in a block, two names, split between two inodes at
  every place (the second may have none), at most one unknown prefix, nothing,
  a few bytes or a cut pair behind them; buffers that are absent, empty, one
  short and exact.
- *Log*: two processes, one with two threads; a limit of one byte and lines of
  one to three, of which the last fits no buffer, so that one line fills the
  file; files found empty or at the limit. Four calls let both processes open
  the file and write, or one write, die, open it again and write. The bound is
  reached: with a longest line of 2 it is 4, and both processes may have 2 bytes
  in the file.

Deadlock is checked everywhere but in `mount`, where the program ends, and in
`log`, where the calls do.

`MemoryExact` and `MemoryWithinLimit` are two properties: the first says that
the code's counter is right, the second that the counter keeps to the limit.
`LogBounded` excuses a file that was found larger than the bound (`FileSizes`)
as long as it has not grown, and behaviours in which a system call failed or a
log opened itself.

What the passing runs leave out: `cache_threads` gives every key one size that
fits, as a block of an image has, which `MemoryWithinLimit` needs;
`cache_threads` and `reads_threads` have no two jobs under one key, which
`reads_single` has; `file_reads` has no damaged blocks;
`inodes` has the inodes that are too long for `raw_inode`, but a process that
ended in the copy answers nothing and none of its properties speaks of it. In
`file_reads` a compressed block of three bytes is a full one, and fails;
compressed blocks that come out are the short ones at the end of a file.
Section 6 says what happens otherwise.

## 4. Fairness

The specifications used for liveness give weak fairness to the steps of each
thread or worker that is inside a call, and none to the arrival of requests. The
code justifies it: these are ordinary threads, and a step is enabled until it is
taken unless another thread holds the lock.

- `Cache`/`BlockCache`: a thread waiting for the lock needs it to be free when
  it is scheduled. Weak fairness is enough because the number of calls is
  bounded; a stream of readers that never ends could starve a writer under a
  reader-preferring `pthread_rwlock`, and nothing in the code excludes that.
- `DataRead`: the loop is sequential code; every turn is enabled until the end.
- `Vfs`: the calls of a walk return, with or without an error.
- `Log`: as for the cache, with the mutex of the process; a system call returns.
  Nothing is assumed of kills.

## 5. Proofs

`tlapm <module>.tla` checks a module's proofs. Nothing is assumed beyond the
`ASSUME`s of the modules, which TLC evaluates on every run, and the hypotheses
named below. The sets of threads, keys, entries, trees, tables, images and lines
and the limits and block sizes are arbitrary.

| Module | Theorem | Property, for all constants |
|---|---|---|
| `CacheProofs` | `CacheInvariant` | `IInv`, inductive |
| | `TypeCorrect`, `LockCorrect`, `StructureCorrect`, `CountCorrect`, `OwnershipCorrect`, `LeakFree` | `TypeOK`, `LockDiscipline`, `StructureOK`, `EntriesBounded`, `BufsOwnedOnce`, `NoLeak` |
| | `ReadersSafe` | the action property `ReadersUndisturbed` |
| | `UsedRecent` | the action property `UsedIsMostRecent` |
| | `MemoryCorrect`, `CountsBounded` | `MemoryExact`, `LookupsNotInvented` |
| | `MemoryBounded` | `MemoryWithinLimit`, if `OneSize` |
| | `CacheImplementsMap` | `ImplementsMap`: `Spec` implies `LossyMap`'s, initial states and every step |
| | `ReadersOwnOnce`, `FragmentsKept` | `BufsOwnedOnce`, `FragmentsNotLeaked` of `BlockCache`, any number of workers |
| | `NoUseAfterFreeAlone`, `BytesOfTheKeyAlone` | `NoUseAfterFree`, `BytesOfTheKey`, if `Alone` |
| `DataReadProofs` | `SliceCorrect`, `ZeroedCorrect` | `ReadIsSlice`, `ZeroedTailOnly` |
| | `BlocksReadWithRoom` | `BlocksRead`, if `BlockRoomLeft` |
| | `TailsReadWithRoom` | `TailsRead`, if `FragmentRoomLeft` |
| `InodeProofs` | `SliceCorrect`, `IntactCorrect` | `StreamSlice`, `IntactReads` of `Metadata` |
| | `BoundsCorrect`, `LoadCorrect`, `OwnedCorrect` | `InodeInBounds`, `LoadFindsInode`, `InodesOwned` |
| `DirectoryProofs` | `NamesCorrect` | `NamesOwned` |
| | `ListingCorrect` | `ListingComplete`, if `NumbersFit` |
| `VfsProofs` | `PathsCorrect`, `OwnershipCorrect` | `AnswersThePath`, `OwnedOnce` |
| `MountProofs` | `UnwindCorrect`, `TableCorrect`, `PaddedMount` | `Unwinds`, `FragmentsFaithful`, `PaddedImagesMount` |
| `XattrProofs` | `OnlyTableKept`, `GetCorrect`, `ListCorrect` | `OnlyTheTable`, `GetOwn`, `ListOwn` |
| `LogProofs` | `CountCorrect`, `BoundCorrect` | `CountCovers`, `LogBounded` |

The hypotheses are the conditions under which the code keeps the property;
section 6 has the counterexample without. `OneSize`: all values of a key that fit
the cache at all have one size, as the block at one position of an image does.
`Alone`: one worker, `-s`. `NumbersFit`: the base number of every run is below
2^31, and with an entry's offset still a number of 32 bits (`directory.c:308`).
These three are met by the runs that check the property. `BlockRoomLeft` and
`FragmentRoomLeft`: a compressed block, or fragment block, leaves the room its
decompressor needs behind its output (`data.c:224`, `fragment.c:392`). They are
met by no run, since `MCDataRead` has full compressed blocks on purpose, and by
few images: the two theorems say that this is all that keeps an intact file from
being read while device and memory work.

### The cache

`IInv` is `TypeOK`, `LockDiscipline`, `CallsSane`, `StructureOK`,
`EntriesBounded` and `BufsOwnedOnce` together. None of them is inductive alone:
that a linked entry is found in the bucket its hash selects (`StructureOK`)
survives a step only if the writer is alone (`LockDiscipline`); that an eviction
frees a buffer nobody else has (`BufsOwnedOnce`) needs the list to hold each
entry once. `CallsSane` is what no other part says and the steps need: a cache
that is not yet, or no longer, initialised is empty with no thread in it; a call
under way has a key; and the key a put is about to insert is not cached, which
it saw when it searched and which stays true because it has held the lock ever
since. Without the last, an insertion could link one key twice.

The argument has three layers. `LruRemoveFacts`, `InsertHeadFacts`,
`MoveToHeadFacts`, `FindFacts`, `DropFacts`, `InsertFacts`, `ResizeFacts`,
`ReplaceFacts` and `FreeAllFacts` say what the operators on list and chains
contain, that they repeat nothing, and their length. `BusyTable`, `LockStep`,
`SaneStep`, `OwnStep` and `MountStep` carry one part of `IInv` through the
actions, one case per action; `StepKinds` and `QuietFrame` separate the actions
that change the table from those that leave it alone. `CacheInvariant` puts them
together. `LeakFree` is carried separately, on top of `IInv`. `ReadersSafe`
follows from `LockDiscipline`: an action that changes the table belongs to the
writer, and there is no writer while there are readers. `CountsBounded` needs
more than it says, because a load and its store are two steps: `CountsInv` adds
that what any two threads have loaded and not yet stored, one of the hits and one
of the misses, could be stored side by side.

`MemoryExact` counts the bytes the cached entries are charged for as a set,
`Charged`, so that a sum over entries becomes the cardinality of a disjoint
union (`ChargedPart`, `ChargedMore`): an eviction or insertion takes or adds one
part. `MemoryBounded` adds that a put under way holds a size its key may have.

`CacheImplementsMap` takes `IInv` before and after a step and shows which step
of the map it is, if any. The search of a get is the map's `Lookup`, whatever
happens between it and the return; `PutReplace` and `PutInsert` are its `Store`,
evictions, removals, clears and the unmount its `Drop`; the rest of the code,
the lock and the counters included, is invisible. That keys are cached at most once makes the
mapping a function (`BindingFacts`); that a put owns its buffer keeps the
buffer it offers unbound (`OfferedUnbound`).

The two readers leave the contract of `cache.h` in two steps, `DropsEntry` and
`KeepsUsing`. The last part of `CacheProofs` shows that both keep `IInv` all the
same, and that the rest of a reader's steps are steps of `Cache`. `JobInv` ties a worker's
key to its block, a buffer's bytes to the key it was filled for, and what a
worker has staged to where it is. With one
worker a pointer into the cache stays live from the lookup to the copy
(`PointersLive`), because whoever could free it is the worker itself.

### File reading

`Total(d, n)` is a sum defined by recursion on numbers. `EveryNumber` is the
induction the sums need, argued by a least counterexample over a set, so that it
has no operator as its parameter; from it follow that the sums exist and are
unique (`SumsExist`, `SumsAgree`), that each adds one number to the one before
(`TotalFacts`), and that later ones are larger (`TotalGrows`).

The position of a block is such a sum, and so is that of its cells in the data
area. Cells of two blocks never coincide (`Apart`), so a position in the area is
one cell of one block (`CellAt`), and what `sqfs_data_read_block` reads at the
position the code computed is that block and no other (`BlockComes`), holes
before it or not. The same fact makes a hit in the cache the right block
(`HitIsBlock`): two stored blocks have different positions.

`ReadInv` says of an intact file that every cached block is the one stored at
its position (`CacheGood`), and, in the loop, that the buffer has the bytes of
the file from `offset` on, and that they and those still to come are what was
asked for, clamped to the file (`Progress`). One turn of the loop continues the
buffer (`Continues`, `Longer`): from a hole (`HoleBytes`), a block (`CopyBytes`)
or the fragment (`TailBytes`). Which of the three it is, and that there is always
one, is the division of the position by `block_size` (`Where`, `ByteOf`). An
eviction only takes from the cache (`OnlyLost`). `ReadInv` is about blocks that
come out; which do not, and that nothing else fails, is `BlocksReadWithRoom`.

### Metadata and inodes

The invariant `MInv` of `InodeProofs` says where a reader stands: the bytes
already out are the stretch of the stream that was asked for, and the next one
is at a known offset of a block that starts at `pos` (`Placed`). The lemmas
below it are about the layout. Blocks lie one behind the other, so no two start
at the same place (`StartsApart`) and a position names one block (`BlockFound`);
what the reader takes from a block, joined to what it has, is the longer stretch
(`Chunk`, `Joined`, `Stretch`); a header that says where the block ends leads to
the start of the next. `Source` and `ComesOut` say when a block is decompressed
and when the code refuses it, which is what `IntactReads` is about.

For a load by number `ExportInv` says that the static block, unless a failed
read has written over it, has the references of the block whose address is kept
with it. The reference found is then the one of the number (`OwnReference`), and
one reference names one inode (`Reference`). `HeapInv` says exactly what is
allocated at each step between the allocation of the structure and the caller's
release, `Owned`, and that nothing else has ever been freed.

### Directories, VFS, mount, attributes, log

`DirectoryProofs`: as long as the array has no more entries than its capacity,
the growth test leaves room for one more whatever the first capacity is; with no
call under way there is no array, so that a new read starts from nothing. For
the listing, `ListInv` says that the parser, after `Taken` entries of run `run`,
is exactly at their end (`Place`: the sum of the runs before, one header, the sum
of the entries), and that the array has the entries of the runs before and those
(`SoFar`). Since runs and entries lie inside the listing (`RunFits`,
`EntryFits`), a basic directory is never found too short (`LongEnough`); since a
run has at least its header, the bytes are used up only after the last run, also
with the three bytes too many of an extended one (`EndStep`). That old entries
stay where they were when one is appended is `Earlier`.

`VfsProofs`: `OwnInv` says that who owns an inode or a listing follows from
where the worker is, and that the heap has as many as there are owners; every
step of a worker is one of seven moves of ownership (`WorkerMoves`). `PathInv`
says that the inode or listing in hand is reached by as much of the path as has
been passed. What a path leads to is defined with no reference to the walk
(`Follows`, `Reached`, `Named`, `LeadsNowhere`): by the existence of a sequence
of nodes, one under the other. `OneWay` shows there is at most one.

`MountProofs`: an exit is a list of releases still to do, and leads to another
exit with a list of its own. `HeldInv` therefore speaks of `Rest`, what is held
without what the list under way will release: at each label, on whichever way it
is reached, exactly what the steps before it have acquired. `TodoInv` says that a
list names nothing twice and nothing that is not held (but a cache, which may be
all zeros). `FailsInv` says why a mount failed; `TableInv` that the first `blk`
blocks of entries are in their places. `PowersOfTwo` shows that
`validate_block_size`, which halves until it counts the bits, accepts every power
of two in its range.

`XattrProofs`: what has been copied is a prefix of the pairs that follow the
inode's first, and the heap holds, at each step of the loader, of the two loops,
of the exits and of the release, an exactly known set of cells (`CopiesInv`): on
an exit, the copies from `next` on are left to free.
Since the inode's own pairs come first (`OwnFirst`), an attribute of its own is
found before another inode's of the same name.

`LogProofs`: a count is not enough for the bound, because another process may
add to the file. `Budget(f)` is what each process may still add to a file before
its own count stops it, a quota minus what it has counted (`Seen`); file and
budget together never exceed one quota for each process (`WithinBudget`). A
write spends budget (`BudgetSpent`), another's write leaves it (`BudgetKept`), a
truncation empties the file before it refills the budget (`BudgetCut`), a
process that opens the file counts what is there.

### Only model-checked

- Liveness: `ReadsEnd`, `EveryReadReplies`, `EveryRequestAnswered`,
  `EveryLogCallReturns`. The prover does not reason about fairness.
- The runs that end in a violation, and the counterexamples of section 6.
- That the library decompressors behave as `Room` says: external code.

## 6. Where the code and its documents disagree

Two with a run of their own (quoted in `PROJECT.json`, "findings"):

- `reads_uaf`: `sqfs_cache_get` returns a pointer after it has released the
  lock, and both readers copy from it while another worker's put may evict and
  free it; `sqfs_fragment_read` likewise goes on reading what it has just put.
- `meta_full`: `sqfs_meta_read_block` reads the compressed bytes into the end of
  the 8 KiB buffer and decompresses them into its start. A full block, which is
  every block of a table but the last, does not come out: zlib has written over
  the checksum it has still to read (any block of 8188 bytes or more), zstd
  reports that the destination is too small (as soon as both sizes together
  exceed the buffer). `Room` of `Metadata` states what each library does.
  Inodes, the export table, the ID table and the fragment table are read this
  way; listings and extended attributes have a buffer of their own.

The following were met while modelling. Each is stated as a property in its
module (or follows from a change of one constant), and TLC shows the
counterexample when the `.cfg` is changed as given:

| Code | What it does | Shown by |
|---|---|---|
| `data.c:224` | a data block is decompressed over its own input as well (`224-226`, `635-636`: the `block_size` bytes of `block_buf`). Every block of a file but the last is a full one, so that of a compressed file only holes, raw blocks and short ends can be read; a read of the rest fails with an error (`doc/squashfs.adoc:84`) | `BlocksRead` in `MCDataRead.cfg` |
| `inode.c:181` | the parsers copy `block_count` sizes or `target_size` bytes from the `MAX_INODE_SIZE` bytes of `raw_inode` (`181-183`, `231-233`, `265`, `293`), and only then is what they consumed compared with what was read (`440`): an inode with more of them, as a file of some 2040 blocks has, is copied from behind the buffer on the stack (`doc/design.md:10`) | `NeverOverread` in `MCInode.cfg` |
| `fragment.c:474` | fragments are cached under their index and blocks under their position (`data.c:612`), in one cache: fragment 96 and a block at position 96, the first there is, have one key, and one is answered with the bytes of the other (`fragment.h:227` takes "block_start from fragment entry" for the key) | `NoForeignBytes` in `MCBlockCache_single.cfg` |
| `data.c:659` | the result of the put is ignored, and the entry is lost when it failed; `fragment.c:549` frees it (`CONTRIBUTING.md:172`) | `NoLeak` in `MCBlockCache_single.cfg` |
| `cache.c:356` | hits and misses are incremented under the shared lock, and an increment is lost when two threads do it at once | `LookupsCounted` in `MCCache_threads.cfg` |
| `data.c:700` | with `--nocache` (`fuse_main.c:67`) reads go through a cache that is all zeros and has no buckets | `NeverCrashes` in `MCMount.cfg` |
| `cache.c:402` | replacing a value does not look at the limits, so a larger one takes the cache over `max_memory` (`cache.h:44`, `:96`) | `MemoryWithinLimit` in `MCCache_threads.cfg` with `Sizes <- MCAnySizes` and `max_memory = 2` |
| `data.c:481` | a fragment that cannot be read is answered with zeros and success (`doc/design.md:10` asks for an error) | `ErrorsReported` in `MCBlockCache_single.cfg` |
| `fragment.c:392` | a fragment block is decompressed over its own input too, and a full one is answered with zeros and success | `TailsRead` in `MCDataRead.cfg` |
| `data.c:672` | a damaged block that decompresses to exactly as many bytes as the offset wanted in it makes `to_copy` 0, and the loop reads the same block for ever (`doc/design.md:10` asks for an error at once) | `ReadsEnd` in `MCDataRead.cfg` with `Files <- ShortFiles` and `MaxSize = 4` |
| `inode.c:75` | one metadata block is read, so an inode that goes on in the next cannot be loaded (`doc/squashfs.adoc:106`: "allowed to cross the block boundary") | `InodesLoad` in `MCInode.cfg` |
| `inode.c:694` | a read that fails leaves the address of the old export block with the bytes of the new one, and the next load by number may find another inode | `LoadNeverConfused` in `MCInode.cfg` |
| `inode.c:609` | of an inode refused because it is longer than `MAX_INODE_SIZE` the structure is freed, not the array that was copied | `InodesReleased` in `MCInode.cfg` |
| `inode.c:133` | the size of an extended directory is taken as stored, three bytes too long, and its listing refused (`doc/squashfs.adoc:617`) | `EveryKindListable` in `MCDirectory.cfg` |
| `directory.c:308` | an inode number of 2^31 or more is sign-extended (`directory.h:40`) | `ListingComplete` with `Bases = {3, 4}` |
| `vfs_ops.c:132` | a component whose inode cannot be loaded is "not found" (`vfs.h:34`) | `NotFoundMeansAbsent` in `MCVfs.cfg` |
| `vfs_ops.c:178` | the position in the ID table is shown as the owner (`inode.c:377`: "will be resolved ... later") | `OwnerResolved` in `MCVfs.cfg` |
| `inode.c:106` | basic directories and links get xattr index 0, not "none" (`xattr.h:157`) | `XattrsOfTheInode` in `MCVfs.cfg` |
| `fuse_main.c:94` | one position per ID is read where the image has one per block (`doc/squashfs.adoc:153`), so an image that ends there is refused; a full first block of IDs does not come out either | `GoodImagesMount` in `MCMount.cfg` |
| `fragment.c:151` | nor does a full block of the fragment table; the mount goes on without the table | `FragmentTableLoads` in `MCMount.cfg` |
| `fuse_main.c:222` | the ID table survives a failed mount, the fragment table every unmount | `AllReleased` in `MCMount.cfg` |
| `xattr.c:177` | every pair to the end of the block is taken, not `count` of them (`doc/squashfs.adoc`, the xattr tables), so that an inode shows the attributes of those stored behind it | `OnlyOwn` in `MCXattr.cfg` |
| `xattr.c:189`, `:197` | and cannot be read if one of those has an unknown prefix or goes on in the next block | `OwnReadable` in `MCXattr.cfg` |
| `log.c:314` | a log that opens itself does not look at the size of the file, so that one opened again and again grows beyond any limit (`doc/logging.md:24`: at most 10 MB) | `LogAlwaysBounded` in `MCLog.cfg` |

Not states of a model, but read on the way: `sqfs_xattr_list` answers OK for an
inode without attributes, where `xattr.h` promises "not found"; the header of
the xattr table is taken to be 18 bytes with the entries behind it, where the
format has 16 and a list of block positions; the out-of-line flag of a value is
ignored; `-l PATH` is accepted and ignored (`fuse_main.c:375`,
`doc/logging.md:22`); and even without a fault the log exceeds its limit by one
line, and by the same again for every other mount (`LogBounded`).

## 7. Assumptions, and what is not modelled

Assumed of what is outside the code: libc allocation and I/O fail or do what
they say; a decompressor returns the block that was compressed or an error; the
kernel releases a handle only after its last read; an image was written by
mksquashfs except where a run says it is damaged; a stored block is no longer
than `block_size`. Of the four caches only `data_cache` is ever used: the other
three are created and destroyed.

| Part | Why |
|---|---|
| The other fields of inodes | copies of fields; the sizes and arrays that matter are in `Inode` and `Directory` |
| `sqfs_inode_load` by two workers at once | its static block has no lock, and no worker calls it |
| What is behind the last block of the export table | a number beyond the table by more than one reads other bytes of the image as a position |
| Text of log lines, timestamps, JSON escaping | a line is its length |
| Statistics | only the superblock load increments them, before any worker runs |
| Option parsing of `main` | pure input handling, but for `--nocache` |
| Compressors | external libraries: what they return is in `Metadata` and `DataRead`. The `ZSTD_DStream` each thread keeps is never shared |
| `kernel/` | a skeleton, not built with the file system |

## 8. Plan

Done: `Cache` with its abstract map; its two users; the read path of a file; the
metadata readers and inodes; directories; the VFS; the superblock and the mount;
extended attributes; the log. Proved: every safety property the passing runs
check, and the refinement.

Left, as models first:

1. A composition of `Vfs` and `BlockCache`: a release and an unmount while reads
   are under way.
2. The thread-local streams of zstd, with threads that end.
