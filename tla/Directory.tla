------------------------------ MODULE Directory ------------------------------
(***************************************************************************)
(* sqfs_dir_read (src/core/directory.c): the size of the listing, taken    *)
(* from the directory inode (src/core/inode.c), and the parser that turns  *)
(* the listing into an array of entries with malloc'ed names, which the    *)
(* caller frees.  Metadata models how the bytes are fetched.               *)
(*                                                                         *)
(* A listing is a sequence of runs; a run has a header and one or more     *)
(* entries that share its inode block and its base inode number.  Bytes    *)
(* are counted, not spelled out: a header has HEADER_BYTES, an entry       *)
(* ENTRY_BYTES and its name.                                               *)
(***************************************************************************)
EXTENDS Integers, Sequences, Sums

CONSTANTS
  HEADER_BYTES,   \* sizeof(sqfs_dir_header_t), 12
  ENTRY_BYTES,    \* sizeof(sqfs_dir_entry_t), 8
  FIRST_CAPACITY, \* 16 in the code
  WORD,           \* 2^32: the number of values of header.inode_number
  Listings,       \* Seq of [base, start, entries: Seq of [name, len, delta, offset, type]]
  Kinds           \* "dir" or "ldir"

ASSUME DirectorySizes ==
  /\ HEADER_BYTES \in Nat \ {0} /\ ENTRY_BYTES \in Nat \ {0}
  /\ FIRST_CAPACITY \in Nat \ {0}
  /\ WORD \in Nat \ {0} /\ WORD % 2 = 0

\* A name has a length, an inode number is a word, an offset to it is signed.
ASSUME ListingTypes ==
  \A l \in Listings :
    /\ Len(l) \in Nat /\ DOMAIN l = 1 .. Len(l)
    /\ \A r \in DOMAIN l :
         /\ l[r].base \in 0 .. WORD - 1
         /\ Len(l[r].entries) \in Nat /\ DOMAIN l[r].entries = 1 .. Len(l[r].entries)
         /\ \A i \in DOMAIN l[r].entries :
              l[r].entries[i].len \in Nat /\ l[r].entries[i].delta \in Int

VARIABLES
  listing, kind,
  size,           \* dir.size of the inode in memory
  ptr,            \* bytes consumed
  run,            \* number of the run being parsed
  left,           \* entries of it still to come
  result,         \* the array: Seq of [name, ino, ref, type]
  capacity,       \* its allocated length
  names,          \* how many names are allocated
  pc,             \* "idle", "runs", "done"
  ret             \* "ok", "bad_dir", "no_memory"

vars == <<listing, kind, size, ptr, run, left, result, capacity, names, pc, ret>>
input == <<listing, kind, size>>

-----------------------------------------------------------------------------
EntryBytes(e) == ENTRY_BYTES + e.len

EntrySizes(r) == [i \in DOMAIN r.entries |-> EntryBytes(r.entries[i])]

RunBytes(r) == HEADER_BYTES + Total(EntrySizes(r), Len(r.entries))

RunSizes(l) == [r \in DOMAIN l |-> RunBytes(l[r])]

ListingBytes(l) == Total(RunSizes(l), Len(l))

\* What mksquashfs writes as the file size of a directory inode, basic or
\* extended: three more than the listing has.
DiskSize(l) == ListingBytes(l) + 3

\* Mutant: the three bytes are never taken off.
SizeAsStored(k, disk) == disk

\* parse_inode_dir takes the three off; parse_inode_ldir does not.
DirSize(k, disk) == IF k = "dir" /\ disk >= 3 THEN disk - 3 ELSE disk

\* header.inode_number is read as an int32 before the entry's signed offset is
\* added, and the sum stored in a uint64.
AsInt(n) == IF n >= WORD \div 2 THEN n - WORD ELSE n
InodeNumber(base, delta) == (AsInt(base) + delta) % (WORD * WORD)

-----------------------------------------------------------------------------
Init ==
  /\ listing \in Listings /\ kind \in Kinds
  /\ size = 0 /\ ptr = 0 /\ run = 0 /\ left = 0
  /\ result = <<>> /\ capacity = 0 /\ names = 0
  /\ pc = "idle" /\ ret = "ok"

\* The directory is read; an empty one needs no data.
Read ==
  /\ pc = "idle"
  /\ size' = DirSize(kind, DiskSize(listing))
  /\ ptr' = 0 /\ run' = 0 /\ left' = 0
  /\ result' = <<>> /\ capacity' = 0
  /\ pc' = "runs" /\ ret' = "ok"
  /\ UNCHANGED <<listing, kind, names>>

\* The error exit: the names parsed so far and the array are freed.
Abort(r) ==
  /\ names' = names - Len(result)
  /\ result' = <<>> /\ capacity' = 0
  /\ pc' = "done" /\ ret' = r
  /\ UNCHANGED <<input, ptr, run, left>>

InRuns == pc = "runs" /\ left = 0
Entry  == listing[run].entries[Len(listing[run].entries) - left + 1]

\* The header of the next run.
Header ==
  /\ InRuns /\ ptr < size
  /\ size - ptr >= HEADER_BYTES /\ run < Len(listing)
  /\ run' = run + 1
  /\ left' = Len(listing[run + 1].entries)
  /\ ptr' = ptr + HEADER_BYTES
  /\ UNCHANGED <<input, result, capacity, names, pc, ret>>

\* Fewer bytes left than a header, an entry or its name needs.
Truncated ==
  \/ InRuns /\ ptr < size /\ size - ptr < HEADER_BYTES
  \/ pc = "runs" /\ left > 0 /\ size - ptr < EntryBytes(Entry)

BadDir ==
  /\ Truncated \/ (pc = "runs" /\ left > 0 /\ Entry.type \notin 1 .. 7)
  /\ Abort("bad_dir")

Parsed(e) ==
  [name |-> e.name, ino |-> InodeNumber(listing[run].base, e.delta),
   ref |-> <<listing[run].start, e.offset>>, type |-> e.type]

\* The capacity after the growth test.
Grown ==
  IF Len(result) >= capacity
    THEN IF capacity = 0 THEN FIRST_CAPACITY ELSE 2 * capacity
    ELSE capacity

ParseEntry ==
  /\ pc = "runs" /\ left > 0
  /\ ~Truncated /\ Entry.type \in 1 .. 7
  /\ capacity' = Grown
  /\ names' = names + 1
  /\ result' = Append(result, Parsed(Entry))
  /\ left' = left - 1
  /\ ptr' = ptr + EntryBytes(Entry)
  /\ UNCHANGED <<input, run, pc, ret>>

\* realloc of the array or malloc of the name fails.
NoMemory ==
  /\ pc = "runs" /\ left > 0
  /\ ~Truncated /\ Entry.type \in 1 .. 7
  /\ Abort("no_memory")

\* The buffer for the listing cannot be allocated, or not be read.
NoData ==
  /\ pc = "runs" /\ ptr = 0 /\ size > 0 /\ run = 0
  /\ Abort("no_memory")

\* All bytes are consumed.
EndOfData ==
  /\ InRuns /\ ptr >= size
  /\ pc' = "done"
  /\ UNCHANGED <<input, ptr, run, left, result, capacity, names, ret>>

\* Mutant: the first name is forgotten.
FreeButFirst ==
  /\ pc = "done"
  /\ names' = IF Len(result) > 0 THEN names - (Len(result) - 1) ELSE names
  /\ result' = <<>> /\ capacity' = 0
  /\ pc' = "idle" /\ ret' = "ok" /\ size' = 0 /\ ptr' = 0 /\ run' = 0 /\ left' = 0
  /\ UNCHANGED <<listing, kind>>

\* The caller is through with the entries: sqfs_dirent_free.
Free ==
  /\ pc = "done"
  /\ names' = names - Len(result)
  /\ result' = <<>> /\ capacity' = 0
  /\ pc' = "idle" /\ ret' = "ok" /\ size' = 0 /\ ptr' = 0 /\ run' = 0 /\ left' = 0
  /\ UNCHANGED <<listing, kind>>

Next ==
  \/ Read \/ Header \/ ParseEntry \/ BadDir \/ NoMemory \/ NoData \/ EndOfData \/ Free

Spec == Init /\ [][Next]_vars

-----------------------------------------------------------------------------
\* How many entries the runs have, and what entry e of run r is, as directory.h
\* defines it.
Counts(l) == [r \in DOMAIN l |-> Len(l[r].entries)]

Meant(r, e) ==
  [name |-> e.name, ino |-> r.base + e.delta, ref |-> <<r.start, e.offset>>,
   type |-> e.type]

\* Every entry of every run, in order, and no other.
Everything ==
  /\ Len(result) = Total(Counts(listing), Len(listing))
  /\ \A r \in DOMAIN listing : \A i \in DOMAIN listing[r].entries :
       result[Total(Counts(listing), r - 1) + i] = Meant(listing[r], listing[r].entries[i])

WellFormed ==
  \A r \in DOMAIN listing : \A i \in DOMAIN listing[r].entries :
    listing[r].entries[i].type \in 1 .. 7

\* A listing that is accepted gives every entry of every run, in order, each
\* with its own name, reference and inode number; and a well-formed listing of
\* a basic directory is accepted.
ListingComplete ==
  pc = "done" =>
    /\ ret = "ok" => Everything
    /\ WellFormed /\ kind = "dir" => ret # "bad_dir"

\* A well-formed directory of either kind can be listed.
\* (The code does not keep this: README, section 6.)
EveryKindListable == pc = "done" /\ WellFormed => ret # "bad_dir"

\* The names alive are those of the entries in the array: none is lost when the
\* parser gives up half way, none freed twice; and the array is never written
\* beyond what was allocated for it (parse_directory_entries, sqfs_dirent_free).
NamesOwned == names = Len(result) /\ Len(result) <= capacity

=============================================================================
