------------------------------- MODULE Xattr -------------------------------
(***************************************************************************)
(* Extended attributes (src/core/xattr.c): the table of attribute sets is  *)
(* loaded once; a request names a set, whose pairs of key and value start  *)
(* somewhere in a metadata block.  read_xattr_pairs goes over the block    *)
(* twice, to count the pairs up to its end and to copy them; the caller    *)
(* searches or lists the copies and frees them.                            *)
(*                                                                         *)
(* A block is a sequence of pairs; behind the last there may be the first  *)
(* part of one that goes on in the next block: "few", less than the        *)
(* smallest key, or "cut", more than that.  A key is a name with a length, *)
(* a value is a number with a size.                                        *)
(***************************************************************************)
EXTENDS Integers, Sequences, SequencesExt, FiniteSetsExt

CONSTANTS
  Images,    \* [no_xattrs: the flag, valid: whether there is a table,
             \* entries: Seq([block, first, count]): the records behind its header,
             \* blocks: Seq([pairs: Seq([key, prefix, value, size]), tail])]
  Keys,      \* names that are asked for
  KeyLen,    \* [keys -> strlen of the full name]
  Sizes,     \* sizes of the caller's buffer
  SECURITY   \* the last prefix that is known, SQFS_XATTR_PREFIX_SECURITY

None == -1   \* SQFS_XATTR_INVALID_IDX, and the size that stands for no buffer

ASSUME XattrConstants == Sizes \subseteq Nat /\ SECURITY \in Nat

Pair == [key : DOMAIN KeyLen, prefix : Nat, value : Nat, size : Nat]

ASSUME XattrImages ==
  \A i \in Images :
    /\ i.blocks \in Seq([pairs : Seq(Pair), tail : {"none", "few", "cut"}])
    /\ i.entries \in Seq([block : DOMAIN i.blocks, first : Nat \ {0}, count : Nat])

VARIABLES
  image,
  loaded,      \* ctx->xattr_table
  pc,          \* "idle"; in sqfs_xattr_table_load "header", "entries", "records";
               \* in read_xattr_pairs "buffer", "read", "count", "key", "value",
               \* "undo"; "use", the caller; "free", free_xattr_pairs; "done"
  call,        \* [op, idx, key, size]
  result,      \* the pairs copied so far
  pair_count,
  next,        \* the next pair that "undo" or "free" frees
  ret, out_size, out,
  heap,        \* what is allocated
  wild,        \* history: something was freed that is not allocated
  fault        \* history: I/O or an allocation failed in this call

memory == <<heap, wild>>
answer == <<ret, out_size, out>>
vars == <<image, loaded, pc, call, result, pair_count, next, answer, memory, fault>>

NoCall == [op |-> "none", idx |-> None, key |-> "none", size |-> None]

\* The cells on the heap.
Table   == {<<"xattr_table", 0>>}
Entries == {<<"entries", 0>>}
Buffer  == {<<"block_buf", 0>>}
Array   == {<<"result", 0>>}
Key(i)  == {<<"key", i>>}
Value(i) == {<<"value", i>>}

Init ==
  /\ image \in Images
  /\ loaded = FALSE
  /\ pc = "idle" /\ call = NoCall
  /\ result = <<>> /\ pair_count = 0 /\ next = 1
  /\ ret = "ok" /\ out_size = 0 /\ out = <<>>
  /\ heap = {} /\ wild = FALSE /\ fault = FALSE

Allocate(cells) == heap' = heap \union cells /\ UNCHANGED wild

Free(cells) ==
  /\ heap' = heap \ cells
  /\ wild' = (wild \/ ~(cells \subseteq heap))

\* Go on at label.
Step(label) ==
  /\ pc' = label
  /\ UNCHANGED <<answer, fault>>

\* The call ends with r.
Leave(r) ==
  /\ pc' = "done" /\ ret' = r
  /\ UNCHANGED <<out_size, out, fault>>

\* The system makes it go on at label, where it ends with r.
Fault(label, r) ==
  /\ pc' = label /\ ret' = r /\ fault' = TRUE
  /\ UNCHANGED <<out_size, out>>

-----------------------------------------------------------------------------
(***************************************************************************)
(* sqfs_xattr_table_load, sqfs_xattr_table_destroy                         *)
(***************************************************************************)
LoadTable ==
  /\ pc = "idle" /\ ~loaded
  /\ call' = [NoCall EXCEPT !.op = "load"]
  /\ IF image.no_xattrs \/ ~image.valid
       THEN Leave("not_found") /\ UNCHANGED memory
       ELSE \/ Allocate(Table) /\ Step("header")
            \/ Fault("done", "no_memory") /\ UNCHANGED memory
  /\ UNCHANGED <<image, loaded, result, pair_count, next>>

ReadHeader ==
  /\ pc = "header"
  /\ \/ /\ image.entries = <<>>
        /\ loaded' = TRUE /\ Leave("ok") /\ UNCHANGED memory
     \/ /\ image.entries # <<>>
        /\ Step("entries") /\ UNCHANGED <<loaded, memory>>
     \/ Free(Table) /\ Fault("done", "io") /\ UNCHANGED loaded
  /\ UNCHANGED <<image, call, result, pair_count, next>>

AllocEntries ==
  /\ pc = "entries"
  /\ \/ Allocate(Entries) /\ Step("records")
     \/ Free(Table) /\ Fault("done", "no_memory")
  /\ UNCHANGED <<image, loaded, call, result, pair_count, next>>

\* One read per entry; what was allocated is freed when one fails, and
\* ctx->xattr_table is NULL again.
ReadEntries ==
  /\ pc = "records"
  /\ \/ loaded' = TRUE /\ Leave("ok") /\ UNCHANGED memory
     \/ Free(Entries \union Table) /\ Fault("done", "io") /\ UNCHANGED loaded
  /\ UNCHANGED <<image, call, result, pair_count, next>>

\* The cells of a table that is loaded: without entries, there is no array.
LoadedTable == Table \union (IF image.entries = <<>> THEN {} ELSE Entries)

DestroyTable ==
  /\ pc = "idle" /\ loaded
  /\ loaded' = FALSE
  /\ Free(LoadedTable)
  /\ UNCHANGED <<image, pc, call, result, pair_count, next, answer, fault>>

-----------------------------------------------------------------------------
(***************************************************************************)
(* sqfs_xattr_get and sqfs_xattr_list up to read_xattr_pairs               *)
(***************************************************************************)
\* The early returns: no table; no attributes, which is an error for one of
\* them and an empty list for the other; an index beyond the table.
Refusal(c) ==
  CASE ~loaded -> "not_found"
    [] loaded /\ c.idx = None -> IF c.op = "get" THEN "not_found" ELSE "ok"
    [] loaded /\ c.idx # None /\ c.idx >= Len(image.entries) -> "bad_xattr"
    [] OTHER -> "none"

Call(c) ==
  /\ pc = "idle"
  /\ call' = c
  /\ IF Refusal(c) = "none" THEN Step("buffer") ELSE Leave(Refusal(c))
  /\ UNCHANGED <<image, loaded, result, pair_count, next, memory>>

Entry == image.entries[call.idx + 1]
Block == image.blocks[Entry.block]

\* The pairs from the entry's place to the end of its block.
Rest == SubSeq(Block.pairs, Entry.first, Len(Block.pairs))

-----------------------------------------------------------------------------
(***************************************************************************)
(* read_xattr_pairs                                                        *)
(***************************************************************************)
AllocBuffer ==
  /\ pc = "buffer"
  /\ \/ Allocate(Buffer) /\ Step("read")
     \/ Fault("done", "no_memory") /\ UNCHANGED memory
  /\ UNCHANGED <<image, loaded, call, result, pair_count, next>>

ReadBlock ==
  /\ pc = "read"
  /\ \/ Step("count") /\ UNCHANGED memory
     \/ Free(Buffer) /\ Fault("done", "io")
  /\ UNCHANGED <<image, loaded, call, result, pair_count, next>>

\* The first loop ends well, at the end of the block or at less than a key.
Countable == Block.tail # "cut" /\ \A i \in DOMAIN Rest : Rest[i].prefix <= SECURITY

BadPairs ==
  /\ pc = "count" /\ ~Countable
  /\ Free(Buffer) /\ Leave("bad_xattr")
  /\ UNCHANGED <<image, loaded, call, result, pair_count, next>>

NoPairs ==
  /\ pc = "count" /\ Countable /\ Rest = <<>>
  /\ Free(Buffer) /\ Step("use")
  /\ UNCHANGED <<image, loaded, call, result, pair_count, next>>

\* The number of pairs is that of the block, not that of the entry.
CountPairs ==
  /\ pc = "count" /\ Countable /\ Rest # <<>>
  /\ \/ pair_count' = Len(Rest) /\ Allocate(Array) /\ Step("key")
     \/ Free(Buffer) /\ Fault("done", "no_memory") /\ UNCHANGED pair_count
  /\ UNCHANGED <<image, loaded, call, result, next>>

\* The pair the second loop is at, result[idx].
idx == Len(result) + 1

CopyKey ==
  /\ pc = "key" /\ Len(result) < pair_count
  /\ Allocate(Key(idx)) /\ Step("value")
  /\ UNCHANGED <<image, loaded, call, result, pair_count, next>>

KeyFails ==
  /\ pc = "key" /\ Len(result) < pair_count
  /\ Fault("undo", "no_memory") /\ next' = 1
  /\ UNCHANGED <<image, loaded, call, result, pair_count, memory>>

CopyValue ==
  /\ pc = "value"
  /\ result' = Append(result, Rest[idx])
  /\ Allocate(Value(idx)) /\ Step("key")
  /\ UNCHANGED <<image, loaded, call, pair_count, next>>

\* Mutant: the key of the pair is left behind.
ValueKeepsKey ==
  /\ pc = "value"
  /\ Free({}) /\ Fault("undo", "no_memory") /\ next' = 1
  /\ UNCHANGED <<image, loaded, call, result, pair_count>>

\* The key that is there already is freed first.
ValueFails ==
  /\ pc = "value"
  /\ Free(Key(idx)) /\ Fault("undo", "no_memory") /\ next' = 1
  /\ UNCHANGED <<image, loaded, call, result, pair_count>>

Filled ==
  /\ pc = "key" /\ Len(result) = pair_count
  /\ Free(Buffer) /\ Step("use")
  /\ UNCHANGED <<image, loaded, call, result, pair_count, next>>

\* The loops of the error exits, over the pairs before result[idx], and that of
\* free_xattr_pairs, over all of them.
FreePair ==
  /\ pc \in {"undo", "free"} /\ next <= Len(result)
  /\ Free(Key(next) \union Value(next))
  /\ next' = next + 1
  /\ UNCHANGED <<image, loaded, pc, call, result, pair_count, answer, fault>>

Undone ==
  /\ pc = "undo" /\ next > Len(result)
  /\ Free(Array \union Buffer)
  /\ pc' = "done" /\ result' = <<>> /\ pair_count' = 0
  /\ UNCHANGED <<image, loaded, call, next, answer, fault>>

\* Without pairs there is no array.
PairsFreed ==
  /\ pc = "free" /\ next > Len(result)
  /\ Free(IF result = <<>> THEN {} ELSE Array)
  /\ pc' = "done" /\ result' = <<>> /\ pair_count' = 0
  /\ UNCHANGED <<image, loaded, call, next, answer, fault>>

-----------------------------------------------------------------------------
(***************************************************************************)
(* The rest of sqfs_xattr_get and sqfs_xattr_list                          *)
(***************************************************************************)
\* Mutant: the last one wins.
LastMatch(key) == Max({i \in DOMAIN result : result[i].key = key})

\* The search stops at the first pair with the name.
Match(key) == Min({i \in DOMAIN result : result[i].key = key})

\* Every exit goes through free_xattr_pairs.
Return(r) ==
  /\ pc' = "free" /\ ret' = r /\ next' = 1
  /\ UNCHANGED <<image, loaded, call, result, pair_count, memory, fault>>

Get ==
  /\ pc = "use" /\ call.op = "get"
  /\ IF \E i \in DOMAIN result : result[i].key = call.key
       THEN LET p == result[Match(call.key)] IN
            /\ out_size' = p.size
            /\ out' = IF call.size >= p.size THEN <<p.value>> ELSE <<>>
            /\ Return(IF call.size # None /\ call.size < p.size THEN "overflow" ELSE "ok")
       ELSE Return("not_found") /\ UNCHANGED <<out_size, out>>

ListedKeys == [i \in DOMAIN result |-> result[i].key]

\* Mutant: the zero bytes are not counted.
NamesOnly == FoldLeft(LAMBDA n, k : n + KeyLen[k], 0, ListedKeys)

\* The bytes of some names, a zero byte behind each.
NameBytes(keys) == FoldLeft(LAMBDA n, k : n + KeyLen[k] + 1, 0, keys)

TotalSize == NameBytes(ListedKeys)

List ==
  /\ pc = "use" /\ call.op = "list"
  /\ out_size' = TotalSize
  /\ out' = IF call.size # None /\ call.size >= TotalSize THEN ListedKeys ELSE <<>>
  /\ Return(IF call.size = None \/ call.size >= TotalSize THEN "ok" ELSE "overflow")

Done ==
  /\ pc = "done"
  /\ pc' = "idle" /\ call' = NoCall /\ ret' = "ok" /\ out_size' = 0 /\ out' = <<>>
  /\ fault' = FALSE
  /\ UNCHANGED <<image, loaded, result, pair_count, next, memory>>

Calls ==
  [op : {"get"}, idx : None .. Len(image.entries), key : Keys, size : Sizes \union {None}]
    \union [op : {"list"}, idx : None .. Len(image.entries), key : {"none"},
            size : Sizes \union {None}]

Next ==
  \/ LoadTable \/ ReadHeader \/ AllocEntries \/ ReadEntries \/ DestroyTable
  \/ \E c \in Calls : Call(c)
  \/ AllocBuffer \/ ReadBlock \/ BadPairs \/ NoPairs \/ CountPairs
  \/ CopyKey \/ KeyFails \/ CopyValue \/ ValueFails \/ Filled
  \/ FreePair \/ Undone \/ PairsFreed
  \/ Get \/ List \/ Done

Spec == Init /\ [][Next]_vars

-----------------------------------------------------------------------------
\* The pairs the entry names, as far as they are in its block.
Own ==
  LET last == Entry.first + Entry.count - 1
  IN  SubSeq(Block.pairs, Entry.first,
             IF last <= Len(Block.pairs) THEN last ELSE Len(Block.pairs))

\* The answer is there, and nothing failed.
Answered(op) ==
  /\ pc \in {"free", "done"} /\ call.op = op /\ ~fault
  /\ loaded /\ call.idx \in 0 .. Len(image.entries) - 1

\* An attribute of the inode is found, with its own value and size, although the
\* pairs of other inodes that follow in the block may have the same name; and in
\* a buffer it fits, or its size is reported (read_xattr_pairs, sqfs_xattr_get).
GetOwn ==
  Answered("get") /\ Countable =>
    \A i \in DOMAIN Own :
      Own[i].key = call.key /\ (\A j \in 1 .. i - 1 : Own[j].key # call.key) =>
        /\ out_size = Own[i].size
        /\ ret = (IF call.size = None \/ call.size >= Own[i].size THEN "ok" ELSE "overflow")
        /\ ret = "ok" /\ call.size # None => out = <<Own[i].value>>

\* The inode's own names come first in the list, in their order and none left
\* out, and what is copied fits the caller's buffer, zero bytes included
\* (sqfs_xattr_list).
ListOwn ==
  Answered("list") /\ ret = "ok" /\ call.size # None =>
    /\ Len(out) >= Len(Own) /\ \A i \in DOMAIN Own : out[i] = Own[i].key
    /\ call.size >= NameBytes(out)

\* Between two calls exactly the table is allocated, and only while it is loaded:
\* no exit of the loader, of the parser (the one with a key and no value among
\* them) or of its callers loses an allocation or frees one that is not there
\* (read_xattr_pairs, free_xattr_pairs, sqfs_xattr_table_load).
OnlyTheTable ==
  /\ ~wild
  /\ pc = "idle" => heap = IF loaded THEN LoadedTable ELSE {}

\* Only the inode's own attributes are found and listed.
\* (The code does not keep this: README, section 6.)
OnlyOwn ==
  /\ Answered("get") /\ ret = "ok" => \E i \in DOMAIN Own : Own[i].key = call.key
  /\ Answered("list") /\ ret = "ok" /\ call.size # None => Len(out) = Len(Own)

\* The attributes of an inode can be read if they are in order, whatever follows
\* them in the block.
\* (The code does not keep this: README, section 6.)
OwnReadable ==
  /\ Answered("get") \/ Answered("list")
  /\ \A i \in DOMAIN Own : Own[i].prefix <= SECURITY
  /\ Entry.first + Entry.count - 1 <= Len(Block.pairs)
  => ret # "bad_xattr"

=============================================================================
