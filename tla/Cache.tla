------------------------------- MODULE Cache -------------------------------
(***************************************************************************)
(* The generic LRU cache of src/core/cache.c: a hash table with chaining   *)
(* and an LRU list over the same entries, both guarded by one              *)
(* pthread_rwlock, called by the worker threads of the FUSE session.       *)
(*                                                                         *)
(* A step is what runs between two points where another thread can see     *)
(* the difference: taking the lock, the load and the store of a counter    *)
(* that is bumped under the READ lock, each turn of the eviction loop,     *)
(* the insertion, the resize.  Data is abstracted: a key is a model value  *)
(* with a hash, a struct cache_entry is an identity of Entries, a cached   *)
(* buffer an identity of Bufs; both are malloc'ed and reused once freed.   *)
(* heap[b] remembers for which key the caller filled b.                    *)
(*                                                                         *)
(* The callers are any callers that keep the contract of cache.h: they put *)
(* a buffer they own, give it up when put succeeds and free it when put    *)
(* fails, and dereference what get returned before their next call.        *)
(***************************************************************************)
EXTENDS Integers, Sequences, FiniteSets

CONSTANTS
  Threads,         \* FUSE worker threads
  Keys,            \* cache_key_t
  Entries,         \* struct cache_entry allocations
  Bufs,            \* value buffers
  Hash,            \* cache_hash: a number for every key
  Sizes,           \* Sizes[k]: the memory_size values a put of k may carry
  max_entries,     \* limits given to sqfs_cache_init
  max_memory,
  INITIAL_BUCKETS, \* CACHE_INITIAL_BUCKETS, scaled down for TLC
  BUCKET_CAP,      \* the 65536 of sqfs_cache_init, scaled down for TLC
  MaxCalls,        \* bound: API calls in a behaviour
  NoThread, NoKey, NoBuf

ASSUME ConstantTypes ==
  /\ Hash \in [Keys -> Nat]
  /\ Sizes \in [Keys -> SUBSET Nat]
  /\ max_entries \in Nat /\ max_memory \in Nat
  /\ INITIAL_BUCKETS \in Nat \ {0} /\ BUCKET_CAP \in Nat
  /\ MaxCalls \in Nat

\* sqfs_cache_init refuses max_entries = 0 with EINVAL.
ASSUME MaxEntriesPositive == max_entries > 0

ASSUME Sentinels == NoThread \notin Threads /\ NoKey \notin Keys /\ NoBuf \notin Bufs

VARIABLES
  phase,           \* "sizing" (in sqfs_cache_init), "ready" or "destroyed"
  readers, writer, \* the pthread_rwlock
  lru,             \* the LRU list, head (most recently used) first
  entry,           \* struct cache_entry: key, value, memory_size
  bucket_count,
  buckets,         \* the chains: the entries hanging off each bucket
  current_entries, current_memory,
  hits, misses,
  heap,            \* buffer -> key it was filled for, NoKey when freed
  pc, key, ptr, mem, seen, \* per thread: where it is and its locals
  lookups,         \* history: get calls that have counted their lookup
  calls            \* history: API calls made, for the bound MaxCalls

lockVars  == <<readers, writer>>
tableVars == <<lru, entry, bucket_count, buckets, current_entries, current_memory>>
statVars  == <<hits, misses, lookups>>
locals    == <<pc, key, ptr, mem, seen>>
vars      == <<phase, lockVars, tableVars, statVars, heap, locals, calls>>

-----------------------------------------------------------------------------
(***************************************************************************)
(* The two structures and the operations on them.                          *)
(***************************************************************************)
NoEntry == [key |-> NoKey, value |-> NoBuf, memory_size |-> 0]

\* The entries on the LRU list: exactly the allocated ones.
Listed == {lru[i] : i \in 1 .. Len(lru)}

\* Mutant: the buffer is not freed.
NeverFreed(b) == heap

\* free_fn on a buffer.
FreeBuf(b) == [heap EXCEPT ![b] = NoKey]

\* Position of an entry on the list, and the list without it (lru_remove).
PosOf(e) == CHOOSE i \in 1 .. Len(lru) : lru[i] = e

LruRemove(e) ==
  [j \in 1 .. Len(lru) - 1 |-> IF j < PosOf(e) THEN lru[j] ELSE lru[j + 1]]

\* lru_insert_head on a list s.
LruInsertHead(e, s) == <<e>> \o s

\* Mutant: a used entry keeps its place.
KeepPlace(e) == lru

\* lru_move_to_head: the entry that is already the head stays where it is.
LruMoveToHead(e) ==
  IF lru[1] = e THEN lru ELSE LruInsertHead(e, LruRemove(e))

\* The bucket index of a key: its hash masked by bucket_count - 1.
Slot(k, count) == Hash[k] % count

\* Mutant: the chain is not searched for the key.
FirstInChain(k) == buckets[Slot(k, bucket_count)]

\* hash_find walks the chain of the key's own bucket only.
Found(k) == {e \in buckets[Slot(k, bucket_count)] : entry[e].key = k}
Find(k)  == CHOOSE e \in Found(k) : TRUE

HashInsert(e, k) == [buckets EXCEPT ![Slot(k, bucket_count)] = @ \union {e}]

\* hash_remove unlinks the entry of key k from the chain of k's bucket.
HashRemove(k) == [buckets EXCEPT ![Slot(k, bucket_count)] = @ \ {Find(k)}]

\* Mutant: the entries are filed under the old mask.
RehashOldMask(count) ==
  [i \in 0 .. count - 1 |-> {e \in Listed : Slot(entry[e].key, bucket_count) = i}]

\* Mutant: the new array is one bucket too long.
RehashTooLong(count) ==
  [i \in 0 .. count |-> {e \in Listed : Slot(entry[e].key, count) = i}]

\* The rehash loop of cache_resize_if_needed: every listed entry, newly filed.
Rehash(count) ==
  [i \in 0 .. count - 1 |-> {e \in Listed : Slot(entry[e].key, count) = i}]

\* The load factor test: current_entries > bucket_count * 0.75.
Overloaded == 4 * current_entries > 3 * bucket_count

\* Mutant: the memory the new value needs is not counted.
EvictDoneNoNeed(m) ==
  \/ lru = <<>>
  \/ current_entries < max_entries /\ current_memory <= max_memory

\* The exit test of the loop in cache_evict.
EvictDone(m) ==
  \/ lru = <<>>
  \/ current_entries < max_entries /\ current_memory + m <= max_memory

\* Unlink entry e, take it off the books and free it with its value: the
\* common tail of cache_evict and sqfs_cache_remove.
DropEntry(e) ==
  /\ buckets' = HashRemove(entry[e].key)
  /\ lru' = LruRemove(e)
  /\ current_entries' = current_entries - 1
  /\ current_memory' = current_memory - entry[e].memory_size
  /\ heap' = FreeBuf(entry[e].value)
  /\ entry' = [entry EXCEPT ![e] = NoEntry]
  /\ UNCHANGED bucket_count

\* Mutant: the count of entries is not reset.
FreeAllKeepsCount ==
  /\ heap' = [b \in Bufs |->
                IF \E e \in Listed : entry[e].value = b THEN NoKey ELSE heap[b]]
  /\ entry' = [e \in Entries |-> IF e \in Listed THEN NoEntry ELSE entry[e]]
  /\ lru' = <<>>
  /\ current_memory' = 0
  /\ UNCHANGED current_entries

\* Free every entry on the list with its value: the loop shared by
\* sqfs_cache_clear and sqfs_cache_destroy.
FreeAll ==
  /\ heap' = [b \in Bufs |->
                IF \E e \in Listed : entry[e].value = b THEN NoKey ELSE heap[b]]
  /\ entry' = [e \in Entries |-> IF e \in Listed THEN NoEntry ELSE entry[e]]
  /\ lru' = <<>>
  /\ current_entries' = 0
  /\ current_memory' = 0

-----------------------------------------------------------------------------
(***************************************************************************)
(* The lock, and moving a thread from one point to the next.               *)
(***************************************************************************)
Goto(t, from, to) == pc[t] = from /\ pc' = [pc EXCEPT ![t] = to]

RdLock(t)   == writer = NoThread /\ readers' = readers \union {t} /\ UNCHANGED writer
\* Mutant: the read lock is not released.
LeftLocked(t) == UNCHANGED lockVars

RdUnlock(t) == readers' = readers \ {t} /\ UNCHANGED writer

\* Mutant: a writer does not wait for readers.
WrLockDespiteReaders(t) == writer = NoThread /\ writer' = t /\ UNCHANGED readers

WrLock(t)   == writer = NoThread /\ readers = {} /\ writer' = t /\ UNCHANGED readers
WrUnlock    == writer' = NoThread /\ UNCHANGED readers

\* A thread enters the API (within the bound) with its arguments.
Call(t, to, k, b, m) ==
  /\ phase = "ready" /\ calls < MaxCalls
  /\ calls' = calls + 1
  /\ Goto(t, "idle", to)
  /\ key' = [key EXCEPT ![t] = k]
  /\ ptr' = [ptr EXCEPT ![t] = b]
  /\ mem' = [mem EXCEPT ![t] = m]
  /\ UNCHANGED <<phase, lockVars, tableVars, statVars, seen>>

\* Back to the caller's own code, locals dead.
Leave(t, from) ==
  /\ Goto(t, from, "idle")
  /\ key' = [key EXCEPT ![t] = NoKey]
  /\ ptr' = [ptr EXCEPT ![t] = NoBuf]
  /\ mem' = [mem EXCEPT ![t] = 0]
  /\ seen' = [seen EXCEPT ![t] = 0]
  /\ UNCHANGED <<phase, lockVars, tableVars, statVars, calls>>

-----------------------------------------------------------------------------
(***************************************************************************)
(* sqfs_cache_init (by the mounting thread, before any worker runs).       *)
(***************************************************************************)
Init ==
  /\ phase = "sizing"
  /\ readers = {} /\ writer = NoThread
  /\ lru = <<>>
  /\ entry = [e \in Entries |-> NoEntry]
  /\ bucket_count = INITIAL_BUCKETS
  /\ buckets = [i \in 0 .. INITIAL_BUCKETS - 1 |-> {}]
  /\ current_entries = 0 /\ current_memory = 0
  /\ hits = 0 /\ misses = 0 /\ lookups = 0
  /\ heap = [b \in Bufs |-> NoKey]
  /\ pc = [t \in Threads |-> "idle"]
  /\ key = [t \in Threads |-> NoKey]
  /\ ptr = [t \in Threads |-> NoBuf]
  /\ mem = [t \in Threads |-> 0]
  /\ seen = [t \in Threads |-> 0]
  /\ calls = 0

TooFewBuckets == bucket_count < max_entries /\ bucket_count < BUCKET_CAP

\* One turn of the loop that doubles the bucket count; the table itself is
\* allocated (empty) only after the loop.
InitGrow ==
  /\ phase = "sizing" /\ TooFewBuckets
  /\ bucket_count' = 2 * bucket_count
  /\ buckets' = [i \in 0 .. 2 * bucket_count - 1 |-> {}]
  /\ UNCHANGED <<phase, lockVars, lru, entry, current_entries, current_memory,
                 statVars, heap, locals, calls>>

InitDone ==
  /\ phase = "sizing" /\ ~TooFewBuckets
  /\ phase' = "ready"
  /\ UNCHANGED <<lockVars, tableVars, statVars, heap, locals, calls>>

-----------------------------------------------------------------------------
(***************************************************************************)
(* sqfs_cache_get                                                          *)
(***************************************************************************)
CallGet(t, k) ==
  /\ Call(t, "get_rdlock", k, NoBuf, 0)
  /\ UNCHANGED heap

GetRdLock(t) ==
  /\ Goto(t, "get_rdlock", "get_find")
  /\ RdLock(t)
  /\ UNCHANGED <<phase, tableVars, statVars, heap, key, ptr, mem, seen, calls>>

\* hash_find under the read lock.  hits++ and misses++ are a load and a store:
\* the read lock is shared, so another reader may come in between.
GetFindHit(t) ==
  /\ Goto(t, "get_find", "get_hit")
  /\ Found(key[t]) # {}
  /\ ptr' = [ptr EXCEPT ![t] = entry[Find(key[t])].value]
  /\ seen' = [seen EXCEPT ![t] = hits]
  /\ UNCHANGED <<phase, lockVars, tableVars, statVars, heap, key, mem, calls>>

GetFindMiss(t) ==
  /\ Goto(t, "get_find", "get_miss")
  /\ Found(key[t]) = {}
  /\ seen' = [seen EXCEPT ![t] = misses]
  /\ UNCHANGED <<phase, lockVars, tableVars, statVars, heap, key, ptr, mem, calls>>

\* The store of hits++, then the read lock is given up before the write lock
\* is asked for.
GetHit(t) ==
  /\ Goto(t, "get_hit", "get_wrlock")
  /\ hits' = seen[t] + 1
  /\ lookups' = lookups + 1
  /\ RdUnlock(t)
  /\ UNCHANGED <<phase, tableVars, misses, heap, key, ptr, mem, seen, calls>>

GetMiss(t) ==
  /\ Goto(t, "get_miss", "missed")
  /\ misses' = seen[t] + 1
  /\ lookups' = lookups + 1
  /\ RdUnlock(t)
  /\ UNCHANGED <<phase, tableVars, hits, heap, key, ptr, mem, seen, calls>>

GetWrLock(t) ==
  /\ Goto(t, "get_wrlock", "get_touch")
  /\ WrLock(t)
  /\ UNCHANGED <<phase, tableVars, statVars, heap, key, ptr, mem, seen, calls>>

\* Mutant: a hit whose entry has gone in the gap is counted as a miss as well.
TouchCountsMiss(t) ==
  /\ Goto(t, "get_touch", "using")
  /\ lru' = IF Found(key[t]) # {} THEN LruMoveToHead(Find(key[t])) ELSE lru
  /\ misses' = IF Found(key[t]) # {} THEN misses ELSE misses + 1
  /\ WrUnlock
  /\ UNCHANGED <<phase, entry, bucket_count, buckets, current_entries,
                 current_memory, hits, lookups, heap, key, ptr, mem, seen, calls>>

\* Re-find under the write lock: the entry may have gone or been replaced in
\* the gap.  The pointer returned is the one read before the gap.
GetTouch(t) ==
  /\ Goto(t, "get_touch", "using")
  /\ lru' = IF Found(key[t]) # {} THEN LruMoveToHead(Find(key[t])) ELSE lru
  /\ WrUnlock
  /\ UNCHANGED <<phase, entry, bucket_count, buckets, current_entries,
                 current_memory, statVars, heap, key, ptr, mem, seen, calls>>

\* The caller has copied out of the buffer get returned; or get returned NULL.
EndUse(t)    == Leave(t, "using") /\ UNCHANGED heap
AfterMiss(t) == Leave(t, "missed") /\ UNCHANGED heap

-----------------------------------------------------------------------------
(***************************************************************************)
(* sqfs_cache_put                                                          *)
(***************************************************************************)
\* The caller fills a fresh buffer for k and puts it.  A value larger than the
\* whole cache is refused (E2BIG) before the lock is touched.
CallPut(t, k, b, m) ==
  /\ heap[b] = NoKey
  /\ m \in Sizes[k]
  /\ Call(t, IF m > max_memory THEN "put_err" ELSE "put_wrlock", k, b, m)
  /\ heap' = [heap EXCEPT ![b] = k]

PutWrLock(t) ==
  /\ Goto(t, "put_wrlock", "put_find")
  /\ WrLock(t)
  /\ UNCHANGED <<phase, tableVars, statVars, heap, key, ptr, mem, seen, calls>>

\* Mutant: the size of the replaced value stays on the books.
ReplacedMemoryAdded(e, m) == current_memory + m

\* The books and the entry when its value is replaced.
ReplacedMemory(e, m) == current_memory - entry[e].memory_size + m

\* Mutant: the entry keeps the pointer that was just freed.
OldValueKept(e, b, m) == [entry EXCEPT ![e].memory_size = m]

Replaced(e, b, m) == [entry EXCEPT ![e].value = b, ![e].memory_size = m]

\* The key is cached: the value is replaced in place, the old one freed.  No
\* eviction on this path.
PutReplace(t) ==
  LET e == Find(key[t]) IN
  /\ Goto(t, "put_find", "put_ok")
  /\ Found(key[t]) # {}
  /\ current_memory' = ReplacedMemory(e, mem[t])
  /\ heap' = FreeBuf(entry[e].value)
  /\ entry' = Replaced(e, ptr[t], mem[t])
  /\ lru' = LruMoveToHead(e)
  /\ WrUnlock
  /\ UNCHANGED <<phase, bucket_count, buckets, current_entries, statVars, key,
                 ptr, mem, seen, calls>>

PutFindNone(t) ==
  /\ Goto(t, "put_find", "put_evict")
  /\ Found(key[t]) = {}
  /\ UNCHANGED <<phase, lockVars, tableVars, statVars, heap, key, ptr, mem, seen, calls>>

\* One turn of cache_evict: the tail goes.
PutEvict(t) ==
  /\ pc[t] = "put_evict"
  /\ ~EvictDone(mem[t])
  /\ DropEntry(lru[Len(lru)])
  /\ UNCHANGED <<phase, lockVars, statVars, locals, calls>>

\* After the loop: no room (ENOSPC) or cache_entry_new fails (ENOMEM).  malloc
\* may fail at any time, so this is possible whatever current_entries is.
PutFail(t) ==
  /\ Goto(t, "put_evict", "put_err")
  /\ EvictDone(mem[t])
  /\ WrUnlock
  /\ UNCHANGED <<phase, tableVars, statVars, heap, key, ptr, mem, seen, calls>>

PutInsert(t, e) ==
  /\ Goto(t, "put_evict", "put_resize")
  /\ EvictDone(mem[t])
  /\ current_entries < max_entries
  /\ e \notin Listed
  /\ entry' = [entry EXCEPT ![e] = [key |-> key[t], value |-> ptr[t],
                                    memory_size |-> mem[t]]]
  /\ buckets' = HashInsert(e, key[t])
  /\ lru' = LruInsertHead(e, lru)
  /\ current_entries' = current_entries + 1
  /\ current_memory' = current_memory + mem[t]
  /\ UNCHANGED <<phase, lockVars, bucket_count, statVars, heap, key, ptr, mem,
                 seen, calls>>

\* cache_resize_if_needed: nothing to do, or the calloc of the larger table
\* failed and the cache goes on with the old one.
PutKeepBuckets(t) ==
  /\ Goto(t, "put_resize", "put_ok")
  /\ WrUnlock
  /\ UNCHANGED <<phase, tableVars, statVars, heap, key, ptr, mem, seen, calls>>

PutResize(t) ==
  /\ Goto(t, "put_resize", "put_ok")
  /\ Overloaded
  /\ bucket_count' = 2 * bucket_count
  /\ buckets' = Rehash(2 * bucket_count)
  /\ WrUnlock
  /\ UNCHANGED <<phase, lru, entry, current_entries, current_memory, statVars,
                 heap, key, ptr, mem, seen, calls>>

\* The caller after put: the cache owns the buffer, or the caller frees it.
AfterPut(t) == Leave(t, "put_ok") /\ UNCHANGED heap

AfterPutErr(t) ==
  /\ Leave(t, "put_err")
  /\ heap' = FreeBuf(ptr[t])

-----------------------------------------------------------------------------
(***************************************************************************)
(* sqfs_cache_remove, sqfs_cache_clear, sqfs_cache_destroy                 *)
(***************************************************************************)
CallRemove(t, k) ==
  /\ Call(t, "rem_wrlock", k, NoBuf, 0)
  /\ UNCHANGED heap

RemoveWrLock(t) ==
  /\ Goto(t, "rem_wrlock", "rem_find")
  /\ WrLock(t)
  /\ UNCHANGED <<phase, tableVars, statVars, heap, key, ptr, mem, seen, calls>>

Remove(t) ==
  /\ Goto(t, "rem_find", "removed")
  /\ Found(key[t]) # {}
  /\ DropEntry(Find(key[t]))
  /\ WrUnlock
  /\ UNCHANGED <<phase, statVars, key, ptr, mem, seen, calls>>

RemoveNone(t) ==
  /\ Goto(t, "rem_find", "removed")
  /\ Found(key[t]) = {}
  /\ WrUnlock
  /\ UNCHANGED <<phase, tableVars, statVars, heap, key, ptr, mem, seen, calls>>

CallClear(t) ==
  /\ Call(t, "clr_wrlock", NoKey, NoBuf, 0)
  /\ UNCHANGED heap

ClearWrLock(t) ==
  /\ Goto(t, "clr_wrlock", "clr_free")
  /\ WrLock(t)
  /\ UNCHANGED <<phase, tableVars, statVars, heap, key, ptr, mem, seen, calls>>

Clear(t) ==
  /\ Goto(t, "clr_free", "removed")
  /\ FreeAll
  /\ buckets' = [i \in 0 .. bucket_count - 1 |-> {}]
  /\ WrUnlock
  /\ UNCHANGED <<phase, bucket_count, statVars, key, ptr, mem, seen, calls>>

AfterRemove(t) == Leave(t, "removed") /\ UNCHANGED heap

\* destroy_context runs after the FUSE session has joined its workers.
Destroy ==
  /\ phase = "ready"
  /\ \A t \in Threads : pc[t] = "idle"
  /\ phase' = "destroyed"
  /\ FreeAll
  /\ bucket_count' = 0 /\ buckets' = [i \in {} |-> {}]
  /\ hits' = 0 /\ misses' = 0 /\ lookups' = 0
  /\ UNCHANGED <<lockVars, locals, calls>>

Unmounted == phase = "destroyed" /\ UNCHANGED vars

-----------------------------------------------------------------------------
Get(t) ==
  \/ GetRdLock(t) \/ GetFindHit(t) \/ GetFindMiss(t) \/ GetHit(t) \/ GetMiss(t)
  \/ GetWrLock(t) \/ GetTouch(t)

Put(t) ==
  \/ PutWrLock(t) \/ PutReplace(t) \/ PutFindNone(t) \/ PutEvict(t)
  \/ PutFail(t) \/ (\E e \in Entries : PutInsert(t, e))
  \/ PutKeepBuckets(t) \/ PutResize(t)

RemoveOrClear(t) ==
  RemoveWrLock(t) \/ Remove(t) \/ RemoveNone(t) \/ ClearWrLock(t) \/ Clear(t)

Caller(t) ==
  EndUse(t) \/ AfterMiss(t) \/ AfterPut(t) \/ AfterPutErr(t) \/ AfterRemove(t)

\* What a thread does on its own once it has entered the API.
Step(t) == Get(t) \/ Put(t) \/ RemoveOrClear(t) \/ Caller(t)

Enter(t) ==
  \/ \E k \in Keys : CallGet(t, k) \/ CallRemove(t, k)
  \/ \E k \in Keys, b \in Bufs : \E m \in Sizes[k] : CallPut(t, k, b, m)
  \/ CallClear(t)

Mount == InitGrow \/ InitDone \/ Destroy \/ Unmounted

Next == Mount \/ \E t \in Threads : Enter(t) \/ Step(t)

Spec == Init /\ [][Next]_vars

-----------------------------------------------------------------------------
(***************************************************************************)
(* Properties                                                              *)
(***************************************************************************)
ReadHeld  == {"get_find", "get_hit", "get_miss"}
WriteHeld == {"get_touch", "put_find", "put_evict", "put_resize", "rem_find", "clr_free"}
\* The caller, or put on its behalf, owns the buffer it passes.
PutOwned  == {"put_wrlock", "put_find", "put_evict", "put_err"}
Outside   == {"idle", "get_rdlock", "get_wrlock", "using", "missed", "put_wrlock",
              "put_ok", "put_err", "rem_wrlock", "clr_wrlock", "removed"}

\* The variables have their types.
TypeOK ==
  /\ phase \in {"sizing", "ready", "destroyed"}
  /\ readers \in SUBSET Threads
  /\ writer \in Threads \union {NoThread}
  /\ lru \in Seq(Entries)
  /\ entry \in [Entries -> [key : Keys \union {NoKey}, value : Bufs \union {NoBuf},
                            memory_size : Nat]]
  /\ bucket_count \in Nat
  /\ buckets \in [0 .. bucket_count - 1 -> SUBSET Entries]
  /\ current_entries \in Int /\ current_memory \in Int
  /\ hits \in Nat /\ misses \in Nat /\ lookups \in Nat /\ calls \in Nat
  /\ heap \in [Bufs -> Keys \union {NoKey}]
  /\ pc \in [Threads -> ReadHeld \union WriteHeld \union Outside]
  /\ key \in [Threads -> Keys \union {NoKey}]
  /\ ptr \in [Threads -> Bufs \union {NoBuf}]
  /\ mem \in [Threads -> Nat]
  /\ seen \in [Threads -> Nat]

\* The rwlock as cache.c uses it: a thread is inside a read (write) section
\* exactly when it holds the lock in that mode, so no unlock is missing on any
\* path, and a writer is alone.
LockDiscipline ==
  /\ \A t \in Threads : t \in readers <=> pc[t] \in ReadHeld
  /\ \A t \in Threads : writer = t <=> pc[t] \in WriteHeld
  /\ writer # NoThread => readers = {}

\* No entry is linked twice into the LRU list.
ListLinksOnce == \A i, j \in 1 .. Len(lru) : lru[i] = lru[j] => i = j

\* The chains hold exactly the listed entries, each in the bucket its key
\* hashes to under the current bucket_count, so that hash_find reaches it:
\* also after resizes, failed resizes and removals.
ChainsMatchList ==
  /\ \A i \in 0 .. bucket_count - 1 : \A e \in buckets[i] :
       e \in Listed /\ Slot(entry[e].key, bucket_count) = i
  /\ \A e \in Listed : /\ entry[e].key \in Keys
                       /\ e \in buckets[Slot(entry[e].key, bucket_count)]

\* A key is cached at most once, whatever puts of it raced.
KeysUnique == \A d, e \in Listed : entry[d].key = entry[e].key => d = e

StructureOK == ListLinksOnce /\ ChainsMatchList /\ KeysUnique

\* current_entries is the number of entries, and never above max_entries.
EntriesBounded == current_entries = Len(lru) /\ Len(lru) <= max_entries

\* Ownership of buffers: a cached value is allocated and was filled for the key
\* it is cached under, no two entries share one, and what a put still owns is
\* allocated, not cached yet and nobody else's.  Hence free_fn is called once
\* per buffer: no double free, and get never finds a freed value or another
\* key's.
BufsOwnedOnce ==
  /\ \A e \in Listed : /\ entry[e].value \in Bufs
                       /\ heap[entry[e].value] = entry[e].key
  /\ \A d, e \in Listed : entry[d].value = entry[e].value => d = e
  /\ \A t \in Threads : pc[t] \in PutOwned =>
       /\ ptr[t] \in Bufs
       /\ key[t] \in Keys
       /\ heap[ptr[t]] = key[t]
       /\ \A e \in Listed : entry[e].value # ptr[t]
       /\ \A u \in Threads : pc[u] \in PutOwned /\ ptr[u] = ptr[t] => u = t

\* The buffer has somebody who will free it: the cache, or a put in progress.
Owned(b) ==
  \/ \E e \in Listed : entry[e].value = b
  \/ \E t \in Threads : pc[t] \in PutOwned /\ ptr[t] = b

\* Nothing leaks: an allocated buffer is cached, or owned by a put in progress.
\* After sqfs_cache_destroy nothing is allocated.
NoLeak == \A b \in Bufs : heap[b] # NoKey => Owned(b)

\* Where the threads can be: the table is there while they run, a call about a
\* key has one, and the key a put is about to insert is not cached.
CallsSane ==
  /\ phase # "destroyed" => bucket_count > 0
  /\ phase # "ready" => lru = <<>> /\ \A t \in Threads : pc[t] = "idle"
  /\ \A t \in Threads :
       pc[t] \notin {"idle", "clr_wrlock", "clr_free", "removed"} => key[t] \in Keys
  /\ \A t \in Threads : pc[t] = "put_evict" =>
       \A e \in Listed : entry[e].key # key[t]

\* The inductive invariant behind the proofs of CacheProofs.
IInv ==
  /\ TypeOK /\ LockDiscipline /\ CallsSane
  /\ StructureOK /\ EntriesBounded /\ BufsOwnedOnce

\* n bytes of an entry.
Bytes(e, n) == {e} \X (1 .. n)

\* The bytes that the cached entries are charged for.
Charged == UNION {Bytes(e, entry[e].memory_size) : e \in Listed}

\* current_memory is the sum of memory_size over the cached entries: it never
\* drifts, through replacement, eviction, removal and clear.
MemoryExact == current_memory = Cardinality(Charged)

\* current_memory stays within the limit of sqfs_cache_init ("Maximum memory
\* usage in bytes", cache.h).
MemoryWithinLimit == current_memory <= max_memory

\* hits and misses count the lookups made so far.
\* (Two threads do not keep this: README, section 6.)
LookupsCounted == hits + misses = lookups

\* What is left of it with any number of threads: the increments that race under
\* the read lock may lose lookups, and even take the counters back, but nothing
\* is ever counted twice, also when a hit finds its entry gone between the locks.
LookupsNotInvented == hits + misses <= lookups

\* A pointer sqfs_cache_get returned is still the buffer of the key that was
\* asked for while the caller reads through it.
NoUseAfterFree == \A t \in Threads : pc[t] = "using" => heap[ptr[t]] = key[t]

\* The list is in the order of use: a put leaves its value, new or replaced, and
\* a get the entry it found (unless it went in the gap between the locks), at
\* the end that the eviction reaches last, whatever other calls did meanwhile.
UsedIsMostRecent ==
  [][\A t \in Threads :
       /\ pc[t] # "put_ok" /\ pc'[t] = "put_ok" =>
            /\ lru' # <<>>
            /\ entry'[lru'[1]].key = key[t] /\ entry'[lru'[1]].value = ptr[t]
       /\ pc[t] # "using" /\ pc'[t] = "using" =>
            \A e \in Listed' : entry'[e].key = key[t] => e = lru'[1]]_vars

\* While a reader is in its section nobody changes the table under it.
ReadersUndisturbed == [][readers # {} => UNCHANGED tableVars]_vars

=============================================================================
