----------------------------- MODULE BlockCache -----------------------------
(***************************************************************************)
(* The two users of the data cache, composed with Cache: the block loop of *)
(* sqfs_data_read_internal (src/core/data.c) and sqfs_fragment_read        *)
(* (src/core/fragment.c).  Both look a block up, copy out of it on a hit,  *)
(* and on a miss read it from the image, wrap it in a fresh entry and put  *)
(* it.  They differ in what they do around the put:                        *)
(*   - a data read copies out of its own block_buf and ignores the result  *)
(*     of the put;                                                         *)
(*   - a fragment read copies out of the very buffer it has just put, and  *)
(*     frees it itself when the put failed.                                *)
(* Blocks and fragments share one cache but not one key space: the key is  *)
(* the position on disk for the one, the index in the table for the other. *)
(***************************************************************************)
EXTENDS Cache

CONSTANTS
  Blocks,    \* data blocks, by position in the image
  Frags,     \* fragment blocks, by index in the fragment table
  CacheKey,  \* sqfs_data_block_cache_key and sqfs_fragment_cache_key
  NoJob,
  Zeros      \* bytes that memset left in the reply

ASSUME JobTypes ==
  /\ Blocks \intersect Frags = {}
  /\ CacheKey \in [Blocks \union Frags -> Keys]
  /\ {NoJob, Zeros} \intersect (Blocks \union Frags) = {}
  /\ NoJob # Zeros

VARIABLES
  job,       \* thread -> the block or fragment it is reading, or NoJob
  staged,    \* thread -> what it has in hand between the miss and the put: the
             \* "bytes" of the block, the "entry" to cache and the entry's "data"
  content,   \* buffer -> the block or fragment whose bytes it holds
  served     \* history: thread -> <<what it was asked for, what it returned>>
             \* by its last successful read, <<>> when that read failed

blockVars == <<vars, job, staged, content, served>>

Jobs == Blocks \union Frags

BInit ==
  /\ Init
  /\ job = [t \in Threads |-> NoJob]
  /\ staged = [t \in Threads |-> {}]
  /\ content = [b \in Bufs |-> NoJob]
  /\ served = [t \in Threads |-> <<>>]

\* The request is over: these bytes are the reply, and `kept` is what the thread
\* has not freed of what it staged.  (The bytes go with its own block_buf.)
Reply(t, bytes, kept) ==
  /\ job' = [job EXCEPT ![t] = NoJob]
  /\ staged' = [staged EXCEPT ![t] = kept \ {"bytes"}]
  /\ served' = [served EXCEPT ![t] = <<job[t], bytes>>]
  /\ UNCHANGED content

\* The request is over with an error.  sqfs_data_read_internal returns it for a
\* data block; for a fragment, read_from_fragment answers with zeros instead.
ReplyError(t, kept) ==
  /\ job' = [job EXCEPT ![t] = NoJob]
  /\ staged' = [staged EXCEPT ![t] = kept \ {"bytes"}]
  /\ served' = [served EXCEPT ![t] =
                  IF job[t] \in Blocks THEN <<>> ELSE <<job[t], Zeros>>]
  /\ UNCHANGED content

Working == UNCHANGED <<job, staged, content, served>>

\* The read of a block starts with the lookup.  (The bound MaxCalls leaves every
\* read under way the call of its put.)
StartRead(t, j) ==
  /\ job[t] = NoJob
  /\ calls + Cardinality({u \in Threads : job[u] # NoJob}) + 2 <= MaxCalls
  /\ CallGet(t, CacheKey[j])
  /\ job' = [job EXCEPT ![t] = j]
  /\ served' = [served EXCEPT ![t] = <<>>]
  /\ UNCHANGED <<staged, content>>

\* A hit: memcpy out of the cached buffer, whatever bytes it holds by now.
CopyCached(t) ==
  /\ EndUse(t)
  /\ Reply(t, content[ptr[t]], staged[t])

\* sqfs_cache_get returned NULL.
Missed(t) ==
  /\ AfterMiss(t)
  /\ Working

\* After a miss, inside the request and outside the cache.
Filling(t) == pc[t] = "idle" /\ job[t] # NoJob

\* What a fragment read has to have before it reads the block; a data read needs
\* nothing, it reads into its own block_buf.
ReadyToRead(t) ==
  Filling(t) /\ "bytes" \notin staged[t]
  /\ (job[t] \in Frags => {"entry", "data"} \subseteq staged[t])

\* When the entry to cache is allocated: at once by a fragment read, after the
\* block has been read by a data read.
EntryWanted(t) ==
  Filling(t) /\ "entry" \notin staged[t]
  /\ (job[t] \in Blocks => "bytes" \in staged[t])

DataWanted(t) == Filling(t) /\ "entry" \in staged[t] /\ "data" \notin staged[t]

Stage(t, what) ==
  /\ staged' = [staged EXCEPT ![t] = @ \union {what}]
  /\ UNCHANGED <<vars, job, content, served>>

\* sqfs_fragment_cache_entry_free, sqfs_data_block_cache_free: the entry and its
\* data.
EntryFree(s) == s \ {"entry", "data"}

\* pread and decompress.
ReadDone(t) == ReadyToRead(t) /\ Stage(t, "bytes")

ReadFailed(t) ==
  /\ ReadyToRead(t)
  /\ ReplyError(t, EntryFree(staged[t]))
  /\ UNCHANGED vars

NewEntry(t) == EntryWanted(t) /\ Stage(t, "entry")

\* (Bound: one of Bufs is left for it.)
NewData(t) ==
  /\ DataWanted(t)
  /\ Cardinality({u \in Threads : "data" \in staged[u]})
       < Cardinality({b \in Bufs : heap[b] = NoKey})
  /\ Stage(t, "data")

\* Something cannot be allocated.  A data read goes on without the cache and
\* copies out of block_buf; a fragment read gives up.
GiveUp(t, kept) ==
  /\ IF job[t] \in Blocks THEN Reply(t, job[t], kept) ELSE ReplyError(t, kept)
  /\ UNCHANGED vars

NoEntryMemory(t) == EntryWanted(t) /\ GiveUp(t, staged[t])

NoDataMemory(t) == DataWanted(t) /\ GiveUp(t, EntryFree(staged[t]))

\* The entry, filled, is put: from here on it is the buffer b.
PutBlock(t, b) ==
  /\ Filling(t) /\ {"entry", "data", "bytes"} \subseteq staged[t]
  /\ \E m \in Sizes[CacheKey[job[t]]] : CallPut(t, CacheKey[job[t]], b, m)
  /\ content' = [content EXCEPT ![b] = job[t]]
  /\ staged' = [staged EXCEPT ![t] = {}]
  /\ UNCHANGED <<job, served>>

\* Mutant: the entry is freed although the cache has taken it.
DataFreesPut(t) ==
  /\ job[t] \in Blocks
  /\ Leave(t, "put_ok")
  /\ heap' = FreeBuf(ptr[t])
  /\ Reply(t, job[t], staged[t])

\* A data read after its put: the bytes come from block_buf whether the put
\* succeeded or not, and after a failed put nobody frees the entry.
DataAfterPut(t) ==
  /\ job[t] \in Blocks
  /\ AfterPut(t)
  /\ Reply(t, job[t], staged[t])

DataAfterPutErr(t) ==
  /\ job[t] \in Blocks
  /\ Leave(t, "put_err")
  /\ UNCHANGED heap
  /\ Reply(t, job[t], staged[t])

\* A fragment read after its put goes on to read the buffer the cache now owns.
FragKeepsUsing(t) ==
  /\ job[t] \in Frags
  /\ Goto(t, "put_ok", "using")
  /\ UNCHANGED <<phase, lockVars, tableVars, statVars, heap, key, ptr, mem, seen, calls>>
  /\ Working

\* Mutant: the fragment read forgets its buffer when the put failed.
FragForgets(t) ==
  /\ job[t] \in Frags
  /\ Leave(t, "put_err")
  /\ UNCHANGED heap
  /\ Reply(t, job[t], staged[t])

FragAfterPutErr(t) ==
  /\ job[t] \in Frags
  /\ AfterPutErr(t)
  /\ Reply(t, job[t], staged[t])

-----------------------------------------------------------------------------
\* The steps inside sqfs_cache_get and sqfs_cache_put.
InCache(t) == (Get(t) \/ Put(t)) /\ Working

Client(t) ==
  \/ CopyCached(t) \/ Missed(t) \/ ReadDone(t) \/ ReadFailed(t)
  \/ NewEntry(t) \/ NewData(t) \/ NoEntryMemory(t) \/ NoDataMemory(t)
  \/ \E b \in Bufs : PutBlock(t, b)
  \/ DataAfterPut(t) \/ DataAfterPutErr(t) \/ FragKeepsUsing(t) \/ FragAfterPutErr(t)

BDestroy == (\A t \in Threads : job[t] = NoJob) /\ Destroy /\ Working

BNext ==
  \/ (InitGrow \/ InitDone \/ Unmounted) /\ Working
  \/ BDestroy
  \/ \E t \in Threads :
       (\E j \in Jobs : StartRead(t, j)) \/ InCache(t) \/ Client(t)

BSpec == BInit /\ [][BNext]_blockVars

\* The scheduler runs every thread that is inside a read.
BFairSpec ==
  BSpec /\ \A t \in Threads : WF_blockVars(InCache(t) \/ Client(t))

-----------------------------------------------------------------------------
\* A read that succeeds returns the bytes of the block or fragment it was asked
\* for (or zeros in the place of an unreadable fragment): never those of
\* another one that is or was in the cache.
\* (The code does not keep this: README, section 6.)
NoForeignBytes ==
  \A t \in Threads : served[t] # <<>> => served[t][2] \in {served[t][1], Zeros}

\* What the cache does guarantee, whatever the keys are: the bytes come from a
\* block or fragment with the key that was asked for, however entries are
\* chained, evicted, replaced and their buffers reused.
BytesOfTheKey ==
  \A t \in Threads : served[t] # <<>> =>
    \/ served[t][2] = Zeros
    \/ served[t][2] \in Jobs /\ CacheKey[served[t][2]] = CacheKey[served[t][1]]

\* A fragment that cannot be read is an error, not a run of zeros.
\* (The code does not keep this: README, section 6.)
ErrorsReported == \A t \in Threads : served[t] # <<>> => served[t][2] # Zeros

\* No fragment buffer is lost: it is cached or in the hands of a reader, on
\* every path through sqfs_fragment_read; and no read ends with an entry, or
\* the data of one, that it allocated and did not put.
FragmentsNotLeaked ==
  /\ \A b \in Bufs : heap[b] # NoKey /\ content[b] \in Frags => Owned(b)
  /\ \A t \in Threads : job[t] = NoJob => staged[t] = {}

\* Every read of a block is answered, whatever fails on the way.
EveryReadReplies == \A t \in Threads : job[t] # NoJob ~> job[t] = NoJob

=============================================================================
