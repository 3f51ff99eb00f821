---------------------------- MODULE CacheProofs ----------------------------
(***************************************************************************)
(* Proofs about Cache, for any number of threads, keys, entries and        *)
(* buffers, any hash function, any limits and any sequence of calls: its   *)
(* invariants, and that it implements LossyMap.  For the latter, every     *)
(* step of Cache that keeps IInv is, through the mapping of                *)
(* CacheRefinement, a step of the map or none.  The last part is about     *)
(* BlockCache, whose readers are threads of Cache that go beyond its       *)
(* contract in two steps.                                                  *)
(***************************************************************************)
EXTENDS CacheRefinement, BlockCache, SequenceTheorems, FiniteSetTheorems, TLAPS

(***************************************************************************)
(* The LRU list.                                                           *)
(***************************************************************************)
Elems(s) == {s[i] : i \in 1 .. Len(s)}
Linked(s) == \A i, j \in 1 .. Len(s) : s[i] = s[j] => i = j

\* lru_remove unlinks exactly the given entry and keeps the rest linked once.
LEMMA LruRemoveFacts ==
  ASSUME lru \in Seq(Entries), ListLinksOnce, NEW e \in Listed
  PROVE  /\ LruRemove(e) \in Seq(Entries)
         /\ Len(LruRemove(e)) = Len(lru) - 1
         /\ Elems(LruRemove(e)) = Listed \ {e}
         /\ Linked(LruRemove(e))
  <1> DEFINE p == PosOf(e)
             r == LruRemove(e)
  <1>1. Len(lru) \in Nat /\ \A i \in 1 .. Len(lru) : lru[i] \in Entries
    BY ElementOfSeq, LenProperties
  <1>2. p \in 1 .. Len(lru) /\ lru[p] = e
    BY DEF PosOf, Listed
  <1>3. \A j \in 1 .. Len(lru) - 1 : r[j] = IF j < p THEN lru[j] ELSE lru[j + 1]
    BY DEF LruRemove
  <1>4. Len(lru) - 1 \in Nat
    BY <1>1, <1>2
  <1>5. r \in [1 .. Len(lru) - 1 -> Entries]
    BY <1>1, <1>2, <1>4 DEF LruRemove
  <1>6. r \in Seq(Entries) /\ Len(r) = Len(lru) - 1
    BY <1>4, <1>5, SeqDef, LenProperties
  <1>7. \A i, j \in 1 .. Len(lru) - 1 : r[i] = r[j] => i = j
    BY <1>1, <1>2, <1>3 DEF ListLinksOnce
  <1>8. \A i \in 1 .. Len(lru) - 1 : r[i] \in Listed \ {e}
    BY <1>1, <1>2, <1>3 DEF ListLinksOnce, Listed
  <1>9. \A d \in Listed \ {e} : \E i \in 1 .. Len(lru) - 1 : r[i] = d
    <2> SUFFICES ASSUME NEW d \in Listed, d # e
                 PROVE  \E i \in 1 .. Len(lru) - 1 : r[i] = d
      OBVIOUS
    <2>1. PICK q \in 1 .. Len(lru) : lru[q] = d
      BY DEF Listed
    <2>2. q # p
      BY <1>2, <2>1
    <2>3. CASE q < p
      BY <1>1, <1>2, <1>3, <2>1, <2>3
    <2>4. CASE q > p
      <3>1. q - 1 \in 1 .. Len(lru) - 1 /\ ~(q - 1 < p) /\ (q - 1) + 1 = q
        BY <1>1, <1>2, <2>4
      <3>2. r[q - 1] = d
        BY <1>3, <2>1, <3>1
      <3> QED
        BY <3>1, <3>2
    <2> QED
      BY <1>1, <1>2, <2>2, <2>3, <2>4
  <1> HIDE DEF r
  <1>10. Elems(r) = Listed \ {e}
    BY <1>6, <1>8, <1>9 DEF Elems
  <1>11. Linked(r)
    BY <1>6, <1>7 DEF Linked
  <1> QED
    BY <1>6, <1>10, <1>11 DEF r

\* lru_insert_head of an entry that is not on the list.
LEMMA InsertHeadFacts ==
  ASSUME NEW s \in Seq(Entries), Linked(s), NEW e \in Entries, e \notin Elems(s)
  PROVE  /\ LruInsertHead(e, s) \in Seq(Entries)
         /\ Len(LruInsertHead(e, s)) = Len(s) + 1
         /\ Elems(LruInsertHead(e, s)) = Elems(s) \union {e}
         /\ Linked(LruInsertHead(e, s))
  <1> DEFINE r == LruInsertHead(e, s)
  <1>1. r \in Seq(Entries) /\ Len(r) = Len(s) + 1 /\ Len(s) \in Nat
    BY DEF LruInsertHead
  <1>2. \A i \in 1 .. Len(s) + 1 : r[i] = IF i = 1 THEN e ELSE s[i - 1]
    BY <1>1 DEF LruInsertHead
  <1>3. \A i \in 1 .. Len(s) + 1 : i # 1 => i - 1 \in 1 .. Len(s)
    BY <1>1
  <1> HIDE DEF r
  <1>4. Linked(r)
    <2> SUFFICES ASSUME NEW i \in 1 .. Len(s) + 1, NEW j \in 1 .. Len(s) + 1,
                        r[i] = r[j]
                 PROVE  i = j
      BY <1>1 DEF Linked
    <2>1. CASE i = 1 \/ j = 1
      BY <1>2, <1>3, <2>1 DEF Elems
    <2>2. CASE i # 1 /\ j # 1
      <3>1. s[i - 1] = s[j - 1] /\ i - 1 \in 1 .. Len(s) /\ j - 1 \in 1 .. Len(s)
        BY <1>2, <1>3, <2>2
      <3> QED
        BY <3>1 DEF Linked
    <2> QED
      BY <2>1, <2>2
  <1>5. \A i \in 1 .. Len(s) : i + 1 \in 1 .. Len(s) + 1 /\ r[i + 1] = s[i]
    BY <1>1, <1>2
  <1>6. \A i \in 1 .. Len(s) + 1 : r[i] \in Elems(s) \union {e}
    BY <1>2, <1>3 DEF Elems
  <1>7. \A d \in Elems(s) \union {e} : \E i \in 1 .. Len(s) + 1 : r[i] = d
    <2> SUFFICES ASSUME NEW d \in Elems(s) \union {e}
                 PROVE  \E i \in 1 .. Len(s) + 1 : r[i] = d
      OBVIOUS
    <2>1. CASE d = e
      BY <1>1, <1>2, <2>1
    <2>2. CASE d \in Elems(s)
      BY <1>5, <2>2 DEF Elems
    <2> QED
      BY <2>1, <2>2
  <1>8. Elems(r) = Elems(s) \union {e}
    BY <1>1, <1>6, <1>7 DEF Elems
  <1> QED
    BY <1>1, <1>4, <1>8 DEF r

\* lru_move_to_head reorders the list and neither loses nor duplicates.
LEMMA MoveToHeadFacts ==
  ASSUME lru \in Seq(Entries), ListLinksOnce, NEW e \in Listed
  PROVE  /\ LruMoveToHead(e) \in Seq(Entries)
         /\ Len(LruMoveToHead(e)) = Len(lru)
         /\ Elems(LruMoveToHead(e)) = Listed
         /\ Linked(LruMoveToHead(e))
  <1>1. Len(lru) \in Nat /\ e \in Entries
    BY DEF Listed
  <1>2. CASE lru[1] = e
    BY <1>2 DEF LruMoveToHead, Elems, Listed, Linked, ListLinksOnce
  <1>3. CASE lru[1] # e
    <2> DEFINE r == LruRemove(e)
    <2>1. /\ r \in Seq(Entries) /\ Len(r) = Len(lru) - 1
          /\ Elems(r) = Listed \ {e} /\ Linked(r)
      BY LruRemoveFacts
    <2>2. LruMoveToHead(e) = LruInsertHead(e, r)
      BY <1>3 DEF LruMoveToHead
    <2>3. e \notin Elems(r)
      BY <2>1
    <2> HIDE DEF r
    <2>4. /\ LruInsertHead(e, r) \in Seq(Entries)
          /\ Len(LruInsertHead(e, r)) = Len(r) + 1
          /\ Elems(LruInsertHead(e, r)) = Elems(r) \union {e}
          /\ Linked(LruInsertHead(e, r))
      BY <1>1, <2>1, <2>3, InsertHeadFacts
    <2> QED
      BY <1>1, <2>1, <2>2, <2>4
  <1> QED
    BY <1>2, <1>3

(***************************************************************************)
(* The hash table.                                                         *)
(***************************************************************************)
\* The bucket index is within the table.
LEMMA SlotType ==
  ASSUME NEW k \in Keys, NEW n \in Nat, n > 0
  PROVE  Slot(k, n) \in 0 .. n - 1
  <1>1. Hash[k] \in Nat
    BY ConstantTypes
  <1> QED
    BY <1>1 DEF Slot

\* hash_find is complete and sound: what it returns is the listed entry of the
\* key, and it finds nothing only when there is none.
LEMMA FindFacts ==
  ASSUME TypeOK, StructureOK, bucket_count > 0, NEW k \in Keys
  PROVE  /\ Found(k) # {} => Find(k) \in Listed /\ entry[Find(k)].key = k
         /\ \A e \in Listed : entry[e].key = k => e \in Found(k) /\ Find(k) = e
  <1>1. Slot(k, bucket_count) \in 0 .. bucket_count - 1
    BY SlotType DEF TypeOK
  <1>2. \A e \in Found(k) : e \in Listed /\ entry[e].key = k
    BY <1>1 DEF Found, StructureOK, ChainsMatchList
  <1>3. Found(k) # {} => Find(k) \in Found(k)
    BY DEF Find
  <1>4. \A e \in Listed : entry[e].key = k => e \in Found(k)
    BY DEF Found, StructureOK, ChainsMatchList
  <1>5. \A d, e \in Found(k) : d = e
    BY <1>2 DEF StructureOK, KeysUnique
  <1> QED
    BY <1>2, <1>3, <1>4, <1>5

(***************************************************************************)
(* What the operations do to the table.                                    *)
(***************************************************************************)
\* The list holds entries.
LEMMA ListedType == ASSUME TypeOK PROVE Listed \subseteq Entries
  BY ElementOfSeq DEF TypeOK, Listed

\* The same list, named as Elems and Linked do.
LEMMA ListedIsElems == /\ Listed = Elems(lru) /\ (ListLinksOnce <=> Linked(lru))
                       /\ Listed' = Elems(lru') /\ (ListLinksOnce' <=> Linked(lru'))
  BY DEF Listed, Elems, ListLinksOnce, Linked

\* DropEntry removes one entry from both structures and frees its buffer.
LEMMA DropFacts ==
  ASSUME TypeOK, StructureOK, EntriesBounded, bucket_count > 0,
         NEW e \in Listed, DropEntry(e)
  PROVE  /\ lru' \in Seq(Entries) /\ Listed' = Listed \ {e}
         /\ entry' \in [Entries -> [key : Keys \union {NoKey},
                                    value : Bufs \union {NoBuf}, memory_size : Nat]]
         /\ \A d \in Listed \ {e} : entry'[d] = entry[d]
         /\ buckets' \in [0 .. bucket_count - 1 -> SUBSET Entries]
         /\ StructureOK' /\ EntriesBounded'
  <1> USE DEF TypeOK
  <1> DEFINE k == entry[e].key
  <1>1. e \in Entries /\ k \in Keys /\ e \in buckets[Slot(k, bucket_count)]
    BY ListedType DEF StructureOK, ChainsMatchList
  <1>2. /\ lru' \in Seq(Entries) /\ Len(lru') = Len(lru) - 1
        /\ Listed' = Listed \ {e} /\ ListLinksOnce'
    <2>1. lru' = LruRemove(e)
      BY DEF DropEntry
    <2>2. /\ lru' \in Seq(Entries) /\ Len(lru') = Len(lru) - 1
          /\ Elems(lru') = Listed \ {e} /\ Linked(lru')
      BY <2>1, LruRemoveFacts DEF StructureOK
    <2> QED
      BY <2>2, ListedIsElems
  <1>3. /\ entry' = [entry EXCEPT ![e] = NoEntry]
        /\ NoEntry \in [key : Keys \union {NoKey}, value : Bufs \union {NoBuf},
                        memory_size : Nat]
    BY DEF DropEntry, NoEntry
  <1>4. /\ entry' \in [Entries -> [key : Keys \union {NoKey},
                                   value : Bufs \union {NoBuf}, memory_size : Nat]]
        /\ \A d \in Listed \ {e} : entry'[d] = entry[d]
    BY <1>1, <1>3 DEF Listed
  <1>5. Find(k) = e
    BY <1>1, FindFacts
  <1>6. buckets' = [buckets EXCEPT ![Slot(k, bucket_count)] = @ \ {e}]
    BY <1>5 DEF DropEntry, HashRemove
  <1>7. Slot(k, bucket_count) \in 0 .. bucket_count - 1
    BY <1>1, SlotType
  <1>8. /\ buckets' \in [0 .. bucket_count - 1 -> SUBSET Entries]
        /\ \A i \in 0 .. bucket_count - 1 : \A d \in Entries :
             d \in buckets'[i] <=> d \in buckets[i] /\ ~(i = Slot(k, bucket_count) /\ d = e)
    BY <1>6, <1>7
  <1>9. bucket_count' = bucket_count
    BY DEF DropEntry
  <1>10. ChainsMatchList'
    <2>1. ASSUME NEW i \in 0 .. bucket_count - 1, NEW d \in buckets'[i]
          PROVE  d \in Listed' /\ Slot(entry'[d].key, bucket_count) = i
      <3>1. d \in buckets[i] /\ ~(i = Slot(k, bucket_count) /\ d = e)
        BY <1>8, <2>1
      <3>2. d \in Listed /\ Slot(entry[d].key, bucket_count) = i
        BY <3>1 DEF StructureOK, ChainsMatchList
      <3>3. d # e
        BY <3>1, <3>2
      <3> QED
        BY <1>2, <1>4, <3>2, <3>3
    <2>2. ASSUME NEW d \in Listed'
          PROVE  entry'[d].key \in Keys /\ d \in buckets'[Slot(entry'[d].key, bucket_count)]
      <3>1. d \in Listed /\ d # e /\ entry'[d] = entry[d] /\ d \in Entries
        BY <1>2, <1>4, <2>2, ListedType
      <3>2. entry[d].key \in Keys /\ d \in buckets[Slot(entry[d].key, bucket_count)]
        BY <3>1 DEF StructureOK, ChainsMatchList
      <3>3. Slot(entry[d].key, bucket_count) \in 0 .. bucket_count - 1
        BY <3>2, SlotType
      <3> QED
        BY <1>8, <3>1, <3>2, <3>3
    <2> QED
      BY <1>9, <2>1, <2>2 DEF ChainsMatchList, Slot
  <1>11. KeysUnique'
    BY <1>2, <1>4 DEF StructureOK, KeysUnique
  <1>12. EntriesBounded'
    BY <1>2, ConstantTypes DEF DropEntry, EntriesBounded
  <1> QED
    BY <1>2, <1>4, <1>8, <1>10, <1>11, <1>12 DEF StructureOK

\* The insertion of a new entry for a key that is not cached.
LEMMA InsertFacts ==
  ASSUME TypeOK, StructureOK, EntriesBounded, BufsOwnedOnce, CallsSane,
         NEW t \in Threads, NEW e \in Entries, PutInsert(t, e)
  PROVE  /\ e \notin Listed
         /\ lru' \in Seq(Entries) /\ Listed' = Listed \union {e}
         /\ entry' \in [Entries -> [key : Keys \union {NoKey},
                                    value : Bufs \union {NoBuf}, memory_size : Nat]]
         /\ \A d \in Listed : entry'[d] = entry[d]
         /\ entry'[e].key = key[t] /\ entry'[e].value = ptr[t]
         /\ buckets' \in [0 .. bucket_count - 1 -> SUBSET Entries]
         /\ StructureOK' /\ EntriesBounded'
  <1> USE DEF TypeOK
  <1>1. /\ e \notin Listed /\ pc[t] = "put_evict" /\ key[t] \in Keys
        /\ bucket_count > 0 /\ \A d \in Listed : entry[d].key # key[t]
    BY DEF PutInsert, Goto, CallsSane
  <1>2. /\ lru' \in Seq(Entries) /\ Len(lru') = Len(lru) + 1
        /\ Listed' = Listed \union {e} /\ ListLinksOnce'
    <2>1. lru' = LruInsertHead(e, lru)
      BY DEF PutInsert
    <2>2. Linked(lru) /\ Elems(lru) = Listed
      BY DEF StructureOK, Linked, ListLinksOnce, Elems, Listed
    <2>3. /\ LruInsertHead(e, lru) \in Seq(Entries)
          /\ Len(LruInsertHead(e, lru)) = Len(lru) + 1
          /\ Elems(LruInsertHead(e, lru)) = Elems(lru) \union {e}
          /\ Linked(LruInsertHead(e, lru))
      BY <1>1, <2>2, InsertHeadFacts
    <2> QED
      BY <2>1, <2>2, <2>3, ListedIsElems
  <1>3. /\ entry' \in [Entries -> [key : Keys \union {NoKey},
                                   value : Bufs \union {NoBuf}, memory_size : Nat]]
        /\ \A d \in Entries : d # e => entry'[d] = entry[d]
        /\ entry'[e].key = key[t] /\ entry'[e].value = ptr[t]
    BY DEF PutInsert
  <1>4. Slot(key[t], bucket_count) \in 0 .. bucket_count - 1
    BY <1>1, SlotType
  <1>5. /\ buckets' \in [0 .. bucket_count - 1 -> SUBSET Entries]
        /\ \A i \in 0 .. bucket_count - 1 : \A d \in Entries :
             d \in buckets'[i] <=>
               d \in buckets[i] \/ (i = Slot(key[t], bucket_count) /\ d = e)
    BY <1>4 DEF PutInsert, HashInsert
  <1>6. bucket_count' = bucket_count
    BY DEF PutInsert
  <1>7. ChainsMatchList'
    <2>1. ASSUME NEW i \in 0 .. bucket_count - 1, NEW d \in buckets'[i]
          PROVE  d \in Listed' /\ Slot(entry'[d].key, bucket_count) = i
      <3>1. d \in Entries
        BY <1>5, <2>1
      <3>2. CASE d \in buckets[i]
        <4>1. d \in Listed /\ Slot(entry[d].key, bucket_count) = i
          BY <3>2 DEF StructureOK, ChainsMatchList
        <4> QED
          BY <1>1, <1>2, <1>3, <3>1, <4>1
      <3>3. CASE i = Slot(key[t], bucket_count) /\ d = e
        BY <1>2, <1>3, <3>3
      <3> QED
        BY <1>5, <2>1, <3>1, <3>2, <3>3
    <2>2. ASSUME NEW d \in Listed'
          PROVE  entry'[d].key \in Keys /\ d \in buckets'[Slot(entry'[d].key, bucket_count)]
      <3>1. CASE d = e
        BY <1>1, <1>3, <1>4, <1>5, <3>1
      <3>2. CASE d # e
        <4>1. d \in Listed /\ entry'[d] = entry[d] /\ d \in Entries
          BY <1>2, <1>3, <2>2, <3>2, ListedType
        <4>2. entry[d].key \in Keys /\ d \in buckets[Slot(entry[d].key, bucket_count)]
          BY <4>1 DEF StructureOK, ChainsMatchList
        <4>3. Slot(entry[d].key, bucket_count) \in 0 .. bucket_count - 1
          BY <1>1, <4>2, SlotType
        <4> QED
          BY <1>5, <4>1, <4>2, <4>3
      <3> QED
        BY <3>1, <3>2
    <2> QED
      BY <1>6, <2>1, <2>2 DEF ChainsMatchList, Slot
  <1>8. \A d \in Listed : entry'[d] = entry[d]
    BY <1>1, <1>3 DEF Listed
  <1>9. KeysUnique'
    BY <1>1, <1>2, <1>3, <1>8, SMTT(30) DEF StructureOK, KeysUnique
  <1>10. EntriesBounded'
    BY <1>2, ConstantTypes DEF PutInsert, EntriesBounded
  <1> QED
    BY <1>1, <1>2, <1>3, <1>5, <1>7, <1>8, <1>9, <1>10 DEF StructureOK

\* A reordered list with the same table keeps the structure.
LEMMA ReorderFacts ==
  ASSUME TypeOK, StructureOK, EntriesBounded, NEW e \in Listed,
         lru' = LruMoveToHead(e), UNCHANGED <<bucket_count, buckets, current_entries>>,
         \A d \in Listed : entry'[d].key = entry[d].key
  PROVE  /\ lru' \in Seq(Entries) /\ Listed' = Listed
         /\ StructureOK' /\ EntriesBounded'
  <1>1. /\ lru' \in Seq(Entries) /\ Len(lru') = Len(lru)
        /\ Listed' = Listed /\ ListLinksOnce'
    BY MoveToHeadFacts, ListedIsElems DEF TypeOK, StructureOK
  <1>2. ChainsMatchList'
    BY <1>1 DEF StructureOK, ChainsMatchList, Slot
  <1>3. KeysUnique'
    BY <1>1 DEF StructureOK, KeysUnique
  <1> QED
    BY <1>1, <1>2, <1>3 DEF StructureOK, EntriesBounded

\* The rehash files every listed entry where hash_find will look for it.
LEMMA ResizeFacts ==
  ASSUME TypeOK, StructureOK, EntriesBounded, CallsSane,
         NEW t \in Threads, PutResize(t)
  PROVE  /\ bucket_count' \in Nat /\ bucket_count' > 0
         /\ buckets' \in [0 .. bucket_count' - 1 -> SUBSET Entries]
         /\ Listed' = Listed /\ StructureOK' /\ EntriesBounded'
  <1>1. bucket_count > 0
    BY DEF PutResize, Goto, CallsSane
  <1>2. /\ bucket_count' = 2 * bucket_count
        /\ buckets' = Rehash(2 * bucket_count)
        /\ lru' = lru /\ entry' = entry /\ current_entries' = current_entries
    BY DEF PutResize
  <1>3. Listed' = Listed
    BY <1>2 DEF Listed
  <1> DEFINE n == 2 * bucket_count
  <1>4. n \in Nat /\ n > 0
    BY <1>1 DEF TypeOK
  <1> HIDE DEF n
  <1>5. /\ buckets' \in [0 .. n - 1 -> SUBSET Entries]
        /\ \A i \in 0 .. n - 1 :
             buckets'[i] = {e \in Listed : Slot(entry[e].key, n) = i}
    BY <1>2, ListedType DEF Rehash, n
  <1>6. \A e \in Listed : entry[e].key \in Keys /\ Slot(entry[e].key, n) \in 0 .. n - 1
    BY <1>4, SlotType DEF StructureOK, ChainsMatchList
  <1>7. bucket_count' = n
    BY <1>2 DEF n
  <1>8. ChainsMatchList'
    BY <1>2, <1>3, <1>5, <1>6, <1>7 DEF ChainsMatchList, Slot
  <1>9. ListLinksOnce' /\ KeysUnique' /\ EntriesBounded'
    BY <1>2, <1>3 DEF StructureOK, ListLinksOnce, KeysUnique, EntriesBounded
  <1> QED
    BY <1>3, <1>4, <1>5, <1>7, <1>8, <1>9 DEF StructureOK

\* Freeing everything leaves empty structures.
LEMMA FreeAllFacts ==
  ASSUME TypeOK, FreeAll
  PROVE  /\ lru' \in Seq(Entries) /\ lru' = <<>> /\ Listed' = {}
         /\ entry' \in [Entries -> [key : Keys \union {NoKey},
                                    value : Bufs \union {NoBuf}, memory_size : Nat]]
         /\ heap' \in [Bufs -> Keys \union {NoKey}]
         /\ ListLinksOnce' /\ KeysUnique' /\ EntriesBounded'
  <1>1. lru' = <<>> /\ current_entries' = 0
    BY DEF FreeAll
  <1>2. Len(lru') = 0 /\ lru' \in Seq(Entries)
    BY <1>1
  <1>3. Listed' = {}
    BY <1>2 DEF Listed
  <1>4. entry' \in [Entries -> [key : Keys \union {NoKey},
                                value : Bufs \union {NoBuf}, memory_size : Nat]]
    BY DEF FreeAll, TypeOK, NoEntry
  <1>5. heap' \in [Bufs -> Keys \union {NoKey}]
    BY DEF FreeAll, TypeOK
  <1>6. ListLinksOnce' /\ KeysUnique'
    BY <1>2, <1>3 DEF ListLinksOnce, KeysUnique
  <1>7. EntriesBounded'
    BY <1>1, <1>2, ConstantTypes DEF EntriesBounded
  <1> QED
    BY <1>1, <1>2, <1>3, <1>4, <1>5, <1>6, <1>7

(***************************************************************************)
(* Each part of the invariant is preserved by every step.                  *)
(***************************************************************************)
\* The steps that touch neither the table nor the heap.
Quiet(t) ==
  \/ GetRdLock(t) \/ GetFindHit(t) \/ GetFindMiss(t) \/ GetHit(t) \/ GetMiss(t)
  \/ GetWrLock(t) \/ PutWrLock(t) \/ PutFindNone(t) \/ PutFail(t) \/ PutKeepBuckets(t)
  \/ RemoveWrLock(t) \/ RemoveNone(t) \/ ClearWrLock(t)
  \/ EndUse(t) \/ AfterMiss(t) \/ AfterPut(t) \/ AfterRemove(t)
  \/ CallClear(t) \/ \E k \in Keys : CallGet(t, k) \/ CallRemove(t, k)

\* The steps that do.
Busy(t) ==
  \/ GetTouch(t) \/ PutReplace(t) \/ PutEvict(t) \/ (\E e \in Entries : PutInsert(t, e))
  \/ PutResize(t) \/ Remove(t) \/ Clear(t) \/ AfterPutErr(t)
  \/ \E k \in Keys, b \in Bufs : \E m \in Sizes[k] : CallPut(t, k, b, m)

\* Every step is a step of the mounting thread, or a quiet or busy step of a worker.
LEMMA StepKinds ==
  ASSUME [Next]_vars
  PROVE  \/ UNCHANGED vars \/ InitGrow \/ InitDone \/ Destroy
         \/ \E t \in Threads : Quiet(t) \/ Busy(t)
  BY Zenon DEF Next, Mount, Enter, Step, Get, Put, RemoveOrClear, Caller, Quiet, Busy,
         Unmounted

\* A quiet step leaves the table and the heap alone.
LEMMA QuietFrame ==
  ASSUME NEW t \in Threads, Quiet(t)
  PROVE  UNCHANGED <<phase, tableVars, heap>>
  BY DEF Quiet, GetRdLock, GetFindHit, GetFindMiss, GetHit, GetMiss, GetWrLock,
         PutWrLock, PutFindNone, PutFail, PutKeepBuckets, RemoveWrLock, RemoveNone,
         ClearWrLock, EndUse, AfterMiss, AfterPut, AfterRemove, CallClear, CallGet,
         CallRemove, Call, Leave, tableVars

\* The typing of the table and of what it manages.
TableTypes ==
  /\ lru \in Seq(Entries)
  /\ entry \in [Entries -> [key : Keys \union {NoKey}, value : Bufs \union {NoBuf},
                            memory_size : Nat]]
  /\ bucket_count \in Nat
  /\ buckets \in [0 .. bucket_count - 1 -> SUBSET Entries]
  /\ current_entries \in Int /\ current_memory \in Int
  /\ heap \in [Bufs -> Keys \union {NoKey}]

\* A put that replaces finds its entry and keeps it in place in the table.
LEMMA ReplaceFacts ==
  ASSUME IInv, NEW t \in Threads, PutReplace(t)
  PROVE  LET e == Find(key[t]) IN
         /\ e \in Listed /\ entry[e].key = key[t]
         /\ entry' = Replaced(e, ptr[t], mem[t])
         /\ \A d \in Listed : entry'[d].key = entry[d].key
         /\ \A d \in Listed : d # e => entry'[d] = entry[d]
         /\ entry'[e].value = ptr[t]
         /\ heap' = [heap EXCEPT ![entry[e].value] = NoKey]
         /\ Listed' = Listed /\ TableTypes' /\ StructureOK' /\ EntriesBounded'
  <1> DEFINE e == Find(key[t])
  <1>1. key[t] \in Keys /\ bucket_count > 0 /\ Found(key[t]) # {}
    BY DEF PutReplace, Goto, IInv, CallsSane
  <1>2. e \in Listed /\ entry[e].key = key[t]
    BY <1>1, FindFacts DEF IInv
  <1> HIDE DEF e
  <1>3. /\ entry' = Replaced(e, ptr[t], mem[t])
        /\ heap' = [heap EXCEPT ![entry[e].value] = NoKey]
        /\ lru' = LruMoveToHead(e)
        /\ current_memory' = current_memory - entry[e].memory_size + mem[t]
        /\ UNCHANGED <<bucket_count, buckets, current_entries>>
    BY DEF PutReplace, FreeBuf, ReplacedMemory, e
  <1>4. e \in Entries /\ Listed \subseteq Entries
    BY <1>2, ListedType DEF IInv
  <1>5. /\ entry' \in [Entries -> [key : Keys \union {NoKey},
                                   value : Bufs \union {NoBuf}, memory_size : Nat]]
        /\ \A d \in Entries : entry'[d].key = entry[d].key
        /\ \A d \in Entries : d # e => entry'[d] = entry[d]
        /\ entry'[e].value = ptr[t]
    BY <1>3, <1>4 DEF Replaced, IInv, TypeOK
  <1>6. /\ lru' \in Seq(Entries) /\ Listed' = Listed
        /\ StructureOK' /\ EntriesBounded'
    BY <1>2, <1>3, <1>4, <1>5, ReorderFacts DEF IInv
  <1>7. TableTypes'
    <2>1. entry[e].memory_size \in Nat /\ mem[t] \in Nat
      BY <1>4 DEF IInv, TypeOK
    <2>2. current_memory' \in Int
      BY <1>3, <2>1 DEF IInv, TypeOK
    <2>3. heap' \in [Bufs -> Keys \union {NoKey}]
      BY <1>3 DEF IInv, TypeOK
    <2> QED
      BY <1>3, <1>5, <1>6, <2>2, <2>3 DEF TableTypes, IInv, TypeOK
  <1> QED
    BY <1>2, <1>3, <1>4, <1>5, <1>6, <1>7 DEF e

\* The eviction loop and remove drop a listed entry.
LEMMA DropStep ==
  ASSUME IInv, NEW t \in Threads, PutEvict(t) \/ Remove(t)
  PROVE  \E e \in Listed : DropEntry(e)
  <1>1. CASE PutEvict(t)
    <2>1. lru # <<>> /\ lru \in Seq(Entries)
      BY <1>1 DEF PutEvict, EvictDone, IInv, TypeOK
    <2>2. lru[Len(lru)] \in Listed
      BY <2>1, EmptySeq DEF Listed
    <2> QED
      BY <1>1, <2>2 DEF PutEvict
  <1>2. CASE Remove(t)
    <2>1. key[t] \in Keys /\ bucket_count > 0 /\ Found(key[t]) # {}
      BY <1>2 DEF Remove, Goto, IInv, CallsSane
    <2>2. Find(key[t]) \in Listed
      BY <2>1, FindFacts DEF IInv
    <2> QED
      BY <1>2, <2>2 DEF Remove
  <1> QED
    BY <1>1, <1>2

\* A busy step keeps the list and the hash table well formed and in agreement.
LEMMA BusyTable ==
  ASSUME IInv, NEW t \in Threads, Busy(t)
  PROVE  TableTypes' /\ StructureOK' /\ EntriesBounded'
  <1> USE DEF IInv
  <1>0. bucket_count > 0
    BY DEF Busy, GetTouch, PutReplace, PutEvict, PutInsert, PutResize, Remove, Clear,
           AfterPutErr, CallPut, Call, Leave, Goto, CallsSane
  <1>1. CASE GetTouch(t)
    <2>1. CASE Found(key[t]) # {}
      <3>1. key[t] \in Keys
        BY <1>1 DEF GetTouch, Goto, CallsSane
      <3>2. Find(key[t]) \in Listed
        BY <1>0, <2>1, <3>1, FindFacts
      <3>3. /\ lru' = LruMoveToHead(Find(key[t]))
            /\ UNCHANGED <<entry, bucket_count, buckets, current_entries,
                           current_memory, heap>>
        BY <1>1, <2>1 DEF GetTouch
      <3>4. lru' \in Seq(Entries) /\ StructureOK' /\ EntriesBounded'
        BY <3>2, <3>3, ReorderFacts
      <3> QED
        BY <3>3, <3>4 DEF TableTypes, TypeOK
    <2>2. CASE Found(key[t]) = {}
      <3>1. UNCHANGED <<tableVars, heap>>
        BY <1>1, <2>2 DEF GetTouch, tableVars
      <3> QED
        BY <3>1 DEF tableVars, TableTypes, TypeOK, StructureOK, ListLinksOnce,
                    ChainsMatchList, KeysUnique, EntriesBounded, Listed
    <2> QED
      BY <2>1, <2>2
  <1>2. CASE PutReplace(t)
    BY <1>2, ReplaceFacts
  <1>3. CASE PutEvict(t) \/ Remove(t)
    <2>1. PICK e \in Listed : DropEntry(e)
      BY <1>3, DropStep
    <2>2. /\ current_entries' = current_entries - 1
          /\ current_memory' = current_memory - entry[e].memory_size
          /\ heap' = [heap EXCEPT ![entry[e].value] = NoKey]
          /\ bucket_count' = bucket_count
      BY <2>1 DEF DropEntry, FreeBuf
    <2>3. e \in Entries
      BY ListedType
    <2>4. /\ lru' \in Seq(Entries) /\ StructureOK' /\ EntriesBounded'
          /\ entry' \in [Entries -> [key : Keys \union {NoKey},
                                     value : Bufs \union {NoBuf}, memory_size : Nat]]
          /\ buckets' \in [0 .. bucket_count - 1 -> SUBSET Entries]
      BY <1>0, <2>1, DropFacts
    <2>5. entry[e].memory_size \in Nat
      BY <2>3 DEF TypeOK
    <2>6. current_entries' \in Int /\ current_memory' \in Int
      BY <2>2, <2>5 DEF TypeOK
    <2>7. heap' \in [Bufs -> Keys \union {NoKey}]
      BY <2>2 DEF TypeOK
    <2> QED
      BY <2>2, <2>4, <2>6, <2>7 DEF TableTypes, TypeOK
  <1>4. CASE \E e \in Entries : PutInsert(t, e)
    <2>1. PICK e \in Entries : PutInsert(t, e)
      BY <1>4
    <2>2. /\ current_entries' = current_entries + 1
          /\ current_memory' = current_memory + mem[t]
          /\ heap' = heap /\ bucket_count' = bucket_count
      BY <2>1 DEF PutInsert
    <2> QED
      BY <2>1, <2>2, InsertFacts DEF TableTypes, TypeOK
  <1>5. CASE PutResize(t)
    <2>1. UNCHANGED <<lru, entry, current_entries, current_memory, heap>>
      BY <1>5 DEF PutResize
    <2> QED
      BY <1>5, <2>1, ResizeFacts DEF TableTypes, TypeOK
  <1>6. CASE Clear(t)
    <2>1. /\ FreeAll /\ bucket_count' = bucket_count
          /\ buckets' = [i \in 0 .. bucket_count - 1 |-> {}]
          /\ current_entries' = 0 /\ current_memory' = 0
      BY <1>6 DEF Clear, FreeAll
    <2>2. ChainsMatchList'
      BY <2>1, FreeAllFacts DEF ChainsMatchList
    <2> QED
      BY <2>1, <2>2, FreeAllFacts DEF TableTypes, TypeOK, StructureOK
  <1>7. CASE AfterPutErr(t) \/ \E k \in Keys, b \in Bufs : \E m \in Sizes[k] : CallPut(t, k, b, m)
    <2>1. UNCHANGED tableVars /\ heap' \in [Bufs -> Keys \union {NoKey}]
      BY <1>7 DEF AfterPutErr, CallPut, Call, Leave, FreeBuf, TypeOK
    <2> QED
      BY <2>1 DEF tableVars, TableTypes, TypeOK, StructureOK, ListLinksOnce,
                  ChainsMatchList, KeysUnique, EntriesBounded, Listed
  <1> QED
    BY <1>1, <1>2, <1>3, <1>4, <1>5, <1>6, <1>7 DEF Busy

\* The typing of everything else.
LocalTypes ==
  /\ phase \in {"sizing", "ready", "destroyed"}
  /\ readers \in SUBSET Threads
  /\ writer \in Threads \union {NoThread}
  /\ hits \in Nat /\ misses \in Nat /\ lookups \in Nat /\ calls \in Nat
  /\ pc \in [Threads -> ReadHeld \union WriteHeld \union Outside]
  /\ key \in [Threads -> Keys \union {NoKey}]
  /\ ptr \in [Threads -> Bufs \union {NoBuf}]
  /\ mem \in [Threads -> Nat]
  /\ seen \in [Threads -> Nat]

\* The type invariant, split into its two halves.
LEMMA TypeParts == /\ TypeOK <=> TableTypes /\ LocalTypes
                   /\ TypeOK' <=> TableTypes' /\ LocalTypes'
  BY DEF TypeOK, TableTypes, LocalTypes

\* Locks are taken and released in step with the sections of the code.
LEMMA LockStep ==
  ASSUME IInv, NEW t \in Threads, Quiet(t) \/ Busy(t)
  PROVE  LocalTypes' /\ LockDiscipline'
  <1>0. LocalTypes /\ LockDiscipline
    BY TypeParts DEF IInv
  <1> USE Sentinels DEF LocalTypes, LockDiscipline, ReadHeld, WriteHeld, Outside, Goto
  <1>1. CASE GetRdLock(t) \/ GetHit(t) \/ GetMiss(t)
    <2>1. CASE GetRdLock(t)
      BY <1>0, <2>1 DEF GetRdLock, RdLock, statVars
    <2>2. CASE GetHit(t)
      BY <1>0, <2>2 DEF GetHit, RdUnlock
    <2>3. CASE GetMiss(t)
      BY <1>0, <2>3 DEF GetMiss, RdUnlock
    <2> QED
      BY <1>1, <2>1, <2>2, <2>3
  <1>2. CASE GetWrLock(t) \/ PutWrLock(t) \/ RemoveWrLock(t) \/ ClearWrLock(t)
    <2>1. /\ WrLock(t) /\ pc[t] \in Outside
          /\ \E to \in WriteHeld : pc' = [pc EXCEPT ![t] = to]
          /\ UNCHANGED <<phase, hits, misses, lookups, calls, key, ptr, mem, seen>>
      BY <1>2 DEF GetWrLock, PutWrLock, RemoveWrLock, ClearWrLock, statVars
    <2> QED
      BY <1>0, <2>1 DEF WrLock
  <1>3. CASE GetTouch(t) \/ PutReplace(t) \/ PutFail(t) \/ PutKeepBuckets(t)
             \/ PutResize(t) \/ Remove(t) \/ RemoveNone(t) \/ Clear(t)
    <2>1. /\ WrUnlock /\ pc[t] \in WriteHeld
          /\ \E to \in {"using", "put_ok", "put_err", "removed"} :
                pc' = [pc EXCEPT ![t] = to]
          /\ UNCHANGED <<phase, hits, misses, lookups, calls, key, ptr, mem, seen>>
      BY <1>3 DEF GetTouch, PutReplace, PutFail, PutKeepBuckets, PutResize, Remove,
                  RemoveNone, Clear, statVars
    <2> QED
      BY <1>0, <2>1 DEF WrUnlock
  <1>4. CASE GetFindHit(t)
    <2>1. entry[Find(key[t])].value \in Bufs \union {NoBuf}
      <3>1. key[t] \in Keys /\ bucket_count > 0 /\ Found(key[t]) # {}
        BY <1>4 DEF GetFindHit, IInv, CallsSane
      <3>2. Find(key[t]) \in Entries
        BY <3>1, FindFacts, ListedType DEF IInv
      <3> QED
        BY <3>2 DEF IInv, TypeOK
    <2> QED
      BY <1>0, <1>4, <2>1 DEF GetFindHit, lockVars, statVars
  <1>5. CASE GetFindMiss(t) \/ PutFindNone(t) \/ PutEvict(t)
             \/ \E e \in Entries : PutInsert(t, e)
    <2>1. CASE GetFindMiss(t)
      BY <1>0, <2>1 DEF GetFindMiss, lockVars, statVars
    <2>2. CASE PutEvict(t)
      BY <1>0, <2>2 DEF PutEvict, lockVars, statVars, locals
    <2>3. CASE PutFindNone(t) \/ \E e \in Entries : PutInsert(t, e)
      <3>1. /\ pc[t] \in WriteHeld /\ \E to \in WriteHeld : pc' = [pc EXCEPT ![t] = to]
            /\ UNCHANGED <<phase, readers, writer, hits, misses, lookups, calls, key,
                           ptr, mem, seen>>
        BY <2>3 DEF PutFindNone, PutInsert, lockVars, statVars
      <3> QED
        BY <1>0, <3>1
    <2> QED
      BY <1>5, <2>1, <2>2, <2>3
  <1>6. CASE EndUse(t) \/ AfterMiss(t) \/ AfterPut(t) \/ AfterPutErr(t) \/ AfterRemove(t)
    <2>1. \E from \in {"using", "missed", "put_ok", "put_err", "removed"} : Leave(t, from)
      BY <1>6 DEF EndUse, AfterMiss, AfterPut, AfterPutErr, AfterRemove
    <2> QED
      BY <1>0, <2>1 DEF Leave, lockVars, statVars
  <1>7. CASE CallClear(t) \/ \E k \in Keys : CallGet(t, k) \/ CallRemove(t, k)
    BY <1>0, <1>7 DEF CallClear, CallGet, CallRemove, Call, lockVars, statVars
  <1>8. CASE \E k \in Keys, b \in Bufs : \E m \in Sizes[k] : CallPut(t, k, b, m)
    <2>1. PICK k \in Keys, b \in Bufs : \E m \in Sizes[k] : CallPut(t, k, b, m)
      BY <1>8
    <2>2. PICK m \in Sizes[k] : CallPut(t, k, b, m)
      BY <2>1
    <2>3. m \in Nat
      BY <2>2, ConstantTypes
    <2>4. \E to \in {"put_err", "put_wrlock"} : Call(t, to, k, b, m)
      BY <2>2 DEF CallPut
    <2> QED
      BY <1>0, <2>3, <2>4 DEF Call, lockVars, statVars
  <1> QED
    BY <1>1, <1>2, <1>3, <1>4, <1>5, <1>6, <1>7, <1>8 DEF Quiet, Busy

\* Two threads are never both in a write section.
LEMMA OneWriter ==
  ASSUME IInv, NEW t \in Threads, NEW u \in Threads,
         pc[t] \in WriteHeld, pc[u] \in WriteHeld
  PROVE  t = u
  BY DEF IInv, LockDiscipline

\* What a step of thread t does to where threads are and to their locals.
LEMMA LocalMove ==
  ASSUME IInv, NEW t \in Threads, Quiet(t) \/ Busy(t)
  PROVE  /\ phase' = phase
         /\ pc[t] = "idle" => phase = "ready"
         /\ \A u \in Threads : u # t =>
              pc'[u] = pc[u] /\ key'[u] = key[u] /\ ptr'[u] = ptr[u]
         /\ \/ pc'[t] \in {"idle", "clr_wrlock", "clr_free", "removed"}
            \/ key'[t] \in Keys
         /\ pc'[t] = "put_evict" => PutFindNone(t) \/ PutEvict(t)
         /\ pc'[t] \in PutOwned =>
              \/ \E k \in Keys, b \in Bufs : \E m \in Sizes[k] : CallPut(t, k, b, m)
              \/ pc[t] \in PutOwned /\ ptr'[t] = ptr[t] /\ key'[t] = key[t]
         /\ UNCHANGED tableVars \/ pc[t] \in WriteHeld
  <1>0. TypeOK /\ CallsSane
    BY DEF IInv
  <1> USE DEF PutOwned, Goto
  <1>1. CASE GetRdLock(t) \/ GetFindHit(t) \/ GetFindMiss(t) \/ GetHit(t) \/ GetMiss(t)
             \/ GetWrLock(t)
    BY <1>0, <1>1 DEF GetRdLock, GetFindHit, GetFindMiss, GetHit, GetMiss, GetWrLock,
                      TypeOK, CallsSane
  <1>2. CASE PutWrLock(t) \/ PutFindNone(t) \/ PutFail(t) \/ PutKeepBuckets(t)
    BY <1>0, <1>2 DEF PutWrLock, PutFindNone, PutFail, PutKeepBuckets, TypeOK, CallsSane
  <1>3. CASE RemoveWrLock(t) \/ RemoveNone(t) \/ ClearWrLock(t)
    BY <1>0, <1>3 DEF RemoveWrLock, RemoveNone, ClearWrLock, TypeOK, CallsSane
  <1>4. CASE EndUse(t) \/ AfterMiss(t) \/ AfterPut(t) \/ AfterRemove(t) \/ AfterPutErr(t)
    <2>1. \E from \in {"using", "missed", "put_ok", "put_err", "removed"} : Leave(t, from)
      BY <1>4 DEF EndUse, AfterMiss, AfterPut, AfterPutErr, AfterRemove
    <2> QED
      BY <1>0, <2>1 DEF Leave, TypeOK
  <1>5. CASE CallClear(t) \/ \E k \in Keys : CallGet(t, k) \/ CallRemove(t, k)
    BY <1>0, <1>5 DEF CallClear, CallGet, CallRemove, Call, TypeOK
  <1>6. CASE \E k \in Keys, b \in Bufs : \E m \in Sizes[k] : CallPut(t, k, b, m)
    <2>1. PICK k \in Keys, b \in Bufs : \E m \in Sizes[k] : CallPut(t, k, b, m)
      BY <1>6
    <2>2. PICK m \in Sizes[k] : CallPut(t, k, b, m)
      BY <2>1
    <2>3. \E to \in {"put_err", "put_wrlock"} : Call(t, to, k, b, m)
      BY <2>2 DEF CallPut
    <2> QED
      BY <1>0, <1>6, <2>3 DEF Call, TypeOK
  <1>7. CASE GetTouch(t) \/ PutReplace(t) \/ PutResize(t)
    BY <1>0, <1>7 DEF GetTouch, PutReplace, PutResize, TypeOK, CallsSane, WriteHeld
  <1>8. CASE PutEvict(t)
    BY <1>0, <1>8 DEF PutEvict, locals, TypeOK, CallsSane, WriteHeld
  <1>9. CASE (\E e \in Entries : PutInsert(t, e)) \/ Remove(t) \/ Clear(t)
    BY <1>0, <1>9 DEF PutInsert, Remove, Clear, TypeOK, CallsSane, WriteHeld
  <1> QED
    BY <1>1, <1>2, <1>3, <1>4, <1>5, <1>6, <1>7, <1>8, <1>9 DEF Quiet, Busy

\* Where the threads can be.
LEMMA SaneStep ==
  ASSUME IInv, NEW t \in Threads, Quiet(t) \/ Busy(t)
  PROVE  CallsSane'
  <1>0. TypeOK /\ CallsSane /\ StructureOK
    BY DEF IInv
  <1>1. phase = "ready" /\ phase' = "ready"
    BY <1>0, LocalMove DEF CallsSane
  <1>2. bucket_count > 0
    BY <1>0, <1>1 DEF CallsSane
  <1>3. bucket_count' > 0
    <2>1. CASE PutResize(t)
      BY <1>0, <2>1, ResizeFacts DEF IInv
    <2>2. CASE ~PutResize(t)
      <3>1. bucket_count' = bucket_count
        BY <2>2, QuietFrame DEF Busy, tableVars, GetTouch, PutReplace, PutEvict, PutInsert,
           Remove, Clear, AfterPutErr, CallPut, Call, Leave, DropEntry
      <3> QED
        BY <1>2, <3>1
    <2> QED
      BY <2>1, <2>2
  <1>4. \A u \in Threads :
          pc'[u] \notin {"idle", "clr_wrlock", "clr_free", "removed"} => key'[u] \in Keys
    BY <1>0, LocalMove DEF CallsSane
  <1>5. ASSUME NEW u \in Threads, pc'[u] = "put_evict", NEW d \in Listed'
        PROVE  entry'[d].key # key'[u]
    <2>1. CASE u # t
      <3>1. pc[u] = "put_evict" /\ key'[u] = key[u]
        BY <1>5, <2>1, LocalMove
      <3>2. pc[t] \notin WriteHeld
        BY <2>1, <3>1, OneWriter DEF WriteHeld
      <3>3. UNCHANGED tableVars
        BY <3>2, LocalMove
      <3>4. Listed' = Listed /\ entry' = entry
        BY <3>3 DEF tableVars, Listed
      <3> QED
        BY <1>0, <1>5, <3>1, <3>4 DEF CallsSane
    <2>2. CASE u = t
      <3>1. CASE PutFindNone(t)
        <4>1. Listed' = Listed /\ entry' = entry /\ key' = key
          BY <3>1 DEF PutFindNone, tableVars, Listed
        <4>2. pc[t] = "put_find" /\ Found(key[t]) = {}
          BY <3>1 DEF PutFindNone, Goto
        <4>3. key[t] \in Keys
          BY <1>0, <4>2 DEF CallsSane
        <4> QED
          BY <1>0, <1>2, <1>5, <2>2, <4>1, <4>2, <4>3, FindFacts
      <3>2. CASE PutEvict(t)
        <4>1. PICK e \in Listed : DropEntry(e)
          BY <3>2, DropStep
        <4>2. Listed' = Listed \ {e} /\ \A c \in Listed \ {e} : entry'[c] = entry[c]
          BY <1>2, <4>1, DropFacts DEF IInv
        <4>3. pc[t] = "put_evict" /\ key' = key
          BY <3>2 DEF PutEvict, locals
        <4> QED
          BY <1>0, <1>5, <2>2, <4>2, <4>3 DEF CallsSane
      <3> QED
        BY <1>5, <2>2, <3>1, <3>2, LocalMove
    <2> QED
      BY <2>1, <2>2
  <1> QED
    BY <1>1, <1>3, <1>4, <1>5 DEF CallsSane

\* A put that still owns its buffer keeps owning it over any other thread's step.
OwnedBy(t) ==
  /\ ptr[t] \in Bufs
  /\ key[t] \in Keys
  /\ heap[ptr[t]] = key[t]
  /\ \A e \in Listed : entry[e].value # ptr[t]
  /\ \A u \in Threads : pc[u] \in PutOwned /\ ptr[u] = ptr[t] => u = t

CachedOnce ==
  /\ \A e \in Listed : /\ entry[e].value \in Bufs
                       /\ heap[entry[e].value] = entry[e].key
  /\ \A d, e \in Listed : entry[d].value = entry[e].value => d = e

\* Ownership, split into the cached buffers and those of the puts in progress.
LEMMA OwnParts ==
  /\ BufsOwnedOnce <=> CachedOnce /\ \A t \in Threads : pc[t] \in PutOwned => OwnedBy(t)
  /\ BufsOwnedOnce' <=>
       CachedOnce' /\ \A t \in Threads : pc'[t] \in PutOwned => OwnedBy(t)'
  BY DEF BufsOwnedOnce, CachedOnce, OwnedBy

\* No step of the cache loses a buffer that somebody owns.
NothingLost ==
  \A b \in Bufs : (heap[b] # NoKey => Owned(b)) => (heap'[b] # NoKey => Owned(b)')

\* Ownership of buffers, and that none is lost, over every step of a thread.
LEMMA OwnStep ==
  ASSUME IInv, NEW t \in Threads, Quiet(t) \/ Busy(t)
  PROVE  BufsOwnedOnce' /\ NothingLost
  <1>0. /\ TypeOK /\ StructureOK /\ CachedOnce /\ CallsSane
        /\ \A u \in Threads : pc[u] \in PutOwned => OwnedBy(u)
        /\ Listed \subseteq Entries
        /\ \A e \in Listed : entry[e].key \in Keys
    BY OwnParts, ListedType DEF IInv, StructureOK, ChainsMatchList
  <1>m. /\ \A u \in Threads : u # t =>
             pc'[u] = pc[u] /\ key'[u] = key[u] /\ ptr'[u] = ptr[u]
        /\ pc'[t] \in PutOwned =>
             \/ \E k \in Keys, b \in Bufs : \E m \in Sizes[k] : CallPut(t, k, b, m)
             \/ pc[t] \in PutOwned /\ ptr'[t] = ptr[t] /\ key'[t] = key[t]
    BY LocalMove
  <1>b. bucket_count > 0
    BY <1>0, LocalMove DEF CallsSane
  <1>1. CASE Quiet(t)
    <2>1. Listed' = Listed /\ entry' = entry /\ heap' = heap
      BY <1>1, QuietFrame DEF tableVars, Listed
    <2>2. pc'[t] \in PutOwned =>
            pc[t] \in PutOwned /\ ptr'[t] = ptr[t] /\ key'[t] = key[t]
      <3>1. ~ \E k \in Keys, b \in Bufs : \E m \in Sizes[k] : CallPut(t, k, b, m)
        BY <1>0, <2>1, Sentinels DEF CallPut, TypeOK
      <3> QED
        BY <1>m, <3>1
    <2>3. pc[t] \in PutOwned => pc'[t] \in PutOwned /\ ptr'[t] = ptr[t]
      BY <1>0, <1>1 DEF Quiet, PutOwned, TypeOK, Goto, GetRdLock, GetFindHit, GetFindMiss,
         GetHit, GetMiss, GetWrLock, PutWrLock, PutFindNone, PutFail, PutKeepBuckets,
         RemoveWrLock, RemoveNone, ClearWrLock, EndUse, AfterMiss, AfterPut, AfterRemove,
         CallClear, CallGet, CallRemove, Call, Leave
    <2>4. CachedOnce'
      BY <1>0, <2>1 DEF CachedOnce
    <2>5. \A u \in Threads : pc'[u] \in PutOwned => OwnedBy(u)'
      BY <1>0, <1>m, <2>1, <2>2 DEF OwnedBy
    <2>6. NothingLost
      BY <1>0, <1>m, <2>1, <2>3 DEF NothingLost, Owned
    <2> QED
      BY <2>4, <2>5, <2>6, OwnParts
  <1>2. CASE GetTouch(t) \/ PutResize(t)
    <2>1. Listed' = Listed /\ entry' = entry /\ heap' = heap
      <3>1. CASE PutResize(t)
        BY <3>1, ResizeFacts DEF IInv, PutResize
      <3>2. CASE GetTouch(t)
        <4>1. entry' = entry /\ heap' = heap /\ UNCHANGED <<bucket_count, buckets, current_entries>>
          BY <3>2 DEF GetTouch
        <4>2. CASE Found(key[t]) # {}
          <5>1. key[t] \in Keys
            BY <1>0, <3>2 DEF GetTouch, Goto, CallsSane
          <5>2. Find(key[t]) \in Listed
            BY <1>0, <1>b, <4>2, <5>1, FindFacts
          <5>3. lru' = LruMoveToHead(Find(key[t]))
            BY <3>2, <4>2 DEF GetTouch
          <5> QED
            BY <4>1, <5>2, <5>3, ReorderFacts DEF IInv
        <4>3. CASE Found(key[t]) = {}
          BY <3>2, <4>1, <4>3 DEF GetTouch, Listed
        <4> QED
          BY <4>1, <4>2, <4>3
      <3> QED
        BY <1>2, <3>1, <3>2
    <2>2. pc[t] \notin PutOwned /\ pc'[t] \notin PutOwned
      BY <1>0, <1>2 DEF GetTouch, PutResize, Goto, PutOwned, TypeOK
    <2>3. CachedOnce'
      BY <1>0, <2>1 DEF CachedOnce
    <2>4. \A u \in Threads : pc'[u] \in PutOwned => OwnedBy(u)'
      BY <1>0, <1>m, <2>1, <2>2 DEF OwnedBy
    <2>5. NothingLost
      BY <1>0, <1>m, <2>1, <2>2 DEF NothingLost, Owned
    <2> QED
      BY <2>3, <2>4, <2>5, OwnParts
  <1>3. CASE PutReplace(t)
    <2> DEFINE e == Find(key[t])
    <2>1. /\ e \in Listed /\ entry[e].key = key[t] /\ Listed' = Listed
          /\ \A d \in Listed : entry'[d].key = entry[d].key
          /\ \A d \in Listed : d # e => entry'[d] = entry[d]
          /\ entry'[e].value = ptr[t]
          /\ heap' = [heap EXCEPT ![entry[e].value] = NoKey]
      BY <1>3, ReplaceFacts
    <2>2. /\ pc[t] \in PutOwned /\ pc'[t] \notin PutOwned
          /\ ptr' = ptr /\ key' = key
      BY <1>0, <1>3 DEF PutReplace, Goto, PutOwned, TypeOK
    <2> HIDE DEF e
    <2>3. OwnedBy(t)
      BY <1>0, <2>2
    <2>4. \A b \in Bufs : b # entry[e].value => heap'[b] = heap[b]
      BY <1>0, <2>1 DEF TypeOK
    <2>5. CachedOnce'
      BY <1>0, <2>1, <2>3, <2>4 DEF CachedOnce, OwnedBy
    <2>6. \A u \in Threads : pc'[u] \in PutOwned => OwnedBy(u)'
      <3> SUFFICES ASSUME NEW u \in Threads, pc'[u] \in PutOwned
                   PROVE  OwnedBy(u)'
        OBVIOUS
      <3>1. u # t /\ pc[u] \in PutOwned /\ OwnedBy(u)
        BY <1>0, <1>m, <2>2
      <3>2. ptr[u] # ptr[t]
        BY <2>2, <2>3, <3>1 DEF OwnedBy
      <3>3. heap'[ptr[u]] = heap[ptr[u]]
        BY <2>1, <2>4, <3>1 DEF OwnedBy
      <3>4. \A d \in Listed' : entry'[d].value # ptr'[u]
        BY <2>1, <2>2, <3>1, <3>2 DEF OwnedBy
      <3>5. \A v \in Threads : pc'[v] \in PutOwned /\ ptr'[v] = ptr'[u] => v = u
        BY <1>m, <2>2, <3>1 DEF OwnedBy
      <3> QED
        BY <2>2, <3>1, <3>3, <3>4, <3>5 DEF OwnedBy
    <2>7. NothingLost
      <3> SUFFICES ASSUME NEW b \in Bufs, heap[b] # NoKey => Owned(b), heap'[b] # NoKey
                   PROVE  \/ \E d \in Listed' : entry'[d].value = b
                          \/ \E u \in Threads : pc'[u] \in PutOwned /\ ptr'[u] = b
        BY DEF NothingLost, Owned
      <3>1. b # entry[e].value /\ heap[b] # NoKey
        BY <1>0, <2>1, <2>4 DEF TypeOK
      <3>2. CASE \E d \in Listed : entry[d].value = b
        BY <2>1, <3>1, <3>2
      <3>3. CASE \E u \in Threads : pc[u] \in PutOwned /\ ptr[u] = b
        BY <1>m, <2>1, <2>2, <3>3
      <3> QED
        BY <3>1, <3>2, <3>3 DEF Owned
    <2> QED
      BY <2>5, <2>6, <2>7, OwnParts
  <1>4. CASE PutEvict(t) \/ Remove(t)
    <2>1. PICK e \in Listed : DropEntry(e)
      BY <1>4, DropStep
    <2>2. Listed' = Listed \ {e} /\ \A d \in Listed \ {e} : entry'[d] = entry[d]
      BY <1>b, <2>1, DropFacts DEF IInv
    <2>3. heap' = [heap EXCEPT ![entry[e].value] = NoKey]
      BY <2>1 DEF DropEntry, FreeBuf
    <2>4. /\ \A b \in Bufs : b # entry[e].value => heap'[b] = heap[b]
          /\ \A b \in Bufs : heap'[b] # NoKey => b # entry[e].value /\ heap[b] # NoKey
      BY <1>0, <2>3 DEF TypeOK
    <2>5. /\ pc[t] \in PutOwned <=> pc'[t] \in PutOwned
          /\ ptr' = ptr /\ key' = key
      BY <1>0, <1>4 DEF PutEvict, Remove, Goto, PutOwned, TypeOK, locals
    <2>6. CachedOnce'
      BY <1>0, <2>2, <2>4 DEF CachedOnce
    <2>7. \A u \in Threads : pc'[u] \in PutOwned => OwnedBy(u)'
      BY <1>0, <1>m, <2>2, <2>4, <2>5 DEF OwnedBy
    <2>8. NothingLost
      BY <1>0, <1>m, <2>2, <2>4, <2>5 DEF NothingLost, Owned
    <2> QED
      BY <2>6, <2>7, <2>8, OwnParts
  <1>5. CASE \E e \in Entries : PutInsert(t, e)
    <2>1. PICK e \in Entries : PutInsert(t, e)
      BY <1>5
    <2>2. /\ e \notin Listed /\ Listed' = Listed \union {e}
          /\ \A d \in Listed : entry'[d] = entry[d]
          /\ entry'[e].key = key[t] /\ entry'[e].value = ptr[t]
      BY <2>1, InsertFacts DEF IInv
    <2>3. /\ pc[t] \in PutOwned /\ pc'[t] \notin PutOwned
          /\ ptr' = ptr /\ key' = key /\ heap' = heap
      BY <1>0, <2>1 DEF PutInsert, Goto, PutOwned, TypeOK
    <2>4. OwnedBy(t)
      BY <1>0, <2>3
    <2>5. CachedOnce'
      BY <1>0, <2>2, <2>3, <2>4 DEF CachedOnce, OwnedBy
    <2>6. \A u \in Threads : pc'[u] \in PutOwned => OwnedBy(u)'
      BY <1>0, <1>m, <2>2, <2>3, <2>4 DEF OwnedBy
    <2>7. NothingLost
      BY <1>0, <1>m, <2>2, <2>3 DEF NothingLost, Owned
    <2> QED
      BY <2>5, <2>6, <2>7, OwnParts
  <1>6. CASE Clear(t)
    <2>1. FreeAll /\ Listed' = {}
      BY <1>0, <1>6, FreeAllFacts DEF Clear
    <2>2. \A b \in Bufs :
            heap'[b] = IF \E d \in Listed : entry[d].value = b THEN NoKey ELSE heap[b]
      BY <2>1 DEF FreeAll
    <2>3. /\ pc[t] \notin PutOwned /\ pc'[t] \notin PutOwned
          /\ ptr' = ptr /\ key' = key
      BY <1>0, <1>6 DEF Clear, Goto, PutOwned, TypeOK
    <2>4. CachedOnce'
      BY <2>1 DEF CachedOnce
    <2>5. \A u \in Threads : pc'[u] \in PutOwned => OwnedBy(u)'
      BY <1>0, <1>m, <2>1, <2>2, <2>3 DEF OwnedBy
    <2>6. NothingLost
      BY <1>0, <1>m, <2>1, <2>2, <2>3 DEF NothingLost, Owned
    <2> QED
      BY <2>4, <2>5, <2>6, OwnParts
  <1>7. CASE AfterPutErr(t)
    <2>1. /\ Listed' = Listed /\ entry' = entry
          /\ heap' = [heap EXCEPT ![ptr[t]] = NoKey]
      BY <1>7 DEF AfterPutErr, Leave, FreeBuf, tableVars, Listed
    <2>2. pc[t] \in PutOwned /\ pc'[t] \notin PutOwned
      BY <1>0, <1>7 DEF AfterPutErr, Leave, Goto, PutOwned, TypeOK
    <2>3. OwnedBy(t)
      BY <1>0, <2>2
    <2>4. /\ \A b \in Bufs : b # ptr[t] => heap'[b] = heap[b]
          /\ \A b \in Bufs : heap'[b] # NoKey => b # ptr[t] /\ heap[b] # NoKey
      BY <1>0, <2>1 DEF TypeOK
    <2>5. CachedOnce'
      BY <1>0, <2>1, <2>3, <2>4 DEF CachedOnce, OwnedBy
    <2>6. \A u \in Threads : pc'[u] \in PutOwned => OwnedBy(u)'
      BY <1>0, <1>m, <2>1, <2>2, <2>3, <2>4 DEF OwnedBy
    <2>7. NothingLost
      BY <1>0, <1>m, <2>1, <2>2, <2>4 DEF NothingLost, Owned
    <2> QED
      BY <2>5, <2>6, <2>7, OwnParts
  <1>8. CASE \E k \in Keys, b \in Bufs : \E m \in Sizes[k] : CallPut(t, k, b, m)
    <2>1. PICK k \in Keys, b \in Bufs : \E m \in Sizes[k] : CallPut(t, k, b, m)
      BY <1>8
    <2>2. /\ heap[b] = NoKey /\ heap' = [heap EXCEPT ![b] = k]
          /\ pc[t] \notin PutOwned /\ pc'[t] \in PutOwned
          /\ ptr'[t] = b /\ key'[t] = k
          /\ Listed' = Listed /\ entry' = entry
      BY <1>0, <2>1 DEF CallPut, Call, Goto, PutOwned, TypeOK, tableVars, Listed
    <2>3. heap'[b] = k /\ \A c \in Bufs : c # b => heap'[c] = heap[c]
      BY <1>0, <2>2 DEF TypeOK
    <2>4. /\ \A e \in Listed : entry[e].value # b
          /\ \A u \in Threads : pc[u] \in PutOwned => ptr[u] # b
      BY <1>0, <2>2, Sentinels DEF CachedOnce, OwnedBy
    <2>5. CachedOnce'
      BY <1>0, <2>2, <2>3, <2>4 DEF CachedOnce
    <2>6. \A u \in Threads : pc'[u] \in PutOwned => OwnedBy(u)'
      BY <1>0, <1>m, <2>2, <2>3, <2>4 DEF OwnedBy
    <2>7. NothingLost
      BY <1>0, <1>m, <2>2, <2>3, <2>4 DEF NothingLost, Owned
    <2> QED
      BY <2>5, <2>6, <2>7, OwnParts
  <1> QED
    BY <1>1, <1>2, <1>3, <1>4, <1>5, <1>6, <1>7, <1>8 DEF Busy

(***************************************************************************)
(* The mounting thread: sqfs_cache_init and sqfs_cache_destroy.            *)
(***************************************************************************)
\* No entry is cached and every thread idle.
Empty ==
  /\ TableTypes /\ LocalTypes /\ LockDiscipline
  /\ lru = <<>> /\ current_entries = 0
  /\ \A i \in 0 .. bucket_count - 1 : buckets[i] = {}
  /\ \A t \in Threads : pc[t] = "idle"
  /\ phase # "destroyed" => bucket_count > 0

\* The invariant holds of an empty cache.
LEMMA EmptyCache == Empty => IInv
  <1> SUFFICES ASSUME Empty PROVE IInv
    OBVIOUS
  <1> USE DEF Empty
  <1>1. Len(lru) = 0 /\ Listed = {}
    BY DEF Listed
  <1>2. StructureOK
    BY <1>1 DEF StructureOK, ListLinksOnce, ChainsMatchList, KeysUnique
  <1>3. EntriesBounded
    BY <1>1, ConstantTypes DEF EntriesBounded
  <1>4. BufsOwnedOnce
    BY <1>1 DEF BufsOwnedOnce, PutOwned
  <1>5. CallsSane
    BY <1>1 DEF CallsSane
  <1> QED
    BY <1>2, <1>3, <1>4, <1>5, TypeParts DEF IInv

\* The same of the next state.
LEMMA EmptyNext == Empty' => IInv'
  BY EmptyCache, PTL

\* sqfs_cache_init starts from an empty cache.
LEMMA InitIInv == Init => IInv
  <1> SUFFICES ASSUME Init PROVE IInv
    OBVIOUS
  <1>1. TableTypes
    <2>1. /\ lru = <<>> /\ entry = [e \in Entries |-> NoEntry]
          /\ bucket_count = INITIAL_BUCKETS
          /\ buckets = [i \in 0 .. INITIAL_BUCKETS - 1 |-> {}]
          /\ current_entries = 0 /\ current_memory = 0
          /\ heap = [b \in Bufs |-> NoKey]
      BY DEF Init
    <2> QED
      BY <2>1, ConstantTypes DEF TableTypes, NoEntry
  <1>2. LocalTypes /\ LockDiscipline
    BY Sentinels DEF Init, LocalTypes, LockDiscipline, ReadHeld, WriteHeld, Outside
  <1>3. /\ lru = <<>> /\ current_entries = 0 /\ bucket_count > 0
        /\ \A i \in 0 .. bucket_count - 1 : buckets[i] = {}
        /\ \A t \in Threads : pc[t] = "idle"
    BY ConstantTypes DEF Init
  <1> QED
    BY <1>1, <1>2, <1>3, EmptyCache DEF Empty

\* The sizing loop and its end, and sqfs_cache_destroy.
LEMMA MountStep ==
  ASSUME IInv, InitGrow \/ InitDone \/ Destroy
  PROVE  IInv'
  <1>0. /\ TableTypes /\ LocalTypes /\ LockDiscipline /\ EntriesBounded /\ CallsSane
        /\ TypeOK
    BY TypeParts DEF IInv
  <1>1. \A t \in Threads : pc[t] = "idle"
    BY <1>0 DEF InitGrow, InitDone, Destroy, CallsSane
  <1>2. CASE InitGrow \/ InitDone
    <2>1. phase = "sizing" /\ lru = <<>> /\ bucket_count > 0
      BY <1>0, <1>2 DEF InitGrow, InitDone, CallsSane
    <2>2. Len(lru) = 0 /\ Listed = {} /\ current_entries = 0
      BY <1>0, <2>1 DEF Listed, EntriesBounded
    <2>4. \A i \in 0 .. bucket_count - 1 : buckets[i] = {}
      BY <2>2 DEF IInv, StructureOK, ChainsMatchList
    <2>5. /\ UNCHANGED <<lru, entry, current_entries, current_memory, heap, pc>>
          /\ bucket_count' \in Nat /\ bucket_count' > 0
          /\ buckets' \in [0 .. bucket_count' - 1 -> SUBSET Entries]
          /\ \A i \in 0 .. bucket_count' - 1 : buckets'[i] = {}
      BY <1>0, <1>2, <2>1, <2>4 DEF InitGrow, InitDone, TableTypes, tableVars, locals
    <2>6. LocalTypes' /\ LockDiscipline'
      BY <1>0, <1>2 DEF InitGrow, InitDone, LocalTypes, LockDiscipline, locals, lockVars,
                        statVars
    <2>7. TableTypes'
      BY <1>0, <2>5 DEF TableTypes
    <2> QED
      BY <1>1, <2>1, <2>2, <2>5, <2>6, <2>7, EmptyNext DEF Empty
  <1>3. CASE Destroy
    <2>1. FreeAll
      BY <1>3 DEF Destroy
    <2>3. /\ bucket_count' = 0 /\ phase' = "destroyed" /\ pc' = pc
          /\ buckets' \in [0 .. bucket_count' - 1 -> SUBSET Entries]
          /\ \A i \in 0 .. bucket_count' - 1 : buckets'[i] = {}
      BY <1>3 DEF Destroy, locals
    <2>4. TableTypes' /\ lru' = <<>> /\ current_entries' = 0
      BY <1>0, <2>1, <2>3, FreeAllFacts DEF TableTypes, FreeAll
    <2>5. LocalTypes' /\ LockDiscipline'
      BY <1>0, <1>3 DEF Destroy, LocalTypes, LockDiscipline, locals, lockVars
    <2> QED
      BY <1>1, <2>3, <2>4, <2>5, EmptyNext DEF Empty
  <1> QED
    BY <1>2, <1>3

-----------------------------------------------------------------------------
\* A step that leaves the cache alone.
LEMMA SameIInv == ASSUME IInv, UNCHANGED vars PROVE IInv'
  BY DEF vars, lockVars, tableVars, statVars, locals, IInv, TypeOK,
     LockDiscipline, CallsSane, StructureOK, ListLinksOnce, ChainsMatchList,
     KeysUnique, EntriesBounded, BufsOwnedOnce, Listed

\* A step of a thread.
LEMMA ThreadIInv ==
  ASSUME IInv, NEW t \in Threads, Quiet(t) \/ Busy(t)
  PROVE  IInv'
  <1>1. TableTypes' /\ StructureOK' /\ EntriesBounded'
    <2>1. CASE Busy(t)
      BY <2>1, BusyTable
    <2>2. CASE Quiet(t)
      <3>1. UNCHANGED tableVars /\ heap' = heap
        BY <2>2, QuietFrame
      <3>2. /\ lru' = lru /\ entry' = entry /\ heap' = heap
            /\ buckets' = buckets /\ bucket_count' = bucket_count
            /\ current_entries' = current_entries
            /\ current_memory' = current_memory
        BY <3>1 DEF tableVars
      <3>3. TableTypes'
        <4>1. TableTypes
          BY DEF IInv, TypeOK, TableTypes
        <4> QED
          BY <3>2, <4>1 DEF TableTypes
      <3>4. StructureOK'
        BY <3>2 DEF IInv, StructureOK, ListLinksOnce, ChainsMatchList, KeysUnique, Listed
      <3>5. EntriesBounded'
        BY <3>2 DEF IInv, EntriesBounded
      <3> QED
        BY <3>3, <3>4, <3>5
    <2> QED
      BY <2>1, <2>2
  <1>2. LocalTypes' /\ LockDiscipline' /\ CallsSane' /\ BufsOwnedOnce'
    BY LockStep, SaneStep, OwnStep
  <1> QED
    BY <1>1, <1>2, TypeParts DEF IInv

\* Every step keeps the invariant.
LEMMA NextIInv == IInv /\ [Next]_vars => IInv'
  BY SameIInv, MountStep, ThreadIInv, StepKinds

\* The invariant is inductive: it holds of every state the cache can reach.
THEOREM CacheInvariant == Spec => []IInv
  BY InitIInv, NextIInv, PTL DEF Spec

\* Every variable of the cache keeps its type.
THEOREM TypeCorrect == Spec => []TypeOK
  BY CacheInvariant, PTL DEF IInv

\* A thread holds the rwlock exactly in its critical sections, and a writer is
\* alone: no path of cache.c misses an unlock.
THEOREM LockCorrect == Spec => []LockDiscipline
  BY CacheInvariant, PTL DEF IInv

\* The LRU list and the hash table always hold the same entries, each once and
\* each where hash_find looks for it.
THEOREM StructureCorrect == Spec => []StructureOK
  BY CacheInvariant, PTL DEF IInv

\* current_entries is exact and never above max_entries.
THEOREM CountCorrect == Spec => []EntriesBounded
  BY CacheInvariant, PTL DEF IInv

\* No buffer is freed twice, freed while cached or cached under a foreign key.
THEOREM OwnershipCorrect == Spec => []BufsOwnedOnce
  BY CacheInvariant, PTL DEF IInv

\* No step of the mounting thread loses a buffer: sqfs_cache_init touches none,
\* and sqfs_cache_destroy frees what is cached when every thread is idle.
LEMMA MountLosesNothing ==
  ASSUME IInv, InitGrow \/ InitDone \/ Destroy
  PROVE  NothingLost
  <1>1. CASE InitGrow \/ InitDone
    BY <1>1 DEF InitGrow, InitDone, tableVars, locals, NothingLost, Owned, Listed
  <1>2. CASE Destroy
    <2>1. FreeAll /\ \A t \in Threads : pc[t] = "idle"
      BY <1>2 DEF Destroy
    <2>2. \A b \in Bufs : heap'[b] # NoKey => heap[b] # NoKey /\ ~Owned(b)
      BY <2>1 DEF FreeAll, Owned, PutOwned
    <2> QED
      BY <2>2 DEF NothingLost
  <1> QED
    BY <1>1, <1>2

\* The cache loses no buffer: whatever is allocated is cached or owned by a put.
THEOREM LeakFree == Spec => []NoLeak
  <1>1. Init => NoLeak
    BY DEF Init, NoLeak
  <1>2. ASSUME IInv, NoLeak, [Next]_vars PROVE NoLeak'
    <2>1. NothingLost => NoLeak'
      BY <1>2 DEF NothingLost, NoLeak
    <2>2. CASE UNCHANGED vars
      BY <1>2, <2>2 DEF vars, tableVars, locals, NoLeak, Owned, Listed
    <2>3. CASE InitGrow \/ InitDone \/ Destroy
      BY <1>2, <2>1, <2>3, MountLosesNothing
    <2>4. ASSUME NEW t \in Threads, Quiet(t) \/ Busy(t) PROVE NoLeak'
      BY <1>2, <2>1, <2>4, OwnStep
    <2> QED
      BY <1>2, <2>2, <2>3, <2>4, StepKinds
  <1> QED
    BY <1>1, <1>2, CacheInvariant, PTL DEF Spec

\* While sqfs_cache_get is in its read section, the table does not change.
THEOREM ReadersSafe == Spec => ReadersUndisturbed
  <1>1. IInv /\ [Next]_vars => [readers # {} => UNCHANGED tableVars]_vars
    <2> SUFFICES ASSUME IInv, [Next]_vars, readers # {}
                 PROVE  UNCHANGED tableVars \/ UNCHANGED vars
      OBVIOUS
    <2>1. PICK r \in Threads : pc[r] \in ReadHeld
      BY DEF IInv, LockDiscipline, TypeOK
    <2>2. ~(InitGrow \/ InitDone \/ Destroy)
      BY <2>1 DEF InitGrow, InitDone, Destroy, IInv, CallsSane, ReadHeld
    <2>3. \A t \in Threads : pc[t] \notin WriteHeld
      BY Sentinels DEF IInv, LockDiscipline
    <2> QED
      BY <2>2, <2>3, StepKinds, LocalMove
  <1> QED
    BY <1>1, CacheInvariant, PTL DEF Spec, ReadersUndisturbed

-----------------------------------------------------------------------------
(***************************************************************************)
(* What puts and gets leave at the head of the list                        *)
(***************************************************************************)
\* The head of the list is the entry of the thread's put.
HeadIsMine(t) ==
  lru # <<>> /\ entry[lru[1]].key = key[t] /\ entry[lru[1]].value = ptr[t]

\* Between the insertion and the resize.
InsertedFirst == \A t \in Threads : pc[t] = "put_resize" => HeadIsMine(t)

\* lru_insert_head and lru_move_to_head leave the entry at the head.
LEMMA HeadFacts ==
  ASSUME lru \in Seq(Entries), ListLinksOnce, NEW e \in Entries
  PROVE  /\ LruInsertHead(e, lru) # <<>> /\ LruInsertHead(e, lru)[1] = e
         /\ e \in Listed => LruMoveToHead(e) # <<>> /\ LruMoveToHead(e)[1] = e
  <1>1. ASSUME NEW s \in Seq(Entries)
        PROVE  LruInsertHead(e, s) # <<>> /\ LruInsertHead(e, s)[1] = e
    <2>1. Len(<<e>> \o s) = 1 + Len(s) /\ Len(s) \in Nat /\ (<<e>> \o s)[1] = e
      OBVIOUS
    <2>2. Len(<<e>> \o s) # 0
      BY <2>1
    <2> QED BY <2>1, <2>2 DEF LruInsertHead
  <1>2. ASSUME e \in Listed PROVE LruMoveToHead(e) # <<>> /\ LruMoveToHead(e)[1] = e
    <2>1. LruRemove(e) \in Seq(Entries)
      BY <1>2, LruRemoveFacts
    <2>2. lru # <<>>
      BY <1>2 DEF Listed
    <2> QED BY <1>1, <2>1, <2>2 DEF LruMoveToHead
  <1> QED BY <1>1, <1>2

\* A step of another thread leaves the list, and one's own key and value, alone
\* while one holds the write lock.
LEMMA HeadKept ==
  ASSUME IInv, NEW t \in Threads, Quiet(t) \/ Busy(t),
         NEW u \in Threads, u # t, pc[u] \in WriteHeld
  PROVE  /\ pc'[u] = pc[u] /\ key'[u] = key[u] /\ ptr'[u] = ptr[u]
         /\ lru' = lru /\ entry' = entry
  <1>1. pc[t] \notin WriteHeld
    BY OneWriter
  <1> QED BY <1>1, LocalMove DEF tableVars

\* Where a put gets its value in.
LEMMA PutMoves ==
  ASSUME IInv, NEW t \in Threads, Quiet(t) \/ Busy(t)
  PROVE  /\ pc'[t] = "put_resize" => \E e \in Entries : PutInsert(t, e)
         /\ pc[t] # "put_ok" /\ pc'[t] = "put_ok" =>
              PutReplace(t) \/ PutKeepBuckets(t) \/ PutResize(t)
  <1>0. TypeOK
    BY DEF IInv
  <1> USE <1>0 DEF Goto, TypeOK
  <1>1. CASE GetRdLock(t) \/ GetFindHit(t) \/ GetFindMiss(t) \/ GetHit(t) \/ GetMiss(t)
             \/ GetWrLock(t) \/ GetTouch(t)
    BY <1>1 DEF GetRdLock, GetFindHit, GetFindMiss, GetHit, GetMiss, GetWrLock, GetTouch
  <1>2. CASE PutWrLock(t) \/ PutFindNone(t) \/ PutFail(t) \/ PutEvict(t)
    BY <1>2 DEF PutWrLock, PutFindNone, PutFail, PutEvict, locals
  <1>3. CASE PutReplace(t) \/ PutKeepBuckets(t) \/ PutResize(t)
    BY <1>3 DEF PutReplace, PutKeepBuckets, PutResize
  <1>4. CASE \E e \in Entries : PutInsert(t, e)
    BY <1>4 DEF PutInsert
  <1>5. CASE RemoveWrLock(t) \/ RemoveNone(t) \/ ClearWrLock(t) \/ Remove(t) \/ Clear(t)
    BY <1>5 DEF RemoveWrLock, RemoveNone, ClearWrLock, Remove, Clear
  <1>6. CASE EndUse(t) \/ AfterMiss(t) \/ AfterPut(t) \/ AfterRemove(t) \/ AfterPutErr(t)
    BY <1>6 DEF EndUse, AfterMiss, AfterPut, AfterRemove, AfterPutErr, Leave
  <1>7. CASE CallClear(t) \/ \E k \in Keys : CallGet(t, k) \/ CallRemove(t, k)
    BY <1>7 DEF CallClear, CallGet, CallRemove, Call
  <1>8. CASE \E k \in Keys, b \in Bufs : \E m \in Sizes[k] : CallPut(t, k, b, m)
    BY <1>8 DEF CallPut, Call
  <1> QED BY <1>1, <1>2, <1>3, <1>4, <1>5, <1>6, <1>7, <1>8 DEF Quiet, Busy

LEMMA InsertedFirstNext == IInv /\ InsertedFirst /\ [Next]_vars => InsertedFirst'
  <1> SUFFICES ASSUME IInv, InsertedFirst, [Next]_vars, NEW u \in Threads, pc'[u] = "put_resize"
               PROVE  HeadIsMine(u)'
    BY DEF InsertedFirst
  <1>0. TypeOK /\ StructureOK /\ lru \in Seq(Entries) /\ ListLinksOnce
    BY DEF IInv, TypeOK, StructureOK
  <1>1. CASE UNCHANGED vars
    BY <1>1 DEF vars, tableVars, locals, InsertedFirst, HeadIsMine
  <1>2. CASE InitGrow \/ InitDone \/ Destroy
    BY <1>2 DEF InitGrow, InitDone, Destroy, locals, IInv, CallsSane
  <1>3. ASSUME NEW t \in Threads, Quiet(t) \/ Busy(t) PROVE HeadIsMine(u)'
    <2>1. CASE u # t
      <3>1. pc[u] = "put_resize"
        BY <1>3, <2>1, LocalMove
      <3>2. /\ key'[u] = key[u] /\ ptr'[u] = ptr[u] /\ lru' = lru /\ entry' = entry
        BY <1>3, <2>1, <3>1, HeadKept DEF WriteHeld
      <3> QED BY <3>1, <3>2 DEF InsertedFirst, HeadIsMine
    <2>2. CASE u = t
      <3>1. PICK e \in Entries : PutInsert(t, e)
        BY <1>3, <2>2, PutMoves
      <3>2. /\ lru' = LruInsertHead(e, lru) /\ key'[t] = key[t] /\ ptr'[t] = ptr[t]
            /\ entry'[e].key = key[t] /\ entry'[e].value = ptr[t]
        BY <1>0, <3>1 DEF PutInsert, TypeOK
      <3>3. lru' # <<>> /\ lru'[1] = e
        BY <1>0, <3>2, HeadFacts
      <3> QED BY <2>2, <3>2, <3>3 DEF HeadIsMine
    <2> QED BY <2>1, <2>2
  <1> QED BY <1>1, <1>2, <1>3, StepKinds

\* A get that comes back with a value has been through the second lock.
LEMMA TouchMoves ==
  ASSUME IInv, NEW t \in Threads, Quiet(t) \/ Busy(t), pc[t] # "using", pc'[t] = "using"
  PROVE  GetTouch(t)
  <1>0. TypeOK
    BY DEF IInv
  <1> USE <1>0 DEF Goto, TypeOK
  <1>1. CASE GetRdLock(t) \/ GetFindHit(t) \/ GetFindMiss(t) \/ GetHit(t) \/ GetMiss(t)
             \/ GetWrLock(t)
    BY <1>1 DEF GetRdLock, GetFindHit, GetFindMiss, GetHit, GetMiss, GetWrLock
  <1>2. CASE PutWrLock(t) \/ PutFindNone(t) \/ PutFail(t) \/ PutEvict(t)
    BY <1>2 DEF PutWrLock, PutFindNone, PutFail, PutEvict, locals
  <1>3. CASE PutReplace(t) \/ PutKeepBuckets(t) \/ PutResize(t)
    BY <1>3 DEF PutReplace, PutKeepBuckets, PutResize
  <1>4. CASE \E e \in Entries : PutInsert(t, e)
    BY <1>4 DEF PutInsert
  <1>5. CASE RemoveWrLock(t) \/ RemoveNone(t) \/ ClearWrLock(t) \/ Remove(t) \/ Clear(t)
    BY <1>5 DEF RemoveWrLock, RemoveNone, ClearWrLock, Remove, Clear
  <1>6. CASE EndUse(t) \/ AfterMiss(t) \/ AfterPut(t) \/ AfterRemove(t) \/ AfterPutErr(t)
    BY <1>6 DEF EndUse, AfterMiss, AfterPut, AfterRemove, AfterPutErr, Leave
  <1>7. CASE CallClear(t) \/ \E k \in Keys : CallGet(t, k) \/ CallRemove(t, k)
    BY <1>7 DEF CallClear, CallGet, CallRemove, Call
  <1>8. CASE \E k \in Keys, b \in Bufs : \E m \in Sizes[k] : CallPut(t, k, b, m)
    BY <1>8 DEF CallPut, Call
  <1> QED BY <1>1, <1>2, <1>3, <1>4, <1>5, <1>6, <1>7, <1>8 DEF Quiet, Busy

\* A put that succeeds leaves its value, and a get what it found, at the head of
\* the list, where the eviction comes last, whatever other calls did while they
\* waited for the lock.
THEOREM UsedRecent == Spec => UsedIsMostRecent
  <1> DEFINE PutFirst(t) == /\ lru' # <<>>
                            /\ entry'[lru'[1]].key = key[t] /\ entry'[lru'[1]].value = ptr[t]
             GotFirst(t) == \A e \in Listed' : entry'[e].key = key[t] => e = lru'[1]
             Used(t) == /\ pc[t] # "put_ok" /\ pc'[t] = "put_ok" => PutFirst(t)
                        /\ pc[t] # "using" /\ pc'[t] = "using" => GotFirst(t)
  <1>1. Init => InsertedFirst
    BY DEF Init, InsertedFirst
  <1>2. IInv /\ InsertedFirst /\ [Next]_vars => [\A t \in Threads : Used(t)]_vars
    <2> SUFFICES ASSUME IInv, InsertedFirst, [Next]_vars, ~ UNCHANGED vars,
                        NEW u \in Threads
                 PROVE  Used(u)
      OBVIOUS
    <2> HIDE DEF PutFirst, GotFirst
    <2>0. TypeOK /\ StructureOK /\ lru \in Seq(Entries) /\ ListLinksOnce
      BY DEF IInv, TypeOK, StructureOK
    <2>1. InitGrow \/ InitDone \/ Destroy => Used(u)
      BY DEF InitGrow, InitDone, Destroy, locals
    <2>2. ASSUME NEW t \in Threads, Quiet(t) \/ Busy(t) PROVE Used(u)
      <3>1. CASE u # t
        BY <2>2, <3>1, LocalMove
      <3>2. ASSUME pc[t] # "put_ok", pc'[t] = "put_ok" PROVE PutFirst(t)
        <4>1. PutReplace(t) \/ PutKeepBuckets(t) \/ PutResize(t)
          BY <2>2, <3>2, PutMoves
        <4>2. CASE PutReplace(t)
          <5> DEFINE e == Find(key[t])
          <5>1. /\ e \in Listed /\ entry[e].key = key[t]
                /\ \A d \in Listed : entry'[d].key = entry[d].key
                /\ entry'[e].value = ptr[t]
            BY <4>2, ReplaceFacts
          <5>2. lru' = LruMoveToHead(e) /\ e \in Entries
            BY <2>0, <4>2, <5>1, ListedType DEF PutReplace
          <5> HIDE DEF e
          <5>3. lru' # <<>> /\ lru'[1] = e
            BY <2>0, <5>1, <5>2, HeadFacts
          <5> QED BY <5>1, <5>3 DEF PutFirst
        <4>3. CASE PutKeepBuckets(t) \/ PutResize(t)
          <5>1. pc[t] = "put_resize" /\ lru' = lru /\ entry' = entry
            BY <4>3 DEF PutKeepBuckets, PutResize, Goto, tableVars
          <5> QED BY <5>1 DEF InsertedFirst, HeadIsMine, PutFirst
        <4> QED BY <4>1, <4>2, <4>3
      <3>3. ASSUME pc[t] # "using", pc'[t] = "using" PROVE GotFirst(t)
        <4>1. /\ pc[t] = "get_touch" /\ entry' = entry
              /\ lru' = IF Found(key[t]) # {} THEN LruMoveToHead(Find(key[t])) ELSE lru
          BY <2>2, <3>3, TouchMoves DEF GetTouch, Goto
        <4>2. key[t] \in Keys /\ bucket_count > 0
          BY <4>1 DEF IInv, CallsSane
        <4> DEFINE e == Find(key[t])
        <4>3. /\ Found(key[t]) # {} => e \in Listed /\ entry[e].key = key[t]
              /\ \A d \in Listed : entry[d].key = key[t] => Found(key[t]) # {} /\ e = d
          BY <2>0, <4>2, FindFacts
        <4> HIDE DEF e
        <4>4. CASE Found(key[t]) = {}
          <5>1. Listed' = Listed
            BY <4>1, <4>4 DEF Listed
          <5> QED BY <4>1, <4>3, <4>4, <5>1 DEF GotFirst
        <4>5. CASE Found(key[t]) # {}
          <5>1. e \in Listed /\ e \in Entries /\ lru' = LruMoveToHead(e)
            BY <2>0, <4>1, <4>3, <4>5, ListedType DEF e
          <5>2. lru'[1] = e /\ Listed' = Listed
            BY <2>0, <5>1, HeadFacts, MoveToHeadFacts, ListedIsElems
          <5> QED BY <4>1, <4>3, <5>2 DEF GotFirst
        <4> QED BY <4>4, <4>5
      <3> QED BY <3>1, <3>2, <3>3
    <2> QED BY <2>1, <2>2, StepKinds
  <1>3. Spec => []InsertedFirst
    BY <1>1, InsertedFirstNext, CacheInvariant, PTL DEF Spec
  <1> QED
    BY <1>2, <1>3, CacheInvariant, PTL DEF Spec, UsedIsMostRecent

-----------------------------------------------------------------------------
(***************************************************************************)
(* The memory on the books                                                 *)
(***************************************************************************)
MemInv == IsFiniteSet(Charged) /\ MemoryExact

\* n bytes are n, and two entries share none.
LEMMA BytesFacts ==
  /\ \A e : \A n \in Nat : IsFiniteSet(Bytes(e, n)) /\ Cardinality(Bytes(e, n)) = n
  /\ \A d, e, m, n : d # e => Bytes(d, m) \cap Bytes(e, n) = {}
  <1>1. ASSUME NEW e, NEW n \in Nat
        PROVE  IsFiniteSet(Bytes(e, n)) /\ Cardinality(Bytes(e, n)) = n
    <2>1. IsFiniteSet(1 .. n) /\ Cardinality(1 .. n) = n
      BY FS_Interval
    <2>2. IsFiniteSet({e}) /\ Cardinality({e}) = 1
      BY FS_Singleton
    <2> DEFINE one == {e}
               all == 1 .. n
    <2> HIDE DEF one, all
    <2>3. IsFiniteSet(one) /\ IsFiniteSet(all)
      BY <2>1, <2>2 DEF one, all
    <2>4. /\ IsFiniteSet(one \X all)
          /\ Cardinality(one \X all) = Cardinality(one) * Cardinality(all)
      BY <2>3, FS_Product, Zenon
    <2>5. Cardinality(one) = 1 /\ Cardinality(all) = n
      BY <2>1, <2>2 DEF one, all
    <2>6. Cardinality(one \X all) = n
      BY <2>4, <2>5
    <2> QED
      BY <2>4, <2>6 DEF Bytes, one, all
  <1>2. ASSUME NEW d, NEW e, NEW m, NEW n, d # e PROVE Bytes(d, m) \cap Bytes(e, n) = {}
    BY <1>2 DEF Bytes
  <1> QED BY <1>1, <1>2

\* The bytes of one entry are on the books once.
LEMMA ChargedPart ==
  ASSUME TypeOK, IsFiniteSet(Charged), NEW e \in Listed
  PROVE  LET B == Bytes(e, entry[e].memory_size) IN
         /\ entry[e].memory_size \in Nat
         /\ IsFiniteSet(Charged \ B)
         /\ Cardinality(Charged) \in Nat
         /\ Cardinality(Charged \ B) = Cardinality(Charged) - entry[e].memory_size
         /\ Charged \ B = UNION {Bytes(d, entry[d].memory_size) : d \in Listed \ {e}}
  <1> DEFINE n == entry[e].memory_size
             B == Bytes(e, n)
  <1>1. n \in Nat
    BY ListedType DEF TypeOK
  <1> HIDE DEF n
  <1>2. B \subseteq Charged
    BY DEF Charged, n
  <1>3. IsFiniteSet(B) /\ Cardinality(B) = n
    BY <1>1, BytesFacts
  <1>4. Charged \ B = UNION {Bytes(d, entry[d].memory_size) : d \in Listed \ {e}}
    <2>1. \A d \in Listed \ {e} : Bytes(d, entry[d].memory_size) \cap B = {}
      BY BytesFacts
    <2> QED BY <2>1 DEF Charged, n
  <1> HIDE DEF B
  <1>5. Charged \cap B = B
    BY <1>2
  <1>6. IsFiniteSet(Charged \ B) /\ Cardinality(Charged \ B) = Cardinality(Charged) - n
    BY <1>3, <1>5, FS_Difference
  <1> QED BY <1>1, <1>4, <1>6, FS_CardinalityType DEF B, n

\* An entry that is charged for n bytes, next to others that are disjoint from it.
LEMMA ChargedMore ==
  ASSUME NEW S, IsFiniteSet(S), NEW e, NEW n \in Nat, S \cap Bytes(e, n) = {}
  PROVE  /\ IsFiniteSet(S \union Bytes(e, n))
         /\ Cardinality(S \union Bytes(e, n)) = Cardinality(S) + n
  <1>1. IsFiniteSet(Bytes(e, n)) /\ Cardinality(Bytes(e, n)) = n
    BY BytesFacts
  <1>2. /\ IsFiniteSet(S \union Bytes(e, n))
        /\ Cardinality(S \union Bytes(e, n)) = Cardinality(S) + n - Cardinality(S \cap Bytes(e, n))
    BY <1>1, FS_Union
  <1>3. Cardinality(S \cap Bytes(e, n)) = 0 /\ Cardinality(S) \in Nat
    BY FS_EmptySet, FS_CardinalityType
  <1> QED BY <1>2, <1>3

\* An entry that goes takes its bytes off the books (cache_evict, remove).
LEMMA MemDrop ==
  ASSUME IInv, MemInv, NEW t \in Threads, PutEvict(t) \/ Remove(t)
  PROVE  MemInv' /\ current_memory' <= current_memory
  <1>0. /\ TypeOK /\ StructureOK /\ EntriesBounded /\ current_memory \in Int
        /\ bucket_count > 0
    BY DEF IInv, TypeOK, PutEvict, Remove, Goto, CallsSane
  <1>1. PICK e \in Listed : DropEntry(e)
    BY DropStep
  <1>2. Listed' = Listed \ {e} /\ \A d \in Listed \ {e} : entry'[d] = entry[d]
    BY <1>0, <1>1, DropFacts
  <1> DEFINE B == Bytes(e, entry[e].memory_size)
  <1>3. /\ entry[e].memory_size \in Nat /\ IsFiniteSet(Charged \ B)
        /\ Cardinality(Charged) \in Nat
        /\ Cardinality(Charged \ B) = Cardinality(Charged) - entry[e].memory_size
        /\ Charged \ B = UNION {Bytes(d, entry[d].memory_size) : d \in Listed \ {e}}
    BY <1>0, ChargedPart DEF MemInv
  <1> HIDE DEF B
  <1>4. Charged' = Charged \ B
    <2>1. {Bytes(d, entry'[d].memory_size) : d \in Listed \ {e}}
            = {Bytes(d, entry[d].memory_size) : d \in Listed \ {e}}
      BY <1>2
    <2> QED BY <1>2, <1>3, <2>1 DEF Charged, Bytes
  <1>5. current_memory' = current_memory - entry[e].memory_size
    BY <1>1 DEF DropEntry
  <1> QED BY <1>0, <1>3, <1>4, <1>5 DEF MemInv, MemoryExact

\* A new entry brings its bytes.
LEMMA MemInsert ==
  ASSUME IInv, MemInv, NEW t \in Threads, NEW e \in Entries, PutInsert(t, e)
  PROVE  MemInv'
  <1>0. /\ TypeOK /\ StructureOK /\ EntriesBounded /\ BufsOwnedOnce /\ CallsSane
        /\ mem[t] \in Nat /\ Listed \subseteq Entries
    BY ListedType DEF IInv, TypeOK
  <1>1. /\ e \notin Listed /\ Listed' = Listed \union {e}
        /\ \A d \in Listed : entry'[d] = entry[d]
    BY <1>0, InsertFacts
  <1>2. entry'[e].memory_size = mem[t] /\ current_memory' = current_memory + mem[t]
    BY <1>0 DEF PutInsert, TypeOK
  <1>3. Charged' = Charged \union Bytes(e, mem[t])
    <2>1. \A d \in Listed : Bytes(d, entry'[d].memory_size) = Bytes(d, entry[d].memory_size)
      BY <1>1
    <2> QED BY <1>1, <1>2, <2>1 DEF Charged, Bytes
  <1>4. Charged \cap Bytes(e, mem[t]) = {}
    <2>1. \A d \in Listed : Bytes(d, entry[d].memory_size) \cap Bytes(e, mem[t]) = {}
      BY <1>1, BytesFacts
    <2> QED BY <2>1 DEF Charged
  <1>5. /\ IsFiniteSet(Charged \union Bytes(e, mem[t]))
        /\ Cardinality(Charged \union Bytes(e, mem[t])) = Cardinality(Charged) + mem[t]
    BY <1>0, <1>4, ChargedMore DEF MemInv
  <1> QED BY <1>2, <1>3, <1>5 DEF MemInv, MemoryExact

\* A value that is replaced is exchanged for the new one.
LEMMA MemReplace ==
  ASSUME IInv, MemInv, NEW t \in Threads, PutReplace(t)
  PROVE  MemInv'
  <1> DEFINE e == Find(key[t])
             B == Bytes(e, entry[e].memory_size)
             S == Charged \ B
  <1>0. TypeOK /\ mem[t] \in Nat /\ current_memory \in Int
    BY DEF IInv, TypeOK
  <1>1. /\ e \in Listed /\ entry' = Replaced(e, ptr[t], mem[t]) /\ Listed' = Listed
        /\ \A d \in Listed : d # e => entry'[d] = entry[d]
    BY ReplaceFacts
  <1>2. current_memory' = current_memory - entry[e].memory_size + mem[t]
    BY DEF PutReplace, ReplacedMemory
  <1> HIDE DEF e
  <1>3. entry'[e].memory_size = mem[t]
    BY <1>0, <1>1, ListedType DEF Replaced, TypeOK
  <1>4. /\ entry[e].memory_size \in Nat /\ IsFiniteSet(S) /\ Cardinality(Charged) \in Nat
        /\ Cardinality(S) = Cardinality(Charged) - entry[e].memory_size
        /\ S = UNION {Bytes(d, entry[d].memory_size) : d \in Listed \ {e}}
    BY <1>0, <1>1, ChargedPart DEF MemInv
  <1> HIDE DEF S
  <1>5. Charged' = S \union Bytes(e, mem[t])
    <2>1. \A d \in Listed \ {e} : Bytes(d, entry'[d].memory_size) = Bytes(d, entry[d].memory_size)
      BY <1>1
    <2> QED BY <1>1, <1>3, <1>4, <2>1 DEF Charged, Bytes
  <1>6. S \cap Bytes(e, mem[t]) = {}
    <2>1. \A d \in Listed \ {e} : Bytes(d, entry[d].memory_size) \cap Bytes(e, mem[t]) = {}
      BY BytesFacts
    <2> QED BY <1>4, <2>1
  <1>7. /\ IsFiniteSet(S \union Bytes(e, mem[t]))
        /\ Cardinality(S \union Bytes(e, mem[t])) = Cardinality(S) + mem[t]
    BY <1>0, <1>4, <1>6, ChargedMore
  <1> QED BY <1>0, <1>2, <1>4, <1>5, <1>7 DEF MemInv, MemoryExact

\* The steps that leave the entries and the books alone.
LEMMA MemKept ==
  ASSUME MemInv, Listed' = Listed, entry' = entry, current_memory' = current_memory
  PROVE  MemInv'
  <1>1. Charged' = Charged
    BY DEF Charged, Bytes
  <1> QED BY <1>1 DEF MemInv, MemoryExact

\* An empty cache has nothing on its books.
LEMMA MemEmpty ==
  ASSUME lru' = <<>>, current_memory' = 0
  PROVE  MemInv'
  <1>1. Charged' = {}
    BY DEF Charged, Listed
  <1> QED BY <1>1, FS_EmptySet DEF MemInv, MemoryExact

LEMMA MemNext == IInv /\ MemInv /\ [Next]_vars => MemInv'
  <1> SUFFICES ASSUME IInv, MemInv, [Next]_vars PROVE MemInv'
    OBVIOUS
  <1>0. TypeOK /\ StructureOK /\ CallsSane
    BY DEF IInv
  <1>1. CASE UNCHANGED vars \/ InitGrow \/ InitDone
    BY <1>1, MemKept DEF vars, tableVars, InitGrow, InitDone, Listed
  <1>2. CASE Destroy
    BY <1>2, MemEmpty DEF Destroy, FreeAll
  <1>3. ASSUME NEW t \in Threads, Quiet(t) PROVE MemInv'
    BY <1>3, QuietFrame, MemKept DEF tableVars, Listed
  <1>4. ASSUME NEW t \in Threads, Busy(t) PROVE MemInv'
    <2>1. CASE GetTouch(t)
      <3>1. CASE Found(key[t]) # {}
        <4>1. key[t] \in Keys /\ bucket_count > 0
          BY <1>0, <2>1 DEF CallsSane, GetTouch, Goto
        <4>2. Find(key[t]) \in Listed
          BY <1>0, <3>1, <4>1, FindFacts
        <4>3. lru' = LruMoveToHead(Find(key[t]))
          BY <2>1, <3>1 DEF GetTouch
        <4>4. Listed' = Listed
          BY <1>0, <4>2, <4>3, MoveToHeadFacts, ListedIsElems DEF TypeOK, StructureOK
        <4> QED BY <2>1, <4>4, MemKept DEF GetTouch
      <3>2. CASE Found(key[t]) = {}
        BY <2>1, <3>2, MemKept DEF GetTouch, Listed
      <3> QED BY <3>1, <3>2
    <2>2. CASE PutResize(t)
      BY <2>2, MemKept DEF PutResize, Listed
    <2>3. CASE AfterPutErr(t)
      BY <2>3, MemKept DEF AfterPutErr, Leave, tableVars, Listed
    <2>4. CASE \E k \in Keys, b \in Bufs : \E m \in Sizes[k] : CallPut(t, k, b, m)
      BY <2>4, MemKept DEF CallPut, Call, tableVars, Listed
    <2>5. CASE PutEvict(t) \/ Remove(t)
      BY <2>5, MemDrop
    <2>6. CASE \E e \in Entries : PutInsert(t, e)
      BY <2>6, MemInsert
    <2>7. CASE PutReplace(t)
      BY <2>7, MemReplace
    <2>8. CASE Clear(t)
      BY <2>8, MemEmpty DEF Clear, FreeAll
    <2> QED BY <1>4, <2>1, <2>2, <2>3, <2>4, <2>5, <2>6, <2>7, <2>8 DEF Busy
  <1> QED BY <1>1, <1>2, <1>3, <1>4, StepKinds

\* The books are exact: current_memory is what the cached entries were charged
\* for, one byte for each, through every replacement, eviction and clear.
THEOREM MemoryCorrect == Spec => []MemoryExact
  <1>1. Init => MemInv
    <2> SUFFICES ASSUME Init PROVE MemInv
      OBVIOUS
    <2>1. Charged = {} /\ current_memory = 0
      BY DEF Init, Charged, Listed
    <2> QED BY <2>1, FS_EmptySet DEF MemInv, MemoryExact
  <1> QED
    BY <1>1, MemNext, CacheInvariant, PTL DEF Spec, MemInv

\* A key's values all have one size, among those that the cache takes: a block of
\* an image has one.
OneSize == \A k \in Keys : \A m, n \in Sizes[k] : m <= max_memory /\ n <= max_memory => m = n

Putting == {"put_wrlock", "put_find", "put_evict"}

\* What is cached, or about to be, has a size of its key that fits the cache.
SizesFit ==
  /\ \A e \in Listed : /\ entry[e].memory_size \in Sizes[entry[e].key]
                       /\ entry[e].memory_size <= max_memory
  /\ \A t \in Threads : pc[t] \in Putting => /\ mem[t] \in Sizes[key[t]]
                                              /\ mem[t] <= max_memory

\* A put carries its size along, and no other thread touches it.
LEMMA SizeMove ==
  ASSUME IInv, NEW t \in Threads, Quiet(t) \/ Busy(t)
  PROVE  /\ \A u \in Threads : u # t => mem'[u] = mem[u]
         /\ pc'[t] \in Putting =>
              \/ pc[t] \in Putting /\ mem'[t] = mem[t] /\ key'[t] = key[t]
              \/ mem'[t] \in Sizes[key'[t]] /\ mem'[t] <= max_memory
  <1>0. TypeOK
    BY DEF IInv
  <1> USE <1>0 DEF Goto, TypeOK, Putting
  <1>1. CASE GetRdLock(t) \/ GetFindHit(t) \/ GetFindMiss(t) \/ GetHit(t) \/ GetMiss(t)
             \/ GetWrLock(t) \/ GetTouch(t)
    BY <1>1 DEF GetRdLock, GetFindHit, GetFindMiss, GetHit, GetMiss, GetWrLock, GetTouch
  <1>2. CASE PutWrLock(t) \/ PutFindNone(t) \/ PutFail(t) \/ PutEvict(t)
    BY <1>2 DEF PutWrLock, PutFindNone, PutFail, PutEvict, locals
  <1>3. CASE PutReplace(t) \/ PutKeepBuckets(t) \/ PutResize(t)
    BY <1>3 DEF PutReplace, PutKeepBuckets, PutResize
  <1>4. CASE \E e \in Entries : PutInsert(t, e)
    BY <1>4 DEF PutInsert
  <1>5. CASE RemoveWrLock(t) \/ RemoveNone(t) \/ ClearWrLock(t) \/ Remove(t) \/ Clear(t)
    BY <1>5 DEF RemoveWrLock, RemoveNone, ClearWrLock, Remove, Clear
  <1>6. CASE EndUse(t) \/ AfterMiss(t) \/ AfterPut(t) \/ AfterRemove(t) \/ AfterPutErr(t)
    BY <1>6 DEF EndUse, AfterMiss, AfterPut, AfterRemove, AfterPutErr, Leave
  <1>7. CASE CallClear(t) \/ \E k \in Keys : CallGet(t, k) \/ CallRemove(t, k)
    BY <1>7 DEF CallClear, CallGet, CallRemove, Call
  <1>8. ASSUME NEW k \in Keys, NEW b \in Bufs, NEW m \in Sizes[k], CallPut(t, k, b, m)
        PROVE  /\ \A u \in Threads : u # t => mem'[u] = mem[u]
               /\ pc'[t] \in Putting => mem'[t] \in Sizes[key'[t]] /\ mem'[t] <= max_memory
    <2>1. /\ m \in Nat /\ mem'[t] = m /\ key'[t] = k
          /\ pc'[t] = IF m > max_memory THEN "put_err" ELSE "put_wrlock"
      BY <1>8, ConstantTypes DEF CallPut, Call
    <2>2. \A u \in Threads : u # t => mem'[u] = mem[u]
      BY <1>8 DEF CallPut, Call
    <2> QED BY <2>1, <2>2, ConstantTypes
  <1> QED BY <1>1, <1>2, <1>3, <1>4, <1>5, <1>6, <1>7, <1>8 DEF Quiet, Busy

LEMMA SizesNext == IInv /\ SizesFit /\ [Next]_vars => SizesFit'
  <1> SUFFICES ASSUME IInv, SizesFit, [Next]_vars PROVE SizesFit'
    OBVIOUS
  <1>0. TypeOK /\ StructureOK /\ EntriesBounded /\ CallsSane /\ BufsOwnedOnce
    BY DEF IInv
  <1>1. CASE UNCHANGED vars
    BY <1>1 DEF vars, tableVars, locals, SizesFit, Listed
  <1>2. CASE InitGrow \/ InitDone \/ Destroy
    <2>1. Listed' = {}
      BY <1>0, <1>2 DEF InitGrow, InitDone, Destroy, FreeAll, tableVars, Listed, CallsSane
    <2>2. UNCHANGED <<pc, mem, key>>
      BY <1>2 DEF InitGrow, InitDone, Destroy, locals
    <2> QED BY <2>1, <2>2 DEF SizesFit
  <1>3. ASSUME NEW t \in Threads, Quiet(t) \/ Busy(t) PROVE SizesFit'
    <2>1. ASSUME NEW u \in Threads, pc'[u] \in Putting
          PROVE  mem'[u] \in Sizes[key'[u]] /\ mem'[u] <= max_memory
      <3>1. CASE u # t
        <4>1. pc'[u] = pc[u] /\ key'[u] = key[u] /\ mem'[u] = mem[u]
          BY <1>3, <3>1, LocalMove, SizeMove
        <4> QED BY <2>1, <4>1 DEF SizesFit
      <3>2. CASE u = t
        BY <1>3, <2>1, <3>2, SizeMove DEF SizesFit
      <3> QED BY <3>1, <3>2
    <2>2. ASSUME NEW e \in Listed'
          PROVE  /\ entry'[e].memory_size \in Sizes[entry'[e].key]
                 /\ entry'[e].memory_size <= max_memory
      <3>1. CASE e \in Listed /\ entry'[e] = entry[e]
        BY <3>1 DEF SizesFit
      <3>2. CASE UNCHANGED tableVars
        <4>1. e \in Listed /\ entry'[e] = entry[e]
          BY <2>2, <3>2 DEF tableVars, Listed
        <4> QED BY <3>1, <4>1
      <3>3. CASE GetTouch(t) \/ PutResize(t)
        <4>1. entry' = entry
          BY <3>3 DEF GetTouch, PutResize
        <4>2. Listed' \subseteq Listed
          <5>1. CASE lru' = lru
            BY <5>1 DEF Listed
          <5>2. CASE GetTouch(t) /\ Found(key[t]) # {}
            <6>1. key[t] \in Keys /\ bucket_count > 0
              BY <1>0, <5>2 DEF CallsSane, GetTouch, Goto
            <6>2. Find(key[t]) \in Listed /\ lru' = LruMoveToHead(Find(key[t]))
              BY <1>0, <5>2, <6>1, FindFacts DEF GetTouch
            <6> QED BY <1>0, <6>2, MoveToHeadFacts, ListedIsElems DEF TypeOK, StructureOK
          <5> QED BY <3>3, <5>1, <5>2 DEF GetTouch, PutResize
        <4> QED BY <2>2, <3>1, <4>1, <4>2
      <3>4. CASE PutEvict(t) \/ Remove(t)
        <4>1. PICK d \in Listed : DropEntry(d)
          BY <3>4, DropStep
        <4>2. bucket_count > 0
          BY <1>0, <3>4 DEF PutEvict, Remove, Goto, CallsSane
        <4>3. e \in Listed /\ entry'[e] = entry[e]
          BY <1>0, <2>2, <4>1, <4>2, DropFacts
        <4> QED BY <3>1, <4>3
      <3>5. ASSUME NEW d \in Entries, PutInsert(t, d)
            PROVE  /\ entry'[e].memory_size \in Sizes[entry'[e].key]
                   /\ entry'[e].memory_size <= max_memory
        <4>1. /\ Listed' = Listed \union {d} /\ \A c \in Listed : entry'[c] = entry[c]
              /\ entry'[d].key = key[t]
          BY <1>0, <3>5, InsertFacts
        <4>2. entry'[d].memory_size = mem[t] /\ pc[t] = "put_evict"
          BY <1>0, <3>5 DEF PutInsert, Goto, TypeOK
        <4>3. mem[t] \in Sizes[key[t]] /\ mem[t] <= max_memory
          BY <4>2 DEF SizesFit, Putting
        <4>4. CASE e = d
          BY <4>1, <4>2, <4>3, <4>4
        <4>5. CASE e \in Listed
          BY <3>1, <4>1, <4>5
        <4> QED BY <2>2, <4>1, <4>4, <4>5
      <3>6. CASE PutReplace(t)
        <4> DEFINE d == Find(key[t])
        <4>1. /\ d \in Listed /\ entry[d].key = key[t] /\ Listed' = Listed
              /\ entry' = Replaced(d, ptr[t], mem[t])
              /\ \A c \in Listed : entry'[c].key = entry[c].key
              /\ \A c \in Listed : c # d => entry'[c] = entry[c]
          BY <3>6, ReplaceFacts
        <4> HIDE DEF d
        <4>2. entry'[d].memory_size = mem[t] /\ pc[t] = "put_find"
          BY <1>0, <3>6, <4>1, ListedType, SMTT(30) DEF Replaced, TypeOK, PutReplace, Goto
        <4>3. mem[t] \in Sizes[key[t]] /\ mem[t] <= max_memory
          BY <4>2 DEF SizesFit, Putting
        <4>4. CASE e = d
          BY <4>1, <4>2, <4>3, <4>4
        <4>5. CASE e # d
          BY <2>2, <3>1, <4>1, <4>5
        <4> QED BY <4>4, <4>5
      <3>7. CASE Clear(t)
        BY <2>2, <3>7 DEF Clear, FreeAll, Listed
      <3>8. CASE \/ Quiet(t) \/ AfterPutErr(t)
                 \/ \E k \in Keys, b \in Bufs : \E m \in Sizes[k] : CallPut(t, k, b, m)
        BY <3>2, <3>8, QuietFrame DEF AfterPutErr, Leave, CallPut, Call
      <3> QED BY <1>3, <3>3, <3>4, <3>5, <3>6, <3>7, <3>8 DEF Busy
    <2> QED BY <2>1, <2>2 DEF SizesFit
  <1> QED BY <1>1, <1>2, <1>3, StepKinds

\* The limit is kept: the eviction makes room before an insertion, or empties the
\* cache, and a replacement does not change the size.
LEMMA LimitNext ==
  ASSUME OneSize, IInv, MemInv, SizesFit, MemoryWithinLimit, [Next]_vars
  PROVE  MemoryWithinLimit'
  <1>0. /\ TypeOK /\ StructureOK /\ CallsSane /\ current_memory \in Int /\ max_memory \in Nat
        /\ current_memory <= max_memory /\ \A t \in Threads : mem[t] \in Nat
    BY ConstantTypes DEF IInv, TypeOK, MemoryWithinLimit
  <1>1. CASE current_memory' = current_memory \/ current_memory' = 0
    BY <1>0, <1>1 DEF MemoryWithinLimit
  <1>2. CASE UNCHANGED vars \/ InitGrow \/ InitDone \/ Destroy
    BY <1>1, <1>2 DEF vars, tableVars, InitGrow, InitDone, Destroy, FreeAll
  <1>3. ASSUME NEW t \in Threads, Quiet(t) \/ Busy(t) PROVE MemoryWithinLimit'
    <2>1. CASE \/ Quiet(t) \/ GetTouch(t) \/ PutResize(t) \/ AfterPutErr(t) \/ Clear(t)
               \/ \E k \in Keys, b \in Bufs : \E m \in Sizes[k] : CallPut(t, k, b, m)
      BY <1>1, <2>1, QuietFrame DEF GetTouch, PutResize, AfterPutErr, Leave, CallPut, Call,
                                    Clear, FreeAll, tableVars
    <2>2. CASE PutEvict(t) \/ Remove(t)
      <3>1. PICK e \in Listed : DropEntry(e)
        BY <2>2, DropStep
      <3>2. entry[e].memory_size \in Nat
        BY <1>0, ListedType DEF TypeOK
      <3>3. current_memory' = current_memory - entry[e].memory_size
        BY <3>1 DEF DropEntry
      <3> QED BY <1>0, <3>2, <3>3 DEF MemoryWithinLimit
    <2>3. ASSUME NEW e \in Entries, PutInsert(t, e) PROVE MemoryWithinLimit'
      <3>1. /\ current_memory' = current_memory + mem[t] /\ EvictDone(mem[t])
            /\ pc[t] = "put_evict"
        BY <2>3 DEF PutInsert, Goto
      <3>2. mem[t] <= max_memory
        BY <3>1 DEF SizesFit, Putting
      <3>3. lru = <<>> => current_memory = 0
        <4>1. lru = <<>> => Charged = {}
          BY DEF Charged, Listed
        <4> QED BY <4>1, FS_EmptySet DEF MemInv, MemoryExact
      <3> QED BY <1>0, <3>1, <3>2, <3>3 DEF EvictDone, MemoryWithinLimit
    <2>4. CASE PutReplace(t)
      <3> DEFINE d == Find(key[t])
      <3>1. d \in Listed /\ entry[d].key = key[t]
        BY <2>4, ReplaceFacts
      <3>2. current_memory' = current_memory - entry[d].memory_size + mem[t]
        BY <2>4 DEF PutReplace, ReplacedMemory
      <3> HIDE DEF d
      <3>3. pc[t] = "put_find" /\ key[t] \in Keys /\ entry[d].memory_size \in Nat
        BY <1>0, <2>4, <3>1, ListedType DEF PutReplace, Goto, CallsSane, TypeOK
      <3>4. entry[d].memory_size = mem[t]
        BY <3>1, <3>3 DEF SizesFit, Putting, OneSize
      <3> QED BY <1>0, <1>1, <3>2, <3>4
    <2> QED BY <1>3, <2>1, <2>2, <2>3, <2>4 DEF Busy
  <1> QED BY <1>2, <1>3, StepKinds

\* If a key's values have one size, as the blocks of an image do, current_memory
\* stays within the limit given to sqfs_cache_init.
THEOREM MemoryBounded == ASSUME OneSize PROVE Spec => []MemoryWithinLimit
  <1>1. Init => SizesFit /\ MemInv /\ MemoryWithinLimit
    <2> SUFFICES ASSUME Init PROVE SizesFit /\ MemInv /\ MemoryWithinLimit
      OBVIOUS
    <2>1. Listed = {} /\ Charged = {} /\ current_memory = 0 /\ max_memory \in Nat
      BY ConstantTypes DEF Init, Charged, Listed
    <2>2. MemInv /\ MemoryWithinLimit
      BY <2>1, FS_EmptySet DEF MemInv, MemoryExact, MemoryWithinLimit
    <2>3. SizesFit
      BY <2>1 DEF SizesFit, Init, Putting
    <2> QED BY <2>2, <2>3
  <1>2. IInv /\ MemInv /\ SizesFit /\ MemoryWithinLimit /\ [Next]_vars
          => MemInv' /\ SizesFit' /\ MemoryWithinLimit'
    BY MemNext, SizesNext, LimitNext
  <1> QED
    BY <1>1, <1>2, CacheInvariant, PTL DEF Spec

-----------------------------------------------------------------------------
(***************************************************************************)
(* The mapping                                                             *)
(***************************************************************************)
\* A listed entry is the binding of its key, and a key without one is unbound.
LEMMA BindingFacts ==
  ASSUME IInv, NEW k \in Keys
  PROVE  /\ \A e \in Listed : entry[e].key = k => Binding(k) = entry[e].value
         /\ (\A e \in Listed : entry[e].key # k) => Binding(k) = NoBuf
  <1>1. ASSUME NEW e \in Listed, entry[e].key = k PROVE Binding(k) = entry[e].value
    <2>1. \A d \in Listed : entry[d].key = k => d = e
      BY <1>1 DEF IInv, StructureOK, KeysUnique
    <2> QED BY <1>1, <2>1 DEF Binding
  <1>2. ASSUME \A e \in Listed : entry[e].key # k PROVE Binding(k) = NoBuf
    BY <1>2 DEF Binding
  <1> QED BY <1>1, <1>2

\* The same after a step.
LEMMA BindingNext ==
  ASSUME IInv', NEW k \in Keys
  PROVE  /\ \A e \in Listed' : entry'[e].key = k => Binding(k)' = entry'[e].value
         /\ (\A e \in Listed' : entry'[e].key # k) => Binding(k)' = NoBuf
  <1>1. ASSUME NEW e \in Listed', entry'[e].key = k PROVE Binding(k)' = entry'[e].value
    <2>1. \A d \in Listed' : entry'[d].key = k => d = e
      BY <1>1 DEF IInv, StructureOK, KeysUnique
    <2> QED BY <1>1, <2>1 DEF Binding
  <1>2. ASSUME \A e \in Listed' : entry'[e].key # k PROVE Binding(k)' = NoBuf
    BY <1>2 DEF Binding
  <1> QED BY <1>1, <1>2

\* The list may be reordered, and the table rehashed, behind the same bindings.
LEMMA SameBindings ==
  ASSUME Listed' = Listed, entry' = entry
  PROVE  Bindings' = Bindings
  BY DEF Bindings, Binding

\* A step of thread t that changes its request, its answer or its store.
LEMMA OneThread ==
  ASSUME IInv, NEW t \in Threads, Quiet(t) \/ Busy(t)
  PROVE  /\ Wants' = [Wants EXCEPT ![t] = Want(t)']
         /\ Answers' = [Answers EXCEPT ![t] = Answer(t)']
         /\ Offers' = [Offers EXCEPT ![t] = Offered(t)']
         /\ Wants[t] = Want(t) /\ Answers[t] = Answer(t) /\ Offers[t] = Offered(t)
  <1>1. ASSUME NEW u \in Threads, u # t
        PROVE  Want(u)' = Want(u) /\ Answer(u)' = Answer(u) /\ Offered(u)' = Offered(u)
    <2>1. pc'[u] = pc[u] /\ key'[u] = key[u] /\ ptr'[u] = ptr[u]
      BY <1>1, LocalMove
    <2> QED BY <2>1 DEF Want, Answer, Offered
  <1>2. Wants' = [Wants EXCEPT ![t] = Want(t)']
    BY <1>1 DEF Wants
  <1>3. Answers' = [Answers EXCEPT ![t] = Answer(t)']
    BY <1>1 DEF Answers
  <1>4. Offers' = [Offers EXCEPT ![t] = Offered(t)']
    BY <1>1 DEF Offers
  <1> QED BY <1>2, <1>3, <1>4 DEF Wants, Answers, Offers

\* When a thread's request, answer or store stays, so do those of all.
LEMMA KeptThread ==
  ASSUME IInv, NEW t \in Threads, Quiet(t) \/ Busy(t)
  PROVE  /\ Want(t)' = Want(t) => Wants' = Wants
         /\ Answer(t)' = Answer(t) => Answers' = Answers
         /\ Offered(t)' = Offered(t) => Offers' = Offers
  <1>1. ASSUME NEW u \in Threads
        PROVE  /\ Want(t)' = Want(t) => Want(u)' = Want(u)
               /\ Answer(t)' = Answer(t) => Answer(u)' = Answer(u)
               /\ Offered(t)' = Offered(t) => Offered(u)' = Offered(u)
    <2>1. CASE u = t
      BY <2>1
    <2>2. CASE u # t
      <3>1. pc'[u] = pc[u] /\ key'[u] = key[u] /\ ptr'[u] = ptr[u]
        BY <2>2, LocalMove
      <3> QED BY <3>1 DEF Want, Answer, Offered
    <2> QED BY <2>1, <2>2
  <1>2. Want(t)' = Want(t) => Wants' = Wants
    BY <1>1 DEF Wants
  <1>3. Answer(t)' = Answer(t) => Answers' = Answers
    BY <1>1 DEF Answers
  <1>4. Offered(t)' = Offered(t) => Offers' = Offers
    BY <1>1 DEF Offers
  <1> QED BY <1>2, <1>3, <1>4

-----------------------------------------------------------------------------
(***************************************************************************)
(* The steps                                                               *)
(***************************************************************************)
\* A thread moves without its caller's request, answer or store changing.
LEMMA Stutters ==
  ASSUME IInv, NEW t \in Threads, Quiet(t) \/ Busy(t), Bindings' = Bindings,
         Want(t)' = Want(t), Answer(t)' = Answer(t), Offered(t)' = Offered(t)
  PROVE  UNCHANGED Map!vars
  BY KeptThread DEF Map!vars

\* The steps that leave the bindings alone.
LEMMA QuietBindings ==
  ASSUME IInv, NEW t \in Threads, Quiet(t)
  PROVE  Bindings' = Bindings /\ TypeOK
  BY QuietFrame, SameBindings DEF IInv, tableVars, Listed

\* sqfs_cache_get: asked, answered where the chain is searched, and done when
\* its caller is.
LEMMA GetSteps ==
  ASSUME IInv, IInv', NEW t \in Threads,
         \/ \E k \in Keys : CallGet(t, k)
         \/ Get(t) \/ EndUse(t) \/ AfterMiss(t)
  PROVE  [Map!Next]_(Map!vars)
  <1>0. TypeOK /\ CallsSane /\ StructureOK /\ bucket_count \in Nat
    BY DEF IInv, TypeOK
  <1> USE DEF Unanswered, AnsweredHit, AnsweredMiss
  <1>1. ASSUME NEW k \in Keys, CallGet(t, k) PROVE Map!Next
    <2>1. /\ Quiet(t) /\ pc[t] = "idle" /\ pc'[t] = "get_rdlock" /\ key'[t] = k
      BY <1>0, <1>1 DEF CallGet, Call, Goto, TypeOK, Quiet
    <2>2. /\ Want(t) = <<>> /\ Want(t)' = <<k>> /\ Answer(t)' = Answer(t)
          /\ Offered(t)' = Offered(t)
      BY <2>1 DEF Want, Answer, Offered
    <2>3. Map!Ask(t, k)
      BY <2>1, <2>2, OneThread, KeptThread, QuietBindings DEF Map!Ask
    <2> QED BY <2>3 DEF Map!Next
  <1>2. CASE GetRdLock(t) \/ GetHit(t) \/ GetMiss(t) \/ GetWrLock(t)
    <2>1. Quiet(t) /\ key'[t] = key[t] /\ ptr'[t] = ptr[t]
      BY <1>2 DEF GetRdLock, GetHit, GetMiss, GetWrLock, Quiet
    <2>2. \/ pc[t] = "get_rdlock" /\ pc'[t] = "get_find"
          \/ pc[t] = "get_hit" /\ pc'[t] = "get_wrlock"
          \/ pc[t] = "get_miss" /\ pc'[t] = "missed"
          \/ pc[t] = "get_wrlock" /\ pc'[t] = "get_touch"
      BY <1>0, <1>2 DEF GetRdLock, GetHit, GetMiss, GetWrLock, Goto, TypeOK
    <2>3. Want(t)' = Want(t) /\ Answer(t)' = Answer(t) /\ Offered(t)' = Offered(t)
      BY <2>1, <2>2 DEF Want, Answer, Offered
    <2> QED BY <2>1, <2>3, QuietBindings, Stutters
  <1>3. CASE GetTouch(t)
    <2>1. /\ Busy(t) /\ key'[t] = key[t] /\ ptr'[t] = ptr[t] /\ entry' = entry
          /\ pc[t] = "get_touch" /\ pc'[t] = "using"
      BY <1>0, <1>3 DEF GetTouch, Goto, TypeOK, Busy
    <2>2. Listed' = Listed
      <3>1. CASE Found(key[t]) # {}
        <4>1. key[t] \in Keys /\ bucket_count > 0
          BY <1>0, <2>1 DEF CallsSane
        <4>2. Find(key[t]) \in Listed
          BY <1>0, <3>1, <4>1, FindFacts
        <4>3. lru' = LruMoveToHead(Find(key[t]))
          BY <1>3, <3>1 DEF GetTouch
        <4>4. Elems(lru') = Listed
          BY <1>0, <4>2, <4>3, MoveToHeadFacts DEF TypeOK, StructureOK
        <4> QED BY <4>4, ListedIsElems
      <3>2. CASE Found(key[t]) = {}
        BY <1>3, <3>2 DEF GetTouch, Listed
      <3> QED BY <3>1, <3>2
    <2>3. Want(t)' = Want(t) /\ Answer(t)' = Answer(t) /\ Offered(t)' = Offered(t)
      BY <2>1 DEF Want, Answer, Offered
    <2> QED BY <2>1, <2>2, <2>3, SameBindings, Stutters
  <1>4. CASE GetFindHit(t) \/ GetFindMiss(t)
    <2>1. Quiet(t) /\ pc[t] = "get_find" /\ key'[t] = key[t]
      BY <1>4 DEF GetFindHit, GetFindMiss, Quiet, Goto
    <2>2. key[t] \in Keys /\ bucket_count > 0
      BY <1>0, <2>1 DEF CallsSane
    <2>3. /\ pc'[t] \in AnsweredHit \union AnsweredMiss
          /\ Answer(t)' = <<Binding(key[t])>>
      <3>1. CASE GetFindHit(t)
        <4>1. /\ pc'[t] = "get_hit" /\ Found(key[t]) # {}
              /\ ptr'[t] = entry[Find(key[t])].value
          BY <1>0, <3>1 DEF GetFindHit, Goto, TypeOK
        <4>2. Binding(key[t]) = entry[Find(key[t])].value
          BY <1>0, <2>2, <4>1, FindFacts, BindingFacts
        <4> QED BY <4>1, <4>2 DEF Answer
      <3>2. CASE GetFindMiss(t)
        <4>1. pc'[t] = "get_miss" /\ Found(key[t]) = {}
          BY <1>0, <3>2 DEF GetFindMiss, Goto, TypeOK
        <4>2. Binding(key[t]) = NoBuf
          BY <1>0, <2>2, <4>1, FindFacts, BindingFacts
        <4> QED BY <4>1, <4>2 DEF Answer
      <3> QED BY <1>4, <3>1, <3>2
    <2>4. /\ Want(t) = <<key[t]>> /\ Want(t)' = Want(t) /\ Answer(t) = <<>>
          /\ Offered(t)' = Offered(t)
      BY <2>1, <2>3 DEF Want, Answer, Offered
    <2>5. Bindings[Wants[t][1]] = Binding(key[t]) /\ Wants[t] # <<>>
      BY <2>1, <2>2, <2>4, OneThread DEF Bindings
    <2>6. Map!Lookup(t)
      BY <2>1, <2>3, <2>4, <2>5, OneThread, KeptThread, QuietBindings DEF Map!Lookup
    <2> QED BY <2>6 DEF Map!Next
  <1>5. CASE EndUse(t) \/ AfterMiss(t)
    <2>1. Quiet(t) /\ pc[t] \in {"using", "missed"} /\ pc'[t] = "idle"
      BY <1>0, <1>5 DEF EndUse, AfterMiss, Leave, Goto, Quiet, TypeOK
    <2>2. /\ Want(t)' = <<>> /\ Answer(t)' = <<>> /\ Answer(t) # <<>>
          /\ Offered(t)' = Offered(t)
      BY <2>1 DEF Want, Answer, Offered
    <2>3. Map!Finish(t)
      BY <2>1, <2>2, OneThread, KeptThread, QuietBindings DEF Map!Finish
    <2> QED BY <2>3 DEF Map!Next
  <1> QED BY <1>1, <1>2, <1>3, <1>4, <1>5 DEF Get

\* What is offered is not yet the binding of any key.
LEMMA OfferedUnbound ==
  ASSUME IInv, NEW t \in Threads, pc[t] \in PutOwned, NEW j \in Keys
  PROVE  Bindings[j] # ptr[t]
  <1>1. ptr[t] \in Bufs /\ \A e \in Listed : entry[e].value # ptr[t]
    BY DEF IInv, BufsOwnedOnce
  <1>2. CASE \E e \in Listed : entry[e].key = j
    <2>1. PICK e \in Listed : entry[e].key = j
      BY <1>2
    <2>2. Binding(j) = entry[e].value
      BY <2>1, BindingFacts
    <2> QED BY <1>1, <2>2 DEF Bindings
  <1>3. CASE \A e \in Listed : entry[e].key # j
    BY <1>1, <1>3, BindingFacts, Sentinels DEF Bindings
  <1> QED BY <1>2, <1>3

\* The value of a put is the binding of its key, and the other keys keep theirs.
LEMMA StoredBindings ==
  ASSUME IInv, IInv', NEW k \in Keys, NEW b, NEW e,
         e \in Listed', entry'[e].key = k, entry'[e].value = b,
         Listed' = Listed \union {e}, e \in Listed => entry[e].key = k,
         \A d \in Listed : d # e => entry'[d] = entry[d]
  PROVE  Bindings' = [Bindings EXCEPT ![k] = b]
  <1>1. Binding(k)' = b
    BY BindingNext
  <1>2. ASSUME NEW j \in Keys, j # k PROVE Binding(j)' = Binding(j)
    <2>1. CASE \E d \in Listed : entry[d].key = j
      <3>1. PICK d \in Listed : entry[d].key = j
        BY <2>1
      <3>2. d # e /\ d \in Listed' /\ entry'[d] = entry[d]
        BY <1>2, <3>1
      <3>3. Binding(j) = entry[d].value
        BY <3>1, BindingFacts
      <3>4. Binding(j)' = entry'[d].value
        BY <3>1, <3>2, BindingNext
      <3> QED BY <3>2, <3>3, <3>4
    <2>2. CASE \A d \in Listed : entry[d].key # j
      <3>1. \A d \in Listed' : entry'[d].key # j
        BY <1>2, <2>2
      <3> QED BY <2>2, <3>1, BindingFacts, BindingNext
    <2> QED BY <2>1, <2>2
  <1> QED BY <1>1, <1>2 DEF Bindings

\* sqfs_cache_put: offered, and stored where the value is linked in or replaced,
\* or refused.
LEMMA PutSteps ==
  ASSUME IInv, IInv', NEW t \in Threads,
         \/ \E k \in Keys, b \in Bufs : \E m \in Sizes[k] : CallPut(t, k, b, m)
         \/ PutWrLock(t) \/ PutReplace(t) \/ PutFindNone(t) \/ PutFail(t)
         \/ (\E e \in Entries : PutInsert(t, e))
         \/ PutKeepBuckets(t) \/ PutResize(t) \/ AfterPut(t) \/ AfterPutErr(t)
  PROVE  [Map!Next]_(Map!vars)
  <1>0. TypeOK /\ CallsSane /\ StructureOK /\ EntriesBounded /\ BufsOwnedOnce
    BY DEF IInv
  <1> USE DEF Unanswered, AnsweredHit, AnsweredMiss
  <1>1. ASSUME NEW k \in Keys, NEW b \in Bufs, NEW m \in Sizes[k], CallPut(t, k, b, m)
        PROVE  [Map!Next]_(Map!vars)
    <2>1. /\ Busy(t) /\ pc[t] = "idle" /\ pc'[t] \in {"put_err", "put_wrlock"}
          /\ key'[t] = k /\ ptr'[t] = b /\ UNCHANGED <<lru, entry>>
      BY <1>0, <1>1 DEF CallPut, Call, Goto, TypeOK, Busy, tableVars
    <2>2. Bindings' = Bindings
      BY <2>1, SameBindings DEF Listed
    <2>3. Want(t)' = Want(t) /\ Answer(t)' = Answer(t) /\ Offered(t) = <<>>
      BY <2>1 DEF Want, Answer, Offered
    <2>4. CASE pc'[t] = "put_err"
      <3>1. Offered(t)' = Offered(t)
        BY <2>3, <2>4 DEF Offered
      <3> QED BY <2>1, <2>2, <2>3, <3>1, Stutters
    <2>5. CASE pc'[t] = "put_wrlock"
      <3>1. Offered(t)' = <<k, b>>
        BY <2>1, <2>5 DEF Offered
      <3>2. Map!Offer(t, k, b)
        BY <2>1, <2>2, <2>3, <3>1, OneThread, KeptThread DEF Map!Offer
      <3> QED BY <3>2 DEF Map!Next
    <2> QED BY <2>1, <2>4, <2>5
  <1>2. CASE PutWrLock(t) \/ PutFindNone(t) \/ PutKeepBuckets(t) \/ AfterPut(t)
    <2>1. Quiet(t)
      BY <1>2 DEF Quiet
    <2>2. \/ /\ pc[t] = "put_wrlock" /\ pc'[t] = "put_find"
             /\ key'[t] = key[t] /\ ptr'[t] = ptr[t]
          \/ /\ pc[t] = "put_find" /\ pc'[t] = "put_evict"
             /\ key'[t] = key[t] /\ ptr'[t] = ptr[t]
          \/ pc[t] = "put_resize" /\ pc'[t] = "put_ok"
          \/ pc[t] = "put_ok" /\ pc'[t] = "idle"
      BY <1>0, <1>2 DEF PutWrLock, PutFindNone, PutKeepBuckets, AfterPut, Leave, Goto, TypeOK
    <2>3. Want(t)' = Want(t) /\ Answer(t)' = Answer(t) /\ Offered(t)' = Offered(t)
      BY <2>2 DEF Want, Answer, Offered
    <2> QED BY <2>1, <2>3, QuietBindings, Stutters
  <1>3. CASE PutResize(t) \/ AfterPutErr(t)
    <2>1. /\ Busy(t) /\ UNCHANGED <<lru, entry>>
          /\ pc[t] \in {"put_resize", "put_err"} /\ pc'[t] \in {"put_ok", "idle"}
      BY <1>0, <1>3 DEF PutResize, AfterPutErr, Leave, Goto, TypeOK, Busy, tableVars
    <2>2. Bindings' = Bindings
      BY <2>1, SameBindings DEF Listed
    <2>3. Want(t)' = Want(t) /\ Answer(t)' = Answer(t) /\ Offered(t)' = Offered(t)
      BY <2>1 DEF Want, Answer, Offered
    <2> QED BY <2>1, <2>2, <2>3, Stutters
  <1>4. CASE PutFail(t)
    <2>1. Quiet(t) /\ pc[t] = "put_evict" /\ pc'[t] = "put_err"
      BY <1>0, <1>4 DEF PutFail, Goto, TypeOK, Quiet
    <2>2. /\ Want(t)' = Want(t) /\ Answer(t)' = Answer(t)
          /\ Offered(t) # <<>> /\ Offered(t)' = <<>>
      BY <2>1 DEF Want, Answer, Offered
    <2>3. Map!Refuse(t)
      BY <2>1, <2>2, OneThread, KeptThread, QuietBindings DEF Map!Refuse
    <2> QED BY <2>3 DEF Map!Next
  <1>5. ASSUME Busy(t), pc[t] \in {"put_find", "put_evict"},
               pc'[t] \in {"put_ok", "put_resize"},
               Bindings' = [Bindings EXCEPT ![key[t]] = ptr[t]]
        PROVE  Map!Next
    <2>1. /\ Want(t)' = Want(t) /\ Answer(t)' = Answer(t)
          /\ Offered(t) = <<key[t], ptr[t]>> /\ Offered(t)' = <<>>
      BY <1>5 DEF Want, Answer, Offered
    <2>2. Offers[t] = <<key[t], ptr[t]>> /\ Offers[t] # <<>>
      BY <1>5, <2>1, OneThread
    <2>3. \A j \in Keys : Bindings[j] # Offers[t][2]
      BY <1>5, <2>2, OfferedUnbound DEF PutOwned
    <2>4. Map!Store(t)
      BY <1>5, <2>1, <2>2, <2>3, OneThread, KeptThread DEF Map!Store
    <2> QED BY <2>4 DEF Map!Next
  <1>6. CASE PutReplace(t)
    <2>1. Busy(t) /\ pc[t] = "put_find" /\ pc'[t] = "put_ok" /\ key[t] \in Keys
      BY <1>0, <1>6 DEF PutReplace, Goto, TypeOK, Busy, CallsSane
    <2>2. PICK e : /\ e \in Listed /\ entry[e].key = key[t]
                   /\ entry'[e].key = key[t] /\ entry'[e].value = ptr[t]
                   /\ \A d \in Listed : d # e => entry'[d] = entry[d]
                   /\ Listed' = Listed
      BY <1>6, ReplaceFacts
    <2>3. Listed' = Listed \union {e} /\ e \in Listed'
      BY <2>2
    <2>4. Bindings' = [Bindings EXCEPT ![key[t]] = ptr[t]]
      BY <2>1, <2>2, <2>3, StoredBindings
    <2> QED BY <1>5, <2>1, <2>4
  <1>7. ASSUME NEW e \in Entries, PutInsert(t, e) PROVE Map!Next
    <2>1. Busy(t) /\ pc[t] = "put_evict" /\ pc'[t] = "put_resize" /\ key[t] \in Keys
      BY <1>0, <1>7 DEF PutInsert, Goto, TypeOK, Busy, CallsSane
    <2>2. /\ e \notin Listed /\ Listed' = Listed \union {e}
          /\ \A d \in Listed : entry'[d] = entry[d]
          /\ entry'[e].key = key[t] /\ entry'[e].value = ptr[t]
      BY <1>0, <1>7, InsertFacts
    <2>3. Bindings' = [Bindings EXCEPT ![key[t]] = ptr[t]]
      BY <2>1, <2>2, StoredBindings
    <2> QED BY <1>5, <2>1, <2>3
  <1> QED BY <1>1, <1>2, <1>3, <1>4, <1>6, <1>7

\* An entry that goes takes the binding of its key with it.
LEMMA DroppedBinding ==
  ASSUME IInv, IInv', NEW e \in Listed, Listed' = Listed \ {e},
         \A d \in Listed \ {e} : entry'[d] = entry[d]
  PROVE  Bindings' = [j \in Keys |-> IF j \in {entry[e].key} THEN NoBuf ELSE Bindings[j]]
  <1>1. ASSUME NEW j \in Keys
        PROVE  Binding(j)' = IF j = entry[e].key THEN NoBuf ELSE Binding(j)
    <2>1. CASE j = entry[e].key
      <3>1. \A d \in Listed : entry[d].key = j => d = e
        BY <2>1 DEF IInv, StructureOK, KeysUnique
      <3>2. \A d \in Listed' : entry'[d].key # j
        BY <3>1
      <3>3. Binding(j)' = NoBuf
        BY <3>2, BindingNext
      <3> QED BY <2>1, <3>3
    <2>2. CASE j # entry[e].key
      <3>1. CASE \E d \in Listed : entry[d].key = j
        <4>1. PICK d \in Listed : entry[d].key = j
          BY <3>1
        <4>2. d # e /\ d \in Listed' /\ entry'[d] = entry[d]
          BY <2>2, <4>1
        <4>3. Binding(j) = entry[d].value
          BY <4>1, BindingFacts
        <4>4. Binding(j)' = entry'[d].value
          BY <4>1, <4>2, BindingNext
        <4> QED BY <2>2, <4>2, <4>3, <4>4
      <3>2. CASE \A d \in Listed : entry[d].key # j
        <4>1. \A d \in Listed' : entry'[d].key # j
          BY <3>2
        <4>2. Binding(j) = NoBuf
          BY <3>2, BindingFacts
        <4>3. Binding(j)' = NoBuf
          BY <4>1, BindingNext
        <4> QED BY <2>2, <4>2, <4>3
      <3> QED BY <3>1, <3>2
    <2> QED BY <2>1, <2>2
  <1> QED BY <1>1 DEF Bindings

\* An empty list binds no key.
LEMMA EmptyBindings ==
  ASSUME IInv', lru' = <<>>
  PROVE  Bindings' = [j \in Keys |-> IF j \in Keys THEN NoBuf ELSE Bindings[j]]
  <1>1. Listed' = {}
    BY DEF Listed
  <1>2. ASSUME NEW j \in Keys PROVE Binding(j)' = NoBuf
    BY <1>1, BindingNext
  <1> QED BY <1>2 DEF Bindings

\* Evictions, sqfs_cache_remove and sqfs_cache_clear are drops.
LEMMA DropSteps ==
  ASSUME IInv, IInv', NEW t \in Threads,
         \/ CallClear(t) \/ (\E k \in Keys : CallRemove(t, k))
         \/ PutEvict(t) \/ RemoveOrClear(t) \/ AfterRemove(t)
  PROVE  [Map!Next]_(Map!vars)
  <1>0. TypeOK /\ CallsSane /\ StructureOK /\ EntriesBounded
    BY DEF IInv
  <1> USE DEF Unanswered, AnsweredHit, AnsweredMiss
  <1> DEFINE Removing == {"rem_wrlock", "rem_find", "clr_wrlock", "clr_free", "removed", "idle"}
  <1>1. CASE \/ CallClear(t) \/ (\E k \in Keys : CallRemove(t, k))
             \/ RemoveWrLock(t) \/ RemoveNone(t) \/ ClearWrLock(t) \/ AfterRemove(t)
    <2>1. Quiet(t) /\ pc[t] \in Removing /\ pc'[t] \in Removing
      BY <1>0, <1>1 DEF CallClear, CallRemove, Call, RemoveWrLock, RemoveNone, ClearWrLock,
                        AfterRemove, Leave, Goto, TypeOK, Quiet
    <2>2. Want(t)' = Want(t) /\ Answer(t)' = Answer(t) /\ Offered(t)' = Offered(t)
      BY <2>1 DEF Want, Answer, Offered
    <2> QED BY <2>1, <2>2, QuietBindings, Stutters
  <1>2. CASE PutEvict(t) \/ Remove(t)
    <2>1. PICK e \in Listed : DropEntry(e)
      BY <1>2, DropStep
    <2>2. Busy(t) /\ bucket_count > 0
      BY <1>0, <1>2 DEF Busy, PutEvict, Remove, Goto, CallsSane
    <2>3. Listed' = Listed \ {e} /\ \A d \in Listed \ {e} : entry'[d] = entry[d]
      BY <1>0, <2>1, <2>2, DropFacts
    <2>4. entry[e].key \in Keys
      BY <1>0 DEF StructureOK, ChainsMatchList
    <2>5. Want(t)' = Want(t) /\ Answer(t)' = Answer(t) /\ Offered(t)' = Offered(t)
      <3>1. CASE PutEvict(t)
        BY <3>1 DEF PutEvict, locals, Want, Answer, Offered
      <3>2. CASE Remove(t)
        <4>1. pc[t] = "rem_find" /\ pc'[t] = "removed"
          BY <1>0, <3>2 DEF Remove, Goto, TypeOK
        <4> QED BY <4>1 DEF Want, Answer, Offered
      <3> QED BY <1>2, <3>1, <3>2
    <2>6. Bindings' = [j \in Keys |-> IF j \in {entry[e].key} THEN NoBuf ELSE Bindings[j]]
      BY <2>3, DroppedBinding
    <2>7. Map!Drop({entry[e].key})
      BY <2>2, <2>5, <2>6, KeptThread DEF Map!Drop
    <2> QED BY <2>4, <2>7 DEF Map!Next
  <1>3. CASE Clear(t)
    <2>1. Busy(t) /\ lru' = <<>> /\ pc[t] = "clr_free" /\ pc'[t] = "removed"
      BY <1>0, <1>3 DEF Busy, Clear, FreeAll, Goto, TypeOK
    <2>2. Want(t)' = Want(t) /\ Answer(t)' = Answer(t) /\ Offered(t)' = Offered(t)
      BY <2>1 DEF Want, Answer, Offered
    <2>3. Map!Drop(Keys)
      BY <2>1, <2>2, EmptyBindings, KeptThread DEF Map!Drop
    <2> QED BY <2>3 DEF Map!Next
  <1> QED BY <1>1, <1>2, <1>3 DEF RemoveOrClear

\* The mounting thread sizes the table behind the same bindings; the destruction
\* drops them all.
LEMMA MountSteps ==
  ASSUME IInv, IInv', InitGrow \/ InitDone \/ Destroy
  PROVE  [Map!Next]_(Map!vars)
  <1>1. UNCHANGED <<pc, key, ptr>>
    BY DEF InitGrow, InitDone, Destroy, locals
  <1>2. Wants' = Wants /\ Answers' = Answers /\ Offers' = Offers
    BY <1>1 DEF Wants, Answers, Offers, Want, Answer, Offered
  <1>3. CASE InitGrow \/ InitDone
    <2>1. Bindings' = Bindings
      BY <1>3, SameBindings DEF InitGrow, InitDone, tableVars, Listed
    <2> QED BY <1>2, <2>1 DEF Map!vars
  <1>4. CASE Destroy
    <2>1. lru' = <<>>
      BY <1>4 DEF Destroy, FreeAll
    <2>2. Map!Drop(Keys)
      BY <1>2, <2>1, EmptyBindings DEF Map!Drop
    <2> QED BY <2>2 DEF Map!Next
  <1> QED BY <1>3, <1>4

\* The cache of cache.c, with its rwlock, its chains, its LRU list and its gap
\* between the two locks of sqfs_cache_get, is the map that cache.h promises.
THEOREM CacheImplementsMap == Spec => ImplementsMap
  <1>1. Init => Map!Init
    <2> SUFFICES ASSUME Init PROVE Map!Init
      OBVIOUS
    <2>1. Listed = {}
      BY DEF Init, Listed
    <2>2. Bindings = [k \in Keys |-> NoBuf]
      BY <2>1 DEF Bindings, Binding
    <2>3. /\ Wants = [t \in Threads |-> <<>>] /\ Answers = [t \in Threads |-> <<>>]
          /\ Offers = [t \in Threads |-> <<>>]
      BY DEF Init, Wants, Answers, Offers, Want, Answer, Offered,
             Unanswered, AnsweredHit, AnsweredMiss
    <2> QED BY <2>2, <2>3 DEF Map!Init
  <1>2. IInv /\ [Next]_vars => [Map!Next]_(Map!vars)
    <2> SUFFICES ASSUME IInv, [Next]_vars PROVE [Map!Next]_(Map!vars)
      OBVIOUS
    <2>0. IInv'
      BY NextIInv
    <2>1. CASE UNCHANGED vars
      <3>1. UNCHANGED <<lru, entry, pc, key, ptr>>
        BY <2>1 DEF vars, tableVars, locals
      <3> QED BY <3>1 DEF Map!vars, Bindings, Wants, Answers, Offers, Binding, Listed,
                          Want, Answer, Offered
    <2>2. CASE InitGrow \/ InitDone \/ Destroy
      BY <2>0, <2>2, MountSteps
    <2>3. ASSUME NEW t \in Threads, Quiet(t) \/ Busy(t) PROVE [Map!Next]_(Map!vars)
      <3>1. \/ \E k \in Keys : CallGet(t, k)
            \/ Get(t) \/ EndUse(t) \/ AfterMiss(t)
            \/ \E k \in Keys, b \in Bufs : \E m \in Sizes[k] : CallPut(t, k, b, m)
            \/ PutWrLock(t) \/ PutReplace(t) \/ PutFindNone(t) \/ PutFail(t)
            \/ (\E e \in Entries : PutInsert(t, e))
            \/ PutKeepBuckets(t) \/ PutResize(t) \/ AfterPut(t) \/ AfterPutErr(t)
            \/ CallClear(t) \/ (\E k \in Keys : CallRemove(t, k))
            \/ PutEvict(t) \/ RemoveOrClear(t) \/ AfterRemove(t)
        BY <2>3, Zenon DEF Quiet, Busy, Get, RemoveOrClear
      <3> QED BY <2>0, <3>1, GetSteps, PutSteps, DropSteps
    <2> QED BY <2>1, <2>2, <2>3, StepKinds
  <1> QED
    BY <1>1, <1>2, CacheInvariant, PTL DEF Spec, ImplementsMap, Map!Spec

-----------------------------------------------------------------------------
(***************************************************************************)
(* The statistics, counted by increments that race                         *)
(***************************************************************************)
\* What two threads have loaded and not yet stored can be stored side by side:
\* the hits one of them will write and the misses the other will.
CountsInv ==
  /\ LookupsNotInvented
  /\ \A t \in Threads : pc[t] = "get_hit" => seen[t] + misses <= lookups
  /\ \A t \in Threads : pc[t] = "get_miss" => hits + seen[t] <= lookups
  /\ \A t, u \in Threads :
       pc[t] = "get_hit" /\ pc[u] = "get_miss" => seen[t] + seen[u] <= lookups

Counted(t) == GetFindHit(t) \/ GetFindMiss(t) \/ GetHit(t) \/ GetMiss(t)

\* No other step counts, or is about to.
LEMMA CountFrame ==
  ASSUME TypeOK, NEW t \in Threads, Quiet(t) \/ Busy(t), ~Counted(t)
  PROVE  /\ UNCHANGED <<hits, misses, lookups>>
         /\ pc'[t] \notin {"get_hit", "get_miss"}
  <1> USE DEF Goto, TypeOK, statVars
  <1>1. CASE GetRdLock(t) \/ GetWrLock(t) \/ GetTouch(t)
    BY <1>1 DEF GetRdLock, GetWrLock, GetTouch
  <1>2. CASE PutWrLock(t) \/ PutFindNone(t) \/ PutFail(t) \/ PutEvict(t)
    BY <1>2 DEF PutWrLock, PutFindNone, PutFail, PutEvict, locals
  <1>3. CASE PutReplace(t) \/ PutKeepBuckets(t) \/ PutResize(t)
    BY <1>3 DEF PutReplace, PutKeepBuckets, PutResize
  <1>4. CASE \E e \in Entries : PutInsert(t, e)
    BY <1>4 DEF PutInsert
  <1>5. CASE RemoveWrLock(t) \/ RemoveNone(t) \/ ClearWrLock(t) \/ Remove(t) \/ Clear(t)
    BY <1>5 DEF RemoveWrLock, RemoveNone, ClearWrLock, Remove, Clear
  <1>6. CASE EndUse(t) \/ AfterMiss(t) \/ AfterPut(t) \/ AfterRemove(t) \/ AfterPutErr(t)
    BY <1>6 DEF EndUse, AfterMiss, AfterPut, AfterRemove, AfterPutErr, Leave
  <1>7. CASE CallClear(t) \/ \E k \in Keys : CallGet(t, k) \/ CallRemove(t, k)
    BY <1>7 DEF CallClear, CallGet, CallRemove, Call
  <1>8. CASE \E k \in Keys, b \in Bufs : \E m \in Sizes[k] : CallPut(t, k, b, m)
    BY <1>8 DEF CallPut, Call
  <1> QED BY <1>1, <1>2, <1>3, <1>4, <1>5, <1>6, <1>7, <1>8 DEF Quiet, Busy, Counted

\* What one thread has loaded is not touched by the others.
LEMMA SeenKept ==
  ASSUME TypeOK, NEW t \in Threads, Quiet(t) \/ Busy(t)
  PROVE  \A u \in Threads : u # t => seen'[u] = seen[u] /\ pc'[u] = pc[u]
  <1> USE DEF Goto, TypeOK
  <1>1. CASE GetRdLock(t) \/ GetFindHit(t) \/ GetFindMiss(t) \/ GetHit(t) \/ GetMiss(t)
             \/ GetWrLock(t) \/ GetTouch(t)
    BY <1>1 DEF GetRdLock, GetFindHit, GetFindMiss, GetHit, GetMiss, GetWrLock, GetTouch
  <1>2. CASE PutWrLock(t) \/ PutFindNone(t) \/ PutFail(t) \/ PutEvict(t)
    BY <1>2 DEF PutWrLock, PutFindNone, PutFail, PutEvict, locals
  <1>3. CASE PutReplace(t) \/ PutKeepBuckets(t) \/ PutResize(t)
    BY <1>3 DEF PutReplace, PutKeepBuckets, PutResize
  <1>4. CASE \E e \in Entries : PutInsert(t, e)
    BY <1>4 DEF PutInsert
  <1>5. CASE RemoveWrLock(t) \/ RemoveNone(t) \/ ClearWrLock(t) \/ Remove(t) \/ Clear(t)
    BY <1>5 DEF RemoveWrLock, RemoveNone, ClearWrLock, Remove, Clear
  <1>6. CASE EndUse(t) \/ AfterMiss(t) \/ AfterPut(t) \/ AfterRemove(t) \/ AfterPutErr(t)
    BY <1>6 DEF EndUse, AfterMiss, AfterPut, AfterRemove, AfterPutErr, Leave
  <1>7. CASE CallClear(t) \/ \E k \in Keys : CallGet(t, k) \/ CallRemove(t, k)
    BY <1>7 DEF CallClear, CallGet, CallRemove, Call
  <1>8. CASE \E k \in Keys, b \in Bufs : \E m \in Sizes[k] : CallPut(t, k, b, m)
    BY <1>8 DEF CallPut, Call
  <1> QED BY <1>1, <1>2, <1>3, <1>4, <1>5, <1>6, <1>7, <1>8 DEF Quiet, Busy

LEMMA CountsNext == IInv /\ CountsInv /\ [Next]_vars => CountsInv'
  <1> SUFFICES ASSUME IInv, CountsInv, [Next]_vars PROVE CountsInv'
    OBVIOUS
  <1>0. /\ TypeOK /\ CallsSane
        /\ hits \in Nat /\ misses \in Nat /\ lookups \in Nat
        /\ \A t \in Threads : seen[t] \in Nat
    BY DEF IInv, TypeOK
  <1>1. CASE UNCHANGED vars
    BY <1>1 DEF CountsInv, LookupsNotInvented, vars, statVars, locals
  <1>2. CASE InitGrow \/ InitDone \/ Destroy
    <2>1. \A t \in Threads : pc'[t] = "idle"
      BY <1>0, <1>2 DEF InitGrow, InitDone, Destroy, CallsSane, locals
    <2>2. hits' + misses' <= lookups'
      BY <1>2 DEF InitGrow, InitDone, Destroy, CountsInv, LookupsNotInvented, statVars
    <2> QED
      BY <2>1, <2>2 DEF CountsInv, LookupsNotInvented
  <1>3. ASSUME NEW t \in Threads, Quiet(t) \/ Busy(t) PROVE CountsInv'
    <2>0. \A u \in Threads : u # t => seen'[u] = seen[u] /\ pc'[u] = pc[u]
      BY <1>0, <1>3, SeenKept
    <2>1. CASE GetFindHit(t) \/ GetFindMiss(t)
      <3>1. /\ UNCHANGED <<hits, misses, lookups>>
            /\ \/ pc'[t] = "get_hit" /\ seen'[t] = hits
               \/ pc'[t] = "get_miss" /\ seen'[t] = misses
        BY <1>0, <2>1 DEF GetFindHit, GetFindMiss, Goto, statVars, TypeOK
      <3> QED
        BY <1>0, <2>0, <3>1 DEF CountsInv, LookupsNotInvented
    <2>2. CASE GetHit(t)
      <3>1. /\ pc[t] = "get_hit" /\ pc'[t] = "get_wrlock"
            /\ hits' = seen[t] + 1 /\ misses' = misses /\ lookups' = lookups + 1
        BY <1>0, <2>2 DEF GetHit, Goto, TypeOK
      <3> QED
        BY <1>0, <2>0, <3>1 DEF CountsInv, LookupsNotInvented
    <2>3. CASE GetMiss(t)
      <3>1. /\ pc[t] = "get_miss" /\ pc'[t] = "missed"
            /\ misses' = seen[t] + 1 /\ hits' = hits /\ lookups' = lookups + 1
        BY <1>0, <2>3 DEF GetMiss, Goto, TypeOK
      <3> QED
        BY <1>0, <2>0, <3>1 DEF CountsInv, LookupsNotInvented
    <2>4. CASE ~Counted(t)
      <3>1. /\ UNCHANGED <<hits, misses, lookups>>
            /\ pc'[t] \notin {"get_hit", "get_miss"}
        BY <1>0, <1>3, <2>4, CountFrame
      <3> QED
        BY <1>0, <2>0, <3>1 DEF CountsInv, LookupsNotInvented
    <2> QED
      BY <2>1, <2>2, <2>3, <2>4 DEF Counted
  <1> QED
    BY <1>1, <1>2, <1>3, StepKinds

\* However many readers increment hits and misses at once under the shared lock,
\* the two never count more lookups than were made.
THEOREM CountsBounded == Spec => []LookupsNotInvented
  <1>1. Init => CountsInv
    BY DEF Init, CountsInv, LookupsNotInvented
  <1>2. CountsInv => LookupsNotInvented
    BY DEF CountsInv
  <1> QED
    BY <1>1, <1>2, CountsNext, CacheInvariant, PTL DEF Spec

-----------------------------------------------------------------------------
(***************************************************************************)
(* Data reads and fragment reads sharing one cache (BlockCache).  They do  *)
(* not quite keep the contract of cache.h (a data read drops its entry     *)
(* when the put fails, a fragment read goes on reading what it has put),   *)
(* so the guarantees of Cache are proved again for them:                   *)
(*   - ownership of buffers, for any number of threads;                    *)
(*   - no fragment buffer is ever lost, for any number of threads;         *)
(*   - for one thread (a mount with -s), a cached pointer is valid while   *)
(*     it is used, and what is read through it has the key asked for.      *)
(***************************************************************************)
(***************************************************************************)
(* The steps of the readers as steps of the cache.                         *)
(***************************************************************************)
\* The two steps of the readers that no caller bound by cache.h would take.
DropsEntry(t) == Leave(t, "put_err") /\ UNCHANGED heap
KeepsUsing(t) ==
  /\ Goto(t, "put_ok", "using")
  /\ UNCHANGED <<phase, lockVars, tableVars, statVars, heap, key, ptr, mem, seen, calls>>

\* What a read that is under way is about, and what the buffers hold: a thread
\* inside the API looks for the key of its block, an allocated buffer holds the
\* bytes of a block with the key it was filled for, and a put carries its own.
JobInv ==
  /\ job \in [Threads -> Jobs \union {NoJob}]
  /\ staged \in [Threads -> SUBSET {"entry", "data", "bytes"}]
  /\ content \in [Bufs -> Jobs \union {NoJob}]
  /\ \A t \in Threads : "data" \in staged[t] => "entry" \in staged[t]
  /\ \A t \in Threads : pc[t] # "idle" \/ job[t] = NoJob => staged[t] = {}
  /\ \A t \in Threads : pc[t] # "idle" => job[t] \in Jobs /\ key[t] = CacheKey[job[t]]
  /\ \A b \in Bufs : heap[b] # NoKey => content[b] \in Jobs /\ CacheKey[content[b]] = heap[b]
  /\ \A t \in Threads : pc[t] \in PutOwned => content[ptr[t]] = job[t]

\* The steps of a thread, with what they do to the reads.
InThread(t) ==
  \/ InCache(t)
  \/ \E j \in Jobs : StartRead(t, j)
  \/ CopyCached(t) \/ Missed(t) \/ DataAfterPut(t) \/ FragAfterPutErr(t)
  \/ \E b \in Bufs : PutBlock(t, b)

\* The steps between the miss and the put, which leave the cache alone.
Fills(t) ==
  \/ ReadDone(t) \/ ReadFailed(t) \/ NewEntry(t) \/ NewData(t)
  \/ NoEntryMemory(t) \/ NoDataMemory(t)

\* They are steps that Cache knows.
LEMMA InThreadKind ==
  ASSUME JobInv, NEW t \in Threads, InThread(t)
  PROVE  Quiet(t) \/ Busy(t)
  <1>1. ASSUME NEW j \in Jobs, StartRead(t, j) PROVE Quiet(t)
    <2>1. CacheKey[j] \in Keys
      BY JobTypes DEF Jobs
    <2> QED
      BY <1>1, <2>1 DEF StartRead, Quiet
  <1>2. ASSUME NEW b \in Bufs, PutBlock(t, b) PROVE Busy(t)
    <2>1. CacheKey[job[t]] \in Keys
      BY <1>2, JobTypes DEF Jobs, JobInv, PutBlock, Filling
    <2> QED
      BY <1>2, <2>1 DEF PutBlock, Busy
  <1>3. CASE InCache(t)
    BY <1>3, Zenon DEF InCache, Get, Put, Quiet, Busy
  <1>4. CASE CopyCached(t) \/ Missed(t) \/ DataAfterPut(t)
    BY <1>4 DEF CopyCached, Missed, DataAfterPut, Quiet
  <1>5. CASE FragAfterPutErr(t)
    BY <1>5 DEF FragAfterPutErr, Busy
  <1> QED
    BY <1>1, <1>2, <1>3, <1>4, <1>5 DEF InThread

\* Every step is one of the mounting thread, a step that Cache knows, one of
\* the two it does not, or leaves the cache alone.
LEMMA ReaderSteps ==
  ASSUME [BNext]_blockVars
  PROVE  \/ UNCHANGED blockVars
         \/ (InitGrow \/ InitDone \/ Destroy \/ Unmounted) /\ Working
         \/ \E t \in Threads : \/ InThread(t) \/ Fills(t)
                               \/ DataAfterPutErr(t) \/ FragKeepsUsing(t)
  BY Zenon DEF BNext, BDestroy, Client, InThread, Fills

\* What they do to the reads: one thing more is staged, or the read is over.
LEMMA FillSteps ==
  ASSUME JobInv, NEW t \in Threads, Fills(t)
  PROVE  /\ pc[t] = "idle" /\ UNCHANGED <<vars, content>>
         /\ \/ /\ job' = job /\ served' = served /\ job[t] # NoJob
               /\ \E w \in {"entry", "data", "bytes"} :
                    /\ w = "data" => "entry" \in staged[t]
                    /\ staged' = [staged EXCEPT ![t] = staged[t] \union {w}]
            \/ \E kept \in SUBSET {"bytes"} : ReplyError(t, kept) \/ Reply(t, job[t], kept)
  <1>0. staged[t] \subseteq {"entry", "data", "bytes"}
    BY DEF JobInv
  <1>1. CASE ReadDone(t) \/ NewEntry(t) \/ NewData(t)
    BY <1>0, <1>1 DEF ReadDone, NewEntry, NewData, ReadyToRead, EntryWanted, DataWanted,
       Filling, Stage, JobInv
  <1>2. CASE ReadFailed(t)
    <2>1. EntryFree(staged[t]) \subseteq {"bytes"}
      BY <1>0 DEF EntryFree
    <2> QED
      BY <1>2, <2>1 DEF ReadFailed, ReadyToRead, Filling, ReplyError
  <1>3. CASE NoDataMemory(t)
    <2>1. EntryFree(staged[t]) \subseteq {"bytes"}
      BY <1>0 DEF EntryFree
    <2> QED
      BY <1>3, <2>1 DEF NoDataMemory, DataWanted, Filling, GiveUp, ReplyError, Reply
  <1>4. CASE NoEntryMemory(t)
    <2>1. staged[t] \subseteq {"bytes"}
      BY <1>0, <1>4 DEF NoEntryMemory, EntryWanted, JobInv
    <2> QED
      BY <1>4, <2>1 DEF NoEntryMemory, EntryWanted, Filling, GiveUp, ReplyError, Reply
  <1> QED
    BY <1>1, <1>2, <1>3, <1>4 DEF Fills

\* A thread that drops its entry, or goes on to use what it has put, keeps the
\* invariant of the cache.
LEMMA OddStepIInv ==
  ASSUME IInv, NEW t \in Threads, DropsEntry(t) \/ KeepsUsing(t)
  PROVE  IInv'
  <1>0. TypeOK /\ LocalTypes /\ TableTypes /\ LockDiscipline /\ CallsSane
    BY TypeParts DEF IInv
  <1>1. /\ UNCHANGED <<phase, readers, writer, lru, entry, bucket_count, buckets,
                       current_entries, current_memory, hits, misses, lookups, calls, heap>>
        /\ \/ pc[t] = "put_err" /\ pc' = [pc EXCEPT ![t] = "idle"]
           \/ pc[t] = "put_ok" /\ pc' = [pc EXCEPT ![t] = "using"]
        /\ \A u \in Threads : u # t => key'[u] = key[u] /\ ptr'[u] = ptr[u]
        /\ pc[t] = "put_ok" => key'[t] = key[t]
    BY <1>0 DEF DropsEntry, KeepsUsing, Leave, Goto, lockVars, tableVars, statVars, LocalTypes
  <1>2. Listed' = Listed
    BY <1>1 DEF Listed
  <1>3. \A u \in Threads : u # t => pc'[u] = pc[u]
    BY <1>0, <1>1 DEF LocalTypes
  <1>4. pc'[t] = "idle" \/ (pc'[t] = "using" /\ pc[t] = "put_ok")
    BY <1>0, <1>1 DEF LocalTypes
  <1>5. LocalTypes'
    BY <1>0, <1>1 DEF DropsEntry, KeepsUsing, Leave, LocalTypes, Outside
  <1>6. TableTypes'
    BY <1>0, <1>1 DEF TableTypes
  <1>7. LockDiscipline'
    BY <1>0, <1>1, <1>3, <1>4 DEF LockDiscipline, ReadHeld, WriteHeld
  <1>8. StructureOK' /\ EntriesBounded'
    BY <1>1, <1>2 DEF IInv, StructureOK, ListLinksOnce, ChainsMatchList, KeysUnique,
       EntriesBounded
  <1>9. CallsSane'
    <2>1. phase # "ready" => pc[t] = "idle"
      BY <1>0 DEF CallsSane
    <2>2. phase = "ready"
      BY <1>1, <2>1
    <2>3. pc[t] = "put_ok" => key[t] \in Keys
      BY <1>0 DEF CallsSane
    <2> QED
      BY <1>0, <1>1, <1>2, <1>3, <1>4, <2>2, <2>3 DEF CallsSane
  <1>10. BufsOwnedOnce'
    <2>1. CachedOnce' /\ \A u \in Threads : pc'[u] \in PutOwned => OwnedBy(u)'
      BY <1>1, <1>2, <1>3, <1>4, OwnParts DEF IInv, CachedOnce, OwnedBy, PutOwned
    <2> QED
      BY <2>1, OwnParts
  <1> QED
    BY <1>5, <1>6, <1>7, <1>8, <1>9, <1>10, TypeParts DEF IInv

\* Every step of the readers keeps the invariant of the cache.
LEMMA ReadersIInv == ASSUME IInv, JobInv, [BNext]_blockVars PROVE IInv'
  <1>1. CASE UNCHANGED blockVars
    BY <1>1, SameIInv DEF blockVars
  <1>2. CASE (InitGrow \/ InitDone \/ Destroy \/ Unmounted) /\ Working
    BY <1>2, SameIInv, MountStep DEF Unmounted
  <1>3. ASSUME NEW t \in Threads, InThread(t) PROVE IInv'
    BY <1>3, InThreadKind, ThreadIInv
  <1>4. ASSUME NEW t \in Threads, Fills(t) PROVE IInv'
    BY <1>4, SameIInv, FillSteps
  <1>5. ASSUME NEW t \in Threads, DataAfterPutErr(t) \/ FragKeepsUsing(t) PROVE IInv'
    BY <1>5, OddStepIInv DEF DataAfterPutErr, FragKeepsUsing, DropsEntry, KeepsUsing
  <1> QED
    BY <1>1, <1>2, <1>3, <1>4, <1>5, ReaderSteps

-----------------------------------------------------------------------------
(***************************************************************************)
(* What the reads are about, and what the buffers hold.                    *)
(***************************************************************************)
\* Inside sqfs_cache_get and sqfs_cache_put the key stays, a buffer keeps its
\* bytes or is freed, and a put starts owning nothing.
LEMMA InCacheMove ==
  ASSUME IInv, NEW t \in Threads, Get(t) \/ Put(t)
  PROVE  /\ pc[t] # "idle" /\ key' = key
         /\ \A b \in Bufs : heap'[b] = heap[b] \/ heap'[b] = NoKey
         /\ \A u \in Threads : u # t => pc'[u] = pc[u] /\ ptr'[u] = ptr[u]
         /\ pc'[t] \in PutOwned => pc[t] \in PutOwned /\ ptr'[t] = ptr[t]
  <1>0. TypeOK
    BY DEF IInv
  <1>1. CASE GetRdLock(t) \/ GetFindHit(t) \/ GetFindMiss(t) \/ GetHit(t) \/ GetMiss(t)
             \/ GetWrLock(t) \/ GetTouch(t)
    BY <1>0, <1>1 DEF GetRdLock, GetFindHit, GetFindMiss, GetHit, GetMiss, GetWrLock,
       GetTouch, Goto, TypeOK, PutOwned
  <1>2. CASE PutWrLock(t) \/ PutFindNone(t) \/ PutFail(t) \/ PutKeepBuckets(t) \/ PutResize(t)
             \/ (\E e \in Entries : PutInsert(t, e))
    BY <1>0, <1>2 DEF PutWrLock, PutFindNone, PutFail, PutKeepBuckets, PutResize, PutInsert,
       Goto, TypeOK, PutOwned
  <1>3. CASE PutReplace(t)
    BY <1>0, <1>3 DEF PutReplace, FreeBuf, Goto, TypeOK, PutOwned
  <1>4. CASE PutEvict(t)
    BY <1>0, <1>4 DEF PutEvict, DropEntry, FreeBuf, TypeOK, PutOwned, locals
  <1> QED
    BY <1>1, <1>2, <1>3, <1>4 DEF Get, Put

\* A thread goes back to its own code.
LEMMA LeaveMove ==
  ASSUME IInv, NEW t \in Threads, NEW from, Leave(t, from)
  PROVE  /\ pc'[t] = "idle" /\ pc[t] = from
         /\ Listed' = Listed /\ entry' = entry
         /\ \A u \in Threads : u # t =>
              pc'[u] = pc[u] /\ ptr'[u] = ptr[u] /\ key'[u] = key[u]
  BY DEF IInv, TypeOK, Leave, Goto, Listed, tableVars

\* A read ends, and the thread is idle: nothing else changes but that buffers
\* may be freed.
LEMMA EndJob ==
  ASSUME IInv, JobInv, NEW t \in Threads, NEW from, Leave(t, from),
         \A b \in Bufs : heap'[b] = heap[b] \/ heap'[b] = NoKey,
         job' = [job EXCEPT ![t] = NoJob] \/ job' = job,
         staged' = [staged EXCEPT ![t] = {}], from # "idle", content' = content
  PROVE  JobInv'
  <1>1. /\ pc'[t] = "idle"
        /\ \A u \in Threads : u # t =>
              pc'[u] = pc[u] /\ ptr'[u] = ptr[u] /\ key'[u] = key[u] /\ job'[u] = job[u]
    BY LeaveMove DEF JobInv
  <1>2. /\ job' \in [Threads -> Jobs \union {NoJob}]
        /\ staged' \in [Threads -> SUBSET {"entry", "data", "bytes"}]
        /\ staged'[t] = {} /\ \A u \in Threads : u # t => staged'[u] = staged[u]
    BY DEF JobInv
  <1> QED
    BY <1>1, <1>2 DEF JobInv, PutOwned

LEMMA JobNext == ASSUME IInv, JobInv, [BNext]_blockVars PROVE JobInv'
  <1>1. CASE UNCHANGED blockVars
    BY <1>1 DEF JobInv, blockVars, vars, locals
  <1>2. CASE (InitGrow \/ InitDone \/ Destroy \/ Unmounted) /\ Working
    <2>1. UNCHANGED <<pc, key, ptr, job, staged, content>>
      BY <1>2 DEF InitGrow, InitDone, Destroy, Unmounted, Working, vars, locals
    <2>2. \A b \in Bufs : heap'[b] = heap[b] \/ heap'[b] = NoKey
      BY <1>2 DEF InitGrow, InitDone, Destroy, FreeAll, Unmounted, vars
    <2> QED
      BY <2>1, <2>2 DEF JobInv
  <1>3. ASSUME NEW t \in Threads, InCache(t) PROVE JobInv'
    <2>1. Working /\ (Get(t) \/ Put(t))
      BY <1>3 DEF InCache
    <2>2. job' = job /\ staged' = staged /\ content' = content
      BY <2>1 DEF Working
    <2> QED
      BY <2>1, <2>2, InCacheMove DEF JobInv
  <1>4. ASSUME NEW t \in Threads, NEW j \in Jobs, StartRead(t, j) PROVE JobInv'
    <2>1. /\ pc' = [pc EXCEPT ![t] = "get_rdlock"]
          /\ key' = [key EXCEPT ![t] = CacheKey[j]]
          /\ job[t] = NoJob /\ job' = [job EXCEPT ![t] = j]
          /\ staged' = staged /\ content' = content /\ heap' = heap
          /\ \A u \in Threads : u # t => ptr'[u] = ptr[u]
      BY <1>4 DEF StartRead, CallGet, Call, Goto, IInv, TypeOK
    <2> QED
      BY <2>1 DEF JobInv, IInv, TypeOK, PutOwned
  <1>5. ASSUME NEW t \in Threads,
               CopyCached(t) \/ Missed(t) \/ DataAfterPut(t)
               \/ DataAfterPutErr(t) \/ FragAfterPutErr(t)
        PROVE  JobInv'
    <2>1. /\ \E from \in {"using", "missed", "put_ok", "put_err"} : Leave(t, from)
          /\ heap' = heap \/ heap' = [heap EXCEPT ![ptr[t]] = NoKey]
          /\ job' = [job EXCEPT ![t] = NoJob] \/ job' = job
          /\ staged' = [staged EXCEPT ![t] = staged[t] \ {"bytes"}] \/ staged' = staged
          /\ content' = content
      BY <1>5 DEF CopyCached, Missed, DataAfterPut, DataAfterPutErr, FragAfterPutErr,
         EndUse, AfterMiss, AfterPut, AfterPutErr, FreeBuf, Reply, Working
    <2>2. \A b \in Bufs : heap'[b] = heap[b] \/ heap'[b] = NoKey
      BY <2>1 DEF IInv, TypeOK
    <2>3. PICK from \in {"using", "missed", "put_ok", "put_err"} : Leave(t, from)
      BY <2>1
    <2>4. pc[t] = from /\ from # "idle"
      BY <2>3, LeaveMove
    <2>5. staged[t] = {} /\ staged \in [Threads -> SUBSET {"entry", "data", "bytes"}]
      BY <2>4 DEF JobInv
    <2>6. staged' = [staged EXCEPT ![t] = {}]
      BY <2>1, <2>5
    <2> QED
      BY <2>1, <2>2, <2>3, <2>4, <2>6, EndJob
  <1>6. ASSUME NEW t \in Threads, Fills(t) PROVE JobInv'
    <2>1. pc[t] = "idle" /\ UNCHANGED <<pc, key, ptr, heap, content>>
      BY <1>6, FillSteps DEF vars, locals
    <2>2. ASSUME job' = [job EXCEPT ![t] = NoJob], staged' = [staged EXCEPT ![t] = {}]
          PROVE  JobInv'
      BY <2>1, <2>2 DEF JobInv, PutOwned
    <2>3. ASSUME NEW kept \in SUBSET {"bytes"}, ReplyError(t, kept) \/ Reply(t, job[t], kept)
          PROVE  JobInv'
      <3>1. kept \ {"bytes"} = {}
        OBVIOUS
      <3> QED
        BY <2>2, <2>3, <3>1 DEF ReplyError, Reply
    <2>4. ASSUME job' = job, job[t] # NoJob, NEW w \in {"entry", "data", "bytes"},
                 staged' = [staged EXCEPT ![t] = staged[t] \union {w}],
                 w = "data" => "entry" \in staged[t]
          PROVE  JobInv'
      BY <2>1, <2>4 DEF JobInv, PutOwned
    <2> QED
      BY <1>6, <2>3, <2>4, FillSteps
  <1>7. ASSUME NEW t \in Threads, NEW b \in Bufs, PutBlock(t, b) PROVE JobInv'
    <2>1. /\ job[t] \in Jobs /\ job' = job /\ staged' = [staged EXCEPT ![t] = {}]
          /\ content' = [content EXCEPT ![b] = job[t]]
          /\ heap[b] = NoKey /\ heap' = [heap EXCEPT ![b] = CacheKey[job[t]]]
          /\ key' = [key EXCEPT ![t] = CacheKey[job[t]]]
          /\ ptr' = [ptr EXCEPT ![t] = b]
          /\ \A u \in Threads : u # t => pc'[u] = pc[u]
      BY <1>7 DEF PutBlock, Filling, CallPut, Call, Goto, JobInv, IInv, TypeOK
    <2>2. \A u \in Threads : pc[u] \in PutOwned => ptr[u] # b /\ ptr[u] \in Bufs
      BY <2>1, Sentinels DEF IInv, BufsOwnedOnce
    <2>3. \A u \in Threads : pc'[u] \in PutOwned => content'[ptr'[u]] = job'[u]
      BY <2>1, <2>2 DEF JobInv, IInv, TypeOK
    <2>4. /\ job' \in [Threads -> Jobs \union {NoJob}]
          /\ content' \in [Bufs -> Jobs \union {NoJob}]
          /\ staged' \in [Threads -> SUBSET {"entry", "data", "bytes"}]
          /\ \A u \in Threads : "data" \in staged'[u] => "entry" \in staged'[u]
          /\ \A u \in Threads : pc'[u] # "idle" \/ job'[u] = NoJob => staged'[u] = {}
      BY <2>1 DEF JobInv
    <2>5. \A u \in Threads : pc'[u] # "idle" => job'[u] \in Jobs /\ key'[u] = CacheKey[job'[u]]
      BY <2>1 DEF JobInv, IInv, TypeOK
    <2>6. \A c \in Bufs : heap'[c] # NoKey =>
            content'[c] \in Jobs /\ CacheKey[content'[c]] = heap'[c]
      BY <2>1 DEF JobInv, IInv, TypeOK
    <2> QED
      BY <2>3, <2>4, <2>5, <2>6 DEF JobInv
  <1>8. ASSUME NEW t \in Threads, FragKeepsUsing(t) PROVE JobInv'
    <2>1. /\ UNCHANGED <<key, ptr, heap, job, staged, content>>
          /\ pc[t] = "put_ok" /\ pc' = [pc EXCEPT ![t] = "using"]
      BY <1>8 DEF FragKeepsUsing, Goto, Working
    <2> QED
      BY <2>1 DEF JobInv, IInv, TypeOK, PutOwned
  <1> QED
    BY <1>1, <1>2, <1>3, <1>4, <1>5, <1>6, <1>7, <1>8, ReaderSteps DEF InThread

\* The invariant of the cache and of the reads, for all readers.
LEMMA ReadersInvariant == BSpec => [](IInv /\ JobInv)
  <1>1. BInit => IInv /\ JobInv
    BY InitIInv DEF BInit, Init, JobInv, PutOwned
  <1> QED
    BY <1>1, ReadersIInv, JobNext, PTL DEF BSpec

\* Data reads and fragment reads, any number of them at once, keep the ownership
\* of buffers: no buffer is freed twice, freed while cached or cached under a
\* foreign key.
THEOREM ReadersOwnOnce == BSpec => []BufsOwnedOnce
  BY ReadersInvariant, PTL DEF IInv

-----------------------------------------------------------------------------
(***************************************************************************)
(* Fragment buffers.                                                       *)
(***************************************************************************)
\* A fragment that is allocated has an owner.
FragBuffersOwned ==
  \A b \in Bufs : heap[b] # NoKey /\ content[b] \in Frags => Owned(b)

\* A step that loses nothing and keeps the bytes loses no fragment.
LEMMA FragsKept ==
  ASSUME FragBuffersOwned, NothingLost, content' = content
  PROVE  FragBuffersOwned'
  <1> SUFFICES ASSUME NEW b \in Bufs, heap'[b] # NoKey, content[b] \in Frags
               PROVE  Owned(b)'
    BY DEF FragBuffersOwned
  <1> QED
    BY DEF FragBuffersOwned, NothingLost

\* What is lost when a data read drops its entry is a data block.
LEMMA FragsNext ==
  ASSUME IInv, JobInv, FragBuffersOwned, [BNext]_blockVars
  PROVE  FragBuffersOwned'
  <1>1. ASSUME UNCHANGED vars, content' = content PROVE FragBuffersOwned'
    BY <1>1 DEF vars, tableVars, locals, FragBuffersOwned, Owned, Listed
  <1>2. CASE UNCHANGED blockVars
    BY <1>1, <1>2 DEF blockVars
  <1>3. CASE (InitGrow \/ InitDone \/ Destroy \/ Unmounted) /\ Working
    BY <1>1, <1>3, MountLosesNothing, FragsKept DEF Working, Unmounted
  <1>4. ASSUME NEW t \in Threads, InThread(t), content' = content PROVE FragBuffersOwned'
    <2>1. NothingLost
      BY <1>4, InThreadKind, OwnStep
    <2> QED
      BY <1>4, <2>1, FragsKept
  <1>5. ASSUME NEW t \in Threads, NEW b \in Bufs, PutBlock(t, b) PROVE FragBuffersOwned'
    <2>1. NothingLost
      BY <1>5, InThreadKind, OwnStep DEF InThread
    <2>2. content' = [content EXCEPT ![b] = job[t]]
      BY <1>5 DEF PutBlock
    <2>3. pc'[t] \in PutOwned /\ ptr'[t] = b
      BY <1>5 DEF PutBlock, CallPut, Call, Goto, PutOwned, IInv, TypeOK
    <2>4. Owned(b)'
      BY <2>3 DEF Owned
    <2>5. \A c \in Bufs : c # b => content'[c] = content[c]
      BY <2>2 DEF JobInv
    <2> SUFFICES ASSUME NEW c \in Bufs, heap'[c] # NoKey, content'[c] \in Frags, c # b
                 PROVE  Owned(c)'
      BY <2>4 DEF FragBuffersOwned
    <2> QED
      BY <2>1, <2>5 DEF FragBuffersOwned, NothingLost
  <1>6. ASSUME NEW t \in Threads, Fills(t) PROVE FragBuffersOwned'
    BY <1>1, <1>6, FillSteps
  <1>7. ASSUME NEW t \in Threads, DataAfterPutErr(t) PROVE FragBuffersOwned'
    <2>1. /\ Leave(t, "put_err") /\ heap' = heap /\ content' = content
          /\ job[t] \in Blocks
      BY <1>7 DEF DataAfterPutErr, Reply
    <2>2. /\ pc[t] = "put_err" /\ Listed' = Listed /\ entry' = entry
          /\ \A u \in Threads : u # t => pc'[u] = pc[u] /\ ptr'[u] = ptr[u]
      BY <2>1, LeaveMove
    <2>3. content[ptr[t]] \notin Frags
      BY <2>1, <2>2, JobTypes DEF JobInv, PutOwned
    <2> SUFFICES ASSUME NEW b \in Bufs, heap'[b] # NoKey, content'[b] \in Frags
                 PROVE  Owned(b)'
      BY DEF FragBuffersOwned
    <2>4. Owned(b) /\ b # ptr[t]
      BY <2>1, <2>3 DEF FragBuffersOwned
    <2> QED
      BY <2>2, <2>4 DEF Owned
  <1>8. ASSUME NEW t \in Threads, FragKeepsUsing(t) PROVE FragBuffersOwned'
    <2>1. /\ pc[t] = "put_ok" /\ pc' = [pc EXCEPT ![t] = "using"]
          /\ UNCHANGED <<lru, entry, ptr, heap, content>>
      BY <1>8 DEF FragKeepsUsing, Goto, Working, tableVars
    <2>2. \A u \in Threads : pc[u] \in PutOwned => pc'[u] \in PutOwned
      BY <2>1 DEF IInv, TypeOK, PutOwned
    <2> QED
      BY <2>1, <2>2 DEF FragBuffersOwned, Owned, Listed
  <1>9. ASSUME NEW t \in Threads, InThread(t) PROVE FragBuffersOwned'
    <2>1. (\E b \in Bufs : PutBlock(t, b)) \/ content' = content
      BY <1>9 DEF InThread, InCache, StartRead, CopyCached, Missed, DataAfterPut,
         FragAfterPutErr, Working, Reply
    <2> QED
      BY <1>4, <1>5, <1>9, <2>1
  <1> QED
    BY <1>2, <1>3, <1>6, <1>7, <1>8, <1>9, ReaderSteps

\* No path of sqfs_fragment_read loses its buffer, whatever else runs: what a
\* failed put leaves behind in this cache is always a data block's.  And what a
\* read allocates before its put is freed on every exit that does not get there.
THEOREM FragmentsKept == BSpec => []FragmentsNotLeaked
  <1>1. BInit => FragBuffersOwned
    BY DEF BInit, Init, FragBuffersOwned
  <1>2. FragBuffersOwned /\ JobInv => FragmentsNotLeaked
    BY DEF FragBuffersOwned, JobInv, FragmentsNotLeaked
  <1> QED
    BY <1>1, <1>2, ReadersInvariant, FragsNext, PTL DEF BSpec

-----------------------------------------------------------------------------
(***************************************************************************)
(* One thread.                                                             *)
(***************************************************************************)
\* The FUSE session runs single-threaded (mounted with -s).
Alone == \A t, u \in Threads : t = u

\* Where a thread holds a pointer into the cache.
Pointing == {"get_hit", "get_wrlock", "get_touch", "using", "put_resize", "put_ok"}

\* The pointer is the live buffer of the key.
PointersLive ==
  \A t \in Threads : pc[t] \in Pointing => ptr[t] \in Bufs /\ heap[ptr[t]] = key[t]

LEMMA PointersNext ==
  ASSUME Alone, IInv, PointersLive, [BNext]_blockVars, JobInv
  PROVE  PointersLive'
  <1>0. TypeOK /\ CallsSane /\ StructureOK /\ BufsOwnedOnce
    BY DEF IInv
  <1> USE DEF Pointing
  <1>1. CASE UNCHANGED vars
    BY <1>1 DEF PointersLive, vars, locals
  <1>2. CASE InitGrow \/ InitDone \/ Destroy
    <2>1. \A t \in Threads : pc'[t] = "idle"
      BY <1>0, <1>2 DEF InitGrow, InitDone, Destroy, CallsSane, locals
    <2> QED
      BY <2>1 DEF PointersLive
  <1>3. ASSUME NEW t \in Threads, GetFindHit(t) PROVE PointersLive'
    <2>1. /\ key[t] \in Keys /\ Found(key[t]) # {} /\ heap' = heap /\ key' = key
          /\ ptr' = [ptr EXCEPT ![t] = entry[Find(key[t])].value]
          /\ bucket_count > 0
      BY <1>0, <1>3 DEF GetFindHit, Goto, CallsSane
    <2>2. Find(key[t]) \in Listed /\ entry[Find(key[t])].key = key[t]
      BY <1>0, <2>1, FindFacts
    <2> QED
      BY <1>0, <2>1, <2>2 DEF Alone, PointersLive, BufsOwnedOnce, TypeOK
  <1>4. ASSUME NEW t \in Threads, PutReplace(t) PROVE PointersLive'
    <2>1. /\ Find(key[t]) \in Listed
          /\ heap' = [heap EXCEPT ![entry[Find(key[t])].value] = NoKey]
      BY <1>4, ReplaceFacts
    <2>2. pc[t] \in PutOwned /\ ptr' = ptr /\ key' = key
      BY <1>4 DEF PutReplace, Goto, PutOwned
    <2> QED
      BY <1>0, <2>1, <2>2 DEF Alone, PointersLive, BufsOwnedOnce, TypeOK
  <1>5. ASSUME NEW t \in Threads, \E e \in Entries : PutInsert(t, e) PROVE PointersLive'
    <2>1. pc[t] \in PutOwned /\ UNCHANGED <<ptr, key, heap>>
      BY <1>5 DEF PutInsert, Goto, PutOwned
    <2> QED
      BY <1>0, <2>1 DEF Alone, PointersLive, BufsOwnedOnce
  <1>6. ASSUME NEW t \in Threads, PutEvict(t) PROVE PointersLive'
    BY <1>0, <1>6 DEF PutEvict, locals, Alone, PointersLive
  <1>7. ASSUME NEW t \in Threads,
               GetHit(t) \/ GetWrLock(t) \/ GetTouch(t) \/ PutKeepBuckets(t) \/ PutResize(t)
               \/ KeepsUsing(t)
        PROVE  PointersLive'
    <2>1. pc[t] \in Pointing /\ UNCHANGED <<ptr, key, heap>>
      BY <1>7 DEF GetHit, GetWrLock, GetTouch, PutKeepBuckets, PutResize, KeepsUsing, Goto
    <2> QED
      BY <2>1 DEF Alone, PointersLive
  <1>8. ASSUME NEW t \in Threads,
               \/ GetRdLock(t) \/ GetFindMiss(t) \/ GetMiss(t) \/ PutWrLock(t)
               \/ PutFindNone(t) \/ PutFail(t)
               \/ (\E from \in {"using", "missed", "put_ok", "put_err"} : Leave(t, from))
               \/ (\E k, b, m : \E to \in {"get_rdlock", "put_err", "put_wrlock"} :
                     Call(t, to, k, b, m))
        PROVE  PointersLive'
    <2>1. pc'[t] \notin Pointing
      BY <1>0, <1>8 DEF GetRdLock, GetFindMiss, GetMiss, PutWrLock, PutFindNone, PutFail,
         Leave, Call, Goto, TypeOK
    <2> QED
      BY <2>1 DEF Alone, PointersLive
  <1>9. ASSUME NEW t \in Threads, InThread(t) PROVE PointersLive'
    <2>1. CASE InCache(t)
      BY <1>3, <1>4, <1>5, <1>6, <1>7, <1>8, <2>1, Zenon DEF InCache, Get, Put
    <2>2. CASE \E j \in Jobs : StartRead(t, j)
      BY <1>8, <2>2 DEF StartRead, CallGet
    <2>3. CASE \E b \in Bufs : PutBlock(t, b)
      BY <1>8, <2>3 DEF PutBlock, CallPut
    <2>4. CASE CopyCached(t) \/ Missed(t) \/ DataAfterPut(t) \/ FragAfterPutErr(t)
      BY <1>8, <2>4 DEF CopyCached, Missed, DataAfterPut, FragAfterPutErr,
         EndUse, AfterMiss, AfterPut, AfterPutErr
    <2> QED
      BY <1>9, <2>1, <2>2, <2>3, <2>4 DEF InThread
  <1>10. ASSUME NEW t \in Threads, Fills(t) PROVE PointersLive'
    BY <1>1, <1>10, FillSteps
  <1>11. ASSUME NEW t \in Threads, DataAfterPutErr(t) \/ FragKeepsUsing(t)
         PROVE  PointersLive'
    BY <1>7, <1>8, <1>11 DEF DataAfterPutErr, FragKeepsUsing, KeepsUsing
  <1> QED
    BY <1>1, <1>2, <1>9, <1>10, <1>11, ReaderSteps DEF blockVars, Unmounted

\* With one thread, what sqfs_cache_get returned stays allocated while the
\* caller reads through it, and so does the fragment that was just put.
THEOREM NoUseAfterFreeAlone == ASSUME Alone PROVE BSpec => []NoUseAfterFree
  <1>1. BInit => PointersLive
    BY DEF BInit, Init, PointersLive, Pointing
  <1>2. PointersLive => NoUseAfterFree
    BY DEF PointersLive, NoUseAfterFree, Pointing
  <1> QED
    BY <1>1, <1>2, ReadersInvariant, PointersNext, PTL DEF BSpec

\* What the replies are made of.
ServedTypes ==
  served \in [Threads -> {<<>>} \union (Jobs \X (Jobs \union {Zeros}))]

LEMMA ServedNext ==
  ASSUME Alone, IInv, JobInv, PointersLive, ServedTypes, BytesOfTheKey, [BNext]_blockVars
  PROVE  ServedTypes' /\ BytesOfTheKey'
  <1>1. ASSUME served' = served PROVE ServedTypes' /\ BytesOfTheKey'
    BY <1>1 DEF ServedTypes, BytesOfTheKey
  <1>2. ASSUME NEW t \in Threads, NEW a \in Jobs, NEW b \in Jobs \union {Zeros},
               b = Zeros \/ CacheKey[b] = CacheKey[a],
               served' = [served EXCEPT ![t] = <<a, b>>]
        PROVE  ServedTypes' /\ BytesOfTheKey'
    BY <1>2 DEF ServedTypes, BytesOfTheKey
  <1>3. ASSUME NEW t \in Threads, served' = [served EXCEPT ![t] = <<>>]
        PROVE  ServedTypes' /\ BytesOfTheKey'
    BY <1>3 DEF ServedTypes, BytesOfTheKey
  <1>4. ASSUME NEW t \in Threads, job[t] \in Jobs, NEW kept,
               ReplyError(t, kept) \/ Reply(t, job[t], kept)
        PROVE  ServedTypes' /\ BytesOfTheKey'
    <2>1. \/ served' = [served EXCEPT ![t] = <<>>]
          \/ served' = [served EXCEPT ![t] = <<job[t], Zeros>>]
          \/ served' = [served EXCEPT ![t] = <<job[t], job[t]>>]
      BY <1>4 DEF ReplyError, Reply
    <2> QED
      BY <1>2, <1>3, <1>4, <2>1
  <1>5. ASSUME NEW t \in Threads, CopyCached(t) PROVE ServedTypes' /\ BytesOfTheKey'
    <2>1. /\ pc[t] = "using"
          /\ served' = [served EXCEPT ![t] = <<job[t], content[ptr[t]]>>]
      BY <1>5 DEF CopyCached, EndUse, Leave, Goto, Reply
    <2>2. /\ ptr[t] \in Bufs /\ heap[ptr[t]] = key[t]
          /\ job[t] \in Jobs /\ key[t] = CacheKey[job[t]]
      BY <2>1 DEF PointersLive, Pointing, JobInv
    <2>3. key[t] # NoKey
      BY <2>2, JobTypes, Sentinels DEF Jobs
    <2>4. content[ptr[t]] \in Jobs /\ CacheKey[content[ptr[t]]] = CacheKey[job[t]]
      BY <2>2, <2>3 DEF JobInv
    <2> QED
      BY <1>2, <2>1, <2>2, <2>4
  <1>6. ASSUME NEW t \in Threads, DataAfterPut(t) \/ FragAfterPutErr(t) \/ DataAfterPutErr(t)
        PROVE  ServedTypes' /\ BytesOfTheKey'
    BY <1>4, <1>6 DEF DataAfterPut, FragAfterPutErr, DataAfterPutErr, Jobs
  <1>7. ASSUME NEW t \in Threads, Fills(t) PROVE ServedTypes' /\ BytesOfTheKey'
    <2>1. job[t] \in Jobs
      BY <1>7 DEF Fills, ReadDone, ReadFailed, NewEntry, NewData, NoEntryMemory, NoDataMemory,
         ReadyToRead, EntryWanted, DataWanted, Filling, JobInv
    <2> QED
      BY <1>1, <1>4, <1>7, <2>1, FillSteps
  <1>8. ASSUME NEW t \in Threads, InThread(t) PROVE ServedTypes' /\ BytesOfTheKey'
    <2>1. CASE InCache(t) \/ Missed(t) \/ \E b \in Bufs : PutBlock(t, b)
      BY <1>1, <2>1 DEF InCache, Missed, PutBlock, Working
    <2>2. CASE \E j \in Jobs : StartRead(t, j)
      BY <1>3, <2>2 DEF StartRead
    <2> QED
      BY <1>5, <1>6, <1>8, <2>1, <2>2 DEF InThread
  <1>9. CASE UNCHANGED blockVars
    BY <1>1, <1>9 DEF blockVars
  <1>10. CASE (InitGrow \/ InitDone \/ Destroy \/ Unmounted) /\ Working
    BY <1>1, <1>10 DEF Working
  <1>11. ASSUME NEW t \in Threads, FragKeepsUsing(t) PROVE ServedTypes' /\ BytesOfTheKey'
    BY <1>1, <1>11 DEF FragKeepsUsing, Working
  <1> QED
    BY <1>6, <1>7, <1>8, <1>9, <1>10, <1>11, ReaderSteps

\* With one thread, what a read returns has the key it asked for, whatever the
\* keys are: the cache hands out nothing else's bytes, however entries are
\* evicted, replaced and reused.
THEOREM BytesOfTheKeyAlone == ASSUME Alone PROVE BSpec => []BytesOfTheKey
  <1>1. BInit => PointersLive /\ ServedTypes /\ BytesOfTheKey
    BY DEF BInit, Init, PointersLive, Pointing, ServedTypes, BytesOfTheKey
  <1> QED
    BY <1>1, ReadersInvariant, PointersNext, ServedNext, PTL DEF BSpec

=============================================================================
