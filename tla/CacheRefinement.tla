-------------------------- MODULE CacheRefinement --------------------------
(***************************************************************************)
(* src/core/cache.c implements the map that cache.h promises: the lookup   *)
(* happens when the chain is searched under the read lock, the store when  *)
(* the value is linked in or replaced under the write lock, and every      *)
(* eviction, removal, clear and the destruction is a drop.                 *)
(***************************************************************************)
EXTENDS Cache

\* The binding of a key is read off the LRU list, not off the chains: a lookup
\* that fails to find a listed entry is not an answer of LossyMap.
Binding(k) ==
  IF \E e \in Listed : entry[e].key = k
    THEN entry[CHOOSE e \in Listed : entry[e].key = k].value
    ELSE NoBuf

Unanswered == {"get_rdlock", "get_find"}
AnsweredHit == {"get_hit", "get_wrlock", "get_touch", "using"}
AnsweredMiss == {"get_miss", "missed"}

Want(t) == IF pc[t] \in Unanswered \union AnsweredHit \union AnsweredMiss
             THEN <<key[t]>> ELSE <<>>

Answer(t) ==
  CASE pc[t] \in AnsweredHit  -> <<ptr[t]>>
    [] pc[t] \in AnsweredMiss -> <<NoBuf>>
    [] OTHER                  -> <<>>

\* A put that is under way and has neither linked its value in nor failed.
Offered(t) == IF pc[t] \in {"put_wrlock", "put_find", "put_evict"}
                THEN <<key[t], ptr[t]>> ELSE <<>>

Bindings == [k \in Keys |-> Binding(k)]
Wants    == [t \in Threads |-> Want(t)]
Answers  == [t \in Threads |-> Answer(t)]
Offers   == [t \in Threads |-> Offered(t)]

Map == INSTANCE LossyMap WITH map <- Bindings, want <- Wants, res <- Answers, offer <- Offers

\* Every behaviour of cache.c is one of the map: sqfs_cache_get answers for the
\* key it was given, from the mapping at one instant of its own execution and
\* never from a half-made one; sqfs_cache_put binds the key it was given, once.
ImplementsMap == Map!Spec

=============================================================================
