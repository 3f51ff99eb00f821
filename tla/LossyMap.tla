------------------------------ MODULE LossyMap ------------------------------
(***************************************************************************)
(* What src/core/cache.h promises its callers, without a lock, a list or a *)
(* hash table: a map from keys to buffers in which a lookup is answered at *)
(* one instant, from what its key is bound to at that instant, a store     *)
(* binds its key to its buffer or is refused, and any binding may be       *)
(* dropped at any time.                                                    *)
(***************************************************************************)
EXTENDS Sequences

CONSTANTS Threads, Keys, Bufs, NoBuf

VARIABLES
  map,    \* key -> buffer, NoBuf when not cached
  want,   \* thread -> <<key>> of its lookup, <<>> when it makes none
  res,    \* thread -> <<answer>> of its lookup, <<>> before it has one
  offer   \* thread -> <<key, buffer>> of its store, <<>> when it makes none

vars == <<map, want, res, offer>>

Init ==
  /\ map = [k \in Keys |-> NoBuf]
  /\ want = [t \in Threads |-> <<>>]
  /\ res = [t \in Threads |-> <<>>]
  /\ offer = [t \in Threads |-> <<>>]

Ask(t, k) ==
  /\ want[t] = <<>>
  /\ want' = [want EXCEPT ![t] = <<k>>]
  /\ UNCHANGED <<map, res, offer>>

\* The thread is told what its key is bound to right now.
Lookup(t) ==
  /\ want[t] # <<>> /\ res[t] = <<>>
  /\ res' = [res EXCEPT ![t] = <<map[want[t][1]]>>]
  /\ UNCHANGED <<map, want, offer>>

Finish(t) ==
  /\ res[t] # <<>>
  /\ want' = [want EXCEPT ![t] = <<>>]
  /\ res' = [res EXCEPT ![t] = <<>>]
  /\ UNCHANGED <<map, offer>>

Offer(t, k, b) ==
  /\ offer[t] = <<>>
  /\ offer' = [offer EXCEPT ![t] = <<k, b>>]
  /\ UNCHANGED <<map, want, res>>

\* The key is bound to the buffer, which no key was bound to.
Store(t) ==
  /\ offer[t] # <<>>
  /\ \A j \in Keys : map[j] # offer[t][2]
  /\ map' = [map EXCEPT ![offer[t][1]] = offer[t][2]]
  /\ offer' = [offer EXCEPT ![t] = <<>>]
  /\ UNCHANGED <<want, res>>

Refuse(t) ==
  /\ offer[t] # <<>>
  /\ offer' = [offer EXCEPT ![t] = <<>>]
  /\ UNCHANGED <<map, want, res>>

Drop(K) ==
  /\ map' = [k \in Keys |-> IF k \in K THEN NoBuf ELSE map[k]]
  /\ UNCHANGED <<want, res, offer>>

Next ==
  \/ \E t \in Threads :
       \/ \E k \in Keys : Ask(t, k)
       \/ Lookup(t) \/ Finish(t)
       \/ \E k \in Keys, b \in Bufs : Offer(t, k, b)
       \/ Store(t) \/ Refuse(t)
  \/ \E K \in SUBSET Keys : Drop(K)

Spec == Init /\ [][Next]_vars

=============================================================================
