------------------------------ MODULE MCCache ------------------------------
(* Instances of Cache for TLC. *)
EXTENDS CacheRefinement, TLC

CONSTANTS k1, k2, k3

\* k1 and k2 share a bucket until there are eight; k3 joins them only when
\* there is one, and changes its place when two become four.
MCHash == [k \in Keys |-> CASE k = k1 -> 0 [] k = k2 -> 4 [] OTHER -> 3]

\* A key's value always has the same size, as a block of an image does; k3 may
\* also come with a value larger than the whole cache (E2BIG).
MCSizes == [k \in Keys |-> CASE k = k1 -> {1} [] k = k2 -> {2} [] OTHER -> {3, 9}]

\* Values of one key may differ in size.
MCAnySizes == [k \in Keys |-> {1, 2}]

Symmetry == Permutations(Threads) \union Permutations(Entries) \union Permutations(Bufs)

=============================================================================
