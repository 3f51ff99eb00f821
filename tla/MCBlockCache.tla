---------------------------- MODULE MCBlockCache ----------------------------
(* Instances of BlockCache for TLC. *)
EXTENDS BlockCache, TLC

CONSTANTS k1, k2, k3, blk1, blk2, frg1

MCHash == [k \in Keys |-> CASE k = k1 -> 0 [] k = k2 -> 4 [] OTHER -> 1]

\* A block has one size.
MCSizes == [k \in Keys |-> {1}]

\* Positions and indexes that happen to be different numbers.
MCApart == [j \in Jobs |-> CASE j = blk1 -> k1 [] j = blk2 -> k2 [] OTHER -> k3]

\* Fragment number n and the data block at position n.
MCSame == [j \in Jobs |-> CASE j = blk2 -> k2 [] OTHER -> k1]

Symmetry == Permutations(Threads) \union Permutations(Entries) \union Permutations(Bufs)

=============================================================================
