------------------------------ MODULE MCMount ------------------------------
(* Instances of Mount for TLC. *)
EXTENDS Mount

CONSTANTS MaxIds, MaxFrags, Tails

\* A superblock that is accepted.
Good ==
  [magic |-> TRUE, version |-> TRUE, comp |-> "gzip", block_size |-> 4, block_log |-> 2,
   bytes_used |-> 1, file_size |-> 1, no_frags |-> FALSE, frag_table |-> TRUE,
   ids |-> 1, frags |-> 1, tail |-> 1, id_room |-> 0, frag_room |-> 0]

\* Every small pair of tables, raw or compressed, and every way to have none.
MCTables ==
  {[Good EXCEPT !.ids = n, !.tail = t, !.id_room = r, !.no_frags = no, !.frag_table = valid,
                !.frags = IF no \/ ~valid THEN 0 ELSE k, !.frag_room = q] :
     n \in 0 .. MaxIds, t \in Tails, r \in {0, 1}, no \in BOOLEAN, valid \in BOOLEAN,
     k \in 0 .. MaxFrags, q \in {0, 1}}

\* Every superblock with small numbers in it.
MCSuperblocks ==
  {[Good EXCEPT !.magic = m, !.version = v, !.comp = c, !.block_size = s, !.block_log = l,
                !.bytes_used = used] :
     m \in BOOLEAN, v \in BOOLEAN, c \in {"gzip", "zstd", "xz"}, s \in 0 .. 2 * MAX_BLOCK,
     l \in 0 .. 4, used \in 0 .. 2}

MCImages == MCTables \union MCSuperblocks

=============================================================================
