---------------------------- MODULE MCDataRead ----------------------------
(* Instances of DataRead for TLC. *)
EXTENDS DataRead

CONSTANTS MaxSize, Offset

\* Lengths a stored block of n bytes can have: raw, or compressed to one byte.
Stores(n) == {[len |-> n, raw |-> TRUE, room |-> 0], [len |-> 1, raw |-> FALSE, room |-> 1]}
Hole == [len |-> 0, raw |-> FALSE, room |-> 0]

\* Block b (from 1) of a file of n bytes.
Chunk(n, b) == [j \in 1 .. Minimum(block_size, n - (b - 1) * block_size) |->
                  (b - 1) * block_size + j]

Blocks(n, frag) == (n \div block_size) + (IF n % block_size > 0 /\ ~frag THEN 1 ELSE 0)

\* The fragment block: another file's tail (Offset bytes), then this file's.
Fragment(n) == [j \in 1 .. Offset + (n % block_size) |->
                  IF j <= Offset THEN 100 + j ELSE n - (n % block_size) + j - Offset]

Packed(n, frag, room, words) ==
  [file_size |-> n, frag |-> frag, frag_offset |-> Offset, block_sizes |-> words,
   stored |-> [b \in DOMAIN words |-> Chunk(n, b)], fragment |-> Fragment(n),
   frag_room |-> room]

\* Every file of up to MaxSize bytes, with every choice of holes, of raw and of
\* compressed blocks, with its tail in a fragment or in a block of its own.
\* mksquashfs makes no fragment for a file without a tail; a full
\* fragment block is raw or compressed.
IntactFiles ==
  LET Rooms(n) == IF Len(Fragment(n)) = block_size THEN {0, 1} ELSE {1}
      Words == [len : 0 .. block_size, raw : BOOLEAN, room : {0, 1}]
      Files1(n, frag, rooms) ==
        {Packed(n, frag, room, w) :
           room \in rooms,
           w \in {v \in [1 .. Blocks(n, frag) -> Words] :
                    \A b \in DOMAIN v : v[b] \in Stores(Len(Chunk(n, b))) \union {Hole}}}
  IN  UNION {Files1(n, FALSE, {0}) \union
               (IF n % block_size > 0 THEN Files1(n, TRUE, Rooms(n)) ELSE {}) :
             n \in 0 .. MaxSize}

\* Damage: the last byte of one stored block is missing.
ShortFiles ==
  UNION {{[f EXCEPT !.stored[b] = SubSeq(@, 1, Len(@) - 1)] :
            b \in {c \in DOMAIN f.block_sizes : /\ f.block_sizes[c].len > 0
                                                /\ ~f.block_sizes[c].raw
                                                /\ Len(f.stored[c]) > 1}} :
         f \in IntactFiles}

MCOffsets == 0 .. MaxSize
MCLengths == {0, 1, block_size + 1, MaxSize + 1}

=============================================================================
