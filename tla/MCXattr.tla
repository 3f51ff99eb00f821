------------------------------ MODULE MCXattr ------------------------------
(* Instances of Xattr for TLC. *)
EXTENDS Xattr

CONSTANT MaxPairs

MCKeyLen == [a |-> 1, b |-> 2]

\* Values are told apart by the place of their pair.
Pairs(n) ==
  {[i \in 1 .. n |-> [key |-> k[i], prefix |-> p[i], value |-> i, size |-> i]] :
     k \in [1 .. n -> {"a", "b"}], p \in [1 .. n -> {SECURITY, SECURITY + 1}]}

\* Blocks of up to MaxPairs pairs, at most one of an unknown prefix.
MCBlocks ==
  UNION {[pairs : {p \in Pairs(n) :
                     Quantify(1 .. n, LAMBDA i : p[i].prefix > SECURITY) <= 1},
          tail : {"none", "few", "cut"}] : n \in 1 .. MaxPairs}

\* The sets of one block: two that share it, the second perhaps empty.
EntriesOf(b) ==
  {<<[block |-> 1, first |-> 1, count |-> n],
     [block |-> 1, first |-> n + 1, count |-> Len(b.pairs) - n]>> : n \in 1 .. Len(b.pairs)}

MCImages ==
  UNION {[no_xattrs : {FALSE}, valid : {TRUE}, entries : EntriesOf(b), blocks : {<<b>>}] :
         b \in MCBlocks}
    \union [no_xattrs : BOOLEAN, valid : BOOLEAN, entries : {<<>>}, blocks : {<<>>}]

=============================================================================
