------------------------------ MODULE MCInode ------------------------------
(* Instances of Metadata and Inode for TLC. *)
EXTENDS Inode

CONSTANT StreamSizes

MCItems(n) ==
  [who : {"dir"}, at : 0 .. n, size : 1 .. n + 1]
    \union [who : {"meta"}, at : 0 .. n - 1, size : 1 .. n + 1]

\* Inodes have at least a header; the fixed part of those of variable size
\* covers it.
AnInode(kind, at, size) ==
  [who |-> "inode", kind |-> kind, at |-> at, size |-> size,
   fixed |-> IF kind \in {"file", "symlink"} THEN HEADER + 1 ELSE 0]

MCInodes(n) ==
  {AnInode("plain", at, size) : at \in 0 .. n, size \in {HEADER, META_BLOCK_SIZE}}
    \union {AnInode("bad", at, HEADER) : at \in 0 .. n}
    \union {AnInode(kind, at, size) : kind \in {"file", "symlink"}, at \in 0 .. n,
                                      size \in HEADER + 1 .. META_BLOCK_SIZE + 2}

NumBlocks(n) == (n + META_BLOCK_SIZE - 1) \div META_BLOCK_SIZE

\* A block is stored raw, or in fewer bytes than it has.
Forms(size) == {l \in {0, 1, META_BLOCK_SIZE - 1} : l < size}

\* Every table of the given sizes, with and without another behind it.
Streams ==
  UNION {UNION {[size : {n}, comp : {"gzip", "zstd"}, inodes : {<<>>}, exports : {<<>>},
                 len : {l \in [1 .. NumBlocks(n) + k -> Forms(META_BLOCK_SIZE)] :
                          /\ l[NumBlocks(n)] \in Forms(n - (NumBlocks(n) - 1) * META_BLOCK_SIZE)
                          /\ k = 1 => l[NumBlocks(n) + 1] = 0}]
               : k \in {0, 1}} : n \in StreamSizes}

\* Two raw blocks of inodes, one of each kind in the first, and an export table
\* of two blocks, of which the full one may be compressed, the other missing.
Exported ==
  {[size |-> 2 * META_BLOCK_SIZE, comp |-> "gzip", len |-> <<0, 0>>,
    inodes |-> <<AnInode("symlink", 0, 2), AnInode("plain", 3, 1),
                 AnInode("file", META_BLOCK_SIZE, 3), AnInode("plain", 2, 1),
                 AnInode("plain", META_BLOCK_SIZE + 3, 1)>>,
    exports |-> <<form, last>>] : form \in {0, 1}, last \in {0, Absent}}

\* The blocks lie one behind the other.
Laid(t) ==
  [start |-> [b \in 1 .. Len(t.len) + 1 |->
                FoldLeftDomain(LAMBDA p, i : IF i < b THEN p + BlockHeader + StoredBytes(t, i)
                                                      ELSE p, 0, t.len)]] @@ t

MCTables == {Laid(t) : t \in Streams \union Exported}

=============================================================================
