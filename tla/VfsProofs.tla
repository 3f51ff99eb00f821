----------------------------- MODULE VfsProofs -----------------------------
(***************************************************************************)
(* Proofs about Vfs, for any tree, any paths and any number of workers and *)
(* handles: the ownership of inodes and listings, and that a request is    *)
(* answered from the inode that its path names.                            *)
(***************************************************************************)
EXTENDS Vfs, FiniteSetTheorems, SequenceTheorems, WellFoundedInduction, TLAPS

(***************************************************************************)
(* The tree.                                                               *)
(***************************************************************************)
\* A set of numbers has a least one.
LEMMA LeastNumber ==
  ASSUME NEW T, T \subseteq Nat, T # {}
  PROVE  \E x \in T : \A y \in T : x <= y
  <1> DEFINE R == OpToRel(<, Nat)
  <1>1. IsWellFoundedOn(R, Nat)
    BY NatLessThanWellFounded
  <1>2. \A x, y \in Nat : x < y => <<x, y>> \in R
    BY DEF OpToRel
  <1> HIDE DEF R
  <1>3. PICK x \in T : \A y \in T : ~(<<y, x>> \in R)
    BY <1>1, WFMin
  <1>4. ASSUME NEW y \in T PROVE x <= y
    <2>1. x \in Nat /\ y \in Nat /\ ~(y < x)
      BY <1>2, <1>3
    <2> QED
      BY <2>1
  <1> QED
    BY <1>4

\* Two ways down the tree along the same components are the same: otherwise
\* there is a first component after which they part.
LEMMA OneWay ==
  ASSUME NEW path, NEW j \in Nat, NEW k \in Nat, j <= k,
         NEW r, NEW s, Follows(r, path, j), Follows(s, path, k)
  PROVE  \A i \in 0 .. j : r[i] = s[i]
  <1> SUFFICES ASSUME \E i \in 0 .. j : r[i] # s[i] PROVE FALSE
    OBVIOUS
  <1> DEFINE Apart == {i \in 0 .. j : r[i] # s[i]}
  <1>1. PICK i \in Apart : \A h \in Apart : i <= h
    <2>1. Apart \subseteq Nat /\ Apart # {}
      OBVIOUS
    <2> HIDE DEF Apart
    <2> QED
      BY <2>1, LeastNumber
  <1>2. i # 0
    BY <1>1 DEF Follows
  <1>3. i \in 1 .. j /\ i \in 1 .. k /\ i - 1 \in 0 .. j /\ ~(i <= i - 1)
    BY <1>1, <1>2
  <1>4. r[i - 1] = s[i - 1]
    BY <1>1, <1>3
  <1>5. r[i] = Children[r[i - 1]][path[i]] /\ s[i] = Children[s[i - 1]][path[i]]
    BY <1>3 DEF Follows
  <1> QED
    BY <1>1, <1>4, <1>5

\* Hence a path that gets to its k-th component got through the earlier ones.
LEMMA WayThrough ==
  ASSUME NEW path, NEW j \in Nat, NEW k \in Nat, j < k,
         NEW n \in Reached(path, j), NEW m \in Reached(path, k)
  PROVE  IsDir(n) /\ path[j + 1] \in DOMAIN Children[n]
  <1>1. PICK r \in [0 .. j -> Nodes] : Follows(r, path, j) /\ r[j] = n
    BY DEF Reached
  <1>2. PICK s \in [0 .. k -> Nodes] : Follows(s, path, k) /\ s[k] = m
    BY DEF Reached
  <1>3. s[j] = n
    BY <1>1, <1>2, OneWay
  <1>4. j + 1 \in 1 .. k /\ (j + 1) - 1 = j
    OBVIOUS
  <1> QED
    BY <1>2, <1>3, <1>4 DEF Follows

\* The same number of components leads to the same node.
LEMMA OneNode ==
  ASSUME NEW path, NEW k \in Nat, NEW n \in Reached(path, k), NEW m \in Reached(path, k)
  PROVE  n = m
  <1>1. PICK r \in [0 .. k -> Nodes] : Follows(r, path, k) /\ r[k] = n
    BY DEF Reached
  <1>2. PICK s \in [0 .. k -> Nodes] : Follows(s, path, k) /\ s[k] = m
    BY DEF Reached
  <1> QED
    BY <1>1, <1>2, OneWay

\* No component leads to the root, one more to a child.
LEMMA RootReached == ASSUME NEW path PROVE Root \in Reached(path, 0)
  <1> DEFINE s == [i \in 0 .. 0 |-> Root]
  <1>1. s \in [0 .. 0 -> Nodes] /\ s[0] = Root
    BY VfsTypes
  <1> HIDE DEF s
  <1>2. Follows(s, path, 0)
    BY <1>1 DEF Follows
  <1> QED
    BY <1>1, <1>2, VfsTypes DEF Reached

LEMMA ChildReached ==
  ASSUME NEW path, NEW k \in Nat, NEW n \in Reached(path, k), IsDir(n),
         path[k + 1] \in DOMAIN Children[n]
  PROVE  Children[n][path[k + 1]] \in Reached(path, k + 1)
  <1> DEFINE m == Children[n][path[k + 1]]
  <1>1. n \in Nodes /\ m \in Nodes
    BY VfsTypes DEF Reached
  <1>2. PICK r \in [0 .. k -> Nodes] : Follows(r, path, k) /\ r[k] = n
    BY DEF Reached
  <1> DEFINE s == [i \in 0 .. k + 1 |-> IF i = k + 1 THEN m ELSE r[i]]
  <1>3. /\ s \in [0 .. k + 1 -> Nodes] /\ s[k + 1] = m
        /\ \A i \in 0 .. k : s[i] = r[i]
    BY <1>1, <1>2
  <1> HIDE DEF s
  <1>4. s[0] = Root
    BY <1>2, <1>3 DEF Follows
  <1>5. ASSUME NEW i \in 1 .. k + 1
        PROVE  /\ IsDir(s[i - 1]) /\ path[i] \in DOMAIN Children[s[i - 1]]
               /\ s[i] = Children[s[i - 1]][path[i]]
    <2>1. CASE i = k + 1
      <3>1. i - 1 = k /\ k \in 0 .. k
        BY <2>1
      <3>2. s[i - 1] = n
        BY <1>2, <1>3, <3>1
      <3> QED
        BY <1>3, <2>1, <3>2
    <2>2. CASE i # k + 1
      <3>1. i \in 1 .. k /\ i \in 0 .. k /\ i - 1 \in 0 .. k
        BY <2>2
      <3>2. s[i - 1] = r[i - 1] /\ s[i] = r[i]
        BY <1>3, <3>1
      <3> QED
        BY <1>2, <3>1, <3>2 DEF Follows
    <2> QED
      BY <2>1, <2>2
  <1> QED
    BY <1>1, <1>3, <1>4, <1>5 DEF Reached, Follows

-----------------------------------------------------------------------------
(***************************************************************************)
(* Ownership.                                                              *)
(***************************************************************************)
Held == {"walk", "use"}      \* where a worker owns an inode
Listing == {"find", "list"}  \* where it owns a listing
Bare == {"idle", "root", "read", "reply"}

Owners(S, f) == {x \in S : f[x] # None}

\* Who owns what depends on where the worker is, and the heap has that and no more.
OwnInv ==
  /\ pc \in [Workers -> Held \union Listing \union Bare]
  /\ inode \in [Workers -> Nodes \union {None}]
  /\ entries \in [Workers -> Nodes \union {None}]
  /\ handles \in [Handles -> Nodes \union {None}]
  /\ \A w \in Workers : inode[w] # None <=> pc[w] \in Held
  /\ \A w \in Workers : entries[w] # None <=> pc[w] \in Listing
  /\ inodes = Cardinality(Owners(Workers, inode)) + Cardinality(Owners(Handles, handles))
  /\ arrays = Cardinality(Owners(Workers, entries))

\* One owner more, or one less.
LEMMA OwnersMove ==
  ASSUME NEW S, IsFiniteSet(S), NEW f \in [S -> Nodes \union {None}], NEW x \in S
  PROVE  /\ Cardinality(Owners(S, f)) \in Nat
         /\ \A n \in Nodes : f[x] = None =>
              Cardinality(Owners(S, [f EXCEPT ![x] = n])) = Cardinality(Owners(S, f)) + 1
         /\ f[x] # None =>
              Cardinality(Owners(S, [f EXCEPT ![x] = None])) = Cardinality(Owners(S, f)) - 1
  <1>1. IsFiniteSet(Owners(S, f)) /\ Cardinality(Owners(S, f)) \in Nat
    BY FS_Subset, FS_CardinalityType DEF Owners
  <1>2. ASSUME NEW n \in Nodes, f[x] = None
        PROVE  Cardinality(Owners(S, [f EXCEPT ![x] = n])) = Cardinality(Owners(S, f)) + 1
    <2>1. Owners(S, [f EXCEPT ![x] = n]) = Owners(S, f) \union {x} /\ x \notin Owners(S, f)
      BY <1>2, VfsTypes DEF Owners
    <2> QED
      BY <1>1, <2>1, FS_AddElement
  <1>3. ASSUME f[x] # None
        PROVE  Cardinality(Owners(S, [f EXCEPT ![x] = None])) = Cardinality(Owners(S, f)) - 1
    <2>1. Owners(S, [f EXCEPT ![x] = None]) = Owners(S, f) \ {x} /\ x \in Owners(S, f)
      BY <1>3 DEF Owners
    <2> QED
      BY <1>1, <2>1, FS_RemoveElement
  <1> QED
    BY <1>1, <1>2, <1>3

\* The seven things a step of a worker can do with what it owns.
From(w, P, Q) == pc[w] \in P /\ \E to \in Q : Goto(w, to)

Keeps(w) == From(w, Bare, Bare) /\ UNCHANGED <<inode, entries, handles, inodes, arrays>>

Takes(w) ==
  /\ From(w, Bare, Held)
  /\ \E n \in Nodes : Own(w, n)
  /\ inodes' = inodes + 1 /\ UNCHANGED <<entries, handles, arrays>>

Drops(w) == From(w, Held, Bare) /\ FreeInode(w) /\ UNCHANGED <<entries, handles, arrays>>

Lists(w) ==
  /\ From(w, Held, Listing) /\ FreeInode(w)
  /\ \E n \in Nodes : List(w, n)
  /\ arrays' = arrays + 1 /\ UNCHANGED handles

Enters(w) ==
  /\ From(w, Listing, Held) /\ FreeEntries(w)
  /\ \E n \in Nodes : Own(w, n)
  /\ inodes' = inodes + 1 /\ UNCHANGED handles

Unlists(w) == From(w, Listing, Bare) /\ FreeEntries(w) /\ UNCHANGED <<inode, handles, inodes>>

HandsOver(w) ==
  /\ From(w, Held, Bare) /\ Own(w, None)
  /\ \E h \in Handles : handles[h] = None /\ handles' = [handles EXCEPT ![h] = inode[w]]
  /\ UNCHANGED <<entries, inodes, arrays>>

\* Every step does one of them, or releases a handle.
LEMMA WorkerMoves ==
  ASSUME OwnInv, NEW w \in Workers,
         \/ \E op \in PathOps, p \in Paths : Ask(w, op, p)
         \/ \E h \in Handles : StartRead(w, h)
         \/ StatFs(w) \/ NoXattrs(w) \/ Step(w)
  PROVE  \/ Keeps(w) \/ Takes(w) \/ Drops(w) \/ Lists(w) \/ Enters(w) \/ Unlists(w)
         \/ HandsOver(w)
  <1> USE DEF From, Held, Listing, Bare
  <1>1. CASE \/ \E op \in PathOps, p \in Paths : Ask(w, op, p)
             \/ \E h \in Handles : StartRead(w, h)
             \/ StatFs(w) \/ NoXattrs(w) \/ Replied(w) \/ EndRead(w) \/ RootFails(w)
    <2>1. Keeps(w)
      BY <1>1 DEF Keeps, Ask, StartRead, StatFs, NoXattrs, Replied, EndRead, RootFails,
         Answer, GiveUp, walking
    <2> QED
      BY <2>1
  <1>2. CASE LoadRoot(w)
    BY <1>2, VfsTypes DEF LoadRoot, Takes
  <1>3. CASE NotADir(w) \/ GetAttr(w) \/ WrongType(w) \/ ReadLink(w) \/ GetXattr(w)
    <2>1. Drops(w)
      BY <1>3 DEF Drops, NotADir, GetAttr, WrongType, ReadLink, GetXattr, InUse, Answer
    <2> QED
      BY <2>1
  <1>4. CASE ReadDir(w) \/ ReadDirEntries(w)
    <2>1. pc[w] \in Held /\ inode[w] \in Nodes
      BY <1>4 DEF ReadDir, ReadDirEntries, InUse, OwnInv
    <2> QED
      BY <1>4, <2>1 DEF ReadDir, ReadDirEntries, Answer, GiveUp, Drops, Lists
  <1>5. CASE Find(w)
    <2>1. Children[entries[w]][Head(todo[w])] \in Nodes
      BY <1>5, VfsTypes DEF Find, Listed, OwnInv
    <2> QED
      BY <1>5, <2>1 DEF Find, Enters
  <1>6. CASE FindFails(w) \/ FillDir(w)
    BY <1>6 DEF FindFails, FillDir, Answer, GiveUp, Unlists
  <1>7. CASE Open(w)
    BY <1>7 DEF Open, InUse, Answer, GiveUp, Drops, HandsOver
  <1> QED
    BY <1>1, <1>2, <1>3, <1>4, <1>5, <1>6, <1>7 DEF Step, Resolve, Use

LEMMA OwnMove ==
  ASSUME OwnInv, NEW w \in Workers,
         \/ Keeps(w) \/ Takes(w) \/ Drops(w) \/ Lists(w) \/ Enters(w) \/ Unlists(w)
         \/ HandsOver(w)
  PROVE  OwnInv'
  <1>0. /\ \A n \in Nodes : inode[w] = None =>
             Cardinality(Owners(Workers, [inode EXCEPT ![w] = n]))
               = Cardinality(Owners(Workers, inode)) + 1
        /\ inode[w] # None =>
             Cardinality(Owners(Workers, [inode EXCEPT ![w] = None]))
               = Cardinality(Owners(Workers, inode)) - 1
        /\ \A n \in Nodes : entries[w] = None =>
             Cardinality(Owners(Workers, [entries EXCEPT ![w] = n]))
               = Cardinality(Owners(Workers, entries)) + 1
        /\ entries[w] # None =>
             Cardinality(Owners(Workers, [entries EXCEPT ![w] = None]))
               = Cardinality(Owners(Workers, entries)) - 1
        /\ \A h \in Handles : \A n \in Nodes : handles[h] = None =>
             Cardinality(Owners(Handles, [handles EXCEPT ![h] = n]))
               = Cardinality(Owners(Handles, handles)) + 1
        /\ Cardinality(Owners(Workers, inode)) \in Nat
        /\ Cardinality(Owners(Workers, entries)) \in Nat
    BY OwnersMove, VfsTypes DEF OwnInv
  <1>h. Handles # {} => Cardinality(Owners(Handles, handles)) \in Nat
    BY OwnersMove, VfsTypes DEF OwnInv
  <1>z. Handles = {} => Cardinality(Owners(Handles, handles)) = 0
    <2>1. Handles = {} => Owners(Handles, handles) = {}
      BY DEF Owners
    <2> QED
      BY <2>1, FS_EmptySet
  <1>c. Cardinality(Owners(Handles, handles)) \in Nat
    BY <1>h, <1>z
  <1>1. pc' \in [Workers -> Held \union Listing \union Bare]
    BY DEF OwnInv, From, Goto, Keeps, Takes, Drops, Lists, Enters, Unlists, HandsOver
  <1>2. \A u \in Workers : u # w => pc'[u] = pc[u] /\ inode'[u] = inode[u] /\ entries'[u] = entries[u]
    BY DEF OwnInv, From, Goto, Keeps, Takes, Drops, Lists, Enters, Unlists, HandsOver, Own,
       List, FreeInode, FreeEntries
  <1>3. CASE Keeps(w)
    <2>1. pc[w] \in Bare /\ pc'[w] \in Bare
      BY <1>3 DEF Keeps, From, Goto, OwnInv
    <2> QED
      BY <1>1, <1>2, <1>3, <2>1 DEF Keeps, OwnInv, Held, Listing, Bare
  <1>4. CASE Takes(w)
    <2>1. pc[w] \in Bare /\ pc'[w] \in Held
      BY <1>4 DEF Takes, From, Goto, OwnInv
    <2>2. inode[w] = None
      BY <2>1 DEF OwnInv, Held, Bare
    <2>3. PICK n \in Nodes : inode' = [inode EXCEPT ![w] = n]
      BY <1>4 DEF Takes, Own
    <2>4. /\ inodes' = Cardinality(Owners(Workers, inode')) + Cardinality(Owners(Handles, handles'))
          /\ UNCHANGED <<entries, handles, arrays>>
      <3>1. Cardinality(Owners(Workers, inode')) = Cardinality(Owners(Workers, inode)) + 1
        BY <1>0, <2>2, <2>3
      <3>2. inodes' = inodes + 1 /\ UNCHANGED <<entries, handles, arrays>>
        BY <1>4 DEF Takes
      <3> QED
        BY <1>0, <1>c, <3>1, <3>2 DEF OwnInv
    <2>5. inode' \in [Workers -> Nodes \union {None}] /\ inode'[w] # None
      BY <2>3, VfsTypes DEF OwnInv
    <2> QED
      BY <1>1, <1>2, <2>1, <2>4, <2>5 DEF OwnInv, Held, Listing, Bare
  <1>5. CASE Drops(w)
    <2>1. pc[w] \in Held /\ pc'[w] \in Bare
      BY <1>5 DEF Drops, From, Goto, OwnInv
    <2>2. inode[w] # None
      BY <2>1 DEF OwnInv
    <2>3. inode' = [inode EXCEPT ![w] = None]
      BY <1>5 DEF Drops, FreeInode, Own
    <2>4. /\ inodes' = Cardinality(Owners(Workers, inode')) + Cardinality(Owners(Handles, handles'))
          /\ UNCHANGED <<entries, handles, arrays>>
      BY <1>0, <1>c, <1>5, <2>2, <2>3 DEF Drops, FreeInode, OwnInv
    <2>5. inode' \in [Workers -> Nodes \union {None}] /\ inode'[w] = None
      BY <2>3 DEF OwnInv
    <2> QED
      BY <1>1, <1>2, <2>1, <2>4, <2>5 DEF OwnInv, Held, Listing, Bare
  <1>6. CASE Lists(w)
    <2>1. pc[w] \in Held /\ pc'[w] \in Listing
      BY <1>6 DEF Lists, From, Goto, OwnInv
    <2>2. inode[w] # None /\ entries[w] = None
      BY <2>1 DEF OwnInv, Held, Listing
    <2>3. PICK n \in Nodes : entries' = [entries EXCEPT ![w] = n]
      BY <1>6 DEF Lists, List
    <2>4. inode' = [inode EXCEPT ![w] = None]
      BY <1>6 DEF Lists, FreeInode, Own
    <2>5. /\ inodes' = Cardinality(Owners(Workers, inode')) + Cardinality(Owners(Handles, handles'))
          /\ arrays' = Cardinality(Owners(Workers, entries'))
          /\ UNCHANGED handles
      <3>1. Cardinality(Owners(Workers, inode')) = Cardinality(Owners(Workers, inode)) - 1
        BY <1>0, <2>2, <2>4
      <3>2. Cardinality(Owners(Workers, entries')) = Cardinality(Owners(Workers, entries)) + 1
        BY <1>0, <2>2, <2>3
      <3>3. inodes' = inodes - 1 /\ arrays' = arrays + 1 /\ UNCHANGED handles
        BY <1>6 DEF Lists, FreeInode
      <3> QED
        BY <1>0, <1>c, <3>1, <3>2, <3>3 DEF OwnInv
    <2>6. /\ inode' \in [Workers -> Nodes \union {None}] /\ inode'[w] = None
          /\ entries' \in [Workers -> Nodes \union {None}] /\ entries'[w] # None
      BY <2>3, <2>4, VfsTypes DEF OwnInv
    <2> QED
      BY <1>1, <1>2, <2>1, <2>5, <2>6 DEF OwnInv, Held, Listing, Bare
  <1>7. CASE Enters(w)
    <2>1. pc[w] \in Listing /\ pc'[w] \in Held
      BY <1>7 DEF Enters, From, Goto, OwnInv
    <2>2. inode[w] = None /\ entries[w] # None
      BY <2>1 DEF OwnInv, Held, Listing
    <2>3. PICK n \in Nodes : inode' = [inode EXCEPT ![w] = n]
      BY <1>7 DEF Enters, Own
    <2>4. entries' = [entries EXCEPT ![w] = None]
      BY <1>7 DEF Enters, FreeEntries, List
    <2>5. /\ inodes' = Cardinality(Owners(Workers, inode')) + Cardinality(Owners(Handles, handles'))
          /\ arrays' = Cardinality(Owners(Workers, entries'))
          /\ UNCHANGED handles
      <3>1. Cardinality(Owners(Workers, inode')) = Cardinality(Owners(Workers, inode)) + 1
        BY <1>0, <2>2, <2>3
      <3>2. Cardinality(Owners(Workers, entries')) = Cardinality(Owners(Workers, entries)) - 1
        BY <1>0, <2>2, <2>4
      <3>3. inodes' = inodes + 1 /\ arrays' = arrays - 1 /\ UNCHANGED handles
        BY <1>7 DEF Enters, FreeEntries
      <3> QED
        BY <1>0, <1>c, <3>1, <3>2, <3>3 DEF OwnInv
    <2>6. /\ inode' \in [Workers -> Nodes \union {None}] /\ inode'[w] # None
          /\ entries' \in [Workers -> Nodes \union {None}] /\ entries'[w] = None
      BY <2>3, <2>4, VfsTypes DEF OwnInv
    <2> QED
      BY <1>1, <1>2, <2>1, <2>5, <2>6 DEF OwnInv, Held, Listing, Bare
  <1>8. CASE Unlists(w)
    <2>1. pc[w] \in Listing /\ pc'[w] \in Bare
      BY <1>8 DEF Unlists, From, Goto, OwnInv
    <2>2. entries[w] # None
      BY <2>1 DEF OwnInv
    <2>3. entries' = [entries EXCEPT ![w] = None]
      BY <1>8 DEF Unlists, FreeEntries, List
    <2>4. /\ arrays' = Cardinality(Owners(Workers, entries'))
          /\ UNCHANGED <<inode, handles, inodes>>
      BY <1>0, <1>8, <2>2, <2>3 DEF Unlists, FreeEntries, OwnInv
    <2>5. entries' \in [Workers -> Nodes \union {None}] /\ entries'[w] = None
      BY <2>3 DEF OwnInv
    <2> QED
      BY <1>1, <1>2, <2>1, <2>4, <2>5 DEF OwnInv, Held, Listing, Bare
  <1>9. CASE HandsOver(w)
    <2>1. pc[w] \in Held /\ pc'[w] \in Bare
      BY <1>9 DEF HandsOver, From, Goto, OwnInv
    <2>2. inode[w] # None /\ inode[w] \in Nodes
      BY <2>1 DEF OwnInv
    <2>3. inode' = [inode EXCEPT ![w] = None]
      BY <1>9 DEF HandsOver, Own
    <2>4. PICK h \in Handles : handles[h] = None /\ handles' = [handles EXCEPT ![h] = inode[w]]
      BY <1>9 DEF HandsOver
    <2>5. /\ inodes' = Cardinality(Owners(Workers, inode')) + Cardinality(Owners(Handles, handles'))
          /\ UNCHANGED <<entries, arrays>>
      <3>1. Cardinality(Owners(Workers, inode')) = Cardinality(Owners(Workers, inode)) - 1
        BY <1>0, <2>2, <2>3
      <3>2. Cardinality(Owners(Handles, handles')) = Cardinality(Owners(Handles, handles)) + 1
        BY <1>0, <2>2, <2>4
      <3>3. inodes' = inodes /\ UNCHANGED <<entries, arrays>>
        BY <1>9 DEF HandsOver
      <3> QED
        BY <1>0, <1>c, <3>1, <3>2, <3>3 DEF OwnInv
    <2>6. /\ inode' \in [Workers -> Nodes \union {None}] /\ inode'[w] = None
          /\ handles' \in [Handles -> Nodes \union {None}]
      BY <2>2, <2>3, <2>4 DEF OwnInv
    <2> QED
      BY <1>1, <1>2, <2>1, <2>5, <2>6 DEF OwnInv, Held, Listing, Bare
  <1> QED
    BY <1>3, <1>4, <1>5, <1>6, <1>7, <1>8, <1>9

LEMMA ReleaseOwn ==
  ASSUME OwnInv, NEW h \in Handles, Release(h)
  PROVE  OwnInv'
  <1>1. /\ handles[h] # None /\ handles' = [handles EXCEPT ![h] = None]
        /\ inodes' = inodes - 1 /\ UNCHANGED <<pc, inode, entries, arrays>>
    BY DEF Release
  <1>2. /\ Cardinality(Owners(Handles, handles')) = Cardinality(Owners(Handles, handles)) - 1
        /\ Cardinality(Owners(Handles, handles)) \in Nat
    BY <1>1, OwnersMove, VfsTypes DEF OwnInv
  <1>3. Cardinality(Owners(Workers, inode)) \in Nat
    BY FS_Subset, FS_CardinalityType, VfsTypes DEF Owners
  <1>4. inodes' = Cardinality(Owners(Workers, inode')) + Cardinality(Owners(Handles, handles'))
    BY <1>1, <1>2, <1>3 DEF OwnInv
  <1>5. handles' \in [Handles -> Nodes \union {None}]
    BY <1>1 DEF OwnInv
  <1> QED
    BY <1>1, <1>4, <1>5 DEF OwnInv

LEMMA OwnNext == ASSUME OwnInv, [Next]_vars PROVE OwnInv'
  <1>1. CASE UNCHANGED vars
    BY <1>1 DEF OwnInv, vars
  <1>2. CASE Next
    BY <1>2, WorkerMoves, OwnMove, ReleaseOwn DEF Next
  <1> QED
    BY <1>1, <1>2

LEMMA OwnInit == Init => OwnInv
  <1> SUFFICES ASSUME Init PROVE OwnInv
    OBVIOUS
  <1>1. /\ Owners(Workers, inode) = {} /\ Owners(Workers, entries) = {}
        /\ Owners(Handles, handles) = {}
    BY DEF Init, Owners
  <1>2. inodes = 0 /\ arrays = 0
    BY DEF Init
  <1>3. /\ inodes = Cardinality(Owners(Workers, inode)) + Cardinality(Owners(Handles, handles))
        /\ arrays = Cardinality(Owners(Workers, entries))
    <2>1. Cardinality({}) = 0
      BY FS_EmptySet
    <2> QED
      BY <1>1, <1>2, <2>1
  <1>4. /\ pc = [w \in Workers |-> "idle"] /\ inode = [w \in Workers |-> None]
        /\ entries = [w \in Workers |-> None] /\ handles = [h \in Handles |-> None]
    BY DEF Init
  <1> QED
    BY <1>3, <1>4 DEF OwnInv, Held, Listing, Bare

\* Whatever requests run at once, and wherever they fail, every inode and every
\* listing on the heap has one owner, and a worker that has answered has none.
THEOREM OwnershipCorrect == Spec => []OwnedOnce
  <1>1. OwnInv => OwnedOnce
    BY DEF OwnInv, OwnedOnce, Owners, Held, Listing
  <1> QED
    BY <1>1, OwnInit, OwnNext, PTL DEF Spec

-----------------------------------------------------------------------------
(***************************************************************************)
(* Paths.                                                                  *)
(***************************************************************************)
\* A path that names a node does not lead nowhere, and one that does leads there
\* for one reason.
LEMMA NamedLeads ==
  ASSUME NEW path \in Seq(Names), NEW n \in Named(path), NEW e
  PROVE  ~LeadsNowhere(path, e)
  <1> SUFFICES ASSUME LeadsNowhere(path, e) PROVE FALSE
    OBVIOUS
  <1>1. PICK k \in 0 .. Len(path) - 1 : \E m \in Reached(path, k) :
               ~(IsDir(m) /\ path[k + 1] \in DOMAIN Children[m])
    BY DEF LeadsNowhere
  <1>2. k \in Nat /\ Len(path) \in Nat /\ k < Len(path)
    BY <1>1
  <1> QED
    BY <1>1, <1>2, WayThrough DEF Named

LEMMA OneReason ==
  ASSUME NEW path \in Seq(Names), NEW d, NEW e, LeadsNowhere(path, d), LeadsNowhere(path, e)
  PROVE  d = e
  <1> DEFINE Stops(e_, k_, n_) ==
               \/ e_ = "not_dir" /\ ~IsDir(n_)
               \/ e_ = "not_found" /\ IsDir(n_) /\ path[k_ + 1] \notin DOMAIN Children[n_]
  <1>j. PICK j \in 0 .. Len(path) - 1 : \E m \in Reached(path, j) : Stops(d, j, m)
    BY DEF LeadsNowhere
  <1>m. PICK m \in Reached(path, j) : Stops(d, j, m)
    BY <1>j
  <1>k. PICK k \in 0 .. Len(path) - 1 : \E n \in Reached(path, k) : Stops(e, k, n)
    BY DEF LeadsNowhere
  <1>n. PICK n \in Reached(path, k) : Stops(e, k, n)
    BY <1>k
  <1>3. j \in Nat /\ k \in Nat
    OBVIOUS
  <1>4. ~(j < k) /\ ~(k < j)
    BY <1>m, <1>n, <1>3, WayThrough
  <1>5. j = k
    BY <1>3, <1>4
  <1>6. m = n
    BY <1>3, <1>5, OneNode
  <1> QED
    BY <1>m, <1>n, <1>5, <1>6

\* The answer r to a request for the path is the right one.
Right(path, op, r, bad) ==
  /\ r.node # None => r.node \in Named(path)
  /\ ~bad => \A e \in {"not_dir", "not_found"} : LeadsNowhere(path, e) => r.err = e
  /\ ~bad /\ r.err = "not_found" /\ op \notin XattrOps => LeadsNowhere(path, "not_found")

\* It is right to give up when something failed; to say why a path leads
\* nowhere; and to answer, from the node the path names, anything but that
\* there is none.
LEMMA RightAnswers ==
  ASSUME NEW path \in Seq(Names), NEW op, NEW r
  PROVE  /\ r.node = None => Right(path, op, r, TRUE)
         /\ r.node = None /\ LeadsNowhere(path, r.err) => Right(path, op, r, FALSE)
         /\ \A n \in Named(path) :
              (r.node \in {n, None} /\ (r.err # "not_found" \/ op \in XattrOps))
                => Right(path, op, r, FALSE)
  <1>1. r.node = None => Right(path, op, r, TRUE)
    BY DEF Right
  <1>2. ASSUME r.node = None, LeadsNowhere(path, r.err) PROVE Right(path, op, r, FALSE)
    BY <1>2, OneReason DEF Right
  <1>3. ASSUME NEW n \in Named(path), r.node \in {n, None},
               r.err # "not_found" \/ op \in XattrOps
        PROVE  Right(path, op, r, FALSE)
    BY <1>3, NamedLeads DEF Right
  <1> QED
    BY <1>1, <1>2, <1>3

\* t is what is left of p.
Suffix(t, p) ==
  Len(t) <= Len(p) /\ \A i \in 1 .. Len(t) : t[i] = p[Len(p) - Len(t) + i]

\* How far worker w has come.
Passed(w) == Len(call[w].path) - Len(todo[w])

\* What a request that is under way has to do with the tree.
OnItsWay(w) ==
  /\ call[w].path \in Seq(Names) /\ todo[w] \in Seq(Names)
  /\ pc[w] \in {"idle", "read"} => call[w] = NoCall
  /\ pc[w] # "reply" => failed[w] = FALSE
  /\ pc[w] = "root" => todo[w] = call[w].path
  /\ pc[w] \in Held \union Listing => Suffix(todo[w], call[w].path)
  /\ pc[w] \in Held => inode[w] \in Reached(call[w].path, Passed(w))
  /\ pc[w] \in Listing => entries[w] \in Reached(call[w].path, Passed(w))
  /\ pc[w] \in {"walk", "find"} => todo[w] # <<>>
  /\ pc[w] \in {"use", "list"} => todo[w] = <<>>
  /\ pc[w] = "find" => IsDir(entries[w])
  /\ ByPath(w) => Right(call[w].path, call[w].op, reply[w], failed[w])

PathInv ==
  /\ call = [w \in Workers |-> call[w]] /\ todo = [w \in Workers |-> todo[w]]
  /\ reply = [w \in Workers |-> reply[w]] /\ failed = [w \in Workers |-> failed[w]]
  /\ \A w \in Workers : OnItsWay(w)

\* A worker is not disturbed by the steps of others.
LEMMA Undisturbed ==
  ASSUME NEW u \in Workers, OnItsWay(u),
         pc'[u] = pc[u], call'[u] = call[u], todo'[u] = todo[u], inode'[u] = inode[u],
         entries'[u] = entries[u], reply'[u] = reply[u], failed'[u] = failed[u]
  PROVE  OnItsWay(u)'
  BY DEF OnItsWay, Passed, ByPath

\* A worker that answers, with what is right for its path.
LEMMA AnsweredRight ==
  ASSUME NEW w \in Workers, OnItsWay(w),
         pc'[w] = "reply", call'[w] = call[w], todo'[w] = todo[w],
         Right(call[w].path, call[w].op, reply'[w], failed'[w])
  PROVE  OnItsWay(w)'
  BY DEF OnItsWay, Held, Listing, ByPath

\* A step of worker w touches nothing of another's.
Only(w) ==
  /\ \A u \in Workers : u # w =>
       /\ pc'[u] = pc[u] /\ call'[u] = call[u] /\ todo'[u] = todo[u] /\ inode'[u] = inode[u]
       /\ entries'[u] = entries[u] /\ reply'[u] = reply[u] /\ failed'[u] = failed[u]
  /\ call' = [u \in Workers |-> call'[u]] /\ todo' = [u \in Workers |-> todo'[u]]
  /\ reply' = [u \in Workers |-> reply'[u]] /\ failed' = [u \in Workers |-> failed'[u]]

LEMMA OnlyW ==
  ASSUME OwnInv, PathInv, NEW w \in Workers,
         \/ \E op \in PathOps, p \in Paths : Ask(w, op, p)
         \/ \E h \in Handles : StartRead(w, h)
         \/ StatFs(w) \/ NoXattrs(w) \/ Step(w)
  PROVE  Only(w)
  <1> USE DEF Only, OwnInv, PathInv, Goto, Own, List, FreeInode, FreeEntries, Answer, GiveUp,
              walking
  <1>1. CASE \E op \in PathOps, p \in Paths : Ask(w, op, p)
    BY <1>1 DEF Ask
  <1>2. CASE (\E h \in Handles : StartRead(w, h)) \/ StatFs(w) \/ NoXattrs(w) \/ EndRead(w)
             \/ RootFails(w)
    BY <1>2 DEF StartRead, StatFs, NoXattrs, EndRead, RootFails
  <1>3. CASE Replied(w)
    BY <1>3 DEF Replied
  <1>4. CASE LoadRoot(w) \/ NotADir(w) \/ FindFails(w) \/ FillDir(w)
    BY <1>4 DEF LoadRoot, NotADir, FindFails, FillDir
  <1>5. CASE ReadDir(w) \/ ReadDirEntries(w)
    BY <1>5 DEF ReadDir, ReadDirEntries
  <1>6. CASE Find(w)
    BY <1>6 DEF Find
  <1>7. CASE GetAttr(w) \/ WrongType(w) \/ ReadLink(w) \/ GetXattr(w)
    BY <1>7 DEF GetAttr, WrongType, ReadLink, GetXattr
  <1>8. CASE Open(w)
    BY <1>8 DEF Open
  <1> QED
    BY <1>1, <1>2, <1>3, <1>4, <1>5, <1>6, <1>7, <1>8 DEF Step, Resolve, Use

\* The front of a sequence that is not empty.
LEMMA SeqFront ==
  ASSUME NEW S, NEW t \in Seq(S), t # <<>>
  PROVE  /\ Len(t) \in Nat /\ Len(t) > 0 /\ Head(t) = t[1]
         /\ Tail(t) \in Seq(S) /\ Len(Tail(t)) = Len(t) - 1
         /\ \A i \in 1 .. Len(t) - 1 : Tail(t)[i] = t[i + 1]
  BY EmptySeq, HeadTailProperties

\* What is left of a path, and what is left after one more component.
LEMMA SuffixFacts ==
  ASSUME NEW p \in Seq(Names), NEW t \in Seq(Names), Suffix(t, p)
  PROVE  /\ Len(p) - Len(t) \in Nat
         /\ t = <<>> => Len(p) - Len(t) = Len(p)
         /\ t # <<>> => /\ Len(p) - Len(t) \in 0 .. Len(p) - 1
                        /\ Head(t) = p[Len(p) - Len(t) + 1]
                        /\ Suffix(Tail(t), p) /\ Tail(t) \in Seq(Names)
                        /\ Len(p) - Len(Tail(t)) = Len(p) - Len(t) + 1
  <1> DEFINE m == Len(t)
  <1> DEFINE n == Len(p)
  <1>1. m \in Nat /\ n \in Nat /\ (t = <<>> <=> m = 0)
    BY EmptySeq, LenProperties
  <1>2. m <= n /\ \A i \in 1 .. m : t[i] = p[n - m + i]
    BY DEF Suffix
  <1>3. ASSUME t # <<>>
        PROVE  /\ m > 0 /\ Head(t) = p[n - m + 1]
               /\ Suffix(Tail(t), p) /\ Tail(t) \in Seq(Names)
               /\ n - Len(Tail(t)) = n - m + 1
    <2>1. /\ Head(t) = t[1] /\ Tail(t) \in Seq(Names) /\ Len(Tail(t)) = m - 1
          /\ \A i \in 1 .. m - 1 : Tail(t)[i] = t[i + 1]
      BY <1>3, SeqFront
    <2>2. m > 0 /\ Head(t) = p[n - m + 1]
      <3> HIDE DEF m, n
      <3> QED
        BY <1>1, <1>2, <1>3, <2>1
    <2>3. ASSUME NEW i \in 1 .. m - 1 PROVE Tail(t)[i] = p[n - (m - 1) + i]
      <3> HIDE DEF m, n
      <3>1. i + 1 \in 1 .. m /\ n - m + (i + 1) = n - (m - 1) + i
        BY <1>1
      <3> QED
        BY <1>2, <2>1, <3>1
    <2>4. m - 1 <= n /\ n - (m - 1) = n - m + 1
      <3> HIDE DEF m, n
      <3> QED
        BY <1>1, <1>2
    <2> QED
      BY <2>1, <2>2, <2>3, <2>4 DEF Suffix
  <1>4. n - m \in Nat /\ (m = 0 => n - m = n) /\ (m > 0 => n - m \in 0 .. n - 1)
    <2> HIDE DEF m, n
    <2> QED
      BY <1>1, <1>2
  <1> QED
    BY <1>1, <1>3, <1>4

\* Where a request has got to, as far as its path is concerned.
LEMMA WayFacts ==
  ASSUME NEW w \in Workers, OnItsWay(w), pc[w] \in Held \union Listing
  PROVE  /\ Passed(w) \in Nat
         /\ todo[w] = <<>> => Passed(w) = Len(call[w].path)
         /\ todo[w] # <<>> => /\ Passed(w) \in 0 .. Len(call[w].path) - 1
                              /\ Head(todo[w]) = call[w].path[Passed(w) + 1]
                              /\ Suffix(Tail(todo[w]), call[w].path)
                              /\ Tail(todo[w]) \in Seq(Names)
                              /\ Len(call[w].path) - Len(Tail(todo[w])) = Passed(w) + 1
  <1>1. /\ call[w].path \in Seq(Names) /\ todo[w] \in Seq(Names)
        /\ Suffix(todo[w], call[w].path)
    BY DEF OnItsWay
  <1> QED
    BY <1>1, SuffixFacts DEF Passed

\* What a step does for the request of its worker.
LEMMA WayStep ==
  ASSUME OwnInv, PathInv, NEW w \in Workers,
         \/ \E op \in PathOps, p \in Paths : Ask(w, op, p)
         \/ \E h \in Handles : StartRead(w, h)
         \/ StatFs(w) \/ NoXattrs(w) \/ Step(w)
  PROVE  OnItsWay(w)'
  <1> DEFINE path == call[w].path
  <1>0. /\ OnItsWay(w) /\ path \in Seq(Names) /\ todo[w] \in Seq(Names)
        /\ pc[w] \in Held \union Listing \union Bare
    BY DEF PathInv, OnItsWay, OwnInv
  <1>f. /\ \A x : pc' = [pc EXCEPT ![w] = x] => pc'[w] = x
        /\ \A x : call' = [call EXCEPT ![w] = x] => call'[w] = x
        /\ \A x : todo' = [todo EXCEPT ![w] = x] => todo'[w] = x
        /\ \A x : inode' = [inode EXCEPT ![w] = x] => inode'[w] = x
        /\ \A x : entries' = [entries EXCEPT ![w] = x] => entries'[w] = x
        /\ \A x : reply' = [reply EXCEPT ![w] = x] => reply'[w] = x
        /\ \A x : failed' = [failed EXCEPT ![w] = x] => failed'[w] = x
    BY DEF PathInv, OwnInv
  <1> HIDE DEF path
  \* Some call fails.
  <1>g. ASSUME NEW e, GiveUp(w, e), UNCHANGED <<call, todo>> PROVE OnItsWay(w)'
    <2>1. pc'[w] = "reply" /\ reply'[w] = Error(e) /\ failed'[w] = TRUE
      BY <1>f, <1>g DEF GiveUp, Answer, Goto
    <2>2. Right(path, call[w].op, reply'[w], TRUE)
      BY <1>0, <2>1, RightAnswers DEF Error, NoReply
    <2> QED
      BY <1>0, <1>g, <2>1, <2>2, AnsweredRight DEF path
  \* The walk has ended at the node the path names.
  <1>u. ASSUME NEW n \in Named(path), NEW r, Answer(w, r), r.node \in {n, None},
               r.err # "not_found" \/ call[w].op \in XattrOps,
               UNCHANGED <<call, todo, failed>>, pc[w] # "reply"
        PROVE  OnItsWay(w)'
    <2>1. pc'[w] = "reply" /\ reply'[w] = r /\ failed'[w] = FALSE
      BY <1>0, <1>f, <1>u DEF Answer, Goto, OnItsWay
    <2>2. Right(path, call[w].op, r, FALSE)
      BY <1>0, <1>u, RightAnswers
    <2> QED
      BY <1>0, <1>u, <2>1, <2>2, AnsweredRight DEF path
  \* It has ended on the way.
  <1>e. ASSUME NEW e, Answer(w, Error(e)), LeadsNowhere(path, e),
               UNCHANGED <<call, todo, failed>>, pc[w] # "reply"
        PROVE  OnItsWay(w)'
    <2>1. pc'[w] = "reply" /\ reply'[w] = Error(e) /\ failed'[w] = FALSE
      BY <1>0, <1>f, <1>e DEF Answer, Goto, OnItsWay
    <2>2. Error(e).node = None /\ Error(e).err = e
      BY DEF Error, NoReply
    <2>3. Right(path, call[w].op, reply'[w], FALSE)
      BY <1>0, <1>e, <2>1, <2>2, RightAnswers
    <2> QED
      BY <1>0, <1>e, <2>1, <2>3, AnsweredRight DEF path
  \* The request was not about a path.
  <1>n. ASSUME NEW r, Answer(w, r), pc[w] \in {"idle", "read"}, UNCHANGED <<call, todo>>
        PROVE  OnItsWay(w)'
    <2>1. pc'[w] = "reply" /\ call[w] = NoCall
      BY <1>0, <1>f, <1>n DEF Answer, Goto, OnItsWay
    <2>2. call[w].op \notin PathOps
      BY <2>1 DEF NoCall, PathOps
    <2> QED
      BY <1>0, <1>n, <2>1, <2>2 DEF OnItsWay, ByPath, Held, Listing
  <1>1. CASE \E op \in PathOps, p \in Paths : Ask(w, op, p)
    <2>1. PICK op \in PathOps, p \in Paths : Ask(w, op, p)
      BY <1>1
    <2>2. /\ pc'[w] = "root" /\ call'[w] = [op |-> op, path |-> p] /\ todo'[w] = p
          /\ failed'[w] = failed[w] /\ pc[w] = "idle" /\ p \in Seq(Names)
      BY <1>f, <2>1, VfsTypes DEF Ask, Goto
    <2> QED
      BY <1>0, <2>2 DEF OnItsWay, Held, Listing, ByPath
  <1>2. CASE \E h \in Handles : StartRead(w, h)
    <2>1. /\ pc'[w] = "read" /\ pc[w] = "idle"
          /\ UNCHANGED <<call, todo, failed>>
      BY <1>f, <1>2 DEF StartRead, Goto, walking
    <2> QED
      BY <1>0, <2>1 DEF OnItsWay, Held, Listing, ByPath
  <1>3. CASE StatFs(w) \/ NoXattrs(w) \/ EndRead(w)
    BY <1>n, <1>3 DEF StatFs, NoXattrs, EndRead, GiveUp, walking
  <1>4. CASE Replied(w)
    <2>1. /\ pc'[w] = "idle" /\ call'[w] = NoCall /\ todo'[w] = <<>> /\ failed'[w] = FALSE
      BY <1>f, <1>4 DEF Replied, Goto
    <2>2. <<>> \in Seq(Names)
      OBVIOUS
    <2> QED
      BY <2>1, <2>2 DEF OnItsWay, Held, Listing, ByPath, NoCall
  <1>5. CASE LoadRoot(w)
    <2>1. /\ pc[w] = "root" /\ inode'[w] = Root /\ UNCHANGED <<call, todo, failed>>
          /\ pc'[w] = IF todo[w] = <<>> THEN "use" ELSE "walk"
      BY <1>f, <1>5 DEF LoadRoot, Own, Goto
    <2>2. todo[w] = path
      BY <1>0, <2>1 DEF OnItsWay, path
    <2>3. Len(path) \in Nat /\ Len(path) - Len(path) = 0 /\ Suffix(path, path)
      <3> DEFINE n == Len(path)
      <3>1. n \in Nat
        BY <1>0
      <3>2. n <= n /\ n - n = 0 /\ \A i \in 1 .. n : n - n + i = i
        <4> HIDE DEF n
        <4> QED
          BY <3>1
      <3> QED
        BY <3>1, <3>2 DEF Suffix
    <2>4. Root \in Reached(path, Len(path) - Len(path))
      BY <2>3, RootReached
    <2>5. pc'[w] \in {"use", "walk"} /\ Passed(w)' = Len(path) - Len(path)
      BY <2>1, <2>2 DEF Passed, path
    <2> QED
      BY <1>0, <2>1, <2>2, <2>3, <2>4, <2>5 DEF OnItsWay, Held, Listing, ByPath, path
  <1>6. CASE RootFails(w)
    BY <1>g, <1>6 DEF RootFails, walking
  <1>7. ASSUME pc[w] \in {"walk", "find"}
        PROVE  /\ todo[w] # <<>> /\ Passed(w) \in 0 .. Len(path) - 1 /\ Passed(w) \in Nat
               /\ Head(todo[w]) = path[Passed(w) + 1]
               /\ pc[w] = "walk" => inode[w] \in Reached(path, Passed(w))
               /\ pc[w] = "find" => entries[w] \in Reached(path, Passed(w)) /\ IsDir(entries[w])
    BY <1>0, <1>7, WayFacts DEF OnItsWay, Held, Listing, path
  <1>8. CASE NotADir(w)
    <2>1. LeadsNowhere(path, "not_dir")
      BY <1>7, <1>8 DEF NotADir, LeadsNowhere
    <2> QED
      BY <1>e, <1>8, <2>1 DEF NotADir
  <1>9. CASE ReadDir(w)
    <2>1. CASE GiveUp(w, "io")
      BY <1>g, <1>9, <2>1 DEF ReadDir
    <2>2. CASE ~GiveUp(w, "io")
      <3>1. /\ pc[w] = "walk" /\ IsDir(inode[w]) /\ pc'[w] = "find" /\ entries'[w] = inode[w]
            /\ UNCHANGED <<call, todo, failed>>
        BY <1>f, <1>9, <2>2 DEF ReadDir, Goto, List
      <3>2. Passed(w)' = Passed(w)
        BY <3>1 DEF Passed
      <3> QED
        BY <1>0, <1>7, <3>1, <3>2 DEF OnItsWay, Held, Listing, ByPath, path
    <2> QED
      BY <2>1, <2>2
  <1>10. CASE Find(w)
    <2>1. /\ pc[w] = "find" /\ inode'[w] = Children[entries[w]][Head(todo[w])]
          /\ Head(todo[w]) \in DOMAIN Children[entries[w]]
          /\ todo'[w] = Tail(todo[w]) /\ UNCHANGED <<call, failed>>
          /\ pc'[w] = IF Tail(todo[w]) = <<>> THEN "use" ELSE "walk"
      BY <1>f, <1>10 DEF Find, Own, Goto, Listed
    <2>2. /\ Suffix(Tail(todo[w]), path) /\ Tail(todo[w]) \in Seq(Names)
          /\ Len(path) - Len(Tail(todo[w])) = Passed(w) + 1
      BY <1>0, <1>7, <2>1, WayFacts DEF Listing, path
    <2>3. Passed(w)' = Passed(w) + 1
      BY <2>1, <2>2 DEF Passed, path
    <2>4. inode'[w] \in Reached(path, Passed(w) + 1)
      BY <1>7, <2>1, ChildReached
    <2>5. pc'[w] \in {"use", "walk"}
      BY <2>1
    <2> QED
      BY <1>0, <2>1, <2>2, <2>3, <2>4, <2>5 DEF OnItsWay, Held, Listing, ByPath, path
  <1>11. CASE FindFails(w)
    <2>1. CASE GiveUp(w, "not_found")
      BY <1>g, <1>11, <2>1 DEF FindFails
    <2>2. CASE ~GiveUp(w, "not_found")
      <3>1. /\ pc[w] = "find" /\ Head(todo[w]) \notin DOMAIN Children[entries[w]]
            /\ Answer(w, Error("not_found")) /\ UNCHANGED <<call, todo, failed>>
        BY <1>11, <2>2 DEF FindFails, Listed
      <3>2. LeadsNowhere(path, "not_found")
        BY <1>7, <3>1 DEF LeadsNowhere
      <3> QED
        BY <1>e, <3>1, <3>2
    <2> QED
      BY <2>1, <2>2
  <1>12. /\ pc[w] = "use" => inode[w] \in Named(path)
         /\ pc[w] = "list" => entries[w] \in Named(path)
    BY <1>0, WayFacts DEF OnItsWay, Held, Listing, Named, path
  <1> DEFINE Ok(n) == [NoReply EXCEPT !.err = "ok", !.node = n]
  <1>r. \A n : Ok(n).node = n /\ Ok(n).err = "ok"
    BY DEF NoReply
  <1>13. CASE GetAttr(w)
    <2> DEFINE r == [NoReply EXCEPT !.err = "ok", !.node = inode[w], !.uid = OwnerOf(inode[w])]
    <2>1. r.node = inode[w] /\ r.err = "ok"
      BY DEF NoReply
    <2>2. pc[w] = "use" /\ UNCHANGED <<call, todo, failed>> /\ Answer(w, r)
      BY <1>13 DEF GetAttr, InUse
    <2> HIDE DEF r
    <2> QED
      BY <1>u, <1>12, <2>1, <2>2
  <1>l. CASE ReadLink(w)
    <2>1. pc[w] = "use" /\ UNCHANGED <<call, todo, failed>> /\ Answer(w, Ok(inode[w]))
      BY <1>l DEF ReadLink, InUse
    <2> HIDE DEF Ok
    <2> QED
      BY <1>u, <1>r, <1>12, <2>1
  <1>14. CASE WrongType(w)
    <2>1. /\ pc[w] = "use" /\ UNCHANGED <<call, todo, failed>>
          /\ \E r : Answer(w, r) /\ r.node = None /\ r.err \in {"inval", "not_dir"}
      BY <1>14 DEF WrongType, InUse, NoReply, Error
    <2> QED
      BY <1>u, <1>12, <2>1
  <1>15. CASE Open(w)
    <2>1. CASE GiveUp(w, "nomem")
      BY <1>g, <1>15, <2>1 DEF Open
    <2>2. CASE ~GiveUp(w, "nomem")
      <3>1. pc[w] = "use" /\ UNCHANGED <<call, todo, failed>> /\ Answer(w, Ok(inode[w]))
        BY <1>15, <2>2 DEF Open, InUse
      <3> HIDE DEF Ok
      <3> QED
        BY <1>u, <1>r, <1>12, <3>1
    <2> QED
      BY <2>1, <2>2
  <1>16. CASE ReadDirEntries(w)
    <2>1. CASE GiveUp(w, "io")
      BY <1>g, <1>16, <2>1 DEF ReadDirEntries
    <2>2. CASE ~GiveUp(w, "io")
      <3>1. /\ pc[w] = "use" /\ pc'[w] = "list" /\ entries'[w] = inode[w]
            /\ UNCHANGED <<call, todo, failed>>
        BY <1>f, <1>16, <2>2 DEF ReadDirEntries, InUse, Goto, List
      <3>2. Passed(w)' = Passed(w)
        BY <3>1 DEF Passed
      <3> QED
        BY <1>0, <3>1, <3>2 DEF OnItsWay, Held, Listing, ByPath
    <2> QED
      BY <2>1, <2>2
  <1>17. CASE FillDir(w)
    <2>1. CASE GiveUp(w, "nomem")
      BY <1>g, <1>17, <2>1 DEF FillDir
    <2>2. CASE ~GiveUp(w, "nomem")
      <3>1. pc[w] = "list" /\ UNCHANGED <<call, todo, failed>> /\ Answer(w, Ok(entries[w]))
        BY <1>17, <2>2 DEF FillDir
      <3> HIDE DEF Ok
      <3> QED
        BY <1>u, <1>r, <1>12, <3>1
    <2> QED
      BY <2>1, <2>2
  <1>18. CASE GetXattr(w)
    <2> DEFINE x == XattrIdx(inode[w])
    <2> DEFINE e == CASE x # NoXattr -> "not_found"
                      [] x = NoXattr /\ call[w].op = "getxattr" -> "nodata"
                      [] x = NoXattr /\ call[w].op = "listxattr" -> "ok"
    <2> DEFINE r == [NoReply EXCEPT !.node = inode[w], !.xattr = x, !.err = e]
    <2>1. r.node = inode[w]
      <3> HIDE DEF x, e
      <3> QED
        BY DEF NoReply
    <2>2. Answer(w, r)
      BY <1>18 DEF GetXattr
    <2> HIDE DEF r
    <2>3. pc[w] = "use" /\ UNCHANGED <<call, todo, failed>> /\ call[w].op \in XattrOps
      BY <1>18 DEF GetXattr, InUse, XattrOps
    <2> QED
      BY <1>u, <1>12, <2>1, <2>2, <2>3
  <1> QED
    BY <1>1, <1>2, <1>3, <1>4, <1>5, <1>6, <1>8, <1>9, <1>10, <1>11, <1>13, <1>l, <1>14, <1>15,
       <1>16, <1>17, <1>18 DEF Step, Resolve, Use

LEMMA PathNext == ASSUME OwnInv, PathInv, [Next]_vars PROVE PathInv'
  <1>1. ASSUME UNCHANGED <<pc, call, todo, inode, entries, reply, failed>> PROVE PathInv'
    BY <1>1, Undisturbed DEF PathInv
  <1>2. CASE UNCHANGED vars
    BY <1>1, <1>2 DEF vars
  <1>3. ASSUME NEW h \in Handles, Release(h) PROVE PathInv'
    BY <1>1, <1>3 DEF Release
  <1>4. ASSUME NEW w \in Workers,
               \/ \E op \in PathOps, p \in Paths : Ask(w, op, p)
               \/ \E h \in Handles : StartRead(w, h)
               \/ StatFs(w) \/ NoXattrs(w) \/ Step(w)
        PROVE  PathInv'
    <2>1. Only(w)
      BY <1>4, OnlyW
    <2>2. OnItsWay(w)'
      BY <1>4, WayStep
    <2>3. ASSUME NEW u \in Workers, u # w PROVE OnItsWay(u)'
      BY <2>1, <2>3, Undisturbed DEF Only, PathInv
    <2> QED
      BY <2>1, <2>2, <2>3 DEF Only, PathInv
  <1> QED
    BY <1>2, <1>3, <1>4 DEF Next

\* Every request is answered from the node its path names in the tree, with the
\* error that says why it names none, and only then, unless a call failed on
\* the way: for any tree, and whatever the other workers do.
THEOREM PathsCorrect == Spec => []AnswersThePath
  <1>1. Init => PathInv
    <2> SUFFICES ASSUME Init PROVE PathInv
      OBVIOUS
    <2>1. <<>> \in Seq(Names)
      OBVIOUS
    <2> QED
      BY <2>1 DEF Init, PathInv, OnItsWay, Held, Listing, ByPath, NoCall
  <1>2. PathInv => AnswersThePath
    BY DEF PathInv, OnItsWay, AnswersThePath, Right
  <1> QED
    BY <1>1, <1>2, OwnInit, OwnNext, PathNext, PTL DEF Spec

=============================================================================
