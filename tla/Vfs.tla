-------------------------------- MODULE Vfs --------------------------------
(***************************************************************************)
(* The operations of src/vfs/vfs_ops.c behind their FUSE callbacks         *)
(* (src/fuse/vfs_fuse.c): every request but read, release and statfs       *)
(* resolves its path from the root, one component at a time, loading and   *)
(* freeing an inode and a directory listing on the way; what it then does  *)
(* depends on the type of the inode it arrives at.  An open file keeps its *)
(* inode in a handle until it is released.                                 *)
(*                                                                         *)
(* Workers of the FUSE loop run these requests concurrently.  Metadata and *)
(* Directory model how inodes and listings are read from the image,        *)
(* DataRead how a file is: here each of those calls succeeds or fails.     *)
(***************************************************************************)
EXTENDS Integers, Sequences, FiniteSets

CONSTANTS
  Workers, Handles,
  Nodes, Root,
  Kind,        \* [Nodes -> type of the inode]
  Children,    \* [Nodes -> [names -> Nodes]], empty but for directories
  Uid,         \* [Nodes -> position of the owner in the ID table]
  Xattr,       \* [Nodes -> index in the xattr table, or NoXattr]
  Ids,         \* the ID table
  NoXattr,     \* 0xFFFFFFFF
  HasXattrs,   \* the values sb->has_xattrs may have
  Names,       \* components of paths
  Paths,       \* what is asked for: sequences of names
  None

ASSUME VfsTypes ==
  /\ IsFiniteSet(Workers) /\ IsFiniteSet(Handles)
  /\ Root \in Nodes /\ None \notin Nodes \union Handles
  /\ \A n \in Nodes : \A c \in DOMAIN Children[n] : Children[n][c] \in Nodes
  /\ Paths \subseteq Seq(Names)

VARIABLES
  has_xattrs, \* of the superblock
  pc,        \* per worker: "idle", "root", "walk", "find", "use", "list", "read", "reply"
  call,      \* [op, path]
  todo,      \* components still to walk
  inode,     \* the inode the worker owns, or None
  entries,   \* the directory whose entries it owns, or None
  reading,   \* the handle it reads from, or None
  reply,     \* [err, node, uid, xattr]
  failed,    \* history: I/O or an allocation failed on the way
  handles,   \* [Handles -> the inode kept, or None]
  inodes, arrays  \* live inodes and arrays of entries on the heap

vars == <<has_xattrs, pc, call, todo, inode, entries, reading, reply, failed, handles, inodes, arrays>>
walking == <<call, todo, inode, entries, inodes, arrays>>

NoCall  == [op |-> "none", path |-> <<>>]
NoReply == [err |-> "none", node |-> None, uid |-> None, xattr |-> None]

IsDir(n)     == Kind[n] \in {"dir", "ldir"}
IsFile(n)    == Kind[n] \in {"file", "lfile"}
IsSymlink(n) == Kind[n] \in {"symlink", "lsymlink"}

PathOps == {"getattr", "open", "readdir", "readlink", "getxattr", "listxattr"}

-----------------------------------------------------------------------------
Init ==
  /\ has_xattrs \in HasXattrs
  /\ pc = [w \in Workers |-> "idle"]
  /\ call = [w \in Workers |-> NoCall]
  /\ todo = [w \in Workers |-> <<>>]
  /\ inode = [w \in Workers |-> None]
  /\ entries = [w \in Workers |-> None]
  /\ reading = [w \in Workers |-> None]
  /\ reply = [w \in Workers |-> NoReply]
  /\ failed = [w \in Workers |-> FALSE]
  /\ handles = [h \in Handles |-> None]
  /\ inodes = 0 /\ arrays = 0

Goto(w, label) == pc' = [pc EXCEPT ![w] = label]

\* The worker owns inode n from now on (None: it has freed or given away its own).
Own(w, n) == inode' = [inode EXCEPT ![w] = n]
List(w, n) == entries' = [entries EXCEPT ![w] = n]

Answer(w, r) == Goto(w, "reply") /\ reply' = [reply EXCEPT ![w] = r]
Error(e) == [NoReply EXCEPT !.err = e]

\* Some call fails, and the worker gives up with e.
GiveUp(w, e) == Answer(w, Error(e)) /\ failed' = [failed EXCEPT ![w] = TRUE]

\* sqfs_inode_free of the inode the worker owns.
FreeInode(w) == Own(w, None) /\ inodes' = inodes - 1

\* Extended attributes of an image that has none are refused outright.
Ask(w, op, path) ==
  /\ pc[w] = "idle"
  /\ op \in {"getxattr", "listxattr"} => has_xattrs
  /\ call' = [call EXCEPT ![w] = [op |-> op, path |-> path]]
  /\ todo' = [todo EXCEPT ![w] = path]
  /\ Goto(w, "root")
  /\ UNCHANGED <<has_xattrs, inode, entries, reading, reply, failed, handles, inodes, arrays>>

NoXattrs(w) ==
  /\ pc[w] = "idle" /\ ~has_xattrs
  /\ Answer(w, Error("nosup"))
  /\ UNCHANGED <<has_xattrs, walking, reading, failed, handles>>

Replied(w) ==
  /\ pc[w] = "reply"
  /\ Goto(w, "idle")
  /\ call' = [call EXCEPT ![w] = NoCall]
  /\ todo' = [todo EXCEPT ![w] = <<>>]
  /\ reply' = [reply EXCEPT ![w] = NoReply]
  /\ failed' = [failed EXCEPT ![w] = FALSE]
  /\ UNCHANGED <<has_xattrs, inode, entries, reading, handles, inodes, arrays>>

-----------------------------------------------------------------------------
(***************************************************************************)
(* sqfs_vfs_resolve_path                                                   *)
(***************************************************************************)
LoadRoot(w) ==
  /\ pc[w] = "root"
  /\ Own(w, Root) /\ inodes' = inodes + 1
  /\ Goto(w, IF todo[w] = <<>> THEN "use" ELSE "walk")
  /\ UNCHANGED <<has_xattrs, call, todo, entries, reading, reply, failed, handles, arrays>>

\* The root cannot be loaded; or the path not be copied, and the root is freed.
RootFails(w) ==
  /\ pc[w] = "root"
  /\ \/ GiveUp(w, "io")
     \/ todo[w] # <<>> /\ GiveUp(w, "nomem")
  /\ UNCHANGED <<has_xattrs, walking, reading, handles>>

NotADir(w) ==
  /\ pc[w] = "walk" /\ ~IsDir(inode[w])
  /\ FreeInode(w)
  /\ Answer(w, Error("not_dir"))
  /\ UNCHANGED <<has_xattrs, call, todo, entries, reading, failed, handles, arrays>>

\* Mutant: the walk starts again when a directory cannot be read.
ReadDirRestarts(w) ==
  /\ pc[w] = "walk" /\ IsDir(inode[w])
  /\ FreeInode(w)
  /\ \/ List(w, inode[w]) /\ arrays' = arrays + 1
        /\ Goto(w, "find") /\ UNCHANGED todo
     \/ Goto(w, "root") /\ todo' = [todo EXCEPT ![w] = call[w].path]
        /\ UNCHANGED <<entries, arrays>>
  /\ UNCHANGED <<has_xattrs, call, reading, reply, failed, handles>>

\* sqfs_dir_read; the directory's inode is freed whether it fails or not.
ReadDir(w) ==
  /\ pc[w] = "walk" /\ IsDir(inode[w])
  /\ FreeInode(w)
  /\ \/ List(w, inode[w]) /\ arrays' = arrays + 1
        /\ Goto(w, "find") /\ UNCHANGED <<reply, failed>>
     \/ GiveUp(w, "io") /\ UNCHANGED <<entries, arrays>>
  /\ UNCHANGED <<has_xattrs, call, todo, reading, handles>>

\* Mutant: the entries are not freed.
EntriesKept(w) == UNCHANGED <<entries, arrays>>

\* sqfs_dirent_free
FreeEntries(w) == List(w, None) /\ arrays' = arrays - 1

Listed(w) == Head(todo[w]) \in DOMAIN Children[entries[w]]

\* Mutant: a name that is not there ends the walk at the directory.
FindStays(w) ==
  /\ pc[w] = "find"
  /\ LET n == IF Listed(w) THEN Children[entries[w]][Head(todo[w])] ELSE entries[w]
     IN  Own(w, n)
  /\ inodes' = inodes + 1
  /\ FreeEntries(w)
  /\ todo' = [todo EXCEPT ![w] = Tail(@)]
  /\ Goto(w, IF Tail(todo[w]) = <<>> THEN "use" ELSE "walk")
  /\ UNCHANGED <<has_xattrs, call, reading, reply, failed, handles>>

\* The component is found and its inode loaded.
Find(w) ==
  /\ pc[w] = "find" /\ Listed(w)
  /\ Own(w, Children[entries[w]][Head(todo[w])]) /\ inodes' = inodes + 1
  /\ FreeEntries(w)
  /\ todo' = [todo EXCEPT ![w] = Tail(@)]
  /\ Goto(w, IF Tail(todo[w]) = <<>> THEN "use" ELSE "walk")
  /\ UNCHANGED <<has_xattrs, call, reading, reply, failed, handles>>

\* It is not there; or it is, but its inode cannot be loaded: found stays 0.
FindFails(w) ==
  /\ pc[w] = "find"
  /\ FreeEntries(w)
  /\ \/ ~Listed(w) /\ Answer(w, Error("not_found")) /\ UNCHANGED failed
     \/ Listed(w) /\ GiveUp(w, "not_found")
  /\ UNCHANGED <<has_xattrs, call, todo, inode, inodes, reading, handles>>

-----------------------------------------------------------------------------
(***************************************************************************)
(* What the requests do with the inode.                                    *)
(***************************************************************************)
InUse(w, ops) == pc[w] = "use" /\ call[w].op \in ops

\* sqfs_vfs_fill_attr: the owner is the position parse_inode found in the inode.
OwnerOf(n) == Uid[n]

GetAttr(w) ==
  /\ InUse(w, {"getattr"})
  /\ FreeInode(w)
  /\ Answer(w, [NoReply EXCEPT !.err = "ok", !.node = inode[w], !.uid = OwnerOf(inode[w])])
  /\ UNCHANGED <<has_xattrs, call, todo, entries, reading, failed, handles, arrays>>

\* The inode is not of the type the request is for.
WrongType(w) ==
  /\ \/ InUse(w, {"open"}) /\ ~IsFile(inode[w]) /\ Answer(w, Error("inval"))
     \/ InUse(w, {"readlink"}) /\ ~IsSymlink(inode[w]) /\ Answer(w, Error("inval"))
     \/ InUse(w, {"readdir"}) /\ ~IsDir(inode[w]) /\ Answer(w, Error("not_dir"))
  /\ FreeInode(w)
  /\ UNCHANGED <<has_xattrs, call, todo, entries, reading, failed, handles, arrays>>

\* sqfs_vfs_open: the handle takes over the inode, or cannot be allocated.
Open(w) ==
  /\ InUse(w, {"open"}) /\ IsFile(inode[w])
  /\ \/ \E h \in Handles :
          /\ handles[h] = None
          /\ handles' = [handles EXCEPT ![h] = inode[w]]
          /\ Own(w, None) /\ UNCHANGED inodes
          /\ Answer(w, [NoReply EXCEPT !.err = "ok", !.node = inode[w]])
          /\ UNCHANGED failed
     \/ FreeInode(w) /\ GiveUp(w, "nomem") /\ UNCHANGED handles
  /\ UNCHANGED <<has_xattrs, call, todo, entries, reading, arrays>>

ReadLink(w) ==
  /\ InUse(w, {"readlink"}) /\ IsSymlink(inode[w])
  /\ FreeInode(w)
  /\ Answer(w, [NoReply EXCEPT !.err = "ok", !.node = inode[w]])
  /\ UNCHANGED <<has_xattrs, call, todo, entries, reading, failed, handles, arrays>>

\* sqfs_vfs_readdir: the entries, and the inode freed.
ReadDirEntries(w) ==
  /\ InUse(w, {"readdir"}) /\ IsDir(inode[w])
  /\ FreeInode(w)
  /\ \/ List(w, inode[w]) /\ arrays' = arrays + 1
        /\ Goto(w, "list") /\ UNCHANGED <<reply, failed>>
     \/ GiveUp(w, "io") /\ UNCHANGED <<entries, arrays>>
  /\ UNCHANGED <<has_xattrs, call, todo, reading, handles>>

\* They are converted (their names move to the new array), given to the kernel
\* and freed; or the new array cannot be allocated and the old one is freed.
FillDir(w) ==
  /\ pc[w] = "list"
  /\ FreeEntries(w)
  /\ \/ Answer(w, [NoReply EXCEPT !.err = "ok", !.node = entries[w]]) /\ UNCHANGED failed
     \/ GiveUp(w, "nomem")
  /\ UNCHANGED <<has_xattrs, call, todo, inode, inodes, reading, handles>>

\* The xattr index in the inode structure: parse_inode_dir and
\* parse_inode_symlink leave it at the zero of calloc.
XattrIdx(n) == IF Kind[n] \in {"dir", "symlink"} THEN 0 ELSE Xattr[n]

\* sqfs_vfs_getxattr and _listxattr.  The xattr table is never loaded, so
\* sqfs_xattr_get and _list answer any index with NOT_FOUND.
GetXattr(w) ==
  /\ InUse(w, {"getxattr", "listxattr"})
  /\ FreeInode(w)
  /\ LET x == XattrIdx(inode[w]) IN
     Answer(w, [NoReply EXCEPT !.node = inode[w], !.xattr = x, !.err =
       CASE x # NoXattr -> "not_found"
         [] x = NoXattr /\ call[w].op = "getxattr" -> "nodata"
         [] x = NoXattr /\ call[w].op = "listxattr" -> "ok"])
  /\ UNCHANGED <<has_xattrs, call, todo, entries, reading, failed, handles, arrays>>

-----------------------------------------------------------------------------
(***************************************************************************)
(* Requests on an open file.  The kernel sends release once, after the     *)
(* last read of the handle has been answered.                              *)
(***************************************************************************)
StartRead(w, h) ==
  /\ pc[w] = "idle" /\ handles[h] # None
  /\ Goto(w, "read")
  /\ reading' = [reading EXCEPT ![w] = h]
  /\ UNCHANGED <<has_xattrs, walking, reply, failed, handles>>

\* sqfs_vfs_read
EndRead(w) ==
  /\ pc[w] = "read"
  /\ reading' = [reading EXCEPT ![w] = None]
  /\ \/ Answer(w, [NoReply EXCEPT !.err = "ok", !.node = handles[reading[w]]]) /\ UNCHANGED failed
     \/ GiveUp(w, "io")
  /\ UNCHANGED <<has_xattrs, walking, handles>>

\* sqfs_vfs_release
Release(h) ==
  /\ handles[h] # None
  /\ \A w \in Workers : reading[w] # h
  /\ handles' = [handles EXCEPT ![h] = None]
  /\ inodes' = inodes - 1
  /\ UNCHANGED <<has_xattrs, pc, call, todo, inode, entries, reading, reply, failed, arrays>>

\* sqfs_vfs_statfs looks at the superblock only.
StatFs(w) ==
  /\ pc[w] = "idle"
  /\ Answer(w, [NoReply EXCEPT !.err = "ok", !.node = Root])
  /\ UNCHANGED <<has_xattrs, walking, reading, failed, handles>>

-----------------------------------------------------------------------------
Resolve(w) == LoadRoot(w) \/ RootFails(w) \/ NotADir(w) \/ ReadDir(w) \/ Find(w) \/ FindFails(w)

Use(w) ==
  \/ GetAttr(w) \/ WrongType(w) \/ Open(w) \/ ReadLink(w)
  \/ ReadDirEntries(w) \/ FillDir(w) \/ GetXattr(w)

Step(w) == Resolve(w) \/ Use(w) \/ EndRead(w) \/ Replied(w)

Next ==
  \/ \E w \in Workers :
       \/ \E op \in PathOps, p \in Paths : Ask(w, op, p)
       \/ \E h \in Handles : StartRead(w, h)
       \/ StatFs(w)
       \/ NoXattrs(w)
       \/ Step(w)
  \/ \E h \in Handles : Release(h)

Spec == Init /\ [][Next]_vars

FairSpec == Spec /\ \A w \in Workers : WF_vars(Step(w))

-----------------------------------------------------------------------------
(***************************************************************************)
(* The tree as a reader of the image sees it.                              *)
(***************************************************************************)
\* s follows the first k components of the path down the tree.
Follows(s, path, k) ==
  /\ s[0] = Root
  /\ \A i \in 1 .. k : /\ IsDir(s[i - 1])
                       /\ path[i] \in DOMAIN Children[s[i - 1]]
                       /\ s[i] = Children[s[i - 1]][path[i]]

\* The nodes at the end of the first k components: one, or none.
Reached(path, k) == {n \in Nodes : \E s \in [0 .. k -> Nodes] : Follows(s, path, k) /\ s[k] = n}

\* What the path names.
Named(path) == Reached(path, Len(path))

\* The path leads nowhere, for reason err: one of its components is looked up
\* in what is not a directory, or is not in the directory.
LeadsNowhere(path, err) ==
  \E k \in 0 .. Len(path) - 1 : \E n \in Reached(path, k) :
    \/ err = "not_dir" /\ ~IsDir(n)
    \/ err = "not_found" /\ IsDir(n) /\ path[k + 1] \notin DOMAIN Children[n]

XattrOps == {"getxattr", "listxattr"}

ByPath(w) == pc[w] = "reply" /\ call[w].op \in PathOps

\* A request is answered from the inode its path names in the tree, whatever
\* the other workers do; and unless something failed on the way, a path that
\* leads nowhere gets the error that says why, and no other is said not to be
\* there (sqfs_vfs_resolve_path).
AnswersThePath ==
  \A w \in Workers : ByPath(w) =>
    LET path == call[w].path IN
    /\ reply[w].node # None => reply[w].node \in Named(path)
    /\ ~failed[w] => \A e \in {"not_dir", "not_found"} :
                       LeadsNowhere(path, e) => reply[w].err = e
    /\ ~failed[w] /\ reply[w].err = "not_found" /\ call[w].op \notin XattrOps =>
         LeadsNowhere(path, "not_found")

\* Every inode on the heap is owned by one worker or one open handle, every
\* array of entries by one worker: no error path loses one, no hand-over leaves
\* two owners, and a worker that has answered holds nothing (sqfs_inode_free,
\* sqfs_vfs_open, sqfs_vfs_release, sqfs_dirent_free).
OwnedOnce ==
  /\ inodes = Cardinality({w \in Workers : inode[w] # None})
              + Cardinality({h \in Handles : handles[h] # None})
  /\ arrays = Cardinality({w \in Workers : entries[w] # None})
  /\ \A w \in Workers : pc[w] \in {"idle", "reply"} => inode[w] = None /\ entries[w] = None

\* Every request is answered: a walk ends.
EveryRequestAnswered ==
  \A w \in Workers : pc[w] # "idle" ~> pc[w] = "reply"

\* "No such file or directory" is said only of what the tree does not have.
\* (The code does not keep this: README, section 6.)
NotFoundMeansAbsent ==
  \A w \in Workers : ByPath(w) /\ call[w].op \notin XattrOps =>
    (reply[w].err = "not_found" => LeadsNowhere(call[w].path, "not_found"))

\* The owner shown for a file is the one the ID table gives its inode.
\* (The code does not keep this: README, section 6.)
OwnerResolved ==
  \A w \in Workers : reply[w].uid # None => reply[w].uid = Ids[Uid[reply[w].node] + 1]

\* The xattr table is asked for the attributes of the inode, and not at all for
\* an inode that has none.
\* (The code does not keep this: README, section 6.)
XattrsOfTheInode ==
  \A w \in Workers : reply[w].xattr # None => reply[w].xattr = Xattr[reply[w].node]

=============================================================================
