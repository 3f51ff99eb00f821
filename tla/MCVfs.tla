------------------------------- MODULE MCVfs -------------------------------
(* Instances of Vfs for TLC: a tree with a directory of each kind, a file,  *)
(* a symbolic link and an extended directory one level down.                *)
EXTENDS Vfs

MCNodes == {"root", "dir", "file", "link"}

MCKind == [root |-> "dir", dir |-> "ldir", file |-> "file", link |-> "symlink"]

MCChildren ==
  [root |-> [d |-> "dir", l |-> "link"], dir |-> [f |-> "file"], file |-> <<>>, link |-> <<>>]

MCUid == [root |-> 0, dir |-> 0, file |-> 1, link |-> 1]
MCIds == <<1000, 1001>>

\* The extended directory is the only inode with attributes.
MCXattr == [root |-> 99, dir |-> 0, file |-> 99, link |-> 99]

MCNames == {"d", "f", "l", "x"}

\* The root; a file two levels down; a link; a name that is not there, at the
\* end and on the way; and a component below what is not a directory.
MCPaths ==
  {<<>>, <<"d", "f">>, <<"l">>, <<"x">>, <<"x", "f">>, <<"d", "f", "f">>}

=============================================================================
