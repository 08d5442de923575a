---------------------------- MODULE MCFolderTree ----------------------------
(* Constants for checking FolderTree with TLC. *)
EXTENDS FolderTree, TLC

CONSTANTS c1, c2

\* Two clients that send everything.
MayBoth == [c \in {c1, c2} |-> Kind]

\* Two clients that move folders.
MayBothMove == [c \in {c1, c2} |-> {"createFolder", "updateFolder"}]

\* One deletes folders while the other moves albums.
MayMoveAndDelete ==
  c1 :> {"createFolder", "deleteFolder"} @@ c2 :> {"createAlbum", "updateAlbum"}

\* The folders are alike, and so are the clients when they may send the same.
Symmetry == Permutations(Folder) \cup Permutations({c1, c2})
=============================================================================
