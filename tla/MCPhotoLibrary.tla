--------------------------- MODULE MCPhotoLibrary ---------------------------
(* Instances of PhotoLibrary small enough for TLC. *)
EXTENDS PhotoLibrary, TLC

CONSTANTS p1, p2, a1, l1, l2, jpg1, jpg2, mov1

\* One album; jpg1 is wide, jpg2 is not, mov1 is a video.
MCAlbumOf == [p \in Photo |-> a1]
MCKindOf == [c \in Content |->
  IF c = mov1 THEN "original.mov" ELSE "original.jpg"]
MCWide == Content \ {jpg2}

Symmetry == Permutations(Request)
=============================================================================
