------------------------------ MODULE PhotoLife ------------------------------
(***************************************************************************)
(* What the photo library promises its visitors, without uploads, locks,   *)
(* files or workers: a photo is absent, hidden, or shows one picture.  A   *)
(* picture on show is never exchanged for another one: the photo is hidden *)
(* first (library.go:1-3, db/photos.go:28-30).  PhotoLibrary implements    *)
(* this module.                                                            *)
(***************************************************************************)

CONSTANTS
  Photo,    \* photo ids
  Content,  \* pictures a photo can show
  Unit      \* the sets of photos deleted together (one photo, one album)

VARIABLE life

Life == Content \cup {"absent", "hidden"}

\* The server may start on an existing library.
Init == life \in [Photo -> Content \cup {"absent"}]

Upload(p) == /\ life[p] = "absent"
             /\ life' = [life EXCEPT ![p] = "hidden"]

Hide(p) == /\ life[p] \in Content
           /\ life' = [life EXCEPT ![p] = "hidden"]

Show(p, c) == /\ life[p] = "hidden"
              /\ life' = [life EXCEPT ![p] = c]

Drop(P) == life' = [p \in Photo |-> IF p \in P THEN "absent" ELSE life[p]]

Next == \/ \E p \in Photo : Upload(p) \/ Hide(p) \/ \E c \in Content : Show(p, c)
        \/ \E P \in Unit : Drop(P)

Spec == Init /\ [][Next]_life
=============================================================================
