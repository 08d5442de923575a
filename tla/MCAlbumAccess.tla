---------------------------- MODULE MCAlbumAccess ----------------------------
(* Instances of AlbumAccess and ZipDownload small enough for TLC. *)
EXTENDS AlbumAccess, ZipDownload

CONSTANTS a1, a2, a3, s1, s2, home, proxy, forged

\* a2 is created under the slug of a1 when that has gone.
MCSlugOf == a1 :> s1 @@ a2 :> s1 @@ a3 :> s2
MCAddressOf == [b \in Browser |-> home]
MCKey == {home, forged} \X {s1, s2}

\* A PUT that sets or clears the password, one that changes something else, and
\* the same by the CLI.
MCChange == [pw : Password \cup {"clear"}, relist : {FALSE}, cli : BOOLEAN]
            \cup [pw : {"keep"}, relist : {TRUE}, cli : {FALSE}]

MCFileName == [capitals : BOOLEAN, numbers : {<<>>, <<2>>, <<3>>, <<2, 2>>}]

\* A zip shares no state with the rest: it is enough to write one while nothing
\* else has begun, with no album in the table.
Apart == Live = {} /\ now = 0 /\ restarts = 0 /\ \A x \in Writer \cup Attempt : at[x] = "start"

\* a1 and a2 differ in nothing but their names: a1 comes first.
InOrder == a2 \in used => a1 \in used

MCInit == Init /\ ZipInit
MCNext == \/ entries = <<>> /\ Next /\ UNCHANGED zip
          \/ Apart /\ ZipNext /\ UNCHANGED vars
MCSpec == MCInit /\ [][MCNext]_<<vars, zip>>

Symmetry == Permutations(Writer) \cup Permutations(Attempt) \cup Permutations(Password)
=============================================================================
