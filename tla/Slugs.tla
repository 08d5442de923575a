-------------------------------- MODULE Slugs --------------------------------
(***************************************************************************)
(* The slug of an album or a folder, made from the name the user gave it   *)
(* (internal/api/slug.go), and the slugs that requests are routed by       *)
(* (validSlug of internal/api/access.go).                                  *)
(*                                                                         *)
(* A character of a name is one of its class: "a" a lowercase ASCII letter *)
(* or a digit, "A" an uppercase one, "mark" a combining mark, left by NFKD *)
(* where a letter had an accent, and " " anything else.                    *)
(***************************************************************************)
EXTENDS Naturals, SequencesExt

CONSTANT MaxSlugLen

\* "album" is never cut.
ASSUME SlugAssumption == MaxSlugLen \in Nat /\ MaxSlugLen >= 5

Class == {"a", "A", "mark", " "}

Trim(s) == LET kept == {i \in DOMAIN s : s[i] # "-"}
           IN IF kept = {} THEN <<>> ELSE SubSeq(s, Min(kept), Max(kept))

Cut(s) == SubSeq(s, 1, Min({Len(s), MaxSlugLen}))

\* One character after what has been written: letters are lowered, marks left
\* out, and a run of anything else is one dash.
Written(s, c) ==
  CASE c \in {"a", "A"} -> Append(s, "a")
    [] c = "mark"       -> s
    [] OTHER            -> IF s = <<>> \/ Last(s) = "-" THEN s ELSE Append(s, "-")

\* What the loop over the characters of a name has written at its end.
Spelled(name) ==
  LET done[n \in 0..Len(name)] == IF n = 0 THEN <<>> ELSE Written(done[n - 1], name[n])
  IN  done[Len(name)]

OrAlbum(s) == IF s = <<>> THEN [i \in 1..5 |-> "a"] ELSE s

\* Mutant of Slugify: a dash at the cut stays.
SlugifyCut(name) == OrAlbum(Cut(Trim(Spelled(name))))

\* A name that leaves nothing gets the slug "album".
Slugify(name) == OrAlbum(Trim(Cut(Trim(Spelled(name)))))

\* The slug that is tried next, with 4 random characters.
Suffixed(slug) == slug \o <<"-", "a", "a", "a", "a">>

\* Words of letters and digits with single dashes between them.
ValidSlug(s) ==
  /\ Len(s) <= MaxSlugLen + 5
  /\ s # <<>> /\ s[1] = "a" /\ Last(s) = "a"
  /\ \A i \in 1..Len(s) - 1 : s[i] = "a" \/ s[i + 1] = "a"
=============================================================================
