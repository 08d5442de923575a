----------------------------- MODULE ZipDownload -----------------------------
(***************************************************************************)
(* The names of the files in an album's zip (downloadAlbum, uniqueZipName  *)
(* of internal/api/download.go): the photos come in any order and under any*)
(* names, and each is written under a name of its own as it comes.         *)
(***************************************************************************)
EXTENDS Naturals, FiniteSets, Sequences

CONSTANTS
  FileName,   \* a name in capitals or not, and the numbers after it: a-2-3.jpg
  MaxPhotos   \* bound on the photos of an album

ASSUME ZipAssumption ==
  /\ FileName \subseteq [capitals : BOOLEAN, numbers : Seq(Nat)]
  /\ MaxPhotos \in Nat

VARIABLES
  seen,    \* how often each lowercase name has been seen
  entries  \* the zip so far

zip == <<seen, entries>>

ZipInit == seen = <<>> /\ entries = <<>>

Lower(name) == name.numbers

Times(table, key) == IF key \in DOMAIN table THEN table[key] ELSE 0

With(table, key, n) ==
  [k \in DOMAIN table \cup {key} |-> IF k = key THEN n ELSE table[k]]

Counted(key) == With(seen, key, Times(seen, key) + 1)

Numbered(name, i) == [capitals |-> name.capitals, numbers |-> Append(name.numbers, i)]

\* The numbers that make a name not seen yet, from how many there are of it on;
\* so many are enough to find one among.
Free(key) ==
  LET n == Times(seen, key)
  IN {i \in n + 1..n + 1 + Cardinality(DOMAIN seen) : Times(seen, Append(key, i)) = 0}

First(numbers, i) == i \in numbers /\ \A j \in numbers : i <= j

\* The first photo of a name keeps it.
KeepName(name) ==
  /\ Times(seen, Lower(name)) = 0
  /\ seen' = Counted(Lower(name))
  /\ entries' = Append(entries, name)

\* Mutant of AddNumber: the name that was made up is not remembered.
AddNumberOnly(name) ==
  LET key == Lower(name)
  IN /\ Times(seen, key) > 0
     /\ \E i \in Free(key) :
          /\ First(Free(key), i)
          /\ seen' = Counted(key)
          /\ entries' = Append(entries, Numbered(name, i))

\* Another one gets a number, and the name it makes counts as seen.
AddNumber(name) ==
  LET key == Lower(name)
  IN /\ Times(seen, key) > 0
     /\ \E i \in Free(key) :
          /\ First(Free(key), i)
          /\ seen' = With(Counted(key), Append(key, i), 1)
          /\ entries' = Append(entries, Numbered(name, i))

ZipNext == /\ Len(entries) < MaxPhotos
           /\ \E name \in FileName : KeepName(name) \/ AddNumber(name)

ZipSpec == ZipInit /\ [][ZipNext]_zip
-----------------------------------------------------------------------------
\* The files of a zip have different names, in whatever case, even when photos
\* are named as others have been renamed ("disambiguates repeated file names
\* (case-insensitively)", download.go:92): unpacking it loses no photo.
ZipNamesDiffer ==
  \A i, j \in DOMAIN entries : Lower(entries[i]) = Lower(entries[j]) => i = j
=============================================================================
