--------------------------------- MODULE Gc ---------------------------------
(***************************************************************************)
(* `smugbox admin gc` (cmd/smugbox/admin.go) next to a running server: a   *)
(* second process that lists the disk, reads the database and removes what *)
(* it found.  Uploads and deletions are taken apart into their system      *)
(* calls; a replaced original, which stays in its directory, is left out.  *)
(***************************************************************************)
EXTENDS Naturals, FiniteSets

CONSTANTS
  Photo,    \* photo ids, each for one upload
  Album,
  AlbumOf,  \* the album each of them is for
  MaxFaults \* bound: crashes, and calls that fail

ASSUME GcAssumption ==
  /\ Photo \cap Album = {}
  /\ AlbumOf \in [Photo -> Album]
  /\ MaxFaults \in Nat

VARIABLES
  disk,    \* what exists: directories and staging files
  full,    \* photo directories with an original in them
  row,     \* photos with a row
  albums,  \* albums with a row
  up,      \* how far each photo's upload or deletion is
  rm,      \* albums whose row is deleted and whose directory is about to be
  old,     \* what has not been modified for gcGrace
  stale,   \* what was old already at gc's `now`
  gc,      \* how far gc is
  todo,    \* albums it has still to list
  found,   \* photo and empty album directories it listed
  targets, \* what it is going to remove
  owed,    \* history: orphans that were old when gc began
  hollow,  \* history: albums whose directory a crash or a failure has left empty
  faults

upload == <<row, albums, up, rm>>
tool == <<gc, todo, found, targets, owed>>
trouble == <<hollow, faults>>
vars == <<disk, full, upload, old, stale, tool, trouble>>

AlbumDir(a) == <<"album", a>>
PhotoDir(p) == <<"photo", p>>
Staged(p) == <<"incoming", p>>
Entry == {AlbumDir(a) : a \in Album} \cup {PhotoDir(p) : p \in Photo}
           \cup {Staged(p) : p \in Photo}

\* The entries of an album's directory.
In(a, d) == {PhotoDir(p) : p \in {q \in Photo : AlbumOf[q] = a}} \cap d

Init ==
  /\ disk = {} /\ full = {} /\ row = {} /\ albums = Album
  /\ up = [p \in Photo |-> "new"] /\ rm = {}
  /\ old = {} /\ stale = {}
  /\ gc = "idle" /\ todo = {} /\ found = {} /\ targets = {} /\ owed = {}
  /\ hollow = {} /\ faults = 0

\* The disk becomes d; entries in t, and what is gone, are no longer old.
Disk(d, t) ==
  /\ disk' = d
  /\ old' = (old \cap d) \ t
  /\ stale' = (stale \cap d) \ t
  /\ full' = {p \in full : PhotoDir(p) \in d}

\* An entry d made or removed below the album's directory renews its mtime.
Above(p) == {AlbumDir(AlbumOf[p])}

\* A crash or a failed call; nobody is going to fill or to remove the directories of
\* the albums in A any more.
Fault(A) ==
  /\ faults < MaxFaults /\ faults' = faults + 1
  /\ hollow' = hollow \cup {a \in A : AlbumDir(a) \in disk /\ In(a, disk) = {}}

Step(p, from, to) == up[p] = from /\ up' = [up EXCEPT ![p] = to]
-----------------------------------------------------------------------------
(* The server                                                              *)

\* The upload is written to incoming/ while the request lasts.
Stage(p) ==
  /\ Step(p, "new", "staged") /\ AlbumOf[p] \in albums
  /\ Disk(disk \cup {Staged(p)}, {})
  /\ UNCHANGED <<row, albums, rm, tool, trouble>>

\* Commit: MkdirAll, one directory at a time ...
MakeAlbumDir(p) ==
  /\ Step(p, "staged", "mkdir")
  /\ Disk(disk \cup Above(p), {})
  /\ UNCHANGED <<row, albums, rm, tool, trouble>>

MakePhotoDir(p) ==
  /\ Step(p, "mkdir", "rename") /\ Above(p) \subseteq disk
  /\ Disk(disk \cup {PhotoDir(p)}, Above(p))
  /\ UNCHANGED <<row, albums, rm, tool, trouble>>

\* ... then the rename.
Rename(p) ==
  /\ Step(p, "rename", "insert") /\ {PhotoDir(p), Staged(p)} \subseteq disk
  /\ disk' = disk \ {Staged(p)}
  /\ full' = full \cup {p}
  /\ old' = old \ {PhotoDir(p), Staged(p)} /\ stale' = stale \ {PhotoDir(p), Staged(p)}
  /\ UNCHANGED <<row, albums, rm, tool, trouble>>

\* A directory was removed meanwhile, or the call fails otherwise: the upload is
\* aborted, and the directories it has made stay.
CommitFails(p) ==
  /\ \/ up[p] = "mkdir" /\ ~(Above(p) \subseteq disk) /\ UNCHANGED trouble
     \/ up[p] = "rename" /\ ~({PhotoDir(p), Staged(p)} \subseteq disk) /\ UNCHANGED trouble
     \/ up[p] = "mkdir" /\ Fault({AlbumOf[p]})
     \/ up[p] = "rename" /\ Fault({})
  /\ up' = [up EXCEPT ![p] = "done"]
  /\ Disk(disk \ {Staged(p)}, {})
  /\ UNCHANGED <<row, albums, rm, tool>>

\* InsertPhoto; the foreign key refuses it if the album has gone.
Insert(p) ==
  /\ \/ AlbumOf[p] \in albums /\ Step(p, "insert", "done") /\ row' = row \cup {p}
     \/ AlbumOf[p] \notin albums /\ Step(p, "insert", "rmphoto") /\ UNCHANGED row
  /\ UNCHANGED <<disk, full, albums, rm, old, stale, tool, trouble>>

\* Library.Remove: the row, and then as after a refused insert the directory ...
DeletePhoto(p) ==
  /\ p \in row /\ Step(p, "done", "rmphoto")
  /\ row' = row \ {p}
  /\ UNCHANGED <<disk, full, albums, rm, old, stale, tool, trouble>>

RemovePhotoDir(p) ==
  /\ Step(p, "rmphoto", "rmparent")
  /\ Disk(disk \ {PhotoDir(p)}, Above(p))
  /\ UNCHANGED <<row, albums, rm, tool, trouble>>

\* Either call may fail; what is left is gc's.
RemoveFails(p) ==
  /\ \/ Step(p, "rmphoto", "done") /\ Fault({})
     \/ Step(p, "rmparent", "done") /\ Fault({AlbumOf[p]})
  /\ UNCHANGED <<disk, full, row, albums, rm, old, stale, tool>>

\* Mutant of RemoveParent: it is not asked whether the directory is empty.
RemoveParentAlways(p) ==
  /\ Step(p, "rmparent", "done")
  /\ Disk(disk \ Above(p), {})
  /\ UNCHANGED <<row, albums, rm, tool, trouble>>

\* ... and the album's, which only succeeds when empty.
RemoveParent(p) ==
  /\ Step(p, "rmparent", "done")
  /\ Disk(IF In(AlbumOf[p], disk) = {} THEN disk \ Above(p) ELSE disk, {})
  /\ UNCHANGED <<row, albums, rm, tool, trouble>>

\* deleteAlbum: the row with those of its photos, then the whole directory,
\* which may fail.
DeleteAlbum(a) ==
  /\ a \in albums /\ albums' = albums \ {a} /\ rm' = rm \cup {a}
  /\ row' = {p \in row : AlbumOf[p] # a}
  /\ UNCHANGED <<disk, full, up, old, stale, tool, trouble>>

RemoveAlbumDir(a) ==
  /\ a \in rm /\ rm' = rm \ {a}
  /\ \/ Disk(disk \ (In(a, disk) \cup {AlbumDir(a)}), {}) /\ UNCHANGED trouble
     \/ Fault({a}) /\ UNCHANGED <<disk, full, old, stale>>
  /\ UNCHANGED <<row, albums, up, tool>>

\* The process dies and is started again; every request is lost.
Crash ==
  /\ Fault({AlbumOf[p] : p \in {q \in Photo : up[q] \in {"mkdir", "rmparent"}}} \cup rm)
  /\ up' = [p \in Photo |-> IF up[p] = "new" THEN "new" ELSE "done"] /\ rm' = {}
  /\ UNCHANGED <<disk, full, row, albums, old, stale, tool>>

\* An hour passes: longer than an upload takes between its steps (gcGrace).
Hour ==
  /\ \A p \in Photo : up[p] \in {"new", "done"}
  /\ gc = "idle" /\ old # disk
  /\ old' = disk
  /\ UNCHANGED <<disk, full, upload, stale, tool, trouble>>
-----------------------------------------------------------------------------
(* gc                                                                      *)

\* What no row, no request and no other directory accounts for.
Orphan(e) ==
  \/ \E p \in Photo : e = PhotoDir(p) /\ p \notin row /\ up[p] = "done"
  \/ \E p \in Photo : e = Staged(p) /\ up[p] = "done"
  \/ \E a \in Album : e = AlbumDir(a) /\ In(a, disk) = {}

Start ==
  /\ gc = "idle" /\ gc' = "walk"
  /\ stale' = old /\ owed' = {e \in old : Orphan(e)}
  /\ todo' = Album /\ found' = {} /\ targets' = {}
  /\ UNCHANGED <<disk, full, upload, old, trouble>>

\* Mutant of Walk: the mtime is not looked at.
WalkAnyAge(a) ==
  /\ gc = "walk" /\ a \in todo /\ todo' = todo \ {a}
  /\ found' = found \cup (IF In(a, disk) = {} THEN {AlbumDir(a)} \cap disk ELSE In(a, disk))
  /\ UNCHANGED <<disk, full, upload, old, stale, gc, targets, owed, trouble>>

\* One album's directory: its photos' directories, or itself when empty; what is
\* young is dropped here, as it is by Orphans.
Walk(a) ==
  /\ gc = "walk" /\ a \in todo /\ todo' = todo \ {a}
  /\ found' = found \cup (stale \cap IF In(a, disk) = {} THEN {AlbumDir(a)} ELSE In(a, disk))
  /\ UNCHANGED <<disk, full, upload, old, stale, gc, targets, owed, trouble>>

\* Mutant of ReadRefs: a photo is known if any photo of its album is.
ReadRefsByAlbum ==
  /\ gc = "walk" /\ todo = {} /\ gc' = "incoming"
  /\ targets' = {e \in found : \A p \in Photo :
                   e = PhotoDir(p) => \A q \in row : AlbumOf[q] # AlbumOf[p]}
  /\ UNCHANGED <<disk, full, upload, old, stale, todo, found, owed, trouble>>

\* ListPhotoRefs and Orphans.
ReadRefs ==
  /\ gc = "walk" /\ todo = {} /\ gc' = "incoming"
  /\ targets' = found \ {PhotoDir(p) : p \in row}
  /\ UNCHANGED <<disk, full, upload, old, stale, todo, found, owed, trouble>>

StaleIncoming ==
  /\ gc = "incoming" /\ gc' = "remove"
  /\ targets' = targets \cup (stale \cap {Staged(p) : p \in Photo})
  /\ UNCHANGED <<disk, full, upload, old, stale, todo, found, owed, trouble>>

\* os.RemoveAll of a target, whatever it holds by now; after a photo the album's
\* directory may be empty and is tried next.
RemoveTarget(e) ==
  /\ gc = "remove" /\ e \in targets /\ targets' = targets \ {e}
  /\ \E a \in Album :
       \/ e = AlbumDir(a) /\ Disk(disk \ (In(a, disk) \cup {e}), {}) /\ UNCHANGED <<gc, todo>>
       \/ \E p \in Photo : e = PhotoDir(p) /\ AlbumOf[p] = a
                           /\ Disk(disk \ {e}, {AlbumDir(a)}) /\ gc' = "parent" /\ todo' = {a}
       \/ \E p \in Photo : e = Staged(p) /\ AlbumOf[p] = a
                           /\ Disk(disk \ {e}, {}) /\ UNCHANGED <<gc, todo>>
  /\ UNCHANGED <<upload, found, owed, trouble>>

\* A failure is passed over.
RemoveEmptyParent(a) ==
  /\ gc = "parent" /\ todo = {a} /\ todo' = {} /\ gc' = "remove"
  /\ \/ Disk(IF In(a, disk) = {} THEN disk \ {AlbumDir(a)} ELSE disk, {}) /\ UNCHANGED trouble
     \/ Fault({a}) /\ UNCHANGED <<disk, full, old, stale>>
  /\ UNCHANGED <<upload, found, targets, owed>>

Report ==
  /\ gc = "remove" /\ targets = {} /\ gc' = "done"
  /\ UNCHANGED <<disk, full, upload, old, stale, todo, found, targets, owed, trouble>>

\* It has ended, or it is killed or stopped by an error half way.
Exit ==
  /\ gc # "idle" /\ gc' = "idle"
  /\ IF gc = "done" THEN UNCHANGED trouble
     ELSE Fault(IF gc = "parent" THEN todo ELSE {})
  /\ stale' = {} /\ todo' = {} /\ found' = {} /\ targets' = {} /\ owed' = {}
  /\ UNCHANGED <<disk, full, upload, old>>

Next ==
  \/ \E p \in Photo : \/ Stage(p) \/ MakeAlbumDir(p) \/ MakePhotoDir(p) \/ Rename(p)
                      \/ CommitFails(p) \/ Insert(p) \/ DeletePhoto(p)
                      \/ RemovePhotoDir(p) \/ RemoveFails(p) \/ RemoveParent(p)
  \/ \E a \in Album : \/ DeleteAlbum(a) \/ RemoveAlbumDir(a)
                      \/ Walk(a) \/ RemoveEmptyParent(a)
  \/ Crash \/ Hour
  \/ Start \/ ReadRefs \/ StaleIncoming \/ Report \/ Exit
  \/ \E e \in Entry : RemoveTarget(e)

Spec == Init /\ [][Next]_vars
-----------------------------------------------------------------------------
\* Types, and the shape of the disk: a photo's directory is in its album's.
TypeOK ==
  /\ disk \subseteq Entry /\ old \subseteq disk /\ stale \subseteq disk
  /\ full \subseteq Photo /\ row \subseteq Photo
  /\ albums \subseteq Album /\ rm \subseteq Album \ albums
  /\ up \in [Photo -> {"new", "staged", "mkdir", "rename", "insert", "done",
                       "rmphoto", "rmparent"}]
  /\ gc \in {"idle", "walk", "incoming", "remove", "parent", "done"}
  /\ todo \subseteq Album /\ found \subseteq Entry /\ targets \subseteq Entry
  /\ owed \subseteq Entry /\ hollow \subseteq Album /\ faults \in 0..MaxFaults
  /\ \A p \in Photo : PhotoDir(p) \in disk => Above(p) \subseteq disk

\* "Safe to run while the server is up" (admin.go:261-262): no photo that has a
\* row has lost its original.
SafeWhileUp == row \subseteq full

\* As far as that is true: gc, which lists the disk, reads the database later and removes
\* later still, takes a living photo's original only from an album whose directory
\* a crash or a failed call had left empty.
LiveFilesKept == \A p \in row : p \in full \/ AlbumOf[p] \in hollow

\* When gc reports success, nothing is left of what was orphaned and old when it
\* began, unless somebody has used it since.
GcFinishes == gc = "done" => owed \cap stale = {}
=============================================================================
