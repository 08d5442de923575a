----------------------------- MODULE PhotoVisits -----------------------------
(***************************************************************************)
(* Who reads the library while it changes: a visitor's request for a photo *)
(* or a zip (getPhotoVariant, albumCover, downloadAlbum and serveVariant   *)
(* of internal/api), and a backup (deploy/backup.sh).  Each reads the      *)
(* photos table first and opens the files afterwards, one by one, without  *)
(* a lock.                                                                 *)
(***************************************************************************)
EXTENDS PhotoLibrary

VARIABLES
  read,  \* the rows whose files the reader is still going to open
  since  \* history: the hashes a row has had since it was read, and None if it had gone

visit == <<read, since>>
NothingRead == [p \in Photo |-> None]
Hashes(table) == [p \in Photo |-> IF table[p] = None THEN {None} ELSE {table[p].hash}]

VisitInit == read = NothingRead /\ since = [p \in Photo |-> {}]

Read(found) ==
  /\ read = NothingRead
  /\ read' = [p \in Photo |-> IF p \in found THEN rows[p] ELSE None]
  /\ since' = [p \in Photo |-> IF p \in found THEN Hashes(rows)[p] ELSE {}]
  /\ UNCHANGED vars

\* GetPhoto of a photo that is ready; or the cover found among those.
ViewPhoto(p) == Ready(p) /\ Read({p})

\* ListReadyPhotos, for the zip.
DownloadAlbum(a) ==
  /\ \E p \in Photo : AlbumOf[p] = a /\ Ready(p)
  /\ Read({p \in Photo : AlbumOf[p] = a /\ Ready(p)})

\* VACUUM INTO: the whole table.
Snapshot == Read({p \in Photo : rows[p] # None})

\* The files of a photo have been opened, or copied: those that were there.
ReadFiles(p) ==
  /\ read[p] # None
  /\ read' = [read EXCEPT ![p] = None]
  /\ since' = [since EXCEPT ![p] = {}]
  /\ UNCHANGED vars

Visit == \/ \E p \in Photo : ViewPhoto(p) \/ ReadFiles(p)
         \/ \E a \in Album : DownloadAlbum(a)
         \/ Snapshot

\* The library goes on meanwhile.
Beside == /\ Next
          /\ since' = [p \in Photo |-> IF read[p] = None THEN {}
                                       ELSE since[p] \cup Hashes(rows')[p]]
          /\ UNCHANGED read

VisitSpec == Init /\ VisitInit /\ [][Visit \/ Beside]_<<vars, visit>>
-----------------------------------------------------------------------------
\* Whatever is uploaded, deleted and rendered between the reading of a row and
\* the opening of its files, and whatever fails: an original is missing only
\* when the photo has been deleted or has got another kind of file since, and a
\* rendition of a photo that was ready only when it has been deleted, or, if it
\* is the large one, been replaced by one that is too small for it ("photo file
\* missing on disk" photos.go:71, "zip: original missing" download.go:70; the
\* copy of photos/ that backup.sh:30 makes after the snapshot).
FilesFound ==
  \A p \in Photo : read[p] # None /\ None \notin since[p] =>
    LET h == read[p].hash
    IN /\ files[p][KindOf[h]] = None => \E g \in since[p] : KindOf[g] # KindOf[h]
       /\ read[p].ready => \A v \in Renditions(h) :
            files[p][v] = None => v = "large" /\ since[p] \ Wide # {}

\* The ETag, content_hash of the row read, names what is sent with it
\* (photos.go:91, albums_test.go:173-178), unless the photo has been replaced
\* or deleted since, or is just being replaced, or a crash or failure came
\* between a replacement and its row.
ETagNamesFile ==
  faults = 0 => \A p \in Photo : read[p] # None /\ read[p].ready =>
    LET h == read[p].hash
    IN \/ since[p] # {h}
       \/ \E r \in Request : at[r] = "write" /\ photo[r] = p /\ req[r].file # None
       \/ files[p][KindOf[h]] = h /\ \A v \in Renditions(h) : files[p][v] = h
=============================================================================
