---------------------------- MODULE PhotoLibrary ----------------------------
(***************************************************************************)
(* The life of a photo's files: internal/library (Ingest, Render, Remove), *)
(* internal/storage (Commit, RemovePhoto, RemoveAlbum), the photos table   *)
(* (internal/db/photos.go), the album deletion of internal/api and the     *)
(* variant worker (internal/api/variants.go).                              *)
(*                                                                         *)
(* One action per SQL statement or per change under photos/: that is the   *)
(* grain at which a crash, a failing call or another handler can come in   *)
(* between.  The database and the files survive a crash; everything else   *)
(* (requests, locks, the worker's memory) does not.                        *)
(***************************************************************************)
EXTENDS Naturals, FiniteSets

CONSTANTS
  Photo,      \* photo uuids, drawn fresh by uploads
  Album,      \* album uuids
  AlbumOf,    \* the album a photo uuid is drawn for
  Lr,         \* Lightroom catalog uuids (lr_photo_uuid)
  Content,    \* files a client may upload, named by their sha256
  KindOf,     \* the name the original gets on disk, by content type
  Wide,       \* contents large enough for the "large" rendition (hasLarge)
  Broken,     \* contents that pass the probe but never render
  Smaller,    \* the renditions every photo gets (medium, small, thumb, blur)
  Request,    \* API requests; each is made at most once
  MaxFaults,  \* bound on crashes and failing disk or database calls
  None

Kind == {"original.jpg", "original.mp4", "original.mov"}
Rendition == Smaller \cup {"large"}
File == Kind \cup Rendition
Row == [lr : Lr, hash : Content, ready : BOOLEAN]
Values == [album : Album \cup {None}, lr : Lr \cup {None}, file : Content \cup {None}]

ASSUME LibraryAssumption ==
  /\ AlbumOf \in [Photo -> Album]
  /\ KindOf \in [Content -> Kind]
  /\ Wide \subseteq Content /\ Broken \subseteq Content
  /\ "large" \notin Smaller /\ Kind \cap Smaller = {} /\ Smaller # {}
  /\ "worker" \notin Request
  /\ MaxFaults \in Nat
  /\ None \notin Photo \cup Album \cup Lr \cup Content \cup Request \cup {"worker"}
  /\ None \notin Row

VARIABLES
  albums,  \* the album rows that exist
  rows,    \* the photos table
  files,   \* photos/<album>/<photo>/<file> -> the content it was made from
  used,    \* photo uuids drawn so far
  lock,    \* photoLocks: who holds each photo's lock
  at,      \* how far each request's handler is
  req,     \* its arguments
  photo,   \* the photo it works on
  old,     \* the photo's row as the handler read it under the lock
  wake,    \* the worker's channel holds a token
  failed,  \* the worker's map of (photo, hash) that failed to render
  step,    \* how far the worker is
  todo,    \* the rest of the drain's list, as (photo, hash)
  item,    \* the entry of the list being rendered
  snap,    \* the content_hash Render read under the lock
  src,     \* the original the staged renditions were made from
  staged,  \* the renditions made but not yet in place
  faults   \* crashes and failing calls so far

disk == <<albums, rows, files, used>>
requests == <<at, req, photo, old>>
render == <<item, snap, src, staged>>
worker == <<wake, failed, step, todo, render>>
vars == <<disk, lock, requests, worker, faults>>

Ready(p) == rows[p] # None /\ rows[p].ready
Pending(p) == rows[p] # None /\ ~rows[p].ready

Renditions(h) == Smaller \cup (IF h \in Wide THEN {"large"} ELSE {})
NoFiles == [f \in File |-> None]
StoredFiles(h) == [f \in File |-> IF f = KindOf[h] \/ f \in Renditions(h) THEN h ELSE None]

\* A request's arguments; those it has not are None.
Args(a, l, c) == [album |-> a, lr |-> l, file |-> c]
NoArgs == Args(None, None, None)

NewRow(l, h, ready) == [lr |-> l, hash |-> h, ready |-> ready]

\* The library a server may find when it starts: some photos, all rendered.
Init ==
  /\ albums = Album
  /\ \E h \in [Photo -> Content \cup {None}], l \in [Photo -> Lr] :
       /\ \A p, q \in Photo : p # q /\ h[p] # None /\ h[q] # None
                                /\ AlbumOf[p] = AlbumOf[q] => l[p] # l[q]
       /\ rows = [p \in Photo |-> IF h[p] = None THEN None
                                  ELSE NewRow(l[p], h[p], TRUE)]
       /\ files = [p \in Photo |-> IF h[p] = None THEN NoFiles ELSE StoredFiles(h[p])]
       /\ used = {p \in Photo : h[p] # None}
  /\ lock = [p \in Photo |-> None]
  /\ at = [r \in Request |-> "start"]
  /\ req = [r \in Request |-> NoArgs]
  /\ photo = [r \in Request |-> None] /\ old = [r \in Request |-> None]
  /\ wake = TRUE /\ failed = {} /\ step = "idle" /\ todo = {}
  /\ item = None /\ snap = None /\ src = None /\ staged = {}
  /\ faults = 0
-----------------------------------------------------------------------------
(***************************************************************************)
(* Requests.  The multipart body is staged and probed before any of these  *)
(* steps; a request refused there changes nothing.                         *)
(***************************************************************************)

Begin(r, pos, p, args) == /\ at[r] = "start"
                          /\ at' = [at EXCEPT ![r] = pos]
                          /\ photo' = [photo EXCEPT ![r] = p]
                          /\ req' = [req EXCEPT ![r] = args]
                          /\ UNCHANGED <<disk, lock, old, worker, faults>>

StartPost(r, a, l, c) == a \in albums /\ Begin(r, "resolve", None, Args(a, l, c))

StartPut(r, p, c) == rows[p] # None /\ Begin(r, "lock", p, Args(None, None, c))

StartDelete(r, p) == /\ p \in used /\ AlbumOf[p] \in albums
                     /\ Begin(r, "lockdelete", p, NoArgs)

StartDeleteAlbum(r, a) == a \in albums /\ Begin(r, "dropalbum", None, Args(a, None, None))

\* POST: a known lr_photo_uuid names its photo, otherwise draw a fresh uuid.
Resolve(r) ==
  LET q == req[r]
      known == {p \in Photo : /\ AlbumOf[p] = q.album /\ rows[p] # None
                              /\ rows[p].lr = q.lr}
  IN /\ at[r] = "resolve"
     /\ \E p \in IF known # {} THEN known
                 ELSE {p \in Photo \ used : AlbumOf[p] = q.album} :
          /\ photo' = [photo EXCEPT ![r] = p]
          /\ used' = used \cup {p}
     /\ at' = [at EXCEPT ![r] = "lock"]
     /\ UNCHANGED <<albums, rows, files, lock, req, old, worker, faults>>

Goto(r, pos) == at' = [at EXCEPT ![r] = pos] /\ UNCHANGED <<req, photo, old, lock>>

\* The request is over, answered or given up with an error.
Done(r) == /\ at' = [at EXCEPT ![r] = "done"]
           /\ req' = [req EXCEPT ![r] = NoArgs]
           /\ photo' = [photo EXCEPT ![r] = None] /\ old' = [old EXCEPT ![r] = None]

\* The same for a handler that holds its photo's lock.
Unlock(r) == Done(r) /\ lock' = [lock EXCEPT ![photo[r]] = None]

\* Ingest takes the lock and reads the row it will work from, kept in old.  A
\* PUT (no lr) needs a row, and a photo without one needs a file.
LockIngest(r) ==
  LET q == req[r]
      p == photo[r]
      row == rows[p]
  IN /\ at[r] = "lock"
     /\ lock[p] = None
     /\ \/ /\ row = None /\ None \in {q.lr, q.file}
           /\ Done(r) /\ UNCHANGED lock
        \/ /\ row = None => None \notin {q.lr, q.file}
           /\ lock' = [lock EXCEPT ![p] = r]
           /\ old' = [old EXCEPT ![r] = row]
           /\ UNCHANGED <<req, photo>>
           /\ at' = [at EXCEPT ![r] = IF q.file = None THEN "write"
                                      ELSE IF row = None THEN "commit" ELSE "hide"]
     /\ UNCHANGED <<disk, worker, faults>>

\* An UPDATE of a photo's row; lr_photo_uuid never changes.
SetRow(p, hash, ready) == rows' = [rows EXCEPT ![p] = NewRow(rows[p].lr, hash, ready)]

\* Mutant of HideOld: the original is replaced while the photo is visible.
HideOldNot(r) == at[r] = "hide" /\ Goto(r, "commit") /\ UNCHANGED <<disk, worker, faults>>

\* MarkVariantsPending, before the original is replaced.
HideOld(r) ==
  LET p == photo[r]
  IN /\ at[r] = "hide"
     /\ \/ rows[p] = None /\ Unlock(r) /\ UNCHANGED rows
        \/ /\ rows[p] # None
           /\ SetRow(p, rows[p].hash, FALSE)
           /\ Goto(r, "commit")
     /\ UNCHANGED <<albums, files, used, worker, faults>>

\* Mutant of CommitOriginal: it removes originals of other kinds at once.
CommitOriginalAlone(r) ==
  LET q == req[r]
  IN /\ at[r] = "commit"
     /\ files' = [files EXCEPT ![photo[r]] = [f \in File |->
          IF f = KindOf[q.file] THEN q.file ELSE IF f \in Kind THEN None ELSE @[f]]]
     /\ Goto(r, "write")
     /\ UNCHANGED <<albums, rows, used, worker, faults>>

\* Commit: the staged original is renamed into place.
CommitOriginal(r) ==
  LET q == req[r]
  IN /\ at[r] = "commit"
     /\ files' = [files EXCEPT ![photo[r]][KindOf[q.file]] = q.file]
     /\ Goto(r, "write")
     /\ UNCHANGED <<albums, rows, used, worker, faults>>

\* InsertPhoto is refused when the album already has the lr_photo_uuid or is
\* itself gone (foreign key).
Insertable(p, l) ==
  /\ AlbumOf[p] \in albums
  /\ \A s \in Photo : rows[s] # None /\ AlbumOf[s] = AlbumOf[p] => rows[s].lr # l

\* Mutant of InsertRow: a refused insert is tried again.
InsertRowRetries(r) ==
  /\ at[r] = "write" /\ old[r] = None /\ Insertable(photo[r], req[r].lr)
  /\ rows' = [rows EXCEPT ![photo[r]] = NewRow(req[r].lr, req[r].file, FALSE)]
  /\ Goto(r, "kick")
  /\ UNCHANGED <<albums, files, used, worker, faults>>

InsertRow(r) ==
  LET q == req[r]
      p == photo[r]
  IN /\ at[r] = "write" /\ old[r] = None
     /\ \/ /\ Insertable(p, q.lr)
           /\ rows' = [rows EXCEPT ![p] = NewRow(q.lr, q.file, FALSE)]
           /\ Goto(r, "kick")
        \/ ~Insertable(p, q.lr) /\ Goto(r, "cleanup") /\ UNCHANGED rows
     /\ UNCHANGED <<albums, files, used, worker, faults>>

\* UpdatePhoto with the values its caller built.
UpdateWith(r, hash, ready) ==
  /\ at[r] = "write" /\ old[r] # None
  /\ \/ rows[photo[r]] = None /\ Unlock(r) /\ UNCHANGED rows
     \/ /\ rows[photo[r]] # None
        /\ SetRow(photo[r], hash, ready)
        /\ IF req[r].file = None THEN Unlock(r) ELSE Goto(r, "kick")
  /\ UNCHANGED <<albums, files, used, worker, faults>>

\* Mutants of UpdateRow: the file columns are written though no file was sent,
\* are left as they were though one was, or variants_ready is written with them.
UpdateRowBlank(r) == UpdateWith(r, req[r].file, rows[photo[r]].ready)
UpdateRowStale(r) == UpdateWith(r, old[r].hash, rows[photo[r]].ready)
UpdateRowReady(r) == UpdateWith(r, IF req[r].file = None THEN old[r].hash ELSE req[r].file,
                                old[r].ready)

\* UpdatePhoto writes back every file column, taken from the row read under
\* the lock where no file was sent; it leaves variants_ready alone.
UpdateRow(r) ==
  LET q == req[r]
      p == photo[r]
  IN /\ at[r] = "write" /\ old[r] # None
     /\ \/ rows[p] = None /\ Unlock(r) /\ UNCHANGED rows
        \/ /\ rows[p] # None /\ q.file = None
           /\ SetRow(p, old[r].hash, rows[p].ready)
           /\ Unlock(r)
        \/ /\ rows[p] # None /\ q.file # None
           /\ SetRow(p, q.file, rows[p].ready)
           /\ Goto(r, "kick")
     /\ UNCHANGED <<albums, files, used, worker, faults>>

\* RemovePhoto: after a refused insert, or after the row was deleted.
CleanUp(r) ==
  /\ at[r] = "cleanup"
  /\ files' = [files EXCEPT ![photo[r]] = NoFiles]
  /\ Unlock(r)
  /\ UNCHANGED <<albums, rows, used, worker, faults>>

\* Mutant of KickAndAnswer: the replaced original of another kind is kept.
KickOnly(r) == /\ at[r] = "kick" /\ wake' = TRUE /\ Unlock(r)
               /\ UNCHANGED <<disk, failed, step, todo, render, faults>>

\* The row is written: remove a replaced original of another kind, kick the
\* worker, unlock and answer.
KickAndAnswer(r) ==
  LET q == req[r]
  IN /\ at[r] = "kick"
     /\ files' = IF old[r] # None /\ KindOf[old[r].hash] # KindOf[q.file]
                 THEN [files EXCEPT ![photo[r]][KindOf[old[r].hash]] = None]
                 ELSE files
     /\ wake' = TRUE
     /\ Unlock(r)
     /\ UNCHANGED <<albums, rows, used, failed, step, todo, render, faults>>

\* Mutant of LockDelete: a photo is deleted without its lock.
LockDeleteNot(r) == /\ at[r] = "lockdelete"
                    /\ at' = [at EXCEPT ![r] = "deleterow"]
                    /\ UNCHANGED <<disk, lock, req, photo, old, worker, faults>>

LockDelete(r) ==
  /\ at[r] = "lockdelete"
  /\ lock[photo[r]] = None
  /\ lock' = [lock EXCEPT ![photo[r]] = r]
  /\ at' = [at EXCEPT ![r] = "deleterow"]
  /\ UNCHANGED <<disk, req, photo, old, worker, faults>>

DeleteRow(r) ==
  LET p == photo[r]
  IN /\ at[r] = "deleterow"
     /\ \/ rows[p] = None /\ Unlock(r) /\ UNCHANGED rows
        \/ /\ rows[p] # None
           /\ rows' = [rows EXCEPT ![p] = None]
           /\ Goto(r, "cleanup")
     /\ UNCHANGED <<albums, files, used, worker, faults>>

\* deleteAlbum takes no photo lock.  The album row goes, its photos with it
\* (ON DELETE CASCADE); the directory is removed afterwards, also when another
\* request has deleted the row before.
DropAlbumRow(r) ==
  LET a == req[r].album
  IN /\ at[r] = "dropalbum"
     /\ albums' = albums \ {a}
     /\ rows' = [p \in Photo |-> IF AlbumOf[p] = a THEN None ELSE rows[p]]
     /\ Goto(r, "rmalbum")
     /\ UNCHANGED <<files, used, worker, faults>>

RemoveAlbumDir(r) ==
  /\ at[r] = "rmalbum"
  /\ files' = [p \in Photo |-> IF AlbumOf[p] = req[r].album THEN NoFiles ELSE files[p]]
  /\ Done(r)
  /\ UNCHANGED <<albums, rows, used, lock, worker, faults>>
-----------------------------------------------------------------------------
(***************************************************************************)
(* The variant worker: one loop, one photo at a time.                      *)
(***************************************************************************)

\* The select of run: a token, or the retry tick, which forgets failures.
TakeToken ==
  /\ step = "idle" /\ wake
  /\ wake' = FALSE
  /\ step' = "list"
  /\ UNCHANGED <<disk, lock, requests, failed, todo, render, faults>>

\* Mutant of Tick: the retry does not forget what failed.
TickRemembers == /\ step = "idle" /\ step' = "list"
                 /\ UNCHANGED <<disk, lock, requests, wake, failed, todo, render, faults>>

Tick ==
  /\ step = "idle"
  /\ failed' = {}
  /\ step' = "list"
  /\ UNCHANGED <<disk, lock, requests, wake, todo, render, faults>>

\* drain reads the pending photos once and works from that list.
ListPending ==
  /\ step = "list"
  /\ step' = "next"
  /\ todo' = {<<p, rows[p].hash>> : p \in {s \in Photo : Pending(s)}}
  /\ UNCHANGED <<disk, lock, requests, wake, failed, render, faults>>

\* The next photo of the list that has not failed before.
PickNext ==
  /\ step = "next"
  /\ \/ /\ todo \ failed = {}
        /\ step' = "idle" /\ todo' = {} /\ UNCHANGED item
     \/ \E i \in todo \ failed :
          /\ step' = "lock" /\ item' = i /\ todo' = (todo \ failed) \ {i}
  /\ UNCHANGED <<disk, lock, requests, wake, failed, snap, src, staged, faults>>

InHand == item[1]

\* Render returns; on failure the photo is remembered by the hash the list had.
RenderReturns(ok) ==
  /\ failed' = IF ok THEN failed ELSE failed \cup {item}
  /\ step' = "next"
  /\ item' = None /\ snap' = None /\ src' = None /\ staged' = {}
  /\ UNCHANGED <<wake, todo>>

\* ... having held the photo's lock.
UnlockRender(ok) == RenderReturns(ok) /\ lock' = [lock EXCEPT ![InHand] = None]

\* Mutant of LockRender: Render runs beside whoever holds the photo's lock.
LockRenderNot ==
  /\ step = "lock"
  /\ IF Pending(InHand)
     THEN /\ step' = "render" /\ snap' = rows[InHand].hash
          /\ UNCHANGED <<wake, failed, todo, item, src, staged>>
     ELSE RenderReturns(TRUE)
  /\ UNCHANGED <<disk, lock, requests, faults>>

\* Render takes the lock and reads the row: gone or ready is no work.
LockRender ==
  /\ step = "lock"
  /\ lock[InHand] = None
  /\ \/ /\ ~Pending(InHand)
        /\ RenderReturns(TRUE) /\ UNCHANGED lock
     \/ /\ Pending(InHand)
        /\ lock' = [lock EXCEPT ![InHand] = "worker"]
        /\ step' = "render" /\ snap' = rows[InHand].hash
        /\ UNCHANGED <<wake, failed, todo, item, src, staged>>
  /\ UNCHANGED <<disk, requests, faults>>

\* All renditions are made in the incoming directory, from the original the
\* row names.  A failure counts unless the row has gone meanwhile.
RenderAll ==
  LET original == files[InHand][KindOf[snap]]
  IN /\ step = "render"
     /\ \/ /\ original \in Broken \cup {None}
           /\ UnlockRender(rows[InHand] = None)
        \/ /\ original \notin Broken \cup {None}
           /\ step' = "install" /\ src' = original /\ staged' = Renditions(snap)
           /\ UNCHANGED <<lock, wake, failed, todo, item, snap>>
     /\ UNCHANGED <<disk, requests, faults>>

InstallOne ==
  /\ step = "install"
  /\ \E v \in staged :
       /\ files' = [files EXCEPT ![InHand][v] = src]
       /\ staged' = staged \ {v}
       /\ step' = IF staged = {v} THEN "trim" ELSE "install"
  /\ UNCHANGED <<albums, rows, used, lock, requests, wake, failed, todo, item, snap, src, faults>>

\* A replacement may be smaller than the previous original.
TrimLarge ==
  /\ step = "trim"
  /\ step' = "show"
  /\ files' = IF snap \in Wide THEN files ELSE [files EXCEPT ![InHand]["large"] = None]
  /\ UNCHANGED <<albums, rows, used, lock, requests, wake, failed, todo, render, faults>>

\* MarkVariantsReady, compared and set on the content hash.
SameOriginal == rows[InHand] # None /\ rows[InHand].hash = snap

MarkReady ==
  /\ step = "show"
  /\ \/ /\ SameOriginal
        /\ SetRow(InHand, rows[InHand].hash, TRUE)
        /\ UnlockRender(TRUE)
     \/ /\ ~SameOriginal
        /\ step' = "takeback"
        /\ UNCHANGED <<rows, lock, wake, failed, todo, render>>
  /\ UNCHANGED <<albums, files, used, requests, faults>>

\* The album was deleted underneath: Commit recreated the directory.
TakeBack ==
  /\ step = "takeback"
  /\ files' = IF rows[InHand] = None THEN [files EXCEPT ![InHand] = NoFiles] ELSE files
  /\ UnlockRender(TRUE)
  /\ UNCHANGED <<albums, rows, used, requests, faults>>
-----------------------------------------------------------------------------
(***************************************************************************)
(* Faults: MaxFaults of them at most.                                      *)
(***************************************************************************)

Fault == /\ faults < MaxFaults
         /\ faults' = faults + 1

\* The process stops anywhere and is started again: newVariantWorker kicks.
Crash ==
  /\ Fault
  /\ lock' = [p \in Photo |-> None]
  /\ at' = [r \in Request |-> IF at[r] = "start" THEN "start" ELSE "done"]
  /\ req' = [r \in Request |-> NoArgs]
  /\ photo' = [r \in Request |-> None] /\ old' = [r \in Request |-> None]
  /\ wake' = TRUE /\ failed' = {} /\ step' = "idle" /\ todo' = {}
  /\ item' = None /\ snap' = None /\ src' = None /\ staged' = {}
  /\ UNCHANGED disk

\* MarkVariantsPending, Commit, UpdatePhoto or DeletePhoto fails: the handler
\* returns the error and undoes nothing.
LockedCallFails(r) ==
  /\ Fault
  /\ at[r] \in {"hide", "commit", "deleterow"} \/ (at[r] = "write" /\ old[r] # None)
  /\ Unlock(r)
  /\ UNCHANGED <<disk, worker>>

\* The same for a call made without a lock, or a read right after taking it.
OtherCallFails(r) ==
  /\ Fault
  /\ \/ at[r] \in {"resolve", "dropalbum", "rmalbum"}
     \/ at[r] = "lock" /\ lock[photo[r]] = None
  /\ Done(r)
  /\ UNCHANGED <<disk, lock, worker>>

InsertFails(r) ==
  /\ Fault
  /\ at[r] = "write" /\ old[r] = None
  /\ Goto(r, "cleanup")
  /\ UNCHANGED <<disk, worker>>

\* RemovePhoto fails: only logged, the files stay.
CleanUpFails(r) ==
  /\ Fault
  /\ at[r] = "cleanup"
  /\ Unlock(r)
  /\ UNCHANGED <<disk, worker>>

\* Remove fails: only logged, the replaced original stays.
RemoveOldFails(r) ==
  /\ Fault
  /\ at[r] = "kick" /\ wake' = TRUE /\ Unlock(r)
  /\ UNCHANGED <<disk, failed, step, todo, render>>

ListFails ==
  /\ Fault
  /\ step = "list"
  /\ step' = "idle"
  /\ UNCHANGED <<disk, lock, requests, wake, failed, todo, render>>

\* A read of the row, a staged file, a resize, a Commit, a Remove or the final
\* UPDATE fails.  Taking the files back may fail unnoticed.
RenderFails ==
  /\ Fault
  /\ \/ /\ step = "lock" /\ lock[InHand] = None
        /\ RenderReturns(FALSE) /\ UNCHANGED lock
     \/ /\ step \in {"render", "install", "trim", "show"}
        /\ \E ok \in {FALSE, step = "render" /\ rows[InHand] = None} : UnlockRender(ok)
     \/ step = "takeback" /\ UnlockRender(TRUE)
  /\ UNCHANGED <<disk, requests>>
-----------------------------------------------------------------------------
Start(r) ==
  \/ \E a \in Album, l \in Lr, c \in Content \cup {None} : StartPost(r, a, l, c)
  \/ \E p \in Photo, c \in Content \cup {None} : StartPut(r, p, c)
  \/ \E p \in Photo : StartDelete(r, p)
  \/ \E a \in Album : StartDeleteAlbum(r, a)

Lock(r) == LockIngest(r) \/ LockDelete(r)

Handle(r) == \/ Resolve(r) \/ HideOld(r) \/ CommitOriginal(r) \/ InsertRow(r)
             \/ UpdateRow(r) \/ CleanUp(r) \/ KickAndAnswer(r) \/ DeleteRow(r)
             \/ DropAlbumRow(r) \/ RemoveAlbumDir(r)

Work == \/ TakeToken \/ Tick \/ ListPending \/ PickNext \/ LockRender \/ RenderAll
        \/ InstallOne \/ TrimLarge \/ MarkReady \/ TakeBack

Faults == \/ Crash \/ ListFails \/ RenderFails
          \/ \E r \in Request : \/ LockedCallFails(r) \/ OtherCallFails(r) \/ InsertFails(r)
                               \/ CleanUpFails(r) \/ RemoveOldFails(r)

Next == Work \/ Faults \/ \E r \in Request : Start(r) \/ Lock(r) \/ Handle(r)

Spec == Init /\ [][Next]_vars

\* A handler's goroutine and the worker keep running.  A waiter for a mutex
\* gets it in the end (sync.Mutex hands over to a waiter that starves), which
\* takes strong fairness: the worker may lock the same photo again and again.
Fairness == /\ WF_vars(Work)
            /\ \A r \in Request : WF_vars(Handle(r)) /\ SF_vars(Lock(r))

FairSpec == Spec /\ Fairness
-----------------------------------------------------------------------------
(***************************************************************************)
(* Properties.                                                             *)
(***************************************************************************)

DiskType ==
  /\ albums \subseteq Album
  /\ rows \in [Photo -> Row \cup {None}]
  /\ files \in [Photo -> [File -> Content \cup {None}]]
  /\ used \subseteq Photo

RequestType ==
  /\ lock \in [Photo -> Request \cup {"worker", None}]
  /\ at \in [Request -> {"start", "resolve", "lock", "hide", "commit", "write",
                         "cleanup", "kick", "lockdelete", "deleterow",
                         "dropalbum", "rmalbum", "done"}]
  /\ req \in [Request -> Values]
  /\ photo \in [Request -> Photo \cup {None}]
  /\ old \in [Request -> Row \cup {None}]

WorkerType ==
  /\ wake \in BOOLEAN
  /\ failed \subseteq Photo \X Content
  /\ step \in {"idle", "list", "next", "lock", "render", "install", "trim",
               "show", "takeback"}
  /\ todo \subseteq Photo \X Content
  /\ item \in (Photo \X Content) \cup {None}
  /\ snap \in Content \cup {None} /\ src \in Content \cup {None}
  /\ staged \subseteq Rendition

TypeOK == DiskType /\ RequestType /\ WorkerType /\ faults \in 0 .. MaxFaults

\* The stored files of p are an original of h's kind and every rendition h
\* gets, all made from one and the same upload.
Agree(p, h) ==
  LET o == files[p][KindOf[h]]
  IN /\ o # None
     /\ \A v \in Renditions(h) : files[p][v] = o
     /\ h \notin Wide => files[p]["large"] = None

\* A photo visitors can see has all its renditions, made from the original
\* that is stored now ("hides the photo from visitors until the two agree",
\* library.go:1-3), through crashes, failing calls and concurrent requests.
ReadyMeansAgree == \A p \in Photo : Ready(p) => Agree(p, rows[p].hash)

\* Whoever is between two steps on a photo holds its lock.
Holding == {"hide", "commit", "write", "cleanup", "kick", "deleterow"}
Rendering == {"render", "install", "trim", "show", "takeback"}
LocksHeld == /\ \A r \in Request : at[r] \in Holding => lock[photo[r]] = r
             /\ step \in Rendering => lock[InHand] = "worker"

\* A photo's row needs its album's; an album's files go after its rows.
RowsHaveAlbums == /\ \A p \in Photo : rows[p] # None => AlbumOf[p] \in albums
                  /\ \A r \in Request : at[r] = "rmalbum" => req[r].album \notin albums

\* What a handler that holds the lock relies on: the photo is hidden while its
\* original is exchanged, the row it read still names the stored original, and
\* the files it takes back belong to no row.
HandlerRelies(r) ==
  LET p == photo[r]
  IN /\ at[r] \in {"commit", "kick"} => ~Ready(p)
     /\ at[r] = "write" /\ req[r].file # None => ~Ready(p)
     /\ at[r] \in {"commit", "write"} /\ old[r] = None => rows[p] = None
     /\ at[r] = "cleanup" => rows[p] = None
     /\ at[r] \in {"hide", "commit", "write"} /\ old[r] # None /\ rows[p] # None =>
          rows[p].hash = old[r].hash

\* What Render relies on until it marks the photo ready: the row is gone (with
\* its album) or still pending with the hash read; the renditions in place
\* were made from the original that is stored.
RenderRelies ==
  /\ step \in {"render", "install", "trim", "show"} /\ rows[InHand] # None =>
       /\ ~rows[InHand].ready /\ rows[InHand].hash = snap
       /\ step # "render" => /\ files[InHand][KindOf[snap]] = src
                             /\ \A v \in Renditions(snap) \ staged : files[InHand][v] = src
       /\ step = "show" /\ snap \notin Wide => files[InHand]["large"] = None
  /\ step \in {"trim", "show"} => staged = {}
  /\ step = "takeback" => rows[InHand] = None

\* The steps of Ingest, Render, Remove and the album deletion, interleaved in
\* any way, never take away what another one relies on ("none of them ever
\* sees another half done", library.go:5-9).
NoneHalfDone == /\ LocksHeld /\ RowsHaveAlbums /\ RenderRelies
                /\ \A r \in Request : HandlerRelies(r)

\* While a photo stays visible none of its files changes: whoever writes them
\* has hidden the photo first (ingest.go:186-196, render.go:74-89).
VisibleFilesFrozen == [][\A p \in Photo : Ready(p) /\ Ready(p)' => files'[p] = files[p]]_vars

\* content_hash of a visible photo is the hash of the stored original
\* (db/photos.go:25), which the ETag of every rendition is built from.
HashMatchesOriginal ==
  \A p \in Photo : Ready(p) => files[p][KindOf[rows[p].hash]] = rows[p].hash

\* ... while nothing fails, whatever the requests and the worker do.
HashKept == faults = 0 => HashMatchesOriginal

Quiet == /\ step = "idle"
         /\ \A r \in Request : at[r] \in {"start", "done"}

\* Without faults, once nothing is in flight, the files under a live album
\* are exactly those of its rows: losing an insert race, a delete, a change
\* of kind or an album deleted halfway leaves nothing behind there
\* (ingest.go:206-218, render.go:89-96, render.go:122-124).
NoStrayFiles ==
  Quiet /\ faults = 0 => \A p \in Photo :
    AlbumOf[p] \in albums =>
      IF rows[p] = None THEN files[p] = NoFiles
      ELSE \A k \in Kind \ {KindOf[rows[p].hash]} : files[p][k] = None

\* A pending photo is shown in the end, or deleted, unless it cannot be
\* rendered at all: through lost kicks, failed drains, failed renders and
\* crashes (variants.go:13-23).
PendingSettles ==
  \A p \in Photo :
    Pending(p) ~> \/ ~Pending(p)
                  \/ files[p][KindOf[rows[p].hash]] \in Broken

\* Every request is answered: nobody waits for a photo's lock for ever.
RequestsFinish == \A r \in Request : at[r] # "start" ~> at[r] = "done"

\* What a visitor is shown of p.
lifeOf == [p \in Photo |->
  IF rows[p] = None THEN "absent"
  ELSE IF ~rows[p].ready THEN "hidden"
  ELSE IF Agree(p, rows[p].hash) THEN files[p][KindOf[rows[p].hash]]
  ELSE "mixed"]

Units == {{p} : p \in Photo} \cup {{p \in Photo : AlbumOf[p] = a} : a \in Album}

Life == INSTANCE PhotoLife WITH life <- lifeOf, Unit <- Units

\* The library is a PhotoLife: a visible picture is never exchanged for
\* another one, nor mixed with another one, without being hidden first.
ImplementsLife == Life!Spec
=============================================================================
