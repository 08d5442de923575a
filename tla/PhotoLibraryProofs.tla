-------------------------- MODULE PhotoLibraryProofs --------------------------
(* Proofs about PhotoLibrary, for every value of its constants. *)
EXTENDS PhotoVisits, TLAPS

\* What a handler knows of its own values at each position.
ReqOK ==
  \A r \in Request :
    /\ at[r] = "resolve" => req[r].album \in Album /\ req[r].lr \in Lr
    /\ at[r] \in {"lock", "hide", "commit", "write", "cleanup", "kick",
                  "lockdelete", "deleterow"} => photo[r] \in Photo
    /\ at[r] \in {"hide", "commit", "kick"} => req[r].file \in Content
    /\ at[r] = "hide" => old[r] \in Row
    /\ at[r] \in {"commit", "write"} /\ old[r] = None =>
         req[r].lr \in Lr /\ req[r].file \in Content
    /\ at[r] \in {"dropalbum", "rmalbum"} => req[r].album \in Album

\* The same for the worker.
WorkerOK ==
  /\ step \in {"lock", "render", "install", "trim", "show", "takeback"} =>
       item \in Photo \X Content
  /\ step \in {"render", "install", "trim", "show"} => snap \in Content
  /\ step \in {"install", "trim", "show"} => src \in Content

HandlersOK == RequestType /\ ReqOK
TypeInv == TypeOK /\ ReqOK /\ WorkerOK

\* The shapes the actions build.
LEMMA Shapes ==
  /\ NoArgs \in Values
  /\ \A a \in Album \cup {None}, l \in Lr \cup {None}, c \in Content \cup {None} :
       /\ Args(a, l, c) \in Values
       /\ Args(a, l, c).album = a /\ Args(a, l, c).lr = l /\ Args(a, l, c).file = c
  /\ \A l \in Lr, h \in Content, b \in BOOLEAN :
       /\ NewRow(l, h, b) \in Row
       /\ NewRow(l, h, b).lr = l /\ NewRow(l, h, b).hash = h /\ NewRow(l, h, b).ready = b
  /\ \A row \in Row : row.lr \in Lr /\ row.hash \in Content /\ row.ready \in BOOLEAN
  /\ \A q \in Values : /\ q.album \in Album \cup {None} /\ q.lr \in Lr \cup {None}
                        /\ q.file \in Content \cup {None}
BY DEF NoArgs, Args, Values, NewRow, Row

LEMMA FileShapes ==
  /\ NoFiles \in [File -> Content \cup {None}]
  /\ \A h \in Content : /\ KindOf[h] \in Kind /\ KindOf[h] \in File
                         /\ Renditions(h) \subseteq Rendition
                         /\ StoredFiles(h) \in [File -> Content \cup {None}]
  /\ Rendition \subseteq File
  /\ Kind \cap Rendition = {}
<1>1. NoFiles \in [File -> Content \cup {None}]
  BY DEF NoFiles
<1>2. Rendition \subseteq File /\ Kind \subseteq File
  BY DEF File
<1>3. Kind \cap Rendition = {}
  BY LibraryAssumption DEF Rendition, Kind
<1>4. ASSUME NEW h \in Content
      PROVE  /\ KindOf[h] \in Kind /\ Renditions(h) \subseteq Rendition
             /\ StoredFiles(h) \in [File -> Content \cup {None}]
  BY LibraryAssumption DEF Renditions, Rendition, StoredFiles
<1>5. QED
  BY <1>1, <1>2, <1>3, <1>4

LEMMA InitType == Init => TypeInv
<1> SUFFICES ASSUME Init PROVE TypeInv
  OBVIOUS
<1>1. PICK h \in [Photo -> Content \cup {None}], l \in [Photo -> Lr] :
        /\ rows = [p \in Photo |-> IF h[p] = None THEN None ELSE NewRow(l[p], h[p], TRUE)]
        /\ files = [p \in Photo |-> IF h[p] = None THEN NoFiles ELSE StoredFiles(h[p])]
        /\ used = {p \in Photo : h[p] # None}
  BY DEF Init
<1>2. rows \in [Photo -> Row \cup {None}]
  BY <1>1, Shapes
<1>3. files \in [Photo -> [File -> Content \cup {None}]]
  BY <1>1, FileShapes
<1>4. DiskType
  BY <1>1, <1>2, <1>3 DEF Init, DiskType
<1>5. RequestType /\ ReqOK
  BY Shapes DEF Init, RequestType, ReqOK
<1>6. WorkerType /\ WorkerOK /\ faults \in 0 .. MaxFaults
  BY LibraryAssumption DEF Init, WorkerType, WorkerOK
<1>7. QED
  BY <1>4, <1>5, <1>6 DEF TypeInv, TypeOK

-----------------------------------------------------------------------------
(***************************************************************************)
(* Requests.                                                               *)
(***************************************************************************)

\* A request that ends keeps the others as they are.
LEMMA UnlockOK ==
  ASSUME HandlersOK, NEW r \in Request, Done(r), UNCHANGED lock \/ Unlock(r)
  PROVE  HandlersOK'
BY Shapes DEF HandlersOK, RequestType, ReqOK, Unlock, Done

\* A handler that moves on with the values it has, where they are enough.
LEMMA GotoOK ==
  ASSUME HandlersOK, NEW r \in Request,
         NEW pos \in {"commit", "write", "kick", "cleanup"}, Goto(r, pos),
         photo[r] \in Photo,
         pos \in {"commit", "kick"} => req[r].file \in Content,
         pos \in {"commit", "write"} /\ old[r] = None =>
           req[r].lr \in Lr /\ req[r].file \in Content
  PROVE  HandlersOK'
BY DEF HandlersOK, RequestType, ReqOK, Goto

LEMMA BeginOK ==
  ASSUME HandlersOK, NEW r \in Request,
         NEW p \in Photo \cup {None}, NEW a \in Album \cup {None},
         NEW l \in Lr \cup {None}, NEW c \in Content \cup {None},
         NEW pos \in {"resolve", "lock", "lockdelete", "dropalbum"},
         Begin(r, pos, p, Args(a, l, c)),
         pos = "resolve" => a \in Album /\ l \in Lr,
         pos \in {"lock", "lockdelete"} => p \in Photo,
         pos = "dropalbum" => a \in Album
  PROVE  HandlersOK' /\ UNCHANGED <<disk, worker, faults>>
<1>1. /\ at[r] = "start" /\ at' = [at EXCEPT ![r] = pos]
      /\ photo' = [photo EXCEPT ![r] = p] /\ req' = [req EXCEPT ![r] = Args(a, l, c)]
      /\ UNCHANGED <<disk, lock, old, worker, faults>>
  BY DEF Begin
<1>2. RequestType'
  BY <1>1, Shapes DEF HandlersOK, RequestType
<1>3. ReqOK'
  BY <1>1, <1>2, Shapes DEF HandlersOK, RequestType, ReqOK
<1>4. QED
  BY <1>1, <1>2, <1>3 DEF HandlersOK

LEMMA LockIngestOK ==
  ASSUME HandlersOK, DiskType, NEW r \in Request, LockIngest(r)
  PROVE  HandlersOK'
<1>1. CASE Done(r) /\ UNCHANGED lock
  BY <1>1, UnlockOK
<1>2. CASE ~(Done(r) /\ UNCHANGED lock)
  <2>1. /\ at[r] = "lock" /\ photo[r] \in Photo
        /\ at' = [at EXCEPT ![r] = IF req[r].file = None THEN "write"
                                   ELSE IF rows[photo[r]] = None THEN "commit" ELSE "hide"]
        /\ rows[photo[r]] = None => req[r].lr # None /\ req[r].file # None
        /\ old' = [old EXCEPT ![r] = rows[photo[r]]]
        /\ lock' = [lock EXCEPT ![photo[r]] = r]
        /\ UNCHANGED <<req, photo>>
    BY <1>2 DEF LockIngest, HandlersOK, ReqOK
  <2>2. RequestType'
    BY <2>1 DEF HandlersOK, RequestType, DiskType
  <2>3. rows[photo[r]] = None => req[r].lr \in Lr /\ req[r].file \in Content
    BY <2>1, Shapes DEF HandlersOK, RequestType
  <2>4. rows[photo[r]] \in Row \cup {None} /\ req[r].file \in Content \cup {None}
    BY <2>1, Shapes DEF HandlersOK, RequestType, DiskType
  <2>5. ReqOK'
    BY <2>1, <2>3, <2>4 DEF HandlersOK, RequestType, ReqOK
  <2>6. QED
    BY <2>2, <2>5 DEF HandlersOK
<1>3. QED
  BY <1>1, <1>2

LEMMA SetRowOK ==
  ASSUME DiskType, NEW p \in Photo, rows[p] # None,
         NEW h \in Content, NEW b \in BOOLEAN, SetRow(p, h, b)
  PROVE  rows' \in [Photo -> Row \cup {None}]
BY Shapes DEF DiskType, SetRow

LEMMA RequestSteps ==
  ASSUME TypeInv, NEW r \in Request, Start(r) \/ Lock(r) \/ Handle(r)
  PROVE  TypeInv'
<1>1. DiskType /\ HandlersOK
  BY DEF TypeInv, TypeOK, HandlersOK
<1>2. SUFFICES DiskType' /\ HandlersOK' /\ UNCHANGED <<failed, step, todo, render, faults>>
                 /\ wake' \in BOOLEAN
  BY DEF TypeInv, TypeOK, HandlersOK, WorkerType, WorkerOK, render
<1>3. UNCHANGED worker => UNCHANGED <<failed, step, todo, render>> /\ wake' \in BOOLEAN
  BY DEF worker, TypeInv, TypeOK, WorkerType
<1>4. UNCHANGED disk => DiskType'
  BY <1>1 DEF disk, DiskType
<1>5. ASSUME Start(r)
      PROVE  HandlersOK' /\ UNCHANGED <<disk, worker, faults>>
  BY <1>1, <1>5, BeginOK DEF Start, StartPost, StartPut, StartDelete, StartDeleteAlbum, NoArgs
<1>6. CASE LockIngest(r)
  BY <1>1, <1>3, <1>4, <1>6, LockIngestOK DEF LockIngest
<1>7. CASE LockDelete(r)
  <2>1. HandlersOK'
    BY <1>1, <1>7 DEF LockDelete, HandlersOK, RequestType, ReqOK
  <2>2. QED
    BY <1>3, <1>4, <1>7, <2>1 DEF LockDelete
<1>8. CASE Resolve(r)
  <2>1. PICK p \in Photo : photo' = [photo EXCEPT ![r] = p] /\ used' = used \cup {p}
    BY <1>8 DEF Resolve
  <2>2. HandlersOK'
    BY <1>1, <1>8, <2>1 DEF Resolve, HandlersOK, RequestType, ReqOK
  <2>3. DiskType'
    BY <1>1, <1>8, <2>1 DEF Resolve, DiskType
  <2>4. QED
    BY <1>3, <1>8, <2>2, <2>3 DEF Resolve
<1>9. CASE HideOld(r)
  <2>1. photo[r] \in Photo /\ req[r].file \in Content /\ old[r] # None
    BY <1>1, <1>9, LibraryAssumption DEF HideOld, HandlersOK, ReqOK
  <2>2. UNCHANGED <<albums, files, used, worker, faults>>
    BY <1>9 DEF HideOld
  <2>3. CASE Unlock(r) /\ UNCHANGED rows
    BY <1>1, <1>3, <2>2, <2>3, UnlockOK DEF Unlock, DiskType
  <2>4. CASE /\ rows[photo[r]] # None /\ Goto(r, "commit")
             /\ SetRow(photo[r], rows[photo[r]].hash, FALSE)
    <3>1. rows[photo[r]].hash \in Content
      BY <1>1, <2>1, <2>4, Shapes DEF DiskType
    <3>2. rows' \in [Photo -> Row \cup {None}]
      BY <1>1, <2>1, <2>4, <3>1, SetRowOK
    <3>3. HandlersOK'
      BY <1>1, <2>1, <2>4, GotoOK
    <3>4. QED
      BY <1>1, <1>3, <2>2, <3>2, <3>3 DEF DiskType
  <2>5. QED
    BY <1>9, <2>3, <2>4 DEF HideOld
<1>10. CASE CommitOriginal(r)
  <2>1. photo[r] \in Photo /\ req[r].file \in Content
    BY <1>1, <1>10 DEF CommitOriginal, HandlersOK, ReqOK
  <2>2. HandlersOK'
    <3>1. old[r] = None => req[r].lr \in Lr /\ req[r].file \in Content
      BY <1>1, <1>10 DEF CommitOriginal, HandlersOK, ReqOK
    <3>2. QED
      BY <1>1, <1>10, <2>1, <3>1, GotoOK DEF CommitOriginal
  <2>3. DiskType'
    BY <1>1, <1>10, <2>1, FileShapes DEF CommitOriginal, DiskType
  <2>4. QED
    BY <1>3, <1>10, <2>2, <2>3 DEF CommitOriginal
<1>11. CASE InsertRow(r)
  <2>1. photo[r] \in Photo /\ req[r].lr \in Lr /\ req[r].file \in Content
    BY <1>1, <1>11 DEF InsertRow, HandlersOK, ReqOK
  <2>2. HandlersOK'
    <3>1. Goto(r, "kick") \/ Goto(r, "cleanup")
      BY <1>11 DEF InsertRow
    <3>2. QED
      BY <1>1, <2>1, <3>1, GotoOK
  <2>3. rows' \in [Photo -> Row \cup {None}]
    <3>1. rows' = rows \/ rows' = [rows EXCEPT ![photo[r]] = NewRow(req[r].lr, req[r].file, FALSE)]
      BY <1>11 DEF InsertRow
    <3>2. NewRow(req[r].lr, req[r].file, FALSE) \in Row
      BY <2>1, Shapes
    <3>3. QED
      BY <1>1, <3>1, <3>2 DEF DiskType
  <2>4. QED
    BY <1>1, <1>3, <1>11, <2>2, <2>3 DEF InsertRow, DiskType
<1>12. CASE UpdateRow(r)
  <2>1. photo[r] \in Photo /\ old[r] \in Row /\ req[r].file \in Content \cup {None}
    BY <1>1, <1>12, Shapes DEF UpdateRow, HandlersOK, ReqOK, RequestType
  <2>2. UNCHANGED <<albums, files, used, worker, faults>>
    BY <1>12 DEF UpdateRow
  <2>3. CASE Unlock(r) /\ UNCHANGED rows
    BY <1>1, <1>3, <2>2, <2>3, UnlockOK DEF Unlock, DiskType
  <2>4. CASE rows[photo[r]] # None
    <3>1. rows[photo[r]].ready \in BOOLEAN /\ old[r].hash \in Content
      BY <1>1, <2>1, <2>4, Shapes DEF DiskType
    <3>2. CASE Unlock(r) /\ SetRow(photo[r], old[r].hash, rows[photo[r]].ready)
      <4>1. rows' \in [Photo -> Row \cup {None}]
        BY <1>1, <2>1, <2>4, <3>1, <3>2, SetRowOK
      <4>2. QED
        BY <1>1, <1>3, <2>2, <3>2, <4>1, UnlockOK DEF Unlock, DiskType
    <3>3. CASE /\ req[r].file # None /\ Goto(r, "kick")
               /\ SetRow(photo[r], req[r].file, rows[photo[r]].ready)
      <4>1. rows' \in [Photo -> Row \cup {None}]
        BY <1>1, <2>1, <2>4, <3>1, <3>3, SetRowOK
      <4>2. HandlersOK'
        BY <1>1, <2>1, <3>3, GotoOK
      <4>3. QED
        BY <1>1, <1>3, <2>2, <4>1, <4>2 DEF DiskType
    <3>4. QED
      BY <1>12, <2>4, <3>2, <3>3 DEF UpdateRow
  <2>5. QED
    BY <1>12, <2>3, <2>4 DEF UpdateRow
<1>13. CASE CleanUp(r)
  <2>1. DiskType'
    BY <1>1, <1>13, FileShapes DEF CleanUp, DiskType
  <2>2. QED
    BY <1>1, <1>3, <1>13, <2>1, UnlockOK DEF CleanUp, Unlock
<1>14. CASE KickAndAnswer(r)
  <2>1. DiskType'
    BY <1>1, <1>14 DEF KickAndAnswer, DiskType
  <2>2. QED
    BY <1>1, <1>14, <2>1, UnlockOK DEF KickAndAnswer, Unlock
<1>15. CASE DeleteRow(r)
  <2>1. photo[r] \in Photo
    BY <1>1, <1>15 DEF DeleteRow, HandlersOK, ReqOK
  <2>2. HandlersOK'
    <3>1. Unlock(r) \/ Goto(r, "cleanup")
      BY <1>15 DEF DeleteRow
    <3>2. QED
      BY <1>1, <2>1, <3>1, UnlockOK, GotoOK DEF Unlock
  <2>3. DiskType'
    BY <1>1, <1>15, <2>1 DEF DeleteRow, DiskType
  <2>4. QED
    BY <1>3, <1>15, <2>2, <2>3 DEF DeleteRow
<1>16. CASE DropAlbumRow(r)
  <2>1. HandlersOK'
    <3>1. CASE Done(r) /\ UNCHANGED lock
      BY <1>1, <3>1, UnlockOK
    <3>2. CASE Goto(r, "rmalbum")
      BY <1>1, <1>16, <3>2 DEF DropAlbumRow, Goto, HandlersOK, RequestType, ReqOK
    <3>3. QED
      BY <1>16, <3>1, <3>2 DEF DropAlbumRow
  <2>2. DiskType'
    BY <1>1, <1>16 DEF DropAlbumRow, DiskType
  <2>3. QED
    BY <1>3, <1>16, <2>1, <2>2 DEF DropAlbumRow
<1>17. CASE RemoveAlbumDir(r)
  <2>1. DiskType'
    BY <1>1, <1>17, FileShapes DEF RemoveAlbumDir, DiskType
  <2>2. QED
    BY <1>1, <1>3, <1>17, <2>1, UnlockOK DEF RemoveAlbumDir
<1>18. QED
  BY <1>3, <1>4, <1>5, <1>6, <1>7, <1>8, <1>9, <1>10, <1>11, <1>12, <1>13, <1>14,
     <1>15, <1>16, <1>17 DEF Lock, Handle
-----------------------------------------------------------------------------
(***************************************************************************)
(* The worker and the faults.                                              *)
(***************************************************************************)

LEMMA WorkerSteps ==
  ASSUME TypeInv, Work
  PROVE  TypeInv'
<1>1. DiskType /\ HandlersOK /\ WorkerType /\ WorkerOK /\ faults \in 0 .. MaxFaults
  BY DEF TypeInv, TypeOK, HandlersOK
<1>2. UNCHANGED <<requests, faults>>
  BY DEF Work, TakeToken, Tick, ListPending, PickNext, LockRender, RenderAll, InstallOne,
         TrimLarge, MarkReady, TakeBack
<1>3. SUFFICES /\ lock' \in [Photo -> Request \cup {"worker", None}]
               /\ DiskType' /\ WorkerType' /\ WorkerOK'
  <2>1. lock' \in [Photo -> Request \cup {"worker", None}] => HandlersOK'
    BY <1>1, <1>2 DEF requests, HandlersOK, RequestType, ReqOK
  <2>2. QED
    BY <1>1, <1>2, <2>1 DEF TypeInv, TypeOK, HandlersOK
<1>4. ASSUME NEW ok \in BOOLEAN, RenderReturns(ok), item \in Photo \X Content
      PROVE  WorkerType' /\ WorkerOK'
  BY <1>1, <1>4 DEF RenderReturns, WorkerType, WorkerOK
<1>5. ASSUME NEW p, lock' = [lock EXCEPT ![p] = None] \/ UNCHANGED lock
      PROVE  lock' \in [Photo -> Request \cup {"worker", None}]
  BY <1>1, <1>5 DEF HandlersOK, RequestType
<1>6. CASE TakeToken \/ Tick \/ PickNext
  BY <1>1, <1>6 DEF TakeToken, Tick, PickNext, disk, render, HandlersOK, RequestType,
                    DiskType, WorkerType, WorkerOK
<1>7. CASE ListPending
  <2>1. todo' \subseteq Photo \X Content
    BY <1>1, <1>7, Shapes DEF ListPending, Pending, DiskType
  <2>2. QED
    BY <1>1, <1>7, <2>1 DEF ListPending, disk, render, HandlersOK, RequestType,
                            DiskType, WorkerType, WorkerOK
<1>8. ASSUME step \in {"lock", "render", "install", "trim", "show", "takeback"}
      PROVE  item \in Photo \X Content /\ InHand \in Photo
  BY <1>1, <1>8 DEF WorkerOK, InHand
<1>9. CASE LockRender
  <2>1. InHand \in Photo /\ item \in Photo \X Content
    BY <1>8, <1>9 DEF LockRender
  <2>2. CASE RenderReturns(TRUE) /\ UNCHANGED lock
    BY <1>1, <1>4, <1>5, <1>9, <2>1, <2>2 DEF LockRender, disk, DiskType
  <2>3. CASE Pending(InHand)
    <3>1. rows[InHand].hash \in Content
      BY <1>1, <2>1, <2>3, Shapes DEF Pending, DiskType
    <3>2. /\ lock' = [lock EXCEPT ![InHand] = "worker"] /\ step' = "render"
          /\ snap' = rows[InHand].hash
          /\ UNCHANGED <<disk, wake, failed, todo, item, src, staged>>
      BY <1>9, <2>3 DEF LockRender
    <3>3. QED
      BY <1>1, <2>1, <3>1, <3>2 DEF disk, HandlersOK, RequestType, DiskType, WorkerType, WorkerOK
  <2>4. QED
    BY <1>9, <2>2, <2>3 DEF LockRender
<1>10. CASE RenderAll
  <2>1. InHand \in Photo /\ item \in Photo \X Content /\ snap \in Content
    BY <1>1, <1>8, <1>10 DEF RenderAll, WorkerOK
  <2>2. CASE UnlockRender(rows[InHand] = None)
    BY <1>1, <1>4, <1>5, <1>10, <2>1, <2>2 DEF RenderAll, UnlockRender, disk, DiskType
  <2>3. CASE /\ step' = "install" /\ src' = files[InHand][KindOf[snap]] /\ src' # None
             /\ staged' = Renditions(snap)
             /\ UNCHANGED <<disk, lock, wake, failed, todo, item, snap>>
    <3>1. src' \in Content /\ staged' \subseteq Rendition
      BY <1>1, <2>1, <2>3, FileShapes DEF DiskType
    <3>2. QED
      BY <1>1, <2>1, <2>3, <3>1 DEF disk, HandlersOK, RequestType, DiskType, WorkerType, WorkerOK
  <2>4. QED
    BY <1>10, <2>2, <2>3 DEF RenderAll
<1>11. CASE InstallOne
  <2>1. InHand \in Photo /\ item \in Photo \X Content /\ src \in Content /\ snap \in Content
    BY <1>1, <1>8, <1>11 DEF InstallOne, WorkerOK
  <2>2. PICK v \in staged :
          /\ files' = [files EXCEPT ![InHand][v] = src] /\ staged' = staged \ {v}
          /\ step' \in {"trim", "install"}
    BY <1>11 DEF InstallOne
  <2>3. files' \in [Photo -> [File -> Content \cup {None}]]
    BY <1>1, <2>1, <2>2 DEF DiskType
  <2>4. QED
    BY <1>1, <1>11, <2>1, <2>2, <2>3
    DEF InstallOne, HandlersOK, RequestType, DiskType, WorkerType, WorkerOK
<1>12. CASE TrimLarge
  <2>1. files' \in [Photo -> [File -> Content \cup {None}]]
    BY <1>1, <1>12 DEF TrimLarge, DiskType
  <2>2. QED
    BY <1>1, <1>12, <2>1
    DEF TrimLarge, render, HandlersOK, RequestType, DiskType, WorkerType, WorkerOK
<1>13. CASE MarkReady
  <2>1. InHand \in Photo /\ item \in Photo \X Content
    BY <1>8, <1>13 DEF MarkReady
  <2>2. UNCHANGED <<albums, files, used>>
    BY <1>13 DEF MarkReady
  <2>3. CASE SameOriginal /\ SetRow(InHand, rows[InHand].hash, TRUE) /\ UnlockRender(TRUE)
    <3>1. rows' \in [Photo -> Row \cup {None}]
      <4>1. rows[InHand] # None /\ rows[InHand].hash \in Content
        BY <1>1, <2>1, <2>3, Shapes DEF SameOriginal, DiskType
      <4>2. QED
        BY <1>1, <2>1, <2>3, <4>1, SetRowOK
    <3>2. QED
      BY <1>1, <1>4, <1>5, <2>1, <2>2, <2>3, <3>1 DEF UnlockRender, DiskType
  <2>4. CASE step' = "takeback" /\ UNCHANGED <<rows, lock, wake, failed, todo, render>>
    BY <1>1, <2>1, <2>2, <2>4
    DEF render, HandlersOK, RequestType, DiskType, WorkerType, WorkerOK
  <2>5. QED
    BY <1>13, <2>3, <2>4 DEF MarkReady
<1>14. CASE TakeBack
  <2>1. InHand \in Photo /\ item \in Photo \X Content
    BY <1>8, <1>14 DEF TakeBack
  <2>2. DiskType'
    BY <1>1, <1>14, <2>1, FileShapes DEF TakeBack, DiskType
  <2>3. QED
    BY <1>1, <1>4, <1>5, <1>14, <2>1, <2>2 DEF TakeBack, UnlockRender
<1>15. QED
  BY <1>6, <1>7, <1>9, <1>10, <1>11, <1>12, <1>13, <1>14 DEF Work

LEMMA FaultSteps ==
  ASSUME TypeInv, Faults
  PROVE  TypeInv'
<1>1. /\ DiskType /\ HandlersOK /\ WorkerType /\ WorkerOK
      /\ faults' \in 0 .. MaxFaults /\ UNCHANGED disk
  <2>1. Fault /\ UNCHANGED disk
    BY DEF Faults, Crash, ListFails, RenderFails, LockedCallFails, OtherCallFails,
           InsertFails, CleanUpFails, RemoveOldFails
  <2>2. QED
    BY <2>1, LibraryAssumption DEF TypeInv, TypeOK, HandlersOK, Fault
<1>2. DiskType'
  BY <1>1 DEF DiskType, disk
<1>3. UNCHANGED worker => WorkerType' /\ WorkerOK'
  BY <1>1 DEF worker, render, WorkerType, WorkerOK
<1>4. CASE Crash
  <2>1. HandlersOK'
    BY <1>1, <1>4, Shapes DEF Crash, HandlersOK, RequestType, ReqOK
  <2>2. WorkerType' /\ WorkerOK'
    BY <1>4 DEF Crash, WorkerType, WorkerOK
  <2>3. QED
    BY <1>1, <1>2, <2>1, <2>2 DEF TypeInv, TypeOK, HandlersOK
<1>5. ASSUME NEW r \in Request, \/ LockedCallFails(r) \/ OtherCallFails(r) \/ InsertFails(r)
                               \/ CleanUpFails(r) \/ RemoveOldFails(r)
      PROVE  TypeInv'
  <2>1. WorkerType' /\ WorkerOK'
    BY <1>1, <1>3, <1>5 DEF LockedCallFails, OtherCallFails, InsertFails, CleanUpFails,
                            RemoveOldFails, render, WorkerType, WorkerOK
  <2>2. InsertFails(r) => photo[r] \in Photo /\ Goto(r, "cleanup")
    BY <1>1 DEF InsertFails, HandlersOK, ReqOK
  <2>3. Unlock(r) \/ InsertFails(r) \/ (Done(r) /\ UNCHANGED lock)
    BY <1>5 DEF LockedCallFails, OtherCallFails, CleanUpFails, RemoveOldFails
  <2>4. HandlersOK'
    <3>1. CASE Unlock(r) \/ (Done(r) /\ UNCHANGED lock)
      BY <1>1, <3>1, UnlockOK DEF Unlock
    <3>2. CASE InsertFails(r)
      <4>1. photo[r] \in Photo /\ Goto(r, "cleanup")
        BY <2>2, <3>2
      <4>2. QED
        BY <1>1, <4>1, GotoOK
    <3>3. QED
      BY <2>3, <3>1, <3>2
  <2>5. QED
    BY <1>1, <1>2, <2>1, <2>4 DEF TypeInv, TypeOK, HandlersOK
<1>6. CASE ListFails
  <2>1. HandlersOK'
    BY <1>1, <1>6 DEF ListFails, requests, HandlersOK, RequestType, ReqOK
  <2>2. WorkerType' /\ WorkerOK'
    BY <1>1, <1>6 DEF ListFails, render, WorkerType, WorkerOK
  <2>3. QED
    BY <1>1, <1>2, <2>1, <2>2 DEF TypeInv, TypeOK, HandlersOK
<1>7. CASE RenderFails
  <2>1. item \in Photo \X Content
    BY <1>1, <1>7 DEF RenderFails, WorkerOK
  <2>2. HandlersOK'
    BY <1>1, <1>7 DEF RenderFails, UnlockRender, requests, HandlersOK, RequestType, ReqOK
  <2>3. WorkerType' /\ WorkerOK'
    BY <1>1, <1>7, <2>1 DEF RenderFails, UnlockRender, RenderReturns, WorkerType, WorkerOK
  <2>4. QED
    BY <1>1, <1>2, <2>2, <2>3 DEF TypeInv, TypeOK, HandlersOK
<1>8. QED
  BY <1>4, <1>5, <1>6, <1>7 DEF Faults

LEMMA Typing == Spec => []TypeInv
<1>1. TypeInv /\ [Next]_vars => TypeInv'
  <2> SUFFICES ASSUME TypeInv, [Next]_vars PROVE TypeInv'
    OBVIOUS
  <2>1. CASE UNCHANGED vars
    BY <2>1 DEF vars, disk, requests, worker, render, TypeInv, TypeOK, DiskType,
                RequestType, WorkerType, ReqOK, WorkerOK
  <2>2. QED
    BY <2>1, RequestSteps, WorkerSteps, FaultSteps DEF Next
<1>2. QED
  BY InitType, <1>1, PTL DEF Spec

\* The tables, the files, every handler's values and the worker's keep their
\* types through every step, crash and failing call (ingest.go, render.go,
\* variants.go).
THEOREM TypeCorrect == Spec => []TypeOK
BY Typing, PTL DEF TypeInv

-----------------------------------------------------------------------------
(***************************************************************************)
(* Visible photos agree with their original.  The inductive invariant says *)
(* of every position what the holder of a photo's lock relies on.          *)
(***************************************************************************)

Shown(p) == Ready(p) => Agree(p, rows[p].hash)

IInv == TypeInv /\ NoneHalfDone /\ ReadyMeansAgree

LEMMA InitInv == Init => IInv
<1> SUFFICES ASSUME Init PROVE IInv
  OBVIOUS
<1>1. PICK h \in [Photo -> Content \cup {None}], l \in [Photo -> Lr] :
        /\ rows = [p \in Photo |-> IF h[p] = None THEN None ELSE NewRow(l[p], h[p], TRUE)]
        /\ files = [p \in Photo |-> IF h[p] = None THEN NoFiles ELSE StoredFiles(h[p])]
  BY DEF Init
<1>2. TypeInv
  BY InitType
<1>3. NoneHalfDone
  BY LibraryAssumption
  DEF Init, NoneHalfDone, LocksHeld, RowsHaveAlbums, RenderRelies, HandlerRelies,
      Holding, Rendering
<1>4. ASSUME NEW p \in Photo, Ready(p)
      PROVE  Agree(p, rows[p].hash)
  <2>1. h[p] \in Content /\ rows[p].hash = h[p] /\ files[p] = StoredFiles(h[p])
    <3>1. h[p] # None
      BY <1>1, <1>4 DEF Ready
    <3>2. h[p] \in Content /\ l[p] \in Lr /\ rows[p] = NewRow(l[p], h[p], TRUE)
          /\ files[p] = StoredFiles(h[p])
      BY <1>1, <3>1
    <3>3. rows[p].hash = h[p]
      BY <3>2 DEF NewRow
    <3>4. QED
      BY <3>2, <3>3
  <2>2. /\ KindOf[h[p]] \in File /\ KindOf[h[p]] \in Kind /\ Renditions(h[p]) \subseteq File
        /\ "large" \in File /\ "large" \notin Kind
    BY <2>1, FileShapes, LibraryAssumption DEF Rendition, File, Kind
  <2>3. h[p] \notin Wide => "large" \notin Renditions(h[p])
    BY LibraryAssumption DEF Renditions
  <2>4. h[p] # None
    BY <2>1, LibraryAssumption
  <2>5. files[p][KindOf[h[p]]] = h[p]
    BY <2>1, <2>2 DEF StoredFiles
  <2>6. \A v \in Renditions(h[p]) : files[p][v] = h[p]
    BY <2>1, <2>2 DEF StoredFiles
  <2>7. h[p] \notin Wide => files[p]["large"] = None
    BY <2>1, <2>2, <2>3 DEF StoredFiles
  <2>8. QED
    BY <2>1, <2>4, <2>5, <2>6, <2>7 DEF Agree
<1>5. QED
  BY <1>2, <1>3, <1>4 DEF IInv, ReadyMeansAgree

\* Only one handler, or the worker, is between two steps on a photo.
LEMMA Exclusive ==
  ASSUME IInv, NEW r \in Request, at[r] \in Holding
  PROVE  /\ photo[r] \in Photo /\ lock[photo[r]] = r
         /\ \A s \in Request : s # r /\ at[s] \in Holding => photo[s] # photo[r]
         /\ step \in Rendering => InHand # photo[r]
BY LibraryAssumption
DEF IInv, TypeInv, ReqOK, NoneHalfDone, LocksHeld, Holding

LEMMA ExclusiveWorker ==
  ASSUME IInv, step \in Rendering
  PROVE  /\ InHand \in Photo /\ item \in Photo \X Content
         /\ \A s \in Request : at[s] \in Holding => photo[s] # InHand
BY LibraryAssumption
DEF IInv, TypeInv, WorkerOK, NoneHalfDone, LocksHeld, Rendering, InHand

\* A step on one photo leaves what others rely on, and the other photos.
TouchesOnly(P) == \A q \in Photo \ P : rows'[q] = rows[q] /\ files'[q] = files[q]

LEMMA ReliesFrame ==
  ASSUME NEW s \in Request, HandlerRelies(s), at[s] \in Holding => rows'[photo[s]] = rows[photo[s]],
         at'[s] = at[s], req'[s] = req[s], photo'[s] = photo[s], old'[s] = old[s]
  PROVE  HandlerRelies(s)'
BY DEF HandlerRelies, Holding, Ready

LEMMA ShownFrame ==
  ASSUME NEW q \in Photo, Shown(q), rows'[q] = rows[q], files'[q] = files[q]
  PROVE  Shown(q)'
BY DEF Shown, Ready, Agree

LEMMA RenderFrame ==
  ASSUME RenderRelies, UNCHANGED <<step, render>>,
         step \in Rendering => rows'[InHand] = rows[InHand] /\ files'[InHand] = files[InHand]
  PROVE  RenderRelies'
<1>1. InHand' = InHand
  BY DEF InHand, render
<1>2. QED
  BY <1>1 DEF RenderRelies, Rendering, render

\* A step of the handler that holds its photo's lock: what remains to be shown
\* is about that handler and that photo.
LEMMA HandlerStep ==
  ASSUME IInv, NEW r \in Request, at[r] \in Holding, NEW p \in Photo, p = photo[r],
         TouchesOnly({p}), UNCHANGED <<albums, failed, step, todo, render>>,
         \/ at'[r] \in Holding /\ Goto(r, at'[r])
         \/ Unlock(r),
         HandlerRelies(r)', Shown(p)',
         rows'[p] # None => AlbumOf[p] \in albums
  PROVE  NoneHalfDone' /\ ReadyMeansAgree'
<1>1. /\ photo[r] \in Photo /\ lock[photo[r]] = r
      /\ \A s \in Request : s # r /\ at[s] \in Holding => photo[s] \in Photo /\ photo[s] # photo[r]
      /\ step \in Rendering => InHand \in Photo /\ InHand # photo[r]
  BY Exclusive, ExclusiveWorker
<1>2. RequestType /\ NoneHalfDone /\ ReadyMeansAgree
  BY DEF IInv, TypeInv, TypeOK
<1>3. ASSUME NEW s \in Request, s # r
      PROVE  at'[s] = at[s] /\ req'[s] = req[s] /\ photo'[s] = photo[s] /\ old'[s] = old[s]
  BY <1>2, <1>3 DEF Goto, Unlock, Done, RequestType
<1>4. ASSUME NEW q \in Photo, q # photo[r]
      PROVE  lock'[q] = lock[q]
  BY <1>2, <1>4 DEF Goto, Unlock, RequestType
<1>5. \/ at'[r] = "done"
      \/ at'[r] \in Holding /\ lock' = lock /\ photo' = photo
  BY <1>2 DEF Goto, Unlock, Done, RequestType
<1>6. InHand' = InHand
  BY DEF InHand, render
<1>7. LocksHeld'
  BY <1>1, <1>2, <1>3, <1>4, <1>5, <1>6 DEF NoneHalfDone, LocksHeld, Holding
<1>8. RowsHaveAlbums'
  <2>1. ASSUME NEW s \in Request, at'[s] = "rmalbum"
        PROVE  req'[s].album \notin albums'
    <3>1. s # r
      BY <1>5, <2>1 DEF Holding
    <3>2. QED
      BY <1>2, <1>3, <2>1, <3>1 DEF NoneHalfDone, RowsHaveAlbums
  <2>2. ASSUME NEW q \in Photo, rows'[q] # None
        PROVE  AlbumOf[q] \in albums'
    BY <1>2, <2>2 DEF NoneHalfDone, RowsHaveAlbums, TouchesOnly
  <2>3. QED
    BY <2>1, <2>2 DEF RowsHaveAlbums
<1>9. ASSUME NEW s \in Request
      PROVE  HandlerRelies(s)'
  <2>1. CASE s # r
    <3>1. HandlerRelies(s) /\ (at[s] \in Holding => rows'[photo[s]] = rows[photo[s]])
      BY <1>1, <1>2, <2>1 DEF NoneHalfDone, TouchesOnly
    <3>2. QED
      BY <1>3, <2>1, <3>1, ReliesFrame
  <2>2. QED
    BY <2>1 DEF HandlerRelies
<1>10. RenderRelies'
  BY <1>1, <1>2, RenderFrame DEF NoneHalfDone, TouchesOnly
<1>11. ReadyMeansAgree'
  <2>1. ASSUME NEW q \in Photo
        PROVE  Shown(q)'
    <3>1. CASE q # p
      BY <1>2, <3>1, ShownFrame DEF ReadyMeansAgree, Shown, TouchesOnly
    <3>2. QED
      BY <3>1
  <2>2. QED
    BY <2>1 DEF ReadyMeansAgree, Shown
<1>12. QED
  BY <1>7, <1>8, <1>9, <1>10, <1>11 DEF NoneHalfDone

LEMMA AfterUnlock ==
  ASSUME RequestType, NEW r \in Request, Unlock(r)
  PROVE  HandlerRelies(r)'
BY DEF RequestType, Unlock, Done, HandlerRelies

LEMMA AfterGoto ==
  ASSUME RequestType, NEW r \in Request, NEW pos, Goto(r, pos)
  PROVE  at'[r] = pos /\ UNCHANGED <<req, photo, old, lock>>
BY DEF RequestType, Goto

\* One lemma per action of a handler that holds its photo's lock.
LEMMA HandlerActions ==
  ASSUME IInv, NEW r \in Request,
         \/ HideOld(r) \/ CommitOriginal(r) \/ InsertRow(r) \/ UpdateRow(r)
         \/ CleanUp(r) \/ KickAndAnswer(r) \/ DeleteRow(r)
         \/ LockedCallFails(r) \/ InsertFails(r) \/ CleanUpFails(r) \/ RemoveOldFails(r)
  PROVE  NoneHalfDone' /\ ReadyMeansAgree'
<1> DEFINE p == photo[r]
<1>1. at[r] \in Holding
  BY DEF HideOld, CommitOriginal, InsertRow, UpdateRow, CleanUp, KickAndAnswer, DeleteRow,
         LockedCallFails, InsertFails, CleanUpFails, RemoveOldFails, Holding
<1>2. /\ RequestType /\ DiskType /\ HandlerRelies(r) /\ Shown(p) /\ p \in Photo
      /\ rows[p] # None => AlbumOf[p] \in albums
  BY <1>1, Exclusive
  DEF IInv, TypeInv, TypeOK, NoneHalfDone, RowsHaveAlbums, ReadyMeansAgree, Shown
<1>3. UNCHANGED <<albums, failed, step, todo, render>>
  BY DEF HideOld, CommitOriginal, InsertRow, UpdateRow, CleanUp, KickAndAnswer, DeleteRow,
         LockedCallFails, InsertFails, CleanUpFails, RemoveOldFails, worker, disk
<1>4. PICK x \in Photo : x = photo[r]
  BY <1>2
<1>5. SUFFICES /\ TouchesOnly({x})
               /\ (at'[r] \in Holding /\ Goto(r, at'[r])) \/ Unlock(r)
               /\ HandlerRelies(r)' /\ Shown(x)'
               /\ rows'[x] # None => AlbumOf[x] \in albums
  BY <1>1, <1>3, <1>4, HandlerStep
<1>6. rows[x] # None => AlbumOf[x] \in albums
  BY <1>2, <1>4
<1>7. Shown(x)
  BY <1>2, <1>4
<1>8. CASE HideOld(r)
  <2>1. files' = files /\ at[r] = "hide"
    BY <1>8 DEF HideOld
  <2>2. CASE Unlock(r) /\ UNCHANGED rows
    BY <1>2, <1>4, <1>6, <1>7, <2>1, <2>2, AfterUnlock, ShownFrame DEF TouchesOnly
  <2>3. CASE /\ rows[x] # None /\ Goto(r, "commit") /\ SetRow(x, rows[x].hash, FALSE)
    <3>1. at'[r] = "commit" /\ UNCHANGED <<req, photo, old, lock>>
      BY <1>2, <2>3, AfterGoto
    <3>2. rows' = [rows EXCEPT ![x] = rows'[x]] /\ rows'[x] = NewRow(rows[x].lr, rows[x].hash, FALSE)
      BY <1>2, <2>3 DEF SetRow, DiskType
    <3>3. ~rows'[x].ready /\ rows'[x].hash = rows[x].hash
      BY <3>2 DEF NewRow
    <3>4. old[r] \in Row
      BY <2>1 DEF IInv, TypeInv, ReqOK
    <3>5. HandlerRelies(r)'
      BY <1>2, <1>4, <2>1, <2>3, <3>1, <3>3, <3>4, LibraryAssumption DEF HandlerRelies, Ready
    <3>6. TouchesOnly({x})
      BY <1>2, <2>1, <3>2 DEF TouchesOnly, DiskType
    <3>7. Shown(x)'
      BY <3>3 DEF Shown, Ready
    <3>8. QED
      BY <1>6, <2>3, <3>1, <3>5, <3>6, <3>7 DEF Holding
  <2>4. QED
    BY <1>4, <1>8, <2>2, <2>3 DEF HideOld
<1>9. CASE CommitOriginal(r)
  <2>1. /\ rows' = rows /\ at[r] = "commit" /\ Goto(r, "write")
        /\ files' = [files EXCEPT ![x][KindOf[req[r].file]] = req[r].file]
    BY <1>4, <1>9 DEF CommitOriginal
  <2>2. at'[r] = "write" /\ UNCHANGED <<req, photo, old, lock>>
    BY <1>2, <2>1, AfterGoto
  <2>3. ~Ready(x) /\ ~Ready(x)'
    BY <1>2, <1>4, <2>1 DEF HandlerRelies, Ready
  <2>4. HandlerRelies(r)'
    BY <1>2, <1>4, <2>1, <2>2, <2>3 DEF HandlerRelies
  <2>5. TouchesOnly({x})
    BY <1>2, <2>1 DEF TouchesOnly, DiskType
  <2>6. QED
    BY <1>6, <2>1, <2>2, <2>3, <2>4, <2>5 DEF Shown, Holding
<1>10. CASE InsertRow(r)
  <2>1. files' = files /\ at[r] = "write" /\ old[r] = None
    BY <1>10 DEF InsertRow
  <2>2. rows[x] = None
    BY <1>2, <1>4, <2>1 DEF HandlerRelies
  <2>3. CASE Goto(r, "cleanup") /\ UNCHANGED rows
    <3>1. at'[r] = "cleanup" /\ UNCHANGED <<req, photo, old, lock>>
      BY <1>2, <2>3, AfterGoto
    <3>2. HandlerRelies(r)'
      BY <1>4, <2>2, <2>3, <3>1 DEF HandlerRelies
    <3>3. QED
      BY <1>7, <2>1, <2>2, <2>3, <3>1, <3>2, ShownFrame DEF TouchesOnly, Holding
  <2>4. CASE /\ Insertable(x, req[r].lr) /\ Goto(r, "kick")
             /\ rows' = [rows EXCEPT ![x] = NewRow(req[r].lr, req[r].file, FALSE)]
    <3>1. at'[r] = "kick" /\ UNCHANGED <<req, photo, old, lock>>
      BY <1>2, <2>4, AfterGoto
    <3>2. rows'[x] = NewRow(req[r].lr, req[r].file, FALSE) /\ TouchesOnly({x})
      BY <1>2, <2>1, <2>4 DEF DiskType, TouchesOnly
    <3>3. ~Ready(x)'
      BY <3>2 DEF NewRow, Ready
    <3>4. HandlerRelies(r)'
      BY <1>4, <3>1, <3>3 DEF HandlerRelies
    <3>5. QED
      BY <2>4, <3>1, <3>2, <3>3, <3>4 DEF Insertable, Shown, Holding
  <2>5. QED
    BY <1>4, <1>10, <2>3, <2>4 DEF InsertRow
<1>11. CASE UpdateRow(r)
  <2>1. files' = files /\ at[r] = "write" /\ old[r] # None
    BY <1>11 DEF UpdateRow
  <2>2. CASE Unlock(r) /\ UNCHANGED rows
    BY <1>2, <1>4, <1>6, <1>7, <2>1, <2>2, AfterUnlock, ShownFrame DEF TouchesOnly
  <2>3. CASE rows[x] # None /\ SetRow(x, old[r].hash, rows[x].ready) /\ Unlock(r)
    <3>1. rows[x].hash = old[r].hash
      BY <1>2, <1>4, <2>1, <2>3 DEF HandlerRelies
    <3>2. rows[x] \in Row /\ rows'[x] = NewRow(rows[x].lr, rows[x].hash, rows[x].ready)
          /\ TouchesOnly({x})
      BY <1>2, <2>1, <2>3, <3>1 DEF SetRow, DiskType, TouchesOnly
    <3>3. rows'[x] = rows[x]
      BY <3>2 DEF NewRow, Row
    <3>4. Shown(x)'
      BY <1>7, <2>1, <3>3, ShownFrame
    <3>5. QED
      BY <1>2, <1>6, <2>3, <3>2, <3>4, AfterUnlock
  <2>4. CASE /\ rows[x] # None /\ req[r].file # None /\ Goto(r, "kick")
             /\ SetRow(x, req[r].file, rows[x].ready)
    <3>1. at'[r] = "kick" /\ UNCHANGED <<req, photo, old, lock>>
      BY <1>2, <2>4, AfterGoto
    <3>2. rows'[x] = NewRow(rows[x].lr, req[r].file, rows[x].ready) /\ TouchesOnly({x})
      BY <1>2, <2>1, <2>4 DEF SetRow, DiskType, TouchesOnly
    <3>3. ~rows[x].ready
      BY <1>2, <1>4, <2>1, <2>4 DEF HandlerRelies, Ready
    <3>4. ~Ready(x)'
      BY <3>2, <3>3 DEF NewRow, Ready
    <3>5. HandlerRelies(r)'
      BY <1>4, <3>1, <3>4 DEF HandlerRelies
    <3>6. QED
      BY <1>6, <2>4, <3>1, <3>2, <3>4, <3>5 DEF Shown, Holding
  <2>5. QED
    BY <1>4, <1>11, <2>2, <2>3, <2>4 DEF UpdateRow
<1>12. CASE CleanUp(r)
  <2>1. /\ rows' = rows /\ Unlock(r) /\ files' = [files EXCEPT ![x] = NoFiles]
        /\ rows[x] = None
    BY <1>2, <1>4, <1>12 DEF CleanUp, HandlerRelies
  <2>2. TouchesOnly({x}) /\ Shown(x)'
    BY <1>2, <2>1 DEF TouchesOnly, DiskType, Shown, Ready
  <2>3. QED
    BY <1>2, <1>6, <2>1, <2>2, AfterUnlock
<1>13. CASE KickAndAnswer(r)
  <2>1. /\ rows' = rows /\ Unlock(r) /\ at[r] = "kick"
        /\ \/ files' = [files EXCEPT ![x][KindOf[old[r].hash]] = None]
           \/ files' = files
    BY <1>4, <1>13 DEF KickAndAnswer
  <2>2. ~Ready(x) /\ ~Ready(x)'
    BY <1>2, <1>4, <2>1 DEF HandlerRelies, Ready
  <2>3. TouchesOnly({x})
    BY <1>2, <2>1 DEF TouchesOnly, DiskType
  <2>4. QED
    BY <1>2, <1>6, <2>1, <2>2, <2>3, AfterUnlock DEF Shown
<1>14. CASE DeleteRow(r)
  <2>1. files' = files /\ at[r] = "deleterow"
    BY <1>14 DEF DeleteRow
  <2>2. CASE Unlock(r) /\ UNCHANGED rows
    BY <1>2, <1>4, <1>6, <1>7, <2>1, <2>2, AfterUnlock, ShownFrame DEF TouchesOnly
  <2>3. CASE rows' = [rows EXCEPT ![x] = None] /\ Goto(r, "cleanup")
    <3>1. at'[r] = "cleanup" /\ UNCHANGED <<req, photo, old, lock>>
      BY <1>2, <2>3, AfterGoto
    <3>2. rows'[x] = None /\ TouchesOnly({x})
      BY <1>2, <2>1, <2>3 DEF DiskType, TouchesOnly
    <3>3. HandlerRelies(r)' /\ Shown(x)'
      BY <1>4, <3>1, <3>2 DEF HandlerRelies, Shown, Ready
    <3>4. QED
      BY <2>3, <3>1, <3>2, <3>3 DEF Holding
  <2>4. QED
    BY <1>4, <1>14, <2>2, <2>3 DEF DeleteRow
<1>15. CASE LockedCallFails(r) \/ CleanUpFails(r) \/ RemoveOldFails(r)
  <2>1. Unlock(r) /\ UNCHANGED <<rows, files>>
    BY <1>15 DEF LockedCallFails, CleanUpFails, RemoveOldFails, disk
  <2>2. QED
    BY <1>2, <1>6, <1>7, <2>1, AfterUnlock, ShownFrame DEF TouchesOnly
<1>16. CASE InsertFails(r)
  <2>1. Goto(r, "cleanup") /\ UNCHANGED <<rows, files>> /\ at[r] = "write" /\ old[r] = None
    BY <1>16 DEF InsertFails, disk
  <2>2. at'[r] = "cleanup" /\ UNCHANGED <<req, photo, old, lock>>
    BY <1>2, <2>1, AfterGoto
  <2>3. HandlerRelies(r)'
    BY <1>2, <2>1, <2>2 DEF HandlerRelies
  <2>4. QED
    BY <1>6, <1>7, <2>1, <2>2, <2>3, ShownFrame DEF TouchesOnly, Holding
<1>17. QED
  BY <1>8, <1>9, <1>10, <1>11, <1>12, <1>13, <1>14, <1>15, <1>16

\* A step of a request that holds no lock yet, or of an album's deletion: it
\* may take a free lock, take rows away, and touch files no row owns.
LEMMA OutsideStep ==
  ASSUME IInv, NEW r \in Request, at[r] \notin Holding,
         UNCHANGED <<failed, step, todo, render>>,
         \A s \in Request : s # r =>
           at'[s] = at[s] /\ req'[s] = req[s] /\ photo'[s] = photo[s] /\ old'[s] = old[s],
         \A q \in Photo : /\ rows'[q] \in {rows[q], None}
                          /\ files'[q] = files[q] \/ rows'[q] = None
                          /\ lock[q] # None => lock'[q] = lock[q],
         at'[r] \in Holding => lock'[photo'[r]] = r,
         RowsHaveAlbums', HandlerRelies(r)'
  PROVE  NoneHalfDone' /\ ReadyMeansAgree'
<1>1. NoneHalfDone /\ ReadyMeansAgree /\ TypeInv
  BY DEF IInv
<1>2. InHand' = InHand /\ UNCHANGED <<step, snap, src, staged>>
  BY DEF InHand, render
<1>3. step \in Rendering => InHand \in Photo /\ lock[InHand] = "worker"
  BY <1>1, ExclusiveWorker DEF NoneHalfDone, LocksHeld
<1>4. ASSUME NEW s \in Request, at[s] \in Holding
      PROVE  photo[s] \in Photo /\ lock[photo[s]] = s
  BY <1>4, Exclusive
<1>5. LocksHeld'
  <2>1. ASSUME NEW s \in Request, at'[s] \in Holding
        PROVE  lock'[photo'[s]] = s
    <3>1. CASE s = r
      BY <2>1, <3>1
    <3>2. CASE s # r
      BY <1>4, <2>1, <3>2, LibraryAssumption
    <3>3. QED
      BY <3>1, <3>2
  <2>2. step' \in Rendering => lock'[InHand'] = "worker"
    BY <1>2, <1>3, LibraryAssumption
  <2>3. QED
    BY <2>1, <2>2 DEF LocksHeld, Holding, Rendering
<1>6. ASSUME NEW s \in Request
      PROVE  HandlerRelies(s)'
  <2>1. CASE s # r /\ (at[s] \in Holding => rows'[photo[s]] = rows[photo[s]])
    BY <1>1, <2>1, ReliesFrame DEF NoneHalfDone
  <2>2. CASE s # r /\ at[s] \in Holding /\ rows'[photo[s]] = None
    BY <2>2 DEF HandlerRelies, Ready
  <2>3. QED
    BY <1>4, <2>1, <2>2
<1>7. RenderRelies'
  <2>1. CASE step \in Rendering /\ rows'[InHand] = None
    BY <1>1, <1>2, <2>1 DEF RenderRelies, NoneHalfDone
  <2>2. CASE step \in Rendering => rows'[InHand] = rows[InHand] /\ files'[InHand] = files[InHand]
    BY <1>1, <2>2, RenderFrame DEF NoneHalfDone
  <2>3. QED
    BY <1>3, <2>1, <2>2
<1>8. ReadyMeansAgree'
  <2>1. ASSUME NEW q \in Photo
        PROVE  Shown(q)'
    <3>1. CASE rows'[q] = None
      BY <3>1 DEF Shown, Ready
    <3>2. CASE rows'[q] = rows[q] /\ files'[q] = files[q]
      BY <1>1, <3>2, ShownFrame DEF ReadyMeansAgree, Shown
    <3>3. QED
      BY <3>1, <3>2
  <2>2. QED
    BY <2>1 DEF ReadyMeansAgree, Shown
<1>9. QED
  BY <1>5, <1>6, <1>7, <1>8 DEF NoneHalfDone

LEMMA OutsideActions ==
  ASSUME IInv, NEW r \in Request,
         \/ Start(r) \/ Lock(r) \/ Resolve(r) \/ DropAlbumRow(r) \/ RemoveAlbumDir(r)
         \/ OtherCallFails(r)
  PROVE  NoneHalfDone' /\ ReadyMeansAgree'
<1>1. RequestType /\ DiskType /\ ReqOK /\ RowsHaveAlbums /\ LibraryAssumption
  BY LibraryAssumption DEF IInv, TypeInv, TypeOK, NoneHalfDone, LibraryAssumption
<1>2. ASSUME NEW pos, NEW p, NEW q, Begin(r, pos, p, q),
             pos \in {"resolve", "lock", "lockdelete", "dropalbum"}
      PROVE  NoneHalfDone' /\ ReadyMeansAgree'
  <2>1. /\ at[r] = "start" /\ at' = [at EXCEPT ![r] = pos]
        /\ photo' = [photo EXCEPT ![r] = p] /\ req' = [req EXCEPT ![r] = q]
        /\ UNCHANGED <<albums, rows, files, lock, old, failed, step, todo, render>>
    BY <1>2 DEF Begin, disk, worker
  <2>2. at'[r] = pos /\ \A s \in Request : s # r =>
           at'[s] = at[s] /\ req'[s] = req[s] /\ photo'[s] = photo[s] /\ old'[s] = old[s]
    BY <1>1, <2>1 DEF RequestType
  <2>3. RowsHaveAlbums' /\ HandlerRelies(r)'
    BY <1>1, <1>2, <2>1, <2>2 DEF RowsHaveAlbums, HandlerRelies
  <2>4. QED
    BY <1>2, <2>1, <2>2, <2>3, OutsideStep DEF Holding
<1>3. CASE Start(r)
  BY <1>2, <1>3 DEF Start, StartPost, StartPut, StartDelete, StartDeleteAlbum
<1>4. Done(r) => /\ at'[r] = "done" /\ HandlerRelies(r)'
                 /\ \A s \in Request : s # r =>
                      at'[s] = at[s] /\ req'[s] = req[s] /\ photo'[s] = photo[s] /\ old'[s] = old[s]
  BY <1>1 DEF Done, RequestType, HandlerRelies
<1>5. CASE LockIngest(r)
  <2>1. at[r] = "lock" /\ UNCHANGED <<albums, rows, files>> /\ lock[photo[r]] = None
    BY <1>5 DEF LockIngest, disk
  <2>2. PICK x \in Photo : x = photo[r]
    BY <1>1, <2>1 DEF ReqOK
  <2>3. CASE Done(r) /\ UNCHANGED lock
    <3>1. RowsHaveAlbums'
      BY <1>1, <2>1, <2>3, <1>4 DEF RowsHaveAlbums
    <3>2. UNCHANGED <<failed, step, todo, render>>
      BY <1>5 DEF LockIngest, worker
    <3>3. QED
      BY <1>4, <2>1, <2>3, <3>1, <3>2, OutsideStep DEF Holding
  <2>4. CASE ~(Done(r) /\ UNCHANGED lock)
    <3>1. /\ lock' = [lock EXCEPT ![x] = r] /\ old' = [old EXCEPT ![r] = rows[x]]
          /\ UNCHANGED <<req, photo, failed, step, todo, render>>
          /\ at' = [at EXCEPT ![r] = IF req[r].file = None THEN "write"
                                     ELSE IF rows[x] = None THEN "commit" ELSE "hide"]
          /\ rows[x] = None => req[r].lr # None /\ req[r].file # None
      BY <1>5, <2>2, <2>4 DEF LockIngest, worker
    <3>2. /\ \A s \in Request : s # r => at'[s] = at[s] /\ old'[s] = old[s]
          /\ old'[r] = rows[x]
          /\ at'[r] = IF req[r].file = None THEN "write"
                      ELSE IF rows[x] = None THEN "commit" ELSE "hide"
          /\ \A q \in Photo : lock[q] # None => lock'[q] = lock[q]
          /\ lock'[x] = r
      BY <1>1, <2>1, <2>2, <3>1 DEF RequestType
    <3>3. rows[x] = None => ~Ready(x)
      BY DEF Ready
    <3>4. HandlerRelies(r)'
      BY <2>1, <2>2, <3>1, <3>2, <3>3 DEF HandlerRelies, Ready
    <3>5. RowsHaveAlbums'
      BY <1>1, <2>1, <3>1, <3>2 DEF RowsHaveAlbums
    <3>6. QED
      BY <2>1, <2>2, <3>1, <3>2, <3>4, <3>5, OutsideStep DEF Holding
  <2>5. QED
    BY <2>3, <2>4
<1>6. CASE LockDelete(r)
  <2>1. /\ at[r] = "lockdelete" /\ lock[photo[r]] = None
        /\ lock' = [lock EXCEPT ![photo[r]] = r] /\ at' = [at EXCEPT ![r] = "deleterow"]
        /\ UNCHANGED <<albums, rows, files, req, photo, old, failed, step, todo, render>>
    BY <1>6 DEF LockDelete, disk, worker
  <2>2. /\ at'[r] = "deleterow" /\ \A s \in Request : s # r => at'[s] = at[s]
        /\ \A q \in Photo : lock[q] # None => lock'[q] = lock[q]
        /\ lock'[photo[r]] = r
    BY <1>1, <2>1 DEF RequestType, ReqOK
  <2>3. HandlerRelies(r)' /\ RowsHaveAlbums'
    BY <1>1, <2>1, <2>2 DEF HandlerRelies, RowsHaveAlbums
  <2>4. QED
    BY <2>1, <2>2, <2>3, OutsideStep DEF Holding
<1>7. CASE Resolve(r)
  <2>1. PICK p \in Photo : photo' = [photo EXCEPT ![r] = p]
    BY <1>7 DEF Resolve
  <2>2. /\ at[r] = "resolve" /\ at' = [at EXCEPT ![r] = "lock"]
        /\ UNCHANGED <<albums, rows, files, lock, req, old, failed, step, todo, render>>
    BY <1>7 DEF Resolve, worker
  <2>3. /\ at'[r] = "lock" /\ \A s \in Request : s # r => at'[s] = at[s] /\ photo'[s] = photo[s]
    BY <1>1, <2>1, <2>2 DEF RequestType
  <2>4. HandlerRelies(r)' /\ RowsHaveAlbums'
    BY <1>1, <2>2, <2>3 DEF HandlerRelies, RowsHaveAlbums
  <2>5. QED
    BY <2>2, <2>3, <2>4, OutsideStep DEF Holding
<1>8. CASE DropAlbumRow(r)
  <2>1. /\ at[r] = "dropalbum" /\ UNCHANGED <<files, lock, failed, step, todo, render>>
        /\ albums' = albums \ {req[r].album} /\ Goto(r, "rmalbum")
        /\ rows' = [p \in Photo |-> IF AlbumOf[p] = req[r].album THEN None ELSE rows[p]]
    BY <1>8 DEF DropAlbumRow, Goto, worker
  <2>2. /\ at'[r] = "rmalbum" /\ UNCHANGED <<req, photo, old>>
        /\ \A s \in Request : s # r => at'[s] = at[s]
    BY <1>1, <2>1 DEF RequestType, Goto
  <2>3. HandlerRelies(r)' /\ RowsHaveAlbums'
    BY <1>1, <2>1, <2>2 DEF HandlerRelies, RowsHaveAlbums
  <2>4. QED
    BY <2>1, <2>2, <2>3, OutsideStep DEF Holding
<1>9. CASE RemoveAlbumDir(r)
  <2>1. /\ at[r] = "rmalbum" /\ Done(r)
        /\ UNCHANGED <<albums, rows, lock, failed, step, todo, render>>
        /\ files' = [p \in Photo |-> IF AlbumOf[p] = req[r].album THEN NoFiles ELSE files[p]]
    BY <1>9 DEF RemoveAlbumDir, worker
  <2>2. RowsHaveAlbums'
    BY <1>1, <2>1, <1>4 DEF RowsHaveAlbums
  <2>3. \A q \in Photo : files'[q] = files[q] \/ rows'[q] = None
    BY <1>1, <2>1 DEF RowsHaveAlbums
  <2>4. QED
    BY <1>4, <2>1, <2>2, <2>3, OutsideStep DEF Holding
<1>10. CASE OtherCallFails(r)
  <2>1. /\ at[r] \in {"resolve", "dropalbum", "rmalbum", "lock"} /\ Done(r)
        /\ UNCHANGED <<albums, rows, files, lock, failed, step, todo, render>>
    BY <1>10 DEF OtherCallFails, disk, worker
  <2>2. RowsHaveAlbums'
    BY <1>1, <2>1, <1>4 DEF RowsHaveAlbums
  <2>3. QED
    BY <1>4, <2>1, <2>2, OutsideStep DEF Holding
<1>11. QED
  BY <1>3, <1>5, <1>6, <1>7, <1>8, <1>9, <1>10 DEF Lock

\* A step of the worker: it touches photos only while it holds their lock, and
\* may take a free lock or give its own up.
LEMMA WorkerStep ==
  ASSUME IInv, UNCHANGED <<albums, requests>>, NEW P \in SUBSET Photo,
         \A q \in P : lock[q] = "worker" /\ Shown(q)',
         TouchesOnly(P),
         \A q \in Photo : /\ rows'[q] # None => rows[q] # None
                          /\ lock[q] \in Request => lock'[q] = lock[q],
         step' \in Rendering => lock'[InHand'] = "worker",
         RenderRelies'
  PROVE  NoneHalfDone' /\ ReadyMeansAgree'
<1>1. /\ NoneHalfDone /\ ReadyMeansAgree
      /\ UNCHANGED <<albums, at, req, photo, old>>
  BY DEF IInv, requests
<1>2. ASSUME NEW s \in Request, at[s] \in Holding
      PROVE  photo[s] \in Photo \ P /\ lock'[photo[s]] = s
  BY <1>2, Exclusive, LibraryAssumption
<1>3. LocksHeld' /\ RowsHaveAlbums'
  BY <1>1, <1>2 DEF NoneHalfDone, LocksHeld, RowsHaveAlbums, Holding, Rendering
<1>4. ASSUME NEW s \in Request
      PROVE  HandlerRelies(s)'
  BY <1>1, <1>2, ReliesFrame DEF NoneHalfDone, TouchesOnly
<1>5. ASSUME NEW q \in Photo
      PROVE  Shown(q)'
  <2>1. CASE q \in P
    BY <2>1
  <2>2. CASE q \notin P
    BY <1>1, <2>2, ShownFrame DEF TouchesOnly, ReadyMeansAgree, Shown
  <2>3. QED
    BY <2>1, <2>2
<1>6. QED
  BY <1>3, <1>4, <1>5 DEF NoneHalfDone, ReadyMeansAgree, Shown

\* Between two photos the worker relies on nothing.
LEMMA WorkerIdles ==
  ASSUME IInv, UNCHANGED <<albums, rows, files, requests>>, step' \notin Rendering,
         NEW p, p = InHand,
         \/ UNCHANGED lock
         \/ lock' = [lock EXCEPT ![p] = None] /\ step \in Rendering
  PROVE  NoneHalfDone' /\ ReadyMeansAgree'
<1>1. RenderRelies'
  BY DEF RenderRelies, Rendering
<1>2. step \in Rendering => lock[p] = "worker"
  BY DEF IInv, NoneHalfDone, LocksHeld
<1>3. \A q \in Photo : lock[q] \in Request => lock'[q] = lock[q]
  BY <1>2, LibraryAssumption DEF IInv, TypeInv, TypeOK, RequestType
<1>4. TouchesOnly({})
  BY DEF TouchesOnly
<1>5. QED
  BY <1>1, <1>3, <1>4, WorkerStep

LEMMA WorkerActions ==
  ASSUME IInv, Work \/ ListFails \/ RenderFails
  PROVE  NoneHalfDone' /\ ReadyMeansAgree'
<1>1. /\ DiskType /\ RequestType /\ WorkerType /\ WorkerOK
      /\ RenderRelies /\ ReadyMeansAgree /\ UNCHANGED <<albums, requests>>
  BY DEF IInv, TypeInv, TypeOK, NoneHalfDone, Work, TakeToken, Tick, ListPending, PickNext,
         LockRender, RenderAll, InstallOne, TrimLarge, MarkReady, TakeBack, ListFails,
         RenderFails, disk
<1>2. PICK p : p = InHand
  OBVIOUS
<1>3. step \in Rendering => p \in Photo /\ lock[p] = "worker" /\ item \in Photo \X Content
  BY <1>2, ExclusiveWorker DEF IInv, NoneHalfDone, LocksHeld
<1>4. ASSUME NEW ok, UnlockRender(ok)
      PROVE  step' = "next" /\ lock' = [lock EXCEPT ![p] = None]
  BY <1>2, <1>4 DEF UnlockRender, RenderReturns
<1>5. CASE TakeToken \/ Tick \/ ListPending \/ PickNext \/ ListFails
  <2>1. UNCHANGED <<rows, files, lock>> /\ step' \in {"idle", "list", "next", "lock"}
    BY <1>5 DEF TakeToken, Tick, ListPending, PickNext, ListFails, disk
  <2>2. QED
    BY <1>1, <1>2, <2>1, WorkerIdles DEF Rendering
<1>6. CASE RenderFails
  <2>1. UNCHANGED <<rows, files>>
    BY <1>6 DEF RenderFails, disk
  <2>2. CASE RenderReturns(FALSE) /\ UNCHANGED lock
    <3>1. step' = "next"
      BY <2>2 DEF RenderReturns
    <3>2. QED
      BY <1>1, <1>2, <2>1, <2>2, <3>1, WorkerIdles DEF Rendering
  <2>3. CASE step \in Rendering /\ \E ok \in BOOLEAN : UnlockRender(ok)
    BY <1>1, <1>2, <1>4, <2>1, <2>3, WorkerIdles DEF Rendering
  <2>4. QED
    BY <1>6, <2>2, <2>3 DEF RenderFails, Rendering
<1>7. CASE LockRender
  <2>1. UNCHANGED <<rows, files>> /\ step = "lock"
    BY <1>7 DEF LockRender, disk
  <2>2. CASE RenderReturns(TRUE) /\ UNCHANGED lock
    BY <1>1, <1>2, <2>1, <2>2, WorkerIdles DEF RenderReturns, Rendering
  <2>3. CASE /\ Pending(p) /\ lock' = [lock EXCEPT ![p] = "worker"]
             /\ step' = "render" /\ snap' = rows[p].hash /\ UNCHANGED <<item, src, staged>>
             /\ lock[p] = None
    <3>1. InHand' = p /\ p \in Photo
      BY <1>1, <1>2, <2>1, <2>3 DEF InHand, WorkerOK
    <3>2. RenderRelies'
      BY <2>1, <2>3, <3>1 DEF RenderRelies, Pending
    <3>3. lock'[p] = "worker" /\ \A q \in Photo : lock[q] \in Request => lock'[q] = lock[q]
      BY <1>1, <2>3, <3>1, LibraryAssumption DEF RequestType
    <3>4. TouchesOnly({})
      BY <2>1 DEF TouchesOnly
    <3>5. QED
      BY <1>1, <2>1, <3>1, <3>2, <3>3, <3>4, WorkerStep
  <2>4. QED
    BY <1>2, <1>7, <2>2, <2>3 DEF LockRender
<1>8. CASE RenderAll
  <2>1. UNCHANGED <<rows, files>> /\ step = "render"
    BY <1>8 DEF RenderAll, disk
  <2>2. CASE \E ok \in BOOLEAN : UnlockRender(ok)
    BY <1>1, <1>2, <1>4, <2>1, <2>2, WorkerIdles DEF Rendering
  <2>3. CASE /\ step' = "install" /\ src' = files[p][KindOf[snap]]
             /\ staged' = Renditions(snap) /\ UNCHANGED <<lock, item, snap>>
    <3>1. InHand' = p
      BY <1>2, <2>3 DEF InHand
    <3>2. RenderRelies'
      BY <1>1, <1>2, <2>1, <2>3, <3>1 DEF RenderRelies, Renditions
    <3>3. TouchesOnly({}) /\ lock[p] = "worker"
      BY <1>3, <2>1 DEF TouchesOnly, Rendering
    <3>4. QED
      BY <1>1, <2>1, <2>3, <3>1, <3>2, <3>3, WorkerStep
  <2>4. QED
    BY <1>2, <1>8, <2>2, <2>3 DEF RenderAll
<1>9. CASE InstallOne
  <2>1. PICK v \in staged : /\ files' = [files EXCEPT ![p][v] = src]
                            /\ staged' = staged \ {v}
                            /\ step' = IF staged = {v} THEN "trim" ELSE "install"
    BY <1>2, <1>9 DEF InstallOne
  <2>2. /\ step = "install" /\ UNCHANGED <<rows, lock, item, snap, src>> /\ InHand' = p
        /\ p \in Photo /\ lock[p] = "worker" /\ snap \in Content /\ v \in Rendition
    BY <1>1, <1>2, <1>3, <1>9 DEF InstallOne, Rendering, InHand, WorkerOK, WorkerType
  <2>3. /\ v \in File /\ v # KindOf[snap] /\ files[p] \in [File -> Content \cup {None}]
        /\ Renditions(snap) \subseteq File /\ KindOf[snap] \in File
    BY <1>1, <2>2, FileShapes DEF DiskType
  <2>4. /\ files'[p] = [files[p] EXCEPT ![v] = src] /\ TouchesOnly({p})
    BY <1>1, <2>1, <2>2 DEF DiskType, TouchesOnly
  <2>5. RenderRelies'
    BY <1>1, <1>2, <2>1, <2>2, <2>3, <2>4 DEF RenderRelies
  <2>6. Shown(p)'
    BY <1>1, <1>2, <2>2 DEF RenderRelies, Shown, Ready
  <2>7. QED
    BY <1>1, <2>2, <2>4, <2>5, <2>6, WorkerStep
<1>10. CASE TrimLarge
  <2>1. /\ step = "trim" /\ step' = "show" /\ UNCHANGED <<rows, lock, item, snap, src, staged>>
        /\ InHand' = p /\ p \in Photo /\ lock[p] = "worker" /\ snap \in Content
        /\ files' = IF snap \in Wide THEN files ELSE [files EXCEPT ![p]["large"] = None]
    BY <1>1, <1>2, <1>3, <1>10 DEF TrimLarge, Rendering, InHand, WorkerOK, render
  <2>2. /\ "large" \in File /\ "large" \notin Kind /\ KindOf[snap] \in Kind
        /\ KindOf[snap] \in File /\ Renditions(snap) \subseteq File
        /\ snap \notin Wide => "large" \notin Renditions(snap)
        /\ files[p] \in [File -> Content \cup {None}]
    BY <1>1, <2>1, FileShapes, LibraryAssumption DEF DiskType, Rendition, File, Kind, Renditions
  <2>3. TouchesOnly({p}) /\ files'[p] = IF snap \in Wide THEN files[p]
                                        ELSE [files[p] EXCEPT !["large"] = None]
    BY <1>1, <2>1 DEF DiskType, TouchesOnly
  <2>4. RenderRelies'
    BY <1>1, <1>2, <2>1, <2>2, <2>3 DEF RenderRelies
  <2>5. Shown(p)'
    BY <1>1, <1>2, <2>1 DEF RenderRelies, Shown, Ready
  <2>6. QED
    BY <1>1, <2>1, <2>3, <2>4, <2>5, WorkerStep
<1>11. CASE MarkReady
  <2>1. step = "show" /\ files' = files /\ p \in Photo /\ lock[p] = "worker" /\ snap \in Content
    BY <1>1, <1>3, <1>11 DEF MarkReady, Rendering, WorkerOK
  <2>2. CASE SameOriginal /\ SetRow(p, rows[p].hash, TRUE) /\ UnlockRender(TRUE)
    <3>1. /\ rows[p] # None /\ rows[p].hash = snap
          /\ rows'[p] = NewRow(rows[p].lr, snap, TRUE) /\ TouchesOnly({p})
      BY <1>1, <1>2, <2>1, <2>2 DEF SameOriginal, SetRow, DiskType, TouchesOnly
    <3>2. rows'[p].hash = snap
      BY <3>1 DEF NewRow
    <3>3. src \in Content /\ src # None
      BY <1>1, <2>1, LibraryAssumption DEF WorkerOK
    <3>4. Agree(p, snap)
      BY <1>1, <1>2, <2>1, <3>1, <3>3 DEF RenderRelies, Agree
    <3>5. Shown(p)'
      BY <2>1, <3>2, <3>4 DEF Shown, Agree
    <3>6. step' = "next" /\ RenderRelies'
          /\ \A q \in Photo : lock[q] \in Request => lock'[q] = lock[q]
      BY <1>1, <1>4, <2>1, <2>2, LibraryAssumption DEF RenderRelies, RequestType
    <3>7. \A q \in Photo : rows'[q] # None => rows[q] # None
      BY <3>1 DEF TouchesOnly
    <3>8. QED
      BY <1>1, <2>1, <3>1, <3>5, <3>6, <3>7, WorkerStep DEF Rendering
  <2>3. CASE ~SameOriginal /\ step' = "takeback" /\ UNCHANGED <<rows, lock, render>>
    <3>1. rows[p] = None /\ InHand' = p
      BY <1>1, <1>2, <2>1, <2>3 DEF RenderRelies, SameOriginal, InHand, render
    <3>2. RenderRelies' /\ TouchesOnly({})
      BY <2>1, <2>3, <3>1 DEF RenderRelies, TouchesOnly
    <3>3. QED
      BY <1>1, <2>1, <2>3, <3>1, <3>2, WorkerStep
  <2>4. QED
    BY <1>2, <1>11, <2>2, <2>3 DEF MarkReady
<1>12. CASE TakeBack
  <2>1. /\ step = "takeback" /\ rows' = rows /\ p \in Photo /\ lock[p] = "worker"
        /\ files' = IF rows[p] = None THEN [files EXCEPT ![p] = NoFiles] ELSE files
        /\ UnlockRender(TRUE)
    BY <1>1, <1>2, <1>3, <1>12 DEF TakeBack, Rendering
  <2>2. rows[p] = None
    BY <1>1, <1>2, <2>1 DEF RenderRelies
  <2>3. TouchesOnly({p}) /\ Shown(p)'
    BY <1>1, <2>1, <2>2 DEF DiskType, TouchesOnly, Shown, Ready
  <2>4. /\ step' = "next" /\ RenderRelies'
        /\ \A q \in Photo : lock[q] \in Request => lock'[q] = lock[q]
    BY <1>1, <1>4, <2>1, LibraryAssumption DEF RenderRelies, RequestType
  <2>5. QED
    BY <1>1, <2>1, <2>3, <2>4, WorkerStep DEF Rendering
<1>13. QED
  BY <1>5, <1>6, <1>7, <1>8, <1>9, <1>10, <1>11, <1>12 DEF Work

LEMMA StepInv == IInv /\ [Next]_vars => IInv'
<1> SUFFICES ASSUME IInv, [Next]_vars PROVE IInv'
  OBVIOUS
<1>1. TypeInv'
  <2>1. CASE UNCHANGED vars
    BY <2>1 DEF IInv, vars, disk, requests, worker, render, TypeInv, TypeOK, DiskType,
                RequestType, WorkerType, ReqOK, WorkerOK
  <2>2. QED
    BY <2>1, RequestSteps, WorkerSteps, FaultSteps DEF IInv, Next
<1>2. CASE UNCHANGED vars
  <2>1. RenderRelies'
    BY <1>2, RenderFrame DEF IInv, NoneHalfDone, vars, disk, worker
  <2>2. ASSUME NEW r \in Request
        PROVE  HandlerRelies(r)'
    BY <1>2, ReliesFrame DEF IInv, NoneHalfDone, vars, disk, requests
  <2>3. LocksHeld' /\ RowsHaveAlbums'
    BY <1>2 DEF IInv, NoneHalfDone, LocksHeld, RowsHaveAlbums, InHand, vars, disk,
                requests, worker, render
  <2>4. \A p \in Photo : Shown(p)'
    BY <1>2, ShownFrame DEF IInv, ReadyMeansAgree, Shown, vars, disk
  <2>5. QED
    BY <1>1, <2>1, <2>2, <2>3, <2>4 DEF IInv, NoneHalfDone, ReadyMeansAgree, Shown
<1>3. CASE Crash
  <2>1. /\ UNCHANGED <<albums, rows, files>> /\ step' = "idle"
        /\ \A r \in Request : at'[r] \in {"start", "done"}
    BY <1>3 DEF Crash, disk
  <2>2. LocksHeld' /\ RenderRelies' /\ \A r \in Request : HandlerRelies(r)'
    BY <2>1 DEF LocksHeld, RenderRelies, HandlerRelies, Holding, Rendering
  <2>3. RowsHaveAlbums'
    BY <2>1 DEF IInv, NoneHalfDone, RowsHaveAlbums
  <2>4. \A p \in Photo : Shown(p)'
    BY <2>1, ShownFrame DEF IInv, ReadyMeansAgree, Shown
  <2>5. QED
    BY <1>1, <2>2, <2>3, <2>4 DEF IInv, NoneHalfDone, ReadyMeansAgree, Shown
<1>4. CASE Next /\ ~Crash
  BY <1>1, <1>4, HandlerActions, OutsideActions, WorkerActions
  DEF IInv, Next, Faults, Handle
<1>5. QED
  BY <1>2, <1>3, <1>4

LEMMA Inductive == Spec => []IInv
BY InitInv, StepInv, PTL DEF Spec

\* For every library: a photo visitors can see has all its renditions, made
\* from the original that is stored (library.go:1-3), whatever requests,
\* crashes and failing calls come in between.
THEOREM VisibleAgrees == Spec => []ReadyMeansAgree
BY Inductive, PTL DEF IInv

\* What a handler or the worker relies on between two of its steps is never
\* taken away by another one (library.go:5-9).
THEOREM NeverHalfDone == Spec => []NoneHalfDone
BY Inductive, PTL DEF IInv

-----------------------------------------------------------------------------
(***************************************************************************)
(* Steps: files of a visible photo stay, and PhotoLife is implemented.     *)
(***************************************************************************)

LEMMA FilesStay ==
  ASSUME IInv, [Next]_vars, NEW p \in Photo, Ready(p)
  PROVE  files'[p] = files[p]
<1>1. DiskType /\ NoneHalfDone /\ RenderRelies /\ RowsHaveAlbums
  BY DEF IInv, TypeInv, TypeOK, NoneHalfDone
<1>2. ASSUME NEW r \in Request, at[r] \in {"commit", "kick", "cleanup"}
      PROVE  photo[r] # p
  BY <1>1, <1>2 DEF NoneHalfDone, HandlerRelies, Ready
<1>3. step \in {"install", "trim", "takeback"} => InHand # p
  BY <1>1 DEF RenderRelies, Ready
<1>4. ASSUME NEW r \in Request, CommitOriginal(r) \/ KickAndAnswer(r) \/ CleanUp(r)
      PROVE  files'[p] = files[p]
  BY <1>1, <1>2, <1>4 DEF CommitOriginal, KickAndAnswer, CleanUp, DiskType
<1>5. ASSUME NEW r \in Request, RemoveAlbumDir(r)
      PROVE  files'[p] = files[p]
  BY <1>1, <1>5 DEF RemoveAlbumDir, RowsHaveAlbums, Ready
<1>6. ASSUME InstallOne \/ TrimLarge \/ TakeBack
      PROVE  files'[p] = files[p]
  BY <1>1, <1>3, <1>6 DEF InstallOne, TrimLarge, TakeBack, DiskType
<1>7. ASSUME NEW r \in Request,
             Start(r) \/ Lock(r) \/ Resolve(r) \/ HideOld(r) \/ InsertRow(r) \/ UpdateRow(r)
             \/ DeleteRow(r) \/ DropAlbumRow(r)
      PROVE  files' = files
  BY <1>7 DEF Start, StartPost, StartPut, StartDelete, StartDeleteAlbum, Begin, Lock,
              LockIngest, LockDelete, Resolve, HideOld, InsertRow, UpdateRow, DeleteRow,
              DropAlbumRow, disk
<1>8. ASSUME \/ TakeToken \/ Tick \/ ListPending \/ PickNext \/ LockRender \/ RenderAll
             \/ MarkReady \/ Faults \/ UNCHANGED vars
      PROVE  files' = files
  BY <1>8 DEF TakeToken, Tick, ListPending, PickNext, LockRender, RenderAll, MarkReady,
              Faults, Crash, ListFails, RenderFails, LockedCallFails, OtherCallFails,
              InsertFails, CleanUpFails, RemoveOldFails, vars, disk
<1>9. QED
  BY <1>4, <1>5, <1>6, <1>7, <1>8 DEF Next, Work, Handle

\* No step writes a file of a photo that is visible before and after it
\* (ingest.go:186-196, render.go:74-89).
THEOREM FilesFrozen == Spec => VisibleFilesFrozen
<1>1. ASSUME IInv, [Next]_vars
      PROVE  [\A p \in Photo : Ready(p) /\ Ready(p)' => files'[p] = files[p]]_vars
  BY <1>1, FilesStay
<1>2. QED
  BY Inductive, <1>1, PTL DEF Spec, VisibleFilesFrozen

\* What visitors see of a photo, by the state of its row.
LEMMA LifeView ==
  ASSUME NEW p \in Photo
  PROVE  /\ rows[p] = None => lifeOf[p] = "absent"
         /\ Pending(p) => lifeOf[p] = "hidden"
         /\ Ready(p) /\ Shown(p) => lifeOf[p] = files[p][KindOf[rows[p].hash]]
BY DEF lifeOf, Pending, Ready, Shown

LEMMA LifeViewNext ==
  ASSUME NEW p \in Photo
  PROVE  /\ rows'[p] = None => lifeOf'[p] = "absent"
         /\ Pending(p)' => lifeOf'[p] = "hidden"
         /\ Ready(p)' /\ Shown(p)' => lifeOf'[p] = files'[p][KindOf[rows'[p].hash]]
BY DEF lifeOf, Pending, Ready, Shown

\* A photo whose row stays looks the same.
LEMMA SameLook ==
  ASSUME IInv, IInv', [Next]_vars, NEW p \in Photo, rows'[p] = rows[p]
  PROVE  lifeOf'[p] = lifeOf[p]
<1>1. Shown(p) /\ Shown(p)' /\ (Ready(p) => files'[p] = files[p])
  BY FilesStay DEF IInv, ReadyMeansAgree, Shown
<1>2. CASE rows[p] = None
  BY <1>2, LifeView, LifeViewNext
<1>3. CASE Pending(p)
  BY <1>3, LifeView, LifeViewNext DEF Pending
<1>4. CASE Ready(p)
  BY <1>1, <1>4, LifeView, LifeViewNext DEF Ready
<1>5. QED
  BY <1>2, <1>3, <1>4 DEF Pending, Ready, IInv, TypeInv, TypeOK, DiskType, Row

\* A step that changes one photo's row changes how that photo alone looks.
LEMMA OneLook ==
  ASSUME IInv, IInv', [Next]_vars, NEW p \in Photo,
         \A q \in Photo : q # p => rows'[q] = rows[q]
  PROVE  lifeOf' = [lifeOf EXCEPT ![p] = lifeOf'[p]]
<1>1. \A q \in Photo : q # p => lifeOf'[q] = lifeOf[q]
  BY SameLook
<1>2. QED
  BY <1>1 DEF lifeOf

\* An UPDATE leaves a row.
LEMMA RowSet ==
  ASSUME NEW row \in Row, NEW h \in Content, NEW b \in BOOLEAN
  PROVE  NewRow(row.lr, h, b) # None /\ NewRow(row.lr, h, b).ready = b
BY Shapes, LibraryAssumption

LEMMA SameFunction ==
  ASSUME NEW p \in Photo
  PROVE  lifeOf = [lifeOf EXCEPT ![p] = lifeOf[p]]
BY DEF lifeOf

LEMMA LifeInit == Init => Life!Init
<1> SUFFICES ASSUME Init PROVE Life!Init
  OBVIOUS
<1>1. IInv
  BY InitInv
<1>2. PICK h \in [Photo -> Content \cup {None}], l \in [Photo -> Lr] :
        rows = [p \in Photo |-> IF h[p] = None THEN None ELSE NewRow(l[p], h[p], TRUE)]
  BY DEF Init
<1>3. ASSUME NEW p \in Photo
      PROVE  lifeOf[p] \in Content \cup {"absent"}
  <2>1. CASE rows[p] = None
    BY <2>1, LifeView
  <2>2. CASE rows[p] # None
    <3>1. Ready(p) /\ Shown(p)
      BY <1>1, <1>2, <2>2 DEF IInv, ReadyMeansAgree, Shown, Ready, NewRow
    <3>2. rows[p].hash \in Content /\ files[p][KindOf[rows[p].hash]] # None
      BY <1>1, <2>2, <3>1, Shapes DEF IInv, TypeInv, TypeOK, DiskType, Shown, Agree
    <3>3. files[p][KindOf[rows[p].hash]] \in Content
      BY <1>1, <3>2, FileShapes DEF IInv, TypeInv, TypeOK, DiskType
    <3>4. QED
      BY <3>1, <3>3, LifeView
  <2>3. QED
    BY <2>1, <2>2
<1>4. QED
  BY <1>3 DEF lifeOf, Life!Init

LEMMA LifeStep ==
  ASSUME IInv, IInv', [Next]_vars
  PROVE  [Life!Next]_lifeOf
<1>1. /\ DiskType /\ DiskType' /\ RowsHaveAlbums /\ ReqOK
      /\ \A p \in Photo : Shown(p) /\ Shown(p)'
      /\ \A r \in Request : HandlerRelies(r)
  BY DEF IInv, TypeInv, TypeOK, NoneHalfDone, ReadyMeansAgree, Shown
<1>2. ASSUME NEW p \in Photo, Ready(p)
      PROVE  lifeOf[p] \in Content
  <2>1. rows[p].hash \in Content
    BY <1>1, <1>2, Shapes DEF DiskType, Ready
  <2>2. files[p][KindOf[rows[p].hash]] \in Content
    BY <1>1, <1>2, <2>1, FileShapes DEF DiskType, Shown, Agree
  <2>3. QED
    BY <1>1, <1>2, <2>2, LifeView
<1>3. ASSUME NEW p \in Photo, Ready(p)'
      PROVE  lifeOf'[p] \in Content
  <2>1. rows'[p].hash \in Content
    BY <1>1, <1>3, Shapes DEF DiskType, Ready
  <2>2. files'[p][KindOf[rows'[p].hash]] \in Content
    BY <1>1, <1>3, <2>1, FileShapes DEF DiskType, Shown, Agree
  <2>3. QED
    BY <1>1, <1>3, <2>2, LifeViewNext
<1>4. ASSUME \A p \in Photo : rows'[p] = rows[p]
      PROVE  UNCHANGED lifeOf
  BY <1>4, SameLook DEF lifeOf
<1>5. ASSUME NEW r \in Request, HideOld(r)
      PROVE  [Life!Next]_lifeOf
  <2>1. PICK p \in Photo : p = photo[r]
    BY <1>1, <1>5 DEF HideOld, ReqOK
  <2>2. CASE UNCHANGED rows
    BY <1>4, <2>2
  <2>3. CASE rows[p] # None /\ SetRow(p, rows[p].hash, FALSE)
    <3>1. rows'[p] = NewRow(rows[p].lr, rows[p].hash, FALSE)
          /\ \A q \in Photo : q # p => rows'[q] = rows[q]
      BY <1>1, <2>3 DEF SetRow, DiskType
    <3>2. Pending(p)'
      <4>1. rows[p] \in Row /\ rows[p].hash \in Content
        BY <1>1, <2>3, Shapes DEF DiskType
      <4>2. rows'[p] # None /\ rows'[p].ready = FALSE
        BY <3>1, <4>1, RowSet
      <4>3. QED
        BY <4>2 DEF Pending
    <3>3. lifeOf' = [lifeOf EXCEPT ![p] = "hidden"]
      BY <3>1, <3>2, OneLook, LifeViewNext
    <3>4. CASE Ready(p)
      BY <1>2, <3>3, <3>4 DEF Life!Next, Life!Hide
    <3>5. CASE Pending(p)
      BY <3>3, <3>5, LifeView, SameFunction
    <3>6. QED
      BY <1>1, <2>3, <3>4, <3>5 DEF Pending, Ready, DiskType, Row
  <2>4. QED
    BY <1>5, <2>1, <2>2, <2>3 DEF HideOld
<1>6. ASSUME NEW r \in Request, InsertRow(r)
      PROVE  [Life!Next]_lifeOf
  <2>1. PICK p \in Photo : p = photo[r] /\ req[r].lr \in Lr /\ req[r].file \in Content
    BY <1>1, <1>6 DEF InsertRow, ReqOK
  <2>2. rows[p] = None
    BY <1>1, <1>6, <2>1 DEF InsertRow, HandlerRelies
  <2>3. CASE UNCHANGED rows
    BY <1>4, <2>3
  <2>4. CASE rows' = [rows EXCEPT ![p] = NewRow(req[r].lr, req[r].file, FALSE)]
    <3>1. rows'[p] = NewRow(req[r].lr, req[r].file, FALSE)
          /\ \A q \in Photo : q # p => rows'[q] = rows[q]
      BY <1>1, <2>4 DEF DiskType
    <3>2. Pending(p)'
      <4>1. rows'[p] \in Row /\ rows'[p].ready = FALSE
        <5>1. /\ NewRow(req[r].lr, req[r].file, FALSE) \in Row
              /\ NewRow(req[r].lr, req[r].file, FALSE).ready = FALSE
          BY <2>1, Shapes
        <5>2. QED
          BY <3>1, <5>1
      <4>2. QED
        BY <4>1, LibraryAssumption DEF Pending
    <3>3. lifeOf' = [lifeOf EXCEPT ![p] = "hidden"] /\ lifeOf[p] = "absent"
      BY <2>2, <3>1, <3>2, OneLook, LifeView, LifeViewNext
    <3>4. QED
      BY <3>3 DEF Life!Next, Life!Upload
  <2>5. QED
    BY <1>6, <2>1, <2>3, <2>4 DEF InsertRow
<1>7. ASSUME NEW r \in Request, UpdateRow(r)
      PROVE  [Life!Next]_lifeOf
  <2>1. PICK p \in Photo : p = photo[r]
    BY <1>1, <1>7 DEF UpdateRow, ReqOK
  <2>2. CASE UNCHANGED rows
    BY <1>4, <2>2
  <2>3. CASE rows[p] # None /\ req[r].file = None /\ SetRow(p, old[r].hash, rows[p].ready)
    <3>1. rows[p] \in Row /\ rows[p].hash = old[r].hash
      BY <1>1, <1>7, <2>1, <2>3 DEF UpdateRow, HandlerRelies, DiskType
    <3>2. \A q \in Photo : rows'[q] = rows[q]
      BY <1>1, <2>3, <3>1 DEF SetRow, DiskType, NewRow, Row
    <3>3. QED
      BY <1>4, <3>2
  <2>4. CASE rows[p] # None /\ req[r].file # None /\ SetRow(p, req[r].file, rows[p].ready)
    <3>1. ~Ready(p)
      BY <1>1, <1>7, <2>1, <2>4 DEF UpdateRow, HandlerRelies
    <3>2. rows'[p] = NewRow(rows[p].lr, req[r].file, rows[p].ready)
          /\ \A q \in Photo : q # p => rows'[q] = rows[q]
      BY <1>1, <2>4 DEF SetRow, DiskType
    <3>3. Pending(p) /\ Pending(p)'
      <4>1. /\ rows[p] \in Row /\ rows[p].ready \in BOOLEAN /\ ~rows[p].ready
            /\ req[r].file \in Content
        BY <1>1, <2>4, <3>1, Shapes DEF DiskType, Ready, IInv, TypeInv, TypeOK, RequestType
      <4>2. rows'[p] # None /\ rows'[p].ready = rows[p].ready
        BY <3>2, <4>1, RowSet
      <4>3. QED
        BY <2>4, <4>1, <4>2 DEF Pending
    <3>4. UNCHANGED lifeOf
      BY <3>2, <3>3, OneLook, LifeView, LifeViewNext, SameFunction
    <3>5. QED
      BY <3>4
  <2>5. QED
    BY <1>7, <2>1, <2>2, <2>3, <2>4 DEF UpdateRow
<1>8. ASSUME NEW r \in Request, DeleteRow(r)
      PROVE  [Life!Next]_lifeOf
  <2>1. PICK p \in Photo : p = photo[r]
    BY <1>1, <1>8 DEF DeleteRow, ReqOK
  <2>2. CASE UNCHANGED rows
    BY <1>4, <2>2
  <2>3. CASE rows' = [rows EXCEPT ![p] = None]
    <3>1. rows'[p] = None /\ \A q \in Photo : q # p => rows'[q] = rows[q]
      BY <1>1, <2>3 DEF DiskType
    <3>2. lifeOf' = [lifeOf EXCEPT ![p] = "absent"]
      BY <3>1, OneLook, LifeViewNext
    <3>3. Life!Drop({p})
      BY <3>2 DEF lifeOf, Life!Drop
    <3>4. QED
      BY <3>3 DEF Units, Life!Next
  <2>4. QED
    BY <1>8, <2>1, <2>2, <2>3 DEF DeleteRow
<1>9. ASSUME NEW r \in Request, DropAlbumRow(r)
      PROVE  [Life!Next]_lifeOf
  <2>1. CASE UNCHANGED rows
    BY <1>4, <2>1
  <2>2. CASE rows' = [p \in Photo |-> IF AlbumOf[p] = req[r].album THEN None ELSE rows[p]]
    <3>1. PICK P \in Units : P = {p \in Photo : AlbumOf[p] = req[r].album}
      BY <1>1, <1>9 DEF DropAlbumRow, ReqOK, Units
    <3>2. \A p \in Photo : IF p \in P THEN lifeOf'[p] = "absent" ELSE lifeOf'[p] = lifeOf[p]
      BY <2>2, <3>1, LifeViewNext, SameLook
    <3>3. Life!Drop(P)
      BY <3>2 DEF lifeOf, Life!Drop
    <3>4. QED
      BY <3>3 DEF Life!Next
  <2>3. QED
    BY <1>9, <2>1, <2>2 DEF DropAlbumRow
<1>10. ASSUME MarkReady
       PROVE  [Life!Next]_lifeOf
  <2>1. PICK p \in Photo : p = InHand
    BY <1>10 DEF MarkReady, IInv, TypeInv, WorkerOK, InHand
  <2>2. CASE UNCHANGED rows
    BY <1>4, <2>2
  <2>3. CASE rows[p] # None /\ SetRow(p, rows[p].hash, TRUE)
    <3>1. rows'[p] = NewRow(rows[p].lr, rows[p].hash, TRUE)
          /\ \A q \in Photo : q # p => rows'[q] = rows[q]
      BY <1>1, <2>3 DEF SetRow, DiskType
    <3>2. Ready(p)'
      <4>1. rows[p] \in Row /\ rows[p].hash \in Content
        BY <1>1, <2>3, Shapes DEF DiskType
      <4>2. rows'[p] # None /\ rows'[p].ready = TRUE
        BY <3>1, <4>1, RowSet
      <4>3. QED
        BY <4>2 DEF Ready
    <3>3. Pending(p)
      BY <1>1, <1>10, <2>1, <2>3 DEF MarkReady, IInv, NoneHalfDone, RenderRelies, Pending
    <3>4. /\ lifeOf[p] = "hidden" /\ lifeOf'[p] \in Content
          /\ lifeOf' = [lifeOf EXCEPT ![p] = lifeOf'[p]]
      BY <1>3, <3>1, <3>2, <3>3, OneLook, LifeView
    <3>5. QED
      BY <3>4 DEF Life!Next, Life!Show
  <2>4. QED
    BY <1>10, <2>1, <2>2, <2>3 DEF MarkReady, SameOriginal
<1>11. CASE UNCHANGED rows
  BY <1>4, <1>11
<1>12. CASE ~UNCHANGED rows
  <2>1. ASSUME NEW r \in Request,
               Start(r) \/ Lock(r) \/ Resolve(r) \/ CommitOriginal(r) \/ CleanUp(r)
               \/ KickAndAnswer(r) \/ RemoveAlbumDir(r)
        PROVE  UNCHANGED rows
    BY <2>1 DEF Start, StartPost, StartPut, StartDelete, StartDeleteAlbum, Begin, Lock,
                LockIngest, LockDelete, Resolve, CommitOriginal, CleanUp, KickAndAnswer,
                RemoveAlbumDir, disk
  <2>2. ASSUME \/ TakeToken \/ Tick \/ ListPending \/ PickNext \/ LockRender \/ RenderAll
               \/ InstallOne \/ TrimLarge \/ TakeBack \/ Faults \/ UNCHANGED vars
        PROVE  UNCHANGED rows
    BY <2>2 DEF TakeToken, Tick, ListPending, PickNext, LockRender, RenderAll, InstallOne,
                TrimLarge, TakeBack, Faults, Crash, ListFails, RenderFails,
                LockedCallFails, OtherCallFails, InsertFails, CleanUpFails, RemoveOldFails,
                vars, disk
  <2>3. QED
    BY <1>5, <1>6, <1>7, <1>8, <1>9, <1>10, <1>12, <2>1, <2>2 DEF Next, Work, Handle
<1>13. QED
  BY <1>11, <1>12

\* The library implements PhotoLife: whatever Ingest, Render, Remove and the
\* album deletion do together, a visible picture is never exchanged for
\* another one, nor mixed with another one, without being hidden first.
THEOREM LibraryIsPhotoLife == Spec => ImplementsLife
<1>1. IInv /\ IInv' /\ [Next]_vars => [Life!Next]_lifeOf
  BY LifeStep
<1>2. QED
  BY Inductive, LifeInit, <1>1, PTL DEF Spec, ImplementsLife, Life!Spec

-----------------------------------------------------------------------------
(***************************************************************************)
(* Without faults: the originals on disk are those of the rows, but for    *)
(* what the holder of the photo's lock is just doing.                      *)
(***************************************************************************)

Alive(p) == AlbumOf[p] \in albums

\* The originals of p on disk are h, and g if it has another name.
Only(p, h, g) ==
  \A k \in Kind : files[p][k] = IF k = KindOf[h] THEN h
                                ELSE IF g # None /\ k = KindOf[g] THEN g ELSE None

\* The files of p are those of its row, as far as originals go.
Tidy(p) == IF rows[p] = None THEN files[p] = NoFiles ELSE Only(p, rows[p].hash, None)

OldHash(r) == IF old[r] = None THEN None ELSE old[r].hash
Busy(p) == \E r \in Request : at[r] \in Holding /\ photo[r] = p

HandlerTidy(r) ==
  LET p == photo[r]
  IN at[r] \in Holding /\ Alive(p) =>
       /\ at[r] \in {"hide", "commit", "write"} /\ old[r] # None => rows[p] # None
       /\ at[r] \in {"hide", "commit", "deleterow"} => Tidy(p)
       /\ at[r] = "write" /\ req[r].file = None => Tidy(p)
       /\ at[r] = "write" /\ req[r].file # None => Only(p, req[r].file, OldHash(r))
       /\ at[r] = "kick" => /\ rows[p] # None /\ rows[p].hash = req[r].file
                            /\ Only(p, req[r].file, OldHash(r))

WorkerTidy == step \in Rendering /\ Alive(InHand) => rows[InHand] # None

Tidiness == /\ \A r \in Request : HandlerTidy(r)
            /\ \A p \in Photo : Alive(p) /\ ~Busy(p) => Tidy(p)
            /\ WorkerTidy

TidyInv == faults = 0 => Tidiness

\* A step that changes neither the originals of q nor what its row says of them.
Untouched(q) ==
  /\ rows'[q] = None <=> rows[q] = None
  /\ rows[q] # None => rows'[q].hash = rows[q].hash
  /\ \A k \in Kind : files'[q][k] = files[q][k]
  /\ rows[q] = None => files'[q] = files[q]

LEMMA TidyKept ==
  ASSUME NEW q, Untouched(q)
  PROVE  /\ Tidy(q) => Tidy(q)'
         /\ \A h, g : Only(q, h, g) => Only(q, h, g)'
BY DEF Untouched, Tidy, Only

LEMMA HandlerTidyKept ==
  ASSUME NEW s \in Request, HandlerTidy(s), albums' \subseteq albums,
         at'[s] = at[s], req'[s] = req[s], photo'[s] = photo[s], old'[s] = old[s],
         at[s] \in Holding /\ AlbumOf[photo[s]] \in albums' => Untouched(photo[s])
  PROVE  HandlerTidy(s)'
<1>1. PICK p, f, g : p = photo[s] /\ f = req[s].file /\ g = OldHash(s)
  OBVIOUS
<1>2. CASE at[s] \in Holding /\ AlbumOf[p] \in albums'
  <2>1. Untouched(p) /\ Alive(p)
    BY <1>1, <1>2 DEF Alive
  <2>2. /\ Tidy(p) => Tidy(p)'
        /\ Only(p, f, g) => Only(p, f, g)'
        /\ (rows'[p] = None <=> rows[p] = None) /\ (rows[p] # None => rows'[p].hash = rows[p].hash)
    BY <2>1, TidyKept DEF Untouched
  <2>3. /\ at[s] \in {"hide", "commit", "write"} /\ old[s] # None => rows[p] # None
        /\ at[s] \in {"hide", "commit", "deleterow"} => Tidy(p)
        /\ at[s] = "write" /\ f = None => Tidy(p)
        /\ at[s] = "write" /\ f # None => Only(p, f, g)
        /\ at[s] = "kick" => rows[p] # None /\ rows[p].hash = f /\ Only(p, f, g)
    BY <1>1, <1>2, <2>1 DEF HandlerTidy
  <2>4. OldHash(s)' = g /\ photo'[s] = p /\ req'[s].file = f
    BY <1>1 DEF OldHash
  <2>5. /\ at'[s] \in {"hide", "commit", "write"} /\ old'[s] # None => rows'[p] # None
        /\ at'[s] \in {"hide", "commit", "deleterow"} => Tidy(p)'
        /\ at'[s] = "write" /\ f = None => Tidy(p)'
        /\ at'[s] = "write" /\ f # None => Only(p, f, g)'
        /\ at'[s] = "kick" => rows'[p] # None /\ rows'[p].hash = f /\ Only(p, f, g)'
    BY <2>2, <2>3
  <2> QED
    BY <2>4, <2>5 DEF HandlerTidy, Tidy, Only
<1>3. CASE ~(at[s] \in Holding /\ AlbumOf[p] \in albums')
  BY <1>1, <1>3 DEF HandlerTidy, Alive
<1> QED
  BY <1>2, <1>3

\* A step of the handler that holds its photo's lock.
LEMMA TidyHandlerStep ==
  ASSUME IInv, Tidiness, NEW r \in Request, at[r] \in Holding, NEW x \in Photo, x = photo[r],
         TouchesOnly({x}), UNCHANGED <<albums, step, item>>,
         \/ at'[r] \in Holding /\ Goto(r, at'[r])
         \/ Unlock(r) /\ (Alive(x) => Tidy(x)'),
         HandlerTidy(r)'
  PROVE  Tidiness'
<1>1. RequestType
  BY DEF IInv, TypeInv, TypeOK
<1>2. ASSUME NEW s \in Request, s # r
      PROVE  /\ at'[s] = at[s] /\ req'[s] = req[s] /\ photo'[s] = photo[s] /\ old'[s] = old[s]
             /\ at[s] \in Holding => photo[s] \in Photo /\ photo[s] # x
  BY <1>1, <1>2, Exclusive DEF Goto, Unlock, Done, RequestType
<1>3. \A q \in Photo \ {x} : Untouched(q)
  BY DEF TouchesOnly, Untouched
<1>4. ASSUME NEW s \in Request PROVE HandlerTidy(s)'
  <2>1. CASE s # r
    BY <1>2, <1>3, <2>1, HandlerTidyKept DEF Tidiness
  <2> QED
    BY <2>1
<1>5. ASSUME NEW q \in Photo, Alive(q)', ~Busy(q)' PROVE Tidy(q)'
  <2>1. CASE q # x
    <3>1. ~Busy(q)
      BY <1>2, <1>5, <2>1 DEF Busy
    <3> QED
      BY <1>3, <1>5, <2>1, <3>1, TidyKept DEF Tidiness, Alive
  <2>2. CASE q = x
    <3>1. ~(at'[r] \in Holding /\ Goto(r, at'[r]))
      BY <1>5, <2>2 DEF Busy, Goto
    <3> QED
      BY <1>5, <2>2, <3>1 DEF Alive
  <2> QED
    BY <2>1, <2>2
<1>6. WorkerTidy'
  <2>1. step \in Rendering => InHand \in Photo /\ InHand # x
    BY Exclusive, ExclusiveWorker
  <2>2. PICK q : q = InHand
    OBVIOUS
  <2>3. InHand' = q
    BY <2>2 DEF InHand
  <2> QED
    BY <2>1, <2>2, <2>3 DEF WorkerTidy, Tidiness, Alive, TouchesOnly
<1> QED
  BY <1>4, <1>5, <1>6 DEF Tidiness

LEMMA TidyUnlock ==
  ASSUME RequestType, NEW r \in Request, Unlock(r)
  PROVE  HandlerTidy(r)'
BY DEF RequestType, Unlock, Done, HandlerTidy, Holding

\* What a request that goes on has to keep.
LEMMA TidyGoto ==
  ASSUME RequestType, NEW r \in Request, NEW pos, Goto(r, pos), NEW x, x = photo[r],
         UNCHANGED albums, NEW f, f = req[r].file, NEW g, g = OldHash(r),
         Alive(x) =>
           /\ pos \in {"hide", "commit", "write"} /\ old[r] # None => rows'[x] # None
           /\ pos \in {"hide", "commit", "deleterow"} => Tidy(x)'
           /\ pos = "write" /\ f = None => Tidy(x)'
           /\ pos = "write" /\ f # None => Only(x, f, g)'
           /\ pos = "kick" => rows'[x] # None /\ rows'[x].hash = f /\ Only(x, f, g)'
  PROVE  HandlerTidy(r)'
<1>1. at'[r] = pos /\ UNCHANGED <<req, photo, old>> /\ OldHash(r)' = g /\ photo'[r] = x /\ req'[r].file = f
  BY AfterGoto DEF OldHash
<1> QED
  BY <1>1 DEF HandlerTidy, Alive, Tidy, Only

LEMMA TidyHandlerActions ==
  ASSUME IInv, Tidiness, NEW r \in Request,
         \/ HideOld(r) \/ CommitOriginal(r) \/ InsertRow(r) \/ UpdateRow(r)
         \/ CleanUp(r) \/ KickAndAnswer(r) \/ DeleteRow(r)
  PROVE  Tidiness'
<1>1. at[r] \in Holding
  BY DEF HideOld, CommitOriginal, InsertRow, UpdateRow, CleanUp, KickAndAnswer, DeleteRow, Holding
<1>2. RequestType /\ DiskType /\ ReqOK /\ HandlerRelies(r) /\ HandlerTidy(r)
  BY DEF IInv, TypeInv, TypeOK, NoneHalfDone, Tidiness
<1>3. /\ \E x \in Photo : x = photo[r]
      /\ \E f, g : f = req[r].file /\ g = OldHash(r)
  BY <1>1, Exclusive
<1> PICK x \in Photo : x = photo[r]
  BY <1>3
<1> PICK f, g : f = req[r].file /\ g = OldHash(r)
  BY <1>3
<1>4. Alive(x) =>
        /\ at[r] \in {"hide", "commit", "write"} /\ old[r] # None => rows[x] # None
        /\ at[r] \in {"hide", "commit", "deleterow"} => Tidy(x)
        /\ at[r] = "write" /\ f = None => Tidy(x)
        /\ at[r] = "write" /\ f # None => Only(x, f, g)
        /\ at[r] = "kick" => rows[x] # None /\ rows[x].hash = f /\ Only(x, f, g)
  BY <1>1, <1>2, <1>3 DEF HandlerTidy
<1>5. UNCHANGED <<albums, step, item>>
  BY DEF HideOld, CommitOriginal, InsertRow, UpdateRow, CleanUp, KickAndAnswer, DeleteRow, worker, render
<1>6. SUFFICES /\ TouchesOnly({x})
               /\ \/ Unlock(r) /\ (Alive(x) => Tidy(x)')
                  \/ at'[r] \in Holding /\ Goto(r, at'[r]) /\ HandlerTidy(r)'
  <2>1. (Alive(x) => Tidy(x)') => (Alive(x) => Tidy(x))'
    BY <1>5 DEF Alive
  <2> QED
    BY <1>1, <1>2, <1>3, <1>5, <1>6, <2>1, TidyHandlerStep, TidyUnlock
<1>7. ASSUME NEW pos \in Holding, Goto(r, pos),
             Alive(x) =>
               /\ pos \in {"hide", "commit", "write"} /\ old[r] # None => rows'[x] # None
               /\ pos \in {"hide", "commit", "deleterow"} => Tidy(x)'
               /\ pos = "write" /\ f = None => Tidy(x)'
               /\ pos = "write" /\ f # None => Only(x, f, g)'
               /\ pos = "kick" => rows'[x] # None /\ rows'[x].hash = f /\ Only(x, f, g)'
      PROVE  at'[r] \in Holding /\ Goto(r, at'[r]) /\ HandlerTidy(r)'
  <2>1. at'[r] = pos
    BY <1>2, <1>7, AfterGoto
  <2> QED
    BY <1>2, <1>3, <1>5, <1>7, <2>1, TidyGoto
<1>8. ASSUME Untouched(x), files' = files, NEW row, rows' = rows \/ rows' = [rows EXCEPT ![x] = row]
      PROVE  TouchesOnly({x}) /\ (Tidy(x) => Tidy(x)')
  BY <1>2, <1>8, TidyKept DEF TouchesOnly, DiskType
<1>9. rows[x] # None => rows[x] \in Row
  BY <1>2 DEF DiskType
<1>10. CASE HideOld(r)
  <2>1. files' = files /\ at[r] = "hide" /\ old[r] # None
    BY <1>2, <1>10, LibraryAssumption DEF HideOld, ReqOK
  <2>2. CASE Unlock(r) /\ UNCHANGED rows
    BY <1>4, <1>8, <2>1, <2>2 DEF Untouched
  <2>3. CASE rows[x] # None /\ Goto(r, "commit") /\ SetRow(x, rows[x].hash, FALSE)
    <3>0. rows'[x] = NewRow(rows[x].lr, rows[x].hash, FALSE) /\ rows' = [rows EXCEPT ![x] = rows'[x]]
      BY <1>2, <2>3 DEF SetRow, DiskType
    <3>1. rows' = [rows EXCEPT ![x] = rows'[x]] /\ rows'[x] \in Row /\ rows'[x].hash = rows[x].hash
      BY <1>9, <2>3, <3>0 DEF NewRow, Row
    <3>2. Untouched(x) /\ rows'[x] # None
      BY <2>1, <2>3, <3>1, LibraryAssumption DEF Untouched
    <3>3. TouchesOnly({x}) /\ (Tidy(x) => Tidy(x)')
      BY <1>8, <2>1, <3>1, <3>2
    <3> QED
      BY <1>4, <1>7, <2>1, <2>3, <3>2, <3>3 DEF Holding
  <2> QED
    BY <1>3, <1>10, <2>2, <2>3 DEF HideOld
<1>11. CASE CommitOriginal(r)
  <2>1. /\ rows' = rows /\ at[r] = "commit" /\ Goto(r, "write") /\ f \in Content
        /\ files' = [files EXCEPT ![x][KindOf[f]] = f]
    BY <1>2, <1>3, <1>11 DEF CommitOriginal, ReqOK
  <2>2. TouchesOnly({x}) /\ \A k \in Kind : files'[x][k] = IF k = KindOf[f] THEN f ELSE files[x][k]
    BY <1>2, <2>1, FileShapes DEF TouchesOnly, DiskType, File
  <2>3. ASSUME Alive(x) PROVE Only(x, f, g)' /\ (old[r] # None => rows[x] # None)
    <3>1. CASE old[r] = None
      <4>1. g = None /\ files[x] = NoFiles
        BY <1>2, <1>3, <1>4, <2>1, <2>3, <3>1 DEF OldHash, HandlerRelies, Tidy
      <4>2. \A k \in Kind : files[x][k] = None
        BY <4>1 DEF NoFiles, File
      <4> QED
        BY <2>2, <3>1, <4>1, <4>2 DEF Only
    <3>2. CASE old[r] # None
      <4>1. g = rows[x].hash /\ rows[x] # None /\ Only(x, g, None)
        BY <1>2, <1>3, <1>4, <2>1, <2>3, <3>2 DEF OldHash, HandlerRelies, Tidy
      <4>2. g # None
        BY <1>9, <4>1, Shapes, LibraryAssumption
      <4> QED
        BY <2>2, <4>1, <4>2 DEF Only
    <3> QED
      BY <3>1, <3>2
  <2>4. f # None
    BY <2>1, LibraryAssumption
  <2> QED
    BY <1>7, <2>1, <2>2, <2>3, <2>4 DEF Holding
<1>12. CASE InsertRow(r)
  <2>1. /\ files' = files /\ at[r] = "write" /\ old[r] = None /\ f \in Content /\ f # None
        /\ req[r].lr \in Lr
    BY <1>2, <1>3, <1>12, LibraryAssumption DEF InsertRow, ReqOK
  <2>2. CASE Goto(r, "cleanup") /\ UNCHANGED rows
    <3>1. TouchesOnly({x})
      BY <2>1, <2>2 DEF TouchesOnly
    <3> QED
      BY <1>7, <2>2, <3>1 DEF Holding
  <2>3. CASE Goto(r, "kick") /\ rows' = [rows EXCEPT ![x] = NewRow(req[r].lr, f, FALSE)]
    <3>0. rows'[x] = NewRow(req[r].lr, f, FALSE) /\ TouchesOnly({x})
      BY <1>2, <2>1, <2>3 DEF DiskType, TouchesOnly
    <3>1. rows'[x] \in Row /\ rows'[x].hash = f /\ TouchesOnly({x})
      BY <2>1, <3>0 DEF NewRow, Row
    <3>2. Only(x, f, g) => Only(x, f, g)'
      BY <2>1 DEF Only
    <3> QED
      BY <1>4, <1>7, <2>1, <2>3, <3>1, <3>2, LibraryAssumption DEF Holding
  <2> QED
    BY <1>3, <1>12, <2>2, <2>3 DEF InsertRow
<1>13. CASE UpdateRow(r)
  <2>1. files' = files /\ at[r] = "write" /\ old[r] # None
    BY <1>13 DEF UpdateRow
  <2>2. CASE rows[x] = None /\ Unlock(r) /\ UNCHANGED rows
    BY <1>4, <2>1, <2>2 DEF TouchesOnly
  <2>3. CASE /\ rows[x] # None /\ f = None /\ Unlock(r)
             /\ SetRow(x, old[r].hash, rows[x].ready)
    <3>1. rows[x].hash = old[r].hash
      BY <1>2, <1>3, <2>1, <2>3 DEF HandlerRelies
    <3>0. /\ rows'[x] = NewRow(rows[x].lr, rows[x].hash, rows[x].ready)
          /\ rows' = [rows EXCEPT ![x] = rows'[x]]
      BY <1>2, <2>3, <3>1 DEF SetRow, DiskType
    <3>2. rows' = [rows EXCEPT ![x] = rows'[x]] /\ rows'[x] \in Row /\ rows'[x].hash = rows[x].hash
      BY <1>9, <2>3, <3>0 DEF NewRow, Row
    <3>3. Untouched(x)
      BY <2>1, <2>3, <3>2, LibraryAssumption DEF Untouched
    <3> QED
      BY <1>4, <1>8, <2>1, <2>3, <3>2, <3>3
  <2>4. CASE /\ rows[x] # None /\ f # None /\ Goto(r, "kick")
             /\ SetRow(x, f, rows[x].ready)
    <3>1. f \in Content
      BY <1>2, <1>3, <2>4, Shapes DEF RequestType
    <3>2. rows'[x] \in Row /\ rows'[x].hash = f /\ TouchesOnly({x})
      BY <1>2, <1>9, <2>1, <2>4, <3>1, Shapes DEF SetRow, DiskType, TouchesOnly
    <3>3. Only(x, f, g) => Only(x, f, g)'
      BY <2>1 DEF Only
    <3> QED
      BY <1>4, <1>7, <2>1, <2>4, <3>2, <3>3, LibraryAssumption DEF Holding
  <2> QED
    BY <1>3, <1>13, <2>1, <2>2, <2>3, <2>4 DEF UpdateRow
<1>14. CASE CleanUp(r)
  <2>1. rows' = rows /\ Unlock(r) /\ files' = [files EXCEPT ![x] = NoFiles] /\ rows[x] = None
    BY <1>2, <1>3, <1>14 DEF CleanUp, HandlerRelies
  <2>2. files'[x] = NoFiles /\ TouchesOnly({x})
    BY <1>2, <2>1 DEF DiskType, TouchesOnly
  <2> QED
    BY <2>1, <2>2 DEF Tidy
<1>15. CASE KickAndAnswer(r)
  <2>1. /\ rows' = rows /\ Unlock(r) /\ at[r] = "kick" /\ f \in Content
        /\ files' = IF old[r] # None /\ KindOf[old[r].hash] # KindOf[f]
                    THEN [files EXCEPT ![x][KindOf[old[r].hash]] = None] ELSE files
    BY <1>2, <1>3, <1>15 DEF KickAndAnswer, ReqOK
  <2>2. TouchesOnly({x})
    BY <1>2, <2>1 DEF DiskType, TouchesOnly
  <2>3. ASSUME Alive(x) PROVE Tidy(x)'
    <3>1. rows[x] # None /\ rows[x].hash = f /\ Only(x, f, g)
      BY <1>4, <2>1, <2>3
    <3>2. \A k \in Kind : files'[x][k] = IF g # None /\ KindOf[g] # KindOf[f] /\ k = KindOf[g] THEN None ELSE files[x][k]
      <4>1. CASE old[r] = None
        BY <1>3, <2>1, <4>1 DEF OldHash
      <4>2. CASE old[r] # None
        <5>1. g = old[r].hash /\ g # None
          BY <1>2, <1>3, <4>2, Shapes, LibraryAssumption DEF OldHash, RequestType
        <5> QED
          BY <1>2, <2>1, <4>2, <5>1, FileShapes DEF DiskType, File
      <4> QED
        BY <4>1, <4>2
    <3>3. Only(x, f, None)'
      BY <3>1, <3>2 DEF Only
    <3> QED
      BY <2>1, <3>1, <3>3 DEF Tidy, Only
  <2> QED
    BY <2>1, <2>2, <2>3
<1>16. CASE DeleteRow(r)
  <2>1. files' = files /\ at[r] = "deleterow"
    BY <1>16 DEF DeleteRow
  <2>2. CASE Unlock(r) /\ UNCHANGED rows
    BY <1>4, <1>8, <2>1, <2>2 DEF Untouched
  <2>3. CASE rows' = [rows EXCEPT ![x] = None] /\ Goto(r, "cleanup")
    <3>1. TouchesOnly({x})
      BY <1>2, <2>1, <2>3 DEF DiskType, TouchesOnly
    <3> QED
      BY <1>7, <2>3, <3>1 DEF Holding
  <2> QED
    BY <1>3, <1>16, <2>2, <2>3 DEF DeleteRow
<1> QED
  BY <1>10, <1>11, <1>12, <1>13, <1>14, <1>15, <1>16

\* A step of a request that holds no lock yet, or of an album's deletion.
LEMMA TidyOutsideStep ==
  ASSUME IInv, Tidiness, NEW r \in Request, at[r] \notin Holding, UNCHANGED <<step, item>>,
         \A s \in Request : s # r =>
           at'[s] = at[s] /\ req'[s] = req[s] /\ photo'[s] = photo[s] /\ old'[s] = old[s],
         albums' \subseteq albums,
         \A q \in Photo : AlbumOf[q] \in albums' => rows'[q] = rows[q] /\ files'[q] = files[q],
         HandlerTidy(r)'
  PROVE  Tidiness'
<1>1. \A q \in Photo : AlbumOf[q] \in albums' => Untouched(q)
  BY DEF Untouched
<1>2. ASSUME NEW s \in Request PROVE HandlerTidy(s)'
  <2>1. CASE s # r
    <3>1. at[s] \in Holding => photo[s] \in Photo
      BY Exclusive
    <3> QED
      BY <1>1, <2>1, <3>1, HandlerTidyKept DEF Tidiness
  <2> QED
    BY <2>1
<1>3. ASSUME NEW q \in Photo, Alive(q)', ~Busy(q)' PROVE Tidy(q)'
  <2>1. ~Busy(q) /\ Alive(q)
    BY <1>3 DEF Busy, Alive
  <2> QED
    BY <1>1, <1>3, <2>1, TidyKept DEF Tidiness, Alive
<1>4. WorkerTidy'
  <2>1. step \in Rendering => InHand \in Photo
    BY ExclusiveWorker
  <2>2. PICK q : q = InHand
    OBVIOUS
  <2>3. InHand' = q
    BY <2>2 DEF InHand
  <2> QED
    BY <2>1, <2>2, <2>3 DEF WorkerTidy, Tidiness, Alive
<1> QED
  BY <1>2, <1>3, <1>4 DEF Tidiness

LEMMA TidyOutsideActions ==
  ASSUME IInv, Tidiness, NEW r \in Request,
         Start(r) \/ Lock(r) \/ Resolve(r) \/ DropAlbumRow(r) \/ RemoveAlbumDir(r)
  PROVE  Tidiness'
<1>1. RequestType /\ DiskType /\ ReqOK /\ RowsHaveAlbums /\ LocksHeld
  BY DEF IInv, TypeInv, TypeOK, NoneHalfDone
<1>2. HandlerTidy(r)' \/ at'[r] \in Holding
  BY DEF HandlerTidy
<1>3. CASE Start(r)
  <2>1. PICK pos \in {"resolve", "lock", "lockdelete", "dropalbum"} : \E y, args : Begin(r, pos, y, args)
    BY <1>3 DEF Start, StartPost, StartPut, StartDelete, StartDeleteAlbum
  <2>2. /\ at[r] = "start" /\ at'[r] = pos /\ UNCHANGED <<albums, rows, files, step, item>>
        /\ \A s \in Request : s # r =>
             at'[s] = at[s] /\ req'[s] = req[s] /\ photo'[s] = photo[s] /\ old'[s] = old[s]
    BY <1>1, <2>1 DEF Begin, RequestType, disk, worker, render
  <2> QED
    BY <1>2, <2>1, <2>2, TidyOutsideStep DEF Holding
<1>4. Done(r) => /\ at'[r] = "done"
                 /\ \A s \in Request : s # r =>
                      at'[s] = at[s] /\ req'[s] = req[s] /\ photo'[s] = photo[s] /\ old'[s] = old[s]
  BY <1>1 DEF Done, RequestType
<1>5. ASSUME at[r] \in {"lock", "lockdelete"}, NEW x \in Photo, x = photo[r], lock[x] = None, Alive(x)
      PROVE  Tidy(x)
  <2>1. ~Busy(x)
    BY <1>1, <1>5, LibraryAssumption DEF Busy, LocksHeld
  <2> QED
    BY <1>5, <2>1 DEF Tidiness
<1>6. CASE LockIngest(r)
  <2>1. at[r] = "lock" /\ UNCHANGED <<albums, rows, files, step, item>> /\ lock[photo[r]] = None
    BY <1>6 DEF LockIngest, disk, worker, render
  <2>2. PICK x \in Photo : x = photo[r]
    BY <1>1, <2>1 DEF ReqOK
  <2>3. CASE Done(r)
    BY <1>2, <1>4, <2>1, <2>3, TidyOutsideStep DEF Holding
  <2>4. CASE ~Done(r)
    <3>1. /\ old' = [old EXCEPT ![r] = rows[x]] /\ UNCHANGED <<req, photo>>
          /\ at' = [at EXCEPT ![r] = IF req[r].file = None THEN "write"
                                     ELSE IF rows[x] = None THEN "commit" ELSE "hide"]
      BY <1>6, <2>2, <2>4 DEF LockIngest
    <3>2. /\ \A s \in Request : s # r => at'[s] = at[s] /\ old'[s] = old[s]
          /\ old'[r] = rows[x] /\ photo'[r] = x /\ req'[r] = req[r]
          /\ at'[r] = IF req[r].file = None THEN "write" ELSE IF rows[x] = None THEN "commit" ELSE "hide"
      BY <1>1, <2>2, <3>1 DEF RequestType
    <3>3. Alive(x) => Tidy(x)
      BY <1>5, <2>1, <2>2
    <3>4. Alive(x)' => Tidy(x)'
      BY <2>1, <3>3 DEF Alive, Tidy, Only
    <3>5. HandlerTidy(r)'
      BY <2>1, <3>2, <3>4 DEF HandlerTidy, Alive, Tidy, Only
    <3> QED
      BY <2>1, <3>1, <3>2, <3>5, TidyOutsideStep DEF Holding
  <2> QED
    BY <2>3, <2>4
<1>7. CASE LockDelete(r)
  <2>1. /\ at[r] = "lockdelete" /\ lock[photo[r]] = None /\ at' = [at EXCEPT ![r] = "deleterow"]
        /\ UNCHANGED <<albums, rows, files, req, photo, old, step, item>>
    BY <1>7 DEF LockDelete, disk, worker, render
  <2>2. PICK x \in Photo : x = photo[r]
    BY <1>1, <2>1 DEF ReqOK
  <2>3. /\ \A s \in Request : s # r => at'[s] = at[s]
        /\ at'[r] = "deleterow" /\ photo'[r] = x
    BY <1>1, <2>1, <2>2 DEF RequestType
  <2>4. Alive(x) => Tidy(x)
    BY <1>5, <2>1, <2>2
  <2>5. Alive(x)' => Tidy(x)'
    BY <2>1, <2>4 DEF Alive, Tidy, Only
  <2>6. HandlerTidy(r)'
    BY <2>3, <2>5 DEF HandlerTidy, Alive, Tidy, Only
  <2> QED
    BY <2>1, <2>3, <2>6, TidyOutsideStep DEF Holding
<1>8. CASE Resolve(r)
  <2>1. /\ at[r] = "resolve" /\ at' = [at EXCEPT ![r] = "lock"]
        /\ UNCHANGED <<albums, rows, files, req, old, step, item>>
        /\ \E y : photo' = [photo EXCEPT ![r] = y]
    BY <1>8 DEF Resolve, worker, render
  <2>2. at'[r] = "lock" /\ \A s \in Request : s # r => at'[s] = at[s] /\ photo'[s] = photo[s]
    BY <1>1, <2>1 DEF RequestType
  <2> QED
    BY <1>2, <2>1, <2>2, TidyOutsideStep DEF Holding
<1>9. CASE DropAlbumRow(r)
  <2>1. /\ at[r] = "dropalbum" /\ UNCHANGED <<files, step, item>>
        /\ albums' = albums \ {req[r].album} /\ Goto(r, "rmalbum")
        /\ rows' = [p \in Photo |-> IF AlbumOf[p] = req[r].album THEN None ELSE rows[p]]
    BY <1>9 DEF DropAlbumRow, worker, render
  <2>2. /\ at'[r] = "rmalbum" /\ UNCHANGED <<req, photo, old>>
        /\ \A s \in Request : s # r => at'[s] = at[s]
    BY <1>1, <2>1 DEF RequestType, Goto
  <2>3. albums' \subseteq albums /\ \A q \in Photo : AlbumOf[q] \in albums' => rows'[q] = rows[q]
    BY <2>1
  <2> QED
    BY <1>2, <2>1, <2>2, <2>3, TidyOutsideStep DEF Holding
<1>10. CASE RemoveAlbumDir(r)
  <2>1. /\ at[r] = "rmalbum" /\ Done(r) /\ UNCHANGED <<albums, rows, step, item>>
        /\ files' = [p \in Photo |-> IF AlbumOf[p] = req[r].album THEN NoFiles ELSE files[p]]
    BY <1>10 DEF RemoveAlbumDir, worker, render
  <2>2. \A q \in Photo : AlbumOf[q] \in albums => files'[q] = files[q]
    BY <1>1, <2>1 DEF RowsHaveAlbums
  <2> QED
    BY <1>2, <1>4, <2>1, <2>2, TidyOutsideStep DEF Holding
<1> QED
  BY <1>3, <1>6, <1>7, <1>8, <1>9, <1>10 DEF Lock

\* A step of the worker: it writes renditions and shows photos.
LEMMA TidyWorkerStep ==
  ASSUME IInv, Tidiness, UNCHANGED <<albums, requests>>,
         \A q \in Photo : AlbumOf[q] \in albums => Untouched(q),
         WorkerTidy'
  PROVE  Tidiness'
<1>1. ASSUME NEW s \in Request PROVE HandlerTidy(s)'
  <2>1. at[s] \in Holding => photo[s] \in Photo
    BY Exclusive
  <2> QED
    BY <2>1, HandlerTidyKept DEF Tidiness, requests
<1>2. ASSUME NEW q \in Photo, Alive(q)', ~Busy(q)' PROVE Tidy(q)'
  <2>1. ~Busy(q) /\ Alive(q)
    BY <1>2 DEF Busy, Alive, requests
  <2> QED
    BY <2>1, TidyKept DEF Tidiness, Alive
<1> QED
  BY <1>1, <1>2 DEF Tidiness

LEMMA TidyWorkerActions ==
  ASSUME IInv, Tidiness, Work
  PROVE  Tidiness'
<1>1. /\ DiskType /\ WorkerType /\ WorkerOK /\ RenderRelies /\ UNCHANGED <<albums, requests>>
      /\ WorkerTidy
  BY DEF IInv, TypeInv, TypeOK, NoneHalfDone, Tidiness, Work, TakeToken, Tick, ListPending, PickNext,
         LockRender, RenderAll, InstallOne, TrimLarge, MarkReady, TakeBack, disk
<1>2. PICK p : p = InHand
  OBVIOUS
<1>3. step \in Rendering => p \in Photo /\ (AlbumOf[p] \in albums => rows[p] # None)
  BY <1>1, <1>2, ExclusiveWorker DEF WorkerTidy, Alive
<1>4. CASE UNCHANGED <<rows, files>>
  <2>1. \A q \in Photo : Untouched(q)
    BY <1>4 DEF Untouched
  <2>2. WorkerTidy'
    <3>1. \/ step' \notin Rendering
          \/ step \in Rendering /\ item' = item
          \/ Pending(p) /\ item' = item
      BY <1>2 DEF Work, TakeToken, Tick, ListPending, PickNext, LockRender, RenderAll, InstallOne,
                  TrimLarge, MarkReady, TakeBack, UnlockRender, RenderReturns, Rendering, render
    <3>2. item' = item => InHand' = p
      BY <1>2 DEF InHand
    <3> QED
      BY <1>1, <1>3, <1>4, <3>1, <3>2 DEF WorkerTidy, Alive, Pending
  <2> QED
    BY <1>1, <2>1, <2>2, TidyWorkerStep
<1>5. CASE InstallOne \/ TrimLarge
  <2>1. /\ rows' = rows /\ item' = item /\ step \in Rendering
        /\ \E v \in Rendition : \E c : files' \in {files, [files EXCEPT ![p][v] = c]}
    <3>1. "large" \in Rendition
      BY DEF Rendition
    <3> QED
      BY <1>1, <1>2, <1>5, <3>1 DEF InstallOne, TrimLarge, Rendering, render, WorkerType
  <2>2. \A q \in Photo : \A k \in Kind : files'[q][k] = files[q][k]
    BY <1>1, <2>1, FileShapes DEF DiskType, File
  <2>3. \A q \in Photo : AlbumOf[q] \in albums => Untouched(q)
    <3>1. \A q \in Photo : q # p => files'[q] = files[q]
      BY <1>1, <2>1 DEF DiskType
    <3> QED
      BY <1>3, <2>1, <2>2, <3>1 DEF Untouched
  <2>4. WorkerTidy'
    <3>1. InHand' = p
      BY <1>2, <2>1 DEF InHand
    <3> QED
      BY <1>1, <1>3, <2>1, <3>1 DEF WorkerTidy, Alive
  <2> QED
    BY <1>1, <2>3, <2>4, TidyWorkerStep
<1>6. CASE MarkReady
  <2>1. step = "show" /\ files' = files /\ p \in Photo
    BY <1>3, <1>6 DEF MarkReady, Rendering
  <2>2. CASE SameOriginal /\ SetRow(p, rows[p].hash, TRUE) /\ UnlockRender(TRUE)
    <3>1. /\ rows[p] # None /\ rows[p] \in Row /\ step' = "next"
          /\ rows' = [rows EXCEPT ![p] = NewRow(rows[p].lr, rows[p].hash, TRUE)]
      BY <1>1, <1>2, <2>1, <2>2 DEF SameOriginal, SetRow, UnlockRender, RenderReturns, DiskType
    <3>2. rows'[p] \in Row /\ rows'[p].hash = rows[p].hash /\ \A q \in Photo \ {p} : rows'[q] = rows[q]
      BY <1>1, <2>1, <3>1 DEF DiskType, NewRow, Row
    <3>3. \A q \in Photo : Untouched(q)
      BY <2>1, <3>1, <3>2, LibraryAssumption DEF Untouched
    <3> QED
      BY <1>1, <3>1, <3>3, TidyWorkerStep DEF WorkerTidy, Rendering
  <2>3. CASE rows' = rows
    BY <1>4, <2>1, <2>3
  <2> QED
    BY <1>2, <1>6, <2>2, <2>3 DEF MarkReady
<1>7. CASE TakeBack
  <2>1. /\ step = "takeback" /\ rows' = rows /\ p \in Photo /\ step' = "next"
        /\ files' \in {files, [files EXCEPT ![p] = NoFiles]}
    BY <1>2, <1>3, <1>7 DEF TakeBack, Rendering, UnlockRender, RenderReturns
  <2>2. AlbumOf[p] \notin albums
    BY <1>1, <1>2, <1>3, <2>1 DEF RenderRelies, Rendering
  <2>3. \A q \in Photo : AlbumOf[q] \in albums => Untouched(q)
    BY <1>1, <2>1, <2>2 DEF Untouched, DiskType
  <2> QED
    BY <1>1, <2>1, <2>3, TidyWorkerStep DEF WorkerTidy, Rendering
<1>8. UNCHANGED <<rows, files>> \/ InstallOne \/ TrimLarge \/ MarkReady \/ TakeBack
  BY DEF Work, TakeToken, Tick, ListPending, PickNext, LockRender, RenderAll, disk
<1> QED
  BY <1>4, <1>5, <1>6, <1>7, <1>8

LEMMA TidyInit == Init => TidyInv
<1> SUFFICES ASSUME Init, NEW p \in Photo PROVE Tidy(p)
  BY DEF Init, TidyInv, Tidiness, HandlerTidy, WorkerTidy, Holding, Rendering
<1>1. PICK h \in [Photo -> Content \cup {None}], l \in [Photo -> Lr] :
        /\ rows = [q \in Photo |-> IF h[q] = None THEN None ELSE NewRow(l[q], h[q], TRUE)]
        /\ files = [q \in Photo |-> IF h[q] = None THEN NoFiles ELSE StoredFiles(h[q])]
  BY DEF Init
<1>2. CASE h[p] = None
  BY <1>1, <1>2 DEF Tidy
<1>3. CASE h[p] # None
  <2>1. h[p] \in Content /\ rows[p] = NewRow(l[p], h[p], TRUE) /\ files[p] = StoredFiles(h[p])
    BY <1>1, <1>3
  <2>2. rows[p] \in Row /\ rows[p].hash = h[p]
    BY <2>1 DEF NewRow, Row
  <2>3. \A k \in Kind : files[p][k] = IF k = KindOf[h[p]] THEN h[p] ELSE None
    BY <2>1, FileShapes DEF StoredFiles, File
  <2> QED
    BY <2>2, <2>3, LibraryAssumption DEF Tidy, Only
<1> QED
  BY <1>2, <1>3

LEMMA TidyStep ==
  ASSUME IInv, TidyInv, [Next]_vars
  PROVE  TidyInv'
<1>1. faults \in Nat
  <2>1. faults \in 0 .. MaxFaults /\ MaxFaults \in Nat
    BY LibraryAssumption DEF IInv, TypeInv, TypeOK
  <2> QED
    BY <2>1
<1>2. CASE Faults
  <2>1. Fault
    BY <1>2 DEF Faults, Crash, ListFails, RenderFails, LockedCallFails, OtherCallFails, InsertFails,
                CleanUpFails, RemoveOldFails
  <2>2. faults' # 0
    BY <1>1, <2>1 DEF Fault
  <2> QED
    BY <2>2 DEF TidyInv
<1>3. CASE ~Faults /\ Next
  <2>1. faults' = faults
    BY <1>3 DEF Next, Work, TakeToken, Tick, ListPending, PickNext, LockRender, RenderAll, InstallOne,
         TrimLarge, MarkReady, TakeBack, Start, StartPost, StartPut, StartDelete, StartDeleteAlbum, Begin,
         Lock, LockIngest, LockDelete, Handle, Resolve, HideOld, CommitOriginal, InsertRow,
         UpdateRow, CleanUp, KickAndAnswer, DeleteRow, DropAlbumRow, RemoveAlbumDir
  <2> QED
    BY <1>3, <2>1, TidyHandlerActions, TidyOutsideActions, TidyWorkerActions DEF TidyInv, Next, Handle
<1>4. CASE UNCHANGED vars
  BY <1>4 DEF vars, disk, requests, worker, render, TidyInv, Tidiness, HandlerTidy, WorkerTidy, InHand,
              Alive, Busy, Tidy, Only, OldHash
<1> QED
  BY <1>2, <1>3, <1>4

LEMMA TidyAlways == Spec => []TidyInv
BY Inductive, TidyInit, TidyStep, PTL DEF Spec

LEMMA HashFollows == IInv /\ TidyInv => HashKept
<1>1. ASSUME IInv, TidyInv, faults = 0, NEW p \in Photo, Ready(p)
      PROVE  files[p][KindOf[rows[p].hash]] = rows[p].hash
  <2>1. RowsHaveAlbums /\ Tidiness /\ rows[p] \in Row
    BY <1>1 DEF IInv, TypeInv, TypeOK, NoneHalfDone, TidyInv, DiskType, Ready
  <2>2. Only(p, rows[p].hash, None)
    <3>1. Alive(p)
      BY <1>1, <2>1 DEF RowsHaveAlbums, Alive, Ready
    <3>2. CASE Busy(p)
      <4>1. PICK r \in Request : at[r] \in Holding /\ photo[r] = p
        BY <3>2 DEF Busy
      <4>2. HandlerTidy(r) /\ HandlerRelies(r)
        BY <1>1, <2>1 DEF IInv, NoneHalfDone, Tidiness
      <4>3. at[r] \in {"hide", "deleterow"} \/ (at[r] = "write" /\ req[r].file = None)
        BY <1>1, <4>1, <4>2 DEF HandlerRelies, Holding, Ready
      <4> QED
        BY <1>1, <3>1, <4>1, <4>2, <4>3 DEF HandlerTidy, Tidy, Ready
    <3>3. CASE ~Busy(p)
      BY <1>1, <2>1, <3>1, <3>3 DEF Tidiness, Tidy, Ready
    <3> QED
      BY <3>2, <3>3
  <2> QED
    BY <2>1, <2>2, FileShapes, Shapes DEF Only
<1> QED
  BY <1>1 DEF HashKept, HashMatchesOriginal

\* Without faults the recorded hash of a visible photo is that of the stored
\* original, however its uploads, deletions and renders interleave (ingest.go
\* changes the original and the row in two steps).
THEOREM HashesKept == Spec => []HashKept
BY HashFollows, Inductive, TidyAlways, PTL

\* Without faults nothing stray is left under a live album once all is quiet:
\* lost insert races, deletions, changes of kind and renders of photos deleted
\* meanwhile take back what they made.
THEOREM NothingStray == Spec => []NoStrayFiles
<1>1. ASSUME TidyInv, Quiet, faults = 0, NEW p \in Photo, AlbumOf[p] \in albums
      PROVE  IF rows[p] = None THEN files[p] = NoFiles
             ELSE \A k \in Kind \ {KindOf[rows[p].hash]} : files[p][k] = None
  <2>1. ~Busy(p)
    BY <1>1 DEF Quiet, Busy, Holding
  <2> QED
    BY <1>1, <2>1 DEF TidyInv, Tidiness, Alive, Tidy, Only
<1>2. TidyInv => NoStrayFiles
  BY <1>1 DEF NoStrayFiles
<1> QED
  BY <1>2, TidyAlways, PTL

-----------------------------------------------------------------------------
(***************************************************************************)
(* Who changes what, and what that does to those who read meanwhile.       *)
(***************************************************************************)

\* The handlers but r go on as before.
OthersSame(r) == \A s \in Request : s # r =>
  at'[s] = at[s] /\ req'[s] = req[s] /\ photo'[s] = photo[s] /\ old'[s] = old[s]

\* The steps of a handler that holds its photo's lock.
HolderAct(r) ==
  \/ HideOld(r) \/ CommitOriginal(r) \/ InsertRow(r) \/ UpdateRow(r)
  \/ CleanUp(r) \/ KickAndAnswer(r) \/ DeleteRow(r)
  \/ LockedCallFails(r) \/ InsertFails(r) \/ CleanUpFails(r) \/ RemoveOldFails(r)

HolderMoves(r) ==
  /\ at[r] \in Holding /\ at'[r] # at[r]
  /\ TouchesOnly({photo[r]}) /\ UNCHANGED albums /\ OthersSame(r)

OutsiderMoves(r) ==
  /\ at[r] \notin Holding /\ at'[r] # at[r] /\ at'[r] # "kick"
  /\ at'[r] = "write" => req'[r].file = None
  /\ albums' \subseteq albums /\ OthersSame(r)
  /\ \A q \in Photo : AlbumOf[q] \in albums' => rows'[q] = rows[q] /\ files'[q] = files[q]

WorkerMoves ==
  /\ UNCHANGED <<albums, requests>>
  /\ \A q \in Photo :
       /\ rows'[q] = None <=> rows[q] = None
       /\ rows[q] # None => /\ rows'[q].hash = rows[q].hash
                            /\ \A k \in Kind : files'[q][k] = files[q][k]
                            /\ \A v \in Renditions(rows[q].hash) :
                                 files'[q][v] \in {files[q][v], files[q][KindOf[rows[q].hash]]}
       /\ files'[q] # files[q] \/ rows'[q] # rows[q] => step \in Rendering /\ q = InHand

AllStop == /\ UNCHANGED <<albums, rows, files>> /\ faults' # faults
           /\ \A r \in Request : at'[r] \in {"start", "done"}

LEMMA HolderStep ==
  ASSUME IInv, NEW r \in Request, HolderAct(r)
  PROVE  HolderMoves(r)
<1>1. at[r] \in Holding
  BY DEF HolderAct, HideOld, CommitOriginal, InsertRow, UpdateRow, CleanUp, KickAndAnswer, DeleteRow,
         LockedCallFails, InsertFails, CleanUpFails, RemoveOldFails, Holding
<1>2. RequestType /\ DiskType /\ photo[r] \in Photo
  BY <1>1, Exclusive DEF IInv, TypeInv, TypeOK
<1>3. UNCHANGED albums
  BY DEF HolderAct, HideOld, CommitOriginal, InsertRow, UpdateRow, CleanUp, KickAndAnswer, DeleteRow,
         LockedCallFails, InsertFails, CleanUpFails, RemoveOldFails, disk
<1>4. Unlock(r) => at'[r] # at[r] /\ OthersSame(r)
  BY <1>1, <1>2 DEF Unlock, Done, RequestType, OthersSame, Holding
<1>5. ASSUME NEW pos \in {"commit", "write", "cleanup", "kick"}, Goto(r, pos), at[r] # pos
      PROVE  at'[r] # at[r] /\ OthersSame(r)
  BY <1>2, <1>5 DEF Goto, RequestType, OthersSame
<1>6. at'[r] # at[r] /\ OthersSame(r)
  BY <1>4, <1>5 DEF HolderAct, HideOld, CommitOriginal, InsertRow, UpdateRow, CleanUp, KickAndAnswer, DeleteRow,
         LockedCallFails, InsertFails, CleanUpFails, RemoveOldFails
<1>7. TouchesOnly({photo[r]})
  BY <1>2 DEF TouchesOnly, DiskType, HolderAct, HideOld, CommitOriginal, InsertRow, UpdateRow, CleanUp, KickAndAnswer,
         DeleteRow, LockedCallFails, InsertFails, CleanUpFails, RemoveOldFails, disk, SetRow
<1> QED
  BY <1>1, <1>3, <1>6, <1>7 DEF HolderMoves

LEMMA OutsiderStep ==
  ASSUME IInv, NEW r \in Request,
         \/ Start(r) \/ Lock(r) \/ Resolve(r) \/ DropAlbumRow(r) \/ RemoveAlbumDir(r)
         \/ OtherCallFails(r)
  PROVE  OutsiderMoves(r)
<1>1. RequestType /\ DiskType /\ ReqOK /\ RowsHaveAlbums
  BY DEF IInv, TypeInv, TypeOK, NoneHalfDone
<1>2. CASE Start(r)
  <2>1. PICK pos \in {"resolve", "lock", "lockdelete", "dropalbum"} : \E y, args : Begin(r, pos, y, args)
    BY <1>2 DEF Start, StartPost, StartPut, StartDelete, StartDeleteAlbum
  <2> QED
    BY <1>1, <2>1 DEF Begin, RequestType, disk, OutsiderMoves, OthersSame, Holding
<1>3. Done(r) => at'[r] = "done" /\ OthersSame(r)
  BY <1>1 DEF Done, RequestType, OthersSame
<1>4. CASE Lock(r)
  <2>1. at[r] \in {"lock", "lockdelete"} /\ UNCHANGED <<albums, rows, files>>
    BY <1>4 DEF Lock, LockIngest, LockDelete, disk
  <2>2. CASE Done(r)
    BY <1>3, <2>1, <2>2 DEF OutsiderMoves, Holding
  <2>3. CASE ~Done(r)
    <3>1. /\ UNCHANGED <<req, photo>>
          /\ \E y : old' = [old EXCEPT ![r] = y] \/ old' = old
          /\ \E pos \in {"write", "commit", "hide", "deleterow"} :
               at' = [at EXCEPT ![r] = pos] /\ (pos = "write" => req[r].file = None)
      BY <1>4, <2>3 DEF Lock, LockIngest, LockDelete
    <3> QED
      BY <1>1, <2>1, <3>1 DEF RequestType, OutsiderMoves, OthersSame, Holding
  <2> QED
    BY <2>2, <2>3
<1>5. CASE Resolve(r)
  BY <1>1, <1>5 DEF Resolve, RequestType, OutsiderMoves, OthersSame, Holding
<1>6. CASE DropAlbumRow(r)
  <2>1. albums' = albums \ {req[r].album} /\ files' = files /\ Goto(r, "rmalbum") /\ at[r] = "dropalbum"
        /\ rows' = [p \in Photo |-> IF AlbumOf[p] = req[r].album THEN None ELSE rows[p]]
    BY <1>6 DEF DropAlbumRow
  <2>2. at'[r] = "rmalbum" /\ OthersSame(r)
    BY <1>1, <2>1 DEF Goto, RequestType, OthersSame
  <2> QED
    BY <2>1, <2>2 DEF OutsiderMoves, Holding
<1>7. CASE RemoveAlbumDir(r)
  <2>1. /\ at[r] = "rmalbum" /\ Done(r) /\ UNCHANGED <<albums, rows>>
        /\ files' = [p \in Photo |-> IF AlbumOf[p] = req[r].album THEN NoFiles ELSE files[p]]
    BY <1>7 DEF RemoveAlbumDir
  <2>2. \A q \in Photo : AlbumOf[q] \in albums => files'[q] = files[q]
    BY <1>1, <2>1 DEF RowsHaveAlbums
  <2> QED
    BY <1>3, <2>1, <2>2 DEF OutsiderMoves, Holding
<1>8. CASE OtherCallFails(r)
  <2>1. /\ at[r] \in {"resolve", "dropalbum", "rmalbum", "lock"} /\ Done(r)
        /\ UNCHANGED <<albums, rows, files>>
    BY <1>8 DEF OtherCallFails, disk
  <2> QED
    BY <1>3, <2>1 DEF OutsiderMoves, Holding
<1> QED
  BY <1>2, <1>4, <1>5, <1>6, <1>7, <1>8

LEMMA WorkerOrStop ==
  ASSUME IInv, Work \/ ListFails \/ RenderFails \/ UNCHANGED vars
  PROVE  WorkerMoves
<1>1. /\ DiskType /\ WorkerType /\ WorkerOK /\ RenderRelies /\ UNCHANGED <<albums, requests>>
  BY DEF IInv, TypeInv, TypeOK, NoneHalfDone, Work, TakeToken, Tick, ListPending, PickNext,
         LockRender, RenderAll, InstallOne, TrimLarge, MarkReady, TakeBack, disk, ListFails, RenderFails, vars
<1>2. PICK p : p = InHand
  OBVIOUS
<1>3. step \in Rendering => p \in Photo
  BY <1>2, ExclusiveWorker
<1>4. CASE UNCHANGED <<rows, files>>
  BY <1>1, <1>4 DEF WorkerMoves
<1>5. CASE InstallOne \/ TrimLarge
  <2>1. /\ rows' = rows /\ step \in Rendering
        /\ \E v \in Rendition : \E c : files' \in {files, [files EXCEPT ![p][v] = c]}
    <3>1. "large" \in Rendition
      BY DEF Rendition
    <3> QED
      BY <1>1, <1>2, <1>5, <3>1 DEF InstallOne, TrimLarge, Rendering, render, WorkerType
  <2>2. \A q \in Photo : \A k \in Kind : files'[q][k] = files[q][k]
    BY <1>1, <2>1, FileShapes DEF DiskType, File
  <2>3. \A q \in Photo : q # p => files'[q] = files[q]
    BY <1>1, <2>1 DEF DiskType
  <2>4. ASSUME rows[p] # None, NEW v \in Renditions(rows[p].hash)
        PROVE  files'[p][v] \in {files[p][v], files[p][KindOf[rows[p].hash]]}
    <3>1. p \in Photo /\ v \in File /\ (v # "large" \/ rows[p].hash \in Wide)
      BY <1>3, <2>1, <2>4, LibraryAssumption DEF Renditions, File, Rendition
    <3>2. CASE InstallOne
      <4>1. files[p][KindOf[rows[p].hash]] = src
        BY <1>1, <1>2, <2>4, <3>2 DEF InstallOne, RenderRelies
      <4>2. \E w : files' = [files EXCEPT ![p][w] = src]
        BY <1>2, <3>2 DEF InstallOne
      <4> QED
        BY <1>1, <3>1, <4>1, <4>2 DEF DiskType
    <3>3. CASE TrimLarge
      <4>1. rows[p].hash = snap
        BY <1>1, <1>2, <2>4, <3>3 DEF TrimLarge, RenderRelies
      <4>2. files' = files \/ (snap \notin Wide /\ files' = [files EXCEPT ![p]["large"] = None])
        BY <1>2, <3>3 DEF TrimLarge
      <4> QED
        BY <1>1, <3>1, <4>1, <4>2 DEF DiskType
    <3> QED
      BY <1>5, <3>2, <3>3
  <2> QED
    BY <1>1, <1>2, <2>1, <2>2, <2>3, <2>4 DEF WorkerMoves
<1>6. CASE MarkReady
  <2>1. step = "show" /\ files' = files /\ p \in Photo
    BY <1>3, <1>6 DEF MarkReady, Rendering
  <2>2. CASE SameOriginal /\ SetRow(p, rows[p].hash, TRUE) /\ UnlockRender(TRUE)
    <3>1. /\ rows[p] # None /\ rows[p] \in Row
          /\ rows' = [rows EXCEPT ![p] = NewRow(rows[p].lr, rows[p].hash, TRUE)]
      BY <1>1, <1>2, <2>1, <2>2 DEF SameOriginal, SetRow, DiskType
    <3>2. rows'[p] \in Row /\ rows'[p].hash = rows[p].hash /\ \A q \in Photo \ {p} : rows'[q] = rows[q]
      BY <1>1, <2>1, <3>1 DEF DiskType, NewRow, Row
    <3> QED
      BY <1>1, <1>2, <2>1, <3>1, <3>2, LibraryAssumption DEF WorkerMoves, Rendering
  <2>3. CASE rows' = rows
    BY <1>4, <2>1, <2>3
  <2> QED
    BY <1>2, <1>6, <2>2, <2>3 DEF MarkReady
<1>7. CASE TakeBack
  <2>1. /\ step = "takeback" /\ rows' = rows /\ p \in Photo /\ rows[p] = None
        /\ files' \in {files, [files EXCEPT ![p] = NoFiles]}
    BY <1>1, <1>2, <1>3, <1>7 DEF TakeBack, Rendering, RenderRelies
  <2> QED
    BY <1>1, <1>2, <2>1 DEF WorkerMoves, DiskType, Rendering
<1>8. UNCHANGED <<rows, files>> \/ InstallOne \/ TrimLarge \/ MarkReady \/ TakeBack
  BY DEF Work, TakeToken, Tick, ListPending, PickNext, LockRender, RenderAll, disk, ListFails, RenderFails, vars
<1> QED
  BY <1>4, <1>5, <1>6, <1>7, <1>8

LEMMA WhoMoves ==
  ASSUME IInv, [Next]_vars
  PROVE  \/ \E r \in Request : HolderAct(r) \/ OutsiderMoves(r)
         \/ WorkerMoves \/ AllStop
<1>1. CASE Crash
  <2>1. faults \in Nat
    BY LibraryAssumption DEF IInv, TypeInv, TypeOK
  <2>2. faults' = faults + 1
    BY <1>1 DEF Crash, Fault
  <2> QED
    BY <1>1, <2>1, <2>2 DEF Crash, disk, AllStop
<1> QED
  BY <1>1, OutsiderStep, WorkerOrStop DEF Next, Faults, Handle, HolderAct

\* Nobody changes what the holder of a lock works on, unless its album goes.
LEMMA LockedStays ==
  ASSUME IInv, [Next]_vars, NEW r \in Request, at[r] \in Holding, at'[r] = at[r]
  PROVE  /\ AlbumOf[photo[r]] \in albums' =>
              rows'[photo[r]] = rows[photo[r]] /\ files'[photo[r]] = files[photo[r]]
         /\ req'[r] = req[r] /\ photo'[r] = photo[r] /\ old'[r] = old[r]
<1>1. photo[r] \in Photo
  BY Exclusive
<1>2. CASE \E s \in Request : HolderAct(s)
  <2>1. PICK s \in Request : HolderMoves(s)
    BY <1>2, HolderStep
  <2>2. s # r /\ photo[s] # photo[r]
    BY <2>1, Exclusive DEF HolderMoves
  <2> QED
    BY <1>1, <2>1, <2>2 DEF HolderMoves, TouchesOnly, OthersSame
<1>3. CASE \E s \in Request : OutsiderMoves(s)
  BY <1>1, <1>3 DEF OutsiderMoves, OthersSame
<1>4. CASE WorkerMoves
  BY <1>1, <1>4, Exclusive DEF WorkerMoves, requests
<1>5. CASE AllStop
  BY <1>5 DEF AllStop, Holding
<1> QED
  BY <1>2, <1>3, <1>4, <1>5, WhoMoves

\* How a handler comes to the position where it writes the row, and past it.
LEMMA IntoWrite ==
  ASSUME IInv, [Next]_vars, NEW r \in Request,
         at[r] # "write", at'[r] = "write", req'[r].file # None
  PROVE  CommitOriginal(r)
<1>1. RequestType
  BY DEF IInv, TypeInv, TypeOK
<1>2. CASE \E s \in Request : HolderAct(s)
  <2>1. PICK s \in Request : HolderAct(s) /\ HolderMoves(s)
    BY <1>2, HolderStep
  <2>2. s = r
    BY <2>1 DEF HolderMoves, OthersSame
  <2> QED
    BY <1>1, <2>1, <2>2
    DEF HolderAct, HideOld, CommitOriginal, InsertRow, UpdateRow, CleanUp, KickAndAnswer, DeleteRow,
        LockedCallFails, InsertFails, CleanUpFails, RemoveOldFails, Goto, Unlock, Done, RequestType
<1>3. CASE \E s \in Request : OutsiderMoves(s)
  BY <1>3 DEF OutsiderMoves, OthersSame
<1>4. CASE WorkerMoves
  BY <1>4 DEF WorkerMoves, requests
<1>5. CASE AllStop
  BY <1>5 DEF AllStop
<1> QED
  BY <1>2, <1>3, <1>4, <1>5, WhoMoves

LEMMA IntoKick ==
  ASSUME IInv, [Next]_vars, NEW r \in Request, at[r] # "kick", at'[r] = "kick"
  PROVE  InsertRow(r) \/ UpdateRow(r)
<1>1. RequestType
  BY DEF IInv, TypeInv, TypeOK
<1>2. CASE \E s \in Request : HolderAct(s)
  <2>1. PICK s \in Request : HolderAct(s) /\ HolderMoves(s)
    BY <1>2, HolderStep
  <2>2. s = r
    BY <2>1 DEF HolderMoves, OthersSame
  <2> QED
    BY <1>1, <2>1, <2>2
    DEF HolderAct, HideOld, CommitOriginal, InsertRow, UpdateRow, CleanUp, KickAndAnswer, DeleteRow,
        LockedCallFails, InsertFails, CleanUpFails, RemoveOldFails, Goto, Unlock, Done, RequestType
<1>3. CASE \E s \in Request : OutsiderMoves(s)
  BY <1>3 DEF OutsiderMoves, OthersSame
<1>4. CASE WorkerMoves
  BY <1>4 DEF WorkerMoves, requests
<1>5. CASE AllStop
  BY <1>5 DEF AllStop
<1> QED
  BY <1>2, <1>3, <1>4, <1>5, WhoMoves

LEMMA OutOfWrite ==
  ASSUME IInv, [Next]_vars, NEW r \in Request, at[r] = "write", at'[r] # "write"
  PROVE  InsertRow(r) \/ UpdateRow(r) \/ faults' # faults
<1>1. faults \in Nat
  BY LibraryAssumption DEF IInv, TypeInv, TypeOK
<1>2. CASE AllStop
  BY <1>2 DEF AllStop
<1>3. CASE \E s \in Request : HolderAct(s)
  <2>1. PICK s \in Request : HolderAct(s) /\ HolderMoves(s)
    BY <1>3, HolderStep
  <2>2. s = r
    BY <2>1 DEF HolderMoves, OthersSame
  <2>3. Fault => faults' # faults
    BY <1>1 DEF Fault
  <2>4. ~HideOld(r) /\ ~CommitOriginal(r) /\ ~CleanUp(r) /\ ~KickAndAnswer(r) /\ ~DeleteRow(r)
    BY DEF HideOld, CommitOriginal, CleanUp, KickAndAnswer, DeleteRow
  <2> QED
    BY <2>1, <2>2, <2>3, <2>4 DEF HolderAct, LockedCallFails, InsertFails, CleanUpFails, RemoveOldFails
<1>4. CASE \E s \in Request : OutsiderMoves(s)
  BY <1>4 DEF OutsiderMoves, OthersSame, Holding
<1>5. CASE WorkerMoves
  BY <1>5 DEF WorkerMoves, requests
<1> QED
  BY <1>2, <1>3, <1>4, <1>5, WhoMoves

\* What the holder of its lock does to a photo that keeps its row.
LEMMA HolderOnRow ==
  ASSUME IInv, NEW r \in Request, HolderAct(r), NEW p, p = photo[r],
         rows[p] # None, rows'[p] # None
  PROVE  \/ files'[p] = files[p] /\ rows'[p].hash = rows[p].hash
         \/ CommitOriginal(r) \/ (UpdateRow(r) /\ req[r].file # None) \/ KickAndAnswer(r)
<1>1. RequestType /\ DiskType /\ p \in Photo /\ HandlerRelies(r)
  BY Exclusive, HolderStep DEF IInv, TypeInv, TypeOK, NoneHalfDone, HolderMoves
<1>2. CASE HideOld(r)
  <2>1. files' = files /\ (rows' = rows \/ SetRow(p, rows[p].hash, FALSE))
    BY <1>2 DEF HideOld
  <2>2. SetRow(p, rows[p].hash, FALSE) => rows'[p] = NewRow(rows[p].lr, rows[p].hash, FALSE)
    BY <1>1 DEF SetRow, DiskType
  <2>3. NewRow(rows[p].lr, rows[p].hash, FALSE).hash = rows[p].hash
    BY DEF NewRow
  <2> QED
    BY <2>1, <2>2, <2>3
<1>3. CASE UpdateRow(r) /\ req[r].file = None
  <2>1. files' = files /\ at[r] = "write" /\ old[r] # None
        /\ (rows' = rows \/ SetRow(p, old[r].hash, rows[p].ready))
    BY <1>3 DEF UpdateRow
  <2>2. SetRow(p, old[r].hash, rows[p].ready) => rows'[p] = NewRow(rows[p].lr, old[r].hash, rows[p].ready)
    BY <1>1 DEF SetRow, DiskType
  <2>3. old[r].hash = rows[p].hash
    BY <1>1, <2>1 DEF HandlerRelies
  <2> QED
    BY <2>1, <2>2, <2>3 DEF NewRow
<1>4. CASE InsertRow(r) \/ CleanUp(r)
  BY <1>1, <1>4 DEF InsertRow, CleanUp, HandlerRelies
<1>5. CASE DeleteRow(r)
  BY <1>1, <1>5 DEF DeleteRow, DiskType
<1>6. CASE LockedCallFails(r) \/ InsertFails(r) \/ CleanUpFails(r) \/ RemoveOldFails(r)
  BY <1>6 DEF LockedCallFails, InsertFails, CleanUpFails, RemoveOldFails, disk
<1> QED
  BY <1>2, <1>3, <1>4, <1>5, <1>6 DEF HolderAct

\* The ways in which the row of a photo that keeps one, or its files, change.
LEMMA RowLives ==
  ASSUME IInv, [Next]_vars, NEW p \in Photo, rows[p] # None, rows'[p] # None
  PROVE  \/ files'[p] = files[p] /\ rows'[p].hash = rows[p].hash
         \/ \E r \in Request :
              /\ photo[r] = p
              /\ CommitOriginal(r) \/ (UpdateRow(r) /\ req[r].file # None) \/ KickAndAnswer(r)
         \/ /\ step \in Rendering /\ p = InHand
            /\ rows'[p].hash = rows[p].hash
            /\ \A k \in Kind : files'[p][k] = files[p][k]
            /\ \A v \in Renditions(rows[p].hash) :
                 files'[p][v] \in {files[p][v], files[p][KindOf[rows[p].hash]]}
<1>1. AlbumOf[p] \in albums'
  <2>1. IInv'
    BY StepInv
  <2> QED
    BY <2>1 DEF IInv, NoneHalfDone, RowsHaveAlbums
<1>2. CASE \E r \in Request : HolderAct(r)
  <2>1. PICK r \in Request : HolderAct(r) /\ HolderMoves(r)
    BY <1>2, HolderStep
  <2>2. CASE photo[r] = p
    BY <2>1, <2>2, HolderOnRow
  <2>3. CASE photo[r] # p
    BY <2>1, <2>3 DEF HolderMoves, TouchesOnly
  <2> QED
    BY <2>2, <2>3
<1>3. CASE \E r \in Request : OutsiderMoves(r)
  BY <1>1, <1>3 DEF OutsiderMoves
<1>4. CASE WorkerMoves
  BY <1>4 DEF WorkerMoves
<1>5. CASE AllStop
  BY <1>5 DEF AllStop
<1> QED
  BY <1>2, <1>3, <1>4, <1>5, WhoMoves

\* A row appears by an insert only.
LEMMA RowComes ==
  ASSUME IInv, [Next]_vars, NEW p \in Photo, rows[p] = None, rows'[p] # None
  PROVE  \E r \in Request : photo[r] = p /\ InsertRow(r)
<1>1. AlbumOf[p] \in albums' /\ DiskType
  <2>1. IInv'
    BY StepInv
  <2> QED
    BY <2>1 DEF IInv, NoneHalfDone, RowsHaveAlbums, TypeInv, TypeOK
<1>2. CASE \E r \in Request : HolderAct(r)
  <2>1. PICK r \in Request : HolderAct(r) /\ HolderMoves(r)
    BY <1>2, HolderStep
  <2>2. photo[r] = p
    BY <2>1 DEF HolderMoves, TouchesOnly
  <2> QED
    BY <1>1, <2>1, <2>2
    DEF HolderAct, HideOld, CommitOriginal, UpdateRow, CleanUp, KickAndAnswer, DeleteRow,
        LockedCallFails, InsertFails, CleanUpFails, RemoveOldFails, DiskType, disk
<1>3. CASE \E r \in Request : OutsiderMoves(r)
  BY <1>1, <1>3 DEF OutsiderMoves
<1>4. CASE WorkerMoves
  BY <1>4 DEF WorkerMoves
<1>5. CASE AllStop
  BY <1>5 DEF AllStop
<1> QED
  BY <1>2, <1>3, <1>4, <1>5, WhoMoves

-----------------------------------------------------------------------------
(***************************************************************************)
(* Every row has an original of its kind, through every fault.             *)
(***************************************************************************)

Originals ==
  /\ \A p \in Photo : rows[p] # None => files[p][KindOf[rows[p].hash]] # None
  /\ \A r \in Request :
       /\ at[r] = "write" /\ req[r].file # None /\ Alive(photo[r]) =>
            files[photo[r]][KindOf[req[r].file]] = req[r].file
       /\ at[r] = "kick" /\ rows[photo[r]] # None => rows[photo[r]].hash = req[r].file

LEMMA OriginalsInit == Init => Originals
<1> SUFFICES ASSUME Init PROVE Originals
  OBVIOUS
<1>1. \A r \in Request : at[r] = "start"
  BY DEF Init
<1>2. PICK h \in [Photo -> Content \cup {None}], l \in [Photo -> Lr] :
        /\ rows = [p \in Photo |-> IF h[p] = None THEN None ELSE NewRow(l[p], h[p], TRUE)]
        /\ files = [p \in Photo |-> IF h[p] = None THEN NoFiles ELSE StoredFiles(h[p])]
  BY DEF Init
<1>3. ASSUME NEW p \in Photo, rows[p] # None
      PROVE  files[p][KindOf[rows[p].hash]] # None
  <2>1. h[p] \in Content /\ h[p] # None /\ rows[p].hash = h[p] /\ files[p] = StoredFiles(h[p])
    BY <1>2, <1>3, LibraryAssumption DEF NewRow
  <2>2. KindOf[h[p]] \in File
    BY <2>1, LibraryAssumption DEF File
  <2> QED
    BY <2>1, <2>2 DEF StoredFiles
<1> QED
  BY <1>1, <1>3 DEF Originals

\* The file of the row, and the row, at the end of a step.
LEMMA RowWritten ==
  ASSUME IInv, NEW r \in Request, req[r].file # None,
         \/ InsertRow(r) /\ rows'[photo[r]] # None
         \/ UpdateRow(r) /\ rows'[photo[r]] # None
  PROVE  /\ at[r] = "write" /\ files' = files /\ albums' = albums
         /\ rows'[photo[r]].hash = req[r].file
         /\ at'[r] = "kick" => req'[r] = req[r] /\ photo'[r] = photo[r]
<1>1. RequestType /\ DiskType /\ photo[r] \in Photo /\ HandlerRelies(r) /\ at[r] = "write"
  <2>1. at[r] = "write"
    BY DEF InsertRow, UpdateRow
  <2> QED
    BY <2>1, Exclusive DEF IInv, TypeInv, TypeOK, NoneHalfDone, Holding
<1>2. CASE InsertRow(r)
  <2>1. old[r] = None /\ rows[photo[r]] = None
    BY <1>1, <1>2 DEF InsertRow, HandlerRelies
  <2>2. rows' = [rows EXCEPT ![photo[r]] = NewRow(req[r].lr, req[r].file, FALSE)]
    BY <1>2, <2>1 DEF InsertRow
  <2>3. rows'[photo[r]] = NewRow(req[r].lr, req[r].file, FALSE)
    BY <1>1, <2>2 DEF DiskType
  <2> QED
    BY <1>1, <1>2, <2>3 DEF InsertRow, NewRow, Goto
<1>3. CASE UpdateRow(r)
  <2>1. SetRow(photo[r], req[r].file, rows[photo[r]].ready) /\ Goto(r, "kick")
    BY <1>1, <1>3 DEF UpdateRow
  <2>2. rows'[photo[r]] = NewRow(rows[photo[r]].lr, req[r].file, rows[photo[r]].ready)
    BY <1>1, <2>1 DEF SetRow, DiskType
  <2> QED
    BY <1>1, <1>3, <2>1, <2>2 DEF UpdateRow, NewRow, Goto
<1> QED
  BY <1>2, <1>3

\* What Commit and KickAndAnswer do to the files.
LEMMA OneOriginal ==
  ASSUME IInv, NEW r \in Request, NEW p, p = photo[r]
  PROVE  /\ CommitOriginal(r) =>
              /\ at[r] = "commit" /\ req[r].file \in Content /\ p \in Photo /\ rows' = rows /\ albums' = albums
              /\ files'[p][KindOf[req[r].file]] = req[r].file
              /\ \A f \in File \ {KindOf[req[r].file]} : files'[p][f] = files[p][f]
              /\ at'[r] = "write" /\ req' = req /\ photo' = photo
         /\ KickAndAnswer(r) =>
              /\ at[r] = "kick" /\ p \in Photo /\ rows' = rows
              /\ \A f \in File : \/ files'[p][f] = files[p][f]
                                 \/ f \in Kind /\ f # KindOf[req[r].file]
<1>1. RequestType /\ DiskType /\ ReqOK
  BY DEF IInv, TypeInv, TypeOK
<1>2. ASSUME CommitOriginal(r)
      PROVE  /\ at[r] = "commit" /\ req[r].file \in Content /\ p \in Photo /\ rows' = rows /\ albums' = albums
             /\ files'[p][KindOf[req[r].file]] = req[r].file
             /\ \A f \in File \ {KindOf[req[r].file]} : files'[p][f] = files[p][f]
             /\ at'[r] = "write" /\ req' = req /\ photo' = photo
  <2>1. /\ at[r] = "commit" /\ rows' = rows /\ albums' = albums
        /\ files' = [files EXCEPT ![p][KindOf[req[r].file]] = req[r].file] /\ Goto(r, "write")
    BY <1>2 DEF CommitOriginal
  <2>2. req[r].file \in Content /\ p \in Photo
    BY <1>1, <2>1 DEF ReqOK
  <2>3. KindOf[req[r].file] \in File
    BY <2>2, LibraryAssumption DEF File
  <2> QED
    BY <1>1, <2>1, <2>2, <2>3 DEF DiskType, RequestType, Goto
<1>3. ASSUME KickAndAnswer(r)
      PROVE  /\ at[r] = "kick" /\ p \in Photo /\ rows' = rows
             /\ \A f \in File : \/ files'[p][f] = files[p][f]
                                \/ f \in Kind /\ f # KindOf[req[r].file]
  <2>1. at[r] = "kick" /\ rows' = rows /\ p \in Photo
    BY <1>1, <1>3 DEF KickAndAnswer, ReqOK
  <2>2. CASE files' = files
    BY <2>1, <2>2
  <2>3. CASE /\ old[r] # None /\ KindOf[old[r].hash] # KindOf[req[r].file]
             /\ files' = [files EXCEPT ![p][KindOf[old[r].hash]] = None]
    <3>1. KindOf[old[r].hash] \in Kind
      BY <1>1, <2>3, Shapes, LibraryAssumption DEF RequestType
    <3> QED
      BY <1>1, <2>1, <2>3, <3>1 DEF DiskType, File
  <2> QED
    BY <1>3, <2>2, <2>3 DEF KickAndAnswer
<1> QED
  BY <1>2, <1>3

\* Of a photo that keeps its row, only an original of another kind than the
\* row's is ever removed, or a large rendition the row's original does not get.
LEMMA FileLost ==
  ASSUME IInv, Originals, [Next]_vars, NEW p \in Photo, rows[p] # None, rows'[p] # None,
         NEW f \in File, files[p][f] # None, files'[p][f] = None
  PROVE  \/ f \in Kind /\ f # KindOf[rows[p].hash]
         \/ f = "large" /\ rows[p].hash \notin Wide
<1>1. CASE \E r \in Request :
             /\ photo[r] = p
             /\ CommitOriginal(r) \/ (UpdateRow(r) /\ req[r].file # None) \/ KickAndAnswer(r)
  <2>1. PICK r \in Request :
          /\ photo[r] = p
          /\ CommitOriginal(r) \/ (UpdateRow(r) /\ req[r].file # None) \/ KickAndAnswer(r)
    BY <1>1
  <2>2. CASE CommitOriginal(r)
    BY <2>1, <2>2, OneOriginal, LibraryAssumption
  <2>3. CASE UpdateRow(r)
    BY <2>3 DEF UpdateRow
  <2>4. CASE KickAndAnswer(r)
    BY <2>1, <2>4, OneOriginal DEF Originals
  <2> QED
    BY <2>1, <2>2, <2>3, <2>4
<1>2. CASE /\ \A k \in Kind : files'[p][k] = files[p][k]
           /\ \A v \in Renditions(rows[p].hash) :
                files'[p][v] \in {files[p][v], files[p][KindOf[rows[p].hash]]}
  <2>1. files[p][KindOf[rows[p].hash]] # None
    BY DEF Originals
  <2>2. f \notin Renditions(rows[p].hash) /\ f \notin Kind
    BY <1>2, <2>1
  <2> QED
    BY <2>2 DEF File, Rendition, Renditions
<1> QED
  BY <1>1, <1>2, RowLives

LEMMA Shrinks == ASSUME IInv, [Next]_vars PROVE albums' \subseteq albums
BY WhoMoves, HolderStep DEF HolderMoves, OutsiderMoves, WorkerMoves, AllStop

LEMMA OriginalsStep ==
  ASSUME IInv, Originals, [Next]_vars
  PROVE  Originals'
<1>1. IInv'
  BY StepInv
<1>2. ASSUME NEW p \in Photo, rows'[p] # None
      PROVE  files'[p][KindOf[rows'[p].hash]] # None
  <2>1. Alive(p)' /\ rows[p] \in Row \cup {None} /\ rows'[p] \in Row
    BY <1>1, <1>2 DEF IInv, NoneHalfDone, RowsHaveAlbums, Alive, TypeInv, TypeOK, DiskType
  <2>2. CASE \E r \in Request : photo[r] = p /\ req[r].file # None /\ (InsertRow(r) \/ UpdateRow(r))
    <3>1. PICK r \in Request : photo[r] = p /\ req[r].file # None /\ (InsertRow(r) \/ UpdateRow(r))
      BY <2>2
    <3> QED
      BY <1>2, <2>1, <3>1, RowWritten DEF Originals, Alive
  <2>3. CASE rows[p] = None
    <3>1. PICK r \in Request : photo[r] = p /\ InsertRow(r)
      BY <1>2, <2>3, RowComes
    <3>2. req[r].file # None
      BY <3>1, LibraryAssumption DEF InsertRow, IInv, TypeInv, ReqOK
    <3> QED
      BY <2>2, <3>1, <3>2
  <2>4. CASE rows[p] # None /\ rows'[p].hash = rows[p].hash
    <3>1. KindOf[rows[p].hash] \in File /\ files[p][KindOf[rows[p].hash]] # None
      BY <2>1, <2>4, Shapes, LibraryAssumption DEF File, Originals
    <3>2. KindOf[rows[p].hash] # "large"
      BY <2>1, <2>4, Shapes, LibraryAssumption DEF Kind
    <3> QED
      BY <1>2, <2>4, <3>1, <3>2, FileLost
  <2>5. CASE rows[p] # None /\ rows'[p].hash # rows[p].hash
    <3>1. PICK r \in Request :
            /\ photo[r] = p
            /\ CommitOriginal(r) \/ (UpdateRow(r) /\ req[r].file # None) \/ KickAndAnswer(r)
      BY <1>2, <2>5, RowLives
    <3> QED
      BY <2>2, <2>5, <3>1, OneOriginal
  <2> QED
    BY <2>3, <2>4, <2>5
<1>3. ASSUME NEW r \in Request, at'[r] = "write", req'[r].file # None, AlbumOf[photo'[r]] \in albums'
      PROVE  files'[photo'[r]][KindOf[req'[r].file]] = req'[r].file
  <2>1. CASE at[r] = "write"
    <3>1. /\ AlbumOf[photo[r]] \in albums' =>
               rows'[photo[r]] = rows[photo[r]] /\ files'[photo[r]] = files[photo[r]]
          /\ req'[r] = req[r] /\ photo'[r] = photo[r]
      BY <1>3, <2>1, LockedStays DEF Holding
    <3>2. AlbumOf[photo[r]] \in albums'
      BY <1>3, <3>1
    <3>3. albums' \subseteq albums
      BY Shrinks
    <3>4. files[photo[r]][KindOf[req[r].file]] = req[r].file
      BY <1>3, <2>1, <3>1, <3>2, <3>3 DEF Originals, Alive
    <3> QED
      BY <3>1, <3>2, <3>4
  <2>2. CASE at[r] # "write"
    <3>1. CommitOriginal(r)
      BY <1>3, <2>2, IntoWrite
    <3> QED
      BY <3>1, OneOriginal
  <2> QED
    BY <2>1, <2>2
<1>4. ASSUME NEW r \in Request, at'[r] = "kick", rows'[photo'[r]] # None
      PROVE  rows'[photo'[r]].hash = req'[r].file
  <2>1. CASE at[r] = "kick"
    <3>1. /\ AlbumOf[photo[r]] \in albums' => rows'[photo[r]] = rows[photo[r]]
          /\ req'[r] = req[r] /\ photo'[r] = photo[r]
      BY <1>4, <2>1, LockedStays DEF Holding
    <3>2. photo[r] \in Photo
      BY <2>1, Exclusive DEF Holding
    <3>3. AlbumOf[photo[r]] \in albums'
      BY <1>1, <1>4, <3>1, <3>2 DEF IInv, NoneHalfDone, RowsHaveAlbums
    <3> QED
      BY <1>4, <2>1, <3>1, <3>3 DEF Originals
  <2>2. CASE at[r] # "kick"
    <3>1. InsertRow(r) \/ UpdateRow(r)
      BY <1>4, <2>2, IntoKick
    <3>2. at[r] = "write" /\ req[r].file # None /\ photo'[r] = photo[r]
      <4>1. RequestType /\ ReqOK /\ at[r] = "write"
        BY <3>1 DEF IInv, TypeInv, TypeOK, InsertRow, UpdateRow
      <4>2. req[r].file # None
        BY <1>4, <3>1, <4>1, LibraryAssumption DEF InsertRow, UpdateRow, ReqOK, Unlock, Done, RequestType
      <4>3. photo' = photo
        BY <1>4, <3>1, <4>1 DEF InsertRow, UpdateRow, Unlock, Done, Goto, RequestType
      <4> QED
        BY <4>1, <4>2, <4>3
    <3> QED
      BY <1>4, <3>1, <3>2, RowWritten
  <2> QED
    BY <2>1, <2>2
<1>5. ASSUME NEW r \in Request
      PROVE  /\ at'[r] = "write" /\ req'[r].file # None /\ AlbumOf[photo'[r]] \in albums' =>
                  files'[photo'[r]][KindOf[req'[r].file]] = req'[r].file
             /\ at'[r] = "kick" /\ rows'[photo'[r]] # None => rows'[photo'[r]].hash = req'[r].file
  BY <1>3, <1>4
<1> QED
  BY <1>2, <1>5 DEF Originals, Alive

LEMMA OriginalsAlways == Spec => []Originals
<1>1. Originals /\ UNCHANGED vars => Originals'
  BY DEF Originals, Alive, vars, disk, requests
<1> QED
  BY OriginalsInit, OriginalsStep, Inductive, PTL DEF Spec

-----------------------------------------------------------------------------
(***************************************************************************)
(* Readers without a lock (PhotoVisits).                                   *)
(***************************************************************************)

\* What is known of the rows read and of what has become of them since.
ReadOK ==
  /\ read \in [Photo -> Row \cup {None}]
  /\ since \in [Photo -> SUBSET (Content \cup {None})]
  /\ \A p \in Photo : read[p] # None =>
       read[p].hash \in since[p] /\ Hashes(rows)[p] \subseteq since[p]

VisitNext == [Visit \/ Beside]_<<vars, visit>>

LEMMA VisitsAreBeside == VisitSpec => Spec
<1>1. VisitNext => [Next]_vars
  BY DEF VisitNext, Visit, Beside, ViewPhoto, DownloadAlbum, Snapshot, Read, ReadFiles, visit
<1> QED
  BY <1>1, PTL DEF VisitSpec, Spec, VisitNext

\* A step of VisitSpec for one photo that is being read after it.
ReadNow(p) == read[p] = None /\ rows[p] # None /\ UNCHANGED vars
              /\ read'[p] = rows[p] /\ since'[p] = {rows[p].hash}
ReadGoesOn(p) == read[p] # None /\ read'[p] = read[p] /\ [Next]_vars
                 /\ since'[p] = since[p] \cup Hashes(rows')[p]

LEMMA HashesOf ==
  ASSUME NEW p \in Photo
  PROVE  /\ rows[p] = None => Hashes(rows)[p] = {None}
         /\ rows[p] # None => Hashes(rows)[p] = {rows[p].hash}
         /\ rows'[p] = None => Hashes(rows')[p] = {None}
         /\ rows'[p] # None => Hashes(rows')[p] = {rows'[p].hash}
BY DEF Hashes

LEMMA ReadSteps ==
  ASSUME IInv, ReadOK, VisitNext, NEW p \in Photo, read'[p] # None
  PROVE  ReadNow(p) \/ ReadGoesOn(p)
<1>1. ASSUME NEW found, Read(found), \A q \in Photo \cap found : rows[q] # None
      PROVE  ReadNow(p)
  <2>1. p \in found /\ read[p] = None
    BY <1>1 DEF Read, NothingRead
  <2> QED
    BY <1>1, <2>1 DEF Read, ReadNow, Hashes
<1>2. ASSUME NEW q \in Photo, ReadFiles(q)
      PROVE  ReadGoesOn(p)
  <2>1. q # p /\ read'[p] = read[p] /\ since'[p] = since[p] /\ UNCHANGED vars
    BY <1>2 DEF ReadFiles, ReadOK
  <2>2. rows' = rows
    BY <2>1 DEF vars, disk
  <2>3. since'[p] = since[p] \cup Hashes(rows')[p]
    BY <2>1, <2>2 DEF ReadOK, Hashes
  <2> QED
    BY <2>1, <2>3 DEF ReadGoesOn
<1>3. CASE Beside
  BY <1>3 DEF Beside, ReadGoesOn
<1>4. CASE UNCHANGED <<vars, visit>>
  <2>1. rows' = rows /\ read' = read /\ since' = since
    BY <1>4 DEF vars, disk, visit
  <2>2. since'[p] = since[p] \cup Hashes(rows')[p]
    BY <2>1 DEF ReadOK, Hashes
  <2> QED
    BY <1>4, <2>1, <2>2 DEF ReadGoesOn
<1>5. CASE Visit
  <2>1. CASE \E q \in Photo : ViewPhoto(q)
    BY <1>1, <2>1 DEF ViewPhoto, Ready
  <2>2. CASE \E a \in Album : DownloadAlbum(a)
    BY <1>1, <2>2 DEF DownloadAlbum, Ready
  <2>3. CASE Snapshot
    BY <1>1, <2>3 DEF Snapshot
  <2> QED
    BY <1>2, <1>5, <2>1, <2>2, <2>3 DEF Visit
<1> QED
  BY <1>3, <1>4, <1>5 DEF VisitNext

LEMMA ReadOKStep ==
  ASSUME IInv, ReadOK, VisitNext
  PROVE  ReadOK'
<1>1. DiskType /\ DiskType'
  <2>1. [Next]_vars
    BY DEF VisitNext, Visit, Beside, ViewPhoto, DownloadAlbum, Snapshot, Read, ReadFiles, visit
  <2> QED
    BY <2>1, StepInv DEF IInv, TypeInv, TypeOK
<1>2. /\ Hashes(rows) \in [Photo -> SUBSET (Content \cup {None})]
      /\ Hashes(rows') \in [Photo -> SUBSET (Content \cup {None})]
  BY <1>1, Shapes DEF DiskType, Hashes
<1>3. /\ read' \in [Photo -> Row \cup {None}]
      /\ since' \in [Photo -> SUBSET (Content \cup {None})]
  <2>1. ASSUME NEW found, Read(found)
        PROVE  /\ read' \in [Photo -> Row \cup {None}]
               /\ since' \in [Photo -> SUBSET (Content \cup {None})]
    BY <1>1, <1>2, <2>1 DEF Read, DiskType
  <2>2. CASE Beside
    <3>1. since' = [p \in Photo |-> IF read[p] = None THEN {} ELSE since[p] \cup Hashes(rows')[p]]
      BY <2>2 DEF Beside
    <3>2. \A p \in Photo : since[p] \cup Hashes(rows')[p] \in SUBSET (Content \cup {None})
      BY <1>2 DEF ReadOK
    <3> QED
      BY <2>2, <3>1, <3>2 DEF Beside, ReadOK
  <2>3. CASE \E p \in Photo : ReadFiles(p)
    BY <2>3 DEF ReadFiles, ReadOK
  <2> QED
    BY <2>1, <2>2, <2>3 DEF ReadOK, VisitNext, Visit, ViewPhoto, DownloadAlbum, Snapshot, visit
<1>4. ASSUME NEW p \in Photo, read'[p] # None
      PROVE  read'[p].hash \in since'[p] /\ Hashes(rows')[p] \subseteq since'[p]
  <2>1. CASE ReadNow(p)
    BY <2>1, HashesOf DEF ReadNow, vars, disk
  <2>2. CASE ReadGoesOn(p)
    BY <2>2 DEF ReadGoesOn, ReadOK
  <2> QED
    BY <1>4, <2>1, <2>2, ReadSteps
<1> QED
  BY <1>3, <1>4 DEF ReadOK, Hashes

LEMMA VisitsRead == VisitSpec => []ReadOK
<1>1. Init /\ VisitInit => ReadOK
  BY DEF VisitInit, NothingRead, ReadOK
<1> QED
  BY <1>1, ReadOKStep, Inductive, VisitsAreBeside, PTL DEF VisitSpec, VisitNext

\* FilesFound, for one photo.
FoundFiles(p) ==
  LET h == read[p].hash
  IN /\ files[p][KindOf[h]] = None => \E g \in since[p] : KindOf[g] # KindOf[h]
     /\ read[p].ready => \A v \in Renditions(h) :
          files[p][v] = None => v = "large" /\ since[p] \ Wide # {}

LEMMA FoundStart ==
  ASSUME IInv, Originals, NEW p \in Photo, ReadNow(p)
  PROVE  FoundFiles(p)'
<1>1. rows[p] \in Row /\ files[p] \in [File -> Content \cup {None}]
  BY DEF IInv, TypeInv, TypeOK, DiskType, ReadNow
<1>2. files[p][KindOf[rows[p].hash]] # None
  BY DEF Originals, ReadNow
<1>3. ASSUME rows[p].ready, NEW v \in Renditions(rows[p].hash)
      PROVE  files[p][v] # None
  BY <1>1, <1>2, <1>3, LibraryAssumption DEF IInv, ReadyMeansAgree, Ready, Agree
<1>4. read'[p] = rows[p] /\ files' = files
  BY DEF ReadNow, vars, disk
<1> QED
  BY <1>2, <1>3, <1>4 DEF FoundFiles

LEMMA FoundGoesOn ==
  ASSUME IInv, Originals, ReadOK, NEW p \in Photo, FoundFiles(p),
         ReadGoesOn(p), None \notin since'[p]
  PROVE  FoundFiles(p)'
<1>1. /\ rows[p] # None /\ rows'[p] # None /\ rows[p] \in Row
      /\ rows[p].hash \in since[p] /\ since[p] \subseteq since'[p] /\ read'[p] = read[p]
      /\ read[p] \in Row
  BY HashesOf DEF ReadGoesOn, ReadOK, IInv, TypeInv, TypeOK, DiskType
<1>2. PICK h : h = read[p].hash
  OBVIOUS
<1>3. h \in Content /\ KindOf[h] \in Kind
  BY <1>1, <1>2, Shapes, LibraryAssumption
<1>4. ASSUME NEW f \in File, files'[p][f] = None
      PROVE  \/ files[p][f] = None
             \/ f \in Kind /\ f # KindOf[rows[p].hash]
             \/ f = "large" /\ rows[p].hash \notin Wide
  BY <1>1, <1>4, FileLost DEF ReadGoesOn
<1>5. ASSUME files'[p][KindOf[h]] = None
      PROVE  \E g \in since'[p] : KindOf[g] # KindOf[h]
  <2>1. KindOf[h] \in File /\ KindOf[h] # "large"
    BY <1>3 DEF File, Kind
  <2> QED
    BY <1>1, <1>2, <1>4, <1>5, <2>1 DEF FoundFiles
<1>6. ASSUME read[p].ready, NEW v \in Renditions(h), files'[p][v] = None
      PROVE  v = "large" /\ since'[p] \ Wide # {}
  <2>1. v \in File /\ v \notin Kind
    BY LibraryAssumption DEF Renditions, File, Rendition, Kind
  <2>2. CASE files[p][v] = None
    BY <1>1, <1>2, <1>6, <2>2 DEF FoundFiles
  <2>3. CASE v = "large" /\ rows[p].hash \notin Wide
    BY <1>1, <2>3
  <2> QED
    BY <1>4, <1>6, <2>1, <2>2, <2>3
<1> QED
  BY <1>1, <1>2, <1>5, <1>6 DEF FoundFiles

\* Whatever is uploaded, deleted and rendered between the reading of a row and
\* the opening of its files, and whatever fails, a file is missing only for the
\* reasons FilesFound gives: no reader without a lock finds a hole that nobody
\* made.
THEOREM ReadersFind == VisitSpec => []FilesFound
<1>1. FilesFound <=> \A p \in Photo : read[p] # None /\ None \notin since[p] => FoundFiles(p)
  BY DEF FilesFound, FoundFiles
<1>2. Init /\ VisitInit => FilesFound
  BY <1>1 DEF VisitInit, NothingRead
<1>3. ASSUME IInv, Originals, ReadOK, FilesFound, VisitNext
      PROVE  FilesFound'
  <2>1. ASSUME NEW p \in Photo, read'[p] # None, None \notin since'[p]
        PROVE  FoundFiles(p)'
    <3>1. CASE ReadNow(p)
      BY <1>3, <3>1, FoundStart
    <3>2. CASE ReadGoesOn(p)
      <4>1. FoundFiles(p)
        BY <1>1, <1>3, <2>1, <3>2 DEF ReadGoesOn
      <4> QED
        BY <1>3, <2>1, <3>2, <4>1, FoundGoesOn
    <3> QED
      BY <1>3, <2>1, <3>1, <3>2, ReadSteps
  <2> QED
    BY <2>1 DEF FilesFound, FoundFiles
<1> QED
  BY <1>2, <1>3, Inductive, OriginalsAlways, VisitsRead, VisitsAreBeside, PTL DEF VisitSpec, VisitNext

-----------------------------------------------------------------------------
\* The stored files that are sent for hash h were made from it.
Match(p, h) == files[p][KindOf[h]] = h /\ \A v \in Renditions(h) : files[p][v] = h

\* Somebody has put another original of p in place and not yet written its row.
Replacing(p, h) == \E r \in Request : /\ at[r] = "write" /\ photo[r] = p
                                      /\ req[r].file \notin {None, h}

Named == faults = 0 =>
  \A p \in Photo : read[p] # None /\ read[p].ready /\ since[p] = {read[p].hash} =>
    Match(p, read[p].hash) \/ Replacing(p, read[p].hash)

\* As long as the row of p keeps the hash h, its files are h's or somebody has
\* put another original in place.
LEMMA MatchKept ==
  ASSUME IInv, Originals, [Next]_vars, NEW p \in Photo, NEW h \in Content,
         rows[p] # None, rows'[p] # None, rows[p].hash = h, rows'[p].hash = h,
         Match(p, h)
  PROVE  Match(p, h)' \/ Replacing(p, h)'
<1>1. DiskType /\ KindOf[h] \in File /\ \A v \in Renditions(h) : v \in File /\ v \notin Kind
  BY LibraryAssumption DEF IInv, TypeInv, TypeOK, Renditions, File, Rendition, Kind
<1>2. CASE files'[p] = files[p]
  BY <1>2 DEF Match
<1>3. CASE \E r \in Request :
             /\ photo[r] = p
             /\ CommitOriginal(r) \/ (UpdateRow(r) /\ req[r].file # None) \/ KickAndAnswer(r)
  <2>1. PICK r \in Request :
          /\ photo[r] = p
          /\ CommitOriginal(r) \/ (UpdateRow(r) /\ req[r].file # None) \/ KickAndAnswer(r)
    BY <1>3
  <2>2. CASE CommitOriginal(r)
    <3>1. CASE req[r].file = h
      <4>1. /\ files'[p][KindOf[h]] = h
            /\ \A f \in File \ {KindOf[h]} : files'[p][f] = files[p][f]
        BY <2>1, <2>2, <3>1, OneOriginal
      <4> QED
        BY <1>1, <4>1, LibraryAssumption DEF Match
    <3>2. CASE req[r].file # h
      <4>1. /\ req[r].file \in Content
            /\ at'[r] = "write" /\ req' = req /\ photo' = photo
        BY <2>1, <2>2, OneOriginal
      <4> QED
        BY <2>1, <3>2, <4>1, LibraryAssumption DEF Replacing
    <3> QED
      BY <3>1, <3>2
  <2>3. CASE UpdateRow(r)
    BY <1>2, <2>3 DEF UpdateRow
  <2>4. CASE KickAndAnswer(r)
    <3>1. /\ req[r].file = h
          /\ \A f \in File : files'[p][f] = files[p][f] \/ (f \in Kind /\ f # KindOf[h])
      BY <2>1, <2>4, OneOriginal DEF Originals
    <3> QED
      BY <1>1, <3>1 DEF Match
  <2> QED
    BY <2>1, <2>2, <2>3, <2>4
<1>4. CASE /\ \A k \in Kind : files'[p][k] = files[p][k]
           /\ \A v \in Renditions(h) : files'[p][v] \in {files[p][v], files[p][KindOf[h]]}
  BY <1>4, LibraryAssumption DEF Match
<1> QED
  BY <1>2, <1>3, <1>4, RowLives

\* Without a fault, who has put another original in place writes its hash next.
LEMMA ReplacingEnds ==
  ASSUME IInv, [Next]_vars, faults' = faults, NEW p \in Photo, NEW h \in Content,
         rows[p] # None, rows'[p] # None, rows'[p].hash = h, Replacing(p, h)
  PROVE  Replacing(p, h)'
<1>1. PICK r \in Request : at[r] = "write" /\ photo[r] = p /\ req[r].file \notin {None, h}
  BY DEF Replacing
<1>2. CASE at'[r] = "write"
  <2>1. req'[r] = req[r] /\ photo'[r] = photo[r]
    BY <1>1, <1>2, LockedStays DEF Holding
  <2> QED
    BY <1>1, <1>2, <2>1 DEF Replacing
<1>3. CASE at'[r] # "write"
  <2>1. InsertRow(r) \/ UpdateRow(r)
    BY <1>1, <1>3, OutOfWrite
  <2> QED
    BY <1>1, <2>1, RowWritten
<1> QED
  BY <1>2, <1>3

LEMMA FaultsGrow == ASSUME faults \in Nat, faults' = 0, [Next]_vars PROVE faults' = faults
<1>1. ~Fault
  BY DEF Fault
<1> QED
  BY <1>1 DEF Next, vars, Work, TakeToken, Tick, ListPending, PickNext, LockRender, RenderAll,
     InstallOne, TrimLarge, MarkReady, TakeBack, Faults, Crash, LockedCallFails, OtherCallFails,
     InsertFails, CleanUpFails, RemoveOldFails, ListFails, RenderFails, Start, StartPost, StartPut,
     StartDelete, StartDeleteAlbum, Begin, Lock, LockIngest, LockDelete, Handle, Resolve, HideOld,
     CommitOriginal, InsertRow, UpdateRow, CleanUp, KickAndAnswer, DeleteRow, DropAlbumRow, RemoveAlbumDir

LEMMA NamedStep ==
  ASSUME IInv, Originals, HashKept, ReadOK, Named, VisitNext
  PROVE  Named'
<1> SUFFICES ASSUME faults' = 0, NEW p \in Photo, read'[p] # None, read'[p].ready,
                    NEW h, h = read'[p].hash, since'[p] = {h}
             PROVE  Match(p, h)' \/ Replacing(p, h)'
  BY DEF Named, Match, Replacing
<1>1. faults \in Nat
  BY LibraryAssumption DEF IInv, TypeInv, TypeOK
<1>2. CASE ReadNow(p)
  <2>1. faults = 0 /\ files' = files /\ h = rows[p].hash /\ Ready(p)
    BY <1>2 DEF ReadNow, vars, disk, Ready
  <2>2. files[p][KindOf[h]] = h /\ Agree(p, h)
    BY <2>1 DEF HashKept, HashMatchesOriginal, IInv, ReadyMeansAgree
  <2> QED
    BY <2>1, <2>2 DEF Match, Agree
<1>3. CASE ReadGoesOn(p)
  <2>1. h = read[p].hash
    BY <1>3 DEF ReadGoesOn
  <2>2. /\ read[p] # None /\ read'[p] = read[p] /\ h \in Content /\ h # None
        /\ since[p] = {h} /\ [Next]_vars
        /\ Hashes(rows)[p] \subseteq {h} /\ Hashes(rows')[p] \subseteq {h}
    <3>1. read[p] # None /\ read'[p] = read[p] /\ [Next]_vars /\ read[p] \in Row
      BY <1>3 DEF ReadGoesOn, ReadOK
    <3>2. h \in Content /\ h # None
      BY <2>1, <3>1, Shapes, LibraryAssumption
    <3>3. since[p] \cup Hashes(rows')[p] = {h}
      BY <1>3 DEF ReadGoesOn
    <3>4. h \in since[p] /\ Hashes(rows)[p] \subseteq since[p]
      BY <2>1, <3>1 DEF ReadOK
    <3> QED
      BY <3>1, <3>2, <3>3, <3>4
  <2>3. rows[p] # None /\ rows'[p] # None /\ rows[p].hash = h /\ rows'[p].hash = h
    BY <2>2, HashesOf
  <2>4. faults' = faults
    BY <1>1, <2>2, FaultsGrow
  <2>5. Match(p, h) \/ Replacing(p, h)
    BY <2>1, <2>2, <2>4 DEF Named
  <2> QED
    BY <2>2, <2>3, <2>4, <2>5, MatchKept, ReplacingEnds
<1> QED
  BY <1>2, <1>3, ReadSteps

\* Without faults the ETag, the hash of the row read, names what is sent with
\* it, unless the photo has been replaced or deleted since or is being replaced.
THEOREM ETagsTrue == VisitSpec => []ETagNamesFile
<1>1. Init /\ VisitInit => Named
  BY DEF VisitInit, NothingRead, Named
<1>2. Spec => []HashKept
  BY HashesKept
<1>3. IInv /\ ReadOK /\ Named => ETagNamesFile
  BY DEF Named, ETagNamesFile, Match, Replacing
<1> QED
  BY <1>1, <1>2, <1>3, NamedStep, Inductive, OriginalsAlways, VisitsRead, VisitsAreBeside, PTL
  DEF VisitSpec, VisitNext
================================================================================
