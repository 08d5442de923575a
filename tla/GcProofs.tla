------------------------------- MODULE GcProofs -------------------------------
(***************************************************************************)
(* gc beside a running server, for any photos, albums and faults: the disk *)
(* keeps its shape, a gc that reports success has finished its job, and    *)
(* nothing living is removed but from an album whose directory a crash or  *)
(* a failed call had left empty.                                           *)
(***************************************************************************)
EXTENDS Gc, TLAPS

\* Directories and staging files are told apart by their names.
LEMMA Names ==
  /\ \A a \in Album : AlbumDir(a) \in Entry
  /\ \A p \in Photo : PhotoDir(p) \in Entry /\ Staged(p) \in Entry
  /\ \A e \in Entry : \/ \E a \in Album : e = AlbumDir(a)
                      \/ \E p \in Photo : e = PhotoDir(p) \/ e = Staged(p)
  /\ \A x, y : /\ AlbumDir(x) # PhotoDir(y) /\ AlbumDir(x) # Staged(y) /\ PhotoDir(x) # Staged(y)
               /\ AlbumDir(x) = AlbumDir(y) => x = y
               /\ PhotoDir(x) = PhotoDir(y) => x = y
               /\ Staged(x) = Staged(y) => x = y
BY DEF Entry, AlbumDir, PhotoDir, Staged

LEMMA Inside ==
  ASSUME NEW a, NEW d
  PROVE  /\ \A p \in Photo : PhotoDir(p) \in In(a, d) <=> AlbumOf[p] = a /\ PhotoDir(p) \in d
         /\ \A e \in In(a, d) : \E p \in Photo : e = PhotoDir(p) /\ AlbumOf[p] = a /\ e \in d
         /\ \A b : AlbumDir(b) \notin In(a, d) /\ Staged(b) \notin In(a, d)
BY Names DEF In

LEMMA Parents ==
  \A p \in Photo : AlbumOf[p] \in Album /\ Above(p) = {AlbumDir(AlbumOf[p])} /\ Above(p) \subseteq Entry
BY GcAssumption, Names DEF Above

-----------------------------------------------------------------------------
(* Types, and the shape of the disk. *)

Housed == \A p \in Photo : PhotoDir(p) \in disk => Above(p) \subseteq disk

LEMMA DiskType ==
  ASSUME TypeOK, NEW d \in SUBSET Entry, NEW t, Disk(d, t)
  PROVE  disk' \subseteq Entry /\ old' \subseteq disk' /\ stale' \subseteq disk' /\ full' \subseteq Photo
BY DEF TypeOK, Disk

\* A fault is counted, and leaves albums' directories.
LEMMA FaultType ==
  ASSUME TypeOK, NEW A \in SUBSET Album, Fault(A)
  PROVE  hollow \subseteq hollow' /\ hollow' \subseteq Album /\ faults' \in 0..MaxFaults
BY GcAssumption DEF TypeOK, Fault

LEMMA InitType == Init => TypeOK
BY GcAssumption DEF Init, TypeOK

LEMMA UploadType ==
  ASSUME TypeOK, NEW p \in Photo,
         \/ Stage(p) \/ MakeAlbumDir(p) \/ MakePhotoDir(p) \/ Rename(p) \/ CommitFails(p)
         \/ Insert(p) \/ DeletePhoto(p) \/ RemovePhotoDir(p) \/ RemoveFails(p) \/ RemoveParent(p)
  PROVE  TypeOK'
<1>1. CASE Stage(p)
  BY <1>1, Names DEF Stage, Step, Disk, TypeOK, tool, trouble, upload
<1>2. CASE MakeAlbumDir(p)
  BY <1>2, Names, Parents DEF MakeAlbumDir, Step, Disk, TypeOK, tool, trouble, upload
<1>3. CASE MakePhotoDir(p)
  BY <1>3, Names DEF MakePhotoDir, Step, Disk, TypeOK, tool, trouble, upload
<1>4. CASE Rename(p)
  BY <1>4, Names, Parents DEF Rename, Step, TypeOK, tool, trouble, upload
<1>5. CASE CommitFails(p)
  <2>1. UNCHANGED trouble \/ \E A \in SUBSET Album : Fault(A)
    BY <1>5, Parents DEF CommitFails
  <2>2. hollow' \subseteq Album /\ faults' \in 0..MaxFaults
    BY <2>1, FaultType DEF TypeOK, trouble
  <2> QED
    BY <1>5, <2>2, Names, Parents DEF CommitFails, Disk, TypeOK, tool, trouble, upload
<1>6. CASE Insert(p)
  BY <1>6 DEF Insert, Step, TypeOK, tool, trouble, upload
<1>7. CASE DeletePhoto(p)
  BY <1>7 DEF DeletePhoto, Step, TypeOK, tool, trouble, upload
<1>8. CASE RemovePhotoDir(p)
  BY <1>8, Names, Parents DEF RemovePhotoDir, Step, Disk, TypeOK, tool, trouble, upload
<1>9. CASE RemoveFails(p)
  <2>1. \E A \in SUBSET Album : Fault(A)
    BY <1>9, Parents DEF RemoveFails
  <2>2. hollow' \subseteq Album /\ faults' \in 0..MaxFaults
    BY <2>1, FaultType
  <2> QED
    BY <1>9, <2>2 DEF RemoveFails, Step, TypeOK, tool, trouble, upload
<1>10. CASE RemoveParent(p)
  BY <1>10, Names, Parents, Inside DEF RemoveParent, Step, Disk, TypeOK, tool, trouble, upload
<1> QED
  BY <1>1, <1>2, <1>3, <1>4, <1>5, <1>6, <1>7, <1>8, <1>9, <1>10

LEMMA AlbumType ==
  ASSUME TypeOK, NEW a \in Album, DeleteAlbum(a) \/ RemoveAlbumDir(a) \/ Walk(a) \/ RemoveEmptyParent(a)
  PROVE  TypeOK'
<1>1. CASE DeleteAlbum(a)
  BY <1>1 DEF DeleteAlbum, TypeOK, tool, trouble, upload
<1>2. CASE RemoveAlbumDir(a)
  <2>1. UNCHANGED trouble \/ \E A \in SUBSET Album : Fault(A)
    BY <1>2 DEF RemoveAlbumDir
  <2>2. hollow' \subseteq Album /\ faults' \in 0..MaxFaults
    BY <2>1, FaultType DEF TypeOK, trouble
  <2> QED
    BY <1>2, <2>2, Names, Parents, Inside DEF RemoveAlbumDir, Disk, TypeOK, tool, trouble, upload
<1>3. CASE Walk(a)
  BY <1>3 DEF Walk, TypeOK, tool, trouble, upload
<1>4. CASE RemoveEmptyParent(a)
  <2>1. UNCHANGED trouble \/ \E A \in SUBSET Album : Fault(A)
    BY <1>4 DEF RemoveEmptyParent
  <2>2. hollow' \subseteq Album /\ faults' \in 0..MaxFaults
    BY <2>1, FaultType DEF TypeOK, trouble
  <2> QED
    BY <1>4, <2>2, Names, Parents, Inside DEF RemoveEmptyParent, Disk, TypeOK, tool, trouble, upload
<1> QED
  BY <1>1, <1>2, <1>3, <1>4

LEMMA TargetType ==
  ASSUME TypeOK, NEW e \in Entry, RemoveTarget(e)
  PROVE  TypeOK'
<1> PICK a \in Album :
       \/ e = AlbumDir(a) /\ Disk(disk \ (In(a, disk) \cup {e}), {}) /\ UNCHANGED <<gc, todo>>
       \/ \E p \in Photo : e = PhotoDir(p) /\ AlbumOf[p] = a
                           /\ Disk(disk \ {e}, {AlbumDir(a)}) /\ gc' = "parent" /\ todo' = {a}
       \/ \E p \in Photo : e = Staged(p) /\ AlbumOf[p] = a
                           /\ Disk(disk \ {e}, {}) /\ UNCHANGED <<gc, todo>>
  BY DEF RemoveTarget
<1>1. Housed'
  BY Names, Parents, Inside DEF Housed, Disk, TypeOK
<1>2. disk' \subseteq Entry /\ old' \subseteq disk' /\ stale' \subseteq disk' /\ full' \subseteq Photo
  BY DEF Disk, TypeOK
<1>3. gc' \in {gc, "parent"} /\ todo' \in {todo, {a}}
  OBVIOUS
<1>4. targets' \subseteq targets /\ UNCHANGED <<row, albums, up, rm, found, owed, hollow, faults>>
  BY DEF RemoveTarget, upload, trouble
<1>5. gc' \in {"idle", "walk", "incoming", "remove", "parent", "done"} /\ todo' \subseteq Album
  BY <1>3 DEF TypeOK
<1> QED
  BY <1>1, <1>2, <1>4, <1>5 DEF TypeOK, Housed

LEMMA OtherType ==
  ASSUME TypeOK, Crash \/ Hour \/ Start \/ ReadRefs \/ StaleIncoming \/ Report \/ Exit
  PROVE  TypeOK'
<1>1. CASE Crash
  <2>1. \E A \in SUBSET Album : Fault(A)
    <3>1. {AlbumOf[p] : p \in {q \in Photo : up[q] \in {"mkdir", "rmparent"}}} \cup rm \in SUBSET Album
      BY Parents DEF TypeOK
    <3> QED
      BY <1>1, <3>1 DEF Crash
  <2>2. hollow' \subseteq Album /\ faults' \in 0..MaxFaults
    BY <2>1, FaultType
  <2> QED
    BY <1>1, <2>2 DEF Crash, TypeOK, tool, trouble
<1>2. CASE Hour
  BY <1>2 DEF Hour, TypeOK, upload, tool, trouble, trouble
<1>3. CASE Start
  BY <1>3 DEF Start, TypeOK, trouble, upload
<1>4. CASE ReadRefs
  BY <1>4 DEF ReadRefs, TypeOK, trouble, upload
<1>5. CASE StaleIncoming
  BY <1>5 DEF StaleIncoming, TypeOK, trouble, upload
<1>6. CASE Report
  BY <1>6 DEF Report, TypeOK, trouble, upload
<1>7. CASE Exit
  <2>1. UNCHANGED trouble \/ \E A \in SUBSET Album : Fault(A)
    BY <1>7 DEF Exit, TypeOK
  <2>2. hollow' \subseteq Album /\ faults' \in 0..MaxFaults
    BY <2>1, FaultType DEF TypeOK, trouble
  <2> QED
    BY <1>7, <2>2 DEF Exit, TypeOK, trouble, upload
<1> QED
  BY <1>1, <1>2, <1>3, <1>4, <1>5, <1>6, <1>7

\* Every step keeps the types and leaves a photo's directory in its album's.
LEMMA TypeStep == TypeOK /\ [Next]_vars => TypeOK'
<1>1. TypeOK /\ UNCHANGED vars => TypeOK'
  BY DEF TypeOK, vars, upload, tool, trouble, Above
<1> QED
  BY <1>1, UploadType, AlbumType, TargetType, OtherType DEF Next

\* The types and the shape of the disk hold for any instance, with any crashes.
THEOREM TypeCorrect == Spec => []TypeOK
BY InitType, TypeStep, PTL DEF Spec

-----------------------------------------------------------------------------
(***************************************************************************)
(* gc finishes its job.  What it owes stays an orphan unless it is touched,*)
(* and until it is removed it is on one of gc's lists.                     *)
(***************************************************************************)

Owed == owed \cap stale

OwedOrphans ==
  /\ \A p \in Photo : PhotoDir(p) \in Owed => p \notin row /\ up[p] = "done"
  /\ \A a \in Album : AlbumDir(a) \in Owed => In(a, disk) = {}

Awaited(e) ==
  \/ gc = "walk" /\ \/ e \in found
                    \/ \E p \in Photo : e = Staged(p) \/ (e = PhotoDir(p) /\ AlbumOf[p] \in todo)
                    \/ \E a \in todo : e = AlbumDir(a)
  \/ gc = "incoming" /\ (e \in targets \/ \E p \in Photo : e = Staged(p))
  \/ gc \in {"remove", "parent"} /\ e \in targets

Owing == OwedOrphans /\ \A e \in Owed : Awaited(e)

OwingInv == TypeOK /\ Owing

\* The server touches nothing of gc's, and makes nothing old.
LEMMA ServerOwes ==
  ASSUME OwingInv, UNCHANGED tool, stale' \subseteq stale, OwedOrphans'
  PROVE  Owing'
BY DEF OwingInv, Owing, Awaited, Owed, tool

LEMMA UploadOwes ==
  ASSUME OwingInv, NEW p \in Photo,
         \/ Stage(p) \/ MakeAlbumDir(p) \/ MakePhotoDir(p) \/ Rename(p) \/ CommitFails(p)
         \/ Insert(p) \/ DeletePhoto(p) \/ RemovePhotoDir(p) \/ RemoveFails(p) \/ RemoveParent(p)
  PROVE  Owing'
<1> USE DEF OwingInv, Owing, OwedOrphans, Owed, TypeOK, tool, Step, Disk
<1>1. CASE Stage(p)
  <2>1. OwedOrphans'
    BY <1>1, Inside DEF Stage
  <2> QED
    BY <1>1, <2>1, ServerOwes DEF Stage
<1>2. CASE MakeAlbumDir(p)
  <2>1. OwedOrphans'
    BY <1>2, Parents, Inside DEF MakeAlbumDir
  <2> QED
    BY <1>2, <2>1, ServerOwes DEF MakeAlbumDir
<1>3. CASE MakePhotoDir(p)
  <2>1. OwedOrphans'
    BY <1>3, Parents, Inside DEF MakePhotoDir
  <2> QED
    BY <1>3, <2>1, ServerOwes DEF MakePhotoDir
<1>4. CASE Rename(p)
  <2>1. OwedOrphans'
    BY <1>4, Inside DEF Rename
  <2> QED
    BY <1>4, <2>1, ServerOwes DEF Rename
<1>5. CASE CommitFails(p)
  <2>1. OwedOrphans'
    BY <1>5, Inside DEF CommitFails
  <2> QED
    BY <1>5, <2>1, ServerOwes DEF CommitFails
<1>6. CASE Insert(p)
  <2>1. OwedOrphans'
    BY <1>6 DEF Insert
  <2> QED
    BY <1>6, <2>1, ServerOwes DEF Insert
<1>7. CASE DeletePhoto(p)
  <2>1. OwedOrphans'
    BY <1>7 DEF DeletePhoto
  <2> QED
    BY <1>7, <2>1, ServerOwes DEF DeletePhoto
<1>8. CASE RemovePhotoDir(p)
  <2>1. OwedOrphans'
    BY <1>8, Inside DEF RemovePhotoDir
  <2> QED
    BY <1>8, <2>1, ServerOwes DEF RemovePhotoDir
<1>9. CASE RemoveFails(p)
  <2>1. OwedOrphans'
    BY <1>9 DEF RemoveFails
  <2> QED
    BY <1>9, <2>1, ServerOwes DEF RemoveFails
<1>10. CASE RemoveParent(p)
  <2>1. OwedOrphans'
    BY <1>10, Inside DEF RemoveParent
  <2> QED
    BY <1>10, <2>1, ServerOwes DEF RemoveParent
<1> QED
  BY <1>1, <1>2, <1>3, <1>4, <1>5, <1>6, <1>7, <1>8, <1>9, <1>10

LEMMA AlbumOwes ==
  ASSUME OwingInv, NEW a \in Album, DeleteAlbum(a) \/ RemoveAlbumDir(a)
  PROVE  Owing'
<1> USE DEF OwingInv, Owing, OwedOrphans, Owed, TypeOK, tool, Disk
<1>1. CASE DeleteAlbum(a)
  <2>1. OwedOrphans'
    BY <1>1 DEF DeleteAlbum
  <2> QED
    BY <1>1, <2>1, ServerOwes DEF DeleteAlbum
<1>2. CASE RemoveAlbumDir(a)
  <2>1. OwedOrphans'
    BY <1>2, Inside DEF RemoveAlbumDir, upload
  <2> QED
    BY <1>2, <2>1, ServerOwes DEF RemoveAlbumDir
<1> QED
  BY <1>1, <1>2

\* Listing an album's directory finds what is owed in it.
LEMMA WalkOwes ==
  ASSUME OwingInv, NEW a \in Album, Walk(a)
  PROVE  Owing'
<1> USE DEF OwingInv, Owing
<1>1. OwedOrphans'
  BY DEF OwedOrphans, Owed, Walk, upload
<1>2. ASSUME NEW e \in Owed'
      PROVE  Awaited(e)'
  <2>1. e \in Owed /\ Awaited(e) /\ e \in stale /\ e \in disk
    BY <1>2 DEF Walk, Owed, TypeOK
  <2>2. CASE e \in found \/ \E p \in Photo : e = Staged(p)
    BY <2>2 DEF Walk, Awaited
  <2>3. ASSUME NEW p \in Photo, e = PhotoDir(p), AlbumOf[p] \in todo
        PROVE  Awaited(e)'
    <3>1. CASE AlbumOf[p] = a
      <4>1. e \in In(a, disk)
        BY <2>1, <2>3, <3>1, Inside
      <4>2. e \in found'
        BY <2>1, <4>1 DEF Walk
      <4> QED
        BY <4>2 DEF Walk, Awaited
    <3>2. CASE AlbumOf[p] # a
      BY <2>3, <3>2 DEF Walk, Awaited
    <3> QED
      BY <3>1, <3>2
  <2>4. ASSUME NEW b \in todo, e = AlbumDir(b)
        PROVE  Awaited(e)'
    <3>1. CASE b = a
      <4>1. In(a, disk) = {}
        BY <2>1, <2>4, <3>1 DEF OwedOrphans, TypeOK
      <4>2. e \in found'
        BY <2>1, <2>4, <3>1, <4>1 DEF Walk
      <4> QED
        BY <4>2 DEF Walk, Awaited
    <3>2. CASE b # a
      BY <2>4, <3>2 DEF Walk, Awaited
    <3> QED
      BY <3>1, <3>2
  <2>5. gc = "walk"
    BY DEF Walk
  <2> QED
    BY <2>1, <2>2, <2>3, <2>4, <2>5 DEF Awaited
<1> QED
  BY <1>1, <1>2

LEMMA ParentOwes ==
  ASSUME OwingInv, NEW a \in Album, RemoveEmptyParent(a)
  PROVE  Owing'
<1> USE DEF OwingInv, Owing
<1>1. OwedOrphans'
  BY Inside DEF OwedOrphans, Owed, RemoveEmptyParent, Disk, upload
<1>2. \A e \in Owed' : Awaited(e)'
  BY DEF Awaited, Owed, RemoveEmptyParent, Disk
<1> QED
  BY <1>1, <1>2

LEMMA TargetOwes ==
  ASSUME OwingInv, NEW e \in Entry, RemoveTarget(e)
  PROVE  Owing'
<1> USE DEF OwingInv, Owing
<1>1. PICK d \in SUBSET disk : \E t :
         /\ e \notin d /\ Disk(d, t) /\ gc' \in {"remove", "parent"}
  BY DEF RemoveTarget
<1>2. OwedOrphans'
  BY <1>1, Inside DEF OwedOrphans, Owed, RemoveTarget, Disk, upload
<1>3. \A o \in Owed' : Awaited(o)'
  BY <1>1 DEF Awaited, Owed, RemoveTarget, Disk
<1> QED
  BY <1>2, <1>3

LEMMA OtherOwes ==
  ASSUME OwingInv, Crash \/ Hour \/ Start \/ ReadRefs \/ StaleIncoming \/ Report \/ Exit
  PROVE  Owing'
<1> USE DEF OwingInv, Owing
<1>1. CASE Crash
  <2>1. OwedOrphans'
    BY <1>1 DEF OwedOrphans, Owed, Crash, tool
  <2> QED
    BY <1>1, <2>1, ServerOwes DEF Crash
<1>2. CASE Hour
  BY <1>2 DEF Hour, OwedOrphans, Owed, Awaited, upload, tool
<1>3. CASE Start
  <2>1. OwedOrphans'
    BY <1>3, Names DEF Start, Orphan, OwedOrphans, Owed, upload
  <2>2. ASSUME NEW e \in Owed'
        PROVE  Awaited(e)'
    <3>1. Orphan(e) /\ gc' = "walk" /\ todo' = Album
      BY <1>3, <2>2 DEF Start, Owed
    <3> QED
      BY <3>1, GcAssumption DEF Orphan, Awaited
  <2> QED
    BY <2>1, <2>2
<1>4. CASE ReadRefs
  <2>1. OwedOrphans'
    BY <1>4 DEF ReadRefs, OwedOrphans, Owed, upload
  <2>2. ASSUME NEW e \in Owed'
        PROVE  Awaited(e)'
    <3>1. e \in Owed /\ (e \in found \/ \E p \in Photo : e = Staged(p))
      BY <1>4, <2>2 DEF ReadRefs, Awaited, Owed
    <3> QED
      BY <1>4, <2>2, <3>1 DEF ReadRefs, Awaited, Owed, OwedOrphans, TypeOK
  <2> QED
    BY <2>1, <2>2
<1>5. CASE StaleIncoming
  <2>1. OwedOrphans'
    BY <1>5 DEF StaleIncoming, OwedOrphans, Owed, upload
  <2>2. \A e \in Owed' : Awaited(e)'
    BY <1>5 DEF StaleIncoming, Awaited, Owed
  <2> QED
    BY <2>1, <2>2
<1>6. CASE Report
  BY <1>6 DEF Report, OwedOrphans, Owed, Awaited, upload
<1>7. CASE Exit
  BY <1>7 DEF Exit, OwedOrphans, Owed, Awaited, upload
<1> QED
  BY <1>1, <1>2, <1>3, <1>4, <1>5, <1>6, <1>7

LEMMA OwingStep == OwingInv /\ [Next]_vars => OwingInv'
<1> SUFFICES ASSUME OwingInv, [Next]_vars PROVE OwingInv'
  OBVIOUS
<1>1. TypeOK'
  BY TypeStep DEF OwingInv
<1>2. ASSUME UNCHANGED vars PROVE Owing'
  <2>1. Owing /\ UNCHANGED vars
    BY <1>2 DEF OwingInv
  <2> QED
    BY <2>1 DEF Owing, OwedOrphans, Owed, Awaited, In, vars, upload, tool, trouble
<1>3. ASSUME Next PROVE Owing'
  BY <1>3, UploadOwes, AlbumOwes, WalkOwes, ParentOwes, TargetOwes, OtherOwes DEF Next
<1> QED
  BY <1>1, <1>2, <1>3 DEF OwingInv

\* When gc reports success nothing is left of what was orphaned and old when it
\* began, unless somebody has used it since, whatever crashes and whatever the server
\* does meanwhile.
THEOREM GcDoesItsJob == Spec => []GcFinishes
<1>1. Init => OwingInv
  BY InitType DEF Init, OwingInv, Owing, OwedOrphans, Owed
<1>2. OwingInv => GcFinishes
  BY DEF OwingInv, Owing, Awaited, Owed, GcFinishes
<1> QED
  BY <1>1, <1>2, OwingStep, PTL DEF Spec

-----------------------------------------------------------------------------
(***************************************************************************)
(* Nothing living is removed.  That a photo with a row has its files is    *)
(* not inductive: it depends on what gc has on its lists.  A photo's       *)
(* directory gets there only when its upload is over, because a younger    *)
(* one is not old; an album's gets there if it is old and empty, and it is *)
(* that only after a fault has left it so.                                 *)
(***************************************************************************)

FilesHere ==
  /\ \A p \in full : PhotoDir(p) \in disk
  /\ \A p \in row : /\ up[p] = "done" /\ AlbumOf[p] \in albums
                    /\ p \in full \/ AlbumOf[p] \in hollow
  /\ \A p \in Photo : up[p] = "insert" /\ AlbumOf[p] \in albums => p \in full \/ AlbumOf[p] \in hollow

Dated ==
  /\ stale \subseteq old
  /\ \A p \in Photo : /\ up[p] \in {"new", "staged", "mkdir"} => PhotoDir(p) \notin disk
                      /\ up[p] \in {"rename", "insert"} => PhotoDir(p) \notin old

Listed ==
  \A p \in Photo :
    /\ PhotoDir(p) \in found \cup targets => up[p] \in {"done", "rmphoto", "rmparent"}
    /\ PhotoDir(p) \in targets => p \notin row

\* Somebody is about to put something into the directory, or to remove it.
Emptying(a) == \/ \E p \in Photo : AlbumOf[p] = a /\ up[p] \in {"mkdir", "rmparent"}
               \/ gc = "parent" /\ todo = {a}

EmptyIsYoung ==
  \A a \in Album \ hollow :
    /\ AlbumDir(a) \in disk /\ In(a, disk) = {} => Emptying(a) /\ AlbumDir(a) \notin old
    /\ AlbumDir(a) \notin found \cup targets

KeptInv == TypeOK /\ FilesHere /\ Dated /\ Listed /\ EmptyIsYoung

LEMMA UploadFiles ==
  ASSUME KeptInv, NEW p \in Photo,
         \/ Stage(p) \/ MakeAlbumDir(p) \/ MakePhotoDir(p) \/ Rename(p) \/ CommitFails(p)
         \/ Insert(p) \/ DeletePhoto(p) \/ RemovePhotoDir(p) \/ RemoveFails(p) \/ RemoveParent(p)
  PROVE  FilesHere'
<1> USE DEF KeptInv, FilesHere, Dated, TypeOK, tool, trouble, upload, Step, Disk, Fault
<1>1. CASE Stage(p)
  BY <1>1 DEF Stage
<1>2. CASE MakeAlbumDir(p)
  BY <1>2 DEF MakeAlbumDir
<1>3. CASE MakePhotoDir(p)
  BY <1>3 DEF MakePhotoDir
<1>4. CASE Rename(p)
  BY <1>4, Names DEF Rename
<1>5. CASE CommitFails(p)
  BY <1>5, Names DEF CommitFails
<1>6. CASE Insert(p)
  BY <1>6 DEF Insert
<1>7. CASE DeletePhoto(p)
  BY <1>7 DEF DeletePhoto
<1>8. CASE RemovePhotoDir(p)
  BY <1>8, Names DEF RemovePhotoDir
<1>9. CASE RemoveFails(p)
  BY <1>9 DEF RemoveFails
<1>10. CASE RemoveParent(p)
  BY <1>10, Names, Parents DEF RemoveParent
<1> QED
  BY <1>1, <1>2, <1>3, <1>4, <1>5, <1>6, <1>7, <1>8, <1>9, <1>10

LEMMA UploadDates ==
  ASSUME KeptInv, NEW p \in Photo,
         \/ Stage(p) \/ MakeAlbumDir(p) \/ MakePhotoDir(p) \/ Rename(p) \/ CommitFails(p)
         \/ Insert(p) \/ DeletePhoto(p) \/ RemovePhotoDir(p) \/ RemoveFails(p) \/ RemoveParent(p)
  PROVE  Dated'
<1> USE DEF KeptInv, Dated, TypeOK, tool, trouble, upload, Step, Disk, Fault
<1>1. CASE Stage(p)
  BY <1>1, Names DEF Stage
<1>2. CASE MakeAlbumDir(p)
  BY <1>2, Names, Parents DEF MakeAlbumDir
<1>3. CASE MakePhotoDir(p)
  BY <1>3, Names DEF MakePhotoDir
<1>4. CASE Rename(p)
  BY <1>4 DEF Rename
<1>5. CASE CommitFails(p)
  BY <1>5 DEF CommitFails
<1>6. CASE Insert(p)
  BY <1>6 DEF Insert
<1>7. CASE DeletePhoto(p)
  BY <1>7 DEF DeletePhoto
<1>8. CASE RemovePhotoDir(p)
  BY <1>8 DEF RemovePhotoDir
<1>9. CASE RemoveFails(p)
  BY <1>9 DEF RemoveFails
<1>10. CASE RemoveParent(p)
  BY <1>10 DEF RemoveParent
<1> QED
  BY <1>1, <1>2, <1>3, <1>4, <1>5, <1>6, <1>7, <1>8, <1>9, <1>10

LEMMA UploadLists ==
  ASSUME KeptInv, NEW p \in Photo,
         \/ Stage(p) \/ MakeAlbumDir(p) \/ MakePhotoDir(p) \/ Rename(p) \/ CommitFails(p)
         \/ Insert(p) \/ DeletePhoto(p) \/ RemovePhotoDir(p) \/ RemoveFails(p) \/ RemoveParent(p)
  PROVE  Listed'
<1> USE DEF KeptInv, FilesHere, Listed, TypeOK, tool, trouble, upload, Step, Disk, Fault
<1>1. CASE Stage(p)
  BY <1>1 DEF Stage
<1>2. CASE MakeAlbumDir(p)
  BY <1>2 DEF MakeAlbumDir
<1>3. CASE MakePhotoDir(p)
  BY <1>3 DEF MakePhotoDir
<1>4. CASE Rename(p)
  BY <1>4 DEF Rename
<1>5. CASE CommitFails(p)
  BY <1>5 DEF CommitFails
<1>6. CASE Insert(p)
  BY <1>6 DEF Insert
<1>7. CASE DeletePhoto(p)
  BY <1>7 DEF DeletePhoto
<1>8. CASE RemovePhotoDir(p)
  BY <1>8 DEF RemovePhotoDir
<1>9. CASE RemoveFails(p)
  BY <1>9 DEF RemoveFails
<1>10. CASE RemoveParent(p)
  BY <1>10 DEF RemoveParent
<1> QED
  BY <1>1, <1>2, <1>3, <1>4, <1>5, <1>6, <1>7, <1>8, <1>9, <1>10

LEMMA UploadEmpty ==
  ASSUME KeptInv, NEW p \in Photo,
         \/ Stage(p) \/ MakeAlbumDir(p) \/ MakePhotoDir(p) \/ Rename(p) \/ CommitFails(p)
         \/ Insert(p) \/ DeletePhoto(p) \/ RemovePhotoDir(p) \/ RemoveFails(p) \/ RemoveParent(p)
  PROVE  EmptyIsYoung'
<1> USE DEF KeptInv, EmptyIsYoung, Emptying, TypeOK, tool, trouble, upload, Step, Disk, Fault
<1>1. CASE Stage(p)
  BY <1>1, Names, Inside DEF Stage
<1>2. CASE MakeAlbumDir(p)
  BY <1>2, Names, Parents, Inside DEF MakeAlbumDir
<1>3. CASE MakePhotoDir(p)
  BY <1>3, Inside DEF MakePhotoDir
<1>4. CASE Rename(p)
  BY <1>4, Inside DEF Rename
<1>5. CASE CommitFails(p)
  BY <1>5, Parents, Inside DEF CommitFails
<1>6. CASE Insert(p)
  BY <1>6 DEF Insert
<1>7. CASE DeletePhoto(p)
  BY <1>7 DEF DeletePhoto
<1>8. CASE RemovePhotoDir(p)
  <2>1. /\ disk' = disk \ {PhotoDir(p)} /\ old' = (old \cap disk') \ {AlbumDir(AlbumOf[p])}
        /\ up' = [up EXCEPT ![p] = "rmparent"] /\ UNCHANGED <<gc, todo, found, targets, hollow>>
    BY <1>8, Parents DEF RemovePhotoDir
  <2>2. ASSUME NEW b \in Album \ hollow, AlbumDir(b) \in disk', In(b, disk') = {}
        PROVE  Emptying(b)' /\ AlbumDir(b) \notin old'
    <3>1. CASE b = AlbumOf[p]
      BY <2>1, <3>1
    <3>2. CASE b # AlbumOf[p]
      <4>1. In(b, disk) = {} /\ AlbumDir(b) \in disk
        BY <2>1, <2>2, <3>2, Inside
      <4> QED
        BY <2>1, <3>2, <4>1
    <3> QED
      BY <3>1, <3>2
  <2> QED
    BY <2>1, <2>2
<1>9. CASE RemoveFails(p)
  BY <1>9 DEF RemoveFails
<1>10. CASE RemoveParent(p)
  <2>1. /\ disk' = IF In(AlbumOf[p], disk) = {} THEN disk \ {AlbumDir(AlbumOf[p])} ELSE disk
        /\ old' = old \cap disk' /\ up' = [up EXCEPT ![p] = "done"]
        /\ UNCHANGED <<gc, todo, found, targets, hollow>>
    BY <1>10, Parents DEF RemoveParent
  <2>2. ASSUME NEW b \in Album \ hollow, AlbumDir(b) \in disk', In(b, disk') = {}
        PROVE  Emptying(b)' /\ AlbumDir(b) \notin old'
    <3>1. In(b, disk) = {} /\ AlbumDir(b) \in disk
      BY <2>1, <2>2, Inside
    <3>2. b # AlbumOf[p]
      BY <2>1, <2>2, <3>1
    <3> QED
      BY <2>1, <3>1, <3>2
  <2> QED
    BY <2>1, <2>2
<1> QED
  BY <1>1, <1>2, <1>3, <1>4, <1>5, <1>6, <1>7, <1>8, <1>9, <1>10

LEMMA AlbumFiles ==
  ASSUME KeptInv, NEW a \in Album, DeleteAlbum(a) \/ RemoveAlbumDir(a) \/ Walk(a) \/ RemoveEmptyParent(a)
  PROVE  FilesHere'
<1> USE DEF KeptInv, FilesHere, TypeOK, tool, trouble, upload, Step, Disk, Fault
<1>1. CASE DeleteAlbum(a)
  BY <1>1 DEF DeleteAlbum
<1>2. CASE RemoveAlbumDir(a)
  BY <1>2, Names, Inside DEF RemoveAlbumDir
<1>3. CASE Walk(a)
  BY <1>3 DEF Walk
<1>4. CASE RemoveEmptyParent(a)
  BY <1>4, Names DEF RemoveEmptyParent
<1> QED
  BY <1>1, <1>2, <1>3, <1>4

LEMMA AlbumDates ==
  ASSUME KeptInv, NEW a \in Album, DeleteAlbum(a) \/ RemoveAlbumDir(a) \/ Walk(a) \/ RemoveEmptyParent(a)
  PROVE  Dated'
<1> USE DEF KeptInv, Dated, TypeOK, tool, trouble, upload, Step, Disk, Fault
<1>1. CASE DeleteAlbum(a)
  BY <1>1 DEF DeleteAlbum
<1>2. CASE RemoveAlbumDir(a)
  BY <1>2 DEF RemoveAlbumDir
<1>3. CASE Walk(a)
  BY <1>3 DEF Walk
<1>4. CASE RemoveEmptyParent(a)
  BY <1>4 DEF RemoveEmptyParent
<1> QED
  BY <1>1, <1>2, <1>3, <1>4

LEMMA AlbumLists ==
  ASSUME KeptInv, NEW a \in Album, DeleteAlbum(a) \/ RemoveAlbumDir(a) \/ Walk(a) \/ RemoveEmptyParent(a)
  PROVE  Listed'
<1> USE DEF KeptInv, Dated, FilesHere, Listed, TypeOK, tool, trouble, upload, Step, Disk, Fault
<1>1. CASE DeleteAlbum(a)
  BY <1>1 DEF DeleteAlbum
<1>2. CASE RemoveAlbumDir(a)
  BY <1>2 DEF RemoveAlbumDir
<1>3. CASE Walk(a)
  BY <1>3 DEF Walk
<1>4. CASE RemoveEmptyParent(a)
  BY <1>4 DEF RemoveEmptyParent
<1> QED
  BY <1>1, <1>2, <1>3, <1>4

LEMMA AlbumEmpty ==
  ASSUME KeptInv, NEW a \in Album, DeleteAlbum(a) \/ RemoveAlbumDir(a) \/ Walk(a) \/ RemoveEmptyParent(a)
  PROVE  EmptyIsYoung'
<1> USE DEF KeptInv, EmptyIsYoung, Emptying, Dated, TypeOK, tool, trouble, upload, Step, Disk, Fault
<1>1. CASE DeleteAlbum(a)
  BY <1>1 DEF DeleteAlbum
<1>2. CASE RemoveAlbumDir(a)
  <2>1. CASE disk' = disk /\ old' = old
    BY <1>2, <2>1 DEF RemoveAlbumDir
  <2>2. CASE disk' = disk \ (In(a, disk) \cup {AlbumDir(a)}) /\ old' = old \cap disk'
    <3>1. ASSUME NEW b \in Album \ hollow, AlbumDir(b) \in disk', In(b, disk') = {}
          PROVE  Emptying(b)' /\ AlbumDir(b) \notin old'
      <4>1. a # b
        BY <2>2, <3>1
      <4>2. In(b, disk) = {} /\ AlbumDir(b) \in disk
        BY <2>2, <3>1, <4>1, Inside
      <4> QED
        BY <1>2, <2>2, <4>2 DEF RemoveAlbumDir
    <3>2. hollow \subseteq hollow' /\ UNCHANGED <<found, targets>>
      BY <1>2 DEF RemoveAlbumDir
    <3> QED
      BY <1>2, <3>1, <3>2 DEF RemoveAlbumDir
  <2>3. \/ disk' = disk /\ old' = old
        \/ disk' = disk \ (In(a, disk) \cup {AlbumDir(a)}) /\ old' = old \cap disk'
    BY <1>2 DEF RemoveAlbumDir
  <2> QED
    BY <2>1, <2>2, <2>3
<1>3. CASE Walk(a)
  <2>1. UNCHANGED <<disk, old, up, gc, targets, hollow>> /\ gc = "walk"
    BY <1>3 DEF Walk
  <2>2. \A b \in Album \ hollow : AlbumDir(b) \in found' => AlbumDir(b) \in found
    <3>1. ASSUME NEW b \in Album \ hollow, AlbumDir(b) \in found', AlbumDir(b) \notin found
          PROVE  FALSE
      <4>1. AlbumDir(b) \in stale /\ AlbumDir(b) \in (IF In(a, disk) = {} THEN {AlbumDir(a)} ELSE In(a, disk))
        BY <1>3, <3>1 DEF Walk
      <4>2. b = a /\ In(a, disk) = {}
        BY <4>1, Names, Inside
      <4> QED
        BY <3>1, <4>1, <4>2
    <3> QED
      BY <3>1
  <2> QED
    BY <2>1, <2>2 DEF In
<1>4. CASE RemoveEmptyParent(a)
  <2>1. hollow \subseteq hollow' /\ UNCHANGED <<found, targets, up>> /\ todo = {a}
    BY <1>4 DEF RemoveEmptyParent
  <2>2. disk' \subseteq disk /\ old' \subseteq old /\ \A e \in disk \ disk' : e = AlbumDir(a)
    BY <1>4 DEF RemoveEmptyParent
  <2>3. ASSUME NEW b \in Album \ hollow', AlbumDir(b) \in disk', In(b, disk') = {}
        PROVE  Emptying(b)' /\ AlbumDir(b) \notin old'
    <3>1. In(b, disk) = {} /\ AlbumDir(b) \in disk
      BY <2>2, <2>3, Inside
    <3>2. a # b
      BY <1>4, <2>3, <3>1 DEF RemoveEmptyParent
    <3> QED
      BY <2>1, <2>2, <2>3, <3>1, <3>2
  <2> QED
    BY <2>1, <2>3
<1> QED
  BY <1>1, <1>2, <1>3, <1>4

LEMMA TargetFiles ==
  ASSUME KeptInv, NEW e \in Entry, RemoveTarget(e)
  PROVE  FilesHere'
<1>1. PICK d \in SUBSET Entry : \E t : Disk(d, t)
  BY DEF RemoveTarget, KeptInv, TypeOK
<1>2. UNCHANGED <<row, albums, up, hollow>> /\ full' = {p \in full : PhotoDir(p) \in d} /\ disk' = d
  BY <1>1 DEF RemoveTarget, upload, trouble, Disk
<1>3. ASSUME NEW p \in full, PhotoDir(p) \notin d, AlbumOf[p] \notin hollow
      PROVE  e = PhotoDir(p)
  <2>1. p \in Photo /\ PhotoDir(p) \in disk
    BY <1>3 DEF KeptInv, FilesHere, TypeOK
  <2> QED
    BY <1>1, <1>3, <2>1, Names, Inside DEF RemoveTarget, Disk, KeptInv, EmptyIsYoung
<1>4. \A p \in full : PhotoDir(p) \notin d /\ AlbumOf[p] \notin hollow => p \notin row /\ up[p] # "insert"
  BY <1>3 DEF RemoveTarget, KeptInv, Listed, TypeOK
<1> QED
  BY <1>2, <1>4 DEF KeptInv, FilesHere, TypeOK

LEMMA TargetDates ==
  ASSUME KeptInv, NEW e \in Entry, RemoveTarget(e)
  PROVE  Dated'
BY Names DEF KeptInv, EmptyIsYoung, Dated, RemoveTarget, TypeOK, Disk, upload, trouble

LEMMA TargetLists ==
  ASSUME KeptInv, NEW e \in Entry, RemoveTarget(e)
  PROVE  Listed'
BY Names DEF KeptInv, EmptyIsYoung, Listed, RemoveTarget, TypeOK, Disk, upload, trouble

LEMMA TargetEmpty ==
  ASSUME KeptInv, NEW e \in Entry, RemoveTarget(e)
  PROVE  EmptyIsYoung'
BY Inside DEF KeptInv, EmptyIsYoung, Emptying, Dated, RemoveTarget, TypeOK, Disk, upload, trouble

LEMMA OtherFiles ==
  ASSUME KeptInv, Crash \/ Hour \/ Start \/ ReadRefs \/ StaleIncoming \/ Report \/ Exit
  PROVE  FilesHere'
<1> USE DEF KeptInv, FilesHere, TypeOK, tool, trouble, upload, Step, Disk, Fault
<1>1. CASE Crash
  BY <1>1 DEF Crash
<1>2. CASE Hour
  BY <1>2 DEF Hour
<1>3. CASE Start
  BY <1>3 DEF Start
<1>4. CASE ReadRefs
  BY <1>4 DEF ReadRefs
<1>5. CASE StaleIncoming
  BY <1>5 DEF StaleIncoming
<1>6. CASE Report
  BY <1>6 DEF Report
<1>7. CASE Exit
  BY <1>7 DEF Exit
<1> QED
  BY <1>1, <1>2, <1>3, <1>4, <1>5, <1>6, <1>7

LEMMA OtherDates ==
  ASSUME KeptInv, Crash \/ Hour \/ Start \/ ReadRefs \/ StaleIncoming \/ Report \/ Exit
  PROVE  Dated'
<1> USE DEF KeptInv, Dated, TypeOK, tool, trouble, upload, Step, Disk, Fault
<1>1. CASE Crash
  BY <1>1 DEF Crash
<1>2. CASE Hour
  BY <1>2 DEF Hour
<1>3. CASE Start
  BY <1>3 DEF Start
<1>4. CASE ReadRefs
  BY <1>4 DEF ReadRefs
<1>5. CASE StaleIncoming
  BY <1>5 DEF StaleIncoming
<1>6. CASE Report
  BY <1>6 DEF Report
<1>7. CASE Exit
  BY <1>7 DEF Exit
<1> QED
  BY <1>1, <1>2, <1>3, <1>4, <1>5, <1>6, <1>7

LEMMA OtherLists ==
  ASSUME KeptInv, Crash \/ Hour \/ Start \/ ReadRefs \/ StaleIncoming \/ Report \/ Exit
  PROVE  Listed'
<1> USE DEF KeptInv, FilesHere, Listed, TypeOK, tool, trouble, upload, Step, Disk, Fault
<1>1. CASE Crash
  BY <1>1 DEF Crash
<1>2. CASE Hour
  BY <1>2 DEF Hour
<1>3. CASE Start
  BY <1>3 DEF Start
<1>4. CASE ReadRefs
  BY <1>4 DEF ReadRefs
<1>5. CASE StaleIncoming
  BY <1>5, Names DEF StaleIncoming
<1>6. CASE Report
  BY <1>6 DEF Report
<1>7. CASE Exit
  BY <1>7 DEF Exit
<1> QED
  BY <1>1, <1>2, <1>3, <1>4, <1>5, <1>6, <1>7

LEMMA OtherEmpty ==
  ASSUME KeptInv, Crash \/ Hour \/ Start \/ ReadRefs \/ StaleIncoming \/ Report \/ Exit
  PROVE  EmptyIsYoung'
<1> USE DEF KeptInv, EmptyIsYoung, Emptying, Dated, TypeOK, tool, trouble, upload, Step, Disk, Fault
<1>1. CASE Crash
  BY <1>1 DEF Crash
<1>2. CASE Hour
  BY <1>2 DEF Hour
<1>3. CASE Start
  BY <1>3 DEF Start
<1>4. CASE ReadRefs
  BY <1>4 DEF ReadRefs
<1>5. CASE StaleIncoming
  BY <1>5, Names DEF StaleIncoming
<1>6. CASE Report
  BY <1>6 DEF Report
<1>7. CASE Exit
  BY <1>7 DEF Exit
<1> QED
  BY <1>1, <1>2, <1>3, <1>4, <1>5, <1>6, <1>7

LEMMA KeptStep == KeptInv /\ [Next]_vars => KeptInv'
<1> SUFFICES ASSUME KeptInv, [Next]_vars PROVE KeptInv'
  OBVIOUS
<1>1. TypeOK'
  BY TypeStep DEF KeptInv
<1>2. ASSUME UNCHANGED vars
      PROVE  FilesHere' /\ Dated' /\ Listed' /\ EmptyIsYoung'
  <2>1. FilesHere /\ Dated /\ Listed /\ EmptyIsYoung /\ UNCHANGED vars
    BY <1>2 DEF KeptInv
  <2> QED
    BY <2>1 DEF FilesHere, Dated, Listed, EmptyIsYoung, Emptying, In, vars, upload, tool, trouble
<1>3. ASSUME Next
      PROVE  FilesHere' /\ Dated' /\ Listed' /\ EmptyIsYoung'
  <2>1. FilesHere'
    BY <1>3, UploadFiles, AlbumFiles, TargetFiles, OtherFiles DEF Next
  <2>2. Dated'
    BY <1>3, UploadDates, AlbumDates, TargetDates, OtherDates DEF Next
  <2>3. Listed'
    BY <1>3, UploadLists, AlbumLists, TargetLists, OtherLists DEF Next
  <2>4. EmptyIsYoung'
    BY <1>3, UploadEmpty, AlbumEmpty, TargetEmpty, OtherEmpty DEF Next
  <2> QED
    BY <2>1, <2>2, <2>3, <2>4
<1> QED
  BY <1>1, <1>2, <1>3 DEF KeptInv

\* Safe to run while the server is up, whatever is uploaded, deleted and interrupted
\* meanwhile: no photo that has a row loses its original, but in an album whose
\* directory a crash or a failed call between the making or removal of a photo's
\* directory and that of the album's has left empty.
THEOREM GcIsSafe == Spec => []LiveFilesKept
<1>1. Init => KeptInv
  <2> SUFFICES ASSUME Init PROVE KeptInv
    OBVIOUS
  <2>1. TypeOK
    BY InitType
  <2> QED
    BY <2>1 DEF Init, KeptInv, FilesHere, Dated, Listed, EmptyIsYoung
<1>2. KeptInv => LiveFilesKept
  BY DEF KeptInv, FilesHere, LiveFilesKept
<1> QED
  BY <1>1, <1>2, KeptStep, PTL DEF Spec
===============================================================================
