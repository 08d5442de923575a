# Smugbox: TLA+ models, model checking and proofs

Smugbox is a self-hosted photo gallery. A Lightroom plugin publishes photos to
a Go server (one process, one SQLite connection, files on disk), which renders
the display variants in the background and shows albums, some of them behind
a password, to visitors.

This directory holds TLA+ specifications of the parts of the server, and of the
plugin's side of a create, where several actors work on the same rows, files,
locks, cookies and keys, the TLC configurations
that check them on small instances, and TLAPS proofs for every instance.
Source paths below are relative to the repository; `ingest.go`, `render.go` and
`library.go` are in `backend/internal/library/`, `storage.go` in
`backend/internal/storage/`, `variants.go`, `publish_*.go`, `unlock.go`, `slug.go`,
`download.go` and the other handlers in `backend/internal/api/`, `cookie.go` and
`ratelimit.go` in `backend/internal/auth/`, `admin.go` and `main.go` in
`backend/cmd/smugbox/`, `PublishTask.lua` and `SmugboxAPI.lua` in
`lightroom-plugin/smugbox.lrplugin/`.

    tlc -config MCPhotoVisits.cfg MCPhotoVisits        # one run
    tlapm PhotoLibraryProofs.tla                       # one proof module

`PROJECT.json` lists the components, the runs, the mutant that each checked
property detects, the source lines behind every definition, the findings, the
hazards and the theorems.

## 1. The system

| Component | State | Operations | Modelled in |
|---|---|---|---|
| Photo library (`internal/library`) | rows of `photos`, files under `photos/<album>/<photo>/` | Ingest (POST, PUT), Render, Remove | `PhotoLibrary` |
| Photo locks (`library.go`) | map photo -> counted mutex | lock, unlock | `PhotoLocks` |
| File store (`internal/storage`) | `photos/`, `incoming/` | NewStaged, Commit, Abort, RemovePhoto, RemoveAlbum, Walk, Orphans, StaleIncoming | `PhotoLibrary`, `Gc` |
| Variant worker (`variants.go`) | wake channel, kicked, busy, failed, stopped | kick, run, drain, idle | `VariantWorker`, coarser in `PhotoLibrary` |
| Photo publishing (`publish_photos.go`, `publish_albums.go`) | - | upload, replace, delete photo; delete album | `PhotoLibrary` |
| Folder and album publishing (`publish_folders.go`, `publish_albums.go`) | rows of `folders` and `albums` | create, update, move, delete | `FolderTree` |
| Database (`internal/db`) | SQLite, one connection, foreign keys with cascades | single statements | as atomic steps of the others |
| gc (`admin.go`) | its lists | walk, read rows, remove | `Gc` |
| Start and shutdown (`main.go`) | the worker's context | serve | `VariantWorker` (Cancel, Restart), `PhotoLibrary` (Crash) |
| Album passwords and sessions (`unlock.go`, `auth/cookie.go`, `publish_albums.go`, `admin.go`) | password hash and version; grants in a signed cookie | unlock, create, update, set-password, delete | `AlbumAccess` |
| Rate limiter (`auth/ratelimit.go`) | token buckets | Allow, sweep | `RateLimiter`, composed with `AlbumAccess` |
| Idempotent creates and slugs (`slug.go`, `db/albums.go`, `db/folders.go`) | unique keys and slugs | create with retry | `PublishCreate`, `Slugs` |
| Lightroom plugin (`PublishTask.lua`, `SmugboxAPI.lua`) | remote ids, pending create keys in the catalog | publish, retries, uploads, recovery of what was deleted | `PublishCreate` |
| Visitor API (`albums.go`, `photos.go`, `download.go`, `search.go`) | zip slots | reads | `PhotoVisits` (rows, then files), `AlbumAccess` (who sees what), `ZipDownload` (names in a zip) |
| Backup (`deploy/backup.sh`) | database snapshot, copy of `photos/` | snapshot, rsync | `PhotoVisits` |
| API keys, remaining admin commands, image and video processing, web shell, themes, configuration, frontend, load test | | | not modelled |

How they interact: a request handler stages the upload in `incoming/`, takes
the photo's lock, changes row and files in separate statements and system calls,
kicks the worker and answers. The worker lists the pending rows, and for each
takes the same lock, renders into `incoming/`, commits the renditions and
marks the row ready. `deleteAlbum` and `deleteFolder` take no lock: they delete
rows (with cascades) and remove directories afterwards. `gc` is another process
that compares the disk with the database. The admin commands write the albums
table from a process of their own. A visitor's request reads a row and opens files
afterwards, without a lock; an unlock reads a row, spends a third of a second on
bcrypt, and answers with a whole new cookie. The plugin keeps a key in the
Lightroom catalog for each create until the new id is recorded, and sends it
again with every retry. No transaction spans two statements
anywhere, so each action of the models is one statement or one change on disk,
and anything may come in between.

What is hard here, and what makes each part correct:

* *Library.* A visible photo's original, renditions and row must come from
  the same upload, although they are changed one by one, any call may fail,
  the process may die between any two, and albums vanish underneath.
* *Locks.* A map entry that is removed when the last user leaves must never
  be removed under a goroutine that already found it.
* *Worker.* A kick that comes at any moment of a drain is not lost, `idle()`
  does not answer too early, a failure does not outlive the file it is about.
* *Tree.* Check-then-write over several statements must keep the tree a tree
  and must not remove files of an album that still exists.
* *gc.* A snapshot of the disk and a later one of the database are compared
  and acted on while both change; nothing living may be removed, and a run that
  reports success must have finished the job.
* *Visitors, backup.* Whoever reads a row and then its files must miss or mistake
  one only because the photo was replaced or deleted in between.
* *Passwords and sessions.* Versions, grants and cookies are read at one moment
  and used at a later one; nobody may see a protected album without its present
  password, and nobody who has given it may be shut out without a cause.
* *Limiter.* A map of bounded size must not forget a bucket that is not full, nor
  refuse one address because of what others do elsewhere.
* *Creates.* An attempt whose answer was lost may still be running when the next
  one comes, and either side may stop anywhere: no second album, none forgotten,
  one in the end, under a slug that requests are routed by. And when the album is
  made anew, the photos that were in the old one must not be missing unnoticed.
* *Zip.* Names made up for double ones must not meet names that photos have.

## 2. Modules

`PhotoLife` (abstract). A photo is absent, hidden, or shows one picture; a
picture is never exchanged for another one without being hidden first.

`PhotoLibrary` (core). Variables: the rows of `albums` and `photos`, the files of
each photo (each file named by the content it was made from), the photo
locks, per request its position, arguments, photo and the row it read, and
the worker with its channel token, failed map, list, and rendition in progress.

| Actions | Code |
|---|---|
| StartPost/Put/Delete/DeleteAlbum, Resolve | `uploadPhoto`, `replacePhoto`, `deletePhoto`, `deleteAlbum` up to the lock; the lookup by `lr_photo_uuid` (ingest.go:88-147) |
| LockIngest, HideOld, CommitOriginal, InsertRow / UpdateRow, CleanUp, KickAndAnswer | Ingest under the lock (ingest.go:148-222), in its order |
| LockDelete, DeleteRow, CleanUp | Remove (render.go:110-126) |
| DropAlbumRow, RemoveAlbumDir | deleteAlbum, which takes no lock (publish_albums.go:254-263) |
| TakeToken, Tick, ListPending, PickNext | run and drain (variants.go:87-137) |
| LockRender, RenderAll, InstallOne, TrimLarge, MarkReady, TakeBack | Render (render.go:16-108) |
| Crash, LockedCallFails, OtherCallFails, InsertFails, CleanUpFails, RemoveOldFails, ListFails, RenderFails | each error path; files and rows survive a crash, everything else is reset |

A content is a model value with a kind of file (jpg, mp4, mov), perhaps wide
enough for the large rendition, perhaps impossible to render. Titles, captions,
sizes and times are left out: no property tells them apart.

`PhotoMutex` (abstract) and `PhotoLocks`. The first is one mutex per photo, which
is exactly how `PhotoLibrary` uses its variable `lock`. The second is the code:
under `photoLocks.mu` find or make a counted mutex (Enter), lock it (Acquire),
unlock it (Release), under `mu` again count down and delete the entry (Leave).
Collected mutexes may be reused, as the allocator may.

`VariantWorker`. The wake protocol, one action per critical section of `w.mu` and
per channel operation: handlers store a row, set `kicked`, push the token; the
loop takes it, clears the flag, lists, handles one photo after the other, ends;
cancellation, restart, failing lists and uploads that fail before they kick.
`unseen` is a history variable: pending photos which by design only the tick
or a restart will find. `PhotoLibrary` uses a coarser worker (one step
to kick) and adds what a render does.

`FolderTree`. `parent_id`, `folder_id`, whether an album has files, and per client
the request in progress with the row it loaded and the parent it is
going to write. A request is cut exactly where the code issues another
statement. `Below`, `Chain` and `Ends` are the recursive queries of
`db/folders.go`, the chain as the least set that has its first folder and the
parent of each folder in it; they use UNION ALL, so below a cycle they do not end, and
actions that run them are disabled there. Two history variables say what concurrent
clients can break: `stale` has the clients whose request has read something (the parent
it keeps, a chain it has checked, a list of albums) before another one moved a folder or
an album, and `crossed` what such a request has done nevertheless: moved a folder, or
deleted one. May says which requests each client sends; in the passing run every client
sends all of them.

`Gc`. The disk at the grain of directories and staging files, modification
times as two ages (`old`: more than `gcGrace`), uploads cut into the two
directories of MkdirAll, the rename and the insert, deletions likewise, and gc
as list one album directory, read the rows, list `incoming/`, remove one target,
try its parent. At each step the process may die or the call may fail: the second of the
two mkdirs, the rename, the insert, the removal of a photo's directory or of its parent.
`owed` and `hollow` are history variables: what gc has to remove, and the albums whose
directory a crash or a failure has left empty. A replaced original stays in its
directory and is left out; so are junk entries, which no server makes.

`PhotoVisits` extends `PhotoLibrary` by one reader: a visitor's request for a photo
or a zip, or the backup. It reads rows in one step (ViewPhoto, DownloadAlbum,
Snapshot) and opens the files of one photo after the other (ReadFiles), while the
library goes on. `since` is a history variable: the hashes a photo has had since.

`TokenBuckets` (abstract) and `RateLimiter`. The first is a bucket per key that
nobody ever forgets. The second is the code: `Allow` under its mutex, with the
sweep when it is due or when a new key finds the map full. Time has the unit in
which one token comes back.

`AlbumAccess` extends `RateLimiter`, which its unlock requests call.

| Actions | Code |
|---|---|
| Create, Delete | createAlbum, deleteAlbum, `smugbox album delete` |
| Load, Write | updateAlbum and `set-password`: load the row, hash, write every column (publish_albums.go:193-244, admin.go:162-196) |
| Send, Arrive, Answer, Receive | the browser's request; clientIP, limiter and lookup; comparison and the new session; the cookie, which may be lost on the way (unlock.go) |
| Time, Restart | the clock; a new process, which forgets buckets and requests and keeps the secret |

Passwords stand for their hashes: a comparison is exact, and a cookie cannot be
forged. `typed` and `lost` are history variables.

`PublishCreate` composes the plugin and the server. A handler is cut at its
statements: LookUp, Insert, Violated (which index was it?), Reread. A task of the
plugin is cut where it touches the catalog or the network: Start, Mint, Send,
Receive, Retry, Record, Clear, Mark, Update (the server is asked with the id that Start
has read), Recreate (the key is read after it has answered that the album is gone),
Upload (one photo), EndRun. Answers are lost (Lose, the attempt
goes on), handlers fail or time out, rows are deleted, the server restarts,
Lightroom quits, the catalog refuses a write. A collection's task has it for
itself; a set may be worked for by several. `apart` and `unmarked` are history
variables (section 6). A photo is new, clean (Lightroom shows it as published) or
modified; that Lightroom makes a run's photos clean at its end, and not before, is
what PublishTask.lua:293-295 and 445 say of it. Photos are only in the work of a single
task: what they add does not depend on other collections. Ids, keys and random suffixes not in use are all alike: the first
stands for them.

`Slugs`: `slugify`, the suffix and `validSlug` as operators on names made of
classes of characters. `ZipDownload`: uniqueZipName, photo by photo, on names made
of a case and the numbers after it.

The `MC*` modules give the constants that a .cfg cannot write. MCAlbumAccess also
holds the zip, and MCPublishCreate the slugs, which share no state with the rest.

## 3. Runs

| Run | Checks | Bounds |
|---|---|---|
| `library` | TypeOK, ReadyMeansAgree, NoneHalfDone, HashKept, NoStrayFiles, FilesFound, ETagNamesFile, VisibleFilesFrozen | 2 photos in one album, 1 Lightroom uuid, 3 contents (wide jpg, small jpg, mov), 3 requests of any kind (symmetric), or 2 and a fault or a reader, or one and both (constraint ThreeEventsOrReaders); 1.04 million states |
| `library_live` | PendingSettles, RequestsFinish, ImplementsLife | 2 contents, one of which never renders, 2 requests, 1 fault, fairness; 133 thousand states |
| `photo_locks` | TypeOK, OneHolder, EntryIffInUse, ImplementsMutex, WaitersEnter | 4 goroutines, 2 photos, 4 mutexes, fairness; 20 thousand states |
| `worker` | TypeOK, IdleMeansTried, NoLostKick, KickSuffices | 2 photos, 2 hashes, 1 handler, 1 stop or crash, 1 error, fairness; 328 thousand states |
| `tree` | TypeOK, StaysATree, LiveAlbumsKeepFiles, KeepsItsPlace | 3 folders, 1 album, 2 clients that send every request; 1.35 million states |
| `gc` | TypeOK, LiveFilesKept, GcFinishes | 3 photos in 2 albums, 2 crashes or failing calls at any step; 3.4 million states |
| `access` | TypeOK, PasswordGuards, ZipNamesDiffer, StaysOpen, RefusedForCause, ImplementsBuckets | 3 albums, two of them under one slug in turn, 2 passwords, 1 browser behind a proxy or not, 2 writers, 3 unlocks, MaxGrants 1, TTL 2, 2 tokens, a map of 1 key, in any 4 events (requests, restarts, units of time); apart from these, zips of 4 photos over 8 names; 561 thousand states |
| `creates` | TypeOK, OneAlbum, NothingForgotten, PublishedPhotosAreThere, SlugsAreServed, PublishedInTheEnd | 2 tasks, on two collections of one name or on one set, or 1 task on a collection with 2 photos, 2 handlers, 1 slug retry, 2 troubles, or 3 with photos, slugs of 5 characters from every name of up to 7, fairness; 1.08 million states |
| `library_hash`, `tree_cycle`, `tree_lost`, `gc_lost` | one property each, violated | section 6 |

What the properties say:

* `ReadyMeansAgree`: a visible photo has every rendition its hash calls for, all
  made from the original stored now, and no large one it should not have.
* `NoneHalfDone`: what each operation in progress relies on (it holds the
  lock; the photo stays hidden; the row it read is still right or gone;
  renditions in place match the original) is never taken away by another one.
* `VisibleFilesFrozen`: no step changes a file of a photo that stays visible.
* `ImplementsLife`: the library refines `PhotoLife`.
* `HashKept`, `NoStrayFiles`: without faults, the recorded hash is that
  of the stored original, and once nothing is in flight the files under a live
  album are those of its rows. With faults the first is finding 1
  (`HashMatchesOriginal`) and the second is not promised: gc cleans up.
* `PendingSettles`, `RequestsFinish`: every pending photo that can be rendered is
  shown or deleted in the end; every request is answered.
* `FilesFound`: who has read a row and opens its files misses the original only if
  the photo was deleted or got another kind of file, and a rendition only if it was
  deleted, or the large one was too small to be made. `ETagNamesFile`: what is sent
  under an ETag has that hash, unless the photo was or is being replaced.
* `OneHolder`, `EntryIffInUse`, `ImplementsMutex`, `WaitersEnter`: the map of
  counted mutexes is one fair mutex per photo.
* `IdleMeansTried`: when `idle()` is true, every pending photo whose kick was made
  has been tried and failed. `NoLostKick`: the flag of a kick is never set with
  nobody left to clear it. `KickSuffices`: a kick is enough, without the tick, for a photo to be
  rendered or tried, unless it is replaced or deleted first.
* `StaysATree`: no folder is below itself, unless one was moved by a request that had
  checked, or loaded the parent it keeps, before another one moved a folder.
  `LiveAlbumsKeepFiles`: removing a folder or an album takes no file of an album that
  exists, unless a folder was deleted by a request that had listed its albums before
  something was moved. `KeepsItsPlace`: a request that names no parent leaves its row
  where it is, unless something was moved since it loaded it. Without the exceptions
  the first two are findings 2 and 3.
* `LiveFilesKept`: no photo with a row has lost its original, but for one in an album
  whose directory a crash or a failed call had left empty (finding 4). `GcFinishes`: after a
  gc that reports success nothing is left of what was orphaned and old when it
  began, unless somebody touched it since.
* `PasswordGuards`: whoever sees pictures of a protected album, by a grant, a search
  hit or its cover, has presented its present password, unless a write was lost.
  `StaysOpen`: an album closes to a browser only when its password changes, it is
  deleted, time passes, or an answer to an unlock replaces the cookie that was made from one
  sent before the grant was there, or expired, or full of newer grants, or that was under way
  for longer than a session lasts.
  `RefusedForCause`: an attempt is refused only because its own address has used up
  its bucket, or because all MaxKeys buckets belong to real addresses.
  `ImplementsBuckets`: the limiter refines `TokenBuckets`.
* `ZipNamesDiffer`: no two entries of a zip have one name, in whatever case.
* `OneAlbum`: a collection or set never has two albums. `NothingForgotten`: a row
  that is not recorded is reachable by the key in the catalog. `PublishedInTheEnd`: who
  publishes again and again has an album that is there and recorded, with all photos.
  `PublishedPhotosAreThere`: a photo that Lightroom shows as published is in that
  album, unless the dialog has named it, or nobody was there to mark it (`unmarked`). `SlugsAreServed`:
  every slug a row gets passes validSlug.

Why the bounds are enough: the library's operations meet on one photo, and three
requests beside the worker give every triple of operations on it (upload,
replace, metadata only, delete photo, delete album) in every interleaving with a
render; the second photo gives the insert race, in which two POSTs of one
Lightroom uuid draw two photo ids. With one Lightroom uuid a POST without a
fresh photo id left cannot resolve: that is a bound of the instance. Replacements
between a jpg and a mov exercise the change of the original's name, between a
wide and a small one the large rendition. `Smaller` has one member: the code
treats medium, small, thumb and blur alike, and the proofs hold for any set.
The lock protocol needs a holder, a waiter and a newcomer per entry; four
goroutines on two photos add a bystander. The worker needs kicks at every
place of a drain and a list of two; one handler kicks again and again, and that
several handlers add nothing to its safety is what the proofs show. In the tree run two
folders make a cycle possible and the third one a longer one, or a chain above the new
parent that changes under the check; two clients make every pair of requests meet, and an
album is enough to be moved out of what is deleted or into it. In the gc run two
photos of one album are at different steps of upload and deletion in its directory, with
another album beside it, and two faults leave one directory empty and let gc fail on it.

In the access run two writers and an unlock, or two unlocks and a writer, meet in
every order; a map of one key is full at once, and one grant per session makes
every second unlock drop one. Two tokens tell a sweep of full buckets from one of
buckets that are not. `InOrder` only says that a1 is created before a2, which are
alike but for their names. In the create run two troubles are what the known races
need (a lost answer and a deletion, a quit and a restart); with photos three, for a
deletion in the middle of a run that repairs an earlier one; a slug is cut at 5
characters, so that names of 7 put every class of character at, before and after
the cut. Four photos and numbers up to 3 let a made-up name meet a given one twice.

All runs check deadlock, but for the access run, whose budget of events ends it: the library's tick, the restarted worker, the idle
clients and gc's next start keep the system able to move.

## 4. Fairness

* `PhotoLibrary!Fairness`: weak fairness of the worker's step and of each
  handler's step (goroutines are scheduled; file and SQL calls return), strong
  fairness of taking a lock, because the worker may take the same photo again
  and again in between: `sync.Mutex` hands over to a waiter that has waited for
  a millisecond. The tick is part of the worker's step: `time.Ticker` fires. Nothing is
  assumed of requests starting or of faults.
* `PhotoLocks!Fairness`: the same of one mutex; an operation ends and unlocks.
* `VariantWorker!FairSpec`: the loop and a handler in the middle of `kick` go on. No
  fairness of Tick, which the property is meant to do without.
* `PublishCreate!Fairness`: weak fairness of the server working on some request, and
  of each task going on. The second includes that the user publishes again, which
  is the premise of PublishedInTheEnd. The steps meant are those without trouble:
  a create is tried until an attempt is not lost. Nothing is assumed of faults, and
  they are finitely many.

## 5. Proofs

| Module | Theorems |
|---|---|
| `PhotoLibraryProofs` (PhotoLibrary, PhotoVisits) | TypeCorrect, VisibleAgrees, NeverHalfDone, FilesFrozen, LibraryIsPhotoLife, HashesKept, NothingStray, ReadersFind, ETagsTrue |
| `PhotoLocksProofs` | TypeCorrect, AtMostOneInside, EntriesExact, LocksAreMutexes |
| `VariantWorkerProofs` | TypeCorrect, IdleIsTrue, KicksKept |
| `FolderTreeProofs` | TypeCorrect, NoCycles, FilesOfLivingStay, NothingMovesUnasked |
| `GcProofs` | TypeCorrect, GcDoesItsJob, GcIsSafe |
| `AlbumAccessProofs` (RateLimiter, AlbumAccess) | LimiterTypeCorrect, BoundIsInvisible, TypeCorrect, GrantsAreEarned, RefusalsAreDeserved, UnlocksAreBucketed, UnlocksLast |
| `PublishCreateProofs` (PublishCreate, Slugs) | TypeCorrect, NeverTwoAlbums, NoneForgotten, PublishedAreThere, SlugsServed |
| `ZipDownloadProofs` | NamesDiffer, SearchEnds |

Every safety property of a passing run is a theorem. They hold for any number of photos,
albums, folders, requests, contents, goroutines, handlers, clients, browsers, tasks,
faults, keys and names, any capacity, bound and sweep interval. None has a
hypothesis about what clients or faults do. They rest on the assumptions about the
constants only: that these have their types and that values meant to differ do.
`LibraryAssumption`: names of files do not clash, the worker is not a
request. `LocksAssumption`: finitely many goroutines. `LimiterAssumption`: finitely many
keys. `AccessAssumption`: a key of the limiter is an address and a slug, as in unlock.go,
and the CLI changes only passwords. `CreateAssumption`: the shape of a task's work; two
collections' tasks do not share a collection, a set's may. `SlugAssumption`: "album" is
not cut (maxSlugLen is 80). `WorkerAssumption`, `ZipAssumption`, `GcAssumption` and
`TreeAssumption` are types.

What the findings break is not excluded by an assumption but named where it happens, by
the history variables `crossed` (NoCycles, FilesOfLivingStay), `stale`
(NothingMovesUnasked) and `hollow` (GcIsSafe); the violation runs show that these
exceptions cannot be dropped.

*Library.* ReadyMeansAgree alone is not inductive: that the renditions agree when
MarkReady runs depends on nobody having replaced the original since Render
read the row, which depends on locks being held and on what each holder has
done so far. `NoneHalfDone` states exactly that, per position of a handler
and of the worker; IInv == TypeInv /\ NoneHalfDone /\ ReadyMeansAgree is
inductive. The proof goes by who moves. HandlerStep, OutsideStep and
WorkerStep say what a step of a lock holder, of somebody without a lock
and of the worker may change so that everybody else's reliance survives; a
lemma per group of actions shows that each action is such a step. Exclusive
(two holders of one lock are the same) is what separates the actors. From
IInv follow the two action results: FilesFrozen, and the refinement, where
LifeStep maps each step to Upload, Hide, Show, Drop or a stutter.

*Library without faults.* HashKept and NoStrayFiles say what is on disk for photos at
rest; what is on disk in between is `Tidiness`: under a live album the originals of
a photo are exactly the one its row names, but for what the holder of its lock is
just doing (HandlerTidy has that, position by position: two originals between Commit and
the removal of the replaced one, an original without a row before the insert). It is
guarded by faults = 0, which makes it inductive, since a fault never becomes undone.

*Readers.* FilesFound and ETagNamesFile relate a row read earlier to the files there now, so
the proof needs to know how a photo's files change while its row stays. RowLives lists the
ways (a commit, an update, the removal of the replaced original, a render), LockedStays says
that nobody disturbs what a holder has in hand, and FileLost that only an original of
another kind than the row's, or a large rendition that is too much, ever goes. `Originals`,
inductive through every fault, is what FileLost and the first read rest on: each row
has an original of its kind. ReadOK ties `since` to the rows. For the ETag, Named adds
the window in which another original is in place and its row not yet written; without a
fault that window ends with the row getting another hash (ReplacingEnds).

*Locks.* The invariant counts: `refs` of a mutex is the number of
goroutines that point to it (Cardinality of Users), a goroutine inside points to
what the map has for its photo, two photos never share a mutex, and a mutex
is owned by somebody inside with it. CountIn and CountOut carry the cardinality
through Enter and Leave.

*Worker.* IdleMeansTried follows from Covered, which says for each pending photo
who will look at it or has: a handler about to kick, the flag of a kick, a list
about to be read or in hand, or the failed map; and from BusyWhenDraining, which ties `busy` to the loop's position.

*Limiter.* The abstract level of a key is that of its bucket, or Capacity if it has
none. The invariant is the types, that no bucket is dated in the future, and the
bound on the map. KeptLevels is the heart: a sweep, due or forced, changes no
key's level, because it drops only buckets whose level is Capacity already.
PutLevels and TickLevels say what an attempt and a unit of time do to the levels;
IdealStep puts them together, and a refusal is a stutter.

*Tree.* NoCycles: as long as no stale request has moved a folder, the tree is one, and each
request that is about to move a folder and is not stale (Clear) has a new parent, or a kept
one, that the folder is not above. `Grows` is what creations and deletions may do
meanwhile (no chain gets longer, no folder is born again); a move makes every other such
request stale; and a folder put under one that it is not above closes no cycle
(MoveAcyclic). `Chain` is the least set closed under parents, and what is proved of it is
proved by naming closed sets; no induction over a path is needed. FilesOfLivingStay, in
the same way: what a client has listed as below a folder is still below it, or has gone,
when the cascade comes, unless the client is stale by then, and has gone when its files
are removed (ListInv). NothingMovesUnasked: the parent to be written back is the row's own
while nothing moves (KeepInv).

*gc.* OwingInv: what gc still owes is an orphan, and is either on one of its
lists or will be met by the part of the walk that is left. KeptInv: a photo's directory is
on a list only if its upload was over when it was listed, since younger directories are not old
(Dated, Listed); the directory of an album that is not in `hollow` is never on a list, since it is empty
only while somebody is about to fill or remove it and is young then (EmptyIsYoung).

*Access.* GrantInv has one clause per place where a grant, a row or a session may be on its
way: cookies, requests sent, the row an attempt compares with, replies. Each grant in one of them
carries a version that is not newer than the album's, and with the present version
only if its browser has typed the present password (Earned). `Upward` is what no step does unless it
loses an update: a version goes down, or one version gets two passwords. UnlocksLast
needs that an answer is made from the cookie it was sent, with a grant that is not
older (Made), and what Session.Add keeps and drops. `Others` is a recursive function; what it
keeps is proved over all lengths by a set of bad lengths having no least member.
RefusalsAreDeserved and UnlocksAreBucketed put the limiter's own theorems under the unlock
handler: LimiterRuns shows that Spec implies LimiterSpec.

*Creates.* AlbumInv has, for each collection not in `apart`: all keys in use for it are
one (OneKey), a key that may still make an album is in the catalog or has made one (Expected),
each of its albums is recorded or reachable by the key (Recorded), and what an answer or a
task names is that album (Answered). Owned says that no key serves two collections.
PhotoInv does the same for the photos of a run, position by position: what Lightroom shows as
published is there, has been told, or is unmarked; what has been done is there; and a run
that makes an album finds none. Both rest on Repairs: a collection's only task works with
the recorded id, and what the server has called gone stays so until it is made anew. Two
tasks of a set have no such invariant; there it is `apart` that covers a key made beside
an album that another task has recorded meanwhile.

*Zip.* Invariant: each count in the table is positive and each entry's lowercase
name is in the table; so a name with count zero is new (NewEntry). SomeFree shows
that the search ends: as many numbers as there are names and one more make that many
different names, which cannot all be in the table (FS_Injection).

*Slugs.* A word never has two dashes in a row (Single), which the loop keeps in every
round and every part of a word inherits; Trim leaves a letter at both ends, so that what
is cut, trimmed again and perhaps given a suffix is a ValidSlug. The loop is proved as
`Others` above is: the set of rounds after which its invariant holds is all of them.

Only model-checked: the liveness properties (PendingSettles, RequestsFinish, WaitersEnter,
KickSuffices, PublishedInTheEnd), since TLAPS does not reason about ENABLED and fairness
here.

## 6. Findings

Each is the counterexample of a run that checks one documented statement.

1. `library_hash`. Ingest replaces the original and then updates its row
   (ingest.go:193-204). If the process dies or the UPDATE fails in between, the row
   keeps the old content_hash; MarkVariantsReady compares that row with itself,
   and the photo is shown with the hash, and so the ETag, of the replaced file.
   `db/photos.go:25` calls the column "sha256 hex of the original file".
2. `tree_cycle`. Two folder moves at the same time both pass the subtree check and
   make a cycle (publish_folders.go:146-162), on which the UNION ALL recursions
   do not end. The handler means to refuse "cannot move a folder into its own subtree".
3. `tree_lost`. deleteFolder lists the albums below, deletes the folder, removes the
   files of the list (publish_folders.go:174-188). An album moved out in
   between keeps its row and loses its files.
4. `gc_lost`. A crash, a failed mkdir or a failed removal can leave an empty album
   directory; an hour later gc lists it, an upload commits into it, and `os.RemoveAll`
   takes the new photo (admin.go:283), while admin.go:261 says "Safe to run while the
   server is up".

The passing runs `tree` and `gc` show that nothing else goes wrong: their properties
except what `crossed` and `hollow` name, and hold in every other state.

Known behaviour that the passing runs exclude by a named condition, or that no
property covers:

* `lost` (PasswordGuards, StaysOpen). updateAlbum and set-password write back the
  whole row they loaded (publish_albums.go:242). Two of them at the same time lose
  one, bring an old password back, or give one password_version to two passwords,
  against "Changing the password bumps the version and voids the grant"
  (cookie.go:20-21).
* `apart` (OneAlbum, NothingForgotten). A collection comes to two keys when the
  catalog refuses to store one, when two tasks of one set each find no key
  (PublishTask.lua:130), or when an admin deletes the album while an attempt is under
  way that makes it again.
* `unmarked` (PublishedPhotosAreThere, PublishedInTheEnd). When Lightroom quits, or
  the catalog is busy, after the id of a new album is recorded (PublishTask.lua:404)
  and before all photos are marked (419), the next run finds the album there: photos
  that were published before stay out of it, although the code means to "flag
  everything already published so the next Publish fills it" (411-412). With the
  catalog busy, the dialog only says that 0 photos were marked. And "The dialog names
  them so they can be marked by hand" (446-447) goes for the first ten (514): the
  model lets the user know all.
* A create that is replayed by its key answers the first attempt's album
  (publish_albums.go:115-121) and applies nothing of the second one's settings, so a
  password set in between is not there, although "the first publish creates the
  album with these settings already applied" (PublishTask.lua:666-667).
* albumCover picks a ready cover and reads its row in another statement
  (albums.go:187-208): just after a replacement has updated the row, the old thumb goes
  out under the new ETag, and is confirmed with 304 afterwards.
* backup.sh calls itself "Consistent backup" (backup.sh:2): a photo replaced or
  deleted between the snapshot and the copy is copied mixed or not at all.
* A rename of a folder or an album writes back the parent that it loaded and undoes a
  move made meanwhile (publish_folders.go:162, publish_albums.go:242). With folders it may
  even close a cycle: f1 is under f2 when its rename loads it, then f1 is moved to the root
  and f2 under f1, and the rename puts f1 under f2 again. `stale` (KeepsItsPlace) and
  `crossed` (StaysATree) except it.

## 7. Not modelled, and why

* Staging, probing and hashing of an upload happen before the lock and change
  nothing shared but the staging file, which `Gc` has.
* SQLite is taken as atomic, serialised statements: there is one connection
  (`db.go`). The page cache, fsync and torn files are below the models' grain: Commit
  is a rename after a sync.
* Image and video processing are functions: a rendition of the stored file or a
  failure.
* Parsing: malformed bodies, multipart forms, names that validation refuses, and
  forwarded headers of more than one trusted proxy. Requests that fail there
  change nothing.
* The two zip slots: a semaphore taken and given back by a defer.
* Cryptography: bcrypt and HMAC are exact and unforgeable.
* Of the plugin: album settings, covers, deletions of photos, the ids of photos,
  and a catalog that cannot be read.
* API keys, the listings and search's ranking and paging: single statements.
* Frontend, themes, configuration, HTTP helpers, load test:
  no state shared between actors, or read-only.

## 8. Plan

Done: PhotoLife, PhotoLibrary and PhotoVisits; PhotoMutex and PhotoLocks; VariantWorker;
FolderTree; Gc; TokenBuckets and RateLimiter, AlbumAccess on top of them;
PublishCreate and Slugs; ZipDownload: each with its proofs.

Next:

1. The two levels of the locks: PhotoMutex with the process stopping, implemented by both
   PhotoLocks and the variable `lock` of PhotoLibrary.
2. What the liveness properties rest on that is safety: that a lock which is held has a
   holder that can step, and that a pending photo is always on somebody's way.
