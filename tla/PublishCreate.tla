---------------------------- MODULE PublishCreate ----------------------------
(***************************************************************************)
(* How a published collection, or a set of them, gets its album, or folder,*)
(* on the server, and the album its photos: the plugin's create with its   *)
(* key kept in the catalog, its retries and its recovery of what was       *)
(* deleted on the server, its uploads and what it marks to be published    *)
(* again                                                                   *)
(* (smugbox.lrplugin/PublishTask.lua, SmugboxAPI.lua), and the handler that*)
(* looks the key up, inserts, and tries other slugs (createAlbum of        *)
(* internal/api/publish_albums.go, createFolder of publish_folders.go,     *)
(* withUniqueSlug of slug.go).                                             *)
(*                                                                         *)
(* "Album" below is the row made: a folder when the collection is a set.   *)
(***************************************************************************)
EXTENDS Naturals, FiniteSets

CONSTANTS
  Collection,   \* all of one name: their albums want the same slug
  Task,         \* tasks of the plugin
  Photo,        \* of a collection
  Work,         \* what the tasks may work for: a collection each; or a set, even the same;
                \* or one collection with its photos; and how many answers are lost,
                \* restarts, deletions and the like happen at most
  Handler,      \* requests the server works on at a time
  MaxAlbums,    \* bound on album ids in use at a time
  MaxKeys,      \* bound on keys in use at a time
  SlugRetries,
  None

Id == 1..MaxAlbums
Key == 1..MaxKeys

\* Slug 0 is slugify(name), another one has the suffix of that number.
Slug == 0..MaxAlbums

ASSUME CreateAssumption ==
  /\ MaxAlbums \in Nat /\ MaxKeys \in Nat /\ SlugRetries \in Nat
  /\ None \notin Nat \cup Task \cup Collection
  /\ None \notin [key : Key, slug : Slug, of : Collection, photos : SUBSET Photo]
  /\ Work \subseteq [sets : BOOLEAN, of : [Task -> Collection \cup {None}], photos : SUBSET Photo, troubles : Nat]
  /\ \A w \in Work : LET used == {t \in Task : w.of[t] # None}
                     IN  /\ w.sets \/ \A t, u \in used : w.of[t] = w.of[u] => t = u
                         /\ w.photos # {} => ~w.sets /\ \E t \in Task : used = {t}

VARIABLES
  rows,       \* the albums table: key, slug, the collection it was made for, its photos
  handler,    \* the create requests on the server
  createKey,  \* the catalog: each collection's pending create key
  remoteId,   \* the catalog: each collection's recorded album
  task,       \* what each task of the plugin is doing
  photo,      \* the catalog: whether a photo is new, published, or modified since
  of,         \* the collection it works for, if any
  sets,       \* whether the collections are sets: several tasks may work for one
  told,       \* what the user has been told to mark by hand
  unmarked,   \* history: what nothing has marked in a new album's run that was cut short
  apart,      \* history: the collections that may have come to two keys at once
  troubles    \* how many may still happen

server == <<rows, handler>>
catalog == <<createKey, remoteId>>
photos == <<photo, told, unmarked>>
plugin == <<catalog, task, of, sets>>
vars == <<server, plugin, photos, apart, troubles>>

NoRequest == [at |-> "none", key |-> None, of |-> None, slug |-> 0, tries |-> 0, album |-> None, for |-> None]
Resting == [at |-> "idle", key |-> None, album |-> None, recreated |-> FALSE,
            todo |-> {}, done |-> {}, landed |-> {}]

Init ==
  /\ rows = [i \in Id |-> None]
  /\ handler = [h \in Handler |-> NoRequest]
  /\ createKey = [c \in Collection |-> None]
  /\ remoteId = [c \in Collection |-> None]
  /\ task = [t \in Task |-> Resting]
  /\ \E w \in Work : sets = w.sets /\ of = w.of /\ troubles = w.troubles
                    /\ photo = [p \in w.photos |-> "new"]
  /\ told = {} /\ unmarked = {} /\ apart = {}

Live == {i \in Id : rows[i] # None}
WithKey(k) == {i \in Live : rows[i].key = k}
Taken(s) == \E i \in Live : rows[i].slug = s

\* A new uuid: the first one that nothing refers to stands for all of them.
UsedIds == Live \cup {remoteId[c] : c \in Collection} \cup {task[t].album : t \in Task}
           \cup {handler[h].album : h \in Handler}
UsedKeys == {rows[i].key : i \in Live} \cup {createKey[c] : c \in Collection}
            \cup {task[t].key : t \in Task} \cup {handler[h].key : h \in Handler}
New(all, inUse) == {x \in all \ inUse : \A y \in all \ inUse : x <= y}

Trouble == troubles > 0 /\ troubles' = troubles - 1
NoTrouble == UNCHANGED troubles
-----------------------------------------------------------------------------
(***************************************************************************)
(* The server.                                                             *)
(***************************************************************************)

Step(h, at) == handler' = [handler EXCEPT ![h].at = at]

\* An answer that nobody waits for any more is dropped.
Answer(h, i) ==
  handler' = [handler EXCEPT ![h] =
    IF @.for = None THEN NoRequest ELSE [NoRequest EXCEPT !.at = "answer", !.album = i, !.for = handler[h].for]]
Unawaited(r) == IF r.at = "answer" THEN NoRequest ELSE [r EXCEPT !.for = None]
ServerOnly == UNCHANGED <<plugin, photos, apart>>

\* A key that has an album is answered with it; an album is made otherwise.
LookUp(h) ==
  /\ handler[h].at = "look"
  /\ \/ \E i \in WithKey(handler[h].key) : Answer(h, i)
     \/ WithKey(handler[h].key) = {} /\ Step(h, "insert")
  /\ NoTrouble /\ ServerOnly
  /\ UNCHANGED rows

\* Mutant of Insert: the key has no unique index.
InsertKeyTwice(h) ==
  LET r == handler[h]
  IN /\ r.at = "insert"
     /\ IF Taken(r.slug)
        THEN Step(h, "violated") /\ UNCHANGED rows
        ELSE \E i \in New(Id, UsedIds) :
               /\ rows' = [rows EXCEPT ![i] = [key |-> r.key, slug |-> r.slug, of |-> r.of, photos |-> {}]]
               /\ Answer(h, i)
     /\ NoTrouble /\ ServerOnly

\* INSERT, or a unique violation of the key or the slug.
Insert(h) ==
  LET r == handler[h]
  IN /\ r.at = "insert"
     /\ IF WithKey(r.key) # {} \/ Taken(r.slug)
        THEN Step(h, "violated") /\ UNCHANGED rows
        ELSE \E i \in New(Id, UsedIds) :
               /\ rows' = [rows EXCEPT ![i] = [key |-> r.key, slug |-> r.slug, of |-> r.of, photos |-> {}]]
               /\ Answer(h, i)
     /\ NoTrouble /\ ServerOnly

\* Another random suffix: one that nobody has, or one that is taken as well.
Suffix(h) ==
  \E s \in Slug \ {0} :
    /\ handler' = [handler EXCEPT ![h].at = "insert", ![h].slug = s, ![h].tries = @ + 1]
    /\ \/ s \in New(Slug \ {0}, {rows[i].slug : i \in Live}) /\ NoTrouble
       \/ Taken(s) /\ Trouble

\* Which of the two it was is asked in a statement of its own: the key is, or the
\* slug gets another suffix, SlugRetries times.
Violated(h) ==
  LET r == handler[h]
  IN /\ r.at = "violated"
     /\ IF WithKey(r.key) # {} THEN Step(h, "reread") /\ NoTrouble
        ELSE IF r.tries < SlugRetries
        THEN Suffix(h)
        ELSE Answer(h, None) /\ NoTrouble
     /\ UNCHANGED rows /\ ServerOnly

\* The album of the attempt that was faster, or 500 if it has gone meanwhile.
Reread(h) ==
  /\ handler[h].at = "reread"
  /\ \/ \E i \in WithKey(handler[h].key) : Answer(h, i)
     \/ WithKey(handler[h].key) = {} /\ Answer(h, None)
  /\ NoTrouble /\ ServerOnly
  /\ UNCHANGED rows

\* A statement fails, or the 30 s of the handler are over.
HandlerFails(h) ==
  /\ handler[h].at \in {"look", "insert", "violated", "reread"}
  /\ Answer(h, None)
  /\ Trouble /\ ServerOnly
  /\ UNCHANGED rows

\* A slow attempt, or another task for the set, may still make this album again.
Astray(i) == \/ \E h \in Handler : handler[h].key = rows[i].key
             \/ sets /\ \E t \in Task : of[t] = rows[i].of /\ task[t].at # "idle"

\* delete-album, or DELETE from elsewhere.
Delete(i) ==
  /\ i \in Live
  /\ rows' = [rows EXCEPT ![i] = None]
  /\ apart' = IF Astray(i) THEN apart \cup {rows[i].of} ELSE apart
  /\ Trouble
  /\ UNCHANGED <<handler, plugin, photos>>

\* The server stops and starts again: whoever waits gets no answer.
Restart ==
  /\ handler' = [h \in Handler |-> NoRequest]
  /\ task' = [t \in Task |-> IF task[t].at = "wait" THEN [task[t] EXCEPT !.at = "failed"] ELSE task[t]]
  /\ Trouble
  /\ UNCHANGED <<rows, catalog, of, sets, photos, apart>>
-----------------------------------------------------------------------------
(***************************************************************************)
(* The plugin.                                                             *)
(***************************************************************************)

Goto(t, at) == task' = [task EXCEPT ![t].at = at]
Finish(t) == task' = [task EXCEPT ![t] = Resting]
Leave(t, at) == task' = [task EXCEPT ![t].at = at, ![t].album = None]
InPlugin == UNCHANGED <<server, of, sets, photos>>

\* Mutant of UseKey: every create gets a new key.
UseNewKey(t, run) ==
  \E k \in New(Key, UsedKeys) : task' = [task EXCEPT ![t] = [run EXCEPT !.at = "mint", !.key = k]]

\* pendingCreateKey: the key of a create that is not recorded yet, or a new one.
UseKey(t, run) ==
  \/ /\ createKey[of[t]] # None
     /\ task' = [task EXCEPT ![t] = [run EXCEPT !.at = "send", !.key = createKey[of[t]]]]
  \/ /\ createKey[of[t]] = None
     /\ \E k \in New(Key, UsedKeys) : task' = [task EXCEPT ![t] = [run EXCEPT !.at = "mint", !.key = k]]

Recreating(t) == [task[t] EXCEPT !.recreated = TRUE]

\* The user publishes what is new or modified; or saves the settings of a
\* collection within a set.  The album is the one recorded by now.
Start(t) ==
  LET run == [Resting EXCEPT !.todo = {p \in DOMAIN photo : photo[p] # "clean"}]
  IN /\ task[t].at = "idle" /\ of[t] # None
     /\ IF remoteId[of[t]] = None THEN UseKey(t, run)
        ELSE task' = [task EXCEPT ![t] = [run EXCEPT !.at = "update", !.album = remoteId[of[t]]]]
     /\ NoTrouble /\ InPlugin
     /\ UNCHANGED <<catalog, apart>>

\* The new key is stored, over one that another task may have stored meanwhile,
\* unless the catalog stays busy.
Mint(t) ==
  LET c == of[t]
  IN /\ task[t].at = "mint"
     /\ \/ /\ createKey' = [createKey EXCEPT ![c] = task[t].key]
           /\ apart' = IF sets /\ (createKey[c] # None \/ remoteId[c] \in Live) THEN apart \cup {c} ELSE apart
           /\ NoTrouble
        \/ createKey' = createKey /\ apart' = apart \cup {c} /\ Trouble
     /\ Goto(t, "send")
     /\ InPlugin /\ UNCHANGED remoteId

\* Handlers are goroutines, all alike: any free one stands for all of them.
Free == {h \in Handler : handler[h].at = "none"}

Send(t) ==
  /\ task[t].at = "send" /\ Free # {}
  /\ handler' = [handler EXCEPT ![CHOOSE h \in Free : TRUE] =
       [NoRequest EXCEPT !.at = "look", !.key = task[t].key, !.of = of[t], !.for = t]]
  /\ Goto(t, "wait")
  /\ NoTrouble
  /\ UNCHANGED <<rows, catalog, of, sets, photos, apart>>

\* An answer arrives: an album, or a status that is worth another attempt.
Receive(t) ==
  /\ task[t].at = "wait"
  /\ \E h \in Handler :
       /\ handler[h].at = "answer" /\ handler[h].for = t
       /\ handler' = [handler EXCEPT ![h] = NoRequest]
       /\ task' = IF handler[h].album = None THEN [task EXCEPT ![t].at = "failed"]
                  ELSE [task EXCEPT ![t].at = "record", ![t].album = handler[h].album, ![t].key = None]
  /\ NoTrouble
  /\ UNCHANGED <<rows, catalog, of, sets, photos, apart>>

\* No answer arrives; the attempt goes on without anyone waiting for it.
Lose(t) ==
  /\ task[t].at = "wait"
  /\ handler' = [h \in Handler |-> IF handler[h].for = t THEN Unawaited(handler[h]) ELSE handler[h]]
  /\ Goto(t, "failed")
  /\ Trouble
  /\ UNCHANGED <<rows, catalog, of, sets, photos, apart>>

\* sendWithRetry tries again, until its delays are used up or the user cancels.
Retry(t) ==
  /\ task[t].at = "failed"
  /\ Goto(t, "send") \/ Finish(t)
  /\ NoTrouble /\ InPlugin
  /\ UNCHANGED <<catalog, apart>>

\* Mutant of Record: the key is cleared with the answer.
RecordClears(t) ==
  /\ task[t].at = "record"
  /\ createKey' = [createKey EXCEPT ![of[t]] = None]
  /\ \/ /\ remoteId' = [remoteId EXCEPT ![of[t]] = task[t].album]
        /\ Leave(t, "clear") /\ NoTrouble
     \/ sets /\ Finish(t) /\ Trouble /\ UNCHANGED remoteId
  /\ InPlugin /\ UNCHANGED apart

\* The id is recorded; for a set the catalog may be busy, and the task gives up.
Record(t) ==
  /\ task[t].at = "record"
  /\ \/ /\ remoteId' = [remoteId EXCEPT ![of[t]] = task[t].album]
        /\ Leave(t, "clear") /\ NoTrouble
     \/ sets /\ Finish(t) /\ Trouble /\ UNCHANGED remoteId
  /\ InPlugin /\ UNCHANGED <<createKey, apart>>

Cleared(t) ==
  \/ createKey' = [createKey EXCEPT ![of[t]] = None] /\ NoTrouble
  \/ createKey' = createKey /\ Trouble

\* Mutant of Clear: only the run that finds the album gone fills the new one.
ClearOnly(t) ==
  /\ task[t].at = "clear" /\ Cleared(t)
  /\ IF sets THEN Finish(t) ELSE Goto(t, "upload")
  /\ InPlugin /\ UNCHANGED <<remoteId, apart>>

\* clearPendingCreateKey, which the catalog may refuse.  Photos follow.
Clear(t) ==
  /\ task[t].at = "clear" /\ Cleared(t)
  /\ IF sets THEN Finish(t) ELSE Goto(t, IF task[t].recreated THEN "mark" ELSE "upload")
  /\ InPlugin /\ UNCHANGED <<remoteId, apart>>

Clean == {p \in DOMAIN photo : photo[p] = "clean"}

\* markAllForRepublish: the new album lacks what was published in the old one.
\* The catalog may refuse, and the dialog counts none.
Mark(t) ==
  /\ task[t].at = "mark"
  /\ \/ photo' = [p \in DOMAIN photo |-> IF p \in Clean THEN "modified" ELSE photo[p]] /\ unmarked' = unmarked /\ NoTrouble
     \/ photo' = photo /\ unmarked' = unmarked \cup Clean /\ Trouble
  /\ Goto(t, "upload")
  /\ UNCHANGED <<server, catalog, of, sets, told, apart>>

\* Mutant of Update: a missing album is not made anew.
UpdateOnly(t) ==
  /\ task[t].at = "update"
  /\ IF sets THEN Finish(t) ELSE Leave(t, "upload")
  /\ NoTrouble /\ InPlugin /\ UNCHANGED <<catalog, apart>>

\* The album's parent is set, or the set is verified.  An answer other than that
\* it has gone stops the repair of a set and is passed over by a publish.
Update(t) ==
  LET gone == task[t].album \notin Live
  IN /\ task[t].at = "update"
     /\ \/ gone /\ Leave(t, "gone") /\ NoTrouble
        \/ /\ IF sets THEN Finish(t) ELSE Leave(t, "upload")
           /\ IF gone THEN Trouble ELSE NoTrouble
     /\ InPlugin /\ UNCHANGED <<catalog, apart>>

\* The server said that it has gone, and one is created with the key that is in
\* the catalog by now, if any.
Recreate(t) ==
  /\ task[t].at = "gone"
  /\ UseKey(t, Recreating(t))
  /\ NoTrouble /\ InPlugin /\ UNCHANGED <<catalog, apart>>

\* A photo gets into the album, as a replacement or, if what it replaces is not
\* there, as a new one; or it cannot be uploaded, which a dialog tells.  The one that
\* finds the album gone is uploaded again into a new one, once per run.
Upload(t) ==
  LET album == remoteId[of[t]]
      run == task[t]
  IN /\ run.at = "upload"
     /\ \E p \in run.todo :
          \/ /\ album \in Live
             /\ rows' = [rows EXCEPT ![album].photos = @ \cup {p}]
             /\ task' = [task EXCEPT ![t].todo = @ \ {p}, ![t].done = @ \cup {p},
                                     ![t].landed = IF run.recreated THEN @ ELSE @ \cup {p}]
             /\ NoTrouble
          \/ /\ album \notin Live /\ ~run.recreated
             /\ Goto(t, "gone")
             /\ NoTrouble /\ UNCHANGED rows
          \/ /\ task' = [task EXCEPT ![t].todo = @ \ {p}]
             /\ IF album \notin Live /\ run.recreated THEN NoTrouble ELSE Trouble
             /\ UNCHANGED rows
     /\ UNCHANGED <<handler, catalog, of, sets, photos, apart>>

\* Every photo had its turn, or the user cancels.  Lightroom counts what the run
\* uploaded as published and no longer marked; the dialog names what was uploaded
\* into the album that had gone.
EndRun(t) ==
  LET run == task[t]
  IN /\ run.at = "upload"
     /\ IF run.todo = {} THEN NoTrouble ELSE Trouble
     /\ photo' = [p \in DOMAIN photo |-> IF p \in run.done THEN "clean" ELSE photo[p]]
     /\ told' = (told \ run.done) \cup (IF run.recreated THEN run.landed ELSE {})
     /\ unmarked' = unmarked \ run.done
     /\ Finish(t)
     /\ UNCHANGED <<server, catalog, of, sets, apart>>

\* The user changes a photo, or marks it to be published again.
Modify(p) ==
  /\ photo[p] = "clean"
  /\ photo' = [photo EXCEPT ![p] = "modified"]
  /\ NoTrouble
  /\ UNCHANGED <<server, plugin, told, unmarked, apart>>

\* Lightroom quits in the middle of everything: a new album that is recorded is
\* not known for a new one any more.
Quit ==
  /\ \E t \in Task : task[t].at # "idle"
  /\ unmarked' = IF \E t \in Task : task[t].recreated /\ task[t].at \in {"clear", "mark"}
                 THEN unmarked \cup Clean ELSE unmarked
  /\ task' = [t \in Task |-> Resting]
  /\ handler' = [h \in Handler |-> Unawaited(handler[h])]
  /\ Trouble
  /\ UNCHANGED <<rows, catalog, of, sets, photo, told, apart>>
-----------------------------------------------------------------------------
Serve(h) == LookUp(h) \/ Insert(h) \/ Violated(h) \/ Reread(h)

Proceed(t) == \/ Start(t) \/ Mint(t) \/ Send(t) \/ Receive(t) \/ Retry(t)
              \/ Record(t) \/ Clear(t) \/ Mark(t) \/ Update(t) \/ Recreate(t)
              \/ Upload(t) \/ EndRun(t)

Next ==
  \/ \E h \in Handler : Serve(h) \/ HandlerFails(h)
  \/ \E t \in Task : Proceed(t) \/ Lose(t)
  \/ \E i \in Id : Delete(i)
  \/ \E p \in DOMAIN photo : Modify(p)
  \/ Restart \/ Quit

\* The server works on what it has, the plugin's tasks go on, and the user
\* publishes again.
Fairness == /\ WF_vars(NoTrouble /\ \E h \in Handler : Serve(h))
            /\ \A t \in Task : WF_vars(NoTrouble /\ Proceed(t))

Spec == Init /\ [][Next]_vars
FairSpec == Spec /\ Fairness
-----------------------------------------------------------------------------
TypeOK ==
  /\ \A i \in Live : /\ rows[i].key \in Key /\ rows[i].slug \in Slug /\ rows[i].of \in Collection
                     /\ rows[i].photos \subseteq DOMAIN photo
                     /\ \A j \in Live \ {i} : rows[i].key # rows[j].key /\ rows[i].slug # rows[j].slug
  /\ troubles \in Nat
  /\ \A h \in Handler : /\ handler[h].tries \in 0..SlugRetries
                        /\ handler[h].at \in {"none", "answer"} <=> handler[h].key = None
                        /\ handler[h].for \in {t \in Task : task[t].at = "wait"} \cup {None}
  /\ createKey \in [Collection -> Key \cup {None}]
  /\ remoteId \in [Collection -> Id \cup {None}]
  /\ \A t \in Task : /\ task[t].at = "wait" => \E h \in Handler : handler[h].for = t
                     /\ task[t].at \in {"mint", "send", "wait", "failed"} <=> task[t].key \in Key
                     /\ task[t].at \in {"record", "update"} => task[t].album \in Id
                     /\ task[t].todo \cap task[t].done = {} /\ task[t].landed \subseteq task[t].done
  /\ photo \in [DOMAIN photo -> {"new", "clean", "modified"}]
  /\ told \cup unmarked \subseteq DOMAIN photo

\* A collection never has two albums, whatever attempts of whichever task are
\* lost, late or repeated, and however often Lightroom and the server stop in
\* between ("a retry after a lost response returns the row the first attempt
\* made instead of a second album or set", PublishTask.lua:96-97), unless it has
\* come to two keys: the catalog did not store one, two tasks made one at the
\* same time, or its album was deleted while an attempt or two tasks were under way.
OneAlbum ==
  \A c \in Collection \ apart : Cardinality({i \in Live : rows[i].of = c}) <= 1

\* No album is made and forgotten: until it is recorded its key is in the catalog
\* and the next publish gets it back ("The create key is left in place, so the
\* next publish gets this folder back", PublishTask.lua:194).
NothingForgotten ==
  \A i \in Live : LET c == rows[i].of
                  IN  c \notin apart => remoteId[c] = i \/ createKey[c] = rows[i].key

\* What Lightroom shows as published is in the collection's album, also after the
\* album was deleted and made anew in the middle of a run ("flag everything
\* already published so the next Publish fills it", PublishTask.lua:411-412;
\* "The dialog names them so they can be marked by hand", 446-447): or else the user has
\* been told, or Lightroom stopped, or the catalog refused, in the moment between
\* the recording of the new album and the marking.
PublishedPhotosAreThere ==
  \A t \in Task :
    of[t] # None /\ remoteId[of[t]] \in Live /\ task[t].at \notin {"clear", "mark"}
      => Clean \subseteq rows[remoteId[of[t]]].photos \cup told \cup unmarked

\* Who publishes again and again has an album in the end that is there and
\* recorded, with all the photos that nobody must mark by hand, whatever went wrong
\* before.
PublishedInTheEnd ==
  \A t \in Task :
    <>[](of[t] # None => /\ remoteId[of[t]] \in Live
                         /\ DOMAIN photo \subseteq rows[remoteId[of[t]]].photos \cup told \cup unmarked)
=============================================================================
