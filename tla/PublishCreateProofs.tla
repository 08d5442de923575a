-------------------------- MODULE PublishCreateProofs --------------------------
(***************************************************************************)
(* Creates of any number of tasks, with any number of handlers, retries    *)
(* and troubles: a collection or set has one album, what was made is       *)
(* recorded or within reach of the key in the catalog, and the photos that *)
(* Lightroom shows as published are in the album, under a slug that        *)
(* requests are routed by.                                                 *)
(***************************************************************************)
EXTENDS MCPublishCreate, FiniteSetTheorems, WellFoundedInduction, SequenceTheorems, TLAPS

-----------------------------------------------------------------------------
(* Types. *)

Stages == {"idle", "mint", "send", "wait", "failed", "record", "clear", "mark",
           "update", "gone", "upload"}
Albums == [key : Key, slug : Slug, of : Collection, photos : SUBSET DOMAIN photo]
Requests == [at : {"none", "look", "insert", "violated", "reread", "answer"}, key : Key \cup {None},
             of : Collection \cup {None}, slug : Slug, tries : 0..SlugRetries,
             album : Id \cup {None}, for : Task \cup {None}]
Runs == [at : Stages, key : Key \cup {None}, album : Id \cup {None}, recreated : BOOLEAN,
         todo : SUBSET DOMAIN photo, done : SUBSET DOMAIN photo, landed : SUBSET DOMAIN photo]

RowsOK ==
  /\ rows \in [Id -> Albums \cup {None}]
  /\ \A i, j \in Live : i # j => rows[i].key # rows[j].key /\ rows[i].slug # rows[j].slug

HandlersOK ==
  /\ handler \in [Handler -> Requests]
  /\ \A h \in Handler : /\ handler[h].at \in {"none", "answer"} <=> handler[h].key = None
                        /\ handler[h].key # None => handler[h].of # None
                        /\ handler[h].at = "none" => handler[h].for = None

Fits(t) ==
  /\ task[t].at \in {"mint", "send", "wait", "failed"} <=> task[t].key \in Key
  /\ task[t].at \in {"record", "update"} => task[t].album \in Id
  /\ task[t].at # "idle" => of[t] # None
  /\ task[t].todo \cap task[t].done = {} /\ task[t].landed \subseteq task[t].done

TasksOK ==
  /\ task \in [Task -> Runs]
  /\ \A t \in Task : Fits(t)

\* A request has one task waiting for it, and a waiting task one request.
Waiting ==
  /\ \A h \in Handler : handler[h].for # None => task[handler[h].for].at = "wait"
  /\ \A h, g \in Handler : handler[h].for # None /\ handler[h].for = handler[g].for => h = g
  /\ \A t \in Task : task[t].at = "wait" => \E h \in Handler : handler[h].for = t

CatalogOK ==
  /\ createKey \in [Collection -> Key \cup {None}]
  /\ remoteId \in [Collection -> Id \cup {None}]

PhotosOK ==
  /\ photo \in [DOMAIN photo -> {"new", "clean", "modified"}] /\ DOMAIN photo \subseteq Photo
  /\ told \subseteq DOMAIN photo /\ unmarked \subseteq DOMAIN photo

\* A collection is one task's, unless it is a set; and one task has photos, if any.
Shared ==
  /\ of \in [Task -> Collection \cup {None}] /\ sets \in BOOLEAN
  /\ sets \/ \A t, u \in Task : of[t] # None /\ of[t] = of[u] => t = u
  /\ DOMAIN photo # {} => ~sets /\ \A t, u \in Task : of[t] # None /\ of[u] # None => t = u

TypeInv ==
  /\ RowsOK /\ HandlersOK /\ TasksOK /\ Waiting /\ CatalogOK /\ PhotosOK /\ Shared
  /\ troubles \in Nat

LEMMA TypeInvOK == TypeInv => TypeOK
BY DEF TypeInv, TypeOK, RowsOK, HandlersOK, TasksOK, Fits, Waiting, CatalogOK, PhotosOK, Shared, Live,
       Albums, Requests, Runs

LEMMA NotNone ==
  /\ None \notin Id /\ None \notin Key /\ None \notin Slug /\ None \notin Task /\ None \notin Collection
  /\ \A r \in [key : Key, slug : Slug, of : Collection, photos : SUBSET Photo] : r # None
  /\ SlugRetries \in Nat /\ 0 \in Slug
BY CreateAssumption DEF Id, Key, Slug

LEMMA InitType == Init => TypeInv
<1> SUFFICES ASSUME Init PROVE TypeInv
  OBVIOUS
<1> PICK w \in Work : sets = w.sets /\ of = w.of /\ troubles = w.troubles /\ photo = [p \in w.photos |-> "new"]
  BY DEF Init
<1>1. w \in [sets : BOOLEAN, of : [Task -> Collection \cup {None}], photos : SUBSET Photo, troubles : Nat]
  BY CreateAssumption
<1>2. RowsOK
  BY DEF Init, RowsOK, Live
<1>3. HandlersOK
  BY NotNone DEF Init, HandlersOK, NoRequest, Requests, Slug
<1>4. TasksOK
  BY NotNone DEF Init, TasksOK, Fits, Resting, Runs, Stages
<1>5. Waiting
  BY DEF Init, Waiting, NoRequest, Resting
<1>6. CatalogOK
  BY DEF Init, CatalogOK
<1>7. PhotosOK
  BY <1>1 DEF Init, PhotosOK
<1>8. Shared
  <2>1. sets \/ \A t, u \in Task : of[t] # None /\ of[t] = of[u] => t = u
    BY <1>1, CreateAssumption
  <2>2. DOMAIN photo # {} => ~sets /\ \A t, u \in Task : of[t] # None /\ of[u] # None => t = u
    BY <1>1, CreateAssumption
  <2> QED
    BY <1>1, <2>1, <2>2 DEF Shared
<1> QED
  BY <1>1, <1>2, <1>3, <1>4, <1>5, <1>6, <1>7, <1>8 DEF TypeInv


-----------------------------------------------------------------------------
(* What the server does to a request. *)

LEMMA Answering ==
  ASSUME HandlersOK, NEW h \in Handler, NEW i \in Id \cup {None}, Answer(h, i)
  PROVE  /\ HandlersOK'
         /\ \A g \in Handler \ {h} : handler'[g] = handler[g]
         /\ handler'[h].key = None /\ handler'[h].for = handler[h].for
         /\ handler'[h].at = "answer" => handler'[h].album = i
<1>1. NoRequest \in Requests
  BY NotNone DEF NoRequest, Requests
<1> DEFINE r == IF handler[h].for = None THEN NoRequest
               ELSE [NoRequest EXCEPT !.at = "answer", !.album = i, !.for = handler[h].for]
<1>2. r \in Requests /\ r.key = None /\ r.for = handler[h].for /\ r.at \in {"none", "answer"}
      /\ (r.at = "answer" => r.album = i) /\ (r.at = "none" => r.for = None)
  BY <1>1 DEF HandlersOK, NoRequest, Requests
<1>3. handler' = [handler EXCEPT ![h] = r]
  BY DEF Answer
<1> HIDE DEF r
<1> QED
  BY <1>2, <1>3 DEF HandlersOK

LEMMA Working ==
  ASSUME HandlersOK, NEW h \in Handler, handler[h].key # None,
         NEW at \in {"look", "insert", "violated", "reread"}, Step(h, at)
  PROVE  /\ HandlersOK'
         /\ \A g \in Handler \ {h} : handler'[g] = handler[g]
         /\ handler'[h].key = handler[h].key /\ handler'[h].of = handler[h].of
         /\ handler'[h].for = handler[h].for /\ handler'[h].at = at
BY DEF HandlersOK, Step, Requests

LEMMA Suffixing ==
  ASSUME HandlersOK, NEW h \in Handler, handler[h].key # None, handler[h].tries < SlugRetries, Suffix(h)
  PROVE  /\ HandlersOK'
         /\ \A g \in Handler \ {h} : handler'[g] = handler[g]
         /\ handler'[h].key = handler[h].key /\ handler'[h].of = handler[h].of
         /\ handler'[h].for = handler[h].for /\ handler'[h].at = "insert"
BY NotNone DEF HandlersOK, Suffix, Requests

\* What a step of the server is to everybody else: it goes on with a request,
\* answers it with an album of its key or with none, or makes the album.
Continues(h) ==
  /\ handler'[h].key = handler[h].key /\ handler'[h].of = handler[h].of /\ handler'[h].at # "answer"
  /\ rows' = rows
Answers(h) ==
  /\ handler'[h].key = None /\ rows' = rows
  /\ \E i \in WithKey(handler[h].key) \cup {None} : handler'[h].at = "answer" => handler'[h].album = i
Makes(h) ==
  /\ handler'[h].key = None /\ WithKey(handler[h].key) = {} /\ ~Taken(handler[h].slug)
  /\ \E i \in Id : /\ i \notin UsedIds
                   /\ handler'[h].at = "answer" => handler'[h].album = i
                   /\ rows' = [rows EXCEPT ![i] = [key |-> handler[h].key, slug |-> handler[h].slug,
                                                of |-> handler[h].of, photos |-> {}]]
ServerStep(h) ==
  /\ HandlersOK' /\ handler[h].key # None
  /\ \A g \in Handler \ {h} : handler'[g] = handler[g]
  /\ handler'[h].for = handler[h].for
  /\ Continues(h) \/ Answers(h) \/ Makes(h)
  /\ ServerOnly /\ troubles' \in Nat

LEMMA ServerSteps ==
  ASSUME TypeInv, NEW h \in Handler, Serve(h) \/ HandlerFails(h)
  PROVE  ServerStep(h)
<1> USE DEF TypeInv
<1>t. Trouble \/ NoTrouble => troubles' \in Nat
  BY DEF Trouble, NoTrouble
<1>0. /\ handler[h].at \in {"look", "insert", "violated", "reread"} => handler[h].key # None
      /\ \A i \in WithKey(handler[h].key) : i \in Id
  BY DEF HandlersOK, WithKey, Live
<1>1. CASE LookUp(h)
  BY <1>t, <1>0, <1>1, Answering, Working DEF LookUp, ServerStep, Continues, Answers
<1>2. CASE Insert(h)
  <2>1. CASE WithKey(handler[h].key) # {} \/ Taken(handler[h].slug)
    BY <1>t, <1>0, <1>2, <2>1, Working DEF Insert, ServerStep, Continues
  <2>2. CASE ~(WithKey(handler[h].key) # {} \/ Taken(handler[h].slug))
    BY <1>t, <1>0, <1>2, <2>2, Answering DEF Insert, ServerStep, Makes, New
  <2> QED
    BY <2>1, <2>2
<1>3. CASE Violated(h)
  <2>1. CASE WithKey(handler[h].key) # {}
    BY <1>t, <1>0, <1>3, <2>1, Working DEF Violated, ServerStep, Continues
  <2>2. CASE WithKey(handler[h].key) = {} /\ handler[h].tries < SlugRetries
    <3>1. troubles' \in Nat
      BY <1>t, <1>3, <2>2 DEF Violated, Suffix
    <3>2. Suffix(h) /\ rows' = rows /\ ServerOnly /\ handler[h].key # None
      BY <1>t, <1>0, <1>3, <2>2 DEF Violated
    <3> QED
      BY <2>2, <3>1, <3>2, Suffixing DEF ServerStep, Continues
  <2>3. CASE WithKey(handler[h].key) = {} /\ ~(handler[h].tries < SlugRetries)
    BY <1>t, <1>0, <1>3, <2>3, Answering DEF Violated, ServerStep, Answers
  <2> QED
    BY <2>1, <2>2, <2>3
<1>4. CASE Reread(h)
  BY <1>t, <1>0, <1>4, Answering DEF Reread, ServerStep, Answers
<1>5. CASE HandlerFails(h)
  BY <1>t, <1>0, <1>5, Answering DEF HandlerFails, ServerStep, Answers
<1> QED
  BY <1>1, <1>2, <1>3, <1>4, <1>5 DEF Serve

-----------------------------------------------------------------------------
(* The types, step by step. *)

LEMMA ServerType ==
  ASSUME TypeInv, NEW h \in Handler, ServerStep(h)
  PROVE  TypeInv'
<1> USE DEF TypeInv, ServerStep
<1>1. RowsOK'
  <2>1. CASE rows' = rows
    BY <2>1 DEF RowsOK, Live, Albums, ServerOnly, photos
  <2>2. CASE Makes(h)
    <3> PICK i \in Id : rows' = [rows EXCEPT ![i] = [key |-> handler[h].key, slug |-> handler[h].slug,
                                                     of |-> handler[h].of, photos |-> {}]]
      BY <2>2 DEF Makes
    <3>1. handler[h].key \in Key /\ handler[h].slug \in Slug /\ handler[h].of \in Collection
      BY DEF HandlersOK, Requests
    <3>2. rows' \in [Id -> Albums' \cup {None}]
      BY <3>1 DEF RowsOK, Albums, ServerOnly, photos
    <3>3. \A j \in Live : rows[j].key # handler[h].key /\ rows[j].slug # handler[h].slug
      BY <2>2 DEF Makes, WithKey, Taken
    <3> QED
      BY <3>2, <3>3 DEF RowsOK, Live
  <2> QED
    BY <2>1, <2>2 DEF Continues, Answers
<1>2. Waiting'
  BY DEF Waiting, ServerOnly, plugin
<1>3. TasksOK' /\ CatalogOK' /\ PhotosOK' /\ Shared'
  BY DEF TasksOK, Fits, CatalogOK, PhotosOK, Shared, ServerOnly, plugin, catalog, photos, Runs
<1> QED
  BY <1>1, <1>2, <1>3

LEMMA OutsideType ==
  ASSUME TypeInv, (\E i \in Id : Delete(i)) \/ Restart \/ Quit \/ \E p \in DOMAIN photo : Modify(p)
  PROVE  TypeInv'
<1> USE DEF TypeInv
<1>t. Trouble \/ NoTrouble => troubles' \in Nat
  BY DEF Trouble, NoTrouble
<1>1. ASSUME NEW i \in Id, Delete(i) PROVE TypeInv'
  <2>1. RowsOK'
    BY <1>1 DEF Delete, RowsOK, Live, Albums, photos
  <2>2. HandlersOK' /\ TasksOK' /\ Waiting' /\ CatalogOK' /\ PhotosOK' /\ Shared'
    BY <1>1 DEF Delete, HandlersOK, TasksOK, Fits, Waiting, CatalogOK, PhotosOK, Shared, plugin, catalog, photos, Runs
  <2> QED
    BY <1>t, <1>1, <2>1, <2>2 DEF Delete
<1>2. CASE Restart
  <2>1. HandlersOK'
    BY <1>2, NotNone DEF Restart, HandlersOK, NoRequest, Requests
  <2>2. TasksOK'
    <3>1. \A t \in Task : task'[t] = IF task[t].at = "wait" THEN [task[t] EXCEPT !.at = "failed"] ELSE task[t]
      BY <1>2 DEF Restart
    <3>2. task' \in [Task -> Runs]
      BY <1>2, <3>1 DEF Restart, TasksOK, Fits, Runs, Stages
    <3>3. ASSUME NEW t \in Task
          PROVE  /\ task'[t].at = IF task[t].at = "wait" THEN "failed" ELSE task[t].at
                 /\ task'[t].key = task[t].key /\ task'[t].album = task[t].album
                 /\ task'[t].todo = task[t].todo
                 /\ task'[t].done = task[t].done /\ task'[t].landed = task[t].landed
      <4>1. task[t] \in Runs
        BY DEF TasksOK, Fits
      <4> QED
        BY <3>1, <4>1 DEF Runs
    <3>4. Runs' = Runs /\ of' = of
      BY <1>2 DEF Restart, Runs, photos
    <3> QED
      BY <3>2, <3>3, <3>4 DEF TasksOK, Fits
  <2>3. Waiting'
    BY <1>2 DEF Restart, Waiting, TasksOK, Fits, Runs, NoRequest
  <2>4. RowsOK' /\ CatalogOK' /\ PhotosOK' /\ Shared'
    BY <1>2 DEF Restart, RowsOK, Live, Albums, CatalogOK, PhotosOK, Shared, catalog, photos
  <2> QED
    BY <1>t, <1>2, <2>1, <2>2, <2>3, <2>4 DEF Restart
<1>3. CASE Quit
  <2>1. HandlersOK'
    <3>1. \A h \in Handler : handler'[h] = Unawaited(handler[h])
      BY <1>3 DEF Quit
    <3>2. \A r \in Requests : Unawaited(r) \in Requests
      BY NotNone DEF Unawaited, NoRequest, Requests
    <3>3. handler' \in [Handler -> Requests]
      BY <1>3, <3>2 DEF Quit, HandlersOK
    <3> QED
      BY <3>1, <3>3 DEF HandlersOK, Unawaited, NoRequest, Requests
  <2>2. TasksOK'
    BY <1>3, NotNone DEF Quit, TasksOK, Fits, Resting, Runs, Stages
  <2>3. Waiting'
    BY <1>3 DEF Quit, Waiting, HandlersOK, Requests, Unawaited, NoRequest, Resting
  <2>4. RowsOK' /\ CatalogOK' /\ PhotosOK' /\ Shared'
    BY <1>3 DEF Quit, RowsOK, Live, Albums, CatalogOK, PhotosOK, Shared, catalog, photos, Clean
  <2> QED
    BY <1>t, <1>3, <2>1, <2>2, <2>3, <2>4 DEF Quit
<1>4. ASSUME NEW p \in DOMAIN photo, Modify(p) PROVE TypeInv'
  <2>1. DOMAIN photo' = DOMAIN photo
    BY <1>4 DEF Modify
  <2>2. RowsOK' /\ TasksOK' /\ PhotosOK'
    BY <1>4, <2>1 DEF Modify, RowsOK, Live, Albums, TasksOK, Fits, Runs, PhotosOK, server, plugin
  <2>3. HandlersOK' /\ Waiting' /\ CatalogOK' /\ Shared'
    BY <1>4, <2>1 DEF Modify, HandlersOK, Waiting, CatalogOK, Shared, server, plugin, catalog
  <2> QED
    BY <1>t, <1>4, <2>2, <2>3 DEF Modify
<1> QED
  BY <1>1, <1>2, <1>3, <1>4

\* What a step of a task is to the other tasks and to the server's requests.
TaskStep(t) ==
  /\ task' \in [Task -> Runs]
  /\ \A u \in Task \ {t} : task'[u] = task[u]
  /\ UNCHANGED <<of, sets>> /\ troubles' \in Nat /\ DOMAIN photo' = DOMAIN photo

LEMMA UsingKey ==
  ASSUME TypeInv, NEW t \in Task, of[t] # None, NEW run \in Runs, UseKey(t, run)
  PROVE  /\ task' \in [Task -> Runs]
         /\ \A u \in Task \ {t} : task'[u] = task[u]
         /\ task'[t].at \in {"mint", "send"} /\ task'[t].key \in Key
         /\ task'[t].recreated = run.recreated
         /\ task'[t].todo = run.todo /\ task'[t].done = run.done /\ task'[t].landed = run.landed
         /\ task'[t].at = "send" => task'[t].key = createKey[of[t]]
         /\ task'[t].at = "mint" => createKey[of[t]] = None /\ task'[t].key \notin UsedKeys
<1> USE DEF TypeInv, CatalogOK, TasksOK, Fits, Shared
<1>1. CASE createKey[of[t]] # None
  <2>1. task' = [task EXCEPT ![t] = [run EXCEPT !.at = "send", !.key = createKey[of[t]]]]
    BY <1>1 DEF UseKey
  <2>0. createKey[of[t]] \in Key
    BY <1>1
  <2>2. [run EXCEPT !.at = "send", !.key = createKey[of[t]]] \in Runs
    BY <2>0 DEF Runs, Stages
  <2>3. /\ task'[t] = [run EXCEPT !.at = "send", !.key = createKey[of[t]]]
        /\ task' \in [Task -> Runs] /\ \A u \in Task \ {t} : task'[u] = task[u]
    BY <2>1, <2>2
  <2> QED
    BY <1>1, <2>0, <2>3 DEF Runs
<1>2. CASE createKey[of[t]] = None
  <2>1. PICK k \in Key : /\ task' = [task EXCEPT ![t] = [run EXCEPT !.at = "mint", !.key = k]]
                         /\ k \notin UsedKeys
    BY <1>2 DEF UseKey, New
  <2>2. [run EXCEPT !.at = "mint", !.key = k] \in Runs
    BY DEF Runs, Stages
  <2> QED
    BY <1>2, <2>1, <2>2 DEF Runs
<1> QED
  BY <1>1, <1>2

LEMMA Recreation ==
  ASSUME TypeInv, NEW t \in Task
  PROVE  /\ Recreating(t) \in Runs /\ Recreating(t).recreated
         /\ Recreating(t).todo = task[t].todo /\ Recreating(t).done = task[t].done
         /\ Recreating(t).landed = task[t].landed
BY DEF TypeInv, TasksOK, Fits, Recreating, Runs

LEMMA Going ==
  ASSUME TypeInv, NEW t \in Task, NEW at \in Stages, Goto(t, at)
  PROVE  /\ task' \in [Task -> Runs]
         /\ \A u \in Task \ {t} : task'[u] = task[u]
         /\ task'[t].at = at /\ task'[t].key = task[t].key /\ task'[t].album = task[t].album
         /\ task'[t].recreated = task[t].recreated /\ task'[t].todo = task[t].todo
         /\ task'[t].done = task[t].done /\ task'[t].landed = task[t].landed
BY DEF TypeInv, TasksOK, Fits, Goto, Runs

LEMMA Finishing ==
  ASSUME TypeInv, NEW t \in Task, Finish(t)
  PROVE  /\ task' \in [Task -> Runs]
         /\ \A u \in Task \ {t} : task'[u] = task[u]
         /\ task'[t] = Resting
BY NotNone DEF TypeInv, TasksOK, Fits, Finish, Runs, Resting, Stages

LEMMA Leaving ==
  ASSUME TypeInv, NEW t \in Task, NEW at \in Stages, Leave(t, at)
  PROVE  /\ task' \in [Task -> Runs]
         /\ \A u \in Task \ {t} : task'[u] = task[u]
         /\ task'[t].at = at /\ task'[t].key = task[t].key
         /\ task'[t].recreated = task[t].recreated /\ task'[t].todo = task[t].todo
         /\ task'[t].done = task[t].done /\ task'[t].landed = task[t].landed
<1>1. task \in [Task -> Runs] /\ task[t] \in Runs
  BY DEF TypeInv, TasksOK
<1>2. [task[t] EXCEPT !.at = at, !.album = None] \in Runs
  BY <1>1 DEF Runs
<1>3. task' = [task EXCEPT ![t] = [task[t] EXCEPT !.at = at, !.album = None]]
  BY <1>1 DEF Leave, Runs
<1> QED
  BY <1>1, <1>2, <1>3 DEF Runs

\* A step of one task that is not waiting for an answer.
LEMMA OneTask ==
  ASSUME TypeInv, NEW t \in Task, UNCHANGED <<handler, of, sets>>, DOMAIN photo' = DOMAIN photo,
         task' \in [Task -> Runs], \A u \in Task \ {t} : task'[u] = task[u], Fits(t)',
         task[t].at # "wait", task'[t].at # "wait",
         RowsOK', CatalogOK', PhotosOK', Trouble \/ NoTrouble
  PROVE  TypeInv'
<1>1. TasksOK'
  <2>1. Runs' = Runs
    BY DEF Runs
  <2>2. \A u \in Task \ {t} : Fits(u)'
    BY DEF TypeInv, TasksOK, Fits
  <2> QED
    BY <2>1, <2>2 DEF TasksOK
<1>2. HandlersOK' /\ Shared'
  BY DEF TypeInv, HandlersOK, Shared
<1>w. Waiting'
  <2>1. \A h \in Handler : handler[h].for \in Task \cup {None}
    BY DEF TypeInv, HandlersOK, Requests
  <2> QED
    BY <2>1 DEF TypeInv, Waiting
<1>3. troubles' \in Nat
  BY DEF TypeInv, Trouble, NoTrouble
<1> QED
  BY <1>1, <1>2, <1>3, <1>w DEF TypeInv

LEMMA Unmoved ==
  ASSUME TypeInv
  PROVE  /\ UNCHANGED <<rows, photo>> => RowsOK'
         /\ UNCHANGED catalog => CatalogOK'
         /\ UNCHANGED photos => PhotosOK' /\ UNCHANGED photo
BY DEF TypeInv, RowsOK, Live, Albums, CatalogOK, PhotosOK, catalog, photos

LEMMA RestingFits ==
  Resting \in Runs /\ Resting.key \notin Key /\ Resting.at = "idle"
  /\ Resting.done = {} /\ Resting.landed = {} /\ Resting.todo = {} /\ ~Resting.recreated
BY NotNone DEF Resting, Runs, Stages

LEMMA TaskType ==
  ASSUME TypeInv, NEW t \in Task,
         Start(t) \/ Mint(t) \/ Retry(t) \/ Record(t) \/ Clear(t) \/ Mark(t) \/ Update(t)
           \/ Recreate(t) \/ Upload(t) \/ EndRun(t)
  PROVE  TypeInv'
<1>0. Fits(t) /\ task[t] \in Runs
  BY DEF TypeInv, TasksOK
<1>1. CASE Start(t)
  <2> DEFINE run == [Resting EXCEPT !.todo = {p \in DOMAIN photo : photo[p] # "clean"}]
  <2>1. run \in Runs /\ run.done = {} /\ run.landed = {} /\ run.key = None
    BY RestingFits DEF Resting, Runs, Stages
  <2>2. CASE remoteId[of[t]] = None
    <3>1. UseKey(t, run) /\ of[t] # None
      BY <1>1, <2>2 DEF Start
    <3> HIDE DEF run
    <3>2. Fits(t)' /\ task'[t].at # "wait" /\ task' \in [Task -> Runs] /\ \A u \in Task \ {t} : task'[u] = task[u]
      BY <1>1, <2>1, <3>1, UsingKey DEF Fits, Start, InPlugin
    <3> QED
      BY <1>1, <3>2, OneTask, Unmoved DEF Start, InPlugin, server
  <2>3. CASE remoteId[of[t]] # None
    <3> DEFINE next == [run EXCEPT !.at = "update", !.album = remoteId[of[t]]]
    <3>1. task' = [task EXCEPT ![t] = next] /\ of[t] # None /\ remoteId[of[t]] \in Id
      BY <1>1, <2>3 DEF Start, TypeInv, CatalogOK, Shared
    <3> HIDE DEF run
    <3>2. next \in Runs /\ next.album \in Id
      BY <2>1, <3>1 DEF Runs, Stages
    <3>3. task' \in [Task -> Runs] /\ (\A u \in Task \ {t} : task'[u] = task[u]) /\ task'[t] = next
      BY <3>1, <3>2 DEF TypeInv, TasksOK
    <3>4. Fits(t)' /\ task'[t].at # "wait"
      BY <1>1, <2>1, <3>1, <3>2, <3>3, NotNone DEF Fits, Start, InPlugin, Runs
    <3> QED
      BY <1>1, <3>3, <3>4, OneTask, Unmoved DEF Start, InPlugin, server
  <2> QED
    BY <2>2, <2>3
<1>2. CASE Mint(t)
  <2>1. Goto(t, "send") /\ task[t].key \in Key
    BY <1>0, <1>2 DEF Mint, Fits
  <2>2. Fits(t)'
    BY <1>0, <1>2, <2>1, Going DEF Mint, InPlugin, Fits, Stages
  <2>3. CatalogOK'
    BY <1>2, <2>1 DEF Mint, CatalogOK, TypeInv
  <2> QED
    BY <1>2, <2>1, <2>2, <2>3, Going, OneTask, Unmoved DEF Mint, InPlugin, server, Stages
<1>3. CASE Retry(t)
  <2>1. CASE Goto(t, "send")
    BY <1>0, <1>3, <2>1, Going, OneTask, Unmoved DEF Retry, InPlugin, server, Stages, Fits
  <2>2. CASE Finish(t)
    BY <1>0, <1>3, <2>2, Finishing, RestingFits, OneTask, Unmoved DEF Retry, InPlugin, server, Fits
  <2> QED
    BY <1>3, <2>1, <2>2 DEF Retry
<1>4. CASE Record(t)
  <2>1. CatalogOK' /\ (Trouble \/ NoTrouble)
    BY <1>0, <1>4 DEF Record, CatalogOK, TypeInv, Fits
  <2>2. CASE Finish(t)
    BY <1>4, <2>1, <2>2, Finishing, RestingFits, OneTask, Unmoved DEF Record, InPlugin, server, Fits
  <2>3. CASE Leave(t, "clear")
    BY <1>0, <1>4, <2>1, <2>3, Leaving, OneTask, Unmoved DEF Record, InPlugin, server, Fits, Stages
  <2> QED
    BY <1>4, <2>2, <2>3 DEF Record
<1>5. CASE Clear(t)
  <2>1. CatalogOK' /\ (Trouble \/ NoTrouble)
    BY <1>5 DEF Clear, Cleared, CatalogOK, TypeInv
  <2>2. CASE Finish(t)
    BY <1>5, <2>1, <2>2, Finishing, RestingFits, OneTask, Unmoved DEF Clear, InPlugin, server, Fits
  <2>3. CASE Goto(t, "mark") \/ Goto(t, "upload")
    BY <1>0, <1>5, <2>1, <2>3, Going, OneTask, Unmoved DEF Clear, InPlugin, server, Fits, Stages
  <2> QED
    BY <1>5, <2>2, <2>3 DEF Clear
<1>6. CASE Mark(t)
  <2>1. PhotosOK' /\ DOMAIN photo' = DOMAIN photo /\ (Trouble \/ NoTrouble)
    BY <1>6 DEF Mark, PhotosOK, TypeInv, Clean
  <2>2. RowsOK' /\ CatalogOK'
    BY <1>6, <2>1 DEF Mark, TypeInv, RowsOK, Live, Albums, CatalogOK, server, catalog
  <2> QED
    BY <1>0, <1>6, <2>1, <2>2, Going, OneTask DEF Mark, server, Fits, Stages
<1>7. CASE Update(t)
  <2>1. CASE Finish(t)
    BY <1>7, <2>1, Finishing, RestingFits, OneTask, Unmoved DEF Update, InPlugin, server, Fits
  <2>2. CASE Leave(t, "gone") \/ Leave(t, "upload")
    BY <1>0, <1>7, <2>2, Leaving, OneTask, Unmoved DEF Update, InPlugin, server, Fits, Stages
  <2> QED
    BY <1>7, <2>1, <2>2 DEF Update
<1>10. CASE Recreate(t)
  BY <1>0, <1>10, UsingKey, Recreation, OneTask, Unmoved DEF Recreate, InPlugin, server, Fits
<1>8. CASE Upload(t)
  <2>1. PICK p \in task[t].todo :
          \/ /\ remoteId[of[t]] \in Live
             /\ rows' = [rows EXCEPT ![remoteId[of[t]]].photos = @ \cup {p}]
             /\ task' = [task EXCEPT ![t].todo = @ \ {p}, ![t].done = @ \cup {p},
                                     ![t].landed = IF task[t].recreated THEN @ ELSE @ \cup {p}]
             /\ NoTrouble
          \/ Goto(t, "gone") /\ NoTrouble /\ UNCHANGED rows
          \/ task' = [task EXCEPT ![t].todo = @ \ {p}] /\ (Trouble \/ NoTrouble) /\ UNCHANGED rows
    BY <1>8 DEF Upload
  <2>2. p \in DOMAIN photo /\ task[t].at = "upload" /\ UNCHANGED <<handler, of, sets, catalog, photos>>
    BY <1>0, <1>8 DEF Upload, Runs
  <2>3. CASE Goto(t, "gone") /\ NoTrouble /\ UNCHANGED rows
    BY <1>0, <2>2, <2>3, Going, OneTask, Unmoved DEF Fits, Stages
  <2>4. CASE task' = [task EXCEPT ![t].todo = @ \ {p}] /\ (Trouble \/ NoTrouble) /\ UNCHANGED rows
    <3>1. /\ task' \in [Task -> Runs] /\ \A u \in Task \ {t} : task'[u] = task[u]
          /\ task'[t].at = "upload" /\ task'[t].key = task[t].key /\ task'[t].todo \subseteq task[t].todo
          /\ task'[t].done = task[t].done /\ task'[t].landed = task[t].landed
      BY <1>0, <2>2, <2>4 DEF TypeInv, TasksOK, Runs
    <3> QED
      BY <1>0, <2>2, <2>4, <3>1, OneTask, Unmoved DEF Fits
  <2>5. CASE /\ remoteId[of[t]] \in Live
             /\ rows' = [rows EXCEPT ![remoteId[of[t]]].photos = @ \cup {p}]
             /\ task' = [task EXCEPT ![t].todo = @ \ {p}, ![t].done = @ \cup {p},
                                     ![t].landed = IF task[t].recreated THEN @ ELSE @ \cup {p}]
             /\ NoTrouble
    <3>1. /\ task' \in [Task -> Runs] /\ \A u \in Task \ {t} : task'[u] = task[u]
          /\ task'[t].at = "upload" /\ task'[t].key = task[t].key /\ task'[t].todo = task[t].todo \ {p}
          /\ task'[t].done = task[t].done \cup {p}
          /\ task'[t].landed = IF task[t].recreated THEN task[t].landed ELSE task[t].landed \cup {p}
      BY <1>0, <2>2, <2>5 DEF TypeInv, TasksOK, Runs
    <3>2. RowsOK'
      BY <2>2, <2>5 DEF TypeInv, RowsOK, Live, Albums, photos
    <3> QED
      BY <1>0, <2>2, <2>5, <3>1, <3>2, OneTask, Unmoved DEF Fits
  <2> QED
    BY <2>1, <2>3, <2>4, <2>5
<1>9. CASE EndRun(t)
  <2>1. PhotosOK' /\ DOMAIN photo' = DOMAIN photo /\ (Trouble \/ NoTrouble)
    BY <1>0, <1>9 DEF EndRun, PhotosOK, TypeInv, Fits, Runs
  <2>2. RowsOK' /\ CatalogOK'
    BY <1>9, <2>1 DEF EndRun, TypeInv, RowsOK, Live, Albums, CatalogOK, server, catalog
  <2> QED
    BY <1>9, <2>1, <2>2, Finishing, RestingFits, OneTask DEF EndRun, server, Fits
<1> QED
  BY <1>1, <1>2, <1>3, <1>4, <1>5, <1>6, <1>7, <1>8, <1>9, <1>10

\* The server and its requests: a request begins, its answer arrives, or nobody waits
\* for it any more.
LEMMA RequestType ==
  ASSUME TypeInv, NEW t \in Task, Send(t) \/ Receive(t) \/ Lose(t)
  PROVE  TypeInv'
<1>0. Fits(t) /\ task[t] \in Runs
  BY DEF TypeInv, TasksOK
<1>t. troubles' \in Nat /\ UNCHANGED <<rows, catalog, of, sets, photos, apart>>
  <2>1. Trouble \/ NoTrouble
    BY DEF Send, Receive, Lose
  <2>2. UNCHANGED <<rows, catalog, of, sets, photos, apart>>
    BY DEF Send, Receive, Lose
  <2> QED
    BY <2>1, <2>2 DEF TypeInv, Trouble, NoTrouble
<1>w. \A h \in Handler : handler[h].for \in Task \cup {None}
  BY DEF TypeInv, HandlersOK, Requests
<1>u. RowsOK' /\ CatalogOK' /\ PhotosOK' /\ Shared' /\ Runs' = Runs
  BY <1>t, Unmoved DEF photos, Shared, TypeInv, Runs
<1>1. CASE Send(t)
  <2> DEFINE g == CHOOSE h \in Free : TRUE
             new == [NoRequest EXCEPT !.at = "look", !.key = task[t].key, !.of = of[t], !.for = t]
  <2>1. g \in Handler /\ handler[g].at = "none"
    BY <1>1 DEF Send, Free
  <2>2. task[t].at = "send" /\ task[t].key \in Key /\ of[t] \in Collection
    BY <1>0, <1>1 DEF Send, Fits, TypeInv, Shared
  <2>3. new \in Requests /\ new.for = t /\ new.at = "look" /\ new.key = task[t].key /\ new.of = of[t]
    <3>1. NoRequest \in Requests
      BY NotNone DEF NoRequest, Requests
    <3> QED
      BY <2>2, <3>1, NotNone DEF Requests
  <2>4. handler' = [handler EXCEPT ![g] = new] /\ Goto(t, "wait")
    BY <1>1 DEF Send
  <2> HIDE DEF g, new
  <2>5. HandlersOK'
    BY <2>1, <2>2, <2>3, <2>4, NotNone DEF HandlersOK, TypeInv
  <2>6. TasksOK'
    BY <1>0, <1>t, <1>u, <2>2, <2>4, Going DEF TasksOK, Fits, TypeInv, Stages
  <2>7. Waiting'
    <3>1. \A h \in Handler : handler[h].for # t
      BY <2>2, NotNone DEF TypeInv, Waiting
    <3>2. \A u \in Task \ {t} : task'[u] = task[u]
      BY <2>4, Going DEF Stages
    <3>3. task'[t].at = "wait"
      BY <2>4, Going DEF Stages
    <3>4. handler'[g] = new /\ \A h \in Handler \ {g} : handler'[h] = handler[h]
      BY <2>1, <2>4 DEF TypeInv, HandlersOK
    <3>5. handler[g].for = None
      BY <2>1 DEF TypeInv, HandlersOK
    <3> QED
      BY <1>w, <2>1, <2>3, <3>1, <3>2, <3>3, <3>4, <3>5, NotNone DEF TypeInv, Waiting
  <2> QED
    BY <1>t, <1>u, <2>5, <2>6, <2>7 DEF TypeInv
<1>2. CASE Receive(t)
  <2>1. PICK h \in Handler :
          /\ handler[h].at = "answer" /\ handler[h].for = t
          /\ handler' = [handler EXCEPT ![h] = NoRequest]
          /\ task' = IF handler[h].album = None THEN [task EXCEPT ![t].at = "failed"]
                     ELSE [task EXCEPT ![t].at = "record", ![t].album = handler[h].album, ![t].key = None]
    BY <1>2 DEF Receive
  <2>2. NoRequest \in Requests /\ NoRequest.for = None /\ NoRequest.key = None /\ NoRequest.at = "none"
    BY NotNone DEF NoRequest, Requests
  <2>3. HandlersOK'
    BY <2>1, <2>2 DEF HandlersOK, TypeInv
  <2>4. /\ task' \in [Task -> Runs] /\ \A u \in Task \ {t} : task'[u] = task[u]
        /\ task'[t].at \in {"failed", "record"} /\ Fits(t)'
    <3>1. CASE handler[h].album = None
      <4>1. Goto(t, "failed")
        BY <2>1, <3>1 DEF Goto
      <4> QED
        BY <1>0, <1>2, <1>t, <4>1, Going DEF Fits, Stages, Receive
    <3>2. CASE handler[h].album # None
      <4>1. handler[h].album \in Id
        BY <3>2 DEF TypeInv, HandlersOK, Requests
      <4>2. /\ task' \in [Task -> Runs] /\ \A u \in Task \ {t} : task'[u] = task[u]
            /\ task'[t].at = "record" /\ task'[t].key = None /\ task'[t].album = handler[h].album
            /\ task'[t].todo = task[t].todo /\ task'[t].done = task[t].done /\ task'[t].landed = task[t].landed
        BY <1>0, <2>1, <3>2, <4>1 DEF TypeInv, TasksOK, Runs, Stages
      <4> QED
        BY <1>0, <1>2, <1>t, <4>1, <4>2, NotNone DEF Fits, Receive
    <3> QED
      BY <3>1, <3>2
  <2>5. TasksOK'
    BY <1>t, <1>u, <2>4 DEF TasksOK, Fits, TypeInv
  <2>6. Waiting'
    <3>1. handler'[h] = NoRequest /\ \A g \in Handler \ {h} : handler'[g] = handler[g]
      BY <2>1 DEF TypeInv, HandlersOK
    <3>2. task[t].at = "wait"
      BY <1>2 DEF Receive
    <3> QED
      BY <1>w, <2>1, <2>2, <2>4, <3>1, <3>2 DEF TypeInv, Waiting
  <2> QED
    BY <1>t, <1>u, <2>3, <2>5, <2>6 DEF TypeInv
<1>3. CASE Lose(t)
  <2>1. /\ task[t].at = "wait" /\ Goto(t, "failed")
        /\ handler' = [h \in Handler |-> IF handler[h].for = t THEN Unawaited(handler[h]) ELSE handler[h]]
    BY <1>3 DEF Lose
  <2>2. \A r \in Requests : Unawaited(r) \in Requests /\ Unawaited(r).for = None
                            /\ (Unawaited(r) = NoRequest \/ (Unawaited(r).at = r.at /\ Unawaited(r).key = r.key
                                                             /\ Unawaited(r).of = r.of))
    BY NotNone DEF Unawaited, NoRequest, Requests
  <2>3. HandlersOK'
    BY <2>1, <2>2 DEF HandlersOK, TypeInv, NoRequest
  <2>4. TasksOK'
    BY <1>0, <1>t, <1>u, <2>1, Going DEF TasksOK, Fits, TypeInv, Stages
  <2>5. Waiting'
    <3>1. /\ \A u \in Task \ {t} : task'[u] = task[u]
          /\ task'[t].at = "failed"
      BY <2>1, Going DEF Stages
    <3>2. ASSUME NEW h \in Handler
          PROVE  handler'[h].for = IF handler[h].for = t THEN None ELSE handler[h].for
      BY <2>1, <2>2 DEF TypeInv, HandlersOK
    <3> QED
      BY <1>w, <2>1, <3>1, <3>2 DEF TypeInv, Waiting
  <2> QED
    BY <1>t, <1>u, <2>3, <2>4, <2>5 DEF TypeInv
<1> QED
  BY <1>1, <1>2, <1>3

LEMMA TypeStep == TypeInv /\ [Next]_vars => TypeInv'
<1> SUFFICES ASSUME TypeInv, [Next]_vars PROVE TypeInv'
  OBVIOUS
<1>1. CASE UNCHANGED vars
  BY <1>1 DEF TypeInv, RowsOK, Live, Albums, HandlersOK, TasksOK, Runs, Fits, Waiting, CatalogOK, PhotosOK, Shared,
              vars, server, plugin, catalog, photos
<1>2. CASE \E h \in Handler : Serve(h) \/ HandlerFails(h)
  BY <1>2, ServerSteps, ServerType
<1>3. CASE \E t \in Task : Proceed(t) \/ Lose(t)
  BY <1>3, TaskType, RequestType DEF Proceed
<1>4. CASE (\E i \in Id : Delete(i)) \/ (\E p \in DOMAIN photo : Modify(p)) \/ Restart \/ Quit
  BY <1>4, OutsideType
<1> QED
  BY <1>1, <1>2, <1>3, <1>4 DEF Next

\* The rows, the requests and the plugin's tasks fit each other for any instance.
THEOREM TypeCorrect == Spec => []TypeOK
BY InitType, TypeStep, TypeInvOK, PTL DEF Spec

-----------------------------------------------------------------------------
(* The id that the only task of a collection works with is the recorded one. *)

Repairs ==
  \A t \in Task : ~sets /\ of[t] # None =>
    /\ task[t].at = "update" => task[t].album = remoteId[of[t]]
    /\ task[t].at = "gone" => remoteId[of[t]] \notin Live

LEMMA OwnRepair ==
  ASSUME TypeInv, Repairs, NEW t \in Task, Proceed(t) \/ Lose(t), ~sets, of[t] # None
  PROVE  /\ task'[t].at = "update" => task'[t].album = remoteId'[of[t]]
         /\ task'[t].at = "gone" => remoteId'[of[t]] \notin Live'
<1>0. task[t] \in Runs /\ task \in [Task -> Runs] /\ of[t] \in Collection
  BY DEF TypeInv, TasksOK, Shared
<1>1. CASE Start(t)
  <2> DEFINE run == [Resting EXCEPT !.todo = {p \in DOMAIN photo : photo[p] # "clean"}]
  <2>1. run \in Runs /\ remoteId' = remoteId
    BY <1>1, RestingFits DEF Start, Resting, Runs, Stages, catalog
  <2>2. CASE remoteId[of[t]] = None
    <3>1. UseKey(t, run)
      BY <1>1, <2>2 DEF Start
    <3> HIDE DEF run
    <3> QED
      BY <2>1, <3>1, UsingKey
  <2>3. CASE remoteId[of[t]] # None
    <3>1. task'[t] = [run EXCEPT !.at = "update", !.album = remoteId[of[t]]]
      BY <1>0, <1>1, <2>3 DEF Start
    <3> HIDE DEF run
    <3> QED
      BY <2>1, <3>1 DEF Runs
  <2> QED
    BY <2>2, <2>3
<1>2. CASE Update(t)
  <2>1. CASE Finish(t) \/ Leave(t, "upload")
    BY <2>1, Finishing, Leaving, RestingFits DEF Stages
  <2>2. CASE task[t].album \notin Live /\ Leave(t, "gone")
    <3>1. task'[t].at = "gone" /\ rows' = rows /\ remoteId' = remoteId /\ task[t].at = "update"
      BY <1>2, <2>2, Leaving DEF Update, InPlugin, server, catalog, Stages
    <3> QED
      BY <2>2, <3>1 DEF Repairs, Live
  <2> QED
    BY <1>2, <2>1, <2>2 DEF Update
<1>3. CASE Upload(t)
  <2>1. task[t].at = "upload" /\ remoteId' = remoteId
    BY <1>3 DEF Upload, catalog
  <2>2. CASE Goto(t, "gone") /\ remoteId[of[t]] \notin Live /\ rows' = rows
    BY <2>1, <2>2, Going DEF Live, Stages
  <2>3. CASE \E p \in task[t].todo :
               \/ task' = [task EXCEPT ![t].todo = @ \ {p}]
               \/ task' = [task EXCEPT ![t].todo = @ \ {p}, ![t].done = @ \cup {p},
                                       ![t].landed = IF task[t].recreated THEN @ ELSE @ \cup {p}]
    BY <1>0, <2>1, <2>3 DEF Runs
  <2> QED
    BY <1>3, <2>2, <2>3 DEF Upload
<1>4. CASE Recreate(t)
  <2>1. UseKey(t, Recreating(t))
    BY <1>4 DEF Recreate
  <2> QED
    BY <2>1, UsingKey, Recreation
<1>5. CASE Mint(t) \/ Send(t) \/ Lose(t) \/ Retry(t) \/ Clear(t) \/ Mark(t) \/ EndRun(t)
  <2>1. Finish(t) \/ \E at \in {"send", "wait", "failed", "mark", "upload"} : Goto(t, at)
    BY <1>5 DEF Mint, Send, Lose, Retry, Clear, Mark, EndRun
  <2> QED
    BY <2>1, Finishing, Going, RestingFits DEF Stages
<1>6. CASE Receive(t)
  BY <1>0, <1>6 DEF Receive, Runs
<1>7. CASE Record(t)
  <2>1. Finish(t) \/ Leave(t, "clear")
    BY <1>7 DEF Record
  <2> QED
    BY <2>1, Finishing, Leaving, RestingFits DEF Stages
<1> QED
  BY <1>1, <1>2, <1>3, <1>4, <1>5, <1>6, <1>7 DEF Proceed

\* What the others do makes no album of an id that is recorded, and records none for
\* another's collection.
LEMMA OthersRepair ==
  ASSUME TypeInv, NEW t \in Task, Proceed(t) \/ Lose(t)
  PROVE  /\ \A u \in Task \ {t} : task'[u] = task[u]
         /\ of[t] \in Collection /\ \A c \in Collection \ {of[t]} : remoteId'[c] = remoteId[c]
         /\ Live' \subseteq Live /\ UNCHANGED <<of, sets>>
<1>0. of[t] \in Collection /\ task[t] \in Runs
  BY DEF TypeInv, TasksOK, Fits, Shared, Proceed, Start, Mint, Send, Receive, Retry, Record, Clear, Mark, Update,
         Recreate, Upload, EndRun, Lose
<1>1. \A u \in Task \ {t} : task'[u] = task[u]
  BY DEF TypeInv, TasksOK, Proceed, Start, UseKey, Mint, Send, Receive, Retry, Record, Clear, Mark, Update,
         Recreate, Upload, EndRun, Lose, Goto, Finish, Leave
<1>2. \A c \in Collection \ {of[t]} : remoteId'[c] = remoteId[c]
  BY DEF TypeInv, CatalogOK, Proceed, Start, Mint, Send, Receive, Retry, Record, Clear, Mark, Update,
         Recreate, Upload, EndRun, Lose, catalog
<1>3. Live' \subseteq Live
  <2>1. CASE rows' = rows
    BY <2>1 DEF Live
  <2>2. CASE rows' # rows
    <3>1. PICK p \in task[t].todo : /\ remoteId[of[t]] \in Live
                                    /\ rows' = [rows EXCEPT ![remoteId[of[t]]].photos = @ \cup {p}]
      BY <2>2 DEF Proceed, Start, Mint, Send, Receive, Retry, Record, Clear, Mark, Update, Recreate, Upload,
                  EndRun, Lose, InPlugin, server
    <3> QED
      BY <3>1 DEF Live, TypeInv, RowsOK
  <2> QED
    BY <2>1, <2>2
<1>4. UNCHANGED <<of, sets>>
  BY DEF Proceed, Start, Mint, Send, Receive, Retry, Record, Clear, Mark, Update, Recreate, Upload, EndRun, Lose,
         InPlugin
<1> QED
  BY <1>0, <1>1, <1>2, <1>3, <1>4

LEMMA RepairStep == TypeInv /\ Repairs /\ [Next]_vars => Repairs'
<1> SUFFICES ASSUME TypeInv, Repairs, [Next]_vars PROVE Repairs'
  OBVIOUS
<1>1. CASE UNCHANGED vars
  BY <1>1 DEF Repairs, Live, vars, server, plugin, catalog
<1>2. CASE \E h \in Handler : Serve(h) \/ HandlerFails(h)
  <2>1. PICK h \in Handler : ServerStep(h)
    BY <1>2, ServerSteps
  <2>2. UNCHANGED <<task, remoteId, of, sets>>
    BY <2>1 DEF ServerStep, ServerOnly, plugin, catalog
  <2>3. \A c \in Collection : remoteId[c] \in Live' => remoteId[c] \in Live
    <3>1. CASE rows' = rows
      BY <2>2, <3>1 DEF Live
    <3>2. CASE Makes(h)
      BY <2>2, <3>2 DEF Makes, Live, UsedIds, TypeInv, RowsOK
    <3> QED
      BY <2>1, <3>1, <3>2 DEF ServerStep, Continues, Answers
  <2>4. \A t \in Task : of[t] # None => of[t] \in Collection
    BY DEF TypeInv, Shared
  <2> QED
    BY <2>2, <2>3, <2>4 DEF Repairs
<1>3. ASSUME NEW t \in Task, Proceed(t) \/ Lose(t) PROVE Repairs'
  <2>1. /\ \A u \in Task \ {t} : task'[u] = task[u]
        /\ of[t] \in Collection /\ \A c \in Collection \ {of[t]} : remoteId'[c] = remoteId[c]
        /\ Live' \subseteq Live /\ of' = of /\ sets' = sets
    BY <1>3, OthersRepair
  <2> SUFFICES ASSUME NEW u \in Task, ~sets, of[u] # None
               PROVE  /\ task'[u].at = "update" => task'[u].album = remoteId'[of[u]]
                      /\ task'[u].at = "gone" => remoteId'[of[u]] \notin Live'
    BY <2>1 DEF Repairs
  <2>2. CASE u = t
    BY <1>3, <2>2, OwnRepair
  <2>3. CASE u # t
    <3>1. of[u] \in Collection \ {of[t]}
      BY <2>3 DEF TypeInv, Shared
    <3> QED
      BY <2>1, <2>3, <3>1 DEF Repairs
  <2> QED
    BY <2>2, <2>3
<1>4. CASE (\E i \in Id : Delete(i)) \/ \E p \in DOMAIN photo : Modify(p)
  <2>1. UNCHANGED <<task, remoteId, of, sets>> /\ Live' \subseteq Live
    BY <1>4 DEF Delete, Modify, plugin, catalog, server, Live, TypeInv, RowsOK
  <2> QED
    BY <2>1 DEF Repairs
<1>5. CASE Restart \/ Quit
  <2>1. /\ UNCHANGED <<remoteId, of, sets>> /\ Live' = Live
        /\ \A t \in Task : task'[t] = task[t] \/ task'[t].at \in {"failed", "idle"}
    BY <1>5, RestingFits DEF Restart, Quit, catalog, Live, TypeInv, TasksOK, Runs
  <2> QED
    BY <2>1 DEF Repairs
<1> QED
  BY <1>1, <1>2, <1>3, <1>4, <1>5 DEF Next

-----------------------------------------------------------------------------
(***************************************************************************)
(* One album per collection, and none forgotten.  Neither is inductive:    *)
(* both rest on which keys may still make an album, in requests nobody     *)
(* waits for, in tasks that will try again, in the catalog, and on what an *)
(* answer on its way says.  Unless a collection has come to two keys at    *)
(* once, all of these are the same one.                                    *)
(***************************************************************************)

Has(c) == {i \in Live : rows[i].of = c}
Asked(k, c) == \E h \in Handler : handler[h].key = k /\ handler[h].of = c
Tried(k, c) == \E t \in Task : of[t] = c /\ task[t].key = k /\ task[t].at # "mint"
Minted(k, c) == \E t \in Task : of[t] = c /\ task[t].key = k /\ task[t].at = "mint"

\* The keys that may still make an album for the collection, and with those that
\* have made one or are stored in the catalog, all that are in use for it.
Pending(k, c) == Asked(k, c) \/ Tried(k, c)
KeyOf(k, c) == createKey[c] = k \/ Pending(k, c) \/ \E i \in Has(c) : rows[i].key = k

\* No key is used for two collections, and an answer goes to a task of its collection.
Owned ==
  /\ \A k \in Key, c, d \in Collection :
       (KeyOf(k, c) \/ Minted(k, c)) /\ (KeyOf(k, d) \/ Minted(k, d)) => c = d
  /\ \A h \in Handler : handler[h].key # None /\ handler[h].for # None => of[handler[h].for] = handler[h].of
  /\ \A t \in Task : task[t].at = "clear" => remoteId[of[t]] # None

\* The album that an answer on its way to the task, or the task itself, names.
Got(t) == {i \in Id : \/ task[t].at = "record" /\ task[t].album = i
                      \/ task[t].at = "clear" /\ remoteId[of[t]] = i
                      \/ \E h \in Handler : /\ handler[h].at = "answer" /\ handler[h].for = t
                                            /\ handler[h].album = i}

OneKey(c) == \A k, l \in Key : KeyOf(k, c) /\ KeyOf(l, c) => k = l
Expected(c) == \A k \in Key : Pending(k, c) => createKey[c] # None \/ Has(c) # {}
Recorded(c) == \A i \in Has(c) : remoteId[c] = i \/ createKey[c] # None

\* What a task has got is the album, and while another may be made it is there.
Answered(t, c) ==
  \A i \in Got(t) : /\ Has(c) \subseteq {i}
                    /\ sets \/ (\E k \in Key : Asked(k, c)) => Has(c) # {}

\* The only task of a collection makes a key only when there is none, and tries
\* with the one in the catalog.
Alone(t, c) ==
  /\ ~sets /\ task[t].at = "mint" => \A k \in Key : ~KeyOf(k, c)
  /\ ~sets /\ task[t].key \in Key /\ task[t].at # "mint" => createKey[c] = task[t].key

Coherent(c) ==
  /\ OneKey(c) /\ Expected(c) /\ Recorded(c)
  /\ \A t \in Task : of[t] = c => Answered(t, c) /\ Alone(t, c)

AlbumInv == TypeInv /\ Repairs /\ Owned /\ \A c \in Collection \ apart : Coherent(c)

LEMMA AlbumInvOK == AlbumInv => OneAlbum /\ NothingForgotten
<1> SUFFICES ASSUME AlbumInv PROVE OneAlbum /\ NothingForgotten
  OBVIOUS
<1>1. ASSUME NEW c \in Collection \ apart, NEW i \in Has(c)
      PROVE  rows[i].key \in Key /\ Has(c) = {i} /\ (remoteId[c] = i \/ createKey[c] = rows[i].key)
  <2>1. \A j \in Has(c) : rows[j].key \in Key /\ KeyOf(rows[j].key, c)
    BY DEF AlbumInv, TypeInv, RowsOK, Albums, Live, Has, KeyOf
  <2>2. \A j \in Has(c) : rows[j].key = rows[i].key
    BY <2>1 DEF AlbumInv, Coherent, OneKey
  <2>3. \A j \in Has(c) : j = i
    BY <2>2 DEF Has, AlbumInv, TypeInv, RowsOK
  <2>4. createKey[c] # None => createKey[c] = rows[i].key
    BY <2>1 DEF AlbumInv, TypeInv, CatalogOK, Coherent, OneKey, KeyOf
  <2> QED
    BY <2>1, <2>3, <2>4 DEF AlbumInv, Coherent, Recorded
<1>2. OneAlbum
  <2> SUFFICES ASSUME NEW c \in Collection \ apart PROVE Cardinality(Has(c)) <= 1
    BY DEF OneAlbum, Has
  <2>1. CASE Has(c) = {}
    BY <2>1, FS_EmptySet
  <2>2. ASSUME NEW i \in Has(c) PROVE Cardinality(Has(c)) <= 1
    <3>1. Has(c) = {i}
      BY <1>1
    <3>2. Cardinality({i}) = 1
      BY FS_Singleton
    <3> QED
      BY <3>1, <3>2
  <2> QED
    BY <2>1, <2>2
<1>3. NothingForgotten
  BY <1>1 DEF NothingForgotten, Has, AlbumInv, TypeInv, RowsOK, Albums, Live
<1> QED
  BY <1>2, <1>3

LEMMA InitAlbum == Init => AlbumInv
<1> SUFFICES ASSUME Init PROVE AlbumInv
  OBVIOUS
<1>1. \A c \in Collection : Has(c) = {} /\ \A k \in Key : ~KeyOf(k, c) /\ ~Minted(k, c) /\ ~Asked(k, c)
  BY NotNone DEF Init, Has, Live, KeyOf, Pending, Asked, Tried, Minted, NoRequest, Resting
<1>2. \A t \in Task : Got(t) = {} /\ task[t].at = "idle" /\ task[t].key \notin Key
  BY NotNone DEF Init, Got, NoRequest, Resting
<1>3. Owned
  BY <1>1, <1>2 DEF Owned, Init, NoRequest
<1>4. ASSUME NEW c \in Collection PROVE Coherent(c)
  BY <1>1, <1>2 DEF Coherent, OneKey, Expected, Recorded, Answered, Alone, KeyOf
<1>5. Repairs
  BY <1>2 DEF Repairs
<1> QED
  BY InitType, <1>3, <1>4, <1>5 DEF AlbumInv

\* A step that makes nothing new for a collection leaves it coherent.
LEMMA Keeps ==
  ASSUME NEW c \in Collection, Coherent(c),
         Has(c)' = Has(c), \A i \in Has(c) : rows'[i].key = rows[i].key,
         createKey'[c] = createKey[c], remoteId'[c] = remoteId[c], UNCHANGED <<of, sets>>,
         \A k \in Key : Asked(k, c)' => Asked(k, c),
         \A k \in Key : Pending(k, c)' => Pending(k, c),
         \A t \in Task : of[t] = c =>
           /\ Got(t)' \subseteq Got(t)
           /\ task'[t].at = "mint" => task[t].at = "mint"
           /\ task'[t].key \in Key /\ task'[t].at # "mint" =>
                task'[t].key = createKey[c] \/ (task[t].key = task'[t].key /\ task[t].at # "mint")
  PROVE  Coherent(c)'
<1>1. \A k \in Key : KeyOf(k, c)' => KeyOf(k, c)
  BY DEF KeyOf
<1>2. OneKey(c)' /\ Expected(c)' /\ Recorded(c)'
  BY <1>1 DEF Coherent, OneKey, Expected, Recorded
<1>3. ASSUME NEW t \in Task, of[t] = c PROVE Answered(t, c)' /\ Alone(t, c)'
  <2>1. Answered(t, c)'
    BY <1>3 DEF Coherent, Answered
  <2>2. Alone(t, c)'
    BY <1>1, <1>3 DEF Coherent, Alone
  <2> QED
    BY <2>1, <2>2
<1> QED
  BY <1>2, <1>3 DEF Coherent

\* No key comes to a collection that did not have it.
LEMMA KeepsOwned ==
  ASSUME Owned, UNCHANGED of,
         \A k \in Key, c \in Collection : KeyOf(k, c)' \/ Minted(k, c)' => KeyOf(k, c) \/ Minted(k, c),
         \A h \in Handler : handler'[h].key # None /\ handler'[h].for # None =>
           \/ handler[h].key # None /\ handler'[h].of = handler[h].of /\ handler'[h].for = handler[h].for
           \/ of[handler'[h].for] = handler'[h].of,
         \A t \in Task : task'[t].at = "clear" =>
           remoteId'[of[t]] # None \/ (task[t].at = "clear" /\ UNCHANGED remoteId)
  PROVE  Owned'
<1>1. (\A k \in Key, c, d \in Collection :
         (KeyOf(k, c) \/ Minted(k, c)) /\ (KeyOf(k, d) \/ Minted(k, d)) => c = d)'
  BY DEF Owned
<1>2. (\A h \in Handler : handler[h].key # None /\ handler[h].for # None => of[handler[h].for] = handler[h].of)'
  BY DEF Owned
<1>3. (\A t \in Task : task[t].at = "clear" => remoteId[of[t]] # None)'
  BY DEF Owned
<1> QED
  BY <1>1, <1>2, <1>3 DEF Owned

LEMMA KeyIn ==
  ASSUME TypeInv, NEW h \in Handler, handler[h].key # None
  PROVE  handler[h].key \in Key /\ handler[h].of \in Collection /\ handler[h].slug \in Slug
BY DEF TypeInv, HandlersOK, Requests

\* A request that goes on, or is answered with the album of its key.
LEMMA ServerOwned ==
  ASSUME AlbumInv, NEW h \in Handler, ServerStep(h)
  PROVE  Owned'
<1> USE DEF ServerStep
<1>1. handler[h].key \in Key /\ handler[h].of \in Collection
  BY KeyIn DEF AlbumInv
<1>2. \A k \in Key, c \in Collection : Asked(k, c)' => Asked(k, c)
  BY NotNone DEF Asked, Continues, Answers, Makes
<1>3. UNCHANGED <<createKey, remoteId, task, of, sets, apart>>
  BY DEF ServerOnly, plugin, catalog
<1>4. \A k \in Key, c \in Collection : (Tried(k, c)' <=> Tried(k, c)) /\ (Minted(k, c)' <=> Minted(k, c))
  BY <1>3 DEF Tried, Minted
<1>5. ASSUME NEW c \in Collection, NEW i \in Has(c)'
      PROVE  (i \in Has(c) /\ rows'[i].key = rows[i].key) \/ (rows'[i].key = handler[h].key /\ c = handler[h].of)
  <2>1. CASE rows' = rows
    BY <2>1, <1>5 DEF Has, Live
  <2>2. CASE Makes(h)
    BY <2>2, <1>5 DEF Makes, Has, Live, AlbumInv, TypeInv, RowsOK
  <2> QED
    BY <2>1, <2>2 DEF Continues, Answers
<1>6. \A k \in Key, c \in Collection : KeyOf(k, c)' => KeyOf(k, c)
  <2> SUFFICES ASSUME NEW k \in Key, NEW c \in Collection, KeyOf(k, c)' PROVE KeyOf(k, c)
    OBVIOUS
  <2>1. CASE \E i \in Has(c)' : rows'[i].key = k
    BY <1>5, <2>1 DEF KeyOf, Pending, Asked
  <2> QED
    BY <1>2, <1>3, <1>4, <2>1 DEF KeyOf, Pending
<1>7. \A g \in Handler : handler'[g].key # None => handler'[g].of = handler[g].of /\ handler[g].key # None
  BY DEF Continues, Answers, Makes
<1>8. \A g \in Handler : handler'[g].for = handler[g].for
  OBVIOUS
<1> QED
  BY <1>3, <1>4, <1>6, <1>7, <1>8, KeepsOwned DEF AlbumInv

LEMMA ServerCoherent ==
  ASSUME AlbumInv, NEW h \in Handler, ServerStep(h), NEW c \in Collection \ apart
  PROVE  Coherent(c)'
<1> USE DEF ServerStep
<1> DEFINE k == handler[h].key
           d == handler[h].of
<1>1. k \in Key /\ d \in Collection /\ Asked(k, d)
  BY KeyIn DEF AlbumInv, Asked
<1>2. \A l \in Key : Asked(l, c)' => Asked(l, c)
  BY NotNone DEF Asked, Continues, Answers, Makes
<1>3. UNCHANGED <<createKey, remoteId, task, of, sets, apart>>
  BY DEF ServerOnly, plugin, catalog
<1>4. \A l \in Key : (Tried(l, c)' <=> Tried(l, c)) /\ (Pending(l, c)' => Pending(l, c))
  BY <1>2, <1>3 DEF Tried, Pending
<1>5. Coherent(c)
  BY DEF AlbumInv
<1>6. \A t \in Task, i \in Id : i \in Got(t)' =>
        \/ i \in Got(t)
        \/ handler[h].for = t /\ handler'[h].at = "answer" /\ handler'[h].album = i
  BY <1>3 DEF Got
<1>7. \A t \in Task : handler[h].for = t => of[t] = d
  BY <1>1, NotNone DEF AlbumInv, Owned
<1> HIDE DEF k, d
<1>8. ASSUME Continues(h) \/ Answers(h)
      PROVE  Coherent(c)'
  <2>0. rows' = rows
    BY <1>8 DEF Continues, Answers
  <2>1. Has(c)' = Has(c) /\ \A i \in Has(c) : rows'[i].key = rows[i].key
    BY <2>0 DEF Has, Live
  <2>2. CASE \A t \in Task : of[t] = c => Got(t)' \subseteq Got(t)
    BY <1>2, <1>3, <1>4, <1>5, <2>1, <2>2, Keeps
  <2>3. ASSUME NEW t \in Task, of[t] = c, NEW i \in Got(t)', i \notin Got(t)
        PROVE  Has(c) = {i}
    <3>1. i \in Id /\ handler[h].for = t /\ handler'[h].at = "answer" /\ handler'[h].album = i
      BY <1>6, <2>3 DEF Got
    <3>2. c = d
      BY <1>7, <2>3, <3>1
    <3>3. i \in WithKey(k)
      BY <1>8, <3>1, NotNone DEF Continues, Answers, k
    <3>4. i \in Live /\ rows[i].key = k /\ rows[i].of \in Collection
      BY <3>3 DEF WithKey, AlbumInv, TypeInv, RowsOK, Albums, Live
    <3>5. rows[i].of = c
      <4>1. KeyOf(k, rows[i].of) /\ KeyOf(k, d)
        BY <1>1, <3>4 DEF KeyOf, Has, Pending
      <4> QED
        BY <1>1, <3>2, <3>4, <4>1 DEF AlbumInv, Owned
    <3>6. \A j \in Has(c) : rows[j].key \in Key /\ KeyOf(rows[j].key, c)
      BY DEF AlbumInv, TypeInv, RowsOK, Albums, Live, Has, KeyOf
    <3>7. \A j \in Has(c) : rows[j].key = k
      BY <1>1, <1>5, <3>2, <3>6 DEF Coherent, OneKey, KeyOf, Pending
    <3>8. \A j \in Has(c) : j = i
      BY <3>4, <3>7 DEF Has, AlbumInv, TypeInv, RowsOK
    <3> QED
      BY <3>4, <3>5, <3>8 DEF Has
  <2>4. \A l \in Key : KeyOf(l, c)' => KeyOf(l, c)
    BY <1>3, <1>4, <2>1 DEF KeyOf
  <2>5. OneKey(c)' /\ Expected(c)' /\ Recorded(c)'
    BY <1>3, <1>4, <1>5, <2>1, <2>4 DEF Coherent, OneKey, Expected, Recorded
  <2>6. ASSUME NEW t \in Task, of[t] = c PROVE Answered(t, c)' /\ Alone(t, c)'
    <3>1. \A i \in Got(t)' : i \in Got(t) \/ Has(c) = {i}
      BY <2>3, <2>6
    <3>2. Answered(t, c)'
      BY <1>2, <1>3, <1>5, <2>1, <2>6, <3>1 DEF Coherent, Answered
    <3>3. Alone(t, c)'
      BY <1>3, <1>5, <2>4, <2>6 DEF Coherent, Alone
    <3> QED
      BY <3>2, <3>3
  <2> QED
    BY <1>3, <2>5, <2>6 DEF Coherent
<1>9. ASSUME Makes(h)
      PROVE  Coherent(c)'
  <2> PICK i \in Id : /\ i \notin UsedIds
                      /\ handler'[h].at = "answer" => handler'[h].album = i
                      /\ rows' = [rows EXCEPT ![i] = [key |-> handler[h].key, slug |-> handler[h].slug,
                                                      of |-> handler[h].of, photos |-> {}]]
    BY <1>9 DEF Makes
  <2>1. i \notin Live
    BY DEF UsedIds
  <2>2. rows'[i] # None /\ rows'[i].key = k /\ rows'[i].of = d
    BY NotNone, KeyIn DEF AlbumInv, TypeInv, RowsOK, k, d
  <2>3. \A j \in Id \ {i} : rows'[j] = rows[j]
    BY DEF AlbumInv, TypeInv, RowsOK
  <2>4. Live' = Live \cup {i}
    BY <2>2, <2>3 DEF Live
  <2>5. CASE c # d
    <3>1. Has(c)' = Has(c) /\ \A j \in Has(c) : rows'[j].key = rows[j].key
      BY <2>1, <2>2, <2>3, <2>4, <2>5 DEF Has, Live
    <3>2. \A t \in Task : of[t] = c => Got(t)' \subseteq Got(t)
      BY <1>6, <1>7, <2>5 DEF Got
    <3> QED
      BY <1>2, <1>3, <1>4, <1>5, <3>1, <3>2, Keeps
  <2>6. CASE c = d
    <3>1. KeyOf(k, c) /\ Pending(k, c) /\ Asked(k, c)
      BY <1>1, <2>6 DEF KeyOf, Pending
    <3>2. Has(c) = {}
      <4>1. \A j \in Has(c) : rows[j].key \in Key /\ KeyOf(rows[j].key, c)
        BY DEF AlbumInv, TypeInv, RowsOK, Albums, Live, Has, KeyOf
      <4>2. \A j \in Has(c) : rows[j].key = k
        BY <1>1, <1>5, <3>1, <4>1 DEF Coherent, OneKey
      <4> QED
        BY <1>9, <4>2 DEF Makes, WithKey, Has, k
    <3>3. Has(c)' = {i}
      BY <2>1, <2>2, <2>3, <2>4, <2>6, <3>2 DEF Has, Live
    <3>4. createKey[c] # None
      BY <1>1, <1>5, <3>1, <3>2 DEF Coherent, Expected
    <3>5. \A l \in Key : KeyOf(l, c)' => KeyOf(l, c)
      BY <1>3, <1>4, <2>2, <3>1, <3>3 DEF KeyOf
    <3>6. OneKey(c)' /\ Expected(c)' /\ Recorded(c)'
      BY <1>3, <1>5, <3>4, <3>5 DEF Coherent, OneKey, Expected, Recorded
    <3>7. ASSUME NEW t \in Task, of[t] = c PROVE Answered(t, c)' /\ Alone(t, c)'
      <4>1. Got(t) = {}
        <5>1. Answered(t, c)
          BY <1>5, <3>7 DEF Coherent
        <5> QED
          BY <1>1, <3>1, <3>2, <5>1 DEF Answered, Got
      <4>2. Got(t)' \subseteq {i}
        BY <1>6, <4>1 DEF Got
      <4>3. Answered(t, c)'
        BY <3>3, <4>2 DEF Answered
      <4>4. Alone(t, c)'
        BY <1>3, <1>5, <3>5, <3>7 DEF Coherent, Alone
      <4> QED
        BY <4>3, <4>4
    <3> QED
      BY <1>3, <3>6, <3>7 DEF Coherent
  <2> QED
    BY <2>5, <2>6
<1> QED
  BY <1>8, <1>9

\* A task whose answer is on its way, or that has it, is not idle.
LEMMA GotBusy ==
  ASSUME TypeInv, NEW t \in Task, Got(t) # {}
  PROVE  task[t].at \in {"wait", "record", "clear"}
<1>1. PICK i \in Id : i \in Got(t)
  BY DEF Got
<1>2. ASSUME NEW h \in Handler, handler[h].for = t PROVE task[t].at = "wait"
  BY <1>2, NotNone DEF TypeInv, Waiting
<1> QED
  BY <1>1, <1>2 DEF Got

LEMMA DeleteKeeps ==
  ASSUME AlbumInv, NEW i \in Id, Delete(i)
  PROVE  Owned' /\ \A c \in Collection \ apart' : Coherent(c)'
<1> USE DEF AlbumInv
<1>1. /\ i \in Live /\ rows' = [rows EXCEPT ![i] = None]
      /\ apart' = IF Astray(i) THEN apart \cup {rows[i].of} ELSE apart
      /\ UNCHANGED <<handler, createKey, remoteId, task, of, sets>>
  BY DEF Delete, plugin, catalog
<1>2. Live' = Live \ {i} /\ \A j \in Live' : rows'[j] = rows[j]
  BY <1>1 DEF Live, TypeInv, RowsOK
<1>3. \A c \in Collection : Has(c)' = Has(c) \ {i}
  BY <1>2 DEF Has
<1>4. \A k \in Key, c \in Collection :
        /\ Asked(k, c)' = Asked(k, c) /\ Tried(k, c)' = Tried(k, c) /\ Minted(k, c)' = Minted(k, c)
        /\ Pending(k, c)' = Pending(k, c)
  BY <1>1 DEF Asked, Tried, Minted, Pending
<1>5. \A k \in Key, c \in Collection : KeyOf(k, c)' => KeyOf(k, c)
  BY <1>1, <1>2, <1>3, <1>4 DEF KeyOf, Has
<1>6. Owned'
  BY <1>1, <1>4, <1>5, KeepsOwned
<1>7. \A t \in Task : Got(t)' = Got(t)
  BY <1>1 DEF Got
<1>8. ASSUME NEW c \in Collection \ apart' PROVE Coherent(c)'
  <2>1. Coherent(c)
    BY <1>1, <1>8
  <2>2. CASE c # rows[i].of
    <3>1. Has(c)' = Has(c) /\ \A j \in Has(c) : rows'[j].key = rows[j].key
      BY <1>2, <1>3, <2>2 DEF Has
    <3> QED
      BY <1>1, <1>4, <1>7, <2>1, <3>1, Keeps
  <2>3. CASE c = rows[i].of
    <3>1. ~Astray(i) /\ i \in Has(c)
      BY <1>1, <1>8, <2>3 DEF Has
    <3>2. rows[i].key \in Key /\ KeyOf(rows[i].key, c)
      BY <3>1 DEF TypeInv, RowsOK, Albums, Live, Has, KeyOf
    <3>3. \A k \in Key : ~Asked(k, c)
      <4> SUFFICES ASSUME NEW k \in Key, Asked(k, c) PROVE FALSE
        OBVIOUS
      <4>1. k = rows[i].key
        BY <2>1, <3>2 DEF Coherent, OneKey, KeyOf, Pending
      <4> QED
        BY <3>1, <4>1 DEF Asked, Astray
    <3>4. sets => \A t \in Task : of[t] = c => task[t].at = "idle"
      BY <2>3, <3>1 DEF Astray
    <3>5. \A k \in Key : Tried(k, c) => createKey[c] # None
      <4> SUFFICES ASSUME NEW k \in Key, NEW t \in Task, of[t] = c, task[t].key = k, task[t].at # "mint"
                   PROVE  createKey[c] # None
        BY DEF Tried
      <4>1. task[t].at # "idle"
        BY DEF TypeInv, TasksOK, Fits
      <4>2. ~sets
        BY <3>4, <4>1
      <4> QED
        BY <2>1, <4>2, NotNone DEF Coherent, Alone
    <3>6. OneKey(c)' /\ Expected(c)' /\ Recorded(c)'
      BY <1>1, <1>3, <1>4, <1>5, <2>1, <3>3, <3>5 DEF Coherent, OneKey, Expected, Recorded, Pending
    <3>7. ASSUME NEW t \in Task, of[t] = c PROVE Answered(t, c)' /\ Alone(t, c)'
      <4>1. Answered(t, c) /\ Alone(t, c)
        BY <2>1, <3>7 DEF Coherent
      <4>2. sets => Got(t) = {}
        BY <3>4, <3>7, GotBusy
      <4>3. Answered(t, c)'
        BY <1>1, <1>3, <1>4, <1>7, <3>3, <4>1, <4>2 DEF Answered
      <4>4. Alone(t, c)'
        BY <1>1, <1>5, <4>1 DEF Alone
      <4> QED
        BY <4>3, <4>4
    <3> QED
      BY <1>1, <3>6, <3>7 DEF Coherent
  <2> QED
    BY <2>2, <2>3
<1> QED
  BY <1>6, <1>8

\* Who stops, forgets what it was doing, and makes nothing new.
LEMMA StopKeeps ==
  ASSUME AlbumInv, Restart \/ Quit \/ \E p \in DOMAIN photo : Modify(p)
  PROVE  Owned' /\ \A c \in Collection \ apart' : Coherent(c)'
<1> USE DEF AlbumInv
<1>1. UNCHANGED <<rows, createKey, remoteId, of, sets, apart>>
  BY DEF Restart, Quit, Modify, server, plugin, catalog
<1>2. \A c \in Collection : Has(c)' = Has(c) /\ \A i \in Has(c) : rows'[i].key = rows[i].key
  BY <1>1 DEF Has, Live
<1>3. ASSUME NEW h \in Handler
      PROVE  /\ handler'[h].key # None => handler'[h].key = handler[h].key /\ handler'[h].of = handler[h].of
             /\ handler'[h].for # None => handler'[h].for = handler[h].for
             /\ handler'[h].at = "answer" /\ handler'[h].for # None => handler'[h] = handler[h]
  <2>1. CASE Restart
    BY <2>1 DEF Restart, NoRequest
  <2>2. CASE Quit
    <3>1. handler'[h] = Unawaited(handler[h]) /\ handler[h] \in Requests
      BY <2>2 DEF Quit, TypeInv, HandlersOK
    <3> QED
      BY <3>1 DEF Unawaited, NoRequest, Requests
  <2>3. CASE \E p \in DOMAIN photo : Modify(p)
    BY <2>3 DEF Modify, server
  <2> QED
    BY <2>1, <2>2, <2>3
<1>4. ASSUME NEW t \in Task
      PROVE  /\ task'[t].at \in {"record", "clear", "mint"} => task'[t] = task[t]
             /\ task'[t].key \in Key => task'[t].key = task[t].key /\ (task'[t].at = "mint" <=> task[t].at = "mint")
  <2>1. CASE Restart
    <3>1. task[t] \in Runs /\ task'[t] = IF task[t].at = "wait" THEN [task[t] EXCEPT !.at = "failed"] ELSE task[t]
      BY <2>1 DEF Restart, TypeInv, TasksOK
    <3> QED
      BY <3>1 DEF Runs
  <2>2. CASE Quit
    BY <2>2, RestingFits DEF Quit
  <2>3. CASE \E p \in DOMAIN photo : Modify(p)
    BY <2>3 DEF Modify, plugin
  <2> QED
    BY <2>1, <2>2, <2>3
<1>5. \A k \in Key, c \in Collection :
        /\ Asked(k, c)' => Asked(k, c)
        /\ Tried(k, c)' => Tried(k, c)
        /\ Minted(k, c)' => Minted(k, c)
  BY <1>1, <1>3, <1>4, NotNone DEF Asked, Tried, Minted
<1>6. \A k \in Key, c \in Collection : (Pending(k, c)' => Pending(k, c)) /\ (KeyOf(k, c)' => KeyOf(k, c))
  BY <1>1, <1>2, <1>5 DEF Pending, KeyOf
<1>7. \A t \in Task : Got(t)' \subseteq Got(t)
  BY <1>1, <1>3, <1>4, NotNone DEF Got
<1>8. Owned'
  BY <1>1, <1>3, <1>4, <1>5, <1>6, KeepsOwned
<1>9. ASSUME NEW c \in Collection \ apart' PROVE Coherent(c)'
  BY <1>1, <1>2, <1>4, <1>5, <1>6, <1>7, <1>9, Keeps
<1> QED
  BY <1>8, <1>9

\* What one task does leaves other collections coherent.
SameRows == \A c \in Collection : Has(c)' = Has(c) /\ \A i \in Has(c) : rows'[i].key = rows[i].key

LEMMA Elsewhere ==
  ASSUME AlbumInv, NEW t \in Task, UNCHANGED <<of, sets>>, SameRows,
         \A u \in Task \ {t} : task'[u] = task[u],
         \A h \in Handler, u \in Task \ {t} :
           handler'[h].at = "answer" /\ handler'[h].for = u => handler'[h] = handler[h],
         NEW d \in Collection \ apart, d # of[t],
         createKey'[d] = createKey[d], remoteId'[d] = remoteId[d],
         \A k \in Key : Asked(k, d)' => Asked(k, d)
  PROVE  Coherent(d)'
<1>1. Coherent(d)
  BY DEF AlbumInv
<1>2. \A k \in Key : Tried(k, d)' => Tried(k, d)
  BY DEF Tried
<1>3. \A k \in Key : Pending(k, d)' => Pending(k, d)
  BY <1>2 DEF Pending
<1>4. \A u \in Task : of[u] = d => Got(u)' \subseteq Got(u) /\ task'[u] = task[u]
  BY DEF Got
<1> QED
  BY <1>1, <1>3, <1>4, Keeps DEF SameRows

\* A step that makes no key, tries none but the catalog's, and gets nothing.
LEMMA QuietKeeps ==
  ASSUME AlbumInv, NEW t \in Task, UNCHANGED <<handler, createKey, remoteId, of, sets, apart>>, SameRows,
         \A u \in Task \ {t} : task'[u] = task[u], of[t] # None,
         task'[t].at \notin {"mint", "record", "clear"}, task[t].at # "wait", task'[t].at # "wait",
         task'[t].key \in Key =>
           task'[t].key = createKey[of[t]] \/ (task[t].key = task'[t].key /\ task[t].at # "mint")
  PROVE  Owned' /\ \A c \in Collection \ apart' : Coherent(c)'
<1>0. of[t] \in Collection
  BY DEF AlbumInv, TypeInv, Shared
<1>1. \A k \in Key, c \in Collection : (Asked(k, c)' <=> Asked(k, c)) /\ (Minted(k, c)' => Minted(k, c))
  BY DEF Asked, Minted
<1>2. \A k \in Key, c \in Collection : Tried(k, c)' => Tried(k, c) \/ createKey[c] = k
  BY DEF Tried
<1>3. \A k \in Key, c \in Collection : KeyOf(k, c)' => KeyOf(k, c)
  BY <1>1, <1>2 DEF KeyOf, Pending, SameRows
<1>4. Owned'
  BY <1>1, <1>3, KeepsOwned DEF AlbumInv
<1>5. \A h \in Handler : handler[h].for # t
  BY NotNone DEF AlbumInv, TypeInv, Waiting
<1>6. Got(t)' = {} /\ \A u \in Task \ {t} : Got(u)' = Got(u)
  BY <1>5 DEF Got
<1>7. ASSUME NEW c \in Collection \ apart' PROVE Coherent(c)'
  <2>1. Coherent(c)
    BY <1>7 DEF AlbumInv
  <2>2. OneKey(c)' /\ Expected(c)' /\ Recorded(c)'
    BY <1>1, <1>2, <1>3, <2>1, NotNone DEF Coherent, OneKey, Expected, Recorded, Pending, SameRows
  <2>3. ASSUME NEW u \in Task, of[u] = c PROVE Answered(u, c)' /\ Alone(u, c)'
    <3>1. Answered(u, c) /\ Alone(u, c) /\ Got(u)' \subseteq Got(u)
      BY <1>6, <2>1, <2>3 DEF Coherent
    <3>2. Answered(u, c)'
      BY <1>1, <3>1 DEF Answered, SameRows
    <3>3. Alone(u, c)'
      BY <1>3, <2>3, <3>1 DEF Alone
    <3> QED
      BY <3>2, <3>3
  <2> QED
    BY <2>2, <2>3 DEF Coherent
<1> QED
  BY <1>4, <1>7

\* A key is minted only when the catalog holds none and no album is recorded that
\* is there.
LEMMA NoKeyYet ==
  ASSUME AlbumInv, NEW c \in Collection \ apart, createKey[c] = None, remoteId[c] \notin Live
  PROVE  Has(c) = {} /\ \A k \in Key : ~KeyOf(k, c)
<1>1. Has(c) = {}
  BY DEF AlbumInv, Coherent, Recorded, Has
<1> QED
  BY <1>1, NotNone DEF AlbumInv, Coherent, Expected, KeyOf

LEMMA UseKeyKeeps ==
  ASSUME AlbumInv, NEW t \in Task, NEW run \in Runs, UseKey(t, run), of[t] # None,
         task[t].at \in {"idle", "gone"}, sets \/ remoteId[of[t]] \notin Live,
         UNCHANGED <<handler, rows, createKey, remoteId, of, sets, apart>>
  PROVE  Owned' /\ \A c \in Collection \ apart' : Coherent(c)'
<1>0. of[t] \in Collection /\ TypeInv
  BY DEF AlbumInv, TypeInv, Shared
<1>s. SameRows
  BY DEF SameRows, Has, Live
<1>1. CASE task'[t].at = "send"
  BY <1>0, <1>1, <1>s, UsingKey, QuietKeeps
<1>2. CASE task'[t].at = "mint"
  <2> DEFINE k == task'[t].key
             c == of[t]
  <2>1. k \in Key /\ createKey[c] = None /\ k \notin UsedKeys /\ \A u \in Task \ {t} : task'[u] = task[u]
    BY <1>0, <1>2, UsingKey
  <2>2. \A d \in Collection : ~KeyOf(k, d) /\ ~Minted(k, d)
    BY <2>1 DEF UsedKeys, KeyOf, Pending, Asked, Tried, Minted, Has
  <2>3. \A l \in Key, d \in Collection :
          /\ Asked(l, d)' = Asked(l, d) /\ (Tried(l, d)' => Tried(l, d))
          /\ Minted(l, d)' => Minted(l, d) \/ (l = k /\ d = c)
    BY <1>2, <2>1 DEF Asked, Tried, Minted
  <2>4. \A l \in Key, d \in Collection : KeyOf(l, d)' => KeyOf(l, d)
    BY <1>s, <2>3 DEF KeyOf, Pending, SameRows
  <2>5. Owned'
    <3>1. ASSUME NEW l \in Key, NEW d \in Collection, NEW e \in Collection,
                 KeyOf(l, d)' \/ Minted(l, d)', KeyOf(l, e)' \/ Minted(l, e)'
          PROVE  d = e
      <4>1. CASE l = k
        BY <2>2, <2>3, <2>4, <3>1, <4>1
      <4>2. CASE l # k
        BY <2>3, <2>4, <3>1, <4>2 DEF AlbumInv, Owned
      <4> QED
        BY <4>1, <4>2
    <3>2. \A u \in Task : task'[u].at = "clear" => remoteId'[of[u]] # None
      BY <1>2, <2>1 DEF AlbumInv, Owned
    <3> QED
      BY <3>1, <3>2 DEF AlbumInv, Owned
  <2>6. \A d \in Collection \ apart' : d # c => Coherent(d)'
    BY <1>s, <2>1, <2>3, Elsewhere
  <2>7. ASSUME c \notin apart' PROVE Coherent(c)'
    <3>1. Coherent(c) /\ (sets \/ \A l \in Key : ~KeyOf(l, c))
      BY <1>0, <2>1, <2>7, NoKeyYet DEF AlbumInv
    <3>2. \A h \in Handler : handler[h].for # t
      BY NotNone DEF AlbumInv, TypeInv, Waiting
    <3>3. \A u \in Task : Got(u)' \subseteq Got(u)
      BY <1>2, <2>1, <3>2 DEF Got
    <3>4. OneKey(c)' /\ Expected(c)' /\ Recorded(c)'
      BY <1>0, <1>s, <2>3, <2>4, <3>1 DEF Coherent, OneKey, Expected, Recorded, Pending, SameRows
    <3>5. ASSUME NEW u \in Task, of[u] = c PROVE Answered(u, c)' /\ Alone(u, c)'
      <4>1. Answered(u, c) /\ Alone(u, c)
        BY <3>1, <3>5 DEF Coherent
      <4>2. Answered(u, c)'
        BY <1>0, <1>s, <2>3, <3>3, <4>1 DEF Answered, SameRows
      <4>3. Alone(u, c)'
        BY <1>0, <1>2, <2>1, <2>4, <3>1, <4>1 DEF Alone
      <4> QED
        BY <4>2, <4>3
    <3> QED
      BY <3>4, <3>5 DEF Coherent
  <2> QED
    BY <2>5, <2>6, <2>7
<1> QED
  BY <1>0, <1>1, <1>2, UsingKey

LEMMA MintKeeps ==
  ASSUME AlbumInv, NEW t \in Task, Mint(t)
  PROVE  Owned' /\ \A c \in Collection \ apart' : Coherent(c)'
<1>0. TypeInv /\ task[t].at = "mint" /\ task[t].key \in Key /\ of[t] \in Collection
  BY DEF Mint, AlbumInv, TypeInv, TasksOK, Fits, Shared
<1> PICK c \in Collection, k \in Key : c = of[t] /\ k = task[t].key
  BY <1>0
<1>1. /\ \A u \in Task \ {t} : task'[u] = task[u]
      /\ task'[t].at = "send" /\ task'[t].key = k
  BY <1>0, Going DEF Mint, Stages
<1>2. UNCHANGED <<handler, rows, remoteId, of, sets>>
  BY DEF Mint, InPlugin, server
<1>3. SameRows
  BY <1>2 DEF SameRows, Has, Live
<1>4. Minted(k, c)
  BY <1>0 DEF Minted
<1>5. \A d \in Collection : createKey'[d] = createKey[d] \/ (d = c /\ createKey'[d] = k)
  BY <1>0 DEF Mint, TypeInv, CatalogOK
<1>6. \A l \in Key, d \in Collection :
        /\ Asked(l, d)' = Asked(l, d)
        /\ Tried(l, d)' => Tried(l, d) \/ (l = k /\ d = c)
        /\ Minted(l, d)' => Minted(l, d)
  BY <1>1, <1>2 DEF Asked, Tried, Minted
<1>7. \A l \in Key, d \in Collection : KeyOf(l, d)' => KeyOf(l, d) \/ (l = k /\ d = c)
  BY <1>3, <1>5, <1>6 DEF KeyOf, Pending, SameRows
<1>8. Owned'
  BY <1>1, <1>2, <1>4, <1>6, <1>7, KeepsOwned DEF AlbumInv
<1>9. \A d \in Collection \ apart : d # c => Coherent(d)'
  BY <1>1, <1>2, <1>3, <1>5, <1>6, Elsewhere
<1>10. apart \subseteq apart'
  BY DEF Mint
<1>11. ASSUME c \notin apart' PROVE Coherent(c)'
  <2>1. /\ createKey'[c] = k /\ c \notin apart
        /\ sets => createKey[c] = None /\ remoteId[c] \notin Live
    BY <1>0, <1>11 DEF Mint, TypeInv, CatalogOK
  <2>2. Coherent(c)
    BY <1>0, <2>1 DEF AlbumInv
  <2>3. Has(c) = {} /\ \A l \in Key : ~KeyOf(l, c)
    <3>1. CASE sets
      BY <1>0, <2>1, <3>1, NoKeyYet
    <3>2. CASE ~sets
      <4>1. \A l \in Key : ~KeyOf(l, c)
        BY <1>0, <2>2, <3>2 DEF Coherent, Alone
      <4>2. \A i \in Has(c) : rows[i].key \in Key
        BY <1>0 DEF TypeInv, RowsOK, Albums, Live, Has
      <4> QED
        BY <4>1, <4>2 DEF KeyOf
    <3> QED
      BY <3>1, <3>2
  <2>4. \A l \in Key : KeyOf(l, c)' => l = k
    BY <1>0, <1>7, <2>3
  <2>5. OneKey(c)' /\ Expected(c)' /\ Recorded(c)'
    BY <1>0, <1>3, <2>1, <2>3, <2>4, NotNone DEF OneKey, Expected, Recorded, SameRows
  <2>6. \A h \in Handler : handler[h].for # t
    BY <1>0, NotNone DEF TypeInv, Waiting
  <2>7. \A u \in Task : Got(u)' \subseteq Got(u)
    BY <1>1, <1>2, <2>6 DEF Got
  <2>8. ASSUME NEW u \in Task, of[u] = c PROVE Answered(u, c)' /\ Alone(u, c)'
    <3>1. Answered(u, c) /\ Alone(u, c)
      BY <2>2, <2>8 DEF Coherent
    <3>2. Answered(u, c)'
      BY <1>0, <1>2, <1>3, <1>6, <2>7, <3>1 DEF Answered, SameRows
    <3>3. Alone(u, c)'
      <4>1. ~sets => u = t
        BY <1>0, <2>8, NotNone DEF TypeInv, Shared
      <4> QED
        BY <1>1, <1>2, <2>1, <4>1 DEF Alone
    <3> QED
      BY <3>2, <3>3
  <2> QED
    BY <1>2, <2>5, <2>8 DEF Coherent
<1> QED
  BY <1>8, <1>9, <1>10, <1>11

LEMMA RecordKeeps ==
  ASSUME AlbumInv, NEW t \in Task, Record(t)
  PROVE  Owned' /\ \A c \in Collection \ apart' : Coherent(c)'
<1>0. /\ TypeInv /\ task[t].at = "record" /\ of[t] \in Collection /\ of[t] # None
      /\ task[t].album \in Id /\ task[t].key \notin Key
  BY DEF Record, AlbumInv, TypeInv, TasksOK, Fits, Shared
<1>1. UNCHANGED <<handler, rows, createKey, of, sets, apart>>
  BY DEF Record, InPlugin, server
<1>2. SameRows
  BY <1>1 DEF SameRows, Has, Live
<1>3. CASE Finish(t) /\ UNCHANGED remoteId
  BY <1>0, <1>1, <1>2, <1>3, Finishing, RestingFits, QuietKeeps
<1>4. CASE /\ remoteId' = [remoteId EXCEPT ![of[t]] = task[t].album]
           /\ Leave(t, "clear")
  <2> PICK c \in Collection, i \in Id : c = of[t] /\ i = task[t].album
    BY <1>0
  <2>1. /\ \A u \in Task \ {t} : task'[u] = task[u]
        /\ task'[t].at = "clear" /\ task'[t].key = task[t].key
    BY <1>0, <1>4, Leaving DEF Stages
  <2>2. remoteId'[c] = i /\ \A d \in Collection \ {c} : remoteId'[d] = remoteId[d]
    BY <1>0, <1>4 DEF TypeInv, CatalogOK
  <2>3. i \in Got(t) /\ i \in Id
    BY <1>0 DEF Got
  <2>4. \A l \in Key, d \in Collection :
          Asked(l, d)' = Asked(l, d) /\ (Tried(l, d)' => Tried(l, d)) /\ (Minted(l, d)' => Minted(l, d))
    BY <1>0, <1>1, <2>1 DEF Asked, Tried, Minted
  <2>5. \A l \in Key, d \in Collection : KeyOf(l, d)' => KeyOf(l, d)
    BY <1>1, <1>2, <2>4 DEF KeyOf, Pending, SameRows
  <2>6. Owned'
    <3>1. \A u \in Task : task'[u].at = "clear" => remoteId'[of[u]] # None
      <4> SUFFICES ASSUME NEW u \in Task, task'[u].at = "clear" PROVE remoteId'[of[u]] # None
        OBVIOUS
      <4>1. CASE of[u] = c
        BY <2>2, <2>3, <4>1, NotNone
      <4>2. CASE of[u] # c
        <5>1. u # t /\ task[u].at = "clear" /\ of[u] \in Collection
          BY <2>1, <4>2, <1>0 DEF TypeInv, TasksOK, Fits, Shared
        <5> QED
          BY <2>2, <4>2, <5>1 DEF AlbumInv, Owned
      <4> QED
        BY <4>1, <4>2
    <3> QED
      BY <1>1, <2>4, <2>5, <3>1, KeepsOwned DEF AlbumInv
  <2>7. \A d \in Collection \ apart : d # c => Coherent(d)'
    BY <1>1, <1>2, <2>1, <2>2, <2>4, Elsewhere
  <2>8. ASSUME c \notin apart PROVE Coherent(c)'
    <3>1. Coherent(c) /\ c \in Collection
      BY <1>0, <2>8 DEF AlbumInv
    <3>2. Answered(t, c)
      BY <3>1 DEF Coherent
    <3>3. OneKey(c)' /\ Expected(c)'
      BY <1>1, <1>2, <2>4, <2>5, <3>1 DEF Coherent, OneKey, Expected, SameRows, Pending
    <3>4. Recorded(c)'
      BY <1>2, <2>2, <2>3, <3>1, <3>2 DEF Answered, Recorded, SameRows
    <3>5. ASSUME NEW u \in Task, of[u] = c PROVE Answered(u, c)' /\ Alone(u, c)'
      <4>1. Answered(u, c) /\ Alone(u, c)
        BY <3>1, <3>5 DEF Coherent
      <4>2. Got(u)' \subseteq Got(u) \cup {i}
        BY <1>1, <2>1, <2>2, <2>3, <3>5 DEF Got
      <4>3. Answered(u, c)'
        <5>1. \A j \in Got(u) \cup {i} :
                Has(c) \subseteq {j} /\ (sets \/ (\E l \in Key : Asked(l, c)) => Has(c) # {})
          BY <2>3, <3>2, <4>1 DEF Answered
        <5> QED
          BY <1>1, <1>2, <2>4, <3>1, <4>2, <5>1 DEF Answered, SameRows
      <4>4. Alone(u, c)'
        BY <1>0, <1>1, <2>1, <2>5, <3>1, <4>1 DEF Alone
      <4> QED
        BY <4>3, <4>4
    <3> QED
      BY <1>1, <3>3, <3>4, <3>5 DEF Coherent
  <2> QED
    BY <1>1, <2>6, <2>7, <2>8
<1> QED
  BY <1>3, <1>4 DEF Record

LEMMA ClearKeeps ==
  ASSUME AlbumInv, NEW t \in Task, Clear(t)
  PROVE  Owned' /\ \A c \in Collection \ apart' : Coherent(c)'
<1>0. /\ TypeInv /\ task[t].at = "clear" /\ of[t] \in Collection /\ of[t] # None
      /\ task[t].key \notin Key /\ remoteId[of[t]] \in Id
  BY DEF Clear, AlbumInv, Owned, TypeInv, TasksOK, Fits, Shared, CatalogOK
<1>1. UNCHANGED <<handler, rows, remoteId, of, sets, apart>>
  BY DEF Clear, InPlugin, server
<1>2. SameRows
  BY <1>1 DEF SameRows, Has, Live
<1>3. /\ \A u \in Task \ {t} : task'[u] = task[u]
      /\ task'[t].at \in {"idle", "mark", "upload"} /\ task'[t].key \notin Key
  <2>1. Finish(t) \/ Goto(t, "mark") \/ Goto(t, "upload")
    BY DEF Clear
  <2> QED
    BY <1>0, <2>1, Finishing, Going, RestingFits DEF Stages
<1>4. CASE createKey' = createKey
  BY <1>0, <1>1, <1>2, <1>3, <1>4, QuietKeeps
<1>5. CASE createKey' = [createKey EXCEPT ![of[t]] = None]
  <2> PICK c \in Collection : c = of[t]
    BY <1>0
  <2>1. createKey'[c] = None /\ \A d \in Collection \ {c} : createKey'[d] = createKey[d]
    BY <1>0, <1>5 DEF TypeInv, CatalogOK
  <2>2. remoteId[c] \in Got(t)
    BY <1>0 DEF Got
  <2>3. \A l \in Key, d \in Collection :
          Asked(l, d)' = Asked(l, d) /\ (Tried(l, d)' => Tried(l, d)) /\ (Minted(l, d)' => Minted(l, d))
    BY <1>0, <1>1, <1>3 DEF Asked, Tried, Minted
  <2>4. \A l \in Key, d \in Collection : KeyOf(l, d)' => KeyOf(l, d)
    BY <1>2, <2>1, <2>3, NotNone DEF KeyOf, Pending, SameRows
  <2>5. Owned'
    BY <1>1, <1>3, <2>3, <2>4, KeepsOwned DEF AlbumInv
  <2>6. \A d \in Collection \ apart : d # c => Coherent(d)'
    BY <1>0, <1>1, <1>2, <1>3, <2>1, <2>3, Elsewhere
  <2>7. ASSUME c \notin apart PROVE Coherent(c)'
    <3>1. Coherent(c) /\ c \in Collection
      BY <1>0, <2>7 DEF AlbumInv
    <3>2. Answered(t, c)
      BY <3>1 DEF Coherent
    <3>3. OneKey(c)'
      BY <2>4, <3>1 DEF Coherent, OneKey
    <3>4. Expected(c)'
      <4>1. ASSUME NEW l \in Key, Pending(l, c)' PROVE Has(c) # {}
        <5>1. Asked(l, c) \/ \E u \in Task \ {t} : of[u] = c /\ task[u].at # "idle"
          BY <1>0, <1>3, <2>3, <3>1, <4>1 DEF Pending, Tried, TypeInv, TasksOK, Fits
        <5>2. Asked(l, c) \/ sets
          BY <1>0, <5>1, NotNone DEF TypeInv, Shared
        <5> QED
          BY <2>2, <3>2, <5>2 DEF Answered
      <4> QED
        BY <1>2, <3>1, <4>1 DEF Expected, SameRows
    <3>5. Recorded(c)'
      BY <1>1, <1>2, <2>2, <3>1, <3>2 DEF Answered, Recorded, SameRows
    <3>6. \A h \in Handler : handler[h].for # t
      BY <1>0, NotNone DEF TypeInv, Waiting
    <3>7. \A u \in Task : Got(u)' \subseteq Got(u)
      BY <1>1, <1>3, <3>6 DEF Got
    <3>8. ASSUME NEW u \in Task, of[u] = c PROVE Answered(u, c)' /\ Alone(u, c)'
      <4>1. Answered(u, c) /\ Alone(u, c)
        BY <3>1, <3>8 DEF Coherent
      <4>2. Answered(u, c)'
        BY <1>1, <1>2, <2>3, <3>1, <3>7, <4>1 DEF Answered, SameRows
      <4>3. Alone(u, c)'
        <5>1. ~sets => u = t
          BY <1>0, <3>8, NotNone DEF TypeInv, Shared
        <5> QED
          BY <1>1, <1>3, <5>1 DEF Alone
      <4> QED
        BY <4>2, <4>3
    <3> QED
      BY <1>1, <3>3, <3>4, <3>5, <3>8 DEF Coherent
  <2> QED
    BY <1>1, <2>5, <2>6, <2>7
<1> QED
  BY <1>4, <1>5 DEF Clear, Cleared

LEMMA SendKeeps ==
  ASSUME AlbumInv, NEW t \in Task, Send(t)
  PROVE  Owned' /\ \A c \in Collection \ apart' : Coherent(c)'
<1>0. TypeInv /\ task[t].at = "send" /\ task[t].key \in Key /\ of[t] \in Collection
  BY DEF Send, AlbumInv, TypeInv, TasksOK, Fits, Shared
<1> PICK c \in Collection, k \in Key : c = of[t] /\ k = task[t].key
  BY <1>0
<1>1. UNCHANGED <<rows, createKey, remoteId, of, sets, apart>>
  BY DEF Send, catalog
<1>2. SameRows
  BY <1>1 DEF SameRows, Has, Live
<1>3. /\ \A u \in Task \ {t} : task'[u] = task[u]
      /\ task'[t].at = "wait" /\ task'[t].key = k
  BY <1>0, Going DEF Send, Stages
<1>4. PICK g \in Handler : /\ handler[g].at = "none" /\ handler'[g].key = k /\ handler'[g].of = c
                           /\ handler'[g].for = t /\ handler'[g].at = "look"
                           /\ \A h \in Handler \ {g} : handler'[h] = handler[h]
  <2>1. Free # {} /\ handler' = [handler EXCEPT ![CHOOSE h \in Free : TRUE] =
                                   [NoRequest EXCEPT !.at = "look", !.key = k, !.of = c, !.for = t]]
    BY DEF Send
  <2> DEFINE g == CHOOSE h \in Free : TRUE
  <2>2. g \in Handler /\ handler[g].at = "none"
    BY <2>1 DEF Free
  <2>3. /\ handler'[g] = [NoRequest EXCEPT !.at = "look", !.key = k, !.of = c, !.for = t]
        /\ \A h \in Handler \ {g} : handler'[h] = handler[h]
    BY <1>0, <2>1, <2>2 DEF TypeInv, HandlersOK
  <2> HIDE DEF g
  <2> QED
    BY <2>2, <2>3 DEF NoRequest
<1>5. handler[g].key = None /\ handler[g].for = None
  BY <1>0, <1>4 DEF TypeInv, HandlersOK
<1>6. \A l \in Key, d \in Collection :
        /\ Asked(l, d)' => Asked(l, d) \/ (l = k /\ d = c)
        /\ Tried(l, d)' => Tried(l, d)
        /\ Minted(l, d)' => Minted(l, d)
  BY <1>0, <1>1, <1>3, <1>4, <1>5 DEF Asked, Tried, Minted
<1>7. Tried(k, c)
  BY <1>0 DEF Tried
<1>8. \A l \in Key, d \in Collection : (Pending(l, d)' => Pending(l, d)) /\ (KeyOf(l, d)' => KeyOf(l, d))
  BY <1>1, <1>2, <1>6, <1>7 DEF KeyOf, Pending, SameRows
<1>9. Owned'
  BY <1>1, <1>3, <1>4, <1>6, <1>8, KeepsOwned DEF AlbumInv
<1>10. \A d \in Collection \ apart : d # c => Coherent(d)'
  BY <1>1, <1>2, <1>3, <1>4, <1>6, Elsewhere
<1>11. ASSUME c \notin apart PROVE Coherent(c)'
  <2>1. Coherent(c)
    BY <1>11 DEF AlbumInv
  <2>2. OneKey(c)' /\ Expected(c)' /\ Recorded(c)'
    BY <1>1, <1>2, <1>8, <2>1 DEF Coherent, OneKey, Expected, Recorded, SameRows
  <2>3. Got(t)' = {} /\ \A u \in Task : Got(u)' \subseteq Got(u)
    <3>1. \A h \in Handler : handler[h].for # t
      BY <1>0, NotNone DEF TypeInv, Waiting
    <3> QED
      BY <1>1, <1>3, <1>4, <3>1 DEF Got
  <2>4. ASSUME NEW u \in Task, of[u] = c PROVE Answered(u, c)' /\ Alone(u, c)'
    <3>1. Answered(u, c) /\ Alone(u, c) /\ (sets \/ u = t)
      BY <1>0, <2>1, <2>4, NotNone DEF Coherent, TypeInv, Shared
    <3>2. Answered(u, c)'
      BY <1>1, <1>2, <2>3, <3>1 DEF Answered, SameRows
    <3>3. Alone(u, c)'
      BY <1>0, <1>1, <1>3, <1>8, <3>1 DEF Alone
    <3> QED
      BY <3>2, <3>3
  <2> QED
    BY <1>1, <2>2, <2>4 DEF Coherent
<1> QED
  BY <1>1, <1>9, <1>10, <1>11

LEMMA AnswerKeeps ==
  ASSUME AlbumInv, NEW t \in Task, Receive(t) \/ Lose(t)
  PROVE  Owned' /\ \A c \in Collection \ apart' : Coherent(c)'
<1>0. TypeInv /\ task[t].at = "wait" /\ task[t].key \in Key /\ of[t] \in Collection /\ task[t] \in Runs
  BY DEF Receive, Lose, AlbumInv, TypeInv, TasksOK, Fits, Shared
<1>1. UNCHANGED <<rows, createKey, remoteId, of, sets, apart>>
  BY DEF Receive, Lose, catalog
<1>2. SameRows
  BY <1>1 DEF SameRows, Has, Live
<1>3. \A u \in Task \ {t} : task'[u] = task[u]
  BY <1>0 DEF Receive, Lose, Goto, TypeInv, TasksOK
<1>4. /\ task'[t].at \in {"failed", "record"} /\ (task'[t].key \in Key => task'[t].key = task[t].key)
      /\ task'[t].at = "record" => task'[t].album \in Got(t)
  <2>1. CASE Lose(t)
    BY <1>0, <2>1, Going DEF Lose, Stages
  <2>2. CASE Receive(t)
    <3>1. PICK h \in Handler :
            /\ handler[h].at = "answer" /\ handler[h].for = t
            /\ task' = IF handler[h].album = None THEN [task EXCEPT ![t].at = "failed"]
                       ELSE [task EXCEPT ![t].at = "record", ![t].album = handler[h].album, ![t].key = None]
      BY <2>2 DEF Receive
    <3>2. CASE handler[h].album = None
      <4>1. Goto(t, "failed")
        BY <3>1, <3>2 DEF Goto
      <4> QED
        BY <1>0, <4>1, Going DEF Stages
    <3>3. CASE handler[h].album # None
      <4>1. handler[h].album \in Id
        BY <1>0, <3>3 DEF TypeInv, HandlersOK, Requests
      <4>2. task'[t].at = "record" /\ task'[t].album = handler[h].album /\ task'[t].key = None
        BY <1>0, <3>1, <3>3 DEF TypeInv, TasksOK, Runs
      <4> QED
        BY <3>1, <4>1, <4>2, NotNone DEF Got
    <3> QED
      BY <3>2, <3>3
  <2> QED
    BY <2>1, <2>2
<1>5. ASSUME NEW h \in Handler
      PROVE  /\ handler'[h].key # None => handler'[h].key = handler[h].key /\ handler'[h].of = handler[h].of
             /\ handler'[h].for # None => handler'[h] = handler[h] /\ handler[h].for # t
  <2>1. CASE Lose(t)
    <3>1. /\ handler[h] \in Requests
          /\ handler'[h] = IF handler[h].for = t THEN Unawaited(handler[h]) ELSE handler[h]
      BY <1>0, <2>1 DEF Lose, TypeInv, HandlersOK
    <3> QED
      BY <3>1 DEF Unawaited, NoRequest, Requests
  <2>2. CASE Receive(t)
    <3>1. PICK g \in Handler : handler[g].for = t /\ handler' = [handler EXCEPT ![g] = NoRequest]
      BY <2>2 DEF Receive
    <3>2. handler'[h] = IF h = g THEN NoRequest ELSE handler[h]
      BY <1>0, <3>1 DEF TypeInv, HandlersOK
    <3>3. handler[h].for # None /\ h # g => handler[h].for # t
      BY <1>0, <3>1 DEF TypeInv, Waiting
    <3> QED
      BY <3>2, <3>3 DEF NoRequest
  <2> QED
    BY <2>1, <2>2
<1>6. \A l \in Key, d \in Collection :
        (Asked(l, d)' => Asked(l, d)) /\ (Tried(l, d)' => Tried(l, d)) /\ (Minted(l, d)' => Minted(l, d))
  BY <1>0, <1>1, <1>3, <1>4, <1>5, NotNone DEF Asked, Tried, Minted
<1>7. \A l \in Key, d \in Collection : (Pending(l, d)' => Pending(l, d)) /\ (KeyOf(l, d)' => KeyOf(l, d))
  BY <1>1, <1>2, <1>6 DEF KeyOf, Pending, SameRows
<1>8. Owned'
  BY <1>1, <1>3, <1>4, <1>5, <1>6, <1>7, KeepsOwned DEF AlbumInv
<1>9. \A u \in Task : Got(u)' \subseteq Got(u)
  BY <1>1, <1>3, <1>4, <1>5, NotNone DEF Got
<1>10. ASSUME NEW c \in Collection \ apart' PROVE Coherent(c)'
  BY <1>0, <1>1, <1>2, <1>3, <1>4, <1>6, <1>7, <1>9, <1>10, Keeps DEF AlbumInv, SameRows
<1> QED
  BY <1>8, <1>10

LEMMA RunKeeps ==
  ASSUME AlbumInv, NEW t \in Task, Start(t) \/ Retry(t) \/ Mark(t) \/ Update(t) \/ Recreate(t)
           \/ Upload(t) \/ EndRun(t)
  PROVE  Owned' /\ \A c \in Collection \ apart' : Coherent(c)'
<1>0. /\ TypeInv /\ task[t] \in Runs /\ of[t] # None
      /\ task[t].at \in {"idle", "failed", "mark", "update", "gone", "upload"}
      /\ task[t].at # "failed" => task[t].key \notin Key
  BY DEF Start, Retry, Mark, Update, Recreate, Upload, EndRun, AlbumInv, TypeInv, TasksOK, Fits
<1>1. UNCHANGED <<handler, createKey, remoteId, of, sets, apart>>
  BY DEF Start, Retry, Mark, Update, Recreate, Upload, EndRun, InPlugin, server, catalog
<1>2. SameRows
  <2>1. CASE rows' = rows
    BY <2>1 DEF SameRows, Has, Live
  <2>2. CASE Upload(t) /\ rows' # rows
    <3>1. PICK p \in task[t].todo : /\ remoteId[of[t]] \in Live
                                    /\ rows' = [rows EXCEPT ![remoteId[of[t]]].photos = @ \cup {p}]
      BY <2>2 DEF Upload
    <3>2. RowsOK /\ RowsOK'
      BY <1>0, <2>2, TaskType DEF TypeInv
    <3>3. \A i \in Live : rows[i] \in Albums
      BY <3>2 DEF RowsOK, Live
    <3>4. \A i \in Id : i # remoteId[of[t]] => rows'[i] = rows[i]
      BY <3>1, <3>2 DEF RowsOK
    <3>5. \A i \in Live : rows'[i].key = rows[i].key /\ rows'[i].of = rows[i].of
      BY <3>1, <3>2, <3>3 DEF RowsOK, Albums, Live
    <3>6. rows'[remoteId[of[t]]] # None
      <4>1. rows[remoteId[of[t]]] \in Albums /\ p \in DOMAIN photo
        BY <1>0, <3>1, <3>3 DEF Runs
      <4>2. [rows[remoteId[of[t]]] EXCEPT !.photos = @ \cup {p}] \in Albums
        BY <4>1 DEF Albums
      <4>3. \A r \in Albums : r # None
        BY <1>0, NotNone DEF Albums, TypeInv, PhotosOK
      <4> QED
        BY <3>1, <3>2, <4>2, <4>3 DEF RowsOK, Live
    <3>7. Live' = Live
      BY <3>1, <3>4, <3>6 DEF Live
    <3> QED
      BY <3>5, <3>7 DEF SameRows, Has
  <2> QED
    BY <2>1, <2>2 DEF Start, Retry, Mark, Update, Recreate, EndRun, InPlugin, server
<1>3. CASE \E run \in Runs : /\ UseKey(t, run) /\ rows' = rows /\ task[t].at \in {"idle", "gone"}
                             /\ sets \/ remoteId[of[t]] \notin Live
  BY <1>0, <1>1, <1>3, UseKeyKeeps
<1>4. CASE /\ \A u \in Task \ {t} : task'[u] = task[u]
           /\ task'[t].at \in {"idle", "send", "update", "gone", "upload"}
           /\ task'[t].key \in Key => task'[t].key = task[t].key
  BY <1>0, <1>1, <1>2, <1>4, QuietKeeps
<1>5. CASE Start(t)
  <2> DEFINE run == [Resting EXCEPT !.todo = {p \in DOMAIN photo : photo[p] # "clean"}]
  <2>1. run \in Runs /\ run.key = None
    BY RestingFits DEF Resting, Runs, Stages
  <2>2. CASE remoteId[of[t]] = None
    <3>1. UseKey(t, run) /\ None \notin Live /\ rows' = rows /\ task[t].at = "idle"
      BY <1>5, <2>2, NotNone DEF Start, InPlugin, server, Live
    <3> QED
      BY <1>3, <2>1, <2>2, <3>1
  <2>3. CASE remoteId[of[t]] # None
    <3> DEFINE next == [run EXCEPT !.at = "update", !.album = remoteId[of[t]]]
    <3>1. task' = [task EXCEPT ![t] = next]
      BY <1>5, <2>3 DEF Start
    <3>2. next.at = "update" /\ next.key = None
      BY <2>1 DEF Runs
    <3> QED
      BY <1>0, <1>4, <3>1, <3>2, NotNone DEF TypeInv, TasksOK
  <2> QED
    BY <2>2, <2>3
<1>6. CASE Retry(t) \/ Mark(t)
  <2>1. Goto(t, "send") \/ Goto(t, "upload") \/ Finish(t)
    BY <1>6 DEF Retry, Mark
  <2> QED
    BY <1>0, <1>4, <2>1, Going, Finishing, RestingFits DEF Stages
<1>7. CASE Update(t)
  <2>1. Leave(t, "gone") \/ Leave(t, "upload") \/ Finish(t)
    BY <1>7 DEF Update
  <2>2. task[t].at = "update"
    BY <1>7 DEF Update
  <2> QED
    BY <1>0, <1>4, <2>1, <2>2, Leaving, Finishing, RestingFits DEF Stages
<1>10. CASE Recreate(t)
  <2>1. UseKey(t, Recreating(t)) /\ task[t].at = "gone" /\ rows' = rows
    BY <1>10 DEF Recreate, InPlugin, server
  <2>2. sets \/ remoteId[of[t]] \notin Live
    BY <1>0, <2>1 DEF AlbumInv, Repairs
  <2> QED
    BY <1>0, <1>3, <2>1, <2>2, Recreation
<1>8. CASE Upload(t)
  <2>1. task[t].at = "upload"
    BY <1>8 DEF Upload
  <2>2. CASE Goto(t, "gone")
    BY <1>0, <1>4, <2>1, <2>2, Going DEF Stages
  <2>3. CASE \E p \in task[t].todo :
               \/ task' = [task EXCEPT ![t].todo = @ \ {p}]
               \/ task' = [task EXCEPT ![t].todo = @ \ {p}, ![t].done = @ \cup {p},
                                       ![t].landed = IF task[t].recreated THEN @ ELSE @ \cup {p}]
    <3>1. /\ task'[t].at = task[t].at /\ task'[t].key = task[t].key
          /\ \A u \in Task \ {t} : task'[u] = task[u]
      BY <1>0, <2>3 DEF TypeInv, TasksOK, Runs
    <3> QED
      BY <1>4, <2>1, <3>1
  <2> QED
    BY <1>8, <2>2, <2>3 DEF Upload
<1>9. CASE EndRun(t)
  BY <1>0, <1>4, <1>9, Finishing, RestingFits DEF EndRun
<1> QED
  BY <1>5, <1>6, <1>7, <1>8, <1>9, <1>10

LEMMA AlbumStep == AlbumInv /\ [Next]_vars => AlbumInv'
<1> SUFFICES ASSUME AlbumInv, [Next]_vars PROVE AlbumInv'
  OBVIOUS
<1>1. TypeInv' /\ Repairs'
  BY TypeStep, RepairStep DEF AlbumInv
<1>2. Owned' /\ \A c \in Collection \ apart' : Coherent(c)'
  <2>1. CASE UNCHANGED vars
    BY <2>1 DEF AlbumInv, Owned, Coherent, OneKey, Expected, Recorded, Answered, Alone, KeyOf, Pending,
                Asked, Tried, Minted, Has, Got, Live, vars, server, plugin, catalog
  <2>2. CASE \E h \in Handler : Serve(h) \/ HandlerFails(h)
    <3>1. PICK h \in Handler : ServerStep(h)
      BY <2>2, ServerSteps DEF AlbumInv
    <3>2. apart' = apart
      BY <3>1 DEF ServerStep, ServerOnly
    <3> QED
      BY <3>1, <3>2, ServerOwned, ServerCoherent
  <2>3. CASE \E t \in Task : Proceed(t) \/ Lose(t)
    BY <2>3, RunKeeps, MintKeeps, SendKeeps, AnswerKeeps, RecordKeeps, ClearKeeps DEF Proceed
  <2>4. CASE (\E i \in Id : Delete(i)) \/ (\E p \in DOMAIN photo : Modify(p)) \/ Restart \/ Quit
    BY <2>4, DeleteKeeps, StopKeeps
  <2> QED
    BY <2>1, <2>2, <2>3, <2>4 DEF Next
<1> QED
  BY <1>1, <1>2 DEF AlbumInv

\* A collection never has two albums, for any tasks, handlers, collections and
\* troubles: lost answers, retries, restarts, deletions, unless it has come to two keys.
THEOREM NeverTwoAlbums == Spec => []OneAlbum
BY InitAlbum, AlbumStep, AlbumInvOK, PTL DEF Spec

\* No album is made and forgotten: the next publish finds it in the catalog, or the
\* key that gets it back.
THEOREM NoneForgotten == Spec => []NothingForgotten
BY InitAlbum, AlbumStep, AlbumInvOK, PTL DEF Spec

-----------------------------------------------------------------------------
(***************************************************************************)
(* What is shown as published is in the album.  What the run has done so   *)
(* far counts only when it ends, and by then the album may be another one; *)
(* so the invariant follows, for each stage of a run, where its photos are *)
(* and what must still be empty.                                           *)
(***************************************************************************)

Album(t) == remoteId[of[t]]
Creating(t) == task[t].at \in {"mint", "send", "wait", "failed", "record"}
ThereOrTold(t) == rows[Album(t)].photos \cup told \cup unmarked

Shown(t) == Album(t) \in Live /\ task[t].at \notin {"clear", "mark"} => Clean \subseteq ThereOrTold(t)

DoneThere(t) ==
  Album(t) \in Live =>
    task[t].done \subseteq rows[Album(t)].photos \cup (IF task[t].recreated THEN task[t].landed ELSE {})

Landed(t) ==
  /\ task[t].at # "upload" \/ ~task[t].recreated => task[t].landed = task[t].done
  /\ task[t].at \in {"idle", "update"} => task[t].done = {} /\ ~task[t].recreated
  /\ task[t].at = "mark" => task[t].recreated

\* A task makes an album when none is recorded, or the one that is has gone; and
\* a first album has nothing to catch up with.
First(t) ==
  /\ Creating(t) => Album(t) \notin Live
  /\ Album(t) = None => Clean = {} /\ task[t].done = {}
  /\ Creating(t) /\ ~task[t].recreated => Album(t) = None
  /\ task[t].at = "clear" /\ ~task[t].recreated => Clean = {} /\ task[t].done = {}
  /\ task[t].at \in {"clear", "mark", "update", "gone", "upload"} => Album(t) # None

PhotosKept(t) == Shown(t) /\ DoneThere(t) /\ Landed(t) /\ First(t)

PhotoInv == TypeInv /\ Repairs /\ \A t \in Task : DOMAIN photo # {} /\ of[t] # None => PhotosKept(t)

LEMMA PhotoInvOK == PhotoInv => PublishedPhotosAreThere
<1> SUFFICES ASSUME PhotoInv, NEW t \in Task, of[t] # None, remoteId[of[t]] \in Live,
                    task[t].at \notin {"clear", "mark"}
             PROVE  Clean \subseteq ThereOrTold(t)
  BY DEF PublishedPhotosAreThere, ThereOrTold, Album
<1>1. CASE DOMAIN photo = {}
  BY <1>1 DEF Clean
<1>2. CASE DOMAIN photo # {}
  BY <1>2 DEF PhotoInv, PhotosKept, Shown, Album
<1> QED
  BY <1>1, <1>2

LEMMA InitPhotos == Init => PhotoInv
<1> SUFFICES ASSUME Init PROVE PhotoInv
  OBVIOUS
<1>1. Live = {} /\ Clean = {}
  BY DEF Init, Live, Clean
<1>2. ASSUME NEW t \in Task, of[t] # None
      PROVE  task[t] = Resting /\ Album(t) = None
  <2>1. of[t] \in Collection
    BY <1>2, InitType DEF TypeInv, Shared
  <2> QED
    BY <2>1 DEF Init, Album
<1> QED
  BY <1>1, <1>2, InitType DEF PhotoInv, PhotosKept, Shown, DoneThere, Landed, First, Creating, Repairs, Resting

\* The server makes albums that nobody has recorded, and others delete some.
LEMMA ServerPhotos ==
  ASSUME PhotoInv, NEW t \in Task, DOMAIN photo # {}, of[t] # None,
         (\E h \in Handler : ServerStep(h)) \/ \E i \in Id : Delete(i)
  PROVE  PhotosKept(t)'
<1>1. UNCHANGED <<remoteId, of, task, photo, told, unmarked>>
  BY DEF ServerStep, ServerOnly, Delete, plugin, catalog, photos
<1>2. Album(t) \in Live' => Album(t) \in Live /\ rows'[Album(t)] = rows[Album(t)]
  <2>1. CASE \E h \in Handler : ServerStep(h)
    <3>1. PICK h \in Handler : rows' = rows \/ Makes(h)
      BY <2>1 DEF ServerStep, Continues, Answers
    <3>2. Album(t) \in UsedIds
      <4>1. of[t] \in Collection
        BY DEF PhotoInv, TypeInv, Shared
      <4> QED
        BY <4>1 DEF UsedIds, Album
    <3> QED
      BY <3>1, <3>2 DEF Makes, Live, PhotoInv, TypeInv, RowsOK
  <2>2. CASE \E i \in Id : Delete(i)
    BY <2>2 DEF Delete, Live, PhotoInv, TypeInv, RowsOK
  <2> QED
    BY <2>1, <2>2
<1>3. PhotosKept(t) /\ Album(t)' = Album(t) /\ Clean' = Clean /\ Creating(t)' = Creating(t)
  BY <1>1 DEF PhotoInv, Album, Clean, Creating
<1> QED
  BY <1>1, <1>2, <1>3 DEF PhotosKept, Shown, DoneThere, Landed, First, ThereOrTold

LEMMA StopPhotos ==
  ASSUME PhotoInv, NEW t \in Task, DOMAIN photo # {}, of[t] # None,
         Restart \/ Quit \/ \E p \in DOMAIN photo : Modify(p)
  PROVE  PhotosKept(t)'
<1>1. UNCHANGED <<rows, remoteId, of, told>> /\ Live' = Live /\ Album(t)' = Album(t)
  <2>1. UNCHANGED <<rows, remoteId, of>>
    BY DEF Restart, Quit, Modify, server, plugin, catalog
  <2>2. told' = told
    BY DEF Restart, Quit, Modify, photos
  <2> QED
    BY <2>1, <2>2 DEF Live, Album
<1>2. PhotosKept(t)
  BY DEF PhotoInv
<1>3. CASE Restart
  <2>1. task[t] \in Runs /\ task'[t] = IF task[t].at = "wait" THEN [task[t] EXCEPT !.at = "failed"] ELSE task[t]
    BY <1>3 DEF Restart, PhotoInv, TypeInv, TasksOK
  <2>2. /\ task'[t].at = task[t].at \/ (task[t].at = "wait" /\ task'[t].at = "failed")
        /\ task'[t].done = task[t].done /\ task'[t].landed = task[t].landed
        /\ task'[t].recreated = task[t].recreated
    BY <2>1 DEF Runs
  <2>3. Clean' = Clean /\ unmarked' = unmarked
    BY <1>3 DEF Restart, photos, Clean
  <2> QED
    BY <1>1, <1>2, <2>2, <2>3 DEF PhotosKept, Shown, DoneThere, Landed, First, ThereOrTold, Creating, Album
<1>4. CASE Quit
  <2>1. task'[t] = Resting /\ Clean' = Clean
    BY <1>4 DEF Quit, Clean
  <2>2. /\ unmarked \subseteq unmarked'
        /\ task[t].recreated /\ task[t].at \in {"clear", "mark"} => Clean \subseteq unmarked'
    BY <1>4 DEF Quit
  <2>3. Shown(t)'
    BY <1>1, <1>2, <2>1, <2>2 DEF PhotosKept, Shown, Landed, First, ThereOrTold, Album
  <2> QED
    BY <1>1, <1>2, <2>1, <2>3, RestingFits DEF PhotosKept, DoneThere, Landed, First, Creating, Album
<1>5. CASE \E p \in DOMAIN photo : Modify(p)
  <2>1. UNCHANGED <<task, unmarked>> /\ Clean' \subseteq Clean
    BY <1>5 DEF Modify, plugin, Clean
  <2> QED
    BY <1>1, <1>2, <2>1 DEF PhotosKept, Shown, DoneThere, Landed, First, ThereOrTold, Creating, Album
<1> QED
  BY <1>3, <1>4, <1>5

\* The one task that has photos.
LEMMA TaskPhotos ==
  ASSUME PhotoInv, NEW t \in Task, DOMAIN photo # {}, of[t] # None, Proceed(t) \/ Lose(t)
  PROVE  PhotosKept(t)'
<1>0. TypeInv /\ PhotosKept(t) /\ ~sets /\ task[t] \in Runs /\ of[t] \in Collection /\ Fits(t)
  BY DEF PhotoInv, TypeInv, Shared, TasksOK
<1> USE <1>0 DEF PhotosKept
<1>t. TypeInv'
  BY TaskType, RequestType DEF Proceed
<1>1. CASE UNCHANGED <<rows, remoteId, of, photo, told, unmarked>> /\ task'[t].recreated = task[t].recreated
           /\ task'[t].done = task[t].done /\ task'[t].landed = task[t].landed
           /\ \/ Creating(t) /\ Creating(t)'
              \/ task[t].at = "update" /\ task'[t].at \in {"gone", "upload"}
              \/ task[t].at = "upload" /\ task'[t].at = "upload"
              \/ task[t].at = "upload" /\ ~task[t].recreated /\ task'[t].at = "gone"
              \/ task[t].at = "clear" /\ task'[t].at = IF task[t].recreated THEN "mark" ELSE "upload"
  <2>1. Live' = Live /\ Clean' = Clean /\ Album(t)' = Album(t)
    BY <1>1 DEF Live, Clean, Album
  <2> QED
    BY <1>1, <2>1 DEF Shown, DoneThere, Landed, First, ThereOrTold, Creating
<1>3. CASE Recreate(t)
  <2>0. /\ UseKey(t, Recreating(t)) /\ Album(t) \notin Live /\ task[t].at = "gone"
        /\ UNCHANGED <<rows, remoteId, of, photo, told, unmarked>>
    BY <1>3 DEF Recreate, InPlugin, server, photos, catalog, Album, PhotoInv, Repairs
  <2>1. Live' = Live /\ Clean' = Clean /\ Album(t)' = Album(t)
    BY <2>0 DEF Live, Clean, Album
  <2>2. /\ Creating(t)' /\ task'[t].at \in {"mint", "send"} /\ task'[t].recreated
        /\ task'[t].done = task[t].done /\ task'[t].landed = task[t].landed
    BY <2>0, UsingKey, Recreation DEF Creating
  <2> QED
    BY <2>0, <2>1, <2>2 DEF Shown, DoneThere, Landed, First
<1>4. CASE Start(t)
  <2> DEFINE run == [Resting EXCEPT !.todo = {p \in DOMAIN photo : photo[p] # "clean"}]
  <2>1. run \in Runs /\ run.done = {} /\ run.landed = {} /\ ~run.recreated
    BY RestingFits DEF Resting, Runs, Stages
  <2>2. UNCHANGED <<rows, remoteId, of, photo, told, unmarked>> /\ task[t].at = "idle"
    BY <1>4 DEF Start, InPlugin, server, photos, catalog
  <2>3. Live' = Live /\ Clean' = Clean /\ Album(t)' = Album(t)
    BY <2>2 DEF Live, Clean, Album
  <2>4. CASE Album(t) = None
    <3>1. UseKey(t, run) /\ None \notin Live
      BY <1>4, <2>4, NotNone DEF Start, Album, Live
    <3> HIDE DEF run
    <3>2. /\ Creating(t)' /\ task'[t].at \in {"mint", "send"} /\ ~task'[t].recreated
          /\ task'[t].done = {} /\ task'[t].landed = {}
      BY <2>1, <3>1, UsingKey DEF Creating
    <3> QED
      BY <2>3, <2>4, <3>1, <3>2 DEF Shown, DoneThere, Landed, First
  <2>5. CASE Album(t) # None
    <3>1. task'[t] = [run EXCEPT !.at = "update", !.album = remoteId[of[t]]]
      BY <1>4, <2>5 DEF Start, Album, TypeInv, TasksOK
    <3> HIDE DEF run
    <3>2. task'[t].at = "update" /\ ~task'[t].recreated /\ task'[t].done = {} /\ task'[t].landed = {}
      BY <2>1, <3>1 DEF Runs
    <3> QED
      BY <2>2, <2>3, <2>5, <3>2 DEF Shown, DoneThere, Landed, First, ThereOrTold, Creating
  <2> QED
    BY <2>4, <2>5
<1>5. CASE Mint(t) \/ Send(t) \/ Receive(t) \/ Lose(t)
  <2>1. UNCHANGED <<rows, remoteId, of, photo, told, unmarked>>
    BY <1>5 DEF Mint, Send, Receive, Lose, InPlugin, server, photos, catalog
  <2>2. Creating(t) /\ Creating(t)' /\ task'[t].recreated = task[t].recreated
        /\ task'[t].done = task[t].done /\ task'[t].landed = task[t].landed
    <3>1. CASE Mint(t) \/ Send(t) \/ Lose(t)
      BY <3>1, Going DEF Mint, Send, Lose, Creating, Stages
    <3>2. CASE Receive(t)
      <4>1. PICK h \in Handler :
              task' = IF handler[h].album = None THEN [task EXCEPT ![t].at = "failed"]
                      ELSE [task EXCEPT ![t].at = "record", ![t].album = handler[h].album, ![t].key = None]
        BY <3>2 DEF Receive
      <4>2. task[t].at = "wait"
        BY <3>2 DEF Receive
      <4> QED
        BY <4>1, <4>2 DEF Creating, TypeInv, TasksOK, Runs
    <3> QED
      BY <1>5, <3>1, <3>2
  <2> QED
    BY <1>1, <2>1, <2>2
<1>6. CASE Retry(t)
  <2>1. UNCHANGED <<rows, remoteId, of, photo, told, unmarked>> /\ task[t].at = "failed"
    BY <1>6 DEF Retry, InPlugin, server, photos, catalog
  <2>2. CASE Goto(t, "send")
    BY <1>1, <2>1, <2>2, Going DEF Creating, Stages
  <2>3. CASE Finish(t)
    <3>1. Live' = Live /\ Clean' = Clean /\ Album(t)' = Album(t) /\ task'[t] = Resting
      BY <2>1, <2>3, Finishing DEF Live, Clean, Album
    <3> QED
      BY <2>1, <3>1, RestingFits DEF Shown, DoneThere, Landed, First, Creating
  <2> QED
    BY <1>6, <2>2, <2>3 DEF Retry
<1>7. CASE Record(t)
  <2>1. /\ UNCHANGED <<rows, of, photo, told, unmarked>> /\ task[t].at = "record"
        /\ remoteId' = [remoteId EXCEPT ![of[t]] = task[t].album]
        /\ Leave(t, "clear")
    BY <1>7 DEF Record, InPlugin, server, photos
  <2>2. /\ task'[t].at = "clear" /\ task'[t].recreated = task[t].recreated
        /\ task'[t].done = task[t].done /\ task'[t].landed = task[t].landed
    BY <2>1, Leaving DEF Stages
  <2>3. Album(t)' \in Id /\ Clean' = Clean
    BY <2>1 DEF Album, Fits, TypeInv, CatalogOK, Clean
  <2> QED
    BY <2>1, <2>2, <2>3, NotNone DEF Shown, DoneThere, Landed, First, Creating
<1>8. CASE Clear(t)
  <2>1. UNCHANGED <<rows, remoteId, of, photo, told, unmarked>>
    BY <1>8 DEF Clear, InPlugin, server, photos
  <2>2. task[t].at = "clear" /\ Goto(t, IF task[t].recreated THEN "mark" ELSE "upload")
    BY <1>8 DEF Clear
  <2> QED
    BY <1>1, <2>1, <2>2, Going DEF Stages
<1>9. CASE Update(t)
  <2>1. UNCHANGED <<rows, remoteId, of, photo, told, unmarked>>
    BY <1>9 DEF Update, InPlugin, server, photos, catalog
  <2>2. task[t].at = "update" /\ (Leave(t, "gone") \/ Leave(t, "upload"))
    BY <1>9 DEF Update
  <2> QED
    BY <1>1, <2>1, <2>2, Leaving DEF Stages
<1>10. CASE Mark(t)
  <2>1. /\ UNCHANGED <<rows, remoteId, of, told>> /\ task[t].at = "mark" /\ Goto(t, "upload")
        /\ (Clean' = {} /\ unmarked' = unmarked) \/ (Clean' = Clean /\ unmarked' = unmarked \cup Clean)
    BY <1>10 DEF Mark, server, catalog, Clean
  <2>2. Live' = Live /\ Album(t)' = Album(t)
    BY <2>1 DEF Live, Album
  <2>3. /\ task'[t].at = "upload" /\ task'[t].recreated = task[t].recreated
        /\ task'[t].done = task[t].done /\ task'[t].landed = task[t].landed
    BY <2>1, Going DEF Stages
  <2> QED
    BY <2>1, <2>2, <2>3 DEF Shown, DoneThere, Landed, First, ThereOrTold, Creating
<1>11. CASE Upload(t)
  <2>1. /\ task[t].at = "upload" /\ UNCHANGED <<remoteId, of, photo, told, unmarked>>
        /\ Clean' = Clean /\ Album(t)' = Album(t)
    BY <1>11 DEF Upload, catalog, photos, Clean, Album
  <2>2. PICK p \in task[t].todo :
          \/ /\ Album(t) \in Live
             /\ rows' = [rows EXCEPT ![Album(t)].photos = @ \cup {p}]
             /\ task' = [task EXCEPT ![t].todo = @ \ {p}, ![t].done = @ \cup {p},
                                     ![t].landed = IF task[t].recreated THEN @ ELSE @ \cup {p}]
          \/ ~task[t].recreated /\ Goto(t, "gone") /\ UNCHANGED rows
          \/ task' = [task EXCEPT ![t].todo = @ \ {p}] /\ UNCHANGED rows
    BY <1>11 DEF Upload, Album
  <2>3. CASE ~task[t].recreated /\ Goto(t, "gone") /\ UNCHANGED rows
    BY <1>1, <2>1, <2>3, Going DEF Stages
  <2>4. CASE task' = [task EXCEPT ![t].todo = @ \ {p}] /\ UNCHANGED rows
    <3>1. /\ task'[t].at = "upload" /\ task'[t].recreated = task[t].recreated
          /\ task'[t].done = task[t].done /\ task'[t].landed = task[t].landed
      BY <2>1, <2>4 DEF TypeInv, TasksOK, Runs
    <3> QED
      BY <1>1, <2>1, <2>4, <3>1
  <2>5. CASE /\ Album(t) \in Live
             /\ rows' = [rows EXCEPT ![Album(t)].photos = @ \cup {p}]
             /\ task' = [task EXCEPT ![t].todo = @ \ {p}, ![t].done = @ \cup {p},
                                     ![t].landed = IF task[t].recreated THEN @ ELSE @ \cup {p}]
    <3>1. /\ task'[t].at = "upload" /\ task'[t].recreated = task[t].recreated
          /\ task'[t].done = task[t].done \cup {p}
          /\ task'[t].landed = IF task[t].recreated THEN task[t].landed ELSE task[t].landed \cup {p}
      BY <2>1, <2>5 DEF TypeInv, TasksOK, Runs
    <3>2. rows[Album(t)] \in Albums /\ rows'[Album(t)] = [rows[Album(t)] EXCEPT !.photos = @ \cup {p}]
      BY <2>5 DEF TypeInv, RowsOK, Live
    <3>3. rows'[Album(t)].photos = rows[Album(t)].photos \cup {p}
      BY <3>2 DEF Albums
    <3> QED
      BY <2>1, <2>5, <3>1, <3>3 DEF Shown, DoneThere, Landed, First, ThereOrTold, Creating
  <2> QED
    BY <2>2, <2>3, <2>4, <2>5
<1>12. CASE EndRun(t)
  <2>1. /\ task[t].at = "upload" /\ UNCHANGED <<rows, remoteId, of>> /\ task'[t] = Resting
        /\ Clean' = Clean \cup task[t].done
        /\ told' = (told \ task[t].done) \cup (IF task[t].recreated THEN task[t].landed ELSE {})
        /\ unmarked' = unmarked \ task[t].done
    BY <1>12, Finishing DEF EndRun, server, catalog, Clean, Runs
  <2>2. Live' = Live /\ Album(t)' = Album(t)
    BY <2>1 DEF Live, Album
  <2> QED
    BY <2>1, <2>2, RestingFits DEF Shown, DoneThere, Landed, First, ThereOrTold, Creating
<1> QED
  BY <1>3, <1>4, <1>5, <1>6, <1>7, <1>8, <1>9, <1>10, <1>11, <1>12 DEF Proceed

LEMMA PhotoStep == PhotoInv /\ [Next]_vars => PhotoInv'
<1> SUFFICES ASSUME PhotoInv, [Next]_vars PROVE PhotoInv'
  OBVIOUS
<1>1. TypeInv' /\ Repairs'
  BY TypeStep, RepairStep DEF PhotoInv
<1>2. of' = of /\ DOMAIN photo' = DOMAIN photo
  <2>1. CASE UNCHANGED vars
    BY <2>1 DEF vars, plugin, photos
  <2>2. CASE \E h \in Handler : Serve(h) \/ HandlerFails(h)
    BY <2>2 DEF Serve, LookUp, Insert, Violated, Reread, HandlerFails, ServerOnly, plugin, photos
  <2>3. CASE \E t \in Task : Proceed(t) \/ Lose(t)
    BY <2>3 DEF Proceed, Start, Mint, Send, Receive, Retry, Record, Clear, Mark, Update, Recreate, Upload,
                EndRun, Lose, InPlugin, photos
  <2>4. CASE (\E i \in Id : Delete(i)) \/ (\E p \in DOMAIN photo : Modify(p)) \/ Restart \/ Quit
    BY <2>4 DEF Delete, Modify, Restart, Quit, plugin, photos
  <2> QED
    BY <2>1, <2>2, <2>3, <2>4 DEF Next
<1>3. ASSUME NEW t \in Task, DOMAIN photo # {}, of[t] # None
      PROVE  PhotosKept(t)'
  <2>1. CASE UNCHANGED vars
    BY <1>3, <2>1 DEF PhotoInv, PhotosKept, Shown, DoneThere, Landed, First, ThereOrTold, Creating, Album, Clean,
                      Live, vars, server, plugin, catalog, photos
  <2>2. CASE \E h \in Handler : Serve(h) \/ HandlerFails(h)
    BY <1>3, <2>2, ServerSteps, ServerPhotos DEF PhotoInv
  <2>3. ASSUME NEW u \in Task, Proceed(u) \/ Lose(u)
        PROVE  PhotosKept(t)'
    <3>1. of[u] # None
      BY <2>3 DEF PhotoInv, TypeInv, TasksOK, Fits, Proceed, Start, Mint, Send, Receive, Retry, Record, Clear, Mark,
                  Update, Recreate, Upload, EndRun, Lose
    <3>2. u = t
      BY <1>3, <3>1 DEF PhotoInv, TypeInv, Shared
    <3> QED
      BY <1>3, <2>3, <3>2, TaskPhotos
  <2>4. CASE (\E i \in Id : Delete(i)) \/ (\E p \in DOMAIN photo : Modify(p)) \/ Restart \/ Quit
    BY <1>3, <2>4, ServerPhotos, StopPhotos
  <2> QED
    BY <2>1, <2>2, <2>3, <2>4 DEF Next
<1> QED
  BY <1>1, <1>2, <1>3 DEF PhotoInv

\* What Lightroom shows as published is in the collection's album, however often the
\* album is deleted and made anew, unless the user has been told or Lightroom stopped or
\* the catalog refused between the recording of the new album and the marking.
THEOREM PublishedAreThere == Spec => []PublishedPhotosAreThere
BY InitPhotos, PhotoStep, PhotoInvOK, PTL DEF Spec

-----------------------------------------------------------------------------
(***************************************************************************)
(* Slugs.  Whatever the name, its slug and the one with a suffix are words *)
(* of letters and digits with single dashes between them.  The loops are   *)
(* proved by sets of rounds.                                               *)
(***************************************************************************)

Char == {"a", "-"}

\* No two dashes follow each other.
Single(s) == s \in Seq(Char) /\ \A i \in 1..Len(s) - 1 : s[i] = "a" \/ s[i + 1] = "a"

LEMMA Least ==
  ASSUME NEW S, S \subseteq Nat, S # {}
  PROVE  \E x \in S : \A y \in S : x <= y
<1> DEFINE Lt == {ss \in Nat \X Nat : ss[1] < ss[2]}
<1>1. PICK x \in S : \A y \in S : ~(<<y, x>> \in Lt)
  <2>1. IsWellFoundedOn(Lt, Nat)
    BY NatLessThanWellFounded DEF OpToRel
  <2> HIDE DEF Lt
  <2> QED
    BY <2>1, WFMin
<1>2. ASSUME NEW y \in S PROVE x <= y
  <2>1. ~(y < x)
    BY <1>1
  <2> QED
    BY <2>1
<1> QED
  BY <1>2

\* What holds before a loop and is kept by every round holds after any number.
LEMMA AllRounds ==
  ASSUME NEW T, T \subseteq Nat, 0 \in T, \A n \in T : n + 1 \in T
  PROVE  T = Nat
<1>1. SUFFICES ASSUME Nat \ T # {} PROVE FALSE
  OBVIOUS
<1>2. PICK x \in Nat \ T : \A y \in Nat \ T : x <= y
  BY <1>1, Least
<1>3. x # 0 /\ x - 1 \in Nat /\ (x - 1) + 1 = x /\ ~(x <= x - 1)
  BY <1>2
<1> QED
  BY <1>2, <1>3

LEMMA MinOf ==
  ASSUME NEW S, S \subseteq Nat, S # {}
  PROVE  Min(S) \in S /\ \A y \in S : Min(S) <= y
<1>1. \E x \in S : \A y \in S : x <= y
  BY Least
<1> QED
  BY <1>1 DEF Min

LEMMA MaxOf ==
  ASSUME NEW n \in Nat, NEW S, S \subseteq 1..n, S # {}
  PROVE  Max(S) \in S /\ \A y \in S : Max(S) >= y
<1> DEFINE R == {n - x : x \in S}
<1>1. R \subseteq Nat /\ R # {}
  OBVIOUS
<1>2. PICK r \in R : \A y \in R : r <= y
  BY <1>1, Least
<1>3. PICK x \in S : r = n - x
  BY <1>2
<1>4. ASSUME NEW y \in S PROVE x >= y
  <2>1. n - y \in R
    OBVIOUS
  <2>2. n - x <= n - y
    BY <1>2, <1>3, <2>1
  <2> QED
    BY <2>2
<1>5. \E z \in S : \A y \in S : z >= y
  BY <1>4
<1> QED
  BY <1>5 DEF Max

LEMMA WrittenSingle ==
  ASSUME NEW s, Single(s), NEW c \in Class
  PROVE  Single(Written(s, c))
<1>1. ASSUME NEW x \in Char, s = <<>> \/ x = "a" \/ Last(s) # "-"
      PROVE  Single(Append(s, x))
  <2> DEFINE next == Append(s, x)
  <2>1. /\ s \in Seq(Char) /\ next \in Seq(Char) /\ Len(next) = Len(s) + 1 /\ next[Len(s) + 1] = x
        /\ \A i \in 1..Len(s) : next[i] = s[i]
    BY DEF Single
  <2>2. ASSUME NEW i \in 1..Len(next) - 1
        PROVE  next[i] = "a" \/ next[i + 1] = "a"
    <3> HIDE DEF next
    <3>1. CASE i = Len(s)
      <4>1. s # <<>> /\ s[i] \in Char /\ next[i] = s[i] /\ next[i + 1] = x
        BY <2>1, <3>1
      <4> QED
        BY <1>1, <3>1, <4>1 DEF Last, Char
    <3>2. CASE i # Len(s)
      <4>1. i \in 1..Len(s) - 1 /\ next[i] = s[i] /\ next[i + 1] = s[i + 1]
        BY <2>1, <3>2
      <4> QED
        BY <4>1 DEF Single
    <3> QED
      BY <3>1, <3>2
  <2> QED
    BY <2>1, <2>2 DEF Single
<1>2. "a" \in Char /\ "-" \in Char
  BY DEF Char
<1> QED
  BY <1>1, <1>2 DEF Written, Class

\* The rounds of the loop.
Spelling(done, m, name) ==
  done = [n \in 0..m |-> IF n = 0 THEN <<>> ELSE Written(done[n - 1], name[n])]

LEMMA SpellingRuns ==
  ASSUME NEW name \in Seq(Class)
  PROVE  \E done : Spelling(done, Len(name), name) /\ Spelled(name) = done[Len(name)]
<1> DEFINE T == {n \in Nat : \E k : Spelling(k, n, name)}
<1>1. 0 \in T
  <2>1. Spelling([n \in 0..0 |-> <<>>], 0, name)
    BY DEF Spelling
  <2> QED
    BY <2>1
<1>2. ASSUME NEW n \in T PROVE n + 1 \in T
  <2>1. PICK k : Spelling(k, n, name)
    BY <1>2
  <2> DEFINE more == [i \in 0..(n + 1) |-> IF i = n + 1 THEN Written(k[n], name[n + 1]) ELSE k[i]]
  <2>2. ASSUME NEW i \in 0..(n + 1)
        PROVE  more[i] = IF i = 0 THEN <<>> ELSE Written(more[i - 1], name[i])
    <3>1. CASE i = n + 1
      <4>1. i - 1 = n /\ n \in 0..(n + 1) /\ n # n + 1 /\ i # 0
        BY <3>1
      <4> QED
        BY <3>1, <4>1
    <3>2. CASE i # n + 1
      <4>1. i \in 0..n /\ (i # 0 => i - 1 \in 0..(n + 1) /\ i - 1 # n + 1)
        BY <3>2
      <4>2. k[i] = IF i = 0 THEN <<>> ELSE Written(k[i - 1], name[i])
        BY <2>1, <4>1 DEF Spelling
      <4> QED
        BY <3>2, <4>1, <4>2
    <3> QED
      BY <3>1, <3>2
  <2>3. Spelling(more, n + 1, name)
    <3>1. more = [i \in 0..(n + 1) |-> more[i]]
      OBVIOUS
    <3> HIDE DEF more
    <3> QED
      BY <2>2, <3>1 DEF Spelling
  <2> QED
    BY <2>3
<1>3. T = Nat
  <2>1. T \subseteq Nat
    OBVIOUS
  <2> HIDE DEF T
  <2> QED
    BY <1>1, <1>2, <2>1, AllRounds
<1>4. \E k : Spelling(k, Len(name), name)
  <2>1. Len(name) \in T
    <3> HIDE DEF T
    <3> QED
      BY <1>3
  <2> QED
    BY <2>1
<1>5. Spelling(CHOOSE k : Spelling(k, Len(name), name), Len(name), name)
  BY <1>4
<1> QED
  BY <1>5 DEF Spelled, Spelling

LEMMA SpelledSingle ==
  ASSUME NEW name \in Seq(Class)
  PROVE  Single(Spelled(name))
<1>1. PICK done : Spelling(done, Len(name), name) /\ Spelled(name) = done[Len(name)]
  BY SpellingRuns
<1> DEFINE T == {n \in Nat : n <= Len(name) => Single(done[n])}
<1>2. 0 \in T
  BY <1>1 DEF Spelling, Single
<1>3. ASSUME NEW n \in T PROVE n + 1 \in T
  <2>1. CASE n + 1 <= Len(name)
    <3>1. n + 1 \in 0..Len(name) /\ n \in 0..Len(name) /\ n + 1 # 0 /\ (n + 1) - 1 = n
      BY <2>1
    <3>2. done[n + 1] = Written(done[n], name[n + 1])
      BY <1>1, <3>1 DEF Spelling
    <3>3. name[n + 1] \in Class
      BY <2>1
    <3> QED
      BY <1>3, <3>1, <3>2, <3>3, WrittenSingle
  <2> QED
    BY <2>1
<1>4. T = Nat
  <2>1. T \subseteq Nat
    OBVIOUS
  <2> HIDE DEF T
  <2> QED
    BY <1>2, <1>3, <2>1, AllRounds
<1>5. Len(name) \in T
  BY <1>4
<1> QED
  BY <1>1, <1>5

\* A part of a word with single dashes is one.
LEMMA PartSingle ==
  ASSUME NEW s, Single(s), NEW m \in Nat, NEW n \in Nat, m >= 1, n <= Len(s)
  PROVE  /\ Single(SubSeq(s, m, n))
         /\ Len(SubSeq(s, m, n)) = IF m <= n THEN n - m + 1 ELSE 0
         /\ \A i \in 1..n - m + 1 : SubSeq(s, m, n)[i] = s[m + i - 1]
<1> DEFINE part == SubSeq(s, m, n)
<1>1. /\ part \in Seq(Char) /\ Len(part) = IF m <= n THEN n - m + 1 ELSE 0
      /\ \A i \in 1..n - m + 1 : part[i] = s[m + i - 1]
  BY DEF Single
<1>2. ASSUME NEW i \in 1..Len(part) - 1
      PROVE  part[i] = "a" \/ part[i + 1] = "a"
  <2> HIDE DEF part
  <2>1. /\ i \in 1..n - m + 1 /\ i + 1 \in 1..n - m + 1
        /\ m + i - 1 \in 1..Len(s) - 1 /\ m + (i + 1) - 1 = (m + i - 1) + 1
    BY <1>1, <1>2
  <2>2. part[i] = s[m + i - 1] /\ part[i + 1] = s[(m + i - 1) + 1]
    BY <1>1, <2>1
  <2> QED
    BY <2>1, <2>2 DEF Single
<1> QED
  BY <1>1, <1>2 DEF Single

\* It begins and ends with a letter, if it is not empty.
Bounded(s) == s # <<>> => s[1] = "a" /\ s[Len(s)] = "a"

LEMMA TrimSingle ==
  ASSUME NEW s, Single(s)
  PROVE  Single(Trim(s)) /\ Bounded(Trim(s)) /\ Len(Trim(s)) <= Len(s)
<1> DEFINE kept == {i \in DOMAIN s : s[i] # "-"}
<1>1. s \in Seq(Char) /\ DOMAIN s = 1..Len(s) /\ Len(s) \in Nat
  BY DEF Single
<1>2. CASE kept = {}
  <2>1. Trim(s) = <<>> /\ Len(<<>>) = 0 /\ <<>> \in Seq(Char)
    BY <1>2 DEF Trim
  <2> QED
    BY <1>1, <2>1 DEF Single, Bounded
<1>3. CASE kept # {}
  <2>1. kept \subseteq 1..Len(s) /\ kept \subseteq Nat
    BY <1>1
  <2>2. PICK m \in kept, n \in kept : m = Min(kept) /\ n = Max(kept) /\ m <= n
    <3> HIDE DEF kept
    <3>0. kept # {}
      BY <1>3
    <3>1. Min(kept) \in kept /\ Max(kept) \in kept
      BY <1>1, <3>0, <2>1, MinOf, MaxOf
    <3>2. Min(kept) <= Max(kept)
      BY <2>1, <3>0, <3>1, MinOf
    <3> QED
      BY <3>1, <3>2
  <2>3. Trim(s) = SubSeq(s, m, n)
    BY <1>3, <2>2 DEF Trim
  <2>4. /\ m \in 1..Len(s) /\ n \in 1..Len(s) /\ s[m] = "a" /\ s[n] = "a"
    BY <1>1, <2>2 DEF Char
  <2>5. /\ Single(SubSeq(s, m, n)) /\ Len(SubSeq(s, m, n)) = n - m + 1
        /\ \A i \in 1..n - m + 1 : SubSeq(s, m, n)[i] = s[m + i - 1]
    <3>1. m \in Nat /\ n \in Nat /\ m >= 1 /\ n <= Len(s) /\ m <= n
      BY <1>1, <2>2, <2>4
    <3> QED
      BY <3>1, PartSingle
  <2>6. /\ 1 \in 1..n - m + 1 /\ m + 1 - 1 = m
        /\ n - m + 1 \in 1..n - m + 1 /\ m + (n - m + 1) - 1 = n
    BY <2>2, <2>4
  <2>7. SubSeq(s, m, n)[1] = s[m] /\ SubSeq(s, m, n)[n - m + 1] = s[n]
    BY <2>5, <2>6
  <2> QED
    BY <2>3, <2>4, <2>5, <2>7 DEF Bounded
<1> QED
  BY <1>2, <1>3

LEMMA CutSingle ==
  ASSUME NEW s, Single(s)
  PROVE  Single(Cut(s)) /\ Len(Cut(s)) <= MaxSlugLen
<1>1. Len(s) \in Nat /\ MaxSlugLen \in Nat
  BY SlugAssumption DEF Single
<1>2. PICK n \in {Len(s), MaxSlugLen} : n = Min({Len(s), MaxSlugLen}) /\ n <= Len(s) /\ n <= MaxSlugLen
  BY <1>1, MinOf
<1>3. Single(SubSeq(s, 1, n)) /\ Len(SubSeq(s, 1, n)) <= n
  BY <1>1, <1>2, PartSingle
<1>4. Cut(s) = SubSeq(s, 1, n)
  BY <1>2 DEF Cut
<1>5. Len(SubSeq(s, 1, n)) \in Nat
  BY <1>3 DEF Single
<1> QED
  BY <1>1, <1>2, <1>3, <1>4, <1>5

\* What slugify answers.
Word(s) == Single(s) /\ Bounded(s) /\ s # <<>> /\ Len(s) <= MaxSlugLen

LEMMA SlugifyWord ==
  ASSUME NEW name \in Seq(Class)
  PROVE  Word(Slugify(name))
<1> DEFINE s == Trim(Cut(Trim(Spelled(name))))
<1>1. Single(s) /\ Bounded(s) /\ Len(s) <= MaxSlugLen
  <2>1. PICK t : t = Cut(Trim(Spelled(name)))
    OBVIOUS
  <2>2. Single(t) /\ Len(t) <= MaxSlugLen
    BY <2>1, SpelledSingle, TrimSingle, CutSingle
  <2>3. Single(Trim(t)) /\ Bounded(Trim(t)) /\ Len(Trim(t)) <= Len(t)
    BY <2>2, TrimSingle
  <2> QED
    BY <2>1, <2>2, <2>3, SlugAssumption DEF Single
<1>2. PICK w : w = [i \in 1..5 |-> "a"]
  OBVIOUS
<1>3. w \in Seq(Char) /\ Len(w) = 5 /\ w # <<>> /\ \A i \in 1..5 : w[i] = "a"
  BY <1>2 DEF Char
<1>4. Word(w)
  BY <1>3, SlugAssumption DEF Word, Single, Bounded
<1> HIDE DEF s
<1>5. Slugify(name) = IF s = <<>> THEN w ELSE s
  BY <1>2 DEF Slugify, OrAlbum, s
<1> QED
  BY <1>1, <1>4, <1>5 DEF Word

LEMMA WordValid ==
  ASSUME NEW s, Word(s)
  PROVE  ValidSlug(s) /\ ValidSlug(Suffixed(s))
<1>1. s \in Seq(Char) /\ Len(s) \in Nat /\ Len(s) >= 1 /\ MaxSlugLen \in Nat
  BY SlugAssumption DEF Word, Single
<1>2. ValidSlug(s)
  BY <1>1 DEF Word, Single, Bounded, ValidSlug, Last
<1>3. PICK e : e = <<"-", "a", "a", "a", "a">>
  OBVIOUS
<1>4. e \in Seq(Char) /\ Len(e) = 5 /\ \A i \in 2..5 : e[i] = "a"
  BY <1>3 DEF Char
<1>5. PICK t : t = s \o e
  OBVIOUS
<1>6. /\ t \in Seq(Char) /\ Len(t) = Len(s) + 5
      /\ \A i \in 1..Len(s) : t[i] = s[i]
      /\ \A i \in 2..5 : t[Len(s) + i] = "a"
  <2>1. /\ t \in Seq(Char) /\ Len(t) = Len(s) + 5
        /\ \A i \in 1..Len(s) + 5 : t[i] = IF i <= Len(s) THEN s[i] ELSE e[i - Len(s)]
    <3>1. s \in Seq(Char) /\ e \in Seq(Char) /\ Len(e) = 5
      BY <1>1, <1>4
    <3>2. /\ s \o e \in Seq(Char) /\ Len(s \o e) = Len(s) + Len(e)
          /\ \A i \in 1..Len(s) + Len(e) : (s \o e)[i] = IF i <= Len(s) THEN s[i] ELSE e[i - Len(s)]
      BY <3>1, ConcatProperties
    <3> QED
      BY <1>5, <3>1, <3>2
  <2>2. ASSUME NEW i \in 2..5 PROVE t[Len(s) + i] = e[i]
    <3>1. Len(s) + i \in 1..Len(s) + 5 /\ ~(Len(s) + i <= Len(s)) /\ (Len(s) + i) - Len(s) = i
      BY <1>1
    <3> QED
      BY <2>1, <3>1
  <2>3. ASSUME NEW i \in 1..Len(s) PROVE t[i] = s[i]
    <3>1. i \in 1..Len(s) + 5 /\ i <= Len(s)
      BY <1>1
    <3> QED
      BY <2>1, <3>1
  <2> QED
    BY <1>4, <2>1, <2>2, <2>3
<1>7. ASSUME NEW i \in 1..Len(t) - 1
      PROVE  t[i] = "a" \/ t[i + 1] = "a"
  <2>1. CASE i < Len(s)
    BY <1>1, <1>6, <2>1 DEF Word, Single
  <2>2. CASE i = Len(s)
    BY <1>1, <1>6, <2>2 DEF Word, Bounded
  <2>3. CASE i > Len(s)
    <3>1. i + 1 - Len(s) \in 2..5 /\ Len(s) + (i + 1 - Len(s)) = i + 1
      BY <1>1, <1>6, <2>3
    <3> QED
      BY <1>6, <3>1
  <2> QED
    BY <1>1, <2>1, <2>2, <2>3
<1>8. ValidSlug(t)
  <2>1. t[1] = "a" /\ t[Len(t)] = "a" /\ t # <<>> /\ Len(t) <= MaxSlugLen + 5
    <3>1. t[1] = s[1] /\ s[1] = "a"
      BY <1>1, <1>6 DEF Word, Bounded
    <3>2. t[Len(s) + 5] = "a"
      BY <1>6
    <3> QED
      BY <1>1, <1>6, <3>1, <3>2 DEF Word
  <2> QED
    BY <1>7, <2>1 DEF ValidSlug, Last
<1> QED
  BY <1>2, <1>3, <1>5, <1>8 DEF Suffixed

\* Whatever a collection is called, the slug its album gets, at once or after a
\* collision, is one that requests are routed by ("validSlug reports whether s
\* could have been produced by slugify", access.go:12).
THEOREM SlugsServed ==
  ASSUME MaxNameLen \in Nat
  PROVE  Spec => []SlugsAreServed
<1>1. ASSUME NEW name \in BoundedSeq(Class, MaxNameLen)
      PROVE  name \in Seq(Class)
  BY <1>1 DEF BoundedSeq, SeqOf
<1>2. Slug \subseteq MCServed
  BY <1>1, SlugifyWord, WordValid DEF MCServed
<1>3. TypeInv => SlugsAreServed
  BY <1>2 DEF TypeInv, RowsOK, Albums, Live, SlugsAreServed
<1> QED
  BY <1>3, InitType, TypeStep, PTL DEF Spec
================================================================================
