---------------------------- MODULE VariantWorker ----------------------------
(***************************************************************************)
(* variantWorker of internal/api/variants.go, one action per critical      *)
(* section of w.mu and per channel operation: what PhotoLibrary takes as   *)
(* one kick and one drain.  An upload here is the write of its row and the *)
(* kick that follows; a render is one step.                                *)
(***************************************************************************)
EXTENDS Naturals

CONSTANTS
  Photo,
  Hash,     \* content hashes
  Handler,  \* request goroutines that store a photo and kick
  None,
  MaxEnds,  \* bound: how often the process stops or dies
  MaxErrs   \* bound: failed lists and uploads that fail before their kick

ASSUME WorkerAssumption == None \notin Hash /\ MaxEnds \in Nat /\ MaxErrs \in Nat

VARIABLES
  pending,  \* the photos table: the content hash of each photo with variants_ready = 0
  pc, ph,   \* each handler: out, kick (the row is written), send (kicked is set); its photo
  wake,     \* the channel of capacity 1 holds a token
  kicked, busy, failed, stopped,  \* the fields behind w.mu
  w,        \* run: new, select, begin, list, each, end, stopped
  todo,     \* the drain's photos, as <<id, hash>> when they were listed
  down,     \* ctx is cancelled
  unseen,   \* history: pending photos only a tick or a restart will find
  ends, errs

rows == <<pending, unseen>>
handlers == <<pc, ph>>
flags == <<kicked, busy, failed, stopped>>
bounds == <<down, ends, errs>>
vars == <<rows, handlers, wake, flags, w, todo, bounds>>

Pending == {p \in Photo : pending[p] # None}

\* newVariantWorker: nothing is known but the table, and one kick is due.
Init ==
  /\ kicked = TRUE /\ wake = TRUE
  /\ busy = FALSE /\ failed = {} /\ stopped = FALSE
  /\ w = "new" /\ todo = {} /\ down = FALSE
  /\ pc = [h \in Handler |-> "out"] /\ ph = [h \in Handler |-> None]
  /\ pending \in [Photo -> Hash \cup {None}] /\ unseen = {}
  /\ ends = 0 /\ errs = 0
-----------------------------------------------------------------------------
(* The handlers                                                            *)

\* Ingest stores photo p with variants_ready = 0 ...
Store(h, p) ==
  /\ pc[h] = "out"
  /\ \E c \in Hash : pending' = [pending EXCEPT ![p] = c]
  /\ pc' = [pc EXCEPT ![h] = "kick"] /\ ph' = [ph EXCEPT ![h] = p]
  /\ UNCHANGED <<unseen, wake, flags, w, todo, bounds>>

\* ... or fails after MarkPending, and then does not kick.
StoreFails(h, p) ==
  /\ pc[h] = "out" /\ errs < MaxErrs
  /\ errs' = errs + 1
  /\ \E c \in Hash : pending' = [pending EXCEPT ![p] = c]
  /\ unseen' = unseen \cup {p}
  /\ UNCHANGED <<handlers, wake, flags, w, todo, down, ends>>

\* Remove deletes the row.
Delete(p) ==
  /\ p \in Pending
  /\ pending' = [pending EXCEPT ![p] = None] /\ unseen' = unseen \ {p}
  /\ UNCHANGED <<handlers, wake, flags, w, todo, bounds>>

\* Mutant of SetKicked: only an idle worker is told.
SetKickedIfIdle(h) ==
  /\ pc[h] = "kick"
  /\ kicked' = (kicked \/ ~busy)
  /\ pc' = [pc EXCEPT ![h] = IF busy THEN "out" ELSE "send"]
  /\ UNCHANGED <<rows, ph, wake, busy, failed, stopped, w, todo, bounds>>

\* kick: the flag under w.mu, then the token unless there is one.
SetKicked(h) ==
  /\ pc[h] = "kick"
  /\ kicked' = TRUE
  /\ pc' = [pc EXCEPT ![h] = "send"]
  /\ UNCHANGED <<rows, ph, wake, busy, failed, stopped, w, todo, bounds>>

Send(h) ==
  /\ pc[h] = "send"
  /\ wake' = TRUE
  /\ pc' = [pc EXCEPT ![h] = "out"]
  /\ UNCHANGED <<rows, ph, flags, w, todo, bounds>>
-----------------------------------------------------------------------------
(* run and drain                                                           *)

Run == /\ w = "new"
       /\ w' = "select" /\ stopped' = FALSE
       /\ UNCHANGED <<rows, handlers, wake, kicked, busy, failed, todo, bounds>>

TakeToken == /\ w = "select" /\ wake
             /\ wake' = FALSE /\ w' = "begin"
             /\ UNCHANGED <<rows, handlers, flags, todo, bounds>>

\* The retry interval has passed: forget the failures and look again.
Tick == /\ w = "select"
        /\ failed' = {} /\ w' = "begin"
        /\ unseen' = unseen \cup {p \in Pending : <<p, pending[p]>> \in failed}
        /\ UNCHANGED <<pending, handlers, wake, kicked, busy, stopped, todo, bounds>>

\* Mutant of Begin: the flag of the kick stays.
BeginKeepsKicked ==
  /\ w = "begin"
  /\ busy' = TRUE /\ w' = "list"
  /\ UNCHANGED <<rows, handlers, wake, kicked, failed, stopped, todo, bounds>>

Begin == /\ w = "begin"
         /\ kicked' = FALSE /\ busy' = TRUE /\ w' = "list"
         /\ UNCHANGED <<rows, handlers, wake, failed, stopped, todo, bounds>>

\* ListPhotosPendingVariants.
List == /\ w = "list" /\ ~down
        /\ todo' = {<<p, pending[p]>> : p \in Pending}
        /\ unseen' = {} /\ w' = "each"
        /\ UNCHANGED <<pending, handlers, wake, flags, bounds>>

\* The list cannot be read, for an error or because ctx is cancelled.
ListFails == /\ w = "list" /\ (down \/ errs < MaxErrs)
             /\ errs' = IF down THEN errs ELSE errs + 1
             /\ unseen' = unseen \cup Pending /\ w' = "end"
             /\ UNCHANGED <<pending, handlers, wake, flags, todo, down, ends>>

\* Mutant of Handle: a failure is noted under the hash the row has by then.
HandleByRow(p, c) ==
  /\ w = "each" /\ ~down /\ <<p, c>> \in todo
  /\ todo' = todo \ {<<p, c>>}
  /\ \/ <<p, c>> \in failed /\ UNCHANGED <<pending, failed>>
     \/ <<p, c>> \notin failed /\ failed' = failed \cup {<<p, pending[p]>>} /\ UNCHANGED pending
     \/ <<p, c>> \notin failed /\ pending' = [pending EXCEPT ![p] = None] /\ UNCHANGED failed
  /\ unseen' = unseen \cap {q \in Photo : pending'[q] # None}
  /\ UNCHANGED <<handlers, wake, kicked, busy, stopped, w, bounds>>

\* One photo of the list, unless its key has failed before.  Render works on
\* the row of this moment; the key that fails is the listed one.
Handle(p, c) ==
  /\ w = "each" /\ ~down /\ <<p, c>> \in todo
  /\ todo' = todo \ {<<p, c>>}
  /\ \/ <<p, c>> \in failed /\ UNCHANGED <<pending, failed>>
     \/ <<p, c>> \notin failed /\ failed' = failed \cup {<<p, c>>} /\ UNCHANGED pending
     \/ <<p, c>> \notin failed /\ pending' = [pending EXCEPT ![p] = None] /\ UNCHANGED failed
  /\ unseen' = unseen \cap {q \in Photo : pending'[q] # None}
  /\ UNCHANGED <<handlers, wake, kicked, busy, stopped, w, bounds>>

\* The list is done, or ctx is cancelled and what is left stays pending.
Drained == /\ w = "each" /\ (todo = {} \/ down)
           /\ todo' = {} /\ w' = "end"
           /\ unseen' = unseen \cup (Pending \cap {t[1] : t \in todo})
           /\ UNCHANGED <<pending, handlers, wake, flags, bounds>>

\* Mutant of End: also forgets the kicks that came during the drain.
EndLate == /\ w = "end"
           /\ busy' = FALSE /\ kicked' = FALSE /\ w' = "select"
           /\ UNCHANGED <<rows, handlers, wake, failed, stopped, todo, bounds>>

End == /\ w = "end"
       /\ busy' = FALSE /\ w' = "select"
       /\ UNCHANGED <<rows, handlers, wake, kicked, failed, stopped, todo, bounds>>

Stop == /\ w = "select" /\ down
        /\ stopped' = TRUE /\ w' = "stopped"
        /\ UNCHANGED <<rows, handlers, wake, kicked, busy, failed, todo, bounds>>
-----------------------------------------------------------------------------
(* The process                                                             *)

\* main calls stop() on a signal; handlers still run.
Cancel == /\ ~down /\ ends < MaxEnds
          /\ down' = TRUE /\ ends' = ends + 1
          /\ UNCHANGED <<rows, handlers, wake, flags, w, todo, errs>>

\* A new process, after a shutdown or a crash at any moment.
Restart ==
  /\ IF down THEN ends' = ends ELSE ends < MaxEnds /\ ends' = ends + 1
  /\ kicked' = TRUE /\ wake' = TRUE
  /\ busy' = FALSE /\ failed' = {} /\ stopped' = FALSE
  /\ w' = "new" /\ todo' = {} /\ down' = FALSE
  /\ pc' = [h \in Handler |-> "out"] /\ ph' = [h \in Handler |-> None]
  /\ unseen' = {}
  /\ UNCHANGED <<pending, errs>>

Worker == \/ Run \/ TakeToken \/ Begin \/ List \/ ListFails \/ Drained \/ End \/ Stop
          \/ \E p \in Photo, c \in Hash : Handle(p, c)

Next == \/ Worker \/ Tick \/ Cancel \/ Restart
        \/ \E p \in Photo : Delete(p)
        \/ \E h \in Handler : \/ SetKicked(h) \/ Send(h)
                              \/ \E p \in Photo : Store(h, p) \/ StoreFails(h, p)

Spec == Init /\ [][Next]_vars

\* Goroutines run; a list that can be read is read.  Nothing is said of Tick:
\* a kick must do without it.
FairSpec == /\ Spec /\ WF_vars(Worker)
            /\ \A h \in Handler : WF_vars(SetKicked(h)) /\ WF_vars(Send(h))
-----------------------------------------------------------------------------
TypeOK ==
  /\ pending \in [Photo -> Hash \cup {None}]
  /\ pc \in [Handler -> {"out", "kick", "send"}]
  /\ ph \in [Handler -> Photo \cup {None}]
  /\ wake \in BOOLEAN /\ kicked \in BOOLEAN /\ busy \in BOOLEAN /\ stopped \in BOOLEAN
  /\ down \in BOOLEAN
  /\ failed \subseteq Photo \X Hash /\ todo \subseteq Photo \X Hash
  /\ w \in {"new", "select", "begin", "list", "each", "end", "stopped"}
  /\ unseen \subseteq Pending
  /\ ends \in 0..MaxEnds /\ errs \in 0..MaxErrs

\* What idle() answers.
idle == ~busy /\ ~kicked /\ ~wake

\* Nobody is between the row of p and its kick.
Quiet(p) == \A h \in Handler : ~(pc[h] = "kick" /\ ph[h] = p)

\* When idle() is true, every pending photo whose kick was made has been tried
\* and has failed, whatever handlers and the loop were doing (variants.go:109-112).
IdleMeansTried ==
  idle => \A p \in Pending \ unseen : Quiet(p) => <<p, pending[p]>> \in failed

\* A kick that is not picked up yet has a token, or somebody about to act on it:
\* idle() cannot stay false for ever with nothing to wait for.
NoLostKick ==
  kicked => wake \/ w = "begin" \/ \E h \in Handler : pc[h] = "send"

\* A stored original is rendered, tried, replaced or deleted without waiting for
\* the tick, also when its kick came in the middle of a drain (variants.go:54-55),
\* unless a list fails or the process is on its way out.
KickSuffices ==
  \A p \in Photo, c \in Hash :
    pending[p] = c /\ p \notin unseen
      ~> pending[p] # c \/ <<p, c>> \in failed \/ p \in unseen \/ down
=============================================================================
