----------------------------- MODULE PhotoLocks -----------------------------
(***************************************************************************)
(* photoLocks of internal/library/library.go: a map with a counted mutex   *)
(* for every photo in use.  One action per critical section of             *)
(* photoLocks.mu and per operation on a photo's own mutex.                 *)
(***************************************************************************)
EXTENDS Naturals, FiniteSets

CONSTANTS
  Thread,  \* goroutines that call lock: request handlers and the worker
  Photo,
  Mutex,   \* photoLock values; one nobody points to any more may be reused
  None

ASSUME LocksAssumption ==
  /\ IsFiniteSet(Thread)
  /\ None \notin Thread \cup Photo \cup Mutex

VARIABLES
  m,      \* photoLocks.m: the photo's mutex, while it has one
  refs,   \* holders and waiters of each mutex
  owner,  \* who has locked it
  pc,     \* how far each thread is: out, wait, in, leave
  id,     \* the photo its call is for
  l       \* the mutex its call found there

vars == <<m, refs, owner, pc, id, l>>

Init ==
  /\ m = [p \in Photo |-> None]
  /\ refs = [x \in Mutex |-> 0] /\ owner = [x \in Mutex |-> None]
  /\ pc = [t \in Thread |-> "out"]
  /\ id = [t \in Thread |-> None] /\ l = [t \in Thread |-> None]

Garbage == {x \in Mutex : (\A t \in Thread : l[t] # x) /\ \A p \in Photo : m[p] # x}

\* Mutant of Enter: the map is read before photoLocks.mu is taken, so each of
\* two callers may make a mutex of its own.
EnterUnguarded(t, p) ==
  /\ pc[t] = "out"
  /\ \E x \in Garbage :
       /\ m' = [m EXCEPT ![p] = x]
       /\ refs' = [refs EXCEPT ![x] = @ + 1]
       /\ l' = [l EXCEPT ![t] = x]
  /\ id' = [id EXCEPT ![t] = p]
  /\ pc' = [pc EXCEPT ![t] = "wait"]
  /\ UNCHANGED owner

\* Under photoLocks.mu: find or make the photo's mutex and count ourselves in.
Enter(t, p) ==
  /\ pc[t] = "out"
  /\ \E x \in Mutex :
       /\ IF m[p] = None THEN x \in Garbage ELSE x = m[p]
       /\ m' = [m EXCEPT ![p] = x]
       /\ refs' = [refs EXCEPT ![x] = @ + 1]
       /\ l' = [l EXCEPT ![t] = x]
  /\ id' = [id EXCEPT ![t] = p]
  /\ pc' = [pc EXCEPT ![t] = "wait"]
  /\ UNCHANGED owner

\* Mutant of Acquire: whoever does not get the mutex at once gives up.
AcquireOrSkip(t) ==
  /\ pc[t] = "wait"
  /\ pc' = [pc EXCEPT ![t] = IF owner[l[t]] = None THEN "in" ELSE "leave"]
  /\ owner' = IF owner[l[t]] = None THEN [owner EXCEPT ![l[t]] = t] ELSE owner
  /\ UNCHANGED <<m, refs, id, l>>

Acquire(t) ==
  /\ pc[t] = "wait" /\ owner[l[t]] = None
  /\ owner' = [owner EXCEPT ![l[t]] = t]
  /\ pc' = [pc EXCEPT ![t] = "in"]
  /\ UNCHANGED <<m, refs, id, l>>

\* The unlock function: the mutex first ...
Release(t) ==
  /\ pc[t] = "in"
  /\ owner' = [owner EXCEPT ![l[t]] = None]
  /\ pc' = [pc EXCEPT ![t] = "leave"]
  /\ UNCHANGED <<m, refs, id, l>>

\* Mutants of Leave: the entry goes though others wait for it, or stays, or the
\* unlock function can be called again.
LeaveAndDelete(t) ==
  /\ pc[t] = "leave"
  /\ refs' = [refs EXCEPT ![l[t]] = @ - 1]
  /\ m' = [m EXCEPT ![id[t]] = None]
  /\ pc' = [pc EXCEPT ![t] = "out"]
  /\ id' = [id EXCEPT ![t] = None] /\ l' = [l EXCEPT ![t] = None]
  /\ UNCHANGED owner

LeaveAndKeep(t) ==
  /\ pc[t] = "leave"
  /\ refs' = [refs EXCEPT ![l[t]] = @ - 1]
  /\ pc' = [pc EXCEPT ![t] = "out"]
  /\ id' = [id EXCEPT ![t] = None] /\ l' = [l EXCEPT ![t] = None]
  /\ UNCHANGED <<m, owner>>

LeaveAgain(t) ==
  /\ pc[t] = "leave"
  /\ refs' = [refs EXCEPT ![l[t]] = @ - 1]
  /\ m' = IF refs'[l[t]] = 0 THEN [m EXCEPT ![id[t]] = None] ELSE m
  /\ UNCHANGED <<owner, pc, id, l>>

\* ... then, under photoLocks.mu, count ourselves out; the last one removes
\* the entry.
Leave(t) ==
  /\ pc[t] = "leave"
  /\ refs' = [refs EXCEPT ![l[t]] = @ - 1]
  /\ m' = IF refs'[l[t]] = 0 THEN [m EXCEPT ![id[t]] = None] ELSE m
  /\ pc' = [pc EXCEPT ![t] = "out"]
  /\ id' = [id EXCEPT ![t] = None] /\ l' = [l EXCEPT ![t] = None]
  /\ UNCHANGED owner

Next == \E t \in Thread : \/ \E p \in Photo : Enter(t, p)
                          \/ Acquire(t) \/ Release(t) \/ Leave(t)

Spec == Init /\ [][Next]_vars

\* A holder finishes its work and unlocks; sync.Mutex lets no waiter starve.
Fairness == \A t \in Thread : SF_vars(Acquire(t)) /\ WF_vars(Release(t)) /\ WF_vars(Leave(t))

FairSpec == Spec /\ Fairness
-----------------------------------------------------------------------------
TypeOK ==
  /\ m \in [Photo -> Mutex \cup {None}]
  /\ refs \in [Mutex -> Nat]
  /\ owner \in [Mutex -> Thread \cup {None}]
  /\ pc \in [Thread -> {"out", "wait", "in", "leave"}]
  /\ id \in [Thread -> Photo \cup {None}]
  /\ l \in [Thread -> Mutex \cup {None}]

\* No two operations are ever inside on one photo (library.go:5-7), also when
\* the photo's entry is removed and made anew between them.
OneHolder ==
  \A t, u \in Thread : pc[t] = "in" /\ pc[u] = "in" /\ id[t] = id[u] => t = u

\* "An entry exists only while someone holds or waits for it" (library.go:84-86),
\* and then it does: a waiter's mutex is never replaced behind its back.
EntryIffInUse ==
  \A p \in Photo :
    {x \in Mutex : x = m[p]} = {l[t] : t \in {u \in Thread : pc[u] # "out" /\ id[u] = p}}

\* Whoever waits for a photo gets it.
WaitersEnter == \A t \in Thread : pc[t] = "wait" ~> pc[t] = "in"

holderOf == [p \in Photo |-> IF m[p] = None THEN None ELSE owner[m[p]]]
wantsOf == [t \in Thread |-> IF pc[t] \in {"wait", "in"} THEN id[t] ELSE None]

Mutexes == INSTANCE PhotoMutex WITH holder <- holderOf, wants <- wantsOf

\* The map of counted mutexes behaves as one mutex per photo.
ImplementsMutex == Mutexes!Spec
=============================================================================
