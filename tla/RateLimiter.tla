----------------------------- MODULE RateLimiter -----------------------------
(***************************************************************************)
(* RateLimiter of internal/auth/ratelimit.go.  Allow runs under the        *)
(* limiter's mutex and is one step: Allowed when it answers true, Refused  *)
(* when it answers false.  The unit of time is the one in which a bucket   *)
(* gains one token; fractions of a token are left out.                     *)
(***************************************************************************)
EXTENDS Naturals, FiniteSets

CONSTANTS
  Key,         \* "ip|slug"
  Capacity,    \* unlockBurst
  MaxKeys,     \* unlockMaxKeys
  SweepEvery,  \* sweepInterval
  MaxTime,     \* bound on the clock
  None

Bucket == [tokens : 0..Capacity, last : 0..MaxTime]

ASSUME LimiterAssumption ==
  /\ Capacity \in Nat \ {0} /\ MaxKeys \in Nat \ {0}
  /\ SweepEvery \in Nat /\ MaxTime \in Nat
  /\ IsFiniteSet(Key)
  /\ None \notin Bucket

VARIABLES
  now,       \* the clock
  buckets,   \* each key's bucket, None when the map has none
  lastSweep, \* when the map was last swept
  passed     \* history: how often each key was let through since the start

limiter == <<now, buckets, lastSweep, passed>>

LimiterInit == /\ now = 0
               /\ buckets = [k \in Key |-> None]
               /\ lastSweep = 0
               /\ passed = [k \in Key |-> 0]

\* A bucket's tokens at this moment.
Refilled(b) == IF b.tokens + (now - b.last) < Capacity
               THEN b.tokens + (now - b.last) ELSE Capacity

Tracked(bs) == {k \in Key : bs[k] # None}

\* Mutant of Swept: every bucket that has a token again is dropped.
SweptEarly(bs) == [k \in Key |-> IF bs[k] # None /\ Refilled(bs[k]) > 0 THEN None ELSE bs[k]]

\* The buckets that are full again are dropped.
Swept(bs) == [k \in Key |-> IF bs[k] # None /\ Refilled(bs[k]) = Capacity THEN None ELSE bs[k]]

SweepDue == now - lastSweep >= SweepEvery
AfterDue == IF SweepDue THEN Swept(buckets) ELSE buckets

\* Mutant of Crowded: off by one.
CrowdedLate(bs, k) == bs[k] = None /\ Cardinality(Tracked(bs)) > MaxKeys

\* A new key finds the map full.
Crowded(bs, k) == bs[k] = None /\ Cardinality(Tracked(bs)) >= MaxKeys

\* Mutant of Kept: no sweep is forced for a new key.
KeptUnforced(k) == AfterDue

\* What the map holds when k's own bucket is looked at.
Kept(k) == IF Crowded(AfterDue, k) THEN Swept(AfterDue) ELSE AfterDue

Level(bs, k) == IF bs[k] = None THEN Capacity ELSE Refilled(bs[k])

SweepFor(k) == lastSweep' = IF SweepDue \/ Crowded(AfterDue, k) THEN now ELSE lastSweep

Put(k, tokens) == buckets' = [Kept(k) EXCEPT ![k] = [tokens |-> tokens, last |-> now]]

Count(k) == passed' = [passed EXCEPT ![k] = @ + 1]

\* Mutant of Allowed: the refill is counted from the first attempt on.
AllowedKeepsLast(k) ==
  /\ ~Crowded(Kept(k), k) /\ Level(Kept(k), k) >= 1
  /\ buckets' = [Kept(k) EXCEPT ![k] =
       [tokens |-> Level(Kept(k), k) - 1,
        last |-> IF Kept(k)[k] = None THEN now ELSE Kept(k)[k].last]]
  /\ SweepFor(k) /\ Count(k)
  /\ UNCHANGED now

Allowed(k) ==
  /\ ~Crowded(Kept(k), k) /\ Level(Kept(k), k) >= 1
  /\ Put(k, Level(Kept(k), k) - 1)
  /\ SweepFor(k) /\ Count(k)
  /\ UNCHANGED now

Refused(k) ==
  /\ \/ Crowded(Kept(k), k) /\ buckets' = Kept(k)
     \/ ~Crowded(Kept(k), k) /\ Level(Kept(k), k) = 0 /\ Put(k, 0)
  /\ SweepFor(k)
  /\ UNCHANGED <<now, passed>>

Tick == /\ now < MaxTime
        /\ now' = now + 1
        /\ UNCHANGED <<buckets, lastSweep, passed>>

\* A new process starts with an empty map.
Forget == /\ buckets' = [k \in Key |-> None]
          /\ lastSweep' = now
          /\ passed' = [k \in Key |-> 0]
          /\ UNCHANGED now

LimiterNext == Tick \/ Forget \/ \E k \in Key : Allowed(k) \/ Refused(k)

LimiterSpec == LimiterInit /\ [][LimiterNext]_limiter
-----------------------------------------------------------------------------
LimiterType == /\ now \in 0..MaxTime
               /\ buckets \in [Key -> Bucket \cup {None}]
               /\ lastSweep \in 0..now
               /\ \A k \in Tracked(buckets) : buckets[k].last <= now
               /\ passed \in [Key -> Nat]

levels == [k \in Key |-> Level(buckets, k)]

Ideal == INSTANCE TokenBuckets WITH time <- now, level <- levels

\* Bounding and sweeping the map is invisible: whoever is let through takes a
\* token of a bucket that has one and nothing but time gives tokens back, as if
\* no bucket were ever forgotten (sweep, ratelimit.go:84-95).
ImplementsBuckets == Ideal!Spec

\* The map stays within its bound ("tracks at most maxKeys distinct keys").
KeysBounded == Cardinality(Tracked(buckets)) <= MaxKeys
=============================================================================
