--------------------------- MODULE AlbumAccessProofs ---------------------------
(***************************************************************************)
(* The rate limiter, for any number of keys; and on top of it who may see  *)
(* an album, for any browsers, albums, passwords, changes and unlocks.     *)
(***************************************************************************)
EXTENDS AlbumAccess, Integers, FiniteSetTheorems, WellFoundedInduction, TLAPS

Maps == [Key -> Bucket \cup {None}]
Past(bs) == \A k \in Tracked(bs) : bs[k].last <= now
Bounded(bs) == Cardinality(Tracked(bs)) <= MaxKeys

LInv == LimiterType /\ KeysBounded

-----------------------------------------------------------------------------
(* Levels. *)

LEMMA BucketFacts ==
  ASSUME NEW bs \in Maps, NEW k \in Key, bs[k] # None
  PROVE  /\ bs[k].tokens \in 0..Capacity /\ bs[k].tokens \in Nat
         /\ bs[k].last \in 0..MaxTime /\ bs[k].last \in Nat
<1>1. bs[k] \in Bucket
  BY DEF Maps
<1> QED
  BY <1>1, LimiterAssumption DEF Bucket

\* What is swept away was full: nobody's level changes.
LEMMA SweptLevels ==
  ASSUME NEW bs \in Maps, NEW k \in Key
  PROVE  Level(Swept(bs), k) = Level(bs, k)
<1>1. CASE bs[k] = None
  BY <1>1 DEF Level, Swept, Refilled
<1>2. CASE bs[k] # None /\ Refilled(bs[k]) = Capacity
  <2>1. Swept(bs)[k] = None
    BY <1>2 DEF Swept
  <2> QED
    BY <1>2, <2>1 DEF Level
<1>3. CASE bs[k] # None /\ Refilled(bs[k]) # Capacity
  <2>1. Swept(bs)[k] = bs[k]
    BY <1>3 DEF Swept
  <2> QED
    BY <1>3, <2>1 DEF Level
<1> QED
  BY <1>1, <1>2, <1>3

LEMMA SweptType ==
  ASSUME NEW bs \in Maps
  PROVE  /\ Swept(bs) \in Maps
         /\ Tracked(Swept(bs)) \subseteq Tracked(bs)
         /\ \A k \in Tracked(Swept(bs)) : Swept(bs)[k] = bs[k]
BY DEF Swept, Maps, Tracked

\* ... however often the map is swept before a key's own bucket is looked at.
LEMMA KeptLevels ==
  ASSUME buckets \in Maps, NEW k \in Key, NEW j \in Key
  PROVE  Level(Kept(k), j) = Level(buckets, j)
<1>1. AfterDue \in Maps /\ Level(AfterDue, j) = Level(buckets, j)
  BY SweptLevels, SweptType DEF AfterDue
<1>2. Level(Swept(AfterDue), j) = Level(AfterDue, j)
  BY <1>1, SweptLevels
<1> QED
  BY <1>1, <1>2 DEF Kept

LEMMA KeptType ==
  ASSUME buckets \in Maps, Past(buckets), NEW k \in Key
  PROVE  /\ Kept(k) \in Maps
         /\ Past(Kept(k))
         /\ Tracked(Kept(k)) \subseteq Tracked(buckets)
<1>1. AfterDue \in Maps /\ Past(AfterDue) /\ Tracked(AfterDue) \subseteq Tracked(buckets)
  BY SweptType DEF AfterDue, Past
<1>2. /\ Swept(AfterDue) \in Maps /\ Past(Swept(AfterDue))
      /\ Tracked(Swept(AfterDue)) \subseteq Tracked(AfterDue)
  BY <1>1, SweptType DEF Past
<1> QED
  BY <1>1, <1>2 DEF Kept

LEMMA LevelType ==
  ASSUME NEW bs \in Maps, Past(bs), now \in Nat, NEW k \in Key
  PROVE  Level(bs, k) \in 0..Capacity /\ Level(bs, k) \in Nat
<1>1. CASE bs[k] = None
  BY <1>1, LimiterAssumption DEF Level
<1>2. CASE bs[k] # None
  <2>1. bs[k].tokens \in Nat /\ bs[k].last \in Nat /\ bs[k].last <= now
    BY <1>2, BucketFacts DEF Past, Tracked
  <2>2. Refilled(bs[k]) \in 0..Capacity
    BY <2>1, LimiterAssumption DEF Refilled
  <2> QED
    BY <1>2, <2>2, LimiterAssumption DEF Level
<1> QED
  BY <1>1, <1>2

-----------------------------------------------------------------------------
(* Type and bound. *)

LEMMA TrackedFinite ==
  ASSUME NEW bs
  PROVE  IsFiniteSet(Tracked(bs)) /\ Cardinality(Tracked(bs)) \in Nat
<1>1. Tracked(bs) \subseteq Key
  BY DEF Tracked
<1> QED
  BY <1>1, LimiterAssumption, FS_Subset, FS_CardinalityType

LEMMA KeptBounded ==
  ASSUME buckets \in Maps, Past(buckets), KeysBounded, NEW k \in Key
  PROVE  Bounded(Kept(k))
<1>1. Tracked(Kept(k)) \subseteq Tracked(buckets)
  BY KeptType
<1>2. Cardinality(Tracked(Kept(k))) <= Cardinality(Tracked(buckets))
  BY <1>1, TrackedFinite, FS_Subset
<1> QED
  BY <1>2, TrackedFinite, LimiterAssumption DEF KeysBounded, Bounded

\* A bucket is put into the map only when there is room for it.
LEMMA PutOK ==
  ASSUME LInv, NEW k \in Key, NEW n \in 0..Capacity, ~Crowded(Kept(k), k), Put(k, n)
  PROVE  buckets' \in Maps /\ Past(buckets') /\ Bounded(buckets')
<1> DEFINE new == [tokens |-> n, last |-> now]
           bs == Kept(k)
<1>1. bs \in Maps /\ Past(bs) /\ Bounded(bs)
  BY KeptType, KeptBounded DEF LInv, LimiterType, Maps, Past
<1>2. now \in 0..MaxTime /\ now \in Nat
  BY LimiterAssumption DEF LInv, LimiterType
<1>3. new \in Bucket /\ new # None
  BY <1>2, LimiterAssumption DEF Bucket
<1>4. buckets' = [bs EXCEPT ![k] = new]
  BY DEF Put
<1> HIDE DEF new, bs
<1>5. buckets' \in Maps
  BY <1>1, <1>3, <1>4 DEF Maps
<1>6. Tracked(buckets') = Tracked(bs) \cup {k}
  BY <1>1, <1>3, <1>4 DEF Maps, Tracked
<1>7. Past(buckets')
  <2> SUFFICES ASSUME NEW j \in Tracked(buckets')
               PROVE  buckets'[j].last <= now
    BY DEF Past
  <2>1. CASE j = k
    BY <2>1, <1>1, <1>2, <1>4 DEF Maps, new
  <2>2. CASE j # k
    BY <2>2, <1>1, <1>4, <1>6 DEF Maps, Past, Tracked
  <2> QED
    BY <2>1, <2>2
<1>8. Bounded(buckets')
  <2>1. CASE bs[k] # None
    <3>1. Tracked(buckets') = Tracked(bs)
      BY <2>1, <1>6 DEF Tracked
    <3> QED
      BY <3>1, <1>1 DEF Bounded
  <2>2. CASE bs[k] = None
    <3>1. Cardinality(Tracked(bs)) < MaxKeys
      BY <2>2, TrackedFinite, LimiterAssumption DEF Crowded, bs
    <3>2. k \notin Tracked(bs)
      BY <2>2 DEF Tracked
    <3>3. Cardinality(Tracked(bs) \cup {k}) = Cardinality(Tracked(bs)) + 1
      BY <3>2, TrackedFinite, FS_AddElement
    <3> QED
      BY <3>1, <3>3, <1>6, TrackedFinite, LimiterAssumption DEF Bounded
  <2> QED
    BY <2>1, <2>2
<1> QED
  BY <1>5, <1>7, <1>8

\* The parts of the invariant are kept by every step of the limiter.
LEMMA LimiterStep ==
  ASSUME LInv, [LimiterNext]_limiter
  PROVE  LInv'
<1> USE DEF LInv
<1>0. /\ buckets \in Maps /\ Past(buckets) /\ now \in 0..MaxTime /\ now \in Nat
      /\ lastSweep \in Nat /\ lastSweep <= now /\ passed \in [Key -> Nat] /\ MaxTime \in Nat
  BY LimiterAssumption DEF LimiterType, Maps, Past
<1>1. ASSUME now' = now, lastSweep' \in {lastSweep, now}, passed' \in [Key -> Nat],
             buckets' \in Maps, Past(buckets'), Bounded(buckets')
      PROVE  LInv'
  BY <1>0, <1>1 DEF LimiterType, KeysBounded, Maps, Past, Bounded
<1>2. CASE Tick
  <2>1. /\ now' = now + 1 /\ now' \in 0..MaxTime
        /\ buckets' = buckets /\ lastSweep' = lastSweep /\ passed' = passed
    BY <1>2, <1>0 DEF Tick
  <2>2. \A k \in Tracked(buckets) : buckets[k].last \in Nat
    BY <1>0, BucketFacts DEF Tracked
  <2>3. \A k \in Tracked(buckets) : buckets[k].last <= now + 1
    BY <1>0, <2>2 DEF Past
  <2>4. lastSweep' \in 0..now'
    BY <2>1, <1>0
  <2> QED
    BY <2>1, <2>3, <2>4, <1>0 DEF LimiterType, KeysBounded, Maps, Tracked
<1>3. CASE Forget
  <2>1. buckets' = [k \in Key |-> None] /\ lastSweep' = now /\ now' = now
        /\ passed' = [k \in Key |-> 0]
    BY <1>3 DEF Forget
  <2>2. Tracked(buckets') = {}
    BY <2>1 DEF Tracked
  <2>3. Cardinality(Tracked(buckets')) = 0
    BY <2>2, FS_EmptySet
  <2> QED
    BY <2>1, <2>2, <2>3, <1>1, LimiterAssumption DEF Maps, Past, Bounded
<1>4. ASSUME NEW k \in Key, Allowed(k) PROVE LInv'
  <2>1. Level(Kept(k), k) \in 0..Capacity
    BY <1>0, KeptType, LevelType
  <2>2. Level(Kept(k), k) - 1 \in 0..Capacity
    BY <1>4, <2>1, LimiterAssumption DEF Allowed
  <2>3. buckets' \in Maps /\ Past(buckets') /\ Bounded(buckets')
    BY <1>4, <2>2, PutOK DEF Allowed
  <2>4. passed' \in [Key -> Nat]
    BY <1>4, <1>0 DEF Allowed, Count
  <2> QED
    BY <1>4, <2>3, <2>4, <1>1 DEF Allowed, SweepFor
<1>5. ASSUME NEW k \in Key, Refused(k) PROVE LInv'
  <2>1. CASE Crowded(Kept(k), k) /\ buckets' = Kept(k)
    <3>1. buckets' \in Maps /\ Past(buckets') /\ Bounded(buckets')
      BY <2>1, <1>0, KeptType, KeptBounded
    <3> QED
      BY <1>5, <1>0, <3>1, <1>1 DEF Refused, SweepFor
  <2>2. CASE ~Crowded(Kept(k), k) /\ Put(k, 0)
    <3>1. buckets' \in Maps /\ Past(buckets') /\ Bounded(buckets')
      BY <2>2, PutOK, LimiterAssumption
    <3> QED
      BY <1>5, <1>0, <3>1, <1>1 DEF Refused, SweepFor
  <2> QED
    BY <1>5, <2>1, <2>2 DEF Refused
<1>6. CASE UNCHANGED limiter
  BY <1>6 DEF limiter, LimiterType, KeysBounded, Tracked
<1> QED
  BY <1>2, <1>3, <1>4, <1>5, <1>6 DEF LimiterNext

LEMMA LimiterStart ==
  ASSUME LimiterInit
  PROVE  LInv
<1>1. Tracked(buckets) = {}
  BY DEF LimiterInit, Tracked
<1>2. Cardinality(Tracked(buckets)) = 0
  BY <1>1, FS_EmptySet
<1> QED
  BY <1>1, <1>2, LimiterAssumption DEF LimiterInit, LInv, LimiterType, KeysBounded

\* The limiter's variables keep their types, and the map its bound ("tracks at
\* most maxKeys distinct keys"), for any number of keys tried.
THEOREM LimiterTypeCorrect == LimiterSpec => [](LimiterType /\ KeysBounded)
<1>1. LInv /\ [LimiterNext]_limiter => LInv'
  BY LimiterStep
<1>2. LimiterInit => LInv
  BY LimiterStart
<1> QED
  BY <1>1, <1>2, PTL DEF LimiterSpec, LInv
-----------------------------------------------------------------------------
(* The refinement. *)

\* A bucket just put into the map has its tokens; the others are as they were.
LEMMA PutLevels ==
  ASSUME LInv, NEW k \in Key, NEW n \in 0..Capacity, Put(k, n), now' = now
  PROVE  levels' = [levels EXCEPT ![k] = n]
<1> DEFINE new == [tokens |-> n, last |-> now]
           bs == Kept(k)
<1>1. buckets \in Maps /\ Past(buckets) /\ now \in Nat /\ now \in 0..MaxTime
  BY LimiterAssumption DEF LInv, LimiterType, Maps, Past
<1>2. bs \in Maps
  BY <1>1, KeptType
<1>3. buckets' = [bs EXCEPT ![k] = new]
  BY DEF Put
<1>4. new # None
  BY <1>1, LimiterAssumption DEF Bucket
<1>5. n + (now - now) = n /\ n <= Capacity
  BY <1>1, LimiterAssumption
<1>6. Level(buckets, k)' = n
  <2>1. buckets'[k] = new
    BY <1>2, <1>3 DEF Maps
  <2>2. Level(buckets, k)' = IF new.tokens + (now - new.last) < Capacity
                             THEN new.tokens + (now - new.last) ELSE Capacity
    BY <2>1, <1>4 DEF Level, Refilled
  <2> QED
    BY <2>2, <1>1, <1>5, LimiterAssumption
<1>7. ASSUME NEW j \in Key, j # k
      PROVE  Level(buckets, j)' = Level(buckets, j)
  <2>1. buckets'[j] = bs[j]
    BY <1>2, <1>3, <1>7 DEF Maps
  <2>2. Level(buckets, j)' = Level(bs, j)
    BY <2>1 DEF Level, Refilled
  <2> QED
    BY <2>2, <1>1, KeptLevels
<1> HIDE DEF new, bs
<1> QED
  BY <1>6, <1>7 DEF levels

LEMMA KeptAlone ==
  ASSUME LInv, NEW k \in Key, buckets' = Kept(k), now' = now
  PROVE  levels' = levels
<1>1. buckets \in Maps
  BY DEF LInv, LimiterType, Maps
<1>2. ASSUME NEW j \in Key
      PROVE  Level(buckets, j)' = Level(Kept(k), j)
  BY DEF Level, Refilled
<1> QED
  BY <1>1, <1>2, KeptLevels DEF levels

\* Time gives one token back to every bucket that is not full, also to those
\* that the map has forgotten.
LEMMA TickLevels ==
  ASSUME LInv, Tick
  PROVE  levels' = [k \in Key |-> IF levels[k] < Capacity THEN levels[k] + 1 ELSE Capacity]
<1>1. buckets \in Maps /\ Past(buckets) /\ now \in Nat
  BY LimiterAssumption DEF LInv, LimiterType, Maps, Past
<1>2. now' = now + 1 /\ buckets' = buckets
  BY DEF Tick
<1>3. ASSUME NEW k \in Key
      PROVE  Level(buckets, k)' = IF Level(buckets, k) < Capacity THEN Level(buckets, k) + 1 ELSE Capacity
  <2>1. CASE buckets[k] = None
    BY <2>1, <1>2, LimiterAssumption DEF Level
  <2>2. CASE buckets[k] # None
    <3>1. buckets[k].tokens \in Nat /\ buckets[k].last \in Nat /\ buckets[k].last <= now
      BY <2>2, <1>1, BucketFacts DEF Past, Tracked
    <3>2. buckets'[k] = buckets[k]
      BY <1>2
    <3>3. Level(buckets, k)' = IF buckets[k].tokens + (now' - buckets[k].last) < Capacity
                               THEN buckets[k].tokens + (now' - buckets[k].last) ELSE Capacity
      BY <2>2, <3>2 DEF Level, Refilled
    <3>4. now' - buckets[k].last = (now - buckets[k].last) + 1
      BY <3>1, <1>1, <1>2
    <3>5. Level(buckets, k) = IF buckets[k].tokens + (now - buckets[k].last) < Capacity
                              THEN buckets[k].tokens + (now - buckets[k].last) ELSE Capacity
      BY <2>2 DEF Level, Refilled
    <3>6. now - buckets[k].last \in Nat
      BY <3>1, <1>1
    <3> QED
      BY <3>1, <3>3, <3>4, <3>5, <3>6, LimiterAssumption
  <2> QED
    BY <2>1, <2>2
<1> QED
  BY <1>3 DEF levels

\* Every step of the limiter is one of the ideal buckets, or none.
LEMMA IdealStep ==
  ASSUME LInv, [LimiterNext]_limiter
  PROVE  [Ideal!Next]_<<now, levels, passed>>
<1>0. /\ buckets \in Maps /\ Past(buckets) /\ now \in Nat /\ levels = [k \in Key |-> Level(buckets, k)]
  BY LimiterAssumption DEF LInv, LimiterType, Maps, Past, levels
<1>1. CASE Tick
  BY <1>1, TickLevels DEF Tick, Ideal!Next, Ideal!Refill
<1>2. CASE Forget
  <2>1. levels' = [k \in Key |-> Capacity]
    BY <1>2 DEF Forget, levels, Level
  <2> QED
    BY <1>2, <2>1 DEF Forget, Ideal!Next, Ideal!Restart
<1>3. ASSUME NEW k \in Key, Allowed(k) PROVE Ideal!Next
  <2>1. Level(Kept(k), k) = levels[k] /\ levels[k] \in 0..Capacity /\ levels[k] >= 1
    BY <1>0, <1>3, KeptLevels, LevelType DEF Allowed
  <2>2. levels[k] - 1 \in 0..Capacity
    BY <2>1, LimiterAssumption
  <2>3. levels' = [levels EXCEPT ![k] = levels[k] - 1]
    BY <1>3, <2>1, <2>2, PutLevels DEF Allowed
  <2>4. passed' = [passed EXCEPT ![k] = @ + 1] /\ now' = now
    BY <1>3 DEF Allowed, Count
  <2>5. levels[k] > 0
    BY <2>1, LimiterAssumption
  <2>6. Ideal!Take(k)
    BY <2>3, <2>4, <2>5 DEF Ideal!Take
  <2> QED
    BY <2>6 DEF Ideal!Next
<1>4. ASSUME NEW k \in Key, Refused(k) PROVE UNCHANGED <<now, levels, passed>>
  <2>1. now' = now /\ passed' = passed
    BY <1>4 DEF Refused
  <2>2. CASE Crowded(Kept(k), k) /\ buckets' = Kept(k)
    BY <2>1, <2>2, KeptAlone
  <2>3. CASE ~Crowded(Kept(k), k) /\ Level(Kept(k), k) = 0 /\ Put(k, 0)
    <3>1. levels[k] = 0
      BY <2>3, <1>0, KeptLevels
    <3>2. levels' = [levels EXCEPT ![k] = 0]
      BY <2>1, <2>3, PutLevels, LimiterAssumption
    <3>3. levels' = levels
      BY <3>1, <3>2, <1>0
    <3> QED
      BY <2>1, <3>3
  <2> QED
    BY <1>4, <2>2, <2>3 DEF Refused
<1>5. CASE UNCHANGED limiter
  BY <1>5 DEF limiter, levels, Level, Refilled
<1> QED
  BY <1>1, <1>2, <1>3, <1>4, <1>5 DEF LimiterNext

LEMMA IdealStart ==
  ASSUME LimiterInit
  PROVE  Ideal!Init
BY DEF LimiterInit, Ideal!Init, levels, Level

\* The limiter implements one bucket per key that nobody ever forgets, whatever
\* its bound, its sweeps and the number of keys: a client that fills the map
\* gains no attempt (ratelimit.go:84-95).
THEOREM BoundIsInvisible == LimiterSpec => ImplementsBuckets
<1>1. LimiterInit => LInv /\ Ideal!Init
  BY LimiterStart, IdealStart
<1>2. LInv /\ [LimiterNext]_limiter => LInv'
  BY LimiterStep
<1>3. LInv /\ [LimiterNext]_limiter => [Ideal!Next]_<<now, levels, passed>>
  BY IdealStep
<1> QED
  BY <1>1, <1>2, <1>3, PTL DEF LimiterSpec, ImplementsBuckets, Ideal!Spec

-----------------------------------------------------------------------------
(* Session.Add.                                                            *)

\* A loop's invariant: what holds before it and is kept by every round holds
\* after any number of rounds.
LEMMA Rounds ==
  ASSUME NEW T, T \subseteq Nat, 0 \in T, \A n \in T : n + 1 \in T
  PROVE  T = Nat
<1> DEFINE Lt == {ss \in Nat \X Nat : ss[1] < ss[2]}
           Left == Nat \ T
<1>1. SUFFICES ASSUME Left # {} PROVE FALSE
  OBVIOUS
<1>2. PICK x \in Left : \A y \in Left : ~(<<y, x>> \in Lt)
  <2>1. IsWellFoundedOn(Lt, Nat)
    BY NatLessThanWellFounded DEF OpToRel
  <2>2. Left \subseteq Nat
    OBVIOUS
  <2> HIDE DEF Lt, Left
  <2> QED
    BY <1>1, <2>1, <2>2, WFMin
<1>3. x \in Nat /\ x # 0 /\ x - 1 \in Nat /\ x - 1 < x
  OBVIOUS
<1>4. x - 1 \in Left
  <2>1. (x - 1) + 1 = x
    BY <1>3
  <2> QED
    BY <1>3, <2>1
<1>5. <<x - 1, x>> \in Lt
  BY <1>3
<1> QED
  BY <1>2, <1>4, <1>5

Filter(kept, m, grants, a) ==
  kept = [n \in 0..m |-> IF n = 0 THEN <<>>
                         ELSE IF grants[n].album = a THEN kept[n - 1]
                              ELSE Append(kept[n - 1], grants[n])]

LEMMA OthersLoop ==
  ASSUME NEW S, NEW grants \in Seq(S), NEW a
  PROVE  \E kept : Filter(kept, Len(grants), grants, a) /\ Others(grants, a) = kept[Len(grants)]
<1> DEFINE T == {n \in Nat : n > Len(grants) \/ \E k : Filter(k, n, grants, a)}
<1>1. 0 \in T
  <2>1. Filter([n \in 0..0 |-> <<>>], 0, grants, a)
    BY DEF Filter
  <2> QED
    BY <2>1
<1>2. ASSUME NEW n \in T PROVE n + 1 \in T
  <2>1. CASE n < Len(grants)
    <3>1. PICK k : Filter(k, n, grants, a)
      BY <2>1, <1>2
    <3> DEFINE next == IF grants[n + 1].album = a THEN k[n] ELSE Append(k[n], grants[n + 1])
               more == [i \in 0..(n + 1) |-> IF i = n + 1 THEN next ELSE k[i]]
    <3>2. ASSUME NEW i \in 0..(n + 1)
          PROVE  more[i] = IF i = 0 THEN <<>>
                           ELSE IF grants[i].album = a THEN more[i - 1]
                                ELSE Append(more[i - 1], grants[i])
      <4>1. CASE i = n + 1
        <5>1. i - 1 = n /\ n \in 0..(n + 1) /\ n # n + 1 /\ i # 0
          BY <4>1
        <5> QED
          BY <4>1, <5>1
      <4>2. CASE i # n + 1
        <5>1. i \in 0..n /\ (i # 0 => i - 1 \in 0..(n + 1) /\ i - 1 # n + 1)
          BY <4>2
        <5>2. k[i] = IF i = 0 THEN <<>>
                     ELSE IF grants[i].album = a THEN k[i - 1]
                          ELSE Append(k[i - 1], grants[i])
          BY <3>1, <5>1 DEF Filter
        <5> QED
          BY <4>2, <5>1, <5>2
      <4> QED
        BY <4>1, <4>2
    <3>3. Filter(more, n + 1, grants, a)
      <4> HIDE DEF next
      <4>1. more = [i \in 0..(n + 1) |-> more[i]]
        OBVIOUS
      <4> HIDE DEF more
      <4> QED
        BY <3>2, <4>1 DEF Filter
    <3> QED
      BY <3>3
  <2> QED
    BY <2>1
<1>3. T = Nat
  <2>1. T \subseteq Nat
    OBVIOUS
  <2> HIDE DEF T
  <2> QED
    BY <1>1, <1>2, <2>1, Rounds
<1>4. \E k : Filter(k, Len(grants), grants, a)
  <2>1. Len(grants) \in T
    BY <1>3
  <2> QED
    BY <2>1
<1>5. Filter(CHOOSE k : Filter(k, Len(grants), grants, a), Len(grants), grants, a)
  BY <1>4
<1> QED
  BY <1>5 DEF Others, Filter

\* k is what the first n grants leave.
Leaves(k, n, grants, a) ==
  /\ Len(k) <= n
  /\ \A i \in 1..Len(k) : \E j \in 1..n : k[i] = grants[j] /\ grants[j].album # a
  /\ \A j \in 1..n : grants[j].album # a => \E i \in 1..Len(k) : k[i] = grants[j]
  /\ Len(k) = n => \A i \in 1..n : k[i] = grants[i]

LEMMA LeavesNext ==
  ASSUME NEW S, NEW grants \in Seq(S), NEW a, NEW n \in Nat, n < Len(grants),
         NEW k \in Seq(S), Leaves(k, n, grants, a)
  PROVE  LET next == IF grants[n + 1].album = a THEN k ELSE Append(k, grants[n + 1])
         IN  next \in Seq(S) /\ Leaves(next, n + 1, grants, a)
<1>0. grants[n + 1] \in S /\ Len(k) \in Nat /\ n + 1 \in 1..(n + 1)
  OBVIOUS
<1>1. CASE grants[n + 1].album = a
  <2>1. Len(k) # n + 1 /\ \A j \in 1..(n + 1) : j \in 1..n \/ j = n + 1
    BY DEF Leaves
  <2>2. Leaves(k, n + 1, grants, a)
    BY <1>0, <1>1, <2>1 DEF Leaves
  <2> QED
    BY <1>1, <2>2
<1>2. CASE grants[n + 1].album # a
  <2> DEFINE next == Append(k, grants[n + 1])
  <2>1. /\ next \in Seq(S) /\ Len(next) = Len(k) + 1 /\ next[Len(k) + 1] = grants[n + 1]
        /\ \A i \in 1..Len(k) : next[i] = k[i]
    BY <1>0
  <2> HIDE DEF next
  <2>2. ASSUME NEW i \in 1..Len(next)
        PROVE  \E j \in 1..(n + 1) : next[i] = grants[j] /\ grants[j].album # a
    <3>1. CASE i = Len(k) + 1
      BY <1>0, <1>2, <2>1, <3>1
    <3>2. CASE i # Len(k) + 1
      <4>1. i \in 1..Len(k)
        BY <1>0, <2>1, <3>2
      <4>2. PICK j \in 1..n : k[i] = grants[j] /\ grants[j].album # a
        BY <4>1 DEF Leaves
      <4> QED
        BY <2>1, <4>1, <4>2
    <3> QED
      BY <3>1, <3>2
  <2>3. ASSUME NEW j \in 1..(n + 1), grants[j].album # a
        PROVE  \E i \in 1..Len(next) : next[i] = grants[j]
    <3>1. CASE j = n + 1
      BY <1>0, <2>1, <3>1
    <3>2. CASE j # n + 1
      <4>1. j \in 1..n
        BY <3>2
      <4>2. PICK i \in 1..Len(k) : k[i] = grants[j]
        BY <2>3, <4>1 DEF Leaves
      <4> QED
        BY <1>0, <2>1, <4>2
    <3> QED
      BY <3>1, <3>2
  <2>4. Len(next) <= n + 1 /\ (Len(next) = n + 1 => \A i \in 1..(n + 1) : next[i] = grants[i])
    BY <1>0, <2>1 DEF Leaves
  <2>5. Leaves(next, n + 1, grants, a)
    BY <2>2, <2>3, <2>4 DEF Leaves
  <2> QED
    BY <1>2, <2>1, <2>5 DEF next
<1> QED
  BY <1>1, <1>2

\* What Session.Add keeps of the earlier grants: those for other albums, and all
\* of them when there was none for this one.
LEMMA OthersFacts ==
  ASSUME NEW S, NEW grants \in Seq(S), NEW a
  PROVE  /\ Others(grants, a) \in Seq(S)
         /\ Leaves(Others(grants, a), Len(grants), grants, a)
<1>1. PICK kept : Filter(kept, Len(grants), grants, a) /\ Others(grants, a) = kept[Len(grants)]
  BY OthersLoop
<1> DEFINE T == {n \in Nat : n <= Len(grants) => kept[n] \in Seq(S) /\ Leaves(kept[n], n, grants, a)}
<1>2. 0 \in T
  <2>1. kept[0] = <<>>
    BY <1>1 DEF Filter
  <2>2. <<>> \in Seq(S) /\ Leaves(<<>>, 0, grants, a)
    BY DEF Leaves
  <2> QED
    BY <2>1, <2>2
<1>3. ASSUME NEW n \in T PROVE n + 1 \in T
  <2>1. SUFFICES ASSUME n + 1 <= Len(grants)
                 PROVE  kept[n + 1] \in Seq(S) /\ Leaves(kept[n + 1], n + 1, grants, a)
    OBVIOUS
  <2>2. /\ n \in Nat /\ n < Len(grants) /\ n + 1 \in 0..Len(grants) /\ n + 1 # 0 /\ (n + 1) - 1 = n
        /\ kept[n] \in Seq(S) /\ Leaves(kept[n], n, grants, a)
    BY <2>1
  <2> HIDE DEF T
  <2>3. kept[n + 1] = IF grants[n + 1].album = a THEN kept[n] ELSE Append(kept[n], grants[n + 1])
    BY <1>1, <2>2 DEF Filter
  <2> QED
    BY <2>2, <2>3, LeavesNext
<1>4. T = Nat
  <2>1. T \subseteq Nat
    OBVIOUS
  <2> HIDE DEF T
  <2> QED
    BY <1>2, <1>3, <2>1, Rounds
<1>5. Len(grants) \in T
  BY <1>4
<1> QED
  BY <1>1, <1>5

\* What Session.Add makes of the grants of a cookie: never more than MaxGrants,
\* each one new or from there, and the new one among them.
LEMMA AddFacts ==
  ASSUME NEW grants \in Seq(Grant), NEW a \in Album, NEW ver \in Nat
  PROVE  /\ Add(grants, a, ver) \in Seq(Grant) /\ Len(Add(grants, a, ver)) <= MaxGrants
         /\ \A g \in Range(Add(grants, a, ver)) : g \in Range(grants) \/ g = [album |-> a, ver |-> ver]
         /\ [album |-> a, ver |-> ver] \in Range(Add(grants, a, ver))
<1> DEFINE new == [album |-> a, ver |-> ver]
           others == Others(grants, a)
           kept == Append(others, new)
           from == Len(kept) - MaxGrants + 1
<1>1. /\ others \in Seq(Grant)
      /\ \A i \in 1..Len(others) : others[i] \in Range(grants)
  <2>1. others \in Seq(Grant) /\ Leaves(others, Len(grants), grants, a)
    BY OthersFacts
  <2> QED
    BY <2>1 DEF Leaves, Range
<1>2. new \in Grant
  BY DEF Grant
<1> HIDE DEF others, new
<1>3. /\ kept \in Seq(Grant) /\ Len(kept) = Len(others) + 1 /\ kept[Len(kept)] = new
      /\ \A i \in 1..Len(kept) : kept[i] \in Range(grants) \/ kept[i] = new
  BY <1>1, <1>2
<1> HIDE DEF kept
<1>4. MaxGrants \in Nat /\ MaxGrants > 0
  BY AccessAssumption
<1>5. CASE Len(kept) > MaxGrants
  <2> DEFINE last == SubSeq(kept, from, Len(kept))
  <2>1. Add(grants, a, ver) = last
    BY <1>5 DEF Add, kept, others, new
  <2>2. from \in 1..Len(kept)
    BY <1>3, <1>4, <1>5
  <2> HIDE DEF from
  <2>3. /\ last \in Seq(Grant) /\ Len(last) = Len(kept) - from + 1
        /\ \A i \in 1..Len(last) : last[i] = kept[from + i - 1] /\ from + i - 1 \in 1..Len(kept)
    BY <1>3, <2>2
  <2> HIDE DEF last
  <2>4. Len(last) = MaxGrants
    BY <1>3, <1>4, <2>2, <2>3 DEF from
  <2>5. last[MaxGrants] = new
    <3>1. MaxGrants \in 1..Len(last) /\ from + MaxGrants - 1 = Len(kept)
      BY <1>3, <1>4, <2>4 DEF from
    <3> QED
      BY <1>3, <2>3, <3>1
  <2>6. new \in Range(last)
    BY <1>4, <2>3, <2>4, <2>5 DEF Range
  <2>7. \A g \in Range(last) : g \in Range(grants) \/ g = new
    BY <1>3, <2>3 DEF Range
  <2> QED
    BY <2>1, <2>3, <2>4, <2>6, <2>7 DEF new
<1>6. CASE ~(Len(kept) > MaxGrants)
  <2>1. Add(grants, a, ver) = kept
    BY <1>6 DEF Add, kept, others, new
  <2>2. new \in Range(kept) /\ \A g \in Range(kept) : g \in Range(grants) \/ g = new
    BY <1>3 DEF Range
  <2> QED
    BY <1>3, <1>4, <1>6, <2>1, <2>2 DEF new
<1> QED
  BY <1>5, <1>6

\* An unlock takes the grant for another album away only when the cookie held
\* MaxGrants, and then it is the oldest.
LEMMA AddKeeps ==
  ASSUME NEW grants \in Seq(Grant), Len(grants) <= MaxGrants, NEW a \in Album, NEW ver \in Nat,
         NEW g \in Range(grants), g.album # a, g \notin Range(Add(grants, a, ver))
  PROVE  Len(Add(grants, a, ver)) = MaxGrants /\ Head(grants) = g
<1> DEFINE new == [album |-> a, ver |-> ver]
           others == Others(grants, a)
           kept == Append(others, new)
           from == Len(kept) - MaxGrants + 1
<1>1. /\ others \in Seq(Grant) /\ Leaves(others, Len(grants), grants, a)
  BY OthersFacts
<1>2. new \in Grant
  BY DEF Grant
<1>3. PICK j \in 1..Len(others) : others[j] = g
  <2>1. PICK i \in 1..Len(grants) : grants[i] = g
    BY DEF Range
  <2> QED
    BY <1>1, <2>1 DEF Leaves
<1> HIDE DEF others, new
<1>4. /\ kept \in Seq(Grant) /\ Len(kept) = Len(others) + 1
      /\ \A i \in 1..Len(others) : kept[i] = others[i]
  BY <1>1, <1>2
<1> HIDE DEF kept
<1>5. MaxGrants \in Nat /\ MaxGrants > 0
  BY AccessAssumption
<1>6. Len(kept) > MaxGrants
  <2>1. ASSUME ~(Len(kept) > MaxGrants) PROVE FALSE
    <3>1. Add(grants, a, ver) = kept
      BY <2>1 DEF Add, kept, others, new
    <3>2. g \in Range(kept)
      BY <1>1, <1>3, <1>4 DEF Range
    <3> QED
      BY <3>1, <3>2
  <2> QED
    BY <2>1
<1>7. Len(others) = MaxGrants /\ Len(grants) = MaxGrants /\ from = 2
  BY <1>1, <1>4, <1>5, <1>6 DEF Leaves
<1>8. \A i \in 1..MaxGrants : others[i] = grants[i]
  BY <1>1, <1>7 DEF Leaves
<1>9. Add(grants, a, ver) = SubSeq(kept, 2, Len(kept))
  BY <1>6, <1>7 DEF Add, kept, others, new
<1> DEFINE last == SubSeq(kept, 2, Len(kept))
<1>10. /\ Len(last) = MaxGrants
       /\ \A i \in 1..Len(last) : last[i] = kept[i + 1]
       /\ last \in Seq(Grant)
  BY <1>4, <1>5, <1>7
<1> HIDE DEF last
<1>11. j = 1
  <2>1. ASSUME j # 1 PROVE FALSE
    <3>1. j - 1 \in 1..Len(last) /\ (j - 1) + 1 = j
      BY <1>7, <1>10, <2>1
    <3>2. last[j - 1] = g
      BY <1>3, <1>4, <1>10, <3>1
    <3>3. g \in Range(last)
      BY <1>10, <3>1, <3>2 DEF Range
    <3> QED
      BY <1>9, <3>3 DEF last
  <2> QED
    BY <2>1
<1> QED
  BY <1>3, <1>5, <1>7, <1>8, <1>9, <1>10, <1>11 DEF last

-----------------------------------------------------------------------------
(* Types.  OnlyReal: no bucket is made for an address a client wrote into  *)
(* X-Forwarded-For.                                                        *)

Sessions == {s \in Session : Len(s.grants) <= MaxGrants}
Requests == [browser : Browser, slug : Slug, pw : Password, cookie : Sessions \cup {None}]
Rows == [id : Album, row : Row]
Stages == {"start", "write", "arrive", "limited", "compare", "reply", "done"}

OnlyReal(bs) == Tracked(bs) \subseteq Address \X Slug

TableOK ==
  /\ rows \in [Album -> Row \cup {None}]
  /\ used \subseteq Album /\ Live \subseteq used
  /\ restarts \in Nat /\ lost \in BOOLEAN

WritersOK ==
  /\ loaded \in [Writer -> Rows \cup {None}]
  /\ \A w \in Writer : /\ at[w] = "write" <=> loaded[w] # None
                       /\ at[w] = "write" => change[w] \in Change
  /\ change \in [Writer -> Change \cup {None}]

CookiesOK ==
  /\ cookie \in [Browser -> Sessions \cup {None}]
  /\ typed \in [Browser -> SUBSET (Slug \X Password)]

AttemptsOK ==
  /\ try \in [Attempt -> Requests \cup {NoTry}]
  /\ found \in [Attempt -> Rows \cup {None}]
  /\ reply \in [Attempt -> Sessions \cup {None}]
  /\ \A u \in Attempt : /\ at[u] \in {"arrive", "compare", "reply"} <=> try[u] # NoTry
                        /\ at[u] = "compare" <=> found[u] # None
                        /\ at[u] = "reply" <=> reply[u] # None

LimiterOK == LInv /\ OnlyReal(buckets)

TypeInv == /\ LimiterOK
           /\ at \in [Writer \cup Attempt -> Stages]
           /\ TableOK /\ WritersOK /\ CookiesOK /\ AttemptsOK

LEMMA TypeHolds == TypeInv => TypeOK
BY DEF TypeInv, LimiterOK, LInv, TableOK, WritersOK, CookiesOK, AttemptsOK, TypeOK, Sessions, Stages

LEMMA Nones ==
  /\ None \notin Rows /\ None \notin Row /\ None \notin Sessions /\ NoTry \notin Requests
  /\ None \notin Password
BY AccessAssumption DEF Rows, Sessions, Requests, NoTry

\* A request is limited under the address it comes from.
LEMMA OwnAddress == \A b \in Browser : Limited(b) = {AddressOf[b]}
<1> SUFFICES ASSUME NEW b \in Browser PROVE Limited(b) = {AddressOf[b]}
  OBVIOUS
<1>1. AddressOf[b] # Proxy
  BY AccessAssumption DEF Address
<1>2. \A h : ClientIP(AddressOf[b], h) = AddressOf[b]
  BY <1>1 DEF ClientIP
<1>3. ASSUME NEW S, NEW h \in Seq(S), AddressOf[b] \in S
      PROVE  ClientIP(Proxy, Append(h, AddressOf[b])) = AddressOf[b]
  <2>1. /\ Append(h, AddressOf[b]) # <<>>
        /\ Append(h, AddressOf[b])[Len(Append(h, AddressOf[b]))] = AddressOf[b]
    BY <1>3
  <2> QED
    BY <2>1 DEF ClientIP, Last
<1>4. ASSUME NEW h \in {<<>>} \cup {<<x>> : x \in Forged}
      PROVE  ClientIP(Proxy, Append(h, AddressOf[b])) = AddressOf[b]
  <2>1. CASE h = <<>>
    <3>1. <<>> \in Seq({AddressOf[b]})
      OBVIOUS
    <3> QED
      BY <1>3, <2>1, <3>1
  <2>2. ASSUME NEW x \in Forged, h = <<x>> PROVE ClientIP(Proxy, Append(h, AddressOf[b])) = AddressOf[b]
    <3>1. <<x>> \in Seq({x, AddressOf[b]})
      OBVIOUS
    <3> QED
      BY <1>3, <2>2, <3>1
  <2> QED
    BY <2>1, <2>2
<1>5. ASSUME NEW via \in Arrivals(b) PROVE ClientIP(via[1], via[2]) = AddressOf[b]
  <2> DEFINE written == {<<>>} \cup {<<x>> : x \in Forged}
  <2>1. \/ \E h \in written : via = <<AddressOf[b], h>>
        \/ \E h \in written : via = <<Proxy, Append(h, AddressOf[b])>>
    BY DEF Arrivals
  <2>2. CASE \E h \in written : via = <<AddressOf[b], h>>
    BY <1>2, <2>2
  <2>3. CASE \E h \in written : via = <<Proxy, Append(h, AddressOf[b])>>
    <3>1. PICK h \in written : via = <<Proxy, Append(h, AddressOf[b])>>
      BY <2>3
    <3>2. via[1] = Proxy /\ via[2] = Append(h, AddressOf[b])
      BY <3>1
    <3> QED
      BY <1>4, <3>2
  <2> QED
    BY <2>1, <2>2, <2>3
<1>6. \E via \in Arrivals(b) : TRUE
  BY DEF Arrivals
<1> QED
  BY <1>5, <1>6 DEF Limited

\* The keys whose buckets one attempt may touch.
LEMMA OwnKey ==
  ASSUME NEW b \in Browser, NEW s \in Slug, NEW ip \in Limited(b)
  PROVE  ip = AddressOf[b] /\ <<ip, s>> \in Key /\ <<ip, s>> \in Address \X Slug
BY OwnAddress, AccessAssumption DEF Address

LEMMA LimiterMoves ==
  ASSUME LimiterOK, [Next]_vars, AttemptsOK
  PROVE  LimiterOK'
<1>1. ASSUME UNCHANGED limiter PROVE LimiterOK'
  <2>1. LInv'
    BY <1>1, LimiterStep DEF LimiterOK
  <2> QED
    BY <1>1, <2>1 DEF LimiterOK, OnlyReal, Tracked, limiter
<1>2. ASSUME Tick PROVE LimiterOK'
  BY <1>2, LimiterStep DEF LimiterOK, LimiterNext, OnlyReal, Tracked, Tick
<1>3. ASSUME Forget PROVE LimiterOK'
  <2>1. LInv'
    BY <1>3, LimiterStep DEF LimiterOK, LimiterNext
  <2>2. \A k \in Key : buckets'[k] = None
    BY <1>3 DEF Forget
  <2> QED
    BY <2>1, <2>2 DEF LimiterOK, OnlyReal, Tracked
<1>4. ASSUME NEW u \in Attempt, Arrive(u) PROVE LimiterOK'
  <2>1. /\ try[u].browser \in Browser /\ try[u].slug \in Slug
    BY <1>4 DEF Arrive, AttemptsOK, Requests
  <2>2. PICK ip \in Limited(try[u].browser) : Check(u, <<ip, try[u].slug>>)
    BY <1>4 DEF Arrive
  <2> DEFINE key == <<ip, try[u].slug>>
  <2>3. key \in Key /\ key \in Address \X Slug
    BY <2>1, OwnKey
  <2> HIDE DEF key
  <2>4. Allowed(key) \/ Refused(key)
    BY <2>2 DEF Check, key
  <2>5. LInv'
    BY <2>3, <2>4, LimiterStep DEF LimiterOK, LimiterNext
  <2>6. Tracked(buckets') \subseteq Tracked(Kept(key)) \cup {key}
    <3>1. ASSUME NEW n, Put(key, n) PROVE Tracked(buckets') \subseteq Tracked(Kept(key)) \cup {key}
      BY <3>1 DEF Put, Tracked
    <3> QED
      BY <2>4, <3>1 DEF Allowed, Refused
  <2>7. Tracked(Kept(key)) \subseteq Tracked(buckets)
    BY <2>3, KeptType DEF LimiterOK, LInv, LimiterType, Maps, Past
  <2>8. OnlyReal(buckets')
    BY <2>3, <2>6, <2>7 DEF LimiterOK, OnlyReal
  <2> QED
    BY <2>5, <2>8 DEF LimiterOK, OnlyReal, Tracked
<1>5. \/ Tick \/ Forget \/ UNCHANGED limiter \/ \E u \in Attempt : Arrive(u)
  BY DEF Next, vars, Time, Restart, Write, Delete, Create, Load, Answer, Receive, Send
<1> QED
  BY <1>1, <1>2, <1>3, <1>4, <1>5

LEMMA PatchedType ==
  ASSUME NEW row \in Row, NEW c \in Change
  PROVE  Patched(row, c) \in Row
<1>1. /\ row.pw \in Password \cup {None} /\ row.ver \in Nat /\ row.listed \in BOOLEAN
      /\ c.pw \in Password \cup {"clear", "keep"} /\ (c.cli => c.pw # "keep")
      /\ c.relist \in BOOLEAN /\ c.cli \in BOOLEAN
  BY AccessAssumption DEF Row
<1> DEFINE pw == IF c.pw = "clear" THEN None ELSE c.pw
           changed == [row EXCEPT !.pw = pw, !.ver = @ + 1]
<1>2. c.pw # "keep" => pw \in Password \cup {None}
  BY <1>1
<1>3. row.ver + 1 \in Nat
  BY <1>1
<1> HIDE DEF pw
<1>4. ASSUME NEW p \in Password \cup {None}, NEW v \in Nat
      PROVE  [row EXCEPT !.pw = p, !.ver = v] \in Row
  <2>1. [row EXCEPT !.pw = p] \in Row
    BY DEF Row
  <2>2. \A r \in Row : [r EXCEPT !.ver = v] \in Row
    BY DEF Row
  <2> QED
    BY <2>1, <2>2
<1>5. c.pw # "keep" => changed \in Row
  BY <1>2, <1>3, <1>4
<1>6. c.cli => CliPassword(row, c.pw) \in Row
  BY <1>1, <1>5 DEF CliPassword, pw
<1>7. UpdatedPassword(row, c.pw) \in Row
  BY <1>1, <1>5 DEF UpdatedPassword, pw
<1>8. \A r \in Row : [r EXCEPT !.listed = IF c.relist THEN ~@ ELSE @] \in Row
  BY <1>1 DEF Row
<1> QED
  BY <1>1, <1>6, <1>7, <1>8 DEF Patched

LEMMA InitType == Init => TypeInv
<1> SUFFICES ASSUME Init PROVE TypeInv
  OBVIOUS
<1>1. LimiterOK
  BY LimiterStart DEF Init, LimiterOK, LimiterInit, OnlyReal, Tracked
<1>2. at \in [Writer \cup Attempt -> Stages]
  BY DEF Init, Stages
<1>3. TableOK
  <2>1. PICK live \in SUBSET Album, pw \in [Album -> Password \cup {None}] :
          /\ rows = [a \in Album |->
               IF a \in live THEN [pw |-> pw[a], ver |-> IF pw[a] = None THEN 0 ELSE 1, listed |-> TRUE]
               ELSE None]
          /\ used = live
    BY DEF Init
  <2> QED
    BY <2>1 DEF TableOK, Live, Row, Init
<1>4. WritersOK /\ CookiesOK /\ AttemptsOK
  BY DEF Init, WritersOK, CookiesOK, AttemptsOK
<1> QED
  BY <1>1, <1>2, <1>3, <1>4 DEF TypeInv

LEMMA WriterType ==
  ASSUME TypeInv, NEW w \in Writer,
         \/ Write(w)
         \/ \E a \in Album : \/ Delete(w, a)
                             \/ \E pw \in Password \cup {None} : Create(w, a, pw)
                             \/ \E c \in Change : Load(w, a, c)
  PROVE  /\ at' \in [Writer \cup Attempt -> Stages]
         /\ TableOK' /\ WritersOK' /\ CookiesOK' /\ AttemptsOK'
<1>1. ASSUME NEW a \in Album, NEW pw \in Password \cup {None}, Create(w, a, pw)
      PROVE  TableOK' /\ WritersOK' /\ CookiesOK' /\ AttemptsOK' /\ at' \in [Writer \cup Attempt -> Stages]
  <2>1. TableOK'
    BY <1>1 DEF TypeInv, TableOK, Create, Live, Row
  <2>2. WritersOK' /\ CookiesOK' /\ AttemptsOK' /\ at' \in [Writer \cup Attempt -> Stages]
    BY <1>1 DEF TypeInv, WritersOK, CookiesOK, AttemptsOK, Create, Goto, Stages, writing, unlocking
  <2> QED
    BY <2>1, <2>2
<1>2. ASSUME NEW a \in Album, NEW c \in Change, Load(w, a, c)
      PROVE  TableOK' /\ WritersOK' /\ CookiesOK' /\ AttemptsOK' /\ at' \in [Writer \cup Attempt -> Stages]
  <2>1. rows[a] \in Row /\ [id |-> a, row |-> rows[a]] \in Rows
    BY <1>2 DEF TypeInv, TableOK, Load, Live, Rows
  <2>2. TableOK' /\ CookiesOK' /\ AttemptsOK' /\ at' \in [Writer \cup Attempt -> Stages]
    BY <1>2 DEF TypeInv, TableOK, CookiesOK, AttemptsOK, Load, Goto, Stages, Live, table, unlocking
  <2>3. WritersOK'
    BY <1>2, <2>1, Nones DEF TypeInv, WritersOK, Load, Goto
  <2> QED
    BY <2>2, <2>3
<1>3. ASSUME Write(w)
      PROVE  TableOK' /\ WritersOK' /\ CookiesOK' /\ AttemptsOK' /\ at' \in [Writer \cup Attempt -> Stages]
  <2>1. loaded[w] \in Rows /\ change[w] \in Change
    BY <1>3 DEF TypeInv, WritersOK, Write
  <2>2. loaded[w].id \in Album /\ Patched(loaded[w].row, change[w]) \in Row
    BY <2>1, PatchedType DEF Rows
  <2>3. TableOK'
    BY <1>3, <2>2, Nones DEF TypeInv, TableOK, Write, Live
  <2>4. WritersOK' /\ CookiesOK' /\ AttemptsOK' /\ at' \in [Writer \cup Attempt -> Stages]
    BY <1>3 DEF TypeInv, WritersOK, CookiesOK, AttemptsOK, Write, Goto, Stages, unlocking
  <2> QED
    BY <2>3, <2>4
<1>4. ASSUME NEW a \in Album, Delete(w, a)
      PROVE  TableOK' /\ WritersOK' /\ CookiesOK' /\ AttemptsOK' /\ at' \in [Writer \cup Attempt -> Stages]
  <2>1. TableOK'
    BY <1>4 DEF TypeInv, TableOK, Delete, Live
  <2>2. WritersOK' /\ CookiesOK' /\ AttemptsOK' /\ at' \in [Writer \cup Attempt -> Stages]
    BY <1>4 DEF TypeInv, WritersOK, CookiesOK, AttemptsOK, Delete, Goto, Stages, writing, unlocking
  <2> QED
    BY <2>1, <2>2
<1> QED
  BY <1>1, <1>2, <1>3, <1>4

\* The session an attempt with the right password is answered with.
LEMMA AnswerType ==
  ASSUME TypeInv, NEW u \in Attempt, at[u] = "compare"
  PROVE  /\ try[u] \in Requests /\ found[u] \in Rows
         /\ LET base == IF Valid(try[u].cookie) THEN try[u].cookie.grants ELSE <<>>
            IN  /\ base \in Seq(Grant)
                /\ [exp |-> now + TTL, grants |-> Add(base, found[u].id, found[u].row.ver)] \in Sessions
<1>1. try[u] \in Requests /\ found[u] \in Rows
  BY DEF TypeInv, AttemptsOK
<1>2. found[u].id \in Album /\ found[u].row.ver \in Nat
  BY <1>1 DEF Rows, Row
<1>3. try[u].cookie \in Sessions \cup {None}
  BY <1>1 DEF Requests
<1> DEFINE base == IF Valid(try[u].cookie) THEN try[u].cookie.grants ELSE <<>>
<1>4. base \in Seq(Grant)
  BY <1>3 DEF Valid, Sessions, Session
<1>5. Add(base, found[u].id, found[u].row.ver) \in Seq(Grant) /\ Len(Add(base, found[u].id, found[u].row.ver)) <= MaxGrants
  BY <1>2, <1>4, AddFacts
<1>6. now + TTL \in Nat
  BY AccessAssumption, LimiterAssumption DEF TypeInv, LimiterOK, LInv, LimiterType
<1> QED
  BY <1>1, <1>4, <1>5, <1>6 DEF Sessions, Session

LEMMA AttemptType ==
  ASSUME TypeInv, NEW u \in Attempt,
         \/ Arrive(u) \/ Answer(u) \/ Receive(u)
         \/ \E b \in Browser, s \in Slug, pw \in Password : Send(u, b, s, pw)
  PROVE  /\ at' \in [Writer \cup Attempt -> Stages]
         /\ TableOK' /\ WritersOK' /\ CookiesOK' /\ AttemptsOK'
<1>1. ASSUME NEW b \in Browser, NEW s \in Slug, NEW pw \in Password, Send(u, b, s, pw)
      PROVE  TableOK' /\ WritersOK' /\ CookiesOK' /\ AttemptsOK' /\ at' \in [Writer \cup Attempt -> Stages]
  <2> DEFINE sent == [browser |-> b, slug |-> s, pw |-> pw, cookie |-> cookie[b]]
  <2>1. sent \in Requests /\ sent # NoTry
    BY Nones DEF TypeInv, CookiesOK, Requests
  <2>2. TableOK' /\ WritersOK' /\ at' \in [Writer \cup Attempt -> Stages]
    BY <1>1 DEF TypeInv, TableOK, WritersOK, Send, Goto, Stages, Live, table, writing
  <2>3. CookiesOK'
    BY <1>1 DEF TypeInv, CookiesOK, Send
  <2>4. at[u] = "start" /\ at' = [at EXCEPT ![u] = "arrive"] /\ try' = [try EXCEPT ![u] = sent]
        /\ found' = found /\ reply' = reply
    BY <1>1 DEF Send, Goto
  <2> HIDE DEF sent
  <2>5. AttemptsOK'
    BY <2>1, <2>4 DEF TypeInv, AttemptsOK
  <2> QED
    BY <2>2, <2>3, <2>5
<1>2. ASSUME Arrive(u)
      PROVE  TableOK' /\ WritersOK' /\ CookiesOK' /\ AttemptsOK' /\ at' \in [Writer \cup Attempt -> Stages]
  <2>1. at[u] = "arrive" /\ UNCHANGED <<table, writing, restarts, lost, cookie, reply, typed>>
    BY <1>2 DEF Arrive, Check, Deny
  <2>2. \/ Deny(u, "limited") \/ Deny(u, "done")
        \/ \E a \in Live : /\ Goto(u, "compare")
                           /\ found' = [found EXCEPT ![u] = [id |-> a, row |-> rows[a]]]
                           /\ UNCHANGED try
    BY <1>2 DEF Arrive, Check
  <2>3. at' \in [Writer \cup Attempt -> Stages]
    BY <2>2 DEF TypeInv, Deny, Goto, Stages
  <2>4. \E pos \in {"limited", "done", "compare"} : at' = [at EXCEPT ![u] = pos]
    BY <2>2 DEF Deny, Goto
  <2>5. TableOK' /\ WritersOK' /\ CookiesOK'
    BY <2>1, <2>4 DEF TypeInv, TableOK, WritersOK, CookiesOK, Live, table, writing
  <2>6. ASSUME NEW a \in Live, Goto(u, "compare"),
               found' = [found EXCEPT ![u] = [id |-> a, row |-> rows[a]]], UNCHANGED try
        PROVE  AttemptsOK'
    <3>1. [id |-> a, row |-> rows[a]] \in Rows
      BY DEF TypeInv, TableOK, Live, Rows
    <3> QED
      BY <2>1, <2>6, <3>1, Nones DEF TypeInv, AttemptsOK, Goto
  <2>7. ASSUME NEW pos \in {"limited", "done"}, Deny(u, pos) PROVE AttemptsOK'
    BY <2>1, <2>7 DEF TypeInv, AttemptsOK, Deny, Goto
  <2> QED
    BY <2>2, <2>3, <2>5, <2>6, <2>7
<1>3. ASSUME Answer(u)
      PROVE  TableOK' /\ WritersOK' /\ CookiesOK' /\ AttemptsOK' /\ at' \in [Writer \cup Attempt -> Stages]
  <2>1. at[u] = "compare" /\ UNCHANGED <<table, writing, restarts, lost, cookie, typed>>
    BY <1>3 DEF Answer, Deny
  <2>2. PICK sess \in Sessions :
          \/ Deny(u, "done")
          \/ /\ Goto(u, "reply") /\ reply' = [reply EXCEPT ![u] = sess]
             /\ found' = [found EXCEPT ![u] = None] /\ UNCHANGED try
    <3> DEFINE sess == [exp |-> now + TTL,
                grants |-> Add(IF Valid(try[u].cookie) THEN try[u].cookie.grants ELSE <<>>,
                               found[u].id, found[u].row.ver)]
    <3>1. sess \in Sessions
      BY <2>1, AnswerType
    <3>2. \/ Deny(u, "done")
          \/ /\ Goto(u, "reply") /\ reply' = [reply EXCEPT ![u] = sess]
             /\ found' = [found EXCEPT ![u] = None] /\ UNCHANGED try
      BY <1>3 DEF Answer
    <3> QED
      BY <3>1, <3>2
  <2>3. \E pos \in {"done", "reply"} : at' = [at EXCEPT ![u] = pos]
    BY <2>2 DEF Deny, Goto
  <2>4. TableOK' /\ WritersOK' /\ CookiesOK' /\ at' \in [Writer \cup Attempt -> Stages]
    BY <2>1, <2>3 DEF TypeInv, TableOK, WritersOK, CookiesOK, Live, Stages, table, writing
  <2>5. CASE Deny(u, "done")
    BY <2>1, <2>4, <2>5 DEF TypeInv, AttemptsOK, Deny, Goto
  <2>6. CASE /\ Goto(u, "reply") /\ reply' = [reply EXCEPT ![u] = sess]
             /\ found' = [found EXCEPT ![u] = None] /\ UNCHANGED try
    <3>1. sess # None
      BY Nones
    <3>2. AttemptsOK'
      BY <2>1, <2>6, <3>1 DEF TypeInv, AttemptsOK, Goto
    <3> QED
      BY <2>4, <3>2
  <2> QED
    BY <2>2, <2>5, <2>6
<1>4. ASSUME Receive(u)
      PROVE  TableOK' /\ WritersOK' /\ CookiesOK' /\ AttemptsOK' /\ at' \in [Writer \cup Attempt -> Stages]
  <2>1. TableOK' /\ WritersOK' /\ at' \in [Writer \cup Attempt -> Stages]
    BY <1>4 DEF TypeInv, TableOK, WritersOK, Receive, Goto, Stages, Live, table, writing
  <2>2. CookiesOK'
    <3>1. try[u] \in Requests /\ reply[u] \in Sessions
      BY <1>4 DEF TypeInv, AttemptsOK, Receive
    <3>2. try[u].browser \in Browser
      BY <3>1 DEF Requests
    <3> QED
      BY <1>4, <3>1, <3>2 DEF TypeInv, CookiesOK, Receive
  <2>3. AttemptsOK'
    BY <1>4 DEF TypeInv, AttemptsOK, Receive, Goto
  <2> QED
    BY <2>1, <2>2, <2>3
<1> QED
  BY <1>1, <1>2, <1>3, <1>4

LEMMA RestartType ==
  ASSUME TypeInv, Restart
  PROVE  /\ at' \in [Writer \cup Attempt -> Stages]
         /\ TableOK' /\ WritersOK' /\ CookiesOK' /\ AttemptsOK'
<1>1. at' \in [Writer \cup Attempt -> Stages]
  BY DEF TypeInv, Restart, Stages
<1>2. TableOK' /\ CookiesOK'
  BY DEF TypeInv, TableOK, CookiesOK, Restart, Live, table
<1>3. WritersOK'
  BY DEF TypeInv, WritersOK, Restart, Cli
<1>4. AttemptsOK'
  BY DEF TypeInv, AttemptsOK, Restart, Cli
<1> QED
  BY <1>1, <1>2, <1>3, <1>4

LEMMA StepType == TypeInv /\ [Next]_vars => TypeInv'
<1> SUFFICES ASSUME TypeInv, [Next]_vars PROVE TypeInv'
  OBVIOUS
<1>1. LimiterOK'
  BY LimiterMoves DEF TypeInv
<1>2. CASE UNCHANGED accessVars
  BY <1>1, <1>2 DEF TypeInv, TableOK, WritersOK, CookiesOK, AttemptsOK, Live, Cli,
                    accessVars, table, writing, unlocking
<1>3. CASE Restart
  BY <1>1, <1>3, RestartType DEF TypeInv
<1>4. ASSUME NEW w \in Writer,
             \/ Write(w)
             \/ \E a \in Album : \/ Delete(w, a)
                                 \/ \E pw \in Password \cup {None} : Create(w, a, pw)
                                 \/ \E c \in Change : Load(w, a, c)
      PROVE  TypeInv'
  BY <1>1, <1>4, WriterType DEF TypeInv
<1>5. ASSUME NEW u \in Attempt,
             \/ Arrive(u) \/ Answer(u) \/ Receive(u)
             \/ \E b \in Browser, s \in Slug, pw \in Password : Send(u, b, s, pw)
      PROVE  TypeInv'
  BY <1>1, <1>5, AttemptType DEF TypeInv
<1> QED
  BY <1>2, <1>3, <1>4, <1>5 DEF Next, Time, vars

LEMMA TypeAlways == Spec => []TypeInv
BY InitType, StepType, PTL DEF Spec

\* The limiter, the table, the requests under way and the cookies keep their
\* types: no cookie outgrows MaxGrants, and the limiter's map never MaxKeys.
THEOREM TypeCorrect == Spec => []TypeOK
BY TypeAlways, TypeHolds, PTL

-----------------------------------------------------------------------------
(* Grants.  As long as no write is lost, an album's version grows with      *)
(* every new password, so a version stands for one password: whoever holds  *)
(* the grant for it, in a cookie or on the way, has presented that one.     *)

Grants(sess) == IF sess = None THEN {} ELSE Range(sess.grants)

\* b may hold the grant g.
Earned(b, g) ==
  /\ g.album \in used
  /\ g.album \in Live =>
       /\ g.ver <= rows[g.album].ver
       /\ g.ver = rows[g.album].ver /\ Protected(rows[g.album]) =>
            <<SlugOf[g.album], rows[g.album].pw>> \in typed[b]

CookiesEarned == \A b \in Browser : \A g \in Grants(cookie[b]) : Earned(b, g)

SentEarned ==
  \A u \in Attempt : try[u] # NoTry =>
    /\ <<try[u].slug, try[u].pw>> \in typed[try[u].browser]
    /\ \A g \in Grants(try[u].cookie) : Earned(try[u].browser, g)

\* The row an unlock compares with is at most as new as the album's own, and of
\* the same version only with the same password.
FoundFits ==
  \A u \in Attempt : found[u] # None =>
    /\ found[u].id \in used /\ SlugOf[found[u].id] = try[u].slug
    /\ found[u].id \in Live =>
         /\ found[u].row.ver <= rows[found[u].id].ver
         /\ found[u].row.ver = rows[found[u].id].ver => found[u].row.pw = rows[found[u].id].pw
    /\ \A g \in Grants(try[u].cookie) : g.album = found[u].id => g.ver <= found[u].row.ver

\* The grants an answer starts from.
Base(u) == IF try[u].cookie # None /\ try[u].cookie.exp > reply[u].exp - TTL
           THEN try[u].cookie.grants ELSE <<>>

\* An answer adds to the cookie it was sent a grant that is not older.
Made(u) ==
  \E a \in Album, v \in Nat :
    /\ reply[u].grants = Add(Base(u), a, v)
    /\ \A g \in Grants(try[u].cookie) : g.album = a => g.ver <= v

ReplyEarned ==
  \A u \in Attempt : reply[u] # None =>
    Made(u) /\ \A g \in Range(reply[u].grants) : Earned(try[u].browser, g)

GrantInv == ~lost => CookiesEarned /\ SentEarned /\ FoundFits /\ ReplyEarned

\* What no step that loses nothing does to an album.
Upward ==
  /\ used \subseteq used'
  /\ \A b \in Browser : typed[b] \subseteq typed'[b]
  /\ \A a \in used : rows'[a] # None =>
       /\ rows[a] # None /\ rows[a].ver <= rows'[a].ver
       /\ rows'[a].ver = rows[a].ver => rows'[a].pw = rows[a].pw

LEMMA PatchedUp ==
  ASSUME NEW row \in Row, NEW c \in Change
  PROVE  /\ row.ver <= Patched(row, c).ver
         /\ Patched(row, c).ver = row.ver => Patched(row, c).pw = row.pw
         /\ ~c.cli /\ Protected(row) /\ Patched(row, c).pw = row.pw => Patched(row, c).ver = row.ver
<1>1. row.ver \in Nat /\ row.ver + 1 # row.ver /\ row.ver <= row.ver + 1 /\ row.pw \in Password \cup {None}
  BY DEF Row
<1> DEFINE r == IF c.cli THEN CliPassword(row, c.pw) ELSE UpdatedPassword(row, c.pw)
<1>2. CASE r = row
  BY <1>1, <1>2 DEF Patched, Row
<1>3. CASE r # row
  <2> DEFINE pw == IF c.pw = "clear" THEN None ELSE c.pw
  <2>1. r = [row EXCEPT !.pw = pw, !.ver = @ + 1]
    BY <1>3 DEF CliPassword, UpdatedPassword
  <2> HIDE DEF pw
  <2>2. r.pw = pw /\ r.ver = row.ver + 1
    BY <2>1 DEF Row
  <2>3. ~c.cli /\ Protected(row) => pw # row.pw
    BY <1>1, <1>3, AccessAssumption DEF UpdatedPassword, Protected, pw
  <2> HIDE DEF r
  <2>4. Patched(row, c).pw = r.pw /\ Patched(row, c).ver = r.ver
    BY <2>1 DEF Patched, r, Row
  <2> QED
    BY <1>1, <2>2, <2>3, <2>4
<1> QED
  BY <1>2, <1>3

LEMMA StepUp ==
  ASSUME TypeInv, [Next]_vars, ~lost'
  PROVE  ~lost /\ Upward
<1>0. \A a \in used : rows[a] \in Row \cup {None} /\ (rows[a] # None => rows[a].ver \in Nat)
  BY DEF TypeInv, TableOK, Row
<1>1. ASSUME UNCHANGED <<table, lost>>, \A b \in Browser : typed[b] \subseteq typed'[b]
      PROVE  ~lost /\ Upward
  BY <1>0, <1>1 DEF Upward, table
<1>2. ASSUME NEW w \in Writer, NEW a \in Album, NEW pw \in Password \cup {None}, Create(w, a, pw)
      PROVE  ~lost /\ Upward
  BY <1>0, <1>2 DEF Create, Upward, TypeInv, TableOK, unlocking
<1>3. ASSUME NEW w \in Writer, NEW a \in Album, Delete(w, a)
      PROVE  ~lost /\ Upward
  BY <1>0, <1>3 DEF Delete, Upward, TypeInv, TableOK, unlocking
<1>4. ASSUME NEW w \in Writer, Write(w)
      PROVE  ~lost /\ Upward
  <2>1. loaded[w].id \in Album /\ change[w] \in Change
    BY <1>4 DEF TypeInv, WritersOK, Write, Rows
  <2>2. CASE loaded[w].id \in Live
    <3> DEFINE a == loaded[w].id
    <3>1. rows' = [rows EXCEPT ![a] = Patched(rows[a], change[w])] /\ ~lost /\ rows[a] \in Row
      BY <1>4, <2>1, <2>2 DEF Write, Live, TypeInv, TableOK
    <3>2. used' = used /\ typed' = typed
      BY <1>4 DEF Write, unlocking
    <3> HIDE DEF a
    <3>3. ASSUME NEW x \in used, rows'[x] # None
          PROVE  /\ rows[x] # None /\ rows[x].ver <= rows'[x].ver
                 /\ rows'[x].ver = rows[x].ver => rows'[x].pw = rows[x].pw
      <4>1. CASE x = a
        <5>1. rows'[x] = Patched(rows[x], change[w])
          BY <3>1, <3>3, <4>1 DEF TypeInv, TableOK
        <5> QED
          BY <2>1, <3>1, <4>1, <5>1, PatchedUp, Nones
      <4>2. CASE x # a
        BY <1>0, <3>1, <3>3, <4>2 DEF TypeInv, TableOK
      <4> QED
        BY <4>1, <4>2
    <3> QED
      BY <3>1, <3>2, <3>3 DEF Upward
  <2>3. CASE loaded[w].id \notin Live
    BY <1>1, <1>4, <2>3 DEF Write, table, unlocking
  <2> QED
    BY <2>2, <2>3
<1>5. ASSUME NEW u \in Attempt, NEW b \in Browser, NEW s \in Slug, NEW pw \in Password, Send(u, b, s, pw)
      PROVE  ~lost /\ Upward
  BY <1>1, <1>5 DEF Send, table, TypeInv, CookiesOK
<1>6. ASSUME UNCHANGED <<table, lost, typed>>
      PROVE  ~lost /\ Upward
  BY <1>1, <1>6
<1> QED
  BY <1>2, <1>3, <1>4, <1>5, <1>6
  DEF Next, vars, accessVars, table, unlocking, Time, Restart, Load, Arrive, Check, Deny, Answer, Receive

\* A grant stays earned.
LEMMA EarnedStays ==
  ASSUME TypeInv, TypeInv', Upward, NEW b \in Browser, NEW g \in Grant, Earned(b, g)
  PROVE  Earned(b, g)'
<1>1. g.album \in used /\ g.album \in used' /\ g.ver \in Nat
  BY DEF Earned, Upward, Grant
<1>2. CASE rows'[g.album] = None
  BY <1>1, <1>2 DEF Earned, Live
<1>3. CASE rows'[g.album] # None
  <2>1. /\ rows[g.album] # None /\ rows[g.album].ver <= rows'[g.album].ver
        /\ rows'[g.album].ver = rows[g.album].ver => rows'[g.album].pw = rows[g.album].pw
    BY <1>1, <1>3 DEF Upward
  <2>2. g.album \in Live /\ rows[g.album].ver \in Nat /\ rows'[g.album].ver \in Nat
    BY <1>1, <1>3, <2>1 DEF TypeInv, TableOK, Live, Row
  <2>3. /\ g.ver <= rows[g.album].ver
        /\ g.ver = rows[g.album].ver /\ Protected(rows[g.album]) =>
             <<SlugOf[g.album], rows[g.album].pw>> \in typed[b]
    BY <2>2 DEF Earned
  <2>4. g.ver <= rows'[g.album].ver
    BY <1>1, <2>1, <2>2, <2>3
  <2>5. ASSUME g.ver = rows'[g.album].ver, rows'[g.album].pw # None
        PROVE  <<SlugOf[g.album], rows'[g.album].pw>> \in typed'[b]
    <3>1. g.ver = rows[g.album].ver /\ rows'[g.album].pw = rows[g.album].pw
      BY <1>1, <2>1, <2>2, <2>3, <2>5
    <3> QED
      BY <2>3, <2>5, <3>1 DEF Protected, Upward
  <2> QED
    BY <1>1, <2>4, <2>5 DEF Earned, Protected
<1> QED
  BY <1>2, <1>3

LEMMA SessionGrants ==
  \A s \in Sessions \cup {None} : Grants(s) \subseteq Grant /\ (s # None => Grants(s) = Range(s.grants))
BY Nones DEF Grants, Sessions, Session, Range

LEMMA SessionStays ==
  ASSUME TypeInv, TypeInv', Upward, NEW b \in Browser, NEW s \in Sessions \cup {None},
         \A g \in Grants(s) : Earned(b, g)
  PROVE  \A g \in Grants(s) : Earned(b, g)'
BY EarnedStays, SessionGrants

LEMMA CookieChanges ==
  ASSUME TypeInv, [Next]_vars, NEW b \in Browser
  PROVE  \/ cookie'[b] = cookie[b]
         \/ \E u \in Attempt : /\ Receive(u) /\ at[u] = "reply" /\ try[u].browser = b
                               /\ cookie'[b] = reply[u]
<1>1. ASSUME NEW u \in Attempt, Receive(u)
      PROVE  \/ cookie'[b] = cookie[b]
             \/ at[u] = "reply" /\ try[u].browser = b /\ cookie'[b] = reply[u]
  BY <1>1 DEF Receive, TypeInv, CookiesOK
<1>2. cookie' = cookie \/ \E u \in Attempt : Receive(u)
  BY DEF Next, vars, accessVars, unlocking, Time, Restart, Create, Write, Delete, Load,
         Send, Arrive, Check, Deny, Answer
<1> QED
  BY <1>1, <1>2

LEMMA AttemptChanges ==
  ASSUME TypeInv, [Next]_vars, NEW u \in Attempt
  PROVE  /\ \/ try'[u] = try[u] \/ try'[u] = NoTry
            \/ \E b \in Browser, s \in Slug, pw \in Password : Send(u, b, s, pw)
         /\ found'[u] = None \/ (found'[u] = found[u] /\ try'[u] = try[u]) \/ Arrive(u)
         /\ reply'[u] = None \/ (reply'[u] = reply[u] /\ try'[u] = try[u]) \/ Answer(u)
<1> DEFINE Calm(v) == /\ try'[v] = try[v] \/ try'[v] = NoTry
                      /\ found'[v] = None \/ (found'[v] = found[v] /\ try'[v] = try[v])
                      /\ reply'[v] = None \/ (reply'[v] = reply[v] /\ try'[v] = try[v])
<1>1. ASSUME UNCHANGED <<try, found, reply>> PROVE Calm(u)
  BY <1>1
<1>2. CASE Restart
  <2>1. try'[u] = (IF at[u] = "reply" THEN try[u] ELSE NoTry) /\ found'[u] = None /\ reply'[u] = reply[u]
    BY <1>2 DEF Restart
  <2>2. at[u] # "reply" => reply[u] = None
    BY DEF TypeInv, AttemptsOK
  <2> QED
    BY <2>1, <2>2
<1>3. ASSUME NEW v \in Attempt, v # u,
             \/ Arrive(v) \/ Answer(v) \/ Receive(v)
             \/ \E b \in Browser, s \in Slug, pw \in Password : Send(v, b, s, pw)
      PROVE  Calm(u)
  BY <1>3 DEF Arrive, Check, Deny, Answer, Receive, Send, TypeInv, AttemptsOK
<1> DEFINE Sends == \E b \in Browser, s \in Slug, pw \in Password : Send(u, b, s, pw)
<1>0. /\ try \in [Attempt -> Requests \cup {NoTry}] /\ found \in [Attempt -> Rows \cup {None}]
      /\ reply \in [Attempt -> Sessions \cup {None}]
      /\ at[u] # "compare" => found[u] = None
      /\ at[u] # "reply" => reply[u] = None
  BY DEF TypeInv, AttemptsOK
<1>4. CASE Arrive(u)
  <2>1. at[u] = "arrive" /\ reply' = reply
    BY <1>4 DEF Arrive, Check, Deny
  <2>2. try' = try \/ try' = [try EXCEPT ![u] = NoTry]
    BY <1>4 DEF Arrive, Check, Deny
  <2> QED
    BY <1>0, <1>4, <2>1, <2>2
<1>5. CASE Answer(u)
  <2>1. at[u] = "compare" /\ found' = [found EXCEPT ![u] = None]
    BY <1>5 DEF Answer, Deny
  <2>2. try' = try \/ try' = [try EXCEPT ![u] = NoTry]
    BY <1>5 DEF Answer, Deny
  <2> QED
    BY <1>0, <1>5, <2>1, <2>2
<1>6. CASE Receive(u)
  BY <1>0, <1>6 DEF Receive
<1>7. CASE Sends
  <2>1. at[u] = "start" /\ found' = found /\ reply' = reply
    BY <1>7 DEF Send
  <2> QED
    BY <1>0, <1>7, <2>1
<1>8. \/ UNCHANGED <<try, found, reply>> \/ Restart
      \/ \E v \in Attempt :
           \/ Arrive(v) \/ Answer(v) \/ Receive(v)
           \/ \E b \in Browser, s \in Slug, pw \in Password : Send(v, b, s, pw)
  BY DEF Next, vars, accessVars, unlocking, Time, Create, Write, Delete, Load
<1>9. Calm(u) \/ Arrive(u) \/ Answer(u) \/ Receive(u) \/ Sends
  <2>1. CASE \E v \in Attempt : v # u /\ (\/ Arrive(v) \/ Answer(v) \/ Receive(v)
                                         \/ \E b \in Browser, s \in Slug, pw \in Password : Send(v, b, s, pw))
    <3> HIDE DEF Calm
    <3> QED
      BY <1>3, <2>1
  <2> QED
    BY <1>1, <1>2, <1>8, <2>1
<1> QED
  BY <1>4, <1>5, <1>6, <1>7, <1>9

LEMMA InitGrants == Init => GrantInv
BY DEF Init, GrantInv, CookiesEarned, SentEarned, FoundFits, ReplyEarned, Grants

LEMMA StepGrants ==
  ASSUME TypeInv, TypeInv', GrantInv, [Next]_vars
  PROVE  GrantInv'
<1> SUFFICES ASSUME ~lost' PROVE CookiesEarned' /\ SentEarned' /\ FoundFits' /\ ReplyEarned'
  BY DEF GrantInv
<1>1. ~lost /\ Upward
  BY StepUp
<1>2. CookiesEarned /\ SentEarned /\ FoundFits /\ ReplyEarned
  BY <1>1 DEF GrantInv
<1>3. \A u \in Attempt : /\ try[u] # NoTry => try[u] \in Requests /\ try[u].browser \in Browser
                                              /\ try[u].cookie \in Sessions \cup {None}
                         /\ found[u] # None => found[u] \in Rows /\ try[u] # NoTry
                         /\ reply[u] # None => reply[u] \in Sessions /\ try[u] # NoTry
  BY DEF TypeInv, AttemptsOK, Requests
<1>4. CookiesEarned'
  <2> SUFFICES ASSUME NEW b \in Browser PROVE \A g \in Grants(cookie'[b]) : Earned(b, g)'
    BY DEF CookiesEarned
  <2>1. CASE cookie'[b] = cookie[b]
    <3>1. cookie[b] \in Sessions \cup {None} /\ \A g \in Grants(cookie[b]) : Earned(b, g)
      BY <1>2 DEF TypeInv, CookiesOK, CookiesEarned
    <3> QED
      BY <1>1, <2>1, <3>1, SessionStays
  <2>2. ASSUME NEW u \in Attempt, at[u] = "reply", try[u].browser = b, cookie'[b] = reply[u]
        PROVE  \A g \in Grants(cookie'[b]) : Earned(b, g)'
    <3>1. reply[u] # None /\ reply[u] \in Sessions
      BY <1>3, <2>2 DEF TypeInv, AttemptsOK
    <3>2. \A g \in Grants(reply[u]) : Earned(b, g)
      BY <1>2, <2>2, <3>1 DEF ReplyEarned, Grants
    <3> QED
      BY <1>1, <2>2, <3>1, <3>2, SessionStays
  <2> QED
    BY <2>1, <2>2, CookieChanges
<1>5. ASSUME NEW u \in Attempt, try[u] # NoTry, NEW b, b = try[u].browser,
             NEW c, c = try[u].cookie
      PROVE  /\ b \in Browser /\ <<try[u].slug, try[u].pw>> \in typed'[b]
             /\ \A g \in Grants(c) : Earned(b, g)'
  <2>1. /\ b \in Browser /\ c \in Sessions \cup {None} /\ <<try[u].slug, try[u].pw>> \in typed[b]
        /\ \A g \in Grants(c) : Earned(b, g)
    BY <1>2, <1>3, <1>5 DEF SentEarned
  <2> QED
    BY <1>1, <2>1, SessionStays DEF Upward
<1>6. SentEarned'
  <2> SUFFICES ASSUME NEW u \in Attempt, try'[u] # NoTry, NEW b, b = try'[u].browser,
                      NEW c, c = try'[u].cookie
               PROVE  /\ <<try'[u].slug, try'[u].pw>> \in typed'[b]
                      /\ \A g \in Grants(c) : Earned(b, g)'
    BY DEF SentEarned, Earned
  <2>1. CASE try'[u] = try[u]
    BY <1>5, <2>1
  <2>2. ASSUME NEW by \in Browser, NEW s \in Slug, NEW pw \in Password, Send(u, by, s, pw)
        PROVE  /\ <<try'[u].slug, try'[u].pw>> \in typed'[b]
               /\ \A g \in Grants(c) : Earned(b, g)'
    <3>1. try'[u] = [browser |-> by, slug |-> s, pw |-> pw, cookie |-> cookie[by]]
      BY <2>2 DEF Send, TypeInv, AttemptsOK
    <3>2. b = by /\ c = cookie[b]
      BY <3>1
    <3>3. <<s, pw>> \in typed'[by]
      BY <2>2 DEF Send, TypeInv, CookiesOK
    <3>4. c \in Sessions \cup {None} /\ \A g \in Grants(c) : Earned(b, g)
      BY <1>2, <3>2 DEF TypeInv, CookiesOK, CookiesEarned
    <3> QED
      BY <1>1, <3>1, <3>2, <3>3, <3>4, SessionStays
  <2> QED
    BY <2>1, <2>2, AttemptChanges
<1>7. FoundFits'
  <2> SUFFICES ASSUME NEW u \in Attempt, found'[u] # None
               PROVE  LET f == found'[u] IN
                      /\ f.id \in used' /\ SlugOf[f.id] = try'[u].slug
                      /\ rows'[f.id] # None =>
                           /\ f.row.ver <= rows'[f.id].ver
                           /\ f.row.ver = rows'[f.id].ver => f.row.pw = rows'[f.id].pw
                      /\ \A g \in Grants(try'[u].cookie) : g.album = f.id => g.ver <= f.row.ver
    BY DEF FoundFits, Live
  <2>1. CASE found'[u] = found[u] /\ try'[u] = try[u]
    <3> DEFINE f == found[u]
    <3>1. /\ f.id \in used /\ SlugOf[f.id] = try[u].slug
          /\ f.id \in Live =>
               /\ f.row.ver <= rows[f.id].ver
               /\ f.row.ver = rows[f.id].ver => f.row.pw = rows[f.id].pw
          /\ \A g \in Grants(try[u].cookie) : g.album = f.id => g.ver <= f.row.ver
      BY <1>2, <2>1 DEF FoundFits
    <3>2. f.row.ver \in Nat /\ f.id \in Album
      BY <1>3, <2>1 DEF Rows, Row
    <3>3. \A a \in Album : /\ rows[a] # None => rows[a].ver \in Nat /\ a \in Live
                           /\ rows'[a] # None => rows'[a].ver \in Nat
      BY DEF TypeInv, TableOK, Row, Live
    <3> HIDE DEF f
    <3>4. f.id \in used'
      BY <1>1, <3>1 DEF Upward
    <3>5. rows'[f.id] # None =>
            /\ f.row.ver <= rows'[f.id].ver
            /\ f.row.ver = rows'[f.id].ver => f.row.pw = rows'[f.id].pw
      BY <1>1, <3>1, <3>2, <3>3 DEF Upward
    <3> QED
      BY <2>1, <3>1, <3>4, <3>5 DEF f
  <2>2. CASE Arrive(u)
    <3>1. try[u] # NoTry /\ rows' = rows /\ used' = used
      BY <2>2 DEF Arrive, Check, TypeInv, AttemptsOK, table
    <3>2. PICK a \in Live : /\ SlugOf[a] = try[u].slug /\ try' = try
                            /\ found'[u] = [id |-> a, row |-> rows[a]]
      BY <2>2 DEF Arrive, Check, Deny, TypeInv, AttemptsOK
    <3>3. a \in used /\ rows[a] # None /\ rows[a].ver \in Nat
      BY DEF TypeInv, TableOK, Live, Row
    <3>4. \A g \in Grants(try[u].cookie) : g.album = a => g.ver <= rows[a].ver
      BY <1>2, <3>1 DEF SentEarned, Earned
    <3> QED
      BY <3>1, <3>2, <3>3, <3>4
  <2> QED
    BY <2>1, <2>2, AttemptChanges
<1>8. ReplyEarned'
  <2> SUFFICES ASSUME NEW u \in Attempt, reply'[u] # None, NEW b, b = try'[u].browser,
                      NEW r, r = reply'[u]
               PROVE  Made(u)' /\ \A g \in Range(r.grants) : Earned(b, g)'
    BY DEF ReplyEarned, Earned
  <2>1. CASE reply'[u] = reply[u] /\ try'[u] = try[u]
    <3>1. Made(u) /\ \A g \in Grants(r) : Earned(b, g)
      BY <1>2, <2>1 DEF ReplyEarned, Grants
    <3>2. Made(u)'
      BY <2>1, <3>1 DEF Made, Base
    <3>3. \A g \in Grants(r) : Earned(b, g)'
      BY <1>1, <1>3, <2>1, <3>1, SessionStays
    <3> QED
      BY <2>1, <3>2, <3>3 DEF Grants
  <2>2. CASE Answer(u)
    <3> DEFINE f == found[u]
               base == IF Valid(try[u].cookie) THEN try[u].cookie.grants ELSE <<>>
    <3>1. at[u] = "compare" /\ f # None /\ try[u] # NoTry
      BY <2>2 DEF Answer, TypeInv, AttemptsOK
    <3>2. /\ try[u].pw = f.row.pw /\ try' = try /\ rows' = rows /\ used' = used /\ typed' = typed
          /\ reply'[u] = [exp |-> now + TTL, grants |-> Add(base, f.id, f.row.ver)]
      BY <2>2, <3>1 DEF Answer, Deny, TypeInv, AttemptsOK, table
    <3>3. f.id \in Album /\ f.row.ver \in Nat /\ base \in Seq(Grant)
      BY <3>1, AnswerType DEF Rows, Row
    <3>4. try[u].browser \in Browser /\ try[u].cookie \in Sessions \cup {None}
      BY <1>3, <3>1
    <3>5. Range(base) \subseteq Grants(try[u].cookie)
      BY <3>4, SessionGrants DEF Valid, Range
    <3>6. /\ f.id \in used /\ SlugOf[f.id] = try[u].slug
          /\ f.id \in Live =>
               /\ f.row.ver <= rows[f.id].ver
               /\ f.row.ver = rows[f.id].ver => f.row.pw = rows[f.id].pw
          /\ \A g \in Grants(try[u].cookie) : g.album = f.id => g.ver <= f.row.ver
      BY <1>2, <3>1 DEF FoundFits
    <3>7. Made(u)'
      <4>1. reply'[u].exp - TTL = now /\ reply'[u].grants = Add(base, f.id, f.row.ver)
        <5>1. now \in Nat /\ TTL \in Nat
          BY AccessAssumption, LimiterAssumption DEF TypeInv, LimiterOK, LInv, LimiterType
        <5> QED
          BY <3>2, <5>1
      <4>2. Base(u)' = base
        BY <3>2, <4>1 DEF Base, Valid
      <4> HIDE DEF base, f
      <4> QED
        BY <3>2, <3>3, <3>6, <4>1, <4>2 DEF Made
    <3>8. ASSUME NEW g \in Range(r.grants) PROVE Earned(b, g)
      <4>0. r.grants = Add(base, f.id, f.row.ver) /\ b = try[u].browser
        BY <3>2
      <4> HIDE DEF base, f
      <4>1. g \in Range(base) \/ g = [album |-> f.id, ver |-> f.row.ver]
        <5>1. g \in Range(Add(base, f.id, f.row.ver))
          BY <3>8, <4>0
        <5>2. \A h \in Range(Add(base, f.id, f.row.ver)) :
                h \in Range(base) \/ h = [album |-> f.id, ver |-> f.row.ver]
          BY <3>3, AddFacts
        <5> QED
          BY <5>1, <5>2
      <4>2. CASE g \in Range(base)
        BY <1>2, <3>1, <3>5, <4>0, <4>2 DEF SentEarned
      <4>3. CASE g = [album |-> f.id, ver |-> f.row.ver]
        BY <1>2, <3>1, <3>2, <3>6, <4>0, <4>3 DEF SentEarned, Earned
      <4> QED
        BY <4>1, <4>2, <4>3
    <3>9. ASSUME NEW g \in Range(r.grants) PROVE Earned(b, g)'
      BY <3>2, <3>8, <3>9 DEF Earned, Live
    <3> QED
      BY <3>2, <3>7, <3>9
  <2> QED
    BY <2>1, <2>2, AttemptChanges
<1> QED
  BY <1>4, <1>6, <1>7, <1>8

LEMMA GrantsAlways == Spec => [](TypeInv /\ GrantInv)
<1>1. Init => TypeInv /\ GrantInv
  BY InitType, InitGrants
<1>2. TypeInv /\ GrantInv /\ [Next]_vars => TypeInv' /\ GrantInv'
  BY StepType, StepGrants
<1> QED
  BY <1>1, <1>2, PTL DEF Spec

LEMMA GuardsHold == TypeInv /\ GrantInv => PasswordGuards
<1> SUFFICES ASSUME TypeInv, GrantInv, ~lost, NEW b \in Browser, NEW a \in Live,
                    Protected(rows[a]), Pictures(b, a)
             PROVE  <<SlugOf[a], rows[a].pw>> \in typed[b]
  BY DEF PasswordGuards
<1>1. Valid(cookie[b]) /\ Granted(cookie[b], a, rows[a].ver)
  BY DEF Pictures, Hits, Cover, Open
<1> DEFINE g == [album |-> a, ver |-> rows[a].ver]
<1>2. g \in Grants(cookie[b])
  BY <1>1 DEF Granted, Valid, Grants
<1>3. Earned(b, g)
  BY <1>2 DEF GrantInv, CookiesEarned
<1>4. rows[a].ver \in Nat
  BY DEF TypeInv, TableOK, Live, Row
<1> QED
  BY <1>3, <1>4 DEF Earned

\* Whoever sees pictures of a protected album has presented its present
\* password, however many changes, deletions, unlocks and restarts interleave,
\* as long as no write of a row is lost to another one (updateAlbum, unlockAlbum
\* and set-password).
THEOREM GrantsAreEarned == Spec => []PasswordGuards
BY GrantsAlways, GuardsHold, PTL

-----------------------------------------------------------------------------
(* Refusals.                                                               *)

\* A bucket of the swept map is not full.
LEMMA SweptInUse ==
  ASSUME NEW bs \in Maps, Past(bs), now \in Nat, NEW k \in Tracked(Swept(bs))
  PROVE  Level(bs, k) < Capacity
<1>1. k \in Key /\ bs[k] # None /\ Refilled(bs[k]) # Capacity
  BY DEF Swept, Tracked
<1>2. Level(bs, k) \in 0..Capacity
  BY <1>1, LevelType
<1> QED
  BY <1>1, <1>2, LimiterAssumption DEF Level

\* When a new key finds no room, MaxKeys buckets are in use.
LEMMA CrowdedFull ==
  ASSUME LimiterOK, NEW k \in Key, Crowded(Kept(k), k)
  PROVE  Cardinality({j \in Address \X Slug : levels[j] < Capacity}) >= MaxKeys
<1> DEFINE bs == AfterDue
           inUse == {j \in Address \X Slug : levels[j] < Capacity}
<1>1. /\ buckets \in Maps /\ Past(buckets) /\ now \in Nat /\ MaxKeys \in Nat
      /\ Address \X Slug \subseteq Key
  BY LimiterAssumption, AccessAssumption DEF LimiterOK, LInv, LimiterType, Maps, Past
<1>2. bs \in Maps /\ Past(bs) /\ Tracked(bs) \subseteq Tracked(buckets)
  BY <1>1, SweptType DEF AfterDue, Past
<1>3. Kept(k) = Swept(bs)
  BY DEF Kept
<1>4. ASSUME NEW j \in Tracked(Kept(k)) PROVE j \in inUse
  <2>1. j \in Key /\ j \in Address \X Slug
    BY <1>1, <1>4, KeptType DEF LimiterOK, OnlyReal, Tracked
  <2>2. Level(bs, j) < Capacity
    BY <1>1, <1>2, <1>3, <1>4, SweptInUse
  <2>3. levels[j] = Level(bs, j)
    <3>1. Level(bs, j) = Level(buckets, j)
      BY <1>1, <2>1, SweptLevels DEF AfterDue
    <3> QED
      BY <2>1, <3>1 DEF levels
  <2> QED
    BY <2>1, <2>2, <2>3
<1>5. Cardinality(Tracked(Kept(k))) >= MaxKeys
  BY DEF Crowded
<1>6. inUse \subseteq Key /\ IsFiniteSet(inUse) /\ Cardinality(inUse) \in Nat
  BY <1>1, LimiterAssumption, FS_Subset, FS_CardinalityType
<1>7. Cardinality(Tracked(Kept(k))) <= Cardinality(inUse) /\ Cardinality(Tracked(Kept(k))) \in Nat
  <2>1. Tracked(Kept(k)) \subseteq inUse
    BY <1>4
  <2> HIDE DEF inUse
  <2> QED
    BY <1>6, <2>1, TrackedFinite, FS_Subset
<1> QED
  BY <1>1, <1>5, <1>6, <1>7

LEMMA RefusalStep ==
  ASSUME TypeInv, [Next]_vars, NEW u \in Attempt, at[u] = "arrive", at'[u] = "limited"
  PROVE  \/ levels[<<AddressOf[try[u].browser], try[u].slug>>] = 0
         \/ Cardinality({k \in Address \X Slug : levels[k] < Capacity}) >= MaxKeys
<1> DEFINE key == <<AddressOf[try[u].browser], try[u].slug>>
<1>1. try[u].browser \in Browser /\ try[u].slug \in Slug
  BY DEF TypeInv, AttemptsOK, Requests
<1>2. Arrive(u)
  <2>0. at \in [Writer \cup Attempt -> Stages]
    BY DEF TypeInv
  <2>1. \A x \in Writer \cup Attempt : (\E s \in Stages \ {"limited"} : Goto(x, s)) => at'[u] # "limited"
    BY <2>0 DEF Goto
  <2>2. ~Restart
    BY DEF Restart
  <2>3. ~\E w \in Writer :
          \/ Write(w)
          \/ \E a \in Album : \/ Delete(w, a)
                              \/ \E pw \in Password \cup {None} : Create(w, a, pw)
                              \/ \E c \in Change : Load(w, a, c)
    BY <2>1 DEF Write, Delete, Create, Load, Stages
  <2>4. ~\E v \in Attempt :
          \/ Answer(v) \/ Receive(v)
          \/ \E b \in Browser, s \in Slug, pw \in Password : Send(v, b, s, pw)
    BY <2>1 DEF Answer, Deny, Receive, Send, Stages
  <2>5. ~UNCHANGED at
    OBVIOUS
  <2>6. PICK v \in Attempt : Arrive(v)
    BY <2>2, <2>3, <2>4, <2>5 DEF Next, vars, accessVars, Time
  <2>7. \E s \in Stages : Goto(v, s)
    BY <2>6 DEF Arrive, Check, Deny, Stages
  <2>8. v = u
    BY <2>0, <2>7 DEF Goto
  <2> QED
    BY <2>6, <2>8
<1>3. PICK ip \in Limited(try[u].browser) : Check(u, <<ip, try[u].slug>>)
  BY <1>2 DEF Arrive
<1>4. <<ip, try[u].slug>> = key /\ key \in Key
  BY <1>1, OwnKey
<1> HIDE DEF key
<1>5. Refused(key)
  <2>1. ~Goto(u, "compare") /\ ~Goto(u, "done")
    BY DEF TypeInv, Goto
  <2> QED
    BY <1>3, <1>4, <2>1 DEF Check, Deny
<1>6. CASE Crowded(Kept(key), key)
  BY <1>4, <1>6, CrowdedFull DEF TypeInv
<1>7. CASE Level(Kept(key), key) = 0
  <2>1. Level(buckets, key) = 0
    BY <1>4, <1>7, KeptLevels DEF TypeInv, LimiterOK, LInv, LimiterType, Maps
  <2> QED
    BY <1>4, <2>1 DEF levels, key
<1> QED
  BY <1>5, <1>6, <1>7 DEF Refused

\* An unlock is refused only when its own address has used up its bucket for
\* that album or MaxKeys buckets of real addresses are in use, whatever clients
\* write into X-Forwarded-For (clientIP, RateLimiter.Allow).
THEOREM RefusalsAreDeserved == Spec => RefusedForCause
<1>1. TypeInv /\ [Next]_vars =>
        [\A u \in Attempt : at[u] = "arrive" /\ at'[u] = "limited" =>
           \/ levels[<<AddressOf[try[u].browser], try[u].slug>>] = 0
           \/ Cardinality({k \in Address \X Slug : levels[k] < Capacity}) >= MaxKeys]_vars
  BY RefusalStep
<1> QED
  BY <1>1, TypeAlways, PTL DEF Spec, RefusedForCause

LEMMA LimiterRuns == Spec => LimiterSpec
<1>1. Init => LimiterInit
  BY DEF Init
<1>2. ASSUME TypeInv, [Next]_vars PROVE [LimiterNext]_limiter
  <2>1. ASSUME NEW u \in Attempt, Arrive(u) PROVE LimiterNext
    <3>1. try[u].browser \in Browser /\ try[u].slug \in Slug
      <4>1. AttemptsOK /\ at[u] = "arrive"
        BY <1>2, <2>1 DEF TypeInv, Arrive
      <4> QED
        BY <4>1 DEF AttemptsOK, Requests
    <3>2. PICK ip \in Limited(try[u].browser) : Check(u, <<ip, try[u].slug>>)
      BY <2>1 DEF Arrive
    <3>3. <<ip, try[u].slug>> \in Key
      BY <3>1, OwnKey
    <3> QED
      BY <3>2, <3>3 DEF Check, LimiterNext
  <2>2. \/ Tick \/ Forget \/ UNCHANGED limiter \/ \E u \in Attempt : Arrive(u)
    BY <1>2 DEF Next, vars, Time, Restart, Write, Delete, Create, Load, Answer, Receive, Send
  <2> QED
    BY <2>1, <2>2 DEF LimiterNext
<1> QED
  BY <1>1, <1>2, TypeAlways, PTL DEF Spec, LimiterSpec

\* The limiter as the unlocks, the clock and restarts drive it: bounding and
\* sweeping its map never shows (RateLimiter.Allow under unlockAlbum).
THEOREM UnlocksAreBucketed == Spec => ImplementsBuckets
BY LimiterRuns, BoundIsInvisible

-----------------------------------------------------------------------------
(* Staying open.                                                           *)

\* Of an album that keeps its password only set-password changes the version.
LEMMA VersionStays ==
  ASSUME TypeInv, [Next]_vars, ~lost', NEW a \in Live,
         rows'[a] # None, rows'[a].pw = rows[a].pw, Protected(rows[a]),
         ~\E w \in Writer : Cli(w) /\ at'[w] = "done"
  PROVE  rows'[a].ver = rows[a].ver
<1>0. a \in Album /\ a \in used /\ rows[a] \in Row /\ rows \in [Album -> Row \cup {None}]
  BY DEF TypeInv, TableOK, Live
<1>1. CASE rows' = rows
  BY <1>1
<1>2. ASSUME NEW w \in Writer, NEW x \in Album, NEW pw \in Password \cup {None}, Create(w, x, pw)
      PROVE  rows'[a].ver = rows[a].ver
  BY <1>0, <1>2 DEF Create
<1>3. ASSUME NEW w \in Writer, NEW x \in Album, Delete(w, x)
      PROVE  rows'[a].ver = rows[a].ver
  BY <1>0, <1>3 DEF Delete
<1>4. ASSUME NEW w \in Writer, Write(w)
      PROVE  rows'[a].ver = rows[a].ver
  <2>1. loaded[w].id \in Album /\ change[w] \in Change /\ at[w] = "write"
    BY <1>4 DEF TypeInv, WritersOK, Write, Rows
  <2>2. at'[w] = "done"
    BY <1>4 DEF Write, Goto, TypeInv
  <2>3. ~change[w].cli
    BY <2>1, <2>2 DEF Cli
  <2>4. CASE loaded[w].id = a
    <3>1. loaded[w].row = rows[a] /\ rows'[a] = Patched(rows[a], change[w])
      BY <1>0, <1>4, <2>4 DEF Write
    <3> QED
      BY <1>0, <2>1, <2>3, <3>1, PatchedUp
  <2>5. CASE loaded[w].id # a
    BY <1>0, <1>4, <2>1, <2>5 DEF Write
  <2> QED
    BY <2>4, <2>5
<1>5. \/ rows' = rows
      \/ \E w \in Writer :
           \/ Write(w)
           \/ \E x \in Album : \/ Delete(w, x)
                               \/ \E pw \in Password \cup {None} : Create(w, x, pw)
  BY DEF Next, vars, accessVars, table, Time, Restart, Load, Arrive, Check, Deny, Answer, Receive, Send
<1> QED
  BY <1>1, <1>2, <1>3, <1>4, <1>5

LEMMA OpenStep ==
  ASSUME TypeInv, TypeInv', GrantInv, [Next]_vars, NEW b \in Browser, NEW a \in Live,
         Protected(rows[a]), Open(b, a), ~Open(b, a)'
  PROVE  \/ rows'[a] = None \/ rows'[a].pw # rows[a].pw
         \/ now' # now \/ lost'
         \/ \E w \in Writer : Cli(w) /\ at'[w] = "done"
         \/ \E u \in Attempt : at[u] = "reply" /\ at'[u] = "done" /\ Excused(u, a)
<1> SUFFICES ASSUME rows'[a] # None, rows'[a].pw = rows[a].pw, now' = now, ~lost',
                    ~\E w \in Writer : Cli(w) /\ at'[w] = "done",
                    ~\E u \in Attempt : at[u] = "reply" /\ at'[u] = "done" /\ Excused(u, a)
             PROVE  FALSE
  OBVIOUS
<1> DEFINE ver == rows[a].ver
           g == [album |-> a, ver |-> ver]
<1>1. /\ a \in Album /\ ver \in Nat /\ rows'[a].ver = ver /\ Protected(rows'[a])
      /\ Valid(cookie[b]) /\ Granted(cookie[b], a, ver)
  BY VersionStays DEF TypeInv, TableOK, Live, Row, Open, Protected
<1>2. ~lost /\ SentEarned /\ ReplyEarned
  BY StepUp DEF GrantInv
<1>3. \A s : s = cookie'[b] => ~(s # None /\ s.exp > now /\ g \in Range(s.grants))
  BY <1>1 DEF Open, Live, Valid, Granted
<1>4. cookie'[b] # cookie[b]
  BY <1>1, <1>3 DEF Valid, Granted
<1>5. PICK u \in Attempt : /\ Receive(u) /\ at[u] = "reply" /\ try[u].browser = b
                           /\ cookie'[b] = reply[u]
  BY <1>4, CookieChanges
<1>6. ~Excused(u, a)
  <2>1. at'[u] = "done"
    BY <1>5 DEF Receive, Goto, TypeInv
  <2> QED
    BY <1>5, <2>1
<1> DEFINE sent == try[u].cookie
<1>7. /\ sent # None /\ g \in Range(sent.grants) /\ Valid(reply[u]) /\ ~(sent.exp <= reply[u].exp - TTL)
      /\ ~(Len(reply[u].grants) = MaxGrants /\ Head(sent.grants).album = a)
  BY <1>6 DEF Excused, Granted
<1>8. reply[u] \in Sessions /\ try[u] # NoTry /\ sent \in Sessions /\ reply[u] # None
  BY <1>5, <1>7 DEF TypeInv, AttemptsOK, Requests
<1>9. sent.exp > reply[u].exp - TTL
  <2>1. sent.exp \in Nat /\ reply[u].exp \in Nat /\ TTL \in Nat
    BY <1>8, AccessAssumption DEF Sessions, Session
  <2> QED
    BY <1>7, <2>1
<1>10. PICK id \in Album, v \in Nat :
         /\ reply[u].grants = Add(sent.grants, id, v)
         /\ \A h \in Grants(sent) : h.album = id => h.ver <= v
  BY <1>2, <1>7, <1>8, <1>9 DEF ReplyEarned, Made, Base
<1>11. sent.grants \in Seq(Grant) /\ Len(sent.grants) <= MaxGrants /\ g \in Grants(sent)
  BY <1>7, <1>8 DEF Sessions, Session, Grants
<1>12. g \in Range(reply[u].grants)
  <2>1. CASE id = a
    <3>1. [album |-> id, ver |-> v] \in Range(reply[u].grants)
      BY <1>10, <1>11, AddFacts
    <3>2. v <= ver
      BY <1>2, <1>8, <2>1, <3>1 DEF ReplyEarned, Earned
    <3>3. ver <= v
      BY <1>10, <1>11, <2>1
    <3>4. v = ver
      BY <1>1, <3>2, <3>3
    <3> QED
      BY <2>1, <3>1, <3>4
  <2>2. CASE id # a
    <3>1. g.album # id /\ g.album = a /\ g \in Range(sent.grants)
      BY <1>7, <2>2
    <3> HIDE DEF g, sent
    <3> QED
      BY <1>7, <1>10, <1>11, <3>1, AddKeeps
  <2> QED
    BY <2>1, <2>2
<1> QED
  BY <1>3, <1>5, <1>7, <1>8, <1>12 DEF Valid

\* An album a browser has unlocked stays open to it until its password changes,
\* it is deleted, the session expires, set-password runs, a write is lost, or
\* the answer to an overlapping unlock arrives (Session.Add, unlockAlbum).
THEOREM UnlocksLast == Spec => StaysOpen
<1>1. TypeInv /\ GrantInv /\ TypeInv' /\ [Next]_vars =>
        [\A b \in Browser, a \in Live :
           Protected(rows[a]) /\ Open(b, a) /\ ~Open(b, a)' =>
             \/ rows'[a] = None \/ rows'[a].pw # rows[a].pw
             \/ now' # now \/ lost'
             \/ \E w \in Writer : Cli(w) /\ at'[w] = "done"
             \/ \E u \in Attempt : at[u] = "reply" /\ at'[u] = "done" /\ Excused(u, a)]_vars
  BY OpenStep
<1> QED
  BY <1>1, GrantsAlways, PTL DEF Spec, StaysOpen
================================================================================
