-------------------------- MODULE ZipDownloadProofs --------------------------
(***************************************************************************)
(* Proofs about ZipDownload: the files of a zip have different names for   *)
(* every set of names and every number of photos, and the loop that looks  *)
(* for a free number always finds one.                                     *)
(***************************************************************************)
EXTENDS ZipDownload, FiniteSetTheorems, TLAPS

\* The table counts every name it has, and has every name that was given.
SeenType == /\ seen = [k \in DOMAIN seen |-> seen[k]]
            /\ IsFiniteSet(DOMAIN seen)
            /\ \A k \in DOMAIN seen : k \in Seq(Nat) /\ seen[k] \in Nat \ {0}

Names == [capitals : BOOLEAN, numbers : Seq(Nat)]

EntriesSeen == /\ entries \in Seq(Names)
               /\ \A i \in DOMAIN entries : Lower(entries[i]) \in DOMAIN seen

ZipInv == SeenType /\ EntriesSeen /\ ZipNamesDiffer
-----------------------------------------------------------------------------
LEMMA NotSeen ==
  ASSUME SeenType, NEW key, Times(seen, key) = 0
  PROVE  key \notin DOMAIN seen
BY DEF SeenType, Times

LEMMA CountedFacts ==
  ASSUME SeenType, NEW key \in Seq(Nat)
  PROVE  /\ DOMAIN Counted(key) = DOMAIN seen \cup {key}
         /\ Counted(key) = [k \in DOMAIN seen \cup {key} |-> Counted(key)[k]]
         /\ \A k \in DOMAIN Counted(key) : Counted(key)[k] \in Nat \ {0}
<1>1. Times(seen, key) \in Nat
  BY DEF SeenType, Times
<1>2. Times(seen, key) + 1 \in Nat \ {0}
  BY <1>1
<1>3. Counted(key) = [k \in DOMAIN seen \cup {key} |->
                        IF k = key THEN Times(seen, key) + 1 ELSE seen[k]]
  BY DEF Counted, With
<1> QED
  BY <1>2, <1>3 DEF SeenType

\* An entry under a name that the table did not have keeps the names apart.
LEMMA NewEntry ==
  ASSUME EntriesSeen, ZipNamesDiffer, NEW e \in Names,
         Lower(e) \notin DOMAIN seen, entries' = Append(entries, e),
         DOMAIN seen \subseteq DOMAIN seen', Lower(e) \in DOMAIN seen'
  PROVE  EntriesSeen' /\ ZipNamesDiffer'
<1>1. /\ entries' \in Seq(Names)
      /\ DOMAIN entries = 1..Len(entries) /\ Len(entries) \in Nat
      /\ DOMAIN entries' = 1..Len(entries) + 1
      /\ \A i \in 1..Len(entries) : entries'[i] = entries[i]
      /\ entries'[Len(entries) + 1] = e
  BY DEF EntriesSeen
<1>2. \A i \in DOMAIN entries' : i \in DOMAIN entries \/ i = Len(entries) + 1
  BY <1>1
<1>3. \A i \in DOMAIN entries : Lower(entries'[i]) = Lower(entries[i])
  BY <1>1
<1>4. \A i \in DOMAIN entries' : Lower(entries'[i]) \in DOMAIN seen'
  BY <1>1, <1>2, <1>3 DEF EntriesSeen
<1>5. \A i \in DOMAIN entries : Lower(entries'[i]) # Lower(e)
  BY <1>3 DEF EntriesSeen
<1>6. ZipNamesDiffer'
  BY <1>1, <1>2, <1>3, <1>5 DEF ZipNamesDiffer, Lower
<1> QED
  BY <1>1, <1>4, <1>6 DEF EntriesSeen, Lower

LEMMA KeepStep ==
  ASSUME ZipInv, NEW name \in Names, KeepName(name)
  PROVE  ZipInv'
<1>1. Lower(name) \in Seq(Nat) /\ Lower(name) \notin DOMAIN seen
  BY NotSeen DEF ZipInv, KeepName, Lower, Names
<1>2. seen' = Counted(Lower(name))
  BY DEF KeepName
<1>3. DOMAIN seen' = DOMAIN seen \cup {Lower(name)}
  BY <1>1, <1>2, CountedFacts DEF ZipInv
<1>4. IsFiniteSet(DOMAIN seen')
  BY <1>3, FS_AddElement DEF ZipInv, SeenType
<1>5. SeenType'
  BY <1>1, <1>2, <1>3, <1>4, CountedFacts DEF ZipInv, SeenType
<1> QED
  BY <1>1, <1>3, <1>5, NewEntry DEF ZipInv, KeepName

LEMMA AddStep ==
  ASSUME ZipInv, NEW name \in Names, AddNumber(name)
  PROVE  ZipInv'
<1> DEFINE key == Lower(name)
<1>1. key \in Seq(Nat)
  BY DEF Lower, Names
<1>2. PICK i \in Free(key) :
        /\ seen' = With(Counted(key), Append(key, i), 1)
        /\ entries' = Append(entries, Numbered(name, i))
  BY DEF AddNumber, First
<1> DEFINE new == Append(key, i)
           e == Numbered(name, i)
<1>3. Times(seen, key) \in Nat /\ Cardinality(DOMAIN seen) \in Nat
  BY FS_CardinalityType DEF ZipInv, SeenType, Times
<1>4. i \in Nat /\ Times(seen, new) = 0
  BY <1>2, <1>3 DEF Free
<1>5. new \in Seq(Nat) /\ new \notin DOMAIN seen
  BY <1>1, <1>4, NotSeen DEF ZipInv
<1>6. e \in Names /\ Lower(e) = new
  BY <1>1, <1>4 DEF Names, Lower, Numbered
<1>7. seen' = [k \in DOMAIN seen \cup {key} \cup {new} |->
                 IF k = new THEN 1 ELSE Counted(key)[k]]
  <2>1. DOMAIN Counted(key) = DOMAIN seen \cup {key}
    BY <1>1, CountedFacts DEF ZipInv
  <2> HIDE DEF key
  <2> QED
    BY <1>2, <2>1 DEF With
<1>8. /\ DOMAIN seen' = DOMAIN seen \cup {key} \cup {new}
      /\ \A k \in DOMAIN seen' : k \in Seq(Nat) /\ seen'[k] \in Nat \ {0}
  <2>1. SeenType /\ \A k \in DOMAIN seen : k \in Seq(Nat)
    BY DEF ZipInv, SeenType
  <2>2. \A k \in DOMAIN seen \cup {key} : Counted(key)[k] \in Nat \ {0}
    BY <1>1, <2>1, CountedFacts
  <2> HIDE DEF key, new
  <2>3. DOMAIN seen' = DOMAIN seen \cup {key} \cup {new}
    BY <1>7
  <2>4. ASSUME NEW k \in DOMAIN seen'
        PROVE  k \in Seq(Nat) /\ seen'[k] \in Nat \ {0}
    <3>1. CASE k = new
      BY <3>1, <1>5, <1>7, <2>3
    <3>2. CASE k # new
      <4>1. k \in DOMAIN seen \cup {key} /\ seen'[k] = Counted(key)[k]
        BY <3>2, <1>7, <2>3, <2>4
      <4> QED
        BY <4>1, <1>1, <2>1, <2>2
    <3> QED
      BY <3>1, <3>2
  <2> QED
    BY <2>3, <2>4
<1>9. IsFiniteSet(DOMAIN seen')
  <2>1. IsFiniteSet(DOMAIN seen)
    BY DEF ZipInv, SeenType
  <2> HIDE DEF key, new
  <2>2. IsFiniteSet(DOMAIN seen \cup {key})
    BY <2>1, FS_AddElement
  <2>3. IsFiniteSet((DOMAIN seen \cup {key}) \cup {new})
    BY <2>2, FS_AddElement
  <2>4. DOMAIN seen' = (DOMAIN seen \cup {key}) \cup {new}
    BY <1>8
  <2> QED
    BY <2>3, <2>4
<1>10. SeenType'
  BY <1>7, <1>8, <1>9 DEF SeenType
<1> QED
  BY <1>2, <1>5, <1>6, <1>8, <1>10, NewEntry DEF ZipInv

LEMMA ZipStep ==
  ASSUME ZipInv, [ZipNext]_zip
  PROVE  ZipInv'
<1>1. CASE UNCHANGED zip
  BY <1>1 DEF zip, ZipInv, SeenType, EntriesSeen, ZipNamesDiffer, Lower
<1>2. CASE ZipNext
  BY <1>2, KeepStep, AddStep, ZipAssumption DEF ZipNext, Names
<1> QED
  BY <1>1, <1>2

LEMMA ZipStart ==
  ASSUME ZipInit
  PROVE  ZipInv
<1>1. DOMAIN seen = {} /\ DOMAIN entries = {} /\ entries \in Seq(Names)
  BY DEF ZipInit
<1>2. seen = [k \in DOMAIN seen |-> seen[k]]
  BY DEF ZipInit
<1> QED
  BY <1>1, <1>2, FS_EmptySet DEF ZipInv, SeenType, EntriesSeen, ZipNamesDiffer

\* The files of a zip have different names, for every set of names that the
\* photos may have and every number of them (uniqueZipName, download.go:92).
THEOREM NamesDiffer == ZipSpec => []ZipNamesDiffer
<1>1. ZipInit => ZipInv
  BY ZipStart
<1>2. ZipInv /\ [ZipNext]_zip => ZipInv'
  BY ZipStep
<1>3. ZipInv => ZipNamesDiffer
  BY DEF ZipInv
<1> QED
  BY <1>1, <1>2, <1>3, PTL DEF ZipSpec
-----------------------------------------------------------------------------
(* uniqueZipName counts up without a bound, and still ends.                 *)

\* Among one number more than there are names one is free: each number makes
\* another name, so they cannot all be in the table.
LEMMA SomeFree ==
  ASSUME SeenType, NEW key \in Seq(Nat)
  PROVE  Free(key) # {}
<1> DEFINE n == Times(seen, key)
           c == Cardinality(DOMAIN seen)
           tried == n + 1..n + 1 + c
           name == [i \in tried |-> Append(key, i)]
<1>1. n \in Nat /\ c \in Nat
  BY FS_CardinalityType DEF SeenType, Times
<1>2. IsFiniteSet(tried) /\ Cardinality(tried) = c + 1
  <2>1. n + 1 \in Int /\ n + 1 + c \in Int /\ ~(n + 1 > n + 1 + c)
        /\ (n + 1 + c) - (n + 1) + 1 = c + 1
    BY <1>1
  <2> HIDE DEF n, c
  <2> QED
    BY <2>1, FS_Interval
<1>3. ASSUME NEW i \in tried, NEW j \in tried, Append(key, i) = Append(key, j)
      PROVE  i = j
  <2>1. Append(key, i)[Len(key) + 1] = i /\ Append(key, j)[Len(key) + 1] = j
    BY <1>1
  <2> QED
    BY <1>3, <2>1
<1>4. SUFFICES ASSUME \A i \in tried : Append(key, i) \in DOMAIN seen
               PROVE  FALSE
  BY DEF Free, Times
<1>5. name \in [tried -> DOMAIN seen]
  BY <1>4
<1>6. \A i, j \in tried : name[i] = name[j] => i = j
  BY <1>3
<1>7. Cardinality(tried) <= c
  <2> HIDE DEF tried, name
  <2>1. name \in Injection(tried, DOMAIN seen)
    BY <1>5, <1>6 DEF Injection, IsInjective
  <2> QED
    BY <1>2, <2>1, FS_Injection DEF SeenType
<1> QED
  BY <1>1, <1>2, <1>7

\* The search for a free number ends after at most as many tries as there are
\* names, whatever the photos are called (download.go:106-113).
THEOREM SearchEnds == ZipSpec => [](\A key \in Seq(Nat) : Free(key) # {})
<1>1. ZipInit => ZipInv
  BY ZipStart
<1>2. ZipInv /\ [ZipNext]_zip => ZipInv'
  BY ZipStep
<1>3. ZipInv => \A key \in Seq(Nat) : Free(key) # {}
  BY SomeFree DEF ZipInv
<1> QED
  BY <1>1, <1>2, <1>3, PTL DEF ZipSpec
=============================================================================
