--------------------------- MODULE PhotoLocksProofs ---------------------------
(* Proofs about PhotoLocks, for any set of photos and finite set of threads. *)
EXTENDS PhotoLocks, FiniteSetTheorems, TLAPS

\* Who counts as a holder or waiter of mutex x.
Users(x) == {t \in Thread : l[t] = x}

\* The count of every mutex is that of its users, so that the entry of a photo
\* stays as long as anybody works with its mutex; different photos have
\* different mutexes; and who is inside owns the mutex of its photo.
IInv ==
  /\ TypeOK
  /\ \A t \in Thread : IF pc[t] = "out" THEN id[t] = None /\ l[t] = None
                       ELSE id[t] \in Photo /\ l[t] \in Mutex /\ m[id[t]] = l[t]
  /\ \A x \in Mutex : refs[x] = Cardinality(Users(x))
  /\ \A p \in Photo : m[p] # None => \E t \in Thread : l[t] = m[p]
  /\ \A p, q \in Photo : m[p] = m[q] /\ m[p] # None => p = q
  /\ \A t \in Thread : pc[t] = "in" => owner[l[t]] = t
  /\ \A x \in Mutex : owner[x] # None => pc[owner[x]] = "in" /\ l[owner[x]] = x

LEMMA UsersFinite ==
  ASSUME NEW x
  PROVE  IsFiniteSet(Users(x)) /\ Cardinality(Users(x)) \in Nat
<1>1. Users(x) \subseteq Thread
  BY DEF Users
<1>2. QED
  BY <1>1, LocksAssumption, FS_Subset, FS_CardinalityType

\* A thread that takes up mutex x raises its count by one and no other.
LEMMA CountIn ==
  ASSUME TypeOK, NEW t \in Thread, l[t] = None, NEW x \in Mutex, l' = [l EXCEPT ![t] = x]
  PROVE  \A y \in Mutex : Cardinality(Users(y))' =
                            Cardinality(Users(y)) + (IF y = x THEN 1 ELSE 0)
<1> SUFFICES ASSUME NEW y \in Mutex
             PROVE  Cardinality(Users(y)') = Cardinality(Users(y)) + (IF y = x THEN 1 ELSE 0)
  OBVIOUS
<1>1. IsFiniteSet(Users(y)) /\ Cardinality(Users(y)) \in Nat
  BY UsersFinite
<1>2. CASE y = x
  <2>1. Users(y)' = Users(y) \cup {t} /\ t \notin Users(y)
    BY <1>2, LocksAssumption DEF TypeOK, Users
  <2>2. QED
    BY <1>1, <1>2, <2>1, FS_AddElement
<1>3. CASE y # x
  <2>1. Users(y)' = Users(y)
    BY <1>3, LocksAssumption DEF TypeOK, Users
  <2>2. QED
    BY <1>1, <1>3, <2>1
<1>4. QED
  BY <1>2, <1>3

\* A thread that leaves lowers the count of its mutex by one and no other.
LEMMA CountOut ==
  ASSUME TypeOK, NEW t \in Thread, NEW x \in Mutex, l[t] = x, l' = [l EXCEPT ![t] = None]
  PROVE  /\ Cardinality(Users(x)) \in Nat \ {0}
         /\ \A y \in Mutex : Cardinality(Users(y))' =
                               IF y = x THEN Cardinality(Users(y)) - 1 ELSE Cardinality(Users(y))
         /\ Cardinality(Users(x)) = 1 => Users(x) = {t}
         /\ Cardinality(Users(x)) # 1 => Users(x)' # {}
<1>1. IsFiniteSet(Users(x)) /\ Cardinality(Users(x)) \in Nat /\ t \in Users(x)
  BY UsersFinite DEF Users
<1>2. Users(x)' = Users(x) \ {t}
  BY LocksAssumption DEF TypeOK, Users
<1>3. IsFiniteSet(Users(x)') /\ Cardinality(Users(x)') = Cardinality(Users(x)) - 1
  BY <1>1, <1>2, FS_RemoveElement
<1>4. Cardinality(Users(x)') \in Nat
  BY <1>3, FS_CardinalityType
<1>5. Cardinality(Users(x)) = 1 => Users(x) \ {t} = {}
  BY <1>2, <1>3, FS_EmptySet
<1>6. Cardinality(Users(x)) # 1 => Users(x)' # {}
  BY <1>1, <1>3, FS_EmptySet
<1>7. \A y \in Mutex : y # x => Users(y)' = Users(y)
  BY LocksAssumption DEF TypeOK, Users
<1>8. QED
  BY <1>1, <1>3, <1>4, <1>5, <1>6, <1>7

LEMMA InitInv == Init => IInv
<1> SUFFICES ASSUME Init PROVE IInv
  OBVIOUS
<1>1. \A x \in Mutex : Users(x) = {}
  BY LocksAssumption DEF Init, Users
<1>2. TypeOK
  BY DEF Init, TypeOK
<1>3. QED
  BY <1>1, <1>2, FS_EmptySet DEF Init, IInv

LEMMA EnterInv ==
  ASSUME IInv, NEW t \in Thread, NEW p \in Photo, Enter(t, p)
  PROVE  IInv'
<1>1. PICK x \in Mutex :
        /\ IF m[p] = None THEN x \in Garbage ELSE x = m[p]
        /\ m' = [m EXCEPT ![p] = x] /\ refs' = [refs EXCEPT ![x] = @ + 1]
        /\ l' = [l EXCEPT ![t] = x]
  BY DEF Enter
<1>2. /\ pc[t] = "out" /\ l[t] = None /\ TypeOK /\ owner' = owner
      /\ id' = [id EXCEPT ![t] = p] /\ pc' = [pc EXCEPT ![t] = "wait"]
  BY DEF Enter, IInv
<1>3. TypeOK'
  BY <1>1, <1>2 DEF TypeOK
<1>4. \A y \in Mutex : refs'[y] = Cardinality(Users(y))'
  <2>1. \A y \in Mutex : Cardinality(Users(y))' =
                           Cardinality(Users(y)) + (IF y = x THEN 1 ELSE 0)
    BY <1>1, <1>2, CountIn
  <2>2. \A y \in Mutex : refs'[y] = refs[y] + (IF y = x THEN 1 ELSE 0)
    BY <1>1, <1>2 DEF TypeOK
  <2>3. QED
    BY <2>1, <2>2 DEF IInv
<1>5. m[p] = None => \A u \in Thread : l[u] # x /\ \A q \in Photo : m[q] # x
  BY <1>1 DEF Garbage
<1>6. m[p] # None => m' = m
  BY <1>1, <1>2 DEF TypeOK
<1>7. ASSUME NEW u \in Thread
      PROVE  IF pc'[u] = "out" THEN id'[u] = None /\ l'[u] = None
             ELSE id'[u] \in Photo /\ l'[u] \in Mutex /\ m'[id'[u]] = l'[u]
  <2>1. CASE u = t
    BY <1>1, <1>2, <2>1 DEF TypeOK
  <2>2. CASE u # t
    BY <1>1, <1>2, <1>6, <2>2, LocksAssumption DEF IInv, TypeOK
  <2>3. QED
    BY <2>1, <2>2
<1>8. ASSUME NEW q \in Photo, m'[q] # None
      PROVE  \E u \in Thread : l'[u] = m'[q]
  <2>1. CASE q = p
    <3>1. m'[q] = x /\ l'[t] = x
      BY <1>1, <1>2, <2>1 DEF TypeOK
    <3>2. QED
      BY <3>1
  <2>2. CASE q # p
    <3>1. m'[q] = m[q]
      BY <1>1, <1>2, <2>2 DEF TypeOK
    <3>2. PICK u \in Thread : l[u] = m[q]
      BY <1>8, <3>1 DEF IInv
    <3>3. u # t /\ l'[u] = m[q]
      BY <1>1, <1>2, <1>8, <3>1, <3>2 DEF TypeOK
    <3>4. QED
      BY <3>1, <3>3
  <2>3. QED
    BY <2>1, <2>2
<1>9. \A q, s \in Photo : m'[q] = m'[s] /\ m'[q] # None => q = s
  BY <1>1, <1>2, <1>5, <1>6 DEF IInv, TypeOK
<1>10. \A u \in Thread : pc'[u] = "in" => owner'[l'[u]] = u
  BY <1>1, <1>2 DEF IInv, TypeOK
<1>11. \A y \in Mutex : owner'[y] # None => pc'[owner'[y]] = "in" /\ l'[owner'[y]] = y
  BY <1>1, <1>2, LocksAssumption DEF IInv, TypeOK
<1>12. QED
  BY <1>3, <1>4, <1>7, <1>8, <1>9, <1>10, <1>11 DEF IInv

LEMMA MutexInv ==
  ASSUME IInv, NEW t \in Thread, Acquire(t) \/ Release(t)
  PROVE  IInv'
<1>1. /\ UNCHANGED <<m, refs, id, l>> /\ pc[t] # "out" /\ TypeOK
      /\ pc' = [pc EXCEPT ![t] = pc'[t]] /\ pc'[t] \in {"in", "leave"}
      /\ owner' = [owner EXCEPT ![l[t]] = owner'[l[t]]]
      /\ l[t] \in Mutex
      /\ owner'[l[t]] = IF pc'[t] = "in" THEN t ELSE None
      /\ owner[l[t]] \in {t, None}
  BY DEF Acquire, Release, IInv, TypeOK
<1>2. TypeOK'
  BY <1>1 DEF TypeOK
<1>3. \A x \in Mutex : Users(x)' = Users(x)
  BY <1>1 DEF Users
<1>4. \A u \in Thread : pc'[u] = "in" => owner'[l'[u]] = u
  BY <1>1, LocksAssumption DEF IInv, TypeOK
<1>5. \A x \in Mutex : owner'[x] # None => pc'[owner'[x]] = "in" /\ l'[owner'[x]] = x
  BY <1>1, LocksAssumption DEF IInv, TypeOK
<1>6. \A u \in Thread : pc'[u] = "out" <=> pc[u] = "out"
  BY <1>1 DEF TypeOK
<1>7. \A p \in Photo : m'[p] # None => \E u \in Thread : l'[u] = m'[p]
  BY <1>1 DEF IInv
<1>8. QED
  BY <1>1, <1>2, <1>3, <1>4, <1>5, <1>6, <1>7 DEF IInv

LEMMA LeaveInv ==
  ASSUME IInv, NEW t \in Thread, Leave(t)
  PROVE  IInv'
<1>1. PICK x \in Mutex : x = l[t]
  BY DEF Leave, IInv
<1>2. PICK p \in Photo : p = id[t] /\ m[p] = x
  BY <1>1 DEF Leave, IInv
<1>3. /\ TypeOK /\ pc[t] = "leave" /\ owner' = owner
      /\ refs' = [refs EXCEPT ![x] = @ - 1]
      /\ m' = IF refs'[x] = 0 THEN [m EXCEPT ![p] = None] ELSE m
      /\ pc' = [pc EXCEPT ![t] = "out"]
      /\ id' = [id EXCEPT ![t] = None] /\ l' = [l EXCEPT ![t] = None]
  BY <1>1, <1>2 DEF Leave, IInv
<1>4. /\ refs[x] \in Nat \ {0}
      /\ refs[x] = 1 => Users(x) = {t}
      /\ refs[x] # 1 => Users(x)' # {}
      /\ \A y \in Mutex : refs'[y] = Cardinality(Users(y))'
  <2>1. /\ Cardinality(Users(x)) \in Nat \ {0}
        /\ \A y \in Mutex : Cardinality(Users(y))' =
                              IF y = x THEN Cardinality(Users(y)) - 1 ELSE Cardinality(Users(y))
        /\ Cardinality(Users(x)) = 1 => Users(x) = {t}
        /\ Cardinality(Users(x)) # 1 => Users(x)' # {}
    BY <1>1, <1>3, CountOut
  <2>2. \A y \in Mutex : refs'[y] = IF y = x THEN refs[y] - 1 ELSE refs[y]
    BY <1>3 DEF TypeOK
  <2>3. refs[x] = Cardinality(Users(x))
    BY DEF IInv
  <2>4. \A y \in Mutex : refs'[y] = Cardinality(Users(y))'
    BY <2>1, <2>2 DEF IInv
  <2>5. QED
    BY <2>1, <2>3, <2>4
<1>5. TypeOK'
  <2>1. refs' \in [Mutex -> Nat]
    BY <1>3, <1>4 DEF TypeOK
  <2>2. QED
    BY <1>3, <2>1 DEF TypeOK
<1>6. refs'[x] = 0 <=> refs[x] = 1
  BY <1>3, <1>4 DEF TypeOK
<1>7. ASSUME NEW u \in Thread
      PROVE  IF pc'[u] = "out" THEN id'[u] = None /\ l'[u] = None
             ELSE id'[u] \in Photo /\ l'[u] \in Mutex /\ m'[id'[u]] = l'[u]
  <2>1. CASE u = t
    BY <1>3, <2>1 DEF TypeOK
  <2>2. CASE u # t
    <3>1. pc'[u] = pc[u] /\ id'[u] = id[u] /\ l'[u] = l[u]
      BY <1>3, <2>2 DEF TypeOK
    <3>2. refs[x] = 1 => l[u] # x
      BY <1>4, <2>2 DEF Users
    <3>3. pc[u] # "out" => m'[id[u]] = m[id[u]]
      BY <1>2, <1>3, <1>6, <3>2 DEF IInv, TypeOK
    <3>4. QED
      BY <3>1, <3>3 DEF IInv
  <2>3. QED
    BY <2>1, <2>2
<1>8. ASSUME NEW q \in Photo, m'[q] # None
      PROVE  \E u \in Thread : l'[u] = m'[q]
  <2>1. m'[q] = m[q] /\ (q = p => refs[x] # 1)
    BY <1>2, <1>3, <1>6, <1>8 DEF TypeOK
  <2>2. CASE q = p
    <3>1. PICK u \in Thread : l'[u] = x
      BY <1>4, <2>1, <2>2 DEF Users
    <3>2. QED
      BY <1>2, <2>1, <2>2, <3>1
  <2>3. CASE q # p
    <3>1. PICK u \in Thread : l[u] = m[q]
      BY <1>8, <2>1 DEF IInv
    <3>2. m[q] # x
      BY <1>2, <1>8, <2>1, <2>3 DEF IInv
    <3>3. l'[u] = m[q]
      BY <1>1, <1>3, <3>1, <3>2 DEF TypeOK
    <3>4. QED
      BY <2>1, <3>3
  <2>4. QED
    BY <2>2, <2>3
<1>9. \A q, s \in Photo : m'[q] = m'[s] /\ m'[q] # None => q = s
  BY <1>3 DEF IInv, TypeOK
<1>10. \A u \in Thread : pc'[u] = "in" => owner'[l'[u]] = u
  BY <1>3 DEF IInv, TypeOK
<1>11. \A y \in Mutex : owner'[y] # None => pc'[owner'[y]] = "in" /\ l'[owner'[y]] = y
  BY <1>3, LocksAssumption DEF IInv, TypeOK
<1>12. QED
  BY <1>4, <1>5, <1>7, <1>8, <1>9, <1>10, <1>11 DEF IInv

LEMMA Inductive == Spec => []IInv
<1>1. IInv /\ [Next]_vars => IInv'
  <2> SUFFICES ASSUME IInv, [Next]_vars PROVE IInv'
    OBVIOUS
  <2>1. CASE UNCHANGED vars
    <3>1. \A x : Users(x)' = Users(x)
      BY <2>1 DEF vars, Users
    <3>2. QED
      BY <2>1, <3>1 DEF vars, IInv, TypeOK, Users
  <2>2. QED
    BY <2>1, EnterInv, MutexInv, LeaveInv DEF Next
<1>2. QED
  BY InitInv, <1>1, PTL DEF Spec

\* The type of every variable of photoLocks, refs as a natural number included.
THEOREM TypeCorrect == Spec => []TypeOK
BY Inductive, PTL DEF IInv

\* Never two inside on one photo: both would own the mutex m has for it.
THEOREM AtMostOneInside == Spec => []OneHolder
<1>1. IInv => OneHolder
  BY DEF IInv, OneHolder
<1>2. QED
  BY Inductive, <1>1, PTL

\* The map has a mutex for exactly the photos in use, the one their users hold.
THEOREM EntriesExact == Spec => []EntryIffInUse
<1>1. IInv => EntryIffInUse
  <2> SUFFICES ASSUME IInv, NEW p \in Photo
               PROVE  {x \in Mutex : x = m[p]}
                        = {l[t] : t \in {u \in Thread : pc[u] # "out" /\ id[u] = p}}
    BY DEF EntryIffInUse
  <2>1. ASSUME NEW t \in Thread, pc[t] # "out", id[t] = p
        PROVE  l[t] \in Mutex /\ l[t] = m[p]
    BY <2>1 DEF IInv
  <2>2. ASSUME m[p] \in Mutex
        PROVE  \E t \in Thread : pc[t] # "out" /\ id[t] = p /\ l[t] = m[p]
    <3>1. m[p] # None
      BY <2>2, LocksAssumption
    <3>2. PICK t \in Thread : l[t] = m[p]
      BY <3>1 DEF IInv
    <3>3. pc[t] # "out" /\ id[t] \in Photo /\ m[id[t]] = l[t]
      BY <3>1, <3>2 DEF IInv
    <3>4. id[t] = p
      BY <3>1, <3>2, <3>3 DEF IInv
    <3>5. QED
      BY <3>2, <3>3, <3>4
  <2>3. QED
    BY <2>1, <2>2
<1>2. QED
  BY Inductive, <1>1, PTL

\* One step of photoLocks is one of PhotoMutex, or changes nothing it shows.
LEMMA StepIsMutexStep ==
  ASSUME IInv, NEW t \in Thread, NEW p \in Photo,
         Enter(t, p) \/ Acquire(t) \/ Release(t) \/ Leave(t)
  PROVE  [Mutexes!Next]_<<holderOf, wantsOf>>
<1> USE LocksAssumption
<1>1. CASE Enter(t, p)
  <2>1. PICK x \in Mutex :
          /\ IF m[p] = None THEN x \in Garbage ELSE x = m[p]
          /\ m' = [m EXCEPT ![p] = x]
    BY <1>1 DEF Enter
  <2>2. m[p] = None => owner[x] = None
    BY <2>1 DEF IInv, TypeOK, Garbage
  <2>3. holderOf' = holderOf
    BY <1>1, <2>1, <2>2 DEF Enter, holderOf, IInv, TypeOK
  <2>4. wantsOf[t] = None /\ wantsOf' = [wantsOf EXCEPT ![t] = p]
    BY <1>1 DEF Enter, wantsOf, IInv, TypeOK
  <2>5. Mutexes!Ask(t, p)
    BY <2>3, <2>4 DEF Mutexes!Ask
  <2>6. QED
    BY <2>5 DEF Mutexes!Next
<1>2. CASE Acquire(t)
  <2>1. PICK q \in Photo : q = id[t] /\ m[q] = l[t] /\ l[t] \in Mutex
    BY <1>2 DEF Acquire, IInv
  <2>2. \A s \in Photo : s # q => m[s] # l[t]
    BY <2>1 DEF IInv
  <2>3. holderOf[q] = None /\ holderOf' = [holderOf EXCEPT ![q] = t]
    <3>1. PICK x \in Mutex : x = l[t]
      BY <2>1
    <3>2. owner[x] = None /\ owner' = [owner EXCEPT ![x] = t] /\ m' = m
      BY <1>2, <3>1 DEF Acquire, IInv
    <3>3. m[q] = x /\ x # None /\ \A s \in Photo : s # q => m[s] # x
      BY <2>1, <2>2, <3>1
    <3>4. m \in [Photo -> Mutex \cup {None}] /\ owner \in [Mutex -> Thread \cup {None}]
      BY DEF IInv, TypeOK
    <3>5. \A s \in Photo : (IF m'[s] = None THEN None ELSE owner'[m'[s]])
                             = IF s = q THEN t ELSE IF m[s] = None THEN None ELSE owner[m[s]]
      BY <3>2, <3>3, <3>4
    <3>6. QED
      BY <3>2, <3>3, <3>5 DEF holderOf
  <2>4. wantsOf[t] = q /\ wantsOf' = wantsOf
    BY <1>2, <2>1 DEF Acquire, wantsOf, IInv, TypeOK
  <2>5. Mutexes!Take(t)
    BY <2>3, <2>4 DEF Mutexes!Take
  <2>6. QED
    BY <2>5 DEF Mutexes!Next
<1>3. CASE Release(t)
  <2>1. PICK q \in Photo : q = id[t] /\ m[q] = l[t] /\ l[t] \in Mutex
    BY <1>3 DEF Release, IInv
  <2>2. \A s \in Photo : s # q => m[s] # l[t]
    BY <2>1 DEF IInv
  <2>3. holderOf[q] = t /\ holderOf' = [holderOf EXCEPT ![q] = None]
    <3>1. PICK x \in Mutex : x = l[t]
      BY <2>1
    <3>2. owner[x] = t /\ owner' = [owner EXCEPT ![x] = None] /\ m' = m
      BY <1>3, <3>1 DEF Release, IInv
    <3>3. m[q] = x /\ x # None /\ \A s \in Photo : s # q => m[s] # x
      BY <2>1, <2>2, <3>1
    <3>4. m \in [Photo -> Mutex \cup {None}] /\ owner \in [Mutex -> Thread \cup {None}]
      BY DEF IInv, TypeOK
    <3>5. \A s \in Photo : (IF m'[s] = None THEN None ELSE owner'[m'[s]])
                             = IF s = q THEN None ELSE IF m[s] = None THEN None ELSE owner[m[s]]
      BY <3>2, <3>3, <3>4
    <3>6. QED
      BY <3>2, <3>3, <3>5 DEF holderOf
  <2>4. wantsOf[t] = q /\ wantsOf' = [wantsOf EXCEPT ![t] = None]
    BY <1>3, <2>1 DEF Release, wantsOf, IInv, TypeOK
  <2>5. Mutexes!Give(t)
    BY <2>3, <2>4 DEF Mutexes!Give
  <2>6. QED
    BY <2>5 DEF Mutexes!Next
<1>4. CASE Leave(t)
  <2>1. PICK q \in Photo : q = id[t] /\ m[q] = l[t] /\ l[t] \in Mutex
    BY <1>4 DEF Leave, IInv
  <2>2. ASSUME refs'[l[t]] = 0
        PROVE  owner[l[t]] = None
    <3>1. refs[l[t]] = 1
      <4>1. refs'[l[t]] = refs[l[t]] - 1 /\ refs[l[t]] \in Nat
        BY <1>4, <2>1 DEF Leave, IInv, TypeOK
      <4>2. QED
        BY <2>2, <4>1
    <3>2. Users(l[t]) = {t}
      <4>1. PICK x \in Mutex : x = l[t]
        BY <2>1
      <4>2. l' = [l EXCEPT ![t] = None] /\ TypeOK
        BY <1>4 DEF Leave, IInv
      <4>3. Cardinality(Users(x)) = 1
        BY <3>1, <4>1 DEF IInv
      <4>4. QED
        BY <4>1, <4>2, <4>3, CountOut
    <3>3. SUFFICES ASSUME owner[l[t]] # None PROVE FALSE
      OBVIOUS
    <3>4. owner[l[t]] \in Thread /\ pc[owner[l[t]]] = "in" /\ l[owner[l[t]]] = l[t]
      BY <2>1, <3>3 DEF IInv, TypeOK
    <3>5. QED
      BY <1>4, <3>2, <3>4 DEF Users, Leave
  <2>3. holderOf' = holderOf
    BY <1>4, <2>1, <2>2 DEF Leave, holderOf, IInv, TypeOK
  <2>4. wantsOf' = wantsOf
    BY <1>4 DEF Leave, wantsOf, IInv, TypeOK
  <2>5. QED
    BY <2>3, <2>4
<1>5. QED
  BY <1>1, <1>2, <1>3, <1>4

\* photoLocks is one mutex per photo, for any number of goroutines and photos:
\* what PhotoLibrary's lock[p] takes for granted.
THEOREM LocksAreMutexes == Spec => ImplementsMutex
<1>1. Init => Mutexes!Init
  BY DEF Init, Mutexes!Init, holderOf, wantsOf
<1>2. IInv /\ [Next]_vars => [Mutexes!Next]_<<holderOf, wantsOf>>
  <2> SUFFICES ASSUME IInv, [Next]_vars
               PROVE  [Mutexes!Next]_<<holderOf, wantsOf>>
    OBVIOUS
  <2>1. CASE UNCHANGED vars
    BY <2>1 DEF vars, holderOf, wantsOf
  <2>2. ASSUME NEW t \in Thread, NEW p \in Photo,
               Enter(t, p) \/ Acquire(t) \/ Release(t) \/ Leave(t)
        PROVE  [Mutexes!Next]_<<holderOf, wantsOf>>
    BY <2>2, StepIsMutexStep
  <2>3. ASSUME NEW t \in Thread, Acquire(t) \/ Release(t) \/ Leave(t)
        PROVE  \E p \in Photo : TRUE
    BY <2>3 DEF Acquire, Release, Leave, IInv
  <2>4. QED
    BY <2>1, <2>2, <2>3 DEF Next
<1>3. QED
  BY Inductive, <1>1, <1>2, PTL DEF Spec, ImplementsMutex, Mutexes!Spec
=============================================================================
