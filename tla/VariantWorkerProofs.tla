------------------------- MODULE VariantWorkerProofs -------------------------
(* Proofs about VariantWorker, for any photos, hashes, handlers and bounds. *)
EXTENDS VariantWorker, TLAPS

\* A pending photo is in the history variable's set, or its handler has not
\* kicked yet, or it has failed, or a kick or the drain under way will come to it.
Covered ==
  \A p \in Photo :
    pending[p] # None /\ p \notin unseen /\ Quiet(p) =>
      \/ <<p, pending[p]>> \in failed
      \/ kicked \/ w = "list"
      \/ w = "each" /\ <<p, pending[p]>> \in todo

BusyWhenDraining ==
  IF w \in {"list", "each", "end"} THEN busy = TRUE ELSE busy = FALSE

IInv == TypeOK /\ BusyWhenDraining /\ NoLostKick /\ Covered

LEMMA InitInv == Init => IInv
<1> SUFFICES ASSUME Init PROVE IInv
  OBVIOUS
<1>1. ends \in 0..MaxEnds /\ errs \in 0..MaxErrs
  BY WorkerAssumption DEF Init
<1>2. TypeOK
  BY <1>1 DEF Init, TypeOK, Pending
<1>3. BusyWhenDraining
  BY DEF Init, BusyWhenDraining
<1>4. NoLostKick
  BY DEF Init, NoLostKick
<1>5. Covered
  BY DEF Init, Covered
<1>6. QED
  BY <1>2, <1>3, <1>4, <1>5 DEF IInv

LEMMA StoreInv ==
  ASSUME IInv, NEW h \in Handler, NEW p \in Photo, Store(h, p) \/ StoreFails(h, p)
  PROVE  IInv'
<1> USE WorkerAssumption
<1>1. CASE Store(h, p)
  <2>1. PICK c \in Hash : pending' = [pending EXCEPT ![p] = c]
    BY <1>1 DEF Store
  <2>2. TypeOK'
    BY <1>1, <2>1 DEF Store, IInv, TypeOK, Pending, flags, bounds
  <2>3. NoLostKick' /\ BusyWhenDraining'
    BY <1>1 DEF Store, IInv, TypeOK, NoLostKick, BusyWhenDraining, flags
  <2>4. Covered'
    BY <1>1, <2>1 DEF Store, IInv, TypeOK, Covered, Quiet, flags
  <2>5. QED
    BY <2>2, <2>3, <2>4 DEF IInv
<1>2. CASE StoreFails(h, p)
  <2>1. PICK c \in Hash : pending' = [pending EXCEPT ![p] = c]
    BY <1>2 DEF StoreFails
  <2>2. TypeOK'
    BY <1>2, <2>1 DEF StoreFails, IInv, TypeOK, Pending, flags, handlers
  <2>3. NoLostKick' /\ BusyWhenDraining'
    BY <1>2 DEF StoreFails, IInv, NoLostKick, BusyWhenDraining, flags, handlers
  <2>4. Covered'
    BY <1>2, <2>1 DEF StoreFails, IInv, TypeOK, Covered, Quiet, flags, handlers
  <2>5. QED
    BY <2>2, <2>3, <2>4 DEF IInv
<1>3. QED
  BY <1>1, <1>2

LEMMA KickInv ==
  ASSUME IInv, NEW h \in Handler, SetKicked(h) \/ Send(h)
  PROVE  IInv'
<1>1. CASE SetKicked(h)
  <2>1. TypeOK'
    BY <1>1 DEF SetKicked, IInv, TypeOK, Pending, rows, bounds
  <2>2. NoLostKick' /\ BusyWhenDraining' /\ Covered'
    BY <1>1 DEF SetKicked, IInv, TypeOK, NoLostKick, BusyWhenDraining, Covered
  <2>3. QED
    BY <2>1, <2>2 DEF IInv
<1>2. CASE Send(h)
  <2>1. TypeOK'
    BY <1>2 DEF Send, IInv, TypeOK, Pending, rows, bounds, flags
  <2>2. NoLostKick' /\ BusyWhenDraining'
    BY <1>2 DEF Send, IInv, NoLostKick, BusyWhenDraining, flags
  <2>3. \A q : Quiet(q)' => Quiet(q)
    BY <1>2 DEF Send, IInv, TypeOK, Quiet
  <2>4. Covered'
    BY <1>2, <2>3 DEF Send, IInv, Covered, flags, rows
  <2>5. QED
    BY <2>1, <2>2, <2>4 DEF IInv
<1>3. QED
  BY <1>1, <1>2

LEMMA LoopInv ==
  ASSUME IInv, Run \/ TakeToken \/ Tick \/ Begin \/ End \/ Stop \/ Cancel
  PROVE  IInv'
<1> USE WorkerAssumption
<1> USE DEF Run, TakeToken, Tick, Begin, End, Stop, Cancel, rows, handlers, flags, bounds
<1>1. TypeOK'
  <2>1. ends' \in 0..MaxEnds /\ errs' \in 0..MaxErrs
    BY DEF IInv, TypeOK
  <2>2. unseen' \subseteq Pending'
    BY DEF IInv, TypeOK, Pending
  <2>3. failed' \subseteq Photo \X Hash /\ todo' \subseteq Photo \X Hash
    BY DEF IInv, TypeOK
  <2>4. /\ pending' \in [Photo -> Hash \cup {None}]
        /\ pc' \in [Handler -> {"out", "kick", "send"}]
        /\ ph' \in [Handler -> Photo \cup {None}]
    BY DEF IInv, TypeOK
  <2>5. /\ wake' \in BOOLEAN /\ kicked' \in BOOLEAN /\ busy' \in BOOLEAN
        /\ stopped' \in BOOLEAN /\ down' \in BOOLEAN
    BY DEF IInv, TypeOK
  <2>6. w' \in {"new", "select", "begin", "list", "each", "end", "stopped"}
    BY DEF IInv, TypeOK
  <2>7. QED
    BY <2>1, <2>2, <2>3, <2>4, <2>5, <2>6 DEF TypeOK
<1>2. BusyWhenDraining'
  <2>1. CASE Begin
    BY <2>1 DEF BusyWhenDraining
  <2>2. CASE End
    BY <2>2 DEF BusyWhenDraining
  <2>3. CASE Run \/ TakeToken \/ Tick \/ Stop \/ Cancel
    <3>1. busy' = busy /\ (w' \in {"list", "each", "end"} <=> w \in {"list", "each", "end"})
      BY <2>3
    <3>2. QED
      BY <3>1 DEF IInv, BusyWhenDraining
  <2>4. QED
    BY <2>1, <2>2, <2>3
<1>3. NoLostKick'
  BY DEF IInv, NoLostKick
<1>4. \A q : Quiet(q)' <=> Quiet(q)
  BY DEF Quiet
<1>5. Covered'
  BY <1>4 DEF IInv, TypeOK, Covered, Pending
<1>6. QED
  BY <1>1, <1>2, <1>3, <1>5 DEF IInv

LEMMA DrainInv ==
  ASSUME IInv, List \/ ListFails \/ Drained
  PROVE  IInv'
<1> USE WorkerAssumption
<1> USE DEF rows, handlers, flags, bounds
<1>1. \A q : Quiet(q)' <=> Quiet(q)
  BY DEF List, ListFails, Drained, Quiet
<1>2. CASE List
  <2>1. TypeOK'
    BY <1>2 DEF List, IInv, TypeOK, Pending
  <2>2. Covered'
    BY <1>2 DEF List, Covered, Pending
  <2>3. QED
    BY <1>2, <2>1, <2>2 DEF List, IInv, BusyWhenDraining, NoLostKick
<1>3. CASE ListFails
  <2>1. TypeOK'
    BY <1>3 DEF ListFails, IInv, TypeOK, Pending
  <2>2. Covered'
    BY <1>3 DEF ListFails, Covered, Pending
  <2>3. QED
    BY <1>3, <2>1, <2>2 DEF ListFails, IInv, BusyWhenDraining, NoLostKick
<1>4. CASE Drained
  <2>1. TypeOK'
    BY <1>4 DEF Drained, IInv, TypeOK, Pending
  <2>2. ASSUME NEW p \in Photo, <<p, pending[p]>> \in todo, pending[p] # None
        PROVE  p \in unseen'
    <3>1. p \in {t[1] : t \in todo}
      BY <2>2
    <3>2. QED
      BY <1>4, <2>2, <3>1 DEF Drained, Pending
  <2>3. Covered'
    BY <1>1, <1>4, <2>2 DEF Drained, IInv, Covered
  <2>4. QED
    BY <1>4, <2>1, <2>3 DEF Drained, IInv, BusyWhenDraining, NoLostKick
<1>5. QED
  BY <1>2, <1>3, <1>4

LEMMA HandleInv ==
  ASSUME IInv, NEW p \in Photo, NEW c \in Hash, Handle(p, c)
  PROVE  IInv'
<1> USE WorkerAssumption
<1> USE DEF handlers, bounds
<1>1. /\ pending' \in [Photo -> Hash \cup {None}] /\ failed' \subseteq Photo \X Hash
      /\ \A q \in Photo : pending'[q] \in {pending[q], None}
      /\ failed \subseteq failed'
      /\ <<p, c>> \in failed' \/ pending'[p] = None
  BY DEF Handle, IInv, TypeOK
<1>2. TypeOK'
  BY <1>1 DEF Handle, IInv, TypeOK, Pending
<1>3. NoLostKick' /\ BusyWhenDraining'
  BY DEF Handle, IInv, NoLostKick, BusyWhenDraining
<1>4. ASSUME NEW q \in Photo, pending'[q] # None, q \notin unseen', Quiet(q)'
      PROVE  <<q, pending'[q]>> \in failed' \/ kicked' \/ <<q, pending'[q]>> \in todo'
  <2>1. pending'[q] = pending[q] /\ q \notin unseen /\ Quiet(q)
    BY <1>1, <1>4 DEF Handle, Quiet
  <2>2. <<q, pending[q]>> \in failed \/ kicked \/ <<q, pending[q]>> \in todo
    BY <1>4, <2>1 DEF IInv, Covered, Handle
  <2>3. CASE <<q, pending[q]>> = <<p, c>>
    BY <1>1, <1>4, <2>1, <2>3
  <2>4. CASE <<q, pending[q]>> # <<p, c>>
    BY <1>1, <2>1, <2>2, <2>4 DEF Handle
  <2>5. QED
    BY <2>3, <2>4
<1>5. Covered'
  BY <1>4 DEF Covered, Handle
<1>6. QED
  BY <1>2, <1>3, <1>5 DEF IInv

LEMMA OtherInv ==
  ASSUME IInv, Restart \/ \E p \in Photo : Delete(p)
  PROVE  IInv'
<1> USE WorkerAssumption
<1>1. CASE Restart
  <2>1. ends' \in 0..MaxEnds
    BY <1>1 DEF Restart, IInv, TypeOK
  <2>2. TypeOK'
    BY <1>1, <2>1 DEF Restart, IInv, TypeOK, Pending
  <2>3. BusyWhenDraining'
    BY <1>1 DEF Restart, BusyWhenDraining
  <2>4. NoLostKick' /\ Covered'
    BY <1>1 DEF Restart, NoLostKick, Covered
  <2>5. QED
    BY <2>2, <2>3, <2>4 DEF IInv
<1>2. ASSUME NEW p \in Photo, Delete(p)
      PROVE  IInv'
  <2> USE DEF Delete, handlers, flags, bounds
  <2>1. TypeOK'
    BY <1>2 DEF IInv, TypeOK, Pending
  <2>2. \A q \in Photo : pending'[q] # None => q # p /\ pending'[q] = pending[q]
    BY <1>2 DEF IInv, TypeOK
  <2>3. \A q : Quiet(q)' <=> Quiet(q)
    BY <1>2 DEF Quiet
  <2>4. Covered'
    BY <1>2, <2>2, <2>3 DEF IInv, Covered
  <2>5. QED
    BY <1>2, <2>1, <2>4 DEF IInv, BusyWhenDraining, NoLostKick
<1>3. QED
  BY <1>1, <1>2

LEMMA Inductive == Spec => []IInv
<1>1. IInv /\ [Next]_vars => IInv'
  <2> SUFFICES ASSUME IInv, [Next]_vars PROVE IInv'
    OBVIOUS
  <2>1. CASE UNCHANGED vars
    BY <2>1 DEF vars, rows, handlers, flags, bounds, IInv, TypeOK, Pending,
                BusyWhenDraining, NoLostKick, Covered, Quiet
  <2>2. CASE Worker
    BY <2>2, LoopInv, DrainInv, HandleInv DEF Worker
  <2>3. CASE Tick \/ Cancel \/ Restart \/ \E p \in Photo : Delete(p)
    BY <2>3, LoopInv, OtherInv
  <2>4. ASSUME NEW h \in Handler,
               \/ SetKicked(h) \/ Send(h)
               \/ \E p \in Photo : Store(h, p) \/ StoreFails(h, p)
        PROVE  IInv'
    <3>1. ASSUME NEW p \in Photo, Store(h, p) \/ StoreFails(h, p)
          PROVE  IInv'
      BY <3>1, StoreInv
    <3>2. CASE SetKicked(h) \/ Send(h)
      BY <3>2, KickInv
    <3>3. QED
      BY <2>4, <3>1, <3>2
  <2>5. QED
    BY <2>1, <2>2, <2>3, <2>4 DEF Next
<1>2. QED
  BY InitInv, <1>1, PTL DEF Spec

\* Every variable of the worker keeps its type, with any bounds.
THEOREM TypeCorrect == Spec => []TypeOK
BY Inductive, PTL DEF IInv

\* What idle() says can be relied on, at any moment of any number of handlers.
THEOREM IdleIsTrue == Spec => []IdleMeansTried
<1>1. IInv => IdleMeansTried
  BY DEF IInv, IdleMeansTried, idle, BusyWhenDraining, Covered, Pending
<1>2. QED
  BY Inductive, <1>1, PTL

\* A kick is never lost between the flag and the token.
THEOREM KicksKept == Spec => []NoLostKick
BY Inductive, PTL DEF IInv
=============================================================================
