----------------------------- MODULE PhotoMutex -----------------------------
(***************************************************************************)
(* One mutex per photo: what PhotoLibrary's variable lock assumes, and     *)
(* what photoLocks promises (internal/library/library.go:84-97).           *)
(***************************************************************************)

CONSTANTS Thread, Photo, None

VARIABLES
  holder,  \* who holds each photo
  wants    \* the photo each thread waits for or holds

Init == /\ holder = [p \in Photo |-> None]
        /\ wants = [t \in Thread |-> None]

Ask(t, p) == /\ wants[t] = None
             /\ wants' = [wants EXCEPT ![t] = p]
             /\ UNCHANGED holder

Take(t) == \E p \in Photo : /\ wants[t] = p /\ holder[p] = None
                            /\ holder' = [holder EXCEPT ![p] = t]
                            /\ UNCHANGED wants

Give(t) == \E p \in Photo : /\ wants[t] = p /\ holder[p] = t
                            /\ holder' = [holder EXCEPT ![p] = None]
                            /\ wants' = [wants EXCEPT ![t] = None]

Next == \E t \in Thread : Take(t) \/ Give(t) \/ \E p \in Photo : Ask(t, p)

Spec == Init /\ [][Next]_<<holder, wants>>
=============================================================================
