---------------------------- MODULE TokenBuckets ----------------------------
(***************************************************************************)
(* What the rate limiter promises: every key has a token bucket of its own *)
(* that nobody ever forgets, and whoever is let through has taken a token. *)
(* RateLimiter implements this with a map of bounded size                  *)
(* (internal/auth/ratelimit.go:9-11).                                      *)
(***************************************************************************)
EXTENDS Naturals

CONSTANTS
  Key,      \* who is limited: "ip|slug"
  Capacity  \* the tokens of a full bucket

VARIABLES time, level, passed

Init == /\ time = 0
        /\ level = [k \in Key |-> Capacity]
        /\ passed = [k \in Key |-> 0]

Take(k) == /\ level[k] > 0
           /\ level' = [level EXCEPT ![k] = @ - 1]
           /\ passed' = [passed EXCEPT ![k] = @ + 1]
           /\ time' = time

\* The time in which one token comes back, to all of them.
Refill == /\ time' = time + 1
          /\ level' = [k \in Key |-> IF level[k] < Capacity THEN level[k] + 1 ELSE Capacity]
          /\ passed' = passed

\* The buckets are memory of the server.
Restart == /\ level' = [k \in Key |-> Capacity]
           /\ passed' = [k \in Key |-> 0]
           /\ time' = time

Next == Refill \/ Restart \/ \E k \in Key : Take(k)

Spec == Init /\ [][Next]_<<time, level, passed>>
=============================================================================
