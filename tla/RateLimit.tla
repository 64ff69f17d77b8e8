------------------------------ MODULE RateLimit -----------------------------
(***************************************************************************)
(* The limiter of internal/middleware/ratelimit.go for one client address: *)
(* a counter in Redis that the first request of a window gives a time to   *)
(* live.  INCR and EXPIRE are two commands of a request.                   *)
(***************************************************************************)
EXTENDS Faults

CONSTANTS
    Requests,
    Limit       \* requestsPerMinute

ASSUME LimitAssumption == Limit \in Nat

VARIABLES
    counter,   \* the value of the key; 0: there is none
    ttl,       \* the key will expire
    counted    \* history: the requests that the key has counted

limitVars == <<counter, ttl, counted>>

LimitInit == counter = 0 /\ ttl = FALSE /\ counted = {}

\* Mutant: the command is sent twice.
IncrTwice(r, outcome) ==
    /\ Attempt(outcome)
    /\ counter' = counter + 2 /\ counted' = counted \cup {r}
    /\ UNCHANGED ttl

Incr(r, outcome) ==
    /\ Attempt(outcome)
    /\ \/ outcome = "error" /\ UNCHANGED <<counter, counted>>
       \/ outcome # "error" /\ counter' = counter + 1 /\ counted' = counted \cup {r}
    /\ UNCHANGED ttl

\* The answer of EXPIRE is ignored.
Expire(outcome) ==
    /\ Attempt(outcome)
    /\ ttl' = IF outcome = "error" THEN ttl ELSE counter > 0
    /\ UNCHANGED <<counter, counted>>

\* Mutant: the comparison is off by one.
AllowsOneMore(count) == count <= Limit + 1

Allows(count) == count <= Limit

\* Mutant: INCR is taken to answer the old value.
OpensAtZero(count) == count = 0

\* The request that made the key sets its time to live.
Opens(count) == count = 1

\* A minute after EXPIRE.
WindowEnds ==
    /\ ttl
    /\ counter' = 0 /\ ttl' = FALSE /\ counted' = {}
=============================================================================
