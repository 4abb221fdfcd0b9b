------------------------------ MODULE RateLimit ------------------------------
(***************************************************************************)
(* The in-memory fixed-window rate limiter of the auth routes,             *)
(* backend/src/middleware/rateLimit.ts.                                    *)
(*                                                                         *)
(* A key stands for a limiter (login, change-password, ...) together with  *)
(* the bucket key its keyFn derives; limiters share nothing.  Date.now()   *)
(* is the clock now, in ticks.                                             *)
(***************************************************************************)
EXTENDS Integers, FiniteSets, FiniteSetsExt

CONSTANTS
  Keys,
  WindowMs,
  MaxRequests,
  Horizon   \* bound: the clock stops here

ASSUME WindowAssumption  == WindowMs \in Nat \ {0}
ASSUME MaxAssumption     == MaxRequests \in Nat \ {0}
ASSUME HorizonAssumption == Horizon \in Nat

VARIABLES
  now,
  buckets,  \* the Map; resetAt = 0: the key has no bucket
  sweepAt,  \* when the sweeper's interval fires next
  granted   \* history: requests let through, by key and time

vars == <<now, buckets, sweepAt, granted>>

Times    == 0..Horizon
NoBucket == [count |-> 0, resetAt |-> 0]
Present(k) == buckets[k].resetAt # 0

\* Mutant: a window is not over at its last instant.
ExpiredLate(k) == buckets[k].resetAt < now

\* The key has no bucket, or its window is over.
Expired(k) == buckets[k].resetAt <= now

\* Mutant: an expired bucket keeps its count.
CountedOn(k) ==
  IF Expired(k) THEN [count |-> buckets[k].count + 1, resetAt |-> now + WindowMs]
                ELSE [buckets[k] EXCEPT !.count = @ + 1]

\* The key's bucket after one more request.
Counted(k) ==
  IF Expired(k) THEN [count |-> 1, resetAt |-> now + WindowMs]
                ELSE [buckets[k] EXCEPT !.count = @ + 1]

\* Mutant: the comparison with max is off by one.
AllowedOneMore(k) == Counted(k).count <= MaxRequests + 1

\* The request reaches next(); otherwise it is answered 429.
Allowed(k) == Counted(k).count <= MaxRequests

\* rateLimiter, called for a request of key k.  Bound: after one refusal
\* further refusals in a window change nothing but the count.
CountRequest(k) ==
  /\ Expired(k) \/ buckets[k].count <= MaxRequests
  /\ buckets' = [buckets EXCEPT ![k] = Counted(k)]
  /\ granted' = [granted EXCEPT ![k][now] = @ + IF Allowed(k) THEN 1 ELSE 0]
  /\ UNCHANGED <<now, sweepAt>>

\* Mutant: the sweeper is started once and not repeated.
SweepBucketsOnce ==
  /\ now = sweepAt
  /\ buckets' = [k \in Keys |-> IF Expired(k) THEN NoBucket ELSE buckets[k]]
  /\ sweepAt' = Horizon + 1
  /\ UNCHANGED <<now, granted>>

\* The sweeper's callback.
SweepBuckets ==
  /\ now = sweepAt
  /\ buckets' = [k \in Keys |-> IF Expired(k) THEN NoBucket ELSE buckets[k]]
  /\ sweepAt' = now + WindowMs
  /\ UNCHANGED <<now, granted>>

\* Time passes; the interval's callback is not late.
Tick ==
  /\ now < Horizon /\ now # sweepAt
  /\ now' = now + 1
  /\ UNCHANGED <<buckets, sweepAt, granted>>

\* The backend restarts: a fresh Map and a fresh interval.
Restart ==
  /\ buckets' = [k \in Keys |-> NoBucket]
  /\ granted' = [k \in Keys |-> [t \in Times |-> 0]]
  /\ sweepAt' = now + WindowMs
  /\ UNCHANGED now

Init ==
  /\ now     = 0
  /\ buckets = [k \in Keys |-> NoBucket]
  /\ sweepAt = WindowMs
  /\ granted = [k \in Keys |-> [t \in Times |-> 0]]

Next == (\E k \in Keys : CountRequest(k)) \/ SweepBuckets \/ Tick \/ Restart

Spec == Init /\ [][Next]_vars

-----------------------------------------------------------------------------
(* Properties.                                                             *)

Bucket == [count : 0..(MaxRequests + 1), resetAt : Nat]

\* The type invariant.
TypeOK ==
  /\ now \in Times
  /\ buckets \in [Keys -> Bucket]
  /\ sweepAt \in Nat
  /\ granted \in [Keys -> [Times -> Nat]]

\* Requests of k let through from time a on, before time b.
Through(k, a, b) == MapThenSumSet(LAMBDA t : granted[k][t], {t \in Times : a <= t /\ t < b})

\* A key gets at most max requests through in a window, and a caller whose
\* requests straddle two windows at most twice as many in any interval of
\* windowMs, however requests, sweeps and window ends fall together.
WindowBudget ==
  \A k \in Keys :
    /\ Present(k) => Through(k, buckets[k].resetAt - WindowMs, buckets[k].resetAt) <= MaxRequests
    /\ \A t \in Times : Through(k, t, t + WindowMs) <= 2 * MaxRequests

\* "Buckets are pruned [...] so the map can't grow unbounded": no bucket is
\* kept for a whole window after its own.
BucketsPruned == \A k \in Keys : Present(k) => now < buckets[k].resetAt + WindowMs

\* Nobody is shut out for longer than windowMs: a refused key has a request
\* that was let through within the last windowMs.
RefusedOnlyWhenUsed ==
  \A k \in Keys : ~Allowed(k) => Through(k, now - WindowMs + 1, now + 1) >= MaxRequests
=============================================================================
