---------------------------- MODULE RateLimitProofs ----------------------------
(***************************************************************************)
(* Proofs about RateLimit, for any window, maximum and set of keys.        *)
(*                                                                         *)
(* Sweeping is the strengthening BucketsPruned needs: the next sweep is    *)
(* never overdue, and it comes before any bucket is a whole window old.    *)
(* WithinBudget is the one WindowBudget needs: what a key was granted      *)
(* since its bucket was opened is what the bucket counts, and no more than *)
(* twice the maximum fell into any window before.                          *)
(***************************************************************************)
EXTENDS RateLimit, Sums

Sweeping ==
  /\ now <= sweepAt /\ sweepAt <= now + WindowMs
  /\ \A k \in Keys : Present(k) => sweepAt < buckets[k].resetAt + WindowMs

Inv == TypeOK /\ Sweeping

USE WindowAssumption, MaxAssumption, HorizonAssumption

\* A request leaves its key a bucket of the Map's type.
LEMMA CountedType ==
  ASSUME TypeOK, NEW k \in Keys, Expired(k) \/ buckets[k].count <= MaxRequests
  PROVE  Counted(k) \in Bucket
<1>1. buckets[k] \in Bucket /\ now \in Nat
  BY DEF TypeOK, Times
<1> QED BY <1>1 DEF Counted, Bucket

LEMMA TypeInit == Init => TypeOK
BY DEF Init, TypeOK, Bucket, NoBucket, Times

LEMMA TypeStep == TypeOK /\ [Next]_vars => TypeOK'
<1> SUFFICES ASSUME TypeOK, [Next]_vars PROVE TypeOK'
  OBVIOUS
<1>1. ASSUME NEW k \in Keys, CountRequest(k) PROVE TypeOK'
  <2>1. buckets' \in [Keys -> Bucket]
    BY <1>1, CountedType DEF CountRequest, TypeOK
  <2> DEFINE more == granted[k][now] + IF Allowed(k) THEN 1 ELSE 0
  <2>2. granted[k] \in [Times -> Nat] /\ granted' = [granted EXCEPT ![k] = [granted[k] EXCEPT ![now] = more]]
    BY <1>1 DEF TypeOK, CountRequest
  <2>3. more \in Nat
    BY DEF TypeOK
  <2> HIDE DEF more
  <2>4. granted' \in [Keys -> [Times -> Nat]]
    BY <2>2, <2>3 DEF TypeOK
  <2> QED BY <1>1, <2>1, <2>4 DEF CountRequest, TypeOK
<1>2. CASE SweepBuckets
  <2>1. NoBucket \in Bucket
    BY DEF NoBucket, Bucket
  <2> QED BY <1>2, <2>1 DEF SweepBuckets, TypeOK, Times
<1>3. CASE Tick
  BY <1>3 DEF Tick, TypeOK, Times
<1>4. CASE Restart
  <2>1. NoBucket \in Bucket
    BY DEF NoBucket, Bucket
  <2> QED BY <1>4, <2>1 DEF Restart, TypeOK, Times
<1>5. CASE UNCHANGED vars
  BY <1>5 DEF vars, TypeOK
<1> QED BY <1>1, <1>2, <1>3, <1>4, <1>5 DEF Next

LEMMA InvInit == Init => Inv
<1> SUFFICES ASSUME Init PROVE Inv
  OBVIOUS
<1>1. \A k \in Keys : ~Present(k)
  BY DEF Init, Present, NoBucket
<1> QED BY <1>1, TypeInit DEF Init, Inv, Sweeping

LEMMA InvStep == Inv /\ [Next]_vars => Inv'
<1> SUFFICES ASSUME Inv, [Next]_vars PROVE Inv'
  OBVIOUS
<1>0. TypeOK /\ TypeOK'
  BY TypeStep DEF Inv
<1>n. now \in Nat /\ sweepAt \in Nat /\ \A k \in Keys : buckets[k].resetAt \in Nat
  BY <1>0 DEF TypeOK, Times, Bucket
<1>1. ASSUME NEW k \in Keys, CountRequest(k) PROVE Sweeping'
  <2>1. buckets'[k] = Counted(k) /\ \A j \in Keys : j # k => buckets'[j] = buckets[j]
    BY <1>0, <1>1 DEF CountRequest, TypeOK
  <2>2. Counted(k).resetAt = IF Expired(k) THEN now + WindowMs ELSE buckets[k].resetAt
    <3>1. buckets[k] \in Bucket
      BY <1>0 DEF TypeOK
    <3> QED BY <3>1 DEF Counted, Bucket
  <2>3. CASE Expired(k)
    <3>1. sweepAt < buckets'[k].resetAt + WindowMs
      BY <1>n, <2>1, <2>2, <2>3 DEF Inv, Sweeping
    <3> QED BY <1>1, <2>1, <3>1 DEF Inv, Sweeping, Present, CountRequest
  <2>4. CASE ~Expired(k)
    <3>1. Present(k)
      BY <1>n, <2>4 DEF Expired, Present
    <3> QED BY <1>1, <2>1, <2>2, <2>4, <3>1 DEF Inv, Sweeping, Present, CountRequest
  <2> QED BY <2>3, <2>4
<1>2. ASSUME SweepBuckets PROVE Sweeping'
  <2>1. \A k \in Keys : buckets'[k] = IF Expired(k) THEN NoBucket ELSE buckets[k]
    BY <1>2 DEF SweepBuckets
  <2>2. now' = now /\ sweepAt' = now + WindowMs
    BY <1>2 DEF SweepBuckets
  <2>3. ASSUME NEW k \in Keys, Present(k)' PROVE sweepAt' < buckets'[k].resetAt + WindowMs
    <3>1. ~Expired(k) /\ buckets'[k] = buckets[k]
      BY <2>1, <2>3 DEF Present, NoBucket
    <3> QED BY <1>n, <2>2, <3>1 DEF Expired
  <2> QED BY <1>n, <2>2, <2>3 DEF Sweeping
<1>3. ASSUME Tick PROVE Sweeping'
  BY <1>n, <1>3 DEF Tick, Inv, Sweeping, Present
<1>4. ASSUME Restart PROVE Sweeping'
  <2>1. \A k \in Keys : ~Present(k)'
    BY <1>4 DEF Restart, Present, NoBucket
  <2> QED BY <1>n, <1>4, <2>1 DEF Restart, Sweeping
<1>5. ASSUME UNCHANGED vars PROVE Sweeping'
  BY <1>5 DEF vars, Inv, Sweeping, Present
<1> QED BY <1>0, <1>1, <1>2, <1>3, <1>4, <1>5 DEF Next, Inv

\* The limiter keeps its types; no bucket counts beyond one refused request.
THEOREM TypeCorrect == Spec => []TypeOK
BY TypeInit, TypeStep, PTL DEF Spec

\* No bucket outlives its window by a whole further window, so the Map holds
\* only keys seen within the last two windows.
THEOREM PrunedAlways == Spec => []BucketsPruned
<1>1. ASSUME Inv PROVE BucketsPruned
  <2>1. now \in Nat /\ sweepAt \in Nat /\ \A k \in Keys : buckets[k].resetAt \in Nat
    BY <1>1 DEF Inv, TypeOK, Times, Bucket
  <2> QED BY <1>1, <2>1 DEF Inv, Sweeping, BucketsPruned
<1> QED BY <1>1, InvInit, InvStep, PTL DEF Spec

-----------------------------------------------------------------------------
(* The budget.  G stands for the history of one key: a bucket counts the   *)
(* grants of its own window, all others are in the window before or older. *)

Span(a, b) == {t \in Times : a <= t /\ t < b}
Sum(G, a, b) == Total(G, Span(a, b))

Least(m, n) == IF m <= n THEN m ELSE n

LEMMA SumNat ==
  ASSUME NEW G \in [Times -> Nat], NEW a, NEW b
  PROVE  NatOn(G, Span(a, b)) /\ Sum(G, a, b) \in Nat
<1>1. IsFiniteSet(Times)
  BY FS_Interval DEF Times
<1>2. NatOn(G, Span(a, b))
  BY <1>1, FS_Subset DEF NatOn, Span
<1> QED
  BY <1>2, TotalNat DEF Sum

\* A span is the sum of its parts, and no smaller than a span inside it.
LEMMA SumSplit ==
  ASSUME NEW G \in [Times -> Nat], NEW a \in Int, NEW b \in Int, NEW c \in Int, a <= b, b <= c
  PROVE  Sum(G, a, c) = Sum(G, a, b) + Sum(G, b, c)
<1>1. Span(a, c) = Span(a, b) \cup Span(b, c) /\ Span(a, b) \cap Span(b, c) = {}
  BY DEF Span, Times
<1> QED
  BY <1>1, SumNat, TotalUnion DEF Sum

LEMMA SumInside ==
  ASSUME NEW G \in [Times -> Nat], NEW a \in Int, NEW b \in Int,
         NEW c, NEW d, Span(a, b) \subseteq Span(c, d)
  PROVE  Sum(G, a, b) <= Sum(G, c, d)
BY SumNat, TotalPart DEF Sum

LEMMA SumNone ==
  ASSUME NEW G \in [Times -> Nat], NEW a, NEW b, \A t \in Span(a, b) : G[t] = 0
  PROVE  Sum(G, a, b) = 0
BY SumNat, TotalZero DEF Sum, NatOn

\* H has m more requests let through at time n than G.
Grants(G, H, n, m) ==
  /\ H \in [Times -> Nat] /\ H[n] = G[n] + m
  /\ \A t \in Times : t # n => H[t] = G[t]

LEMMA SumGrant ==
  ASSUME NEW G \in [Times -> Nat], NEW n \in Times, NEW m \in Nat, NEW H, Grants(G, H, n, m),
         NEW a, NEW b
  PROVE  Sum(H, a, b) = Sum(G, a, b) + IF n \in Span(a, b) THEN m ELSE 0
<1>1. NatOn(G, Span(a, b)) /\ Total(G, Span(a, b)) \in Nat
  BY SumNat DEF Sum
<1>2. \A t \in Span(a, b) : t \in Times
  BY DEF Span
<1>3. CASE n \in Span(a, b)
  <2>1. H[n] = G[n] + m /\ \A t \in Span(a, b) \ {n} : H[t] = G[t]
    BY <1>2 DEF Grants
  <2>2. Total(H, Span(a, b)) = Total(G, Span(a, b)) + m
    BY <1>1, <1>3, <2>1, TotalGrows
  <2> QED
    BY <1>3, <2>2 DEF Sum
<1>4. CASE n \notin Span(a, b)
  <2>1. \A t \in Span(a, b) : H[t] = G[t]
    BY <1>2, <1>4 DEF Grants
  <2>2. Total(H, Span(a, b)) = Total(G, Span(a, b))
    BY <1>1, <2>1, TotalSame
  <2> QED
    BY <1>1, <1>4, <2>2 DEF Sum
<1> QED
  BY <1>3, <1>4

\* At time n, with bucket B: its window's requests are the B.count that count,
\* the window before had its own maximum, and nothing came after the end of the
\* window.  A key without a bucket was let through too seldom to have one.
Budget(G, B, n) ==
  /\ \A t \in Times : G[t] # 0 => t <= n
  /\ B.resetAt # 0 =>
       LET b == B.resetAt - WindowMs
       IN /\ b \in Nat /\ b <= n
          /\ \A t \in Times : G[t] # 0 => t < B.resetAt
          /\ Sum(G, b - WindowMs + 1, b) <= MaxRequests
          /\ Sum(G, b, Horizon + 1) = Least(B.count, MaxRequests)
  /\ B.resetAt = 0 =>
       /\ \A t \in Times : G[t] # 0 => t < n
       /\ Sum(G, n - WindowMs + 1, Horizon + 1) <= MaxRequests
  /\ \A t \in Times : Sum(G, t, t + WindowMs) <= 2 * MaxRequests

\* A key whose window is over starts afresh.
LEMMA OverBudget ==
  ASSUME NEW G \in [Times -> Nat], NEW B \in Bucket, NEW n \in Times, Budget(G, B, n),
         B.resetAt <= n
  PROVE  /\ \A t \in Times : G[t] # 0 => t < n
         /\ Sum(G, n - WindowMs + 1, Horizon + 1) <= MaxRequests
<1> PICK b : b = B.resetAt - WindowMs
  OBVIOUS
<1>1. B.resetAt \in Nat /\ B.count \in Nat /\ n \in Nat
  BY DEF Bucket, Times
<1>2. CASE B.resetAt # 0
  <2>1. /\ b \in Nat /\ \A t \in Times : G[t] # 0 => t < B.resetAt
        /\ Sum(G, b, Horizon + 1) = Least(B.count, MaxRequests)
    BY <1>2 DEF Budget
  <2>2. Span(n - WindowMs + 1, Horizon + 1) \subseteq Span(b, Horizon + 1)
    BY <1>1, <2>1 DEF Span, Times
  <2>3. Sum(G, n - WindowMs + 1, Horizon + 1) <= Sum(G, b, Horizon + 1)
    BY <1>1, <2>1, <2>2, SumInside
  <2>4. Sum(G, n - WindowMs + 1, Horizon + 1) \in Nat
    BY SumNat
  <2>5. Least(B.count, MaxRequests) \in Nat /\ Least(B.count, MaxRequests) <= MaxRequests
    BY <1>1 DEF Least
  <2>6. \A t \in Times : G[t] # 0 => t < n
    BY <1>1, <2>1 DEF Times
  <2> QED
    BY <2>1, <2>3, <2>4, <2>5, <2>6
<1> QED
  BY <1>2 DEF Budget

\* The sweeper may drop such a bucket.
LEMMA BudgetSwept ==
  ASSUME NEW G \in [Times -> Nat], NEW B \in Bucket, NEW n \in Times, Budget(G, B, n),
         B.resetAt <= n
  PROVE  Budget(G, NoBucket, n)
<1>1. NoBucket.resetAt = 0
  BY DEF NoBucket
<1> QED
  BY <1>1, OverBudget DEF Budget

LEMMA BudgetLater ==
  ASSUME NEW G \in [Times -> Nat], NEW B \in Bucket, NEW n \in Times, Budget(G, B, n),
         NEW m, m = n + 1
  PROVE  Budget(G, B, m)
<1>1. n \in Nat /\ m \in Nat /\ n < m
  BY DEF Times
<1>2. ASSUME B.resetAt = 0
      PROVE  /\ \A t \in Times : G[t] # 0 => t < m
             /\ Sum(G, m - WindowMs + 1, Horizon + 1) <= MaxRequests
  <2>1. Sum(G, n - WindowMs + 1, Horizon + 1) <= MaxRequests /\ \A t \in Times : G[t] # 0 => t < n
    BY <1>2 DEF Budget
  <2>2. Span(m - WindowMs + 1, Horizon + 1) \subseteq Span(n - WindowMs + 1, Horizon + 1)
    BY <1>1 DEF Span, Times
  <2>3. Sum(G, m - WindowMs + 1, Horizon + 1) <= Sum(G, n - WindowMs + 1, Horizon + 1)
    BY <1>1, <2>2, SumInside
  <2>4. /\ Sum(G, m - WindowMs + 1, Horizon + 1) \in Nat
        /\ Sum(G, n - WindowMs + 1, Horizon + 1) \in Nat
    BY SumNat
  <2> QED
    BY <1>1, <2>1, <2>3, <2>4 DEF Times
<1>3. ASSUME B.resetAt # 0  PROVE B.resetAt - WindowMs <= m
  <2>1. B.resetAt - WindowMs \in Nat /\ B.resetAt - WindowMs <= n
    BY <1>3 DEF Budget
  <2> QED
    BY <1>1, <2>1
<1>4. \A t \in Times : G[t] # 0 => t <= m
  <2>1. \A t \in Times : G[t] # 0 => t <= n
    BY DEF Budget
  <2> QED
    BY <1>1, <2>1 DEF Times
<1> QED
  BY <1>2, <1>3, <1>4 DEF Budget

\* Where two windows meet, each gives its share.
LEMMA Straddle ==
  ASSUME NEW G \in [Times -> Nat], NEW b \in Nat, NEW n \in Times, b <= n,
         Sum(G, b - WindowMs + 1, b) <= MaxRequests,
         Sum(G, b, Horizon + 1) <= MaxRequests,
         NEW t \in Times, n \in Span(t, t + WindowMs)
  PROVE  Sum(G, t, t + WindowMs) <= 2 * MaxRequests
<1>1. n \in Nat /\ t \in Nat /\ t <= n /\ n < t + WindowMs
  BY DEF Span, Times
<1>2. CASE t <= b
  <2>1. Sum(G, t, t + WindowMs) = Sum(G, t, b) + Sum(G, b, t + WindowMs)
    BY <1>1, <1>2, SumSplit
  <2>2. Span(t, b) \subseteq Span(b - WindowMs + 1, b) /\ Span(b, t + WindowMs) \subseteq Span(b, Horizon + 1)
    BY <1>1 DEF Span, Times
  <2>3. Sum(G, t, b) <= Sum(G, b - WindowMs + 1, b)
    BY <1>1, <2>2, SumInside
  <2>4. Sum(G, b, t + WindowMs) <= Sum(G, b, Horizon + 1)
    BY <1>1, <2>2, SumInside
  <2>5. /\ Sum(G, t, b) \in Nat /\ Sum(G, b, t + WindowMs) \in Nat
        /\ Sum(G, b - WindowMs + 1, b) \in Nat /\ Sum(G, b, Horizon + 1) \in Nat
    BY SumNat
  <2> QED
    BY <2>1, <2>3, <2>4, <2>5
<1>3. CASE b < t
  <2>1. Span(t, t + WindowMs) \subseteq Span(b, Horizon + 1)
    BY <1>1, <1>3 DEF Span, Times
  <2>2. Sum(G, t, t + WindowMs) <= Sum(G, b, Horizon + 1)
    BY <1>1, <2>1, SumInside
  <2>3. Sum(G, t, t + WindowMs) \in Nat /\ Sum(G, b, Horizon + 1) \in Nat
    BY SumNat
  <2> QED
    BY <2>2, <2>3
<1> QED
  BY <1>1, <1>2, <1>3

\* One request, whether or not it is let through.
LEMMA BudgetCounted ==
  ASSUME NEW G \in [Times -> Nat], NEW B \in Bucket, NEW n \in Times, Budget(G, B, n),
         NEW C \in Bucket,
         C.count = IF B.resetAt <= n THEN 1 ELSE B.count + 1,
         C.resetAt = IF B.resetAt <= n THEN n + WindowMs ELSE B.resetAt,
         NEW m, m = IF C.count <= MaxRequests THEN 1 ELSE 0,
         NEW H, Grants(G, H, n, m)
  PROVE  Budget(H, C, n)
<1> PICK b : b = C.resetAt - WindowMs
  OBVIOUS
<1>0. n \in Nat /\ B.resetAt \in Nat /\ B.count \in Nat /\ C.resetAt \in Nat /\ m \in {0, 1}
  BY DEF Times, Bucket
<1>1. H \in [Times -> Nat] /\ \A t \in Times : H[t] # 0 => G[t] # 0 \/ t = n
  BY DEF Grants
<1>2. ASSUME NEW x, NEW y  PROVE Sum(H, x, y) = Sum(G, x, y) + IF n \in Span(x, y) THEN m ELSE 0
  BY <1>0, SumGrant
<1>3. /\ C.resetAt # 0 /\ b \in Nat /\ b <= n /\ n < C.resetAt /\ C.count \in Nat
      /\ \A t \in Times : H[t] # 0 => t <= n
      /\ Sum(G, b - WindowMs + 1, b) <= MaxRequests
      /\ Sum(G, b, Horizon + 1) + m = Least(C.count, MaxRequests)
  <2>1. CASE B.resetAt <= n
    <3>1. C.resetAt = n + WindowMs /\ b = n /\ C.count = 1 /\ m = 1
      BY <1>0, <2>1
    <3>2. (\A t \in Times : G[t] # 0 => t < n) /\ Sum(G, n - WindowMs + 1, Horizon + 1) <= MaxRequests
      BY <2>1, OverBudget
    <3>3. Sum(G, n, Horizon + 1) = 0
      <4>1. \A t \in Span(n, Horizon + 1) : G[t] = 0
        BY <1>0, <3>2 DEF Span, Times
      <4> QED
        BY <4>1, SumNone
    <3>4. Span(n - WindowMs + 1, n) \subseteq Span(n - WindowMs + 1, Horizon + 1)
      BY DEF Span, Times
    <3>5. Sum(G, n - WindowMs + 1, n) <= Sum(G, n - WindowMs + 1, Horizon + 1)
      <4>1. n - WindowMs + 1 \in Int /\ n \in Int
        BY <1>0
      <4> QED
        BY <3>4, <4>1, SumInside
    <3>6. Sum(G, n - WindowMs + 1, n) \in Nat /\ Sum(G, n - WindowMs + 1, Horizon + 1) \in Nat
      BY SumNat
    <3>7. \A t \in Times : H[t] # 0 => t <= n
      BY <1>0, <1>1, <3>2 DEF Times
    <3> QED
      BY <1>0, <3>1, <3>2, <3>3, <3>5, <3>6, <3>7 DEF Least
  <2>2. CASE n < B.resetAt
    <3>2. C.resetAt = B.resetAt /\ C.count = B.count + 1
      BY <1>0, <2>2
    <3>3. /\ b \in Nat /\ b <= n /\ \A t \in Times : G[t] # 0 => t <= n
          /\ Sum(G, b - WindowMs + 1, b) <= MaxRequests
          /\ Sum(G, b, Horizon + 1) = Least(B.count, MaxRequests)
      BY <1>0, <2>2, <3>2 DEF Budget
    <3>4. Least(B.count, MaxRequests) + m = Least(C.count, MaxRequests)
      BY <1>0, <3>2 DEF Least
    <3>5. \A t \in Times : H[t] # 0 => t <= n
      BY <1>0, <1>1, <3>3
    <3> QED
      BY <1>0, <2>2, <3>2, <3>3, <3>4, <3>5
  <2> QED
    BY <1>0, <2>1, <2>2
<1>4. n \notin Span(b - WindowMs + 1, b) /\ n \in Span(b, Horizon + 1)
  BY <1>0, <1>3 DEF Span, Times
<1>5. Sum(H, b - WindowMs + 1, b) <= MaxRequests /\ Sum(H, b, Horizon + 1) = Least(C.count, MaxRequests)
  <2>1. Sum(G, b - WindowMs + 1, b) \in Nat
    BY SumNat
  <2>2. Sum(H, b - WindowMs + 1, b) = Sum(G, b - WindowMs + 1, b)
    <3> PICK x : x = b - WindowMs + 1
      OBVIOUS
    <3> QED
      BY <1>2, <1>4, <2>1
  <2>3. Sum(H, b, Horizon + 1) = Sum(G, b, Horizon + 1) + m
    BY <1>2, <1>4
  <2> QED
    BY <1>3, <2>1, <2>2, <2>3
<1>6. ASSUME NEW t \in Times  PROVE Sum(H, t, t + WindowMs) <= 2 * MaxRequests
  <2>1. CASE n \in Span(t, t + WindowMs)
    <3>1. Sum(H, b, Horizon + 1) <= MaxRequests
      BY <1>3, <1>5 DEF Least
    <3> QED
      BY <1>1, <1>3, <1>5, <2>1, <3>1, Straddle
  <2>2. CASE n \notin Span(t, t + WindowMs)
    <3>1. Sum(G, t, t + WindowMs) \in Nat /\ Sum(G, t, t + WindowMs) <= 2 * MaxRequests
      BY SumNat DEF Budget
    <3> QED
      BY <1>2, <2>2, <3>1
  <2> QED
    BY <2>1, <2>2
<1>7. ASSUME NEW t \in Times, H[t] # 0  PROVE t < C.resetAt
  <2>1. t <= n /\ t \in Nat
    BY <1>3, <1>7 DEF Times
  <2> QED
    BY <1>0, <1>3, <2>1
<1> QED
  BY <1>3, <1>5, <1>6, <1>7 DEF Budget

-----------------------------------------------------------------------------
(* Every step keeps every key within its budget.                           *)

WithinBudget == \A k \in Keys : Budget(granted[k], buckets[k], now)

LEMMA FreshBudget ==
  ASSUME NEW n \in Times
  PROVE  Budget([t \in Times |-> 0], NoBucket, n)
<1> PICK G : G = [t \in Times |-> 0]
  OBVIOUS
<1>1. G \in [Times -> Nat] /\ \A t \in Times : G[t] = 0
  OBVIOUS
<1>2. \A a, b : Sum(G, a, b) = 0
  BY <1>1, SumNone DEF Span
<1>3. NoBucket.resetAt = 0
  BY DEF NoBucket
<1> QED
  BY <1>1, <1>2, <1>3 DEF Budget

LEMMA BudgetInit == Init => WithinBudget
<1> SUFFICES ASSUME Init  PROVE WithinBudget
  OBVIOUS
<1>1. now \in Times
  BY DEF Init, Times
<1> QED
  BY <1>1, FreshBudget DEF Init, WithinBudget

LEMMA BudgetStep == TypeOK /\ WithinBudget /\ [Next]_vars => WithinBudget'
<1> SUFFICES ASSUME TypeOK, WithinBudget, [Next]_vars, NEW k \in Keys
             PROVE  Budget(granted'[k], buckets'[k], now')
  BY DEF WithinBudget
<1>0. /\ granted[k] \in [Times -> Nat] /\ buckets[k] \in Bucket /\ now \in Times
      /\ Budget(granted[k], buckets[k], now)
  BY DEF TypeOK, WithinBudget
<1>1. ASSUME NEW j \in Keys, CountRequest(j)  PROVE Budget(granted'[k], buckets'[k], now')
  <2>1. CASE j # k
    BY <1>0, <1>1, <2>1 DEF CountRequest, TypeOK
  <2>2. CASE j = k
    <3> PICK m : m = IF Allowed(k) THEN 1 ELSE 0
      OBVIOUS
    <3>1. /\ buckets'[k] = Counted(k) /\ now' = now
          /\ granted' = [granted EXCEPT ![k][now] = @ + m]
          /\ Expired(k) \/ buckets[k].count <= MaxRequests
      BY <1>1, <2>2 DEF CountRequest, TypeOK
    <3>2. Counted(k) \in Bucket
      BY <3>1, CountedType
    <3>3. /\ Counted(k).count = IF buckets[k].resetAt <= now THEN 1 ELSE buckets[k].count + 1
          /\ Counted(k).resetAt = IF buckets[k].resetAt <= now THEN now + WindowMs
                                                              ELSE buckets[k].resetAt
      BY <1>0 DEF Counted, Expired, Bucket
    <3>4. granted'[k] = [granted[k] EXCEPT ![now] = granted[k][now] + m]
      BY <3>1 DEF TypeOK
    <3>5. Grants(granted[k], granted'[k], now, m)
      BY <1>0, <3>4 DEF Grants
    <3>6. m = IF Counted(k).count <= MaxRequests THEN 1 ELSE 0
      BY DEF Allowed
    <3> QED
      BY <1>0, <3>1, <3>2, <3>3, <3>5, <3>6, BudgetCounted
  <2> QED
    BY <2>1, <2>2
<1>2. CASE SweepBuckets
  <2>1. /\ buckets'[k] = IF Expired(k) THEN NoBucket ELSE buckets[k]
        /\ now' = now /\ granted' = granted
    BY <1>2 DEF SweepBuckets
  <2> QED
    BY <1>0, <2>1, BudgetSwept DEF Expired
<1>3. CASE Tick
  BY <1>0, <1>3, BudgetLater DEF Tick
<1>4. CASE Restart
  <2>1. /\ buckets'[k] = NoBucket /\ now' = now /\ granted'[k] = [t \in Times |-> 0]
    BY <1>4 DEF Restart
  <2> QED
    BY <1>0, <2>1, FreshBudget
<1>5. CASE UNCHANGED vars
  BY <1>0, <1>5 DEF vars
<1> QED
  BY <1>1, <1>2, <1>3, <1>4, <1>5 DEF Next

LEMMA ThroughIs ==
  ASSUME NEW k \in Keys, NEW a, NEW b
  PROVE  Through(k, a, b) = Sum(granted[k], a, b)
BY DEF Through, Sum, Span, Total, MapThenSumSet, MapThenFoldSet

\* No caller gets more than max requests through in a window, nor more than
\* twice as many in any interval as long as one, at any window and maximum.
THEOREM WindowBudgetAlways == Spec => []WindowBudget
<1>1. TypeOK /\ WithinBudget => WindowBudget
  <2> SUFFICES ASSUME TypeOK, WithinBudget, NEW k \in Keys
               PROVE  /\ Present(k) => Sum(granted[k], buckets[k].resetAt - WindowMs, buckets[k].resetAt) <= MaxRequests
                      /\ \A t \in Times : Sum(granted[k], t, t + WindowMs) <= 2 * MaxRequests
    BY ThroughIs DEF WindowBudget
  <2> PICK G, B : G = granted[k] /\ B = buckets[k]
    OBVIOUS
  <2>1. G \in [Times -> Nat] /\ B \in Bucket /\ now \in Times /\ Budget(G, B, now)
    BY DEF TypeOK, WithinBudget
  <2>2. ASSUME B.resetAt # 0  PROVE Sum(G, B.resetAt - WindowMs, B.resetAt) <= MaxRequests
    <3> PICK b : b = B.resetAt - WindowMs
      OBVIOUS
    <3>1. B.resetAt \in Nat /\ B.count \in Nat
      BY <2>1 DEF Bucket
    <3>2. b \in Nat /\ Sum(G, b, Horizon + 1) = Least(B.count, MaxRequests)
      BY <2>1, <2>2 DEF Budget
    <3>3. Span(b, B.resetAt) \subseteq Span(b, Horizon + 1)
      BY DEF Span, Times
    <3>4. Sum(G, b, B.resetAt) <= Sum(G, b, Horizon + 1)
      BY <2>1, <3>1, <3>2, <3>3, SumInside
    <3>5. Sum(G, b, B.resetAt) \in Nat
      BY <2>1, SumNat
    <3> QED
      BY <3>1, <3>2, <3>4, <3>5 DEF Least
  <2> QED
    BY <2>1, <2>2 DEF Budget, Present
<1> QED
  BY <1>1, BudgetInit, BudgetStep, TypeCorrect, PTL DEF Spec

\* Whoever is refused has had max requests let through within one window up to
\* now: nobody is shut out for what he did longer ago, or for the refusals.
THEOREM RefusedOnlyWhenUsedAlways == Spec => []RefusedOnlyWhenUsed
<1>1. TypeOK /\ WithinBudget => RefusedOnlyWhenUsed
  <2> SUFFICES ASSUME TypeOK, WithinBudget, NEW k \in Keys, ~Allowed(k)
               PROVE  Sum(granted[k], now - WindowMs + 1, now + 1) >= MaxRequests
    BY ThroughIs DEF RefusedOnlyWhenUsed
  <2> PICK G, B : G = granted[k] /\ B = buckets[k]
    OBVIOUS
  <2> PICK b : b = B.resetAt - WindowMs
    OBVIOUS
  <2>1. G \in [Times -> Nat] /\ B \in Bucket /\ now \in Times /\ Budget(G, B, now)
    BY DEF TypeOK, WithinBudget
  <2>2. B.resetAt \in Nat /\ B.count \in Nat /\ now \in Nat /\ now <= Horizon
    BY <2>1 DEF Bucket, Times
  <2>3. now < B.resetAt /\ B.count >= MaxRequests
    BY <2>1, <2>2 DEF Allowed, Counted, Expired, Bucket
  <2>4. /\ b \in Nat /\ b <= now /\ \A t \in Times : G[t] # 0 => t <= now
        /\ Sum(G, b, Horizon + 1) = Least(B.count, MaxRequests)
    BY <2>1, <2>2, <2>3 DEF Budget
  <2>5. Sum(G, b, Horizon + 1) = Sum(G, b, now + 1) + Sum(G, now + 1, Horizon + 1)
    BY <2>1, <2>2, <2>4, SumSplit
  <2>6. Sum(G, now + 1, Horizon + 1) = 0
    <3>1. \A t \in Span(now + 1, Horizon + 1) : G[t] = 0
      BY <2>2, <2>4 DEF Span, Times
    <3> QED
      BY <2>1, <3>1, SumNone
  <2>7. Span(b, now + 1) \subseteq Span(now - WindowMs + 1, now + 1)
    BY <2>2, <2>3, <2>4 DEF Span, Times
  <2>8. Sum(G, b, now + 1) <= Sum(G, now - WindowMs + 1, now + 1)
    BY <2>1, <2>2, <2>4, <2>7, SumInside
  <2>9. Sum(G, b, now + 1) \in Nat /\ Sum(G, now - WindowMs + 1, now + 1) \in Nat
    BY <2>1, SumNat
  <2>10. Least(B.count, MaxRequests) = MaxRequests
    BY <2>2, <2>3 DEF Least
  <2> QED
    BY <2>4, <2>5, <2>6, <2>8, <2>9, <2>10
<1> QED
  BY <1>1, BudgetInit, BudgetStep, TypeCorrect, PTL DEF Spec
=============================================================================
