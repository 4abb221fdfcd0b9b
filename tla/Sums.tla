-------------------------------- MODULE Sums --------------------------------
(***************************************************************************)
(* Sums of a function over a finite set, for the proofs.  MapThenSumSet is *)
(* a recursive function: a sum is the number of pairs below the graph of   *)
(* the function, which satisfies the recursion, and nothing else does.     *)
(***************************************************************************)
EXTENDS FiniteSetsExt, FiniteSetTheorems, TLAPS

Total(f, S) == MapThenSumSet(LAMBDA x : f[x], S)

\* Where MapThenSumSet goes on, and what it computes on the way.
Some(s) == CHOOSE x \in s : TRUE

SumsUp(g, f, S) ==
  g = [s \in SUBSET S |-> IF s = {} THEN 0 ELSE f[Some(s)] + g[s \ {Some(s)}]]

\* The pairs below the graph of f.
Below(f, S) == UNION {{x} \X (1..f[x]) : x \in S}

Class(A, class, c) == {a \in A : class[a] = c}
Classes(A, class, C) == {a \in A : class[a] \in C}

NatOn(f, S) == IsFiniteSet(S) /\ \A x \in S : f[x] \in Nat

\* A set of subsets of a finite set has a smallest one: this stands in for
\* induction over finite sets.
LEMMA SmallestSubset ==
  ASSUME NEW S, IsFiniteSet(S), NEW T \in SUBSET SUBSET S, T # {}
  PROVE  \E m \in T : \A s \in T : s \subseteq m => s = m
<1> DEFINE W == StrictSubsetOrdering(S)
<1>1. IsWellFoundedOn(W, SUBSET S)
  BY FS_StrictSubsetOrderingWellFounded, FS_FiniteSubsetsOfFinite
<1> HIDE DEF W
<1>2. PICK m \in T : \A s \in T : <<s, m>> \notin W
  BY <1>1, WFMin
<1>3. ASSUME NEW s \in T, s \subseteq m, s # m  PROVE FALSE
  <2>1. s \in SUBSET S /\ m \in SUBSET S
    OBVIOUS
  <2>2. <<s, m>> \in W
    BY <1>3, <2>1 DEF W, StrictSubsetOrdering
  <2> QED
    BY <1>2, <2>2
<1> QED
  BY <1>3

LEMMA Disjoint ==
  ASSUME NEW A, NEW B, IsFiniteSet(A), IsFiniteSet(B), A \cap B = {}
  PROVE  /\ IsFiniteSet(A \cup B)
         /\ Cardinality(A) \in Nat /\ Cardinality(B) \in Nat
         /\ Cardinality(A \cup B) = Cardinality(A) + Cardinality(B)
<1>1. Cardinality(A) \in Nat /\ Cardinality(B) \in Nat
  BY FS_CardinalityType
<1>2. Cardinality(A \cap B) = 0
  BY FS_EmptySet
<1>3. IsFiniteSet(A \cup B)
      /\ Cardinality(A \cup B) = Cardinality(A) + Cardinality(B) - Cardinality(A \cap B)
  BY FS_Union
<1> QED
  BY <1>1, <1>2, <1>3

LEMMA BelowSplits ==
  ASSUME NEW f, NEW S, NEW x \in S
  PROVE  /\ Below(f, S) = Below(f, S \ {x}) \cup ({x} \X (1..f[x]))
         /\ Below(f, S \ {x}) \cap ({x} \X (1..f[x])) = {}
<1>1. Below(f, S) = Below(f, S \ {x}) \cup ({x} \X (1..f[x]))
  BY DEF Below
<1>2. ASSUME NEW p \in Below(f, S \ {x}), p \in {x} \X (1..f[x])  PROVE FALSE
  <2>1. PICK y \in S \ {x} : p \in {y} \X (1..f[y])
    BY DEF Below
  <2> QED
    BY <1>2, <2>1
<1> QED
  BY <1>1, <1>2

\* The pairs above one element are as many as the function says.
LEMMA Column ==
  ASSUME NEW x, NEW n \in Nat
  PROVE  IsFiniteSet({x} \X (1..n)) /\ Cardinality({x} \X (1..n)) = n
<1>1. IsFiniteSet({x}) /\ Cardinality({x}) = 1
  BY FS_Singleton
<1>2. IsFiniteSet(1..n) /\ Cardinality(1..n) = n
  BY FS_Interval
<1>3. IsFiniteSet({x} \X (1..n)) /\ Cardinality({x} \X (1..n)) = Cardinality({x}) * Cardinality(1..n)
  BY <1>1, <1>2, FS_Product
<1> QED
  BY <1>1, <1>2, <1>3

LEMMA BelowFinite ==
  ASSUME NEW f, NEW S, NatOn(f, S)
  PROVE  \A s \in SUBSET S : IsFiniteSet(Below(f, s))
<1> DEFINE T == {s \in SUBSET S : ~IsFiniteSet(Below(f, s))}
<1> SUFFICES ASSUME T # {}  PROVE FALSE
  OBVIOUS
<1>1. PICK m \in T : \A s \in T : s \subseteq m => s = m
  <2>1. T \in SUBSET SUBSET S /\ IsFiniteSet(S)
    BY DEF NatOn
  <2> HIDE DEF T
  <2> QED
    BY <2>1, SmallestSubset
<1>2. m # {}
  <2>1. Below(f, {}) = {}
    BY DEF Below
  <2> QED
    BY <2>1, FS_EmptySet
<1>3. PICK x : x \in m
  BY <1>2
<1>4. IsFiniteSet(Below(f, m \ {x}))
  BY <1>1, <1>3
<1>5. f[x] \in Nat
  BY <1>3 DEF NatOn
<1>6. IsFiniteSet({x} \X (1..f[x]))
  BY <1>5, Column
<1>7. Below(f, m) = Below(f, m \ {x}) \cup ({x} \X (1..f[x]))
  BY <1>3, BelowSplits
<1>8. IsFiniteSet(Below(f, m))
  <2> PICK A, B : A = Below(f, m \ {x}) /\ B = {x} \X (1..f[x])
    OBVIOUS
  <2>1. IsFiniteSet(A) /\ IsFiniteSet(B) /\ Below(f, m) = A \cup B
    BY <1>4, <1>6, <1>7
  <2>2. IsFiniteSet(A \cup B)
    BY <2>1, FS_Union
  <2> QED
    BY <2>1, <2>2
<1> QED
  BY <1>1, <1>8

LEMMA BelowSums ==
  ASSUME NEW f, NEW S, NatOn(f, S)
  PROVE  SumsUp([s \in SUBSET S |-> Cardinality(Below(f, s))], f, S)
<1> DEFINE g == [s \in SUBSET S |-> Cardinality(Below(f, s))]
<1>1. ASSUME NEW s \in SUBSET S, s = {}  PROVE g[s] = 0
  <2>1. Below(f, {}) = {}
    BY DEF Below
  <2> QED
    BY <1>1, <2>1, FS_EmptySet
<1>2. ASSUME NEW s \in SUBSET S, s # {}  PROVE g[s] = f[Some(s)] + g[s \ {Some(s)}]
  <2> PICK x : x = Some(s)
    OBVIOUS
  <2>1. x \in s
    BY <1>2 DEF Some
  <2>2. f[x] \in Nat
    BY <2>1 DEF NatOn
  <2>3. IsFiniteSet(Below(f, s \ {x})) /\ s \ {x} \in SUBSET S
    BY BelowFinite
  <2>4. IsFiniteSet({x} \X (1..f[x])) /\ Cardinality({x} \X (1..f[x])) = f[x]
    BY <2>2, Column
  <2>5. Cardinality(Below(f, s)) = Cardinality(Below(f, s \ {x})) + f[x] - Cardinality({})
    BY <2>1, <2>3, <2>4, BelowSplits, FS_Union
  <2>6. Cardinality(Below(f, s \ {x})) \in Nat
    BY <2>3, FS_CardinalityType
  <2> QED
    BY <2>2, <2>3, <2>5, <2>6, FS_EmptySet
<1> QED
  BY <1>1, <1>2 DEF SumsUp

LEMMA SumsUnique ==
  ASSUME NEW f, NEW S, IsFiniteSet(S), NEW g, NEW h, SumsUp(g, f, S), SumsUp(h, f, S)
  PROVE  g = h
<1> DEFINE T == {s \in SUBSET S : g[s] # h[s]}
<1>1. ASSUME T # {}  PROVE FALSE
  <2>1. PICK m \in T : \A s \in T : s \subseteq m => s = m
    <3>1. T \in SUBSET SUBSET S
      OBVIOUS
    <3> HIDE DEF T
    <3> QED
      BY <1>1, <3>1, SmallestSubset
  <2>2. CASE m = {}
    BY <2>1, <2>2 DEF SumsUp
  <2>3. CASE m # {}
    <3> PICK x : x = Some(m)
      OBVIOUS
    <3>1. x \in m
      BY <2>3 DEF Some
    <3>2. g[m \ {x}] = h[m \ {x}]
      BY <2>1, <3>1
    <3> QED
      BY <2>1, <2>3, <3>2 DEF SumsUp
  <2> QED
    BY <2>2, <2>3
<1> QED
  BY <1>1 DEF SumsUp

LEMMA TotalUnfolds ==
  ASSUME NEW f, NEW S, IsFiniteSet(S), NEW g, SumsUp(g, f, S)
  PROVE  Total(f, S) = g[S]
<1>1. \A h : SumsUp(h, f, S) => h = g
  BY SumsUnique
<1> QED
  BY <1>1 DEF SumsUp, Some, Total, MapThenSumSet, MapThenFoldSet

LEMMA TotalIs ==
  ASSUME NEW f, NEW S, NatOn(f, S)
  PROVE  IsFiniteSet(Below(f, S)) /\ Total(f, S) = Cardinality(Below(f, S))
<1> PICK g : g = [s \in SUBSET S |-> Cardinality(Below(f, s))]
  OBVIOUS
<1>1. SumsUp(g, f, S)
  BY BelowSums
<1>2. Total(f, S) = g[S]
  BY <1>1, TotalUnfolds DEF NatOn
<1> QED
  BY <1>2, BelowFinite

\* What the proofs use of sums.
LEMMA TotalNat ==
  ASSUME NEW f, NEW S, NatOn(f, S)
  PROVE  Total(f, S) \in Nat
BY TotalIs, FS_CardinalityType

LEMMA TotalNone ==
  ASSUME NEW f
  PROVE  Total(f, {}) = 0
<1>1. Below(f, {}) = {} /\ NatOn(f, {})
  BY FS_EmptySet DEF Below, NatOn
<1> QED
  BY <1>1, TotalIs, FS_EmptySet

LEMMA TotalSame ==
  ASSUME NEW f, NEW h, NEW S, NatOn(f, S), \A x \in S : h[x] = f[x]
  PROVE  Total(h, S) = Total(f, S)
<1>1. Below(h, S) = Below(f, S) /\ NatOn(h, S)
  BY DEF Below, NatOn
<1> QED
  BY <1>1, TotalIs

LEMMA TotalZero ==
  ASSUME NEW f, NEW S, IsFiniteSet(S), \A x \in S : f[x] = 0
  PROVE  Total(f, S) = 0
<1>1. Below(f, S) = {} /\ NatOn(f, S)
  BY DEF Below, NatOn
<1> QED
  BY <1>1, TotalIs, FS_EmptySet

LEMMA TotalOne ==
  ASSUME NEW f, NEW x, f[x] \in Nat
  PROVE  NatOn(f, {x}) /\ Total(f, {x}) = f[x]
<1>1. NatOn(f, {x})
  BY FS_Singleton DEF NatOn
<1>2. Below(f, {x}) = {x} \X (1..f[x])
  BY DEF Below
<1>3. Total(f, {x}) = Cardinality(Below(f, {x}))
  BY <1>1, TotalIs
<1>4. Cardinality({x} \X (1..f[x])) = f[x]
  BY Column
<1> QED
  BY <1>1, <1>2, <1>3, <1>4

\* The sum over two sets that have nothing in common.
LEMMA TotalUnion ==
  ASSUME NEW f, NEW S, NEW T, NatOn(f, S), NatOn(f, T), S \cap T = {}
  PROVE  NatOn(f, S \cup T) /\ Total(f, S \cup T) = Total(f, S) + Total(f, T)
<1>1. NatOn(f, S \cup T)
  BY FS_Union DEF NatOn
<1>2. Below(f, S \cup T) = Below(f, S) \cup Below(f, T)
  BY DEF Below
<1>3. Below(f, S) \cap Below(f, T) = {}
  BY DEF Below
<1>4. IsFiniteSet(Below(f, S)) /\ IsFiniteSet(Below(f, T))
  BY TotalIs
<1>5. Cardinality(Below(f, S) \cup Below(f, T)) = Cardinality(Below(f, S)) + Cardinality(Below(f, T))
  <2> PICK A, B : A = Below(f, S) /\ B = Below(f, T)
    OBVIOUS
  <2>1. IsFiniteSet(A) /\ IsFiniteSet(B) /\ A \cap B = {}
    BY <1>3, <1>4
  <2>2. Cardinality(A \cup B) = Cardinality(A) + Cardinality(B)
    BY <2>1, Disjoint
  <2> QED
    BY <2>2
<1>6. /\ Total(f, S) = Cardinality(Below(f, S)) /\ Total(f, T) = Cardinality(Below(f, T))
      /\ Total(f, S \cup T) = Cardinality(Below(f, S \cup T))
  BY <1>1, TotalIs
<1> QED
  BY <1>1, <1>2, <1>5, <1>6

LEMMA TotalPart ==
  ASSUME NEW f, NEW S, NEW T \in SUBSET S, NatOn(f, S)
  PROVE  NatOn(f, T) /\ Total(f, T) <= Total(f, S)
<1>1. NatOn(f, T) /\ NatOn(f, S \ T)
  BY FS_Subset DEF NatOn
<1>2. T \cup (S \ T) = S /\ T \cap (S \ T) = {}
  OBVIOUS
<1>3. Total(f, T \cup (S \ T)) = Total(f, T) + Total(f, S \ T)
  BY <1>1, <1>2, TotalUnion
<1> QED
  BY <1>1, <1>2, <1>3, TotalNat

\* One of the summands grows.
LEMMA TotalGrows ==
  ASSUME NEW f, NEW h, NEW S, NatOn(f, S), NEW x \in S, NEW n \in Nat,
         h[x] = f[x] + n, \A y \in S \ {x} : h[y] = f[y]
  PROVE  Total(h, S) = Total(f, S) + n
<1>1. /\ NatOn(f, S \ {x}) /\ NatOn(f, {x}) /\ NatOn(h, {x}) /\ NatOn(h, S \ {x})
      /\ f[x] \in Nat
  <2>1. IsFiniteSet(S \ {x}) /\ IsFiniteSet({x})
    BY FS_RemoveElement, FS_Singleton DEF NatOn
  <2>2. /\ \A y \in S \ {x} : f[y] \in Nat /\ h[y] \in Nat
        /\ \A y \in {x} : f[y] \in Nat /\ h[y] \in Nat
    BY DEF NatOn
  <2> QED
    BY <2>1, <2>2 DEF NatOn
<1>2. Total(f, {x}) = f[x] /\ Total(h, {x}) = f[x] + n
  <2>1. f[x] \in Nat /\ h[x] \in Nat
    BY <1>1
  <2>2. Total(f, {x}) = f[x]
    BY <2>1, TotalOne
  <2>3. Total(h, {x}) = h[x]
    BY <2>1, TotalOne
  <2> QED
    BY <2>2, <2>3
<1>3. (S \ {x}) \cup {x} = S /\ (S \ {x}) \cap {x} = {}
  OBVIOUS
<1>4. /\ Total(f, (S \ {x}) \cup {x}) = Total(f, S \ {x}) + Total(f, {x})
      /\ Total(h, (S \ {x}) \cup {x}) = Total(h, S \ {x}) + Total(h, {x})
  BY <1>1, <1>3, TotalUnion
<1>5. Total(h, S \ {x}) = Total(f, S \ {x}) /\ Total(f, S \ {x}) \in Nat
  BY <1>1, TotalSame, TotalNat
<1>6. Total(h, S) = Total(h, S \ {x}) + Total(h, {x})
      /\ Total(f, S) = Total(f, S \ {x}) + Total(f, {x})
  BY <1>3, <1>4
<1> QED
  BY <1>1, <1>2, <1>5, <1>6

\* Elements sorted by class: the classes add up to the elements that are in one.
LEMMA TotalOfClasses ==
  ASSUME NEW A, IsFiniteSet(A), NEW C, IsFiniteSet(C), NEW class,
         NEW f, \A c \in C : f[c] = Cardinality(Class(A, class, c))
  PROVE  Total(f, C) = Cardinality(Classes(A, class, C))
<1> USE DEF Class, Classes
<1> DEFINE In(s) == {a \in A : class[a] \in s}
           g == [s \in SUBSET C |-> Cardinality(In(s))]
<1>1. \A s : IsFiniteSet(In(s)) /\ Cardinality(In(s)) \in Nat
  BY FS_Subset, FS_CardinalityType
<1>2. ASSUME NEW s \in SUBSET C, s = {}  PROVE g[s] = 0
  <2>1. In(s) = {}
    BY <1>2
  <2> QED
    BY <2>1, FS_EmptySet
<1>3. ASSUME NEW s \in SUBSET C, s # {}  PROVE g[s] = f[Some(s)] + g[s \ {Some(s)}]
  <2> PICK c : c = Some(s)
    OBVIOUS
  <2>1. c \in s
    BY <1>3 DEF Some
  <2> PICK M, N : M = In(s \ {c}) /\ N = {a \in A : class[a] = c}
    OBVIOUS
  <2>2. IsFiniteSet(M) /\ IsFiniteSet(N) /\ M \cap N = {} /\ In(s) = M \cup N
    BY <1>1, <2>1, FS_Subset
  <2>3. Cardinality(M \cup N) = Cardinality(M) + Cardinality(N) /\ Cardinality(M) \in Nat
        /\ Cardinality(N) \in Nat
    BY <2>2, Disjoint
  <2>4. f[c] = Cardinality(N)
    BY <2>1
  <2>5. g[s \ {c}] = Cardinality(M)
    <3>1. s \ {c} \in SUBSET C
      OBVIOUS
    <3>2. g[s \ {c}] = Cardinality(In(s \ {c}))
      BY <3>1
    <3> HIDE DEF g
    <3> QED
      BY <3>2
  <2>6. g[s] = Cardinality(M \cup N)
    <3>1. g[s] = Cardinality(In(s))
      OBVIOUS
    <3> HIDE DEF g
    <3> QED
      BY <2>2, <3>1
  <2> HIDE DEF g
  <2> QED
    BY <2>3, <2>4, <2>5, <2>6
<1>4. SumsUp(g, f, C)
  BY <1>2, <1>3 DEF SumsUp
<1>5. g[C] = Cardinality(In(C))
  OBVIOUS
<1> HIDE DEF g
<1>6. Total(f, C) = g[C]
  BY <1>4, TotalUnfolds
<1> QED
  BY <1>5, <1>6
=============================================================================
