------------------------ MODULE CliqueAnalysis_proofs ------------------------
(* Theorems about CliqueAnalysis, for any power of two of threads, any nodes *)
(* and any communication matrices.                                          *)
EXTENDS CliqueAnalysis, SequenceTheorems, FiniteSetTheorems, TLAPS

-----------------------------------------------------------------------------
(* The inductive invariant, beyond the types.                              *)

\* The sizes a round may start with: half of each but 1 is one too.
Powers ==
  CHOOSE P \in SUBSET (1 .. NTHREADS) :
    NTHREADS \in P /\ \A n \in P : n = 1 \/ \E m \in P : n = 2 * m

Reuse == {c \in Thread : flag[c] = "C_REUSE"}
InUse == {c \in Thread : flag[c] # "C_INVALID"}

\* At the head of the outer loop every clique in use is valid, and their number is a
\* power of two; within a round the valid cliques are used up in pairs.
CountInv ==
  pc # "done" =>
    /\ cliques_size = Cardinality(Valid)
    /\ pc = "outer" => Reuse = {} /\ Cardinality(Valid) \in Powers
    /\ pc = "inner" =>
         \E m \in Powers : Cardinality(Valid) + 2 * Cardinality(Reuse) = 2 * m

\* A thread is at one place of one clique in use.
OwnedOnce ==
  \A c, d \in InUse : \A i \in DOMAIN pids[c], j \in DOMAIN pids[d] :
    pids[c][i] = pids[d][j] => c = d /\ i = j

Covered == \A t \in Thread : \E c \in InUse : \E i \in DOMAIN pids[c] : pids[c][i] = t

PlaceInv == pc # "done" => OwnedOnce /\ Covered

\* In a round the valid cliques have one size and the merged ones twice that; the sizes
\* add up to the number of threads.
SizeInv ==
  pc # "done" =>
    \E s \in Nat \ {0} :
      /\ \A c \in Valid : Len(pids[c]) = s
      /\ \A c \in Reuse : Len(pids[c]) = 2 * s
      /\ s * (Cardinality(Valid) + 2 * Cardinality(Reuse)) = NTHREADS

\* The threads that thread a exchanges something with, and a itself.
Group(m, a) == {a} \cup {b \in Thread : m[a][b] > 0}

\* The cliques of S, with members q, whose first member belongs to the threads G.
OfGroup(S, q, G) == {c \in S : q[c][1] \in G}

\* If the threads fall into groups, a clique stays within one of them; all groups have the
\* same number x of cliques, counted like those of CountInv, and within a round it is even.
GroupInv ==
  pc # "done" /\ Clustered(default_matrix) =>
    /\ \A c \in InUse : \A i \in DOMAIN pids[c] :
         Group(default_matrix, pids[c][i]) = Group(default_matrix, pids[c][1])
    /\ \E x \in Nat :
         /\ x * num_nodes = Cardinality(Valid) + 2 * Cardinality(Reuse)
         /\ \A a \in Thread :
              Cardinality(OfGroup(Valid, pids, Group(default_matrix, a)))
                + 2 * Cardinality(OfGroup(Reuse, pids, Group(default_matrix, a))) = x
         /\ pc = "inner" => \E y \in Nat : x = 2 * y

IInv == TypeOK /\ CountInv /\ PlaceInv /\ SizeInv /\ GroupInv

-----------------------------------------------------------------------------
(* Numbers and sets.                                                       *)

\* The threads, which are as many as their name says.
LEMMA ThreadFacts ==
  /\ Thread \subseteq Nat /\ IsFiniteSet(Thread) /\ Cardinality(Thread) = NTHREADS
  /\ NULL \notin Thread /\ NTHREADS \in Nat \ {0}
<1>1. NTHREADS \in Nat \ {0} /\ NULL \notin Thread
  BY ThreadAssumption
<1>2. IsFiniteSet(0 .. NTHREADS - 1) /\ Cardinality(0 .. NTHREADS - 1) = NTHREADS
  BY <1>1, FS_Interval
<1> QED BY <1>1, <1>2 DEF Thread

\* The powers of two up to NTHREADS.
LEMMA PowersFacts ==
  /\ Powers \subseteq 1 .. NTHREADS /\ NTHREADS \in Powers
  /\ \A n \in Powers : n = 1 \/ \E m \in Powers : n = 2 * m
BY PowerAssumption DEF Powers

\* A set of numbers has a least one.
LEMMA Least ==
  ASSUME NEW T \in SUBSET Nat, T # {}
  PROVE  \E x \in T : \A y \in T : x <= y
<1>1. PICK x \in T : \A y \in T : ~ (<<y, x>> \in OpToRel(<, Nat))
  BY NatLessThanWellFounded, WFMin
<1>2. \A y \in T : ~ (y < x)
  BY <1>1 DEF OpToRel
<1>3. \A y \in T : y \in Nat
  OBVIOUS
<1> QED BY <1>2, <1>3

\* A set of threads has a first one.
LEMMA FirstThread ==
  ASSUME NEW S \in SUBSET Thread, S # {}
  PROVE  \E c \in S : \A d \in S : c <= d
<1>1. S \in SUBSET Nat
  BY ThreadFacts
<1> QED BY <1>1, Least

\* A number is made of its quotient and its remainder.
LEMMA Division ==
  ASSUME NEW c \in Nat \ {0}, NEW n \in Nat
  PROVE  /\ n \div c \in Nat /\ n % c \in 0 .. c - 1
         /\ n = c * (n \div c) + (n % c)
OBVIOUS

\* And in one way only.
LEMMA Quotient ==
  ASSUME NEW c \in Nat \ {0}, NEW q \in Nat, NEW r \in 0 .. c - 1
  PROVE  (c * q + r) \div c = q /\ (c * q + r) % c = r
<1> DEFINE n == c * q + r
<1>1. n \in Nat
  OBVIOUS
<1>2. PICK k \in Nat, e \in 0 .. c - 1 : k = n \div c /\ e = n % c /\ n = c * k + e
  BY <1>1, Division
<1>3. ~ (k < q)
  <2>1. SUFFICES ASSUME k < q PROVE FALSE
    OBVIOUS
  <2>2. PICK d \in Nat : q = k + 1 + d
    <3>1. q - (k + 1) \in Nat /\ q = k + 1 + (q - (k + 1))
      BY <2>1
    <3> QED BY <3>1
  <2>3. c * q = c * k + c + c * d /\ c * d \in Nat /\ c * k \in Nat
    BY <2>2
  <2> QED BY <1>2, <2>3
<1>4. ~ (q < k)
  <2>1. SUFFICES ASSUME q < k PROVE FALSE
    OBVIOUS
  <2>2. PICK d \in Nat : k = q + 1 + d
    <3>1. k - (q + 1) \in Nat /\ k = q + 1 + (k - (q + 1))
      BY <2>1
    <3> QED BY <3>1
  <2>3. c * k = c * q + c + c * d /\ c * d \in Nat /\ c * q \in Nat
    BY <2>2
  <2> QED BY <1>2, <2>3
<1>5. k = q
  BY <1>3, <1>4
<1>6. e = r
  BY <1>2, <1>5
<1> QED BY <1>2, <1>5, <1>6

\* A factor of a power of two is one or even.
LEMMA FactorEven ==
  ASSUME NEW n \in Powers, NEW a \in Nat, NEW b \in Nat, n = a * b, b # 1
  PROVE  \E y \in Nat : b = 2 * y
<1> DEFINE T == {k \in Powers : \E d \in Nat : k = d * b}
<1>1. SUFFICES ASSUME ~ \E y \in Nat : b = 2 * y PROVE FALSE
  OBVIOUS
<1>2. PICK z \in Nat : b = 2 * z + 1
  <2>1. b = 2 * (b \div 2) + (b % 2) /\ b \div 2 \in Nat /\ b % 2 \in 0 .. 1
    OBVIOUS
  <2>2. b % 2 # 0
    BY <1>1, <2>1
  <2> QED BY <2>1, <2>2
<1>3. T \in SUBSET Nat /\ T # {}
  <2>1. n \in T
    OBVIOUS
  <2>2. \A k \in Powers : k \in Nat
    BY PowersFacts
  <2>3. \A k \in T : k \in Nat
    BY <2>2
  <2> HIDE DEF T
  <2> QED BY <2>1, <2>3
<1>4. PICK k \in T : \A j \in T : k <= j
  <2> HIDE DEF T
  <2> QED BY <1>3, Least
<1>5. PICK d \in Nat : k \in Powers /\ k = d * b
  OBVIOUS
<1>6. k \in Nat \ {0}
  BY <1>5, PowersFacts
<1>7. k # 1
  BY <1>2, <1>5
<1>8. PICK j \in Powers : k = 2 * j
  BY <1>5, <1>7, PowersFacts
<1>9. j \in Nat \ {0}
  BY PowersFacts
<1>10. PICK e \in Nat : d = 2 * e
  <2>1. d = 2 * (d \div 2) + (d % 2) /\ d \div 2 \in Nat /\ d % 2 \in 0 .. 1
    OBVIOUS
  <2>2. d % 2 # 1
    <3>1. SUFFICES ASSUME d % 2 = 1 PROVE FALSE
      OBVIOUS
    <3>2. PICK w \in Nat : d = 2 * w + 1
      BY <2>1, <3>1
    <3>3. d * b = 2 * (2 * (w * z) + w + z) + 1 /\ w * z \in Nat
      BY <1>2, <3>2
    <3>4. 2 * j = 2 * (2 * (w * z) + w + z) + 1
      BY <1>5, <1>8, <3>3
    <3> QED BY <1>9, <3>3, <3>4
  <2> QED BY <2>1, <2>2
<1>11. 2 * j = 2 * (e * b) /\ e * b \in Nat
  BY <1>5, <1>8, <1>10
<1>12. j = e * b
  BY <1>9, <1>11
<1>13. j \in T
  BY <1>12
<1> HIDE DEF T
<1>14. k <= j
  BY <1>4, <1>13
<1> QED BY <1>8, <1>9, <1>14

\* A finite set without two of its elements.
LEMMA TwoRemoved ==
  ASSUME NEW S, IsFiniteSet(S), NEW c \in S, NEW d \in S, c # d
  PROVE  Cardinality((S \ {c}) \ {d}) = Cardinality(S) - 2
<1>1. PICK D : D = S \ {c}
  OBVIOUS
<1>2. d \in D
  BY <1>1
<1>3. IsFiniteSet(D) /\ Cardinality(D) = Cardinality(S) - 1
  BY <1>1, FS_RemoveElement
<1>4. Cardinality(D \ {d}) = Cardinality(D) - 1
  BY <1>2, <1>3, FS_RemoveElement
<1>5. Cardinality(S) \in Nat
  BY FS_CardinalityType
<1> QED BY <1>1, <1>3, <1>4, <1>5

\* A set listed once each has as many members as there are places.
LEMMA Listed ==
  ASSUME NEW A, NEW T, NEW q, IsFiniteSet(A),
         \A i \in A : q[i] \in T, \A i, j \in A : q[i] = q[j] => i = j,
         \A t \in T : \E i \in A : q[i] = t
  PROVE  Cardinality(T) = Cardinality(A)
<1> DEFINE f == [i \in A |-> q[i]]
<1>1. f \in [A -> T] /\ \A i \in A : f[i] = q[i]
  OBVIOUS
<1> HIDE DEF f
<1>2. f \in Bijection(A, T)
  BY <1>1 DEF Bijection, Injection, IsInjective, Surjection
<1>3. ExistsBijection(A, T)
  BY <1>2 DEF ExistsBijection
<1> QED BY <1>3, FS_Bijection

-----------------------------------------------------------------------------
(* The sum of a function, which clique_distance takes.                     *)

\* A function on the sets of S that adds up f, taking one element after the other.
AddsUp(g, f, D) ==
  \A s \in D : g[s] = IF s = {} THEN 0
                      ELSE f[CHOOSE x \in s : TRUE] + g[s \ {CHOOSE x \in s : TRUE}]

\* What is left of a finite set when an element is taken.
LEMMA Taken ==
  ASSUME NEW S, IsFiniteSet(S), NEW s \in SUBSET S
  PROVE  /\ IsFiniteSet(s) /\ Cardinality(s) \in Nat /\ Cardinality(s) <= Cardinality(S)
         /\ s = {} <=> Cardinality(s) = 0
         /\ s # {} => LET x == CHOOSE x \in s : TRUE
                      IN  /\ x \in s /\ s \ {x} \in SUBSET S
                          /\ Cardinality(s \ {x}) = Cardinality(s) - 1
<1>1. IsFiniteSet(s) /\ Cardinality(s) \in Nat /\ Cardinality(s) <= Cardinality(S)
  BY FS_Subset, FS_CardinalityType
<1>2. s = {} <=> Cardinality(s) = 0
  BY <1>1, FS_EmptySet
<1>3. ASSUME s # {}
      PROVE  \A x : x = (CHOOSE y \in s : TRUE) =>
               /\ x \in s /\ s \ {x} \in SUBSET S
               /\ Cardinality(s \ {x}) = Cardinality(s) - 1
  <2> SUFFICES ASSUME NEW x, x = CHOOSE y \in s : TRUE
               PROVE  /\ x \in s /\ s \ {x} \in SUBSET S
                      /\ Cardinality(s \ {x}) = Cardinality(s) - 1
    OBVIOUS
  <2>1. x \in s
    BY <1>3
  <2> QED BY <1>1, <2>1, FS_RemoveElement
<1> QED BY <1>1, <1>2, <1>3

\* Such a function exists.
LEMMA AddingUp ==
  ASSUME NEW S, IsFiniteSet(S), NEW f \in [S -> Nat]
  PROVE  \E g \in [SUBSET S -> Nat] : AddsUp(g, f, SUBSET S)
<1> DEFINE Small(k) == {s \in SUBSET S : Cardinality(s) <= k}
           Exists(k) == \E g \in [Small(k) -> Nat] : AddsUp(g, f, Small(k))
           T == {k \in Nat : ~ Exists(k)}
<1>1. ASSUME NEW k \in Nat, \A j \in Nat : j < k => Exists(j)
      PROVE  Exists(k)
  <2>1. CASE k = 0
    <3>1. \A s \in Small(0) : s = {}
      <4> SUFFICES ASSUME NEW s \in SUBSET S, Cardinality(s) <= 0 PROVE s = {}
        OBVIOUS
      <4>1. Cardinality(s) \in Nat /\ (s = {} <=> Cardinality(s) = 0)
        BY Taken
      <4> QED BY <4>1
    <3> DEFINE g == [s \in Small(0) |-> 0]
    <3>2. g \in [Small(0) -> Nat] /\ \A s \in Small(0) : g[s] = 0
      OBVIOUS
    <3> HIDE DEF g, Small
    <3>3. AddsUp(g, f, Small(0))
      BY <3>1, <3>2 DEF AddsUp
    <3> QED BY <2>1, <3>2, <3>3
  <2>2. CASE k # 0
    <3>1. PICK j \in Nat : k = j + 1
      <4>1. k - 1 \in Nat /\ k = (k - 1) + 1
        BY <2>2
      <4> QED BY <4>1
    <3>2. j < k
      BY <3>1
    <3>3. PICK h \in [Small(j) -> Nat] : AddsUp(h, f, Small(j))
      <4> HIDE DEF Small
      <4> QED BY <1>1, <3>2
    <3> DEFINE g == [s \in Small(k) |-> IF s = {} THEN 0
                       ELSE f[CHOOSE x \in s : TRUE] + h[s \ {CHOOSE x \in s : TRUE}]]
    <3>4. ASSUME NEW s \in Small(k), s # {}
          PROVE  /\ (CHOOSE x \in s : TRUE) \in S
                 /\ s \ {CHOOSE x \in s : TRUE} \in Small(j)
                 /\ s \ {CHOOSE x \in s : TRUE} \in Small(k)
      <4>1. PICK x : x = CHOOSE y \in s : TRUE
        OBVIOUS
      <4>2. s \in SUBSET S /\ Cardinality(s) <= k
        OBVIOUS
      <4>3. /\ Cardinality(s) \in Nat /\ x \in s /\ s \ {x} \in SUBSET S
            /\ Cardinality(s \ {x}) = Cardinality(s) - 1
        BY <3>4, <4>1, <4>2, Taken
      <4>4. Cardinality(s \ {x}) <= j /\ Cardinality(s \ {x}) <= k
        BY <3>1, <4>2, <4>3
      <4> QED BY <4>1, <4>2, <4>3, <4>4
    <3>5. g \in [Small(k) -> Nat]
      <4> HIDE DEF Small
      <4>1. ASSUME NEW s \in Small(k), s # {}
            PROVE  f[CHOOSE x \in s : TRUE] + h[s \ {CHOOSE x \in s : TRUE}] \in Nat
        <5>1. f[CHOOSE x \in s : TRUE] \in Nat /\ h[s \ {CHOOSE x \in s : TRUE}] \in Nat
          BY <3>3, <3>4, <4>1
        <5> QED BY <5>1
      <4> QED BY <4>1
    <3>6. \A s \in Small(j) : g[s] = h[s]
      <4>1. Small(j) \subseteq Small(k)
        <5>1. ASSUME NEW s \in SUBSET S, Cardinality(s) <= j PROVE Cardinality(s) <= k
          <6>1. Cardinality(s) \in Nat
            BY Taken
          <6> QED BY <3>1, <5>1, <6>1
        <5> QED BY <5>1
      <4> HIDE DEF Small
      <4> QED BY <3>3, <4>1 DEF AddsUp
    <3>7. AddsUp(g, f, Small(k))
      <4>1. \A s \in Small(k) : g[s] = IF s = {} THEN 0
              ELSE f[CHOOSE x \in s : TRUE] + h[s \ {CHOOSE x \in s : TRUE}]
        OBVIOUS
      <4> HIDE DEF g, Small
      <4> QED BY <3>4, <3>6, <4>1 DEF AddsUp
    <3> HIDE DEF g, Small
    <3> QED BY <3>5, <3>7
  <2> QED BY <2>1, <2>2
<1>2. T = {}
  <2>1. SUFFICES ASSUME T # {} PROVE FALSE
    OBVIOUS
  <2>2. T \in SUBSET Nat
    OBVIOUS
  <2>3. PICK k \in T : \A j \in T : k <= j
    <3> HIDE DEF T
    <3> QED BY <2>1, <2>2, Least
  <2>4. k \in Nat /\ ~ Exists(k)
    OBVIOUS
  <2> HIDE DEF Exists
  <2>5. \A j \in Nat : j < k => Exists(j)
    BY <2>3, <2>4
  <2> QED BY <1>1, <2>4, <2>5
<1>3. Cardinality(S) \in Nat /\ Small(Cardinality(S)) = SUBSET S
  <2>1. Cardinality(S) \in Nat
    BY FS_CardinalityType
  <2>2. \A s \in SUBSET S : Cardinality(s) <= Cardinality(S)
    BY Taken
  <2> QED BY <2>1, <2>2
<1>4. Exists(Cardinality(S))
  <2> HIDE DEF Exists
  <2> QED BY <1>2, <1>3
<1> HIDE DEF Small
<1> QED BY <1>3, <1>4

\* The sum of finitely many numbers is a number, which is zero if and only if all of them are.
LEMMA SumOfRates ==
  ASSUME NEW S, IsFiniteSet(S), NEW f \in [S -> Nat]
  PROVE  /\ FoldFunction(+, 0, f) \in Nat
         /\ FoldFunction(+, 0, f) = 0 <=> \A x \in S : f[x] = 0
<1> DEFINE Sums(h) == h = [s \in SUBSET S |-> IF s = {} THEN 0
                        ELSE f[CHOOSE x \in s : TRUE] + h[s \ {CHOOSE x \in s : TRUE}]]
<1>1. PICK g \in [SUBSET S -> Nat] : AddsUp(g, f, SUBSET S)
  BY AddingUp
<1>2. PICK iter : iter = CHOOSE h : Sums(h)
  OBVIOUS
<1>3. FoldFunction(+, 0, f) = iter[S]
  BY <1>2 DEF FoldFunction, FoldFunctionOnSet, MapThenFoldSet
<1>4. AddsUp(iter, f, SUBSET S)
  <2>1. Sums(g)
    BY <1>1 DEF AddsUp
  <2>2. Sums(iter)
    <3> HIDE DEF Sums
    <3> QED BY <1>2, <2>1
  <2> QED BY <2>2 DEF AddsUp
<1> DEFINE Right(s) == iter[s] \in Nat /\ (iter[s] = 0 <=> \A x \in s : f[x] = 0)
           T == {k \in Nat : \E s \in SUBSET S : Cardinality(s) = k /\ ~ Right(s)}
<1>5. ASSUME NEW s \in SUBSET S,
             \A t \in SUBSET S : Cardinality(t) < Cardinality(s) => Right(t)
      PROVE  Right(s)
  <2>1. CASE s = {}
    BY <1>4, <2>1 DEF AddsUp
  <2>2. CASE s # {}
    <3>1. PICK x : x = CHOOSE y \in s : TRUE
      OBVIOUS
    <3>2. /\ Cardinality(s) \in Nat /\ x \in s /\ s \ {x} \in SUBSET S
          /\ Cardinality(s \ {x}) = Cardinality(s) - 1
      BY <2>2, <3>1, Taken
    <3>3. iter[s] = f[x] + iter[s \ {x}]
      BY <1>4, <2>2, <3>1 DEF AddsUp
    <3>4. Right(s \ {x})
      <4>1. Cardinality(s \ {x}) < Cardinality(s)
        BY <3>2
      <4> HIDE DEF Right
      <4> QED BY <1>5, <3>2, <4>1
    <3>5. f[x] \in Nat /\ iter[s \ {x}] \in Nat
      BY <3>2, <3>4
    <3>6. iter[s] \in Nat /\ (iter[s] = 0 <=> f[x] = 0 /\ iter[s \ {x}] = 0)
      BY <3>3, <3>5
    <3>7. (\A y \in s : f[y] = 0) <=> f[x] = 0 /\ \A y \in s \ {x} : f[y] = 0
      BY <3>2
    <3> QED BY <3>4, <3>6, <3>7
  <2> QED BY <2>1, <2>2
<1>6. T = {}
  <2>1. SUFFICES ASSUME T # {} PROVE FALSE
    OBVIOUS
  <2>2. T \in SUBSET Nat
    OBVIOUS
  <2>3. PICK k \in T : \A j \in T : k <= j
    <3> HIDE DEF T
    <3> QED BY <2>1, <2>2, Least
  <2>4. PICK s \in SUBSET S : Cardinality(s) = k /\ ~ Right(s)
    BY <2>3
  <2> HIDE DEF Right
  <2>5. \A t \in SUBSET S : Cardinality(t) < Cardinality(s) => Right(t)
    <3> SUFFICES ASSUME NEW t \in SUBSET S, Cardinality(t) < Cardinality(s), ~ Right(t)
                 PROVE  FALSE
      OBVIOUS
    <3>1. Cardinality(t) \in Nat /\ Cardinality(s) \in Nat
      BY Taken
    <3>2. Cardinality(t) \in T
      BY <3>1
    <3> HIDE DEF T
    <3> QED BY <2>3, <2>4, <3>1, <3>2
  <2> QED BY <1>5, <2>4, <2>5
<1>7. Right(S)
  <2>1. Cardinality(S) \in Nat
    BY FS_CardinalityType
  <2> HIDE DEF Right
  <2> QED BY <1>6, <2>1
<1> QED BY <1>3, <1>7

-----------------------------------------------------------------------------
(* Merging.                                                                *)

\* The sets of cliques are finite.
LEMMA SetFacts ==
  /\ Valid \subseteq Thread /\ IsFiniteSet(Valid) /\ Cardinality(Valid) \in Nat
  /\ Reuse \subseteq Thread /\ IsFiniteSet(Reuse) /\ Cardinality(Reuse) \in Nat
  /\ Cardinality(Valid) <= NTHREADS /\ Cardinality(Reuse) <= NTHREADS
<1>1. Valid \in SUBSET Thread /\ Reuse \in SUBSET Thread
  BY DEF Valid, Reuse
<1> QED BY <1>1, ThreadFacts, FS_Subset, FS_CardinalityType

\* A round ends with no valid clique counted, and the merged ones are counted then.
LEMMA ResetFacts ==
  ASSUME TypeOK, reset_cliques
  PROVE  /\ pc = "inner" /\ pc' = "outer"
         /\ cliques_size = 0 /\ cliques_size' = Cardinality(Reuse)
         /\ flag' = [c \in Thread |-> IF flag[c] = "C_REUSE" THEN "C_VALID" ELSE flag[c]]
         /\ UNCHANGED <<default_matrix, pids, threads_chosen>>
<1>1. /\ pc = "inner" /\ pc' = "outer" /\ cliques_size <= 0
      /\ cliques_size' = cliques_size + Cardinality(Reuse)
      /\ flag' = [c \in Thread |-> IF flag[c] = "C_REUSE" THEN "C_VALID" ELSE flag[c]]
      /\ UNCHANGED <<default_matrix, pids, threads_chosen>>
  BY DEF reset_cliques, Reuse
<1>2. cliques_size \in Nat
  BY DEF TypeOK
<1>3. cliques_size = 0 /\ Cardinality(Reuse) \in Nat
  BY <1>1, <1>2, SetFacts
<1>4. cliques_size' = Cardinality(Reuse)
  BY <1>1, <1>3
<1> QED BY <1>1, <1>3, <1>4

\* What holds of the first valid clique and of its neighbor.
LEMMA FirstValid ==
  ASSUME Valid # {}
  PROVE  get_first_valid \in Valid
<1>1. \E c \in Valid : \A d \in Valid : c <= d
  BY SetFacts, FirstThread
<1> QED BY <1>1 DEF get_first_valid

\* While a round goes on, two cliques at least are valid.
LEMMA TwoValid ==
  ASSUME CountInv, pc = "inner", cliques_size > 0
  PROVE  Cardinality(Valid) >= 2
<1>1. PICK m \in Powers : Cardinality(Valid) + 2 * Cardinality(Reuse) = 2 * m
  BY DEF CountInv
<1>2. Cardinality(Valid) \in Nat /\ Cardinality(Reuse) \in Nat /\ m \in Nat
  BY SetFacts, PowersFacts
<1>3. Cardinality(Valid) # 1
  BY <1>1, <1>2
<1>4. Cardinality(Valid) > 0
  BY DEF CountInv
<1> QED BY <1>2, <1>3, <1>4

\* What merging does while a round goes on: a valid clique is joined by the nearest of the
\* others.
LEMMA MergeStep ==
  ASSUME TypeOK, CountInv, Merge
  PROVE  \E c1 \in Valid, c2 \in Valid :
           /\ c1 # c2
           /\ \A d \in Valid \ {c1} : clique_distance(c1, d) <= clique_distance(c1, c2)
           /\ pids' = [pids EXCEPT ![c1] = @ \o pids[c2]]
           /\ flag' = [flag EXCEPT ![c1] = "C_REUSE", ![c2] = "C_INVALID"]
           /\ cliques_size' = cliques_size - 2
<1> DEFINE c1 == get_first_valid
<1>1. pc = "inner" /\ cliques_size > 0
  BY DEF Merge
<1>2. PICK c2 \in find_neighbor(c1) : merge_clique(c1, c2)
  BY DEF Merge
<1>3. Cardinality(Valid) >= 2
  BY <1>1, TwoValid
<1>4. Valid # {} /\ Valid \ {c1} # {}
  <2>1. Valid # {}
    BY <1>3, FS_EmptySet
  <2>2. c1 \in Valid
    BY <2>1, FirstValid
  <2>3. Cardinality(Valid \ {c1}) = Cardinality(Valid) - 1
    BY <2>2, SetFacts, FS_RemoveElement
  <2>4. Cardinality(Valid \ {c1}) # 0
    BY <1>3, <2>3, SetFacts
  <2> QED BY <2>1, <2>4, FS_EmptySet
<1>5. c1 \in Valid /\ c1 # NULL
  BY <1>4, FirstValid, SetFacts, ThreadFacts
<1>6. /\ c2 \in Valid /\ c2 # c1 /\ c2 # NULL
      /\ \A d \in Valid \ {c1} : clique_distance(c1, d) <= clique_distance(c1, c2)
  BY <1>2, <1>4, <1>5, SetFacts, ThreadFacts DEF find_neighbor
<1>7. flag[c1] = "C_VALID" /\ flag[c2] = "C_VALID"
  BY <1>5, <1>6 DEF Valid
<1>8. /\ pids' = [pids EXCEPT ![c1] = @ \o pids[c2]]
      /\ flag' = [flag EXCEPT ![c1] = "C_REUSE", ![c2] = "C_INVALID"]
      /\ cliques_size' = cliques_size - 2
  BY <1>2, <1>5, <1>6, <1>7 DEF merge_clique
<1> QED BY <1>5, <1>6, <1>8

-----------------------------------------------------------------------------
(* The counter.                                                            *)

\* Every step keeps the counter.
LEMMA CountStep ==
  ASSUME TypeOK, CountInv, [Next]_vars
  PROVE  CountInv'
<1> DEFINE v == Cardinality(Valid)
           r == Cardinality(Reuse)
<1>1. v \in Nat /\ r \in Nat
  BY SetFacts
<1>2. CASE init_cliques
  <2>1. /\ flag' = [c \in Thread |-> "C_VALID"] /\ cliques_size' = NTHREADS /\ pc' = "outer"
    BY <1>2 DEF init_cliques
  <2>2. Valid' = Thread /\ Reuse' = {}
    BY <2>1 DEF Valid, Reuse
  <2>3. Cardinality(Thread) = NTHREADS /\ NTHREADS \in Powers
    BY ThreadFacts, PowersFacts
  <2> QED BY <2>1, <2>2, <2>3 DEF CountInv
<1>3. CASE NextRound
  <2>1. pc = "outer" /\ cliques_size > num_nodes /\ pc' = "inner" /\ UNCHANGED <<flag, cliques_size>>
    BY <1>3 DEF NextRound
  <2>2. Valid' = Valid /\ Reuse' = Reuse
    BY <2>1 DEF Valid, Reuse
  <2>3. cliques_size = v /\ Reuse = {} /\ v \in Powers
    BY <2>1 DEF CountInv
  <2>4. v # 1
    BY <2>1, <2>3, NodeAssumption
  <2>5. PICK m \in Powers : v = 2 * m
    BY <2>3, <2>4, PowersFacts
  <2>6. r = 0
    BY <2>3, FS_EmptySet
  <2>7. v + 2 * r = 2 * m
    BY <1>1, <2>5, <2>6
  <2> QED BY <2>1, <2>2, <2>3, <2>7 DEF CountInv
<1>4. CASE Merge
  <2>1. PICK c1 \in Valid, c2 \in Valid :
          /\ c1 # c2
          /\ flag' = [flag EXCEPT ![c1] = "C_REUSE", ![c2] = "C_INVALID"]
          /\ cliques_size' = cliques_size - 2
    BY <1>4, MergeStep
  <2>2. pc = "inner" /\ pc' = "inner"
    BY <1>4 DEF Merge
  <2>3. c1 \in Thread /\ c2 \in Thread /\ c1 \notin Reuse
    BY SetFacts DEF Valid, Reuse
  <2>4. Valid' = (Valid \ {c1}) \ {c2} /\ Reuse' = Reuse \cup {c1}
    BY <2>1, <2>3 DEF TypeOK, Valid, Reuse
  <2>6. Cardinality((Valid \ {c1}) \ {c2}) = v - 2
    BY <2>1, SetFacts, TwoRemoved
  <2>7. Cardinality(Reuse \cup {c1}) = r + 1
    BY <2>3, SetFacts, FS_AddElement
  <2>8. cliques_size = v
    BY <2>2 DEF CountInv
  <2>9. PICK m \in Powers : v + 2 * r = 2 * m
    BY <2>2 DEF CountInv
  <2>10. (v - 2) + 2 * (r + 1) = 2 * m
    BY <1>1, <2>9
  <2> QED BY <2>1, <2>2, <2>4, <2>6, <2>7, <2>8, <2>10 DEF CountInv
<1>5. CASE reset_cliques
  <2>1. /\ pc = "inner" /\ cliques_size = 0 /\ pc' = "outer" /\ cliques_size' = r
        /\ flag' = [c \in Thread |-> IF flag[c] = "C_REUSE" THEN "C_VALID" ELSE flag[c]]
    BY <1>5, ResetFacts
  <2>2. v = 0
    BY <2>1 DEF CountInv
  <2>3. Valid = {}
    BY <2>2, SetFacts, FS_EmptySet
  <2>4. Valid' = Reuse /\ Reuse' = {}
    BY <2>1, <2>3 DEF Valid, Reuse
  <2>5. PICK m \in Powers : v + 2 * r = 2 * m
    BY <2>1 DEF CountInv
  <2>6. r = m
    BY <1>1, <2>2, <2>5, PowersFacts
  <2> QED BY <2>1, <2>4, <2>5, <2>6 DEF CountInv
<1>6. CASE calculate_threads_chosen
  BY <1>6 DEF calculate_threads_chosen, CountInv
<1>7. CASE UNCHANGED vars
  BY <1>7 DEF vars, CountInv, Valid, Reuse
<1> QED BY <1>2, <1>3, <1>4, <1>5, <1>6, <1>7 DEF Next

-----------------------------------------------------------------------------
(* The places of the threads.                                              *)

\* The members of a clique, and those of two cliques put together.
LEMMA Members ==
  ASSUME TypeOK, NEW c \in Thread
  PROVE  /\ pids[c] \in Seq(Thread) /\ Len(pids[c]) \in Nat
         /\ DOMAIN pids[c] = 1 .. Len(pids[c])
         /\ \A i \in DOMAIN pids[c] : pids[c][i] \in Thread
<1>1. pids[c] \in Seq(Thread)
  BY DEF TypeOK
<1>2. Len(pids[c]) \in Nat /\ DOMAIN pids[c] = 1 .. Len(pids[c])
  BY <1>1, LenProperties
<1>3. \A i \in DOMAIN pids[c] : pids[c][i] \in Thread
  BY <1>1, <1>2, ElementOfSeq
<1> QED BY <1>1, <1>2, <1>3

LEMMA Joined ==
  ASSUME NEW S, NEW a \in Seq(S), NEW b \in Seq(S), NEW q, q = a \o b
  PROVE  /\ q \in Seq(S) /\ DOMAIN q \subseteq Int /\ Len(a) \in Int
         /\ \A i \in DOMAIN q :
              \/ i \in DOMAIN a /\ q[i] = a[i]
              \/ i \notin DOMAIN a /\ i - Len(a) \in DOMAIN b /\ q[i] = b[i - Len(a)]
         /\ \A i \in DOMAIN a : i \in DOMAIN q /\ q[i] = a[i]
         /\ \A j \in DOMAIN b : Len(a) + j \in DOMAIN q /\ q[Len(a) + j] = b[j]
<1>1. /\ Len(a) \in Nat /\ DOMAIN a = 1 .. Len(a)
      /\ Len(b) \in Nat /\ DOMAIN b = 1 .. Len(b)
  BY LenProperties
<1>2. /\ q \in Seq(S) /\ Len(q) = Len(a) + Len(b)
      /\ \A i \in 1 .. Len(a) + Len(b) : q[i] = IF i <= Len(a) THEN a[i] ELSE b[i - Len(a)]
  BY ConcatProperties
<1>3. DOMAIN q = 1 .. Len(a) + Len(b)
  BY <1>2, LenProperties
<1>4. ASSUME NEW i \in DOMAIN q
      PROVE  \/ i \in DOMAIN a /\ q[i] = a[i]
             \/ i \notin DOMAIN a /\ i - Len(a) \in DOMAIN b /\ q[i] = b[i - Len(a)]
  BY <1>1, <1>2, <1>3
<1>5. \A i \in DOMAIN a : i \in DOMAIN q /\ q[i] = a[i]
  BY <1>1, <1>2, <1>3
<1>6. \A j \in DOMAIN b : Len(a) + j \in DOMAIN q /\ q[Len(a) + j] = b[j]
  BY <1>1, <1>2, <1>3
<1> QED BY <1>1, <1>2, <1>3, <1>4, <1>5, <1>6

\* A merged clique has the members of both, each once.
LEMMA MergePlaces ==
  ASSUME TypeOK, OwnedOnce, Covered, NEW c1 \in Valid, NEW c2 \in Valid, c1 # c2,
         pids' = [pids EXCEPT ![c1] = @ \o pids[c2]],
         flag' = [flag EXCEPT ![c1] = "C_REUSE", ![c2] = "C_INVALID"]
  PROVE  OwnedOnce' /\ Covered'
<1> DEFINE a == pids[c1]
           b == pids[c2]
<1>1. c1 \in Thread /\ c2 \in Thread /\ c1 \in InUse /\ c2 \in InUse
  BY DEF Valid, InUse
<1>2. InUse' = InUse \ {c2}
  BY <1>1 DEF TypeOK, Valid, InUse
<1>3. PICK q : q = a \o b
  OBVIOUS
<1>4. \A c \in Thread : pids'[c] = IF c = c1 THEN q ELSE pids[c]
  <2>1. pids' = [pids EXCEPT ![c1] = q]
    BY <1>3, Zenon
  <2> QED BY <1>1, <2>1 DEF TypeOK
<1>5. a \in Seq(Thread) /\ b \in Seq(Thread)
  BY <1>1 DEF TypeOK
<1>6. /\ DOMAIN q \subseteq Int /\ Len(a) \in Int
      /\ \A i \in DOMAIN q :
           \/ i \in DOMAIN a /\ q[i] = a[i]
           \/ i \notin DOMAIN a /\ i - Len(a) \in DOMAIN b /\ q[i] = b[i - Len(a)]
      /\ \A i \in DOMAIN a : i \in DOMAIN q /\ q[i] = a[i]
      /\ \A j \in DOMAIN b : Len(a) + j \in DOMAIN q /\ q[Len(a) + j] = b[j]
  <2> HIDE DEF a, b
  <2> QED BY <1>3, <1>5, Joined
<1>7. ASSUME NEW i \in DOMAIN q, NEW j \in DOMAIN q, q[i] = q[j]
      PROVE  i = j
  <2>1. CASE i \in DOMAIN a /\ j \in DOMAIN a
    BY <1>1, <1>6, <1>7, <2>1 DEF OwnedOnce
  <2>2. CASE i \notin DOMAIN a /\ j \notin DOMAIN a
    <3>1. i - Len(a) = j - Len(a)
      BY <1>1, <1>6, <1>7, <2>2 DEF OwnedOnce
    <3> QED BY <1>6, <3>1
  <2>3. CASE i \in DOMAIN a /\ j \notin DOMAIN a
    BY <1>1, <1>6, <1>7, <2>3 DEF OwnedOnce
  <2>4. CASE i \notin DOMAIN a /\ j \in DOMAIN a
    BY <1>1, <1>6, <1>7, <2>4 DEF OwnedOnce
  <2> QED BY <2>1, <2>2, <2>3, <2>4
<1>8. ASSUME NEW i \in DOMAIN q, NEW d \in InUse, d # c1, d # c2, NEW j \in DOMAIN pids[d]
      PROVE  q[i] # pids[d][j]
  BY <1>1, <1>6, <1>8 DEF OwnedOnce
<1>9. OwnedOnce'
  <2> SUFFICES ASSUME NEW c \in InUse', NEW d \in InUse',
                      NEW i \in DOMAIN pids'[c], NEW j \in DOMAIN pids'[d], pids'[c][i] = pids'[d][j]
               PROVE  c = d /\ i = j
    BY DEF OwnedOnce
  <2>1. c \in InUse /\ d \in InUse /\ c # c2 /\ d # c2 /\ c \in Thread /\ d \in Thread
    BY <1>2 DEF InUse
  <2>2. CASE c = c1 /\ d = c1
    BY <1>4, <1>7, <2>1, <2>2
  <2>3. CASE c = c1 /\ d # c1
    <3>1. pids'[c] = q /\ pids'[d] = pids[d]
      BY <1>4, <2>1, <2>3
    <3> QED BY <1>8, <2>1, <2>3, <3>1
  <2>4. CASE c # c1 /\ d = c1
    <3>1. pids'[d] = q /\ pids'[c] = pids[c]
      BY <1>4, <2>1, <2>4
    <3> QED BY <1>8, <2>1, <2>4, <3>1
  <2>5. CASE c # c1 /\ d # c1
    BY <1>4, <2>1, <2>5 DEF OwnedOnce
  <2> QED BY <2>2, <2>3, <2>4, <2>5
<1>10. Covered'
  <2> SUFFICES ASSUME NEW t \in Thread
               PROVE  \E c \in InUse' : \E i \in DOMAIN pids'[c] : pids'[c][i] = t
    BY DEF Covered
  <2>1. PICK c \in InUse : \E i \in DOMAIN pids[c] : pids[c][i] = t
    BY DEF Covered
  <2>2. c1 \in InUse' /\ pids'[c1] = q /\ c \in Thread
    BY <1>1, <1>2, <1>4 DEF InUse
  <2>3. PICK i \in DOMAIN pids[c] : pids[c][i] = t
    BY <2>1
  <2>4. CASE c = c1
    <3>1. i \in DOMAIN q /\ q[i] = t
      BY <1>6, <2>3, <2>4
    <3> QED BY <2>2, <3>1
  <2>5. CASE c = c2
    <3>1. Len(a) + i \in DOMAIN q /\ q[Len(a) + i] = t
      BY <1>6, <2>3, <2>5
    <3> QED BY <2>2, <3>1
  <2>6. CASE c # c1 /\ c # c2
    BY <1>2, <1>4, <2>1, <2>2, <2>6
  <2> QED BY <2>4, <2>5, <2>6
<1> QED BY <1>9, <1>10

\* Every step keeps the places.
LEMMA PlaceStep ==
  ASSUME TypeOK, CountInv, PlaceInv, [Next]_vars
  PROVE  PlaceInv'
<1>1. CASE init_cliques
  <2>1. pids' = [c \in Thread |-> <<c>>] /\ flag' = [c \in Thread |-> "C_VALID"]
    BY <1>1 DEF init_cliques
  <2>2. InUse' = Thread
    BY <2>1 DEF InUse
  <2>3. \A c \in Thread : pids'[c] = <<c>> /\ DOMAIN pids'[c] = {1} /\ pids'[c][1] = c
    BY <2>1
  <2>4. OwnedOnce'
    BY <2>2, <2>3 DEF OwnedOnce
  <2>5. Covered'
    BY <2>2, <2>3 DEF Covered
  <2> QED BY <2>4, <2>5 DEF PlaceInv
<1>2. CASE Merge
  <2>1. OwnedOnce /\ Covered
    BY <1>2 DEF Merge, PlaceInv
  <2>2. PICK c1 \in Valid, c2 \in Valid :
          /\ c1 # c2
          /\ pids' = [pids EXCEPT ![c1] = @ \o pids[c2]]
          /\ flag' = [flag EXCEPT ![c1] = "C_REUSE", ![c2] = "C_INVALID"]
    BY <1>2, MergeStep
  <2> QED BY <2>1, <2>2, MergePlaces DEF PlaceInv
<1>3. ASSUME pids' = pids, InUse' = InUse, pc # "done"
      PROVE  PlaceInv'
  BY <1>3 DEF PlaceInv, OwnedOnce, Covered
<1>4. CASE NextRound
  BY <1>3, <1>4 DEF NextRound, InUse
<1>5. CASE reset_cliques
  <2>1. /\ pids' = pids /\ pc # "done"
        /\ flag' = [c \in Thread |-> IF flag[c] = "C_REUSE" THEN "C_VALID" ELSE flag[c]]
    BY <1>5 DEF reset_cliques
  <2>2. InUse' = InUse
    BY <2>1 DEF InUse, TypeOK
  <2> QED BY <1>3, <2>1, <2>2
<1>6. CASE calculate_threads_chosen
  BY <1>6 DEF calculate_threads_chosen, PlaceInv
<1>7. CASE UNCHANGED vars
  BY <1>7 DEF vars, PlaceInv, OwnedOnce, Covered, InUse
<1> QED BY <1>1, <1>2, <1>4, <1>5, <1>6, <1>7 DEF Next

-----------------------------------------------------------------------------
(* The sizes.                                                              *)

\* Every step keeps the sizes.
LEMMA SizeStep ==
  ASSUME TypeOK, CountInv, SizeInv, [Next]_vars
  PROVE  SizeInv'
<1> DEFINE v == Cardinality(Valid)
           r == Cardinality(Reuse)
<1>1. v \in Nat /\ r \in Nat
  BY SetFacts
<1>2. CASE init_cliques
  <2>1. /\ flag' = [c \in Thread |-> "C_VALID"] /\ pids' = [c \in Thread |-> <<c>>]
    BY <1>2 DEF init_cliques
  <2>2. Valid' = Thread /\ Reuse' = {}
    BY <2>1 DEF Valid, Reuse
  <2>3. Cardinality(Valid') = NTHREADS /\ Cardinality(Reuse') = 0 /\ NTHREADS \in Nat
    BY <2>2, ThreadFacts, FS_EmptySet
  <2>4. PICK s \in Nat \ {0} : s = 1
    OBVIOUS
  <2>5. \A c \in Thread : Len(pids'[c]) = s
    BY <2>1, <2>4
  <2>6. s * (Cardinality(Valid') + 2 * Cardinality(Reuse')) = NTHREADS
    BY <2>3, <2>4
  <2>7. (\A c \in Valid' : Len(pids'[c]) = s) /\ (\A c \in Reuse' : Len(pids'[c]) = 2 * s)
    BY <2>2, <2>5
  <2> QED BY <2>6, <2>7 DEF SizeInv
<1>3. CASE Merge
  <2>1. PICK c1 \in Valid, c2 \in Valid :
          /\ c1 # c2
          /\ pids' = [pids EXCEPT ![c1] = @ \o pids[c2]]
          /\ flag' = [flag EXCEPT ![c1] = "C_REUSE", ![c2] = "C_INVALID"]
    BY <1>3, MergeStep
  <2>2. PICK s \in Nat \ {0} :
          /\ \A c \in Valid : Len(pids[c]) = s
          /\ \A c \in Reuse : Len(pids[c]) = 2 * s
          /\ s * (v + 2 * r) = NTHREADS
    BY <1>3 DEF SizeInv, Merge
  <2>3. c1 \in Thread /\ c2 \in Thread /\ c1 \notin Reuse
    BY SetFacts DEF Valid, Reuse
  <2>4. Valid' = (Valid \ {c1}) \ {c2} /\ Reuse' = Reuse \cup {c1}
    BY <2>1, <2>3 DEF TypeOK, Valid, Reuse
  <2>5. Cardinality(Valid') = v - 2 /\ Cardinality(Reuse') = r + 1
    <3>1. Cardinality((Valid \ {c1}) \ {c2}) = v - 2
      BY <2>1, SetFacts, TwoRemoved
    <3>2. Cardinality(Reuse \cup {c1}) = r + 1
      BY <2>3, SetFacts, FS_AddElement
    <3> QED BY <2>4, <3>1, <3>2
  <2>6. PICK a \in Seq(Thread), b \in Seq(Thread) : a = pids[c1] /\ b = pids[c2]
    BY <2>3, Members
  <2>7. PICK q : q = a \o b
    OBVIOUS
  <2>8. \A c \in Thread : pids'[c] = IF c = c1 THEN q ELSE pids[c]
    <3>1. pids' = [pids EXCEPT ![c1] = q]
      BY <2>1, <2>6, <2>7, Zenon
    <3> QED BY <2>3, <3>1 DEF TypeOK
  <2>9. Len(q) = 2 * s
    <3>1. Len(q) = Len(a) + Len(b)
      BY <2>7, ConcatProperties
    <3>2. Len(a) = s /\ Len(b) = s
      BY <2>2, <2>6
    <3> QED BY <3>1, <3>2
  <2>10. \A c \in Valid' : Len(pids'[c]) = s
    BY <2>2, <2>4, <2>8, SetFacts
  <2>11. \A c \in Reuse' : Len(pids'[c]) = 2 * s
    BY <2>2, <2>4, <2>8, <2>9, SetFacts
  <2>12. s * (Cardinality(Valid') + 2 * Cardinality(Reuse')) = NTHREADS
    <3>1. (v - 2) + 2 * (r + 1) = v + 2 * r
      BY <1>1
    <3> QED BY <2>2, <2>5, <3>1
  <2> QED BY <2>10, <2>11, <2>12 DEF SizeInv
<1>4. CASE reset_cliques
  <2>1. /\ pc = "inner" /\ cliques_size = 0 /\ pids' = pids
        /\ flag' = [c \in Thread |-> IF flag[c] = "C_REUSE" THEN "C_VALID" ELSE flag[c]]
    BY <1>4, ResetFacts
  <2>2. v = 0 /\ Valid = {}
    <3>1. v = 0
      BY <2>1 DEF CountInv
    <3> QED BY <3>1, SetFacts, FS_EmptySet
  <2>3. Valid' = Reuse /\ Reuse' = {}
    BY <2>1, <2>2 DEF Valid, Reuse
  <2>4. PICK s \in Nat \ {0} :
          (\A c \in Reuse : Len(pids[c]) = 2 * s) /\ s * (v + 2 * r) = NTHREADS
    BY <2>1 DEF SizeInv
  <2>5. Cardinality(Valid') = r /\ Cardinality(Reuse') = 0
    BY <2>3, FS_EmptySet
  <2>6. 2 * s \in Nat \ {0} /\ (2 * s) * (r + 2 * 0) = s * (v + 2 * r)
    BY <1>1, <2>2
  <2> QED BY <2>1, <2>3, <2>4, <2>5, <2>6 DEF SizeInv
<1>5. CASE calculate_threads_chosen
  BY <1>5 DEF calculate_threads_chosen, SizeInv
<1>6. CASE NextRound \/ UNCHANGED vars
  <2>1. (pc' # "done" => pc # "done") /\ pids' = pids /\ flag' = flag
    BY <1>6 DEF NextRound, vars
  <2>2. Valid' = Valid /\ Reuse' = Reuse
    BY <2>1 DEF Valid, Reuse
  <2> QED BY <2>1, <2>2 DEF SizeInv
<1> QED BY <1>2, <1>3, <1>4, <1>5, <1>6 DEF Next

-----------------------------------------------------------------------------
(* The types.                                                              *)

\* A clique in use has no thread twice, so it is not longer than there are threads.
LEMMA NotTooLong ==
  ASSUME NEW q \in Seq(Thread), \A i, j \in DOMAIN q : q[i] = q[j] => i = j
  PROVE  Len(q) <= NTHREADS
<1>1. Len(q) \in Nat /\ DOMAIN q = 1 .. Len(q) /\ q \in [1 .. Len(q) -> Thread]
  BY LenProperties
<1>2. q \in Injection(1 .. Len(q), Thread)
  BY <1>1 DEF Injection, IsInjective
<1>3. Cardinality(1 .. Len(q)) <= Cardinality(Thread)
  BY <1>2, ThreadFacts, FS_Injection
<1>4. Cardinality(1 .. Len(q)) = Len(q)
  BY <1>1, FS_Interval
<1> QED BY <1>3, <1>4, ThreadFacts

\* The core for a member of a clique is a core of the machine.
LEMMA CoreOfMachine ==
  ASSUME NEW node \in 0 .. num_nodes - 1, NEW i \in Nat \ {0}
  PROVE  assign_cpu(node, i) \in 0 .. num_nodes * cores_per_node - 1
<1> DEFINE w == cores_per_node
           r == (i - 1) % w
<1>1. num_nodes \in Nat /\ w \in Nat /\ w > 0 /\ node \in Nat /\ node + 1 <= num_nodes
  BY NodeAssumption
<1>2. r \in 0 .. w - 1
  BY <1>1
<1>3. w * node \in Nat /\ num_nodes * w \in Nat /\ w * (node + 1) = w * node + w
  BY <1>1
<1>4. w * (node + 1) <= num_nodes * w
  <2>1. PICK k \in Nat : num_nodes = node + 1 + k
    <3>1. num_nodes - (node + 1) \in Nat /\ num_nodes = node + 1 + (num_nodes - (node + 1))
      BY <1>1
    <3> QED BY <3>1
  <2>2. num_nodes * w = w * (node + 1) + k * w /\ k * w \in Nat /\ w * (node + 1) \in Nat
    BY <1>1, <2>1
  <2> QED BY <2>2
<1>5. w * node + r \in 0 .. num_nodes * w - 1
  <2> HIDE DEF w, r
  <2> QED BY <1>1, <1>2, <1>3, <1>4
<1> QED BY <1>5 DEF assign_cpu

\* The core of a member of a valid clique: the clique's node and the member's place.
LEMMA Placement ==
  ASSUME TypeOK, CountInv, PlaceInv, calculate_threads_chosen
  PROVE  /\ \A h \in Valid : \A i \in DOMAIN pids[h] :
              threads_chosen'[pids[h][i]] = assign_cpu(Cardinality({c \in Valid : c < h}), i)
         /\ \A t \in Thread : \E h \in Valid : \E i \in DOMAIN pids[h] : pids[h][i] = t
         /\ \A h, k \in Valid : \A i \in DOMAIN pids[h], j \in DOMAIN pids[k] :
              pids[h][i] = pids[k][j] => h = k /\ i = j
<1> DEFINE Homes(t) == {c \in Valid : \E i \in DOMAIN pids[c] : pids[c][i] = t}
           Home(t) == CHOOSE c \in Homes(t) : \A d \in Homes(t) : d <= c
           Place(t) == CHOOSE i \in DOMAIN pids[Home(t)] : pids[Home(t)][i] = t
           Core(t) == IF Homes(t) = {} THEN threads_chosen[t]
                      ELSE assign_cpu(Cardinality({c \in Valid : c < Home(t)}), Place(t))
<1>1. pc = "outer" /\ threads_chosen' = [t \in Thread |-> Core(t)]
  BY DEF calculate_threads_chosen
<1>2. OwnedOnce /\ Covered /\ InUse = Valid
  <2>1. OwnedOnce /\ Covered /\ Reuse = {}
    BY <1>1 DEF CountInv, PlaceInv
  <2> QED BY <2>1 DEF TypeOK, InUse, Valid, Reuse
<1>3. \A h, k \in Valid : \A i \in DOMAIN pids[h], j \in DOMAIN pids[k] :
        pids[h][i] = pids[k][j] => h = k /\ i = j
  BY <1>2 DEF OwnedOnce
<1>4. ASSUME NEW h \in Valid, NEW i \in DOMAIN pids[h]
      PROVE  threads_chosen'[pids[h][i]] = assign_cpu(Cardinality({c \in Valid : c < h}), i)
  <2>1. PICK t \in Thread : t = pids[h][i]
    BY SetFacts, Members
  <2>2. Homes(t) = {h}
    BY <1>3, <2>1
  <2>3. Home(t) = h
    <3>1. h <= h
      BY SetFacts, ThreadFacts
    <3> HIDE DEF Homes
    <3> QED BY <2>2, <3>1
  <2>4. Place(t) = i
    <3>1. (CHOOSE j \in DOMAIN pids[h] : pids[h][j] = t) = i
      BY <1>3, <2>1
    <3> HIDE DEF Home
    <3> QED BY <2>3, <3>1
  <2>5. Core(t) = assign_cpu(Cardinality({c \in Valid : c < h}), i)
    <3> HIDE DEF Homes, Home, Place
    <3> QED BY <2>2, <2>3, <2>4
  <2> HIDE DEF Core
  <2> QED BY <1>1, <2>1, <2>5
<1> QED BY <1>2, <1>3, <1>4 DEF Covered

\* The places of the valid cliques in the order of the nodes: each node up to their number
\* has one.
LEMMA Ranks ==
  /\ \A h \in Valid : Cardinality({c \in Valid : c < h}) \in 0 .. Cardinality(Valid) - 1
  /\ \A h, k \in Valid :
       Cardinality({c \in Valid : c < h}) = Cardinality({c \in Valid : c < k}) => h = k
  /\ \A n \in 0 .. Cardinality(Valid) - 1 :
       \E h \in Valid : Cardinality({c \in Valid : c < h}) = n
<1> DEFINE B(h) == {c \in Valid : c < h}
           v == Cardinality(Valid)
           rank == [h \in Valid |-> Cardinality(B(h))]
<1>1. IsFiniteSet(Valid) /\ v \in Nat /\ \A h \in Valid : h \in Nat
  BY SetFacts, ThreadFacts
<1>2. ASSUME NEW h \in Valid
      PROVE  IsFiniteSet(B(h)) /\ Cardinality(B(h)) \in 0 .. v - 1
  <2>1. B(h) \in SUBSET Valid /\ B(h) # Valid
    BY <1>1
  <2> HIDE DEF B
  <2>2. IsFiniteSet(B(h)) /\ Cardinality(B(h)) <= v /\ Cardinality(B(h)) # v
    BY <1>1, <2>1, FS_Subset
  <2>3. Cardinality(B(h)) \in Nat
    BY <2>2, FS_CardinalityType
  <2> QED BY <1>1, <2>2, <2>3
<1>3. ASSUME NEW h \in Valid, NEW k \in Valid, h < k
      PROVE  Cardinality(B(h)) # Cardinality(B(k))
  <2>1. B(h) \in SUBSET B(k) /\ h \in B(k) /\ h \notin B(h)
    BY <1>1, <1>3
  <2>2. B(h) # B(k) /\ IsFiniteSet(B(k))
    BY <1>2, <2>1
  <2> HIDE DEF B
  <2> QED BY <2>1, <2>2, FS_Subset
<1>4. \A h, k \in Valid : Cardinality(B(h)) = Cardinality(B(k)) => h = k
  <2> SUFFICES ASSUME NEW h \in Valid, NEW k \in Valid, h # k
               PROVE  Cardinality(B(h)) # Cardinality(B(k))
    OBVIOUS
  <2>1. h < k \/ k < h
    BY <1>1
  <2> HIDE DEF B
  <2> QED BY <1>3, <2>1
<1>5. \A n \in 0 .. v - 1 : \E h \in Valid : Cardinality(B(h)) = n
  <2> HIDE DEF B
  <2>1. rank \in Injection(Valid, 0 .. v - 1)
    <3>1. rank \in [Valid -> 0 .. v - 1]
      BY <1>2
    <3> QED BY <1>4, <3>1 DEF Injection, IsInjective
  <2>2. IsFiniteSet(0 .. v - 1) /\ Cardinality(0 .. v - 1) = v
    BY <1>1, FS_Interval
  <2>3. rank \in Surjection(Valid, 0 .. v - 1)
    <3> HIDE DEF rank
    <3> QED BY <2>1, <2>2, FS_Injection
  <2> QED BY <2>3 DEF Surjection
<1> QED BY <1>2, <1>4, <1>5

\* The cores that are chosen are cores of the machine.
LEMMA ChosenType ==
  ASSUME TypeOK, CountInv, PlaceInv, calculate_threads_chosen
  PROVE  threads_chosen' \in [Thread -> 0 .. num_nodes * cores_per_node - 1]
<1>1. DOMAIN threads_chosen' = Thread /\ threads_chosen' = [t \in Thread |-> threads_chosen'[t]]
  BY DEF calculate_threads_chosen
<1>2. Cardinality(Valid) \in Nat /\ Cardinality(Valid) <= num_nodes /\ num_nodes \in Nat
  BY SetFacts, NodeAssumption DEF calculate_threads_chosen, CountInv
<1>3. ASSUME NEW t \in Thread
      PROVE  threads_chosen'[t] \in 0 .. num_nodes * cores_per_node - 1
  <2>1. PICK h \in Valid : \E i \in DOMAIN pids[h] : pids[h][i] = t
    BY Placement
  <2>2. PICK i \in DOMAIN pids[h] : pids[h][i] = t
    BY <2>1
  <2>3. threads_chosen'[t] = assign_cpu(Cardinality({c \in Valid : c < h}), i)
    BY <2>2, Placement
  <2>4. i \in Nat \ {0}
    BY SetFacts, Members
  <2>5. Cardinality({c \in Valid : c < h}) \in 0 .. Cardinality(Valid) - 1
    BY Ranks
  <2>6. Cardinality({c \in Valid : c < h}) \in 0 .. num_nodes - 1
    BY <1>2, <2>5
  <2> QED BY <2>3, <2>4, <2>6, CoreOfMachine
<1> QED BY <1>1, <1>3

\* Every step keeps the types.
LEMMA TypeStep ==
  ASSUME TypeOK, CountInv, PlaceInv, CountInv', PlaceInv', [Next]_vars
  PROVE  TypeOK'
<1>1. NTHREADS \in Nat \ {0} /\ cliques_size \in 0 .. NTHREADS
  BY ThreadFacts DEF TypeOK
<1>2. CASE init_cliques
  <2>1. \A c \in Thread : <<c>> \in Seq(Thread) /\ Len(<<c>>) <= NTHREADS
    BY <1>1
  <2> QED BY <1>1, <1>2, <2>1 DEF init_cliques, TypeOK
<1>3. CASE NextRound
  BY <1>3 DEF NextRound, TypeOK
<1>4. CASE Merge
  <2>1. PICK c1 \in Valid, c2 \in Valid :
          /\ c1 # c2
          /\ pids' = [pids EXCEPT ![c1] = @ \o pids[c2]]
          /\ flag' = [flag EXCEPT ![c1] = "C_REUSE", ![c2] = "C_INVALID"]
          /\ cliques_size' = cliques_size - 2
    BY <1>4, MergeStep
  <2>2. pc = "inner" /\ cliques_size > 0 /\ UNCHANGED <<default_matrix, threads_chosen, pc>>
    BY <1>4 DEF Merge
  <2>3. c1 \in Thread /\ c2 \in Thread
    BY SetFacts
  <2>4. cliques_size' \in 0 .. NTHREADS
    BY <1>1, <2>1, <2>2, TwoValid, SetFacts DEF CountInv
  <2>5. flag' \in [Thread -> {"C_VALID", "C_REUSE", "C_INVALID"}]
    BY <2>1 DEF TypeOK
  <2>6. pids[c1] \o pids[c2] \in Seq(Thread)
    BY <2>3, Members, ConcatProperties
  <2>7. pids' \in [Thread -> Seq(Thread)] /\ pids'[c1] \in Seq(Thread)
    BY <2>1, <2>3, <2>6 DEF TypeOK
  <2>8. \A i, j \in DOMAIN pids'[c1] : pids'[c1][i] = pids'[c1][j] => i = j
    <3>1. c1 \in InUse'
      BY <2>1, <2>3 DEF TypeOK, InUse
    <3>2. OwnedOnce'
      BY <2>2 DEF PlaceInv
    <3> QED BY <3>1, <3>2 DEF OwnedOnce
  <2>9. Len(pids'[c1]) <= NTHREADS
    BY <2>7, <2>8, NotTooLong
  <2>10. \A c \in Thread : Len(pids'[c]) <= NTHREADS
    <3> SUFFICES ASSUME NEW c \in Thread PROVE Len(pids'[c]) <= NTHREADS
      OBVIOUS
    <3>1. CASE c = c1
      BY <2>9, <3>1
    <3>2. CASE c # c1
      <4>1. pids'[c] = pids[c]
        BY <2>1, <3>2 DEF TypeOK
      <4> QED BY <4>1 DEF TypeOK
    <3> QED BY <3>1, <3>2
  <2> QED BY <2>2, <2>4, <2>5, <2>7, <2>10 DEF TypeOK
<1>5. CASE reset_cliques
  <2>1. /\ cliques_size' = Cardinality(Reuse) /\ pc' = "outer"
        /\ flag' = [c \in Thread |-> IF flag[c] = "C_REUSE" THEN "C_VALID" ELSE flag[c]]
        /\ UNCHANGED <<default_matrix, pids, threads_chosen>>
    BY <1>5, ResetFacts
  <2>2. cliques_size' \in 0 .. NTHREADS
    BY <1>1, <2>1, SetFacts
  <2>3. flag' \in [Thread -> {"C_VALID", "C_REUSE", "C_INVALID"}]
    BY <2>1 DEF TypeOK
  <2> QED BY <2>1, <2>2, <2>3 DEF TypeOK
<1>6. CASE calculate_threads_chosen
  <2>1. threads_chosen' \in [Thread -> 0 .. num_nodes * cores_per_node - 1]
    BY <1>6, ChosenType
  <2> QED BY <1>6, <2>1 DEF calculate_threads_chosen, TypeOK
<1>7. CASE UNCHANGED vars
  BY <1>7 DEF vars, TypeOK
<1> QED BY <1>2, <1>3, <1>4, <1>5, <1>6, <1>7 DEF Next

-----------------------------------------------------------------------------
(* The groups.                                                             *)

\* The groups are equally large, and a thread belongs to one.
LEMMA GroupFacts ==
  ASSUME NEW m \in Matrices, Clustered(m)
  PROVE  /\ \A a \in Thread : /\ a \in Group(m, a) /\ Group(m, a) \subseteq Thread
                              /\ num_nodes * Cardinality(Group(m, a)) = NTHREADS
         /\ \A a, b \in Thread : /\ b \in Group(m, a) <=> Group(m, b) = Group(m, a)
                                 /\ m[a][b] \in Nat
                                 /\ a # b => (b \in Group(m, a) <=> m[a][b] # 0)
<1>1. \A a \in Thread : /\ num_nodes * Cardinality(Group(m, a)) = NTHREADS
                        /\ \A b \in Group(m, a) : Group(m, b) = Group(m, a)
  BY DEF Clustered, Group
<1>2. \A a \in Thread : a \in Group(m, a) /\ Group(m, a) \subseteq Thread
  BY DEF Group
<1>3. \A a, b \in Thread : m[a][b] \in Nat
  BY MatrixAssumption
<1>4. \A a, b \in Thread : a # b => (b \in Group(m, a) <=> m[a][b] # 0)
  BY <1>3 DEF Group
<1>5. \A a, b \in Thread : b \in Group(m, a) <=> Group(m, b) = Group(m, a)
  BY <1>1, <1>2
<1> QED BY <1>1, <1>2, <1>3, <1>4, <1>5

\* While an analysis runs, the cliques in use have members.
LEMMA NotEmpty ==
  ASSUME TypeOK, SizeInv, pc # "done"
  PROVE  /\ InUse = Valid \cup Reuse
         /\ \A c \in InUse : c \in Thread /\ 1 \in DOMAIN pids[c] /\ pids[c][1] \in Thread
<1>1. InUse = Valid \cup Reuse /\ InUse \subseteq Thread
  BY DEF TypeOK, InUse, Valid, Reuse
<1>2. PICK s \in Nat \ {0} :
        (\A c \in Valid : Len(pids[c]) = s) /\ (\A c \in Reuse : Len(pids[c]) = 2 * s)
  BY DEF SizeInv
<1>3. ASSUME NEW c \in InUse PROVE c \in Thread /\ 1 \in DOMAIN pids[c] /\ pids[c][1] \in Thread
  <2>1. Len(pids[c]) \in Nat \ {0}
    BY <1>1, <1>2
  <2>2. DOMAIN pids[c] = 1 .. Len(pids[c]) /\ \A i \in DOMAIN pids[c] : pids[c][i] \in Thread
    BY <1>1, Members
  <2> QED BY <1>1, <2>1, <2>2
<1> QED BY <1>1, <1>3

\* Cliques of one group have a distance, and cliques of two groups have none.
LEMMA Distance ==
  ASSUME TypeOK, SizeInv, OwnedOnce, GroupInv, pc # "done", Clustered(default_matrix),
         NEW c \in InUse, NEW d \in InUse, c # d
  PROVE  /\ clique_distance(c, d) \in Nat
         /\ clique_distance(c, d) # 0 <=>
              Group(default_matrix, pids[c][1]) = Group(default_matrix, pids[d][1])
<1> DEFINE m == default_matrix
           pairs == (DOMAIN pids[c]) \X (DOMAIN pids[d])
           rate == [p \in pairs |-> m[pids[c][p[1]]][pids[d][p[2]]]]
<1>1. /\ m \in Matrices /\ c \in Thread /\ d \in Thread
      /\ 1 \in DOMAIN pids[c] /\ 1 \in DOMAIN pids[d]
      /\ \A i \in DOMAIN pids[c] : pids[c][i] \in Thread
      /\ \A j \in DOMAIN pids[d] : pids[d][j] \in Thread
  BY NotEmpty, Members DEF TypeOK
<1>2. IsFiniteSet(pairs)
  <2>1. \A k \in Nat : IsFiniteSet(1 .. k)
    BY FS_Interval
  <2>2. IsFiniteSet(DOMAIN pids[c]) /\ IsFiniteSet(DOMAIN pids[d])
    BY <1>1, <2>1, Members
  <2> QED BY <2>2, FS_Product
<1>3. rate \in [pairs -> Nat]
  BY <1>1, GroupFacts
<1>4. clique_distance(c, d) = FoldFunction(+, 0, rate)
  BY DEF clique_distance
<1>5. /\ clique_distance(c, d) \in Nat
      /\ clique_distance(c, d) = 0 <=> \A p \in pairs : rate[p] = 0
  <2> HIDE DEF rate, pairs
  <2> QED BY <1>2, <1>3, <1>4, SumOfRates
<1>6. \A i \in DOMAIN pids[c], j \in DOMAIN pids[d] :
        m[pids[c][i]][pids[d][j]] # 0 <=> Group(m, pids[c][1]) = Group(m, pids[d][1])
  <2> SUFFICES ASSUME NEW i \in DOMAIN pids[c], NEW j \in DOMAIN pids[d]
               PROVE  m[pids[c][i]][pids[d][j]] # 0 <=>
                        Group(m, pids[c][1]) = Group(m, pids[d][1])
    OBVIOUS
  <2>1. PICK t \in Thread, u \in Thread : t = pids[c][i] /\ u = pids[d][j]
    BY <1>1
  <2>2. Group(m, t) = Group(m, pids[c][1]) /\ Group(m, u) = Group(m, pids[d][1])
    BY <2>1 DEF GroupInv
  <2>3. t # u
    BY <2>1 DEF OwnedOnce
  <2>4. m[t][u] # 0 <=> Group(m, u) = Group(m, t)
    BY <1>1, <2>3, GroupFacts
  <2> QED BY <2>1, <2>2, <2>4
<1>7. <<1, 1>> \in pairs
  BY <1>1
<1>8. (\A p \in pairs : rate[p] = 0) <=> Group(m, pids[c][1]) # Group(m, pids[d][1])
  BY <1>6, <1>7
<1> QED BY <1>5, <1>8

\* The sets that GroupInv counts.
LEMMA OfGroupFacts ==
  ASSUME NEW G
  PROVE  /\ IsFiniteSet(OfGroup(Valid, pids, G)) /\ Cardinality(OfGroup(Valid, pids, G)) \in Nat
         /\ IsFiniteSet(OfGroup(Reuse, pids, G)) /\ Cardinality(OfGroup(Reuse, pids, G)) \in Nat
<1>1. OfGroup(Valid, pids, G) \in SUBSET Valid /\ OfGroup(Reuse, pids, G) \in SUBSET Reuse
  BY DEF OfGroup
<1> QED BY <1>1, SetFacts, FS_Subset, FS_CardinalityType

\* A valid clique is merged with one of its own group.
LEMMA WithinGroup ==
  ASSUME TypeOK, SizeInv, PlaceInv, GroupInv, pc = "inner", Clustered(default_matrix),
         NEW c1 \in Valid, NEW c2 \in Valid, c1 # c2,
         \A d \in Valid \ {c1} : clique_distance(c1, d) <= clique_distance(c1, c2)
  PROVE  Group(default_matrix, pids[c1][1]) = Group(default_matrix, pids[c2][1])
<1> DEFINE m == default_matrix
           G == Group(m, pids[c1][1])
<1>1. /\ m \in Matrices /\ OwnedOnce /\ c1 \in InUse /\ c2 \in InUse
      /\ pids[c1][1] \in Thread
  BY NotEmpty DEF TypeOK, PlaceInv
<1>2. Cardinality(OfGroup(Valid, pids, G)) # 1
  <2>1. PICK x \in Nat, y \in Nat :
          /\ Cardinality(OfGroup(Valid, pids, G)) + 2 * Cardinality(OfGroup(Reuse, pids, G)) = x
          /\ x = 2 * y
    BY <1>1 DEF GroupInv
  <2>2. /\ Cardinality(OfGroup(Valid, pids, G)) \in Nat
        /\ Cardinality(OfGroup(Reuse, pids, G)) \in Nat
    BY OfGroupFacts
  <2> HIDE DEF G
  <2> QED BY <2>1, <2>2
<1>3. c1 \in OfGroup(Valid, pids, G)
  BY <1>1, GroupFacts DEF OfGroup
<1>4. PICK d \in OfGroup(Valid, pids, G) : d # c1
  <2>1. OfGroup(Valid, pids, G) # {c1}
    BY <1>2, FS_Singleton
  <2> QED BY <1>3, <2>1
<1>5. d \in Valid /\ d \in InUse /\ pids[d][1] \in G
  BY NotEmpty DEF OfGroup
<1>6. Group(m, pids[d][1]) = G
  BY <1>1, <1>5, GroupFacts, NotEmpty
<1>7. clique_distance(c1, d) \in Nat /\ clique_distance(c1, d) # 0
  BY <1>1, <1>4, <1>5, <1>6, Distance
<1>8. clique_distance(c1, c2) \in Nat /\ clique_distance(c1, d) <= clique_distance(c1, c2)
  BY <1>1, <1>4, <1>5, Distance
<1>9. clique_distance(c1, c2) # 0
  BY <1>7, <1>8
<1> QED BY <1>1, <1>9, Distance

\* Merging two cliques of a group keeps the groups.
LEMMA GroupMerge ==
  ASSUME TypeOK, SizeInv, PlaceInv, GroupInv, pc = "inner", Clustered(default_matrix),
         default_matrix' = default_matrix,
         NEW c1 \in Valid, NEW c2 \in Valid, c1 # c2,
         \A d \in Valid \ {c1} : clique_distance(c1, d) <= clique_distance(c1, c2),
         pids' = [pids EXCEPT ![c1] = @ \o pids[c2]],
         flag' = [flag EXCEPT ![c1] = "C_REUSE", ![c2] = "C_INVALID"]
  PROVE  GroupInv'
<1> DEFINE m == default_matrix
           V(t) == OfGroup(Valid, pids, Group(m, t))
           R(t) == OfGroup(Reuse, pids, Group(m, t))
<1>1. /\ m \in Matrices /\ c1 \in Thread /\ c2 \in Thread /\ c1 \notin Reuse
      /\ c1 \in InUse /\ c2 \in InUse /\ 1 \in DOMAIN pids[c1]
      /\ pids[c1][1] \in Thread /\ pids[c2][1] \in Thread
  BY NotEmpty DEF TypeOK, Valid, Reuse
<1>2. Group(m, pids[c1][1]) = Group(m, pids[c2][1])
  BY WithinGroup
<1>3. /\ Valid' = (Valid \ {c1}) \ {c2} /\ Reuse' = Reuse \cup {c1} /\ InUse' = InUse \ {c2}
  BY <1>1 DEF TypeOK, Valid, Reuse, InUse
<1>4. PICK a \in Seq(Thread), b \in Seq(Thread) : a = pids[c1] /\ b = pids[c2]
  BY <1>1, Members
<1>5. PICK q : q = a \o b
  OBVIOUS
<1>6. \A c \in Thread : pids'[c] = IF c = c1 THEN q ELSE pids[c]
  <2>1. pids' = [pids EXCEPT ![c1] = q]
    BY <1>4, <1>5, Zenon
  <2> QED BY <1>1, <2>1 DEF TypeOK
<1>7. /\ \A i \in DOMAIN q : \/ \E j \in DOMAIN a : q[i] = a[j]
                           \/ \E j \in DOMAIN b : q[i] = b[j]
      /\ q[1] = a[1]
  <2>1. /\ \A i \in DOMAIN q :
             \/ i \in DOMAIN a /\ q[i] = a[i]
             \/ i \notin DOMAIN a /\ i - Len(a) \in DOMAIN b /\ q[i] = b[i - Len(a)]
        /\ \A i \in DOMAIN a : i \in DOMAIN q /\ q[i] = a[i]
    BY <1>5, Joined
  <2>2. 1 \in DOMAIN a
    BY <1>1, <1>4
  <2> QED BY <2>1, <2>2
<1>8. \A c \in Thread : pids'[c][1] = pids[c][1]
  BY <1>4, <1>6, <1>7
<1>9. ASSUME NEW c \in InUse', NEW i \in DOMAIN pids'[c]
      PROVE  Group(m, pids'[c][i]) = Group(m, pids'[c][1])
  <2>1. c \in InUse /\ c \in Thread
    BY <1>3, NotEmpty
  <2>2. CASE c # c1
    BY <1>6, <2>1, <2>2 DEF GroupInv
  <2>3. CASE c = c1
    <3>1. pids'[c] = q
      BY <1>6, <2>1, <2>3
    <3>2. \A j \in DOMAIN a : Group(m, a[j]) = Group(m, a[1])
      BY <1>1, <1>4 DEF GroupInv
    <3>3. \A j \in DOMAIN b : Group(m, b[j]) = Group(m, a[1])
      BY <1>1, <1>2, <1>4 DEF GroupInv
    <3> QED BY <1>7, <3>1, <3>2, <3>3
  <2> QED BY <2>2, <2>3
<1>10. PICK x \in Nat :
         /\ x * num_nodes = Cardinality(Valid) + 2 * Cardinality(Reuse)
         /\ \A t \in Thread : Cardinality(V(t)) + 2 * Cardinality(R(t)) = x
         /\ \E y \in Nat : x = 2 * y
  BY DEF GroupInv
<1>11. Cardinality(Valid') + 2 * Cardinality(Reuse')
         = Cardinality(Valid) + 2 * Cardinality(Reuse)
  <2>1. Cardinality((Valid \ {c1}) \ {c2}) = Cardinality(Valid) - 2
    BY SetFacts, TwoRemoved
  <2>2. Cardinality(Reuse \cup {c1}) = Cardinality(Reuse) + 1
    BY <1>1, SetFacts, FS_AddElement
  <2> QED BY <1>3, <2>1, <2>2, SetFacts
<1>12. ASSUME NEW t \in Thread
       PROVE  Cardinality(OfGroup(Valid', pids', Group(m, t)))
                + 2 * Cardinality(OfGroup(Reuse', pids', Group(m, t))) = x
  <2>1. /\ OfGroup(Valid', pids', Group(m, t)) = {c \in Valid' : pids[c][1] \in Group(m, t)}
        /\ OfGroup(Reuse', pids', Group(m, t)) = {c \in Reuse' : pids[c][1] \in Group(m, t)}
    BY <1>1, <1>3, <1>8, SetFacts DEF OfGroup, Group
  <2>2. pids[c1][1] \in Group(m, t) <=> pids[c2][1] \in Group(m, t)
    BY <1>1, <1>2, GroupFacts
  <2>3. /\ IsFiniteSet(V(t)) /\ Cardinality(V(t)) \in Nat
        /\ IsFiniteSet(R(t)) /\ Cardinality(R(t)) \in Nat
    BY OfGroupFacts
  <2>4. CASE pids[c1][1] \in Group(m, t)
    <3>0. PICK U, W : U = V(t) /\ W = R(t)
      OBVIOUS
    <3>1. /\ OfGroup(Valid', pids', Group(m, t)) = (U \ {c1}) \ {c2}
          /\ OfGroup(Reuse', pids', Group(m, t)) = W \cup {c1}
          /\ c1 \in U /\ c2 \in U \ {c1} /\ c1 \notin W
      BY <1>1, <1>3, <2>1, <2>2, <2>4, <3>0 DEF OfGroup
    <3> HIDE DEF V, R
    <3>2. /\ IsFiniteSet(U) /\ Cardinality(U) \in Nat
          /\ IsFiniteSet(W) /\ Cardinality(W) \in Nat
          /\ Cardinality(U) + 2 * Cardinality(W) = x
      BY <1>10, <2>3, <3>0
    <3>3. c1 \in U /\ c2 \in U /\ c1 # c2 /\ c1 \notin W
      BY <3>1
    <3>4. Cardinality((U \ {c1}) \ {c2}) = Cardinality(U) - 2
      BY <3>2, <3>3, TwoRemoved
    <3>5. Cardinality(W \cup {c1}) = Cardinality(W) + 1
      BY <3>2, <3>3, FS_AddElement
    <3>6. Cardinality((U \ {c1}) \ {c2}) + 2 * Cardinality(W \cup {c1}) = x
      BY <3>2, <3>4, <3>5
    <3> QED BY <3>1, <3>6
  <2>5. CASE pids[c1][1] \notin Group(m, t)
    <3>1. /\ OfGroup(Valid', pids', Group(m, t)) = V(t)
          /\ OfGroup(Reuse', pids', Group(m, t)) = R(t)
      BY <1>3, <2>1, <2>2, <2>5 DEF OfGroup
    <3> QED BY <1>10, <3>1
  <2> QED BY <2>4, <2>5
<1> HIDE DEF V, R
<1> QED BY <1>9, <1>10, <1>11, <1>12 DEF GroupInv

\* Every step keeps the groups.
LEMMA GroupStep ==
  ASSUME TypeOK, CountInv, SizeInv, PlaceInv, GroupInv, [Next]_vars
  PROVE  GroupInv'
<1>1. CASE init_cliques
  <2> SUFFICES ASSUME Clustered(default_matrix') PROVE GroupInv'
    BY DEF GroupInv
  <2>1. PICK m \in Matrices : m = default_matrix'
    BY <1>1 DEF init_cliques
  <2>2. /\ pids' = [c \in Thread |-> <<c>>] /\ flag' = [c \in Thread |-> "C_VALID"]
        /\ pc' = "outer"
    BY <1>1 DEF init_cliques
  <2>3. Valid' = Thread /\ Reuse' = {} /\ InUse' = Thread
    BY <2>2 DEF Valid, Reuse, InUse
  <2>4. \A c \in Thread : DOMAIN pids'[c] = {1} /\ pids'[c][1] = c
    BY <2>2
  <2>5. Clustered(m)
    BY <2>1
  <2>6. \A a \in Thread : /\ OfGroup(Valid', pids', Group(default_matrix', a)) = Group(m, a)
                          /\ OfGroup(Reuse', pids', Group(default_matrix', a)) = {}
    <3>1. \A a \in Thread : Group(default_matrix, a)' = Group(m, a)
      BY <2>1 DEF Group
    <3>2. \A a \in Thread : Group(m, a) \subseteq Thread
      BY <2>5, GroupFacts
    <3> QED BY <2>3, <2>4, <3>1, <3>2 DEF OfGroup
  <2>7. \A a \in Thread : num_nodes * Cardinality(Group(m, a)) = NTHREADS
                          /\ Cardinality(Group(m, a)) \in Nat
    <3> SUFFICES ASSUME NEW a \in Thread
                 PROVE  num_nodes * Cardinality(Group(m, a)) = NTHREADS
                        /\ Cardinality(Group(m, a)) \in Nat
      OBVIOUS
    <3>1. num_nodes * Cardinality(Group(m, a)) = NTHREADS /\ Group(m, a) \in SUBSET Thread
      BY <2>5, GroupFacts
    <3> QED BY <3>1, ThreadFacts, FS_Subset, FS_CardinalityType
  <2>8. PICK x \in Nat : num_nodes * x = NTHREADS
    <3>1. 0 \in Thread
      BY ThreadFacts DEF Thread
    <3> QED BY <2>7, <3>1
  <2>9. \A a \in Thread : Cardinality(Group(m, a)) = x
    BY <2>7, <2>8, NodeAssumption
  <2>10. Cardinality(Valid') = NTHREADS /\ Cardinality(Reuse') = 0 /\ Cardinality({}) = 0
    BY <2>3, ThreadFacts, FS_EmptySet
  <2>11. x * num_nodes = Cardinality(Valid') + 2 * Cardinality(Reuse')
    BY <2>8, <2>10, NodeAssumption, ThreadFacts
  <2>12. \A a \in Thread : Cardinality(OfGroup(Valid', pids', Group(default_matrix', a)))
            + 2 * Cardinality(OfGroup(Reuse', pids', Group(default_matrix', a))) = x
    BY <2>6, <2>9, <2>10
  <2>13. \A c \in InUse' : \A i \in DOMAIN pids'[c] : i = 1
    BY <2>3, <2>4
  <2> QED BY <2>2, <2>11, <2>12, <2>13 DEF GroupInv
<1>2. CASE NextRound
  <2> SUFFICES ASSUME Clustered(default_matrix) PROVE GroupInv'
    BY <1>2 DEF NextRound, GroupInv
  <2>1. /\ pc = "outer" /\ cliques_size > num_nodes /\ pc' = "inner"
        /\ UNCHANGED <<default_matrix, pids, flag>>
    BY <1>2 DEF NextRound
  <2>2. Valid' = Valid /\ Reuse' = Reuse /\ InUse' = InUse
    BY <2>1 DEF Valid, Reuse, InUse
  <2>3. PICK x \in Nat :
         /\ x * num_nodes = Cardinality(Valid) + 2 * Cardinality(Reuse)
         /\ \A a \in Thread :
              Cardinality(OfGroup(Valid, pids, Group(default_matrix, a)))
                + 2 * Cardinality(OfGroup(Reuse, pids, Group(default_matrix, a))) = x
    BY <2>1 DEF GroupInv
  <2>4. Cardinality(Reuse) = 0 /\ Cardinality(Valid) \in Powers /\ Cardinality(Valid) > num_nodes
    BY <2>1, FS_EmptySet DEF CountInv
  <2>5. Cardinality(Valid) \in Nat /\ num_nodes \in Nat /\ num_nodes # 0
    BY SetFacts, NodeAssumption
  <2>6. Cardinality(Valid) = num_nodes * x
    BY <2>3, <2>4, <2>5
  <2>7. x # 1
    BY <2>4, <2>5, <2>6
  <2>8. \E y \in Nat : x = 2 * y
    BY <2>4, <2>5, <2>6, <2>7, FactorEven
  <2> QED BY <2>1, <2>2, <2>3, <2>8 DEF GroupInv
<1>3. CASE Merge
  <2> SUFFICES ASSUME Clustered(default_matrix) PROVE GroupInv'
    BY <1>3 DEF Merge, GroupInv
  <2>1. PICK c1 \in Valid, c2 \in Valid :
          /\ c1 # c2
          /\ \A d \in Valid \ {c1} : clique_distance(c1, d) <= clique_distance(c1, c2)
          /\ pids' = [pids EXCEPT ![c1] = @ \o pids[c2]]
          /\ flag' = [flag EXCEPT ![c1] = "C_REUSE", ![c2] = "C_INVALID"]
    BY <1>3, MergeStep
  <2>2. pc = "inner" /\ default_matrix' = default_matrix
    BY <1>3 DEF Merge
  <2> QED BY <2>1, <2>2, GroupMerge
<1>4. CASE reset_cliques
  <2> SUFFICES ASSUME Clustered(default_matrix) PROVE GroupInv'
    BY <1>4 DEF reset_cliques, GroupInv
  <2>1. /\ pc = "inner" /\ cliques_size = 0 /\ pids' = pids /\ default_matrix' = default_matrix
        /\ flag' = [c \in Thread |-> IF flag[c] = "C_REUSE" THEN "C_VALID" ELSE flag[c]]
        /\ pc' = "outer"
    BY <1>4, ResetFacts
  <2>2. Cardinality(Valid) = 0 /\ Valid = {}
    <3>1. Cardinality(Valid) = 0
      BY <2>1 DEF CountInv
    <3> QED BY <3>1, SetFacts, FS_EmptySet
  <2>3. Valid' = Reuse /\ Reuse' = {} /\ InUse' = InUse
    BY <2>1, <2>2 DEF Valid, Reuse, InUse, TypeOK
  <2>4. PICK x \in Nat, y \in Nat :
         /\ x * num_nodes = Cardinality(Valid) + 2 * Cardinality(Reuse)
         /\ \A a \in Thread :
              Cardinality(OfGroup(Valid, pids, Group(default_matrix, a)))
                + 2 * Cardinality(OfGroup(Reuse, pids, Group(default_matrix, a))) = x
         /\ x = 2 * y
    BY <2>1 DEF GroupInv
  <2>5. Cardinality({}) = 0 /\ Cardinality(Reuse) \in Nat /\ num_nodes \in Nat
    BY SetFacts, FS_EmptySet, NodeAssumption
  <2>6. y * num_nodes = Cardinality(Valid') + 2 * Cardinality(Reuse')
    <3>1. 2 * (y * num_nodes) = 2 * Cardinality(Reuse) /\ y * num_nodes \in Nat
      BY <2>2, <2>4, <2>5
    <3>2. y * num_nodes = Cardinality(Reuse)
      BY <2>5, <3>1
    <3> QED BY <2>3, <2>5, <3>2
  <2>7. ASSUME NEW a \in Thread
        PROVE  Cardinality(OfGroup(Valid', pids', Group(default_matrix', a)))
                 + 2 * Cardinality(OfGroup(Reuse', pids', Group(default_matrix', a))) = y
    <3>1. /\ OfGroup(Valid', pids', Group(default_matrix', a)) = OfGroup(Reuse, pids, Group(default_matrix, a))
          /\ OfGroup(Reuse', pids', Group(default_matrix', a)) = {}
          /\ OfGroup(Valid, pids, Group(default_matrix, a)) = {}
      BY <2>1, <2>2, <2>3 DEF OfGroup, Group
    <3>2. Cardinality(OfGroup(Reuse, pids, Group(default_matrix, a))) \in Nat
      BY OfGroupFacts
    <3> QED BY <2>4, <2>5, <3>1, <3>2
  <2>8. \A c \in InUse' : \A i \in DOMAIN pids'[c] :
          Group(default_matrix, pids'[c][i]) = Group(default_matrix, pids'[c][1])
    BY <2>1, <2>3 DEF GroupInv
  <2> QED BY <2>1, <2>6, <2>7, <2>8 DEF GroupInv
<1>5. CASE calculate_threads_chosen
  BY <1>5 DEF calculate_threads_chosen, GroupInv
<1>6. CASE UNCHANGED vars
  <2>1. UNCHANGED <<pc, default_matrix, pids, flag>>
    BY <1>6 DEF vars
  <2>2. Valid' = Valid /\ Reuse' = Reuse /\ InUse' = InUse
    BY <2>1 DEF Valid, Reuse, InUse
  <2> QED BY <2>1, <2>2 DEF GroupInv
<1> QED BY <1>1, <1>2, <1>3, <1>4, <1>5, <1>6 DEF Next

\* At the end a group has one clique, so its threads get one node.
LEMMA TogetherStep ==
  ASSUME TypeOK, CountInv, SizeInv, PlaceInv, GroupInv, calculate_threads_chosen
  PROVE  GroupsTogether'
<1> DEFINE m == default_matrix
           rank(h) == Cardinality({d \in Valid : d < h})
<1> SUFFICES ASSUME Clustered(m), cliques_size > 0, NEW a \in Thread, NEW b \in Thread, m[a][b] > 0
             PROVE  threads_chosen'[a] \div cores_per_node = threads_chosen'[b] \div cores_per_node
  BY DEF GroupsTogether, calculate_threads_chosen
<1>1. /\ pc = "outer" /\ m \in Matrices /\ cliques_size = Cardinality(Valid)
      /\ Cardinality(Valid) <= num_nodes /\ Cardinality(Valid) > 0 /\ Cardinality(Reuse) = 0
  BY FS_EmptySet DEF calculate_threads_chosen, CountInv, TypeOK
<1>2. PICK x \in Nat :
        /\ x * num_nodes = Cardinality(Valid) + 2 * Cardinality(Reuse)
        /\ \A t \in Thread : Cardinality(OfGroup(Valid, pids, Group(m, t)))
                               + 2 * Cardinality(OfGroup(Reuse, pids, Group(m, t))) = x
  BY <1>1 DEF GroupInv
<1>3. x = 1
  <2>1. num_nodes \in Nat \ {0} /\ Cardinality(Valid) \in Nat
    BY NodeAssumption, SetFacts
  <2>2. x * num_nodes > 0 /\ x * num_nodes <= num_nodes
    BY <1>1, <1>2, <2>1
  <2>3. x # 0
    BY <2>1, <2>2
  <2>4. ~ (x >= 2)
    <3>1. SUFFICES ASSUME x >= 2 PROVE FALSE
      OBVIOUS
    <3>2. PICK z \in Nat : x = 2 + z
      <4>1. x - 2 \in Nat /\ x = 2 + (x - 2)
        BY <3>1
      <4> QED BY <4>1
    <3>3. x * num_nodes = 2 * num_nodes + z * num_nodes /\ z * num_nodes \in Nat
      BY <2>1, <3>2
    <3> QED BY <2>1, <2>2, <3>3
  <2> QED BY <2>3, <2>4
<1>4. Cardinality(OfGroup(Valid, pids, Group(m, a))) = 1
  <2>1. /\ Cardinality(OfGroup(Valid, pids, Group(m, a))) \in Nat
        /\ Cardinality(OfGroup(Reuse, pids, Group(m, a))) \in Nat
    BY OfGroupFacts
  <2>2. Reuse = {}
    BY <1>1 DEF CountInv
  <2>3. OfGroup(Reuse, pids, Group(m, a)) = {}
    BY <2>2 DEF OfGroup
  <2>4. Cardinality(OfGroup(Reuse, pids, Group(m, a))) = 0
    BY <2>3, FS_EmptySet
  <2>5. Cardinality(OfGroup(Valid, pids, Group(m, a)))
          + 2 * Cardinality(OfGroup(Reuse, pids, Group(m, a))) = 1
    BY <1>2, <1>3
  <2> QED BY <2>1, <2>4, <2>5
<1>5. PICK g : OfGroup(Valid, pids, Group(m, a)) = {g}
  BY <1>4, OfGroupFacts, FS_Singleton
<1>6. Group(m, b) = Group(m, a)
  BY <1>1, GroupFacts DEF Group
<1>7. ASSUME NEW t \in {a, b}
      PROVE  \E i \in DOMAIN pids[g] : g \in Valid /\ pids[g][i] = t
  <2>1. PICK h \in Valid : \E i \in DOMAIN pids[h] : pids[h][i] = t
    BY Placement
  <2>2. PICK i \in DOMAIN pids[h] : pids[h][i] = t
    BY <2>1
  <2>3. h \in InUse /\ pids[h][1] \in Thread
    BY <1>1, NotEmpty
  <2>4. Group(m, pids[h][1]) = Group(m, a)
    BY <1>1, <1>6, <2>2, <2>3 DEF GroupInv
  <2>5. pids[h][1] \in Group(m, a)
    BY <1>1, <2>3, <2>4, GroupFacts
  <2>6. h = g
    BY <1>5, <2>5 DEF OfGroup
  <2> QED BY <2>2, <2>6
<1>8. g \in Valid
  BY <1>7
<1>9. ASSUME NEW t \in {a, b}
      PROVE  threads_chosen'[t] \div cores_per_node = rank(g)
  <2>1. PICK i \in DOMAIN pids[g] : pids[g][i] = t
    BY <1>7
  <2>2. threads_chosen'[t] = cores_per_node * rank(g) + ((i - 1) % cores_per_node)
    BY <1>8, <2>1, Placement DEF assign_cpu
  <2>3. PICK n \in Nat : n = rank(g)
    <3>1. rank(g) \in 0 .. Cardinality(Valid) - 1
      BY <1>8, Ranks
    <3> QED BY <3>1
  <2>4. cores_per_node \in Nat \ {0}
    BY NodeAssumption
  <2>5. PICK r \in 0 .. cores_per_node - 1 : r = (i - 1) % cores_per_node
    <3>1. DOMAIN pids[g] = 1 .. Len(pids[g]) /\ Len(pids[g]) \in Nat
      BY <1>8, SetFacts, Members
    <3>2. PICK k \in Nat : k = i - 1
      BY <3>1
    <3>3. k % cores_per_node \in 0 .. cores_per_node - 1
      BY <2>4, <3>2, Division
    <3> QED BY <3>2, <3>3
  <2>6. (cores_per_node * n + r) \div cores_per_node = n
    BY <2>4, Quotient
  <2> HIDE DEF rank
  <2> QED BY <2>2, <2>3, <2>5, <2>6
<1> HIDE DEF rank
<1> QED BY <1>9

-----------------------------------------------------------------------------
(* The balance.                                                            *)

\* The places 1 .. s whose thread gets the core with number r of its node.
Turn(s, r) == {i \in 1 .. s : (i - 1) % cores_per_node = r}

LEMMA TurnFinite ==
  ASSUME NEW s \in Nat, NEW r
  PROVE  IsFiniteSet(Turn(s, r)) /\ Cardinality(Turn(s, r)) \in Nat /\ Cardinality(Turn(s, r)) <= s
<1>1. IsFiniteSet(1 .. s) /\ Cardinality(1 .. s) = s
  BY FS_Interval
<1>2. Turn(s, r) \in SUBSET (1 .. s)
  BY DEF Turn
<1> QED BY <1>1, <1>2, FS_Subset, FS_CardinalityType

\* Any two cores of a node get the same number of places or one more.
LEMMA TurnsEven ==
  ASSUME NEW s \in Nat, NEW a \in 0 .. cores_per_node - 1, NEW b \in 0 .. cores_per_node - 1
  PROVE  Cardinality(Turn(s, a)) <= Cardinality(Turn(s, b)) + 1
<1> DEFINE c == cores_per_node
<1>0. /\ c \in Nat \ {0} /\ a \in Nat /\ b \in Nat /\ a < c /\ b < c
      /\ a \in 0 .. c - 1 /\ b \in 0 .. c - 1
  BY NodeAssumption
<1>1. /\ IsFiniteSet(Turn(s, a)) /\ Cardinality(Turn(s, a)) \in Nat
      /\ IsFiniteSet(Turn(s, b)) /\ Cardinality(Turn(s, b)) \in Nat
  BY TurnFinite
<1>2. ASSUME NEW r \in 0 .. c - 1, NEW i \in Turn(s, r)
      PROVE  i \in 1 .. s /\ \E q \in Nat : i - 1 = c * q + r
  <2>1. i \in 1 .. s /\ i - 1 \in Nat /\ (i - 1) % c = r
    BY DEF Turn
  <2> HIDE DEF c
  <2>2. i - 1 = c * ((i - 1) \div c) + r /\ (i - 1) \div c \in Nat
    BY <1>0, <2>1, Division
  <2> QED BY <2>1, <2>2
<1>3. ASSUME NEW r \in 0 .. c - 1, NEW q \in Nat, NEW i \in 1 .. s, i - 1 = c * q + r
      PROVE  i \in Turn(s, r)
  <2> HIDE DEF c
  <2>1. (i - 1) % c = r
    BY <1>0, <1>3, Quotient
  <2> QED BY <2>1 DEF Turn, c
<1>4. CASE b <= a
  <2> DEFINE f == [i \in Turn(s, a) |-> i - (a - b)]
  <2>1. ASSUME NEW i \in Turn(s, a) PROVE i - (a - b) \in Turn(s, b) /\ i \in Int
    <3>1. PICK q \in Nat : i \in 1 .. s /\ i - 1 = c * q + a
      BY <1>2
    <3> HIDE DEF c
    <3>2. c * q \in Nat
      BY <1>0
    <3>3. i - (a - b) - 1 = c * q + b /\ i - (a - b) \in 1 .. s
      BY <1>0, <1>4, <3>1, <3>2
    <3> QED BY <1>0, <1>3, <3>1, <3>3
  <2>2. f \in [Turn(s, a) -> Turn(s, b)]
    BY <2>1
  <2>3. \A i, j \in Turn(s, a) : f[i] = f[j] => i = j
    BY <1>0, <2>1
  <2>4. f \in Injection(Turn(s, a), Turn(s, b))
    BY <2>2, <2>3 DEF Injection, IsInjective
  <2> HIDE DEF f
  <2>5. Cardinality(Turn(s, a)) <= Cardinality(Turn(s, b))
    BY <1>1, <2>4, FS_Injection
  <2> QED BY <1>1, <2>5
<1>5. CASE a < b
  <2> DEFINE A == Turn(s, a) \ {a + 1}
             f == [i \in A |-> i - c + (b - a)]
  <2>1. ASSUME NEW i \in A PROVE i - c + (b - a) \in Turn(s, b) /\ i \in Int
    <3>1. PICK q \in Nat : i \in 1 .. s /\ i - 1 = c * q + a
      BY <1>2
    <3> HIDE DEF c
    <3>2. q # 0
      <4>1. i # a + 1
        OBVIOUS
      <4>2. q = 0 => c * q = 0
        BY <1>0
      <4> QED BY <1>0, <3>1, <4>1, <4>2
    <3>3. PICK p \in Nat : q = p + 1
      <4>1. q - 1 \in Nat /\ q = (q - 1) + 1
        BY <3>2
      <4> QED BY <4>1
    <3>4. c * q = c * p + c /\ c * p \in Nat
      BY <1>0, <3>3
    <3>5. PICK j \in 1 .. s : j = i - c + (b - a) /\ j - 1 = c * p + b
      BY <1>0, <1>5, <3>1, <3>4
    <3>6. j \in Turn(s, b)
      BY <1>0, <1>3, <3>5
    <3> QED BY <3>1, <3>5, <3>6
  <2>2. f \in [A -> Turn(s, b)]
    BY <2>1
  <2>3. \A i, j \in A : f[i] = f[j] => i = j
    BY <1>0, <2>1
  <2>4. f \in Injection(A, Turn(s, b))
    BY <2>2, <2>3 DEF Injection, IsInjective
  <2> HIDE DEF f
  <2>5. Cardinality(A) <= Cardinality(Turn(s, b))
    <3> HIDE DEF A
    <3> QED BY <1>1, <2>4, FS_Injection
  <2>6. Cardinality(A) = IF a + 1 \in Turn(s, a) THEN Cardinality(Turn(s, a)) - 1
                         ELSE Cardinality(Turn(s, a))
    BY <1>1, FS_RemoveElement
  <2> QED BY <1>1, <2>5, <2>6
<1> QED BY <1>0, <1>4, <1>5

\* The cores the analysis chooses are balanced.
LEMMA BalanceStep ==
  ASSUME TypeOK, CountInv, PlaceInv, SizeInv, calculate_threads_chosen
  PROVE  CoresBalanced'
<1> DEFINE c == cores_per_node
           v == Cardinality(Valid)
           rank(h) == Cardinality({d \in Valid : d < h})
           core == threads_chosen'
           OnCore(k) == {t \in Thread : core[t] = k}
           OnNode(n) == {t \in Thread : core[t] \div c = n}
<1>1. c \in Nat \ {0} /\ v \in Nat /\ NTHREADS \in Nat \ {0}
  BY NodeAssumption, SetFacts, ThreadFacts
<1>2. PICK s \in Nat \ {0} : (\A h \in Valid : Len(pids[h]) = s) /\ s * v = NTHREADS
  <2>1. pc = "outer"
    BY DEF calculate_threads_chosen
  <2>2. Cardinality(Reuse) = 0
    BY <2>1, FS_EmptySet DEF CountInv
  <2>3. v + 2 * 0 = v
    BY <1>1
  <2> QED BY <2>1, <2>2, <2>3 DEF SizeInv
<1>3. cliques_size' = v
  BY DEF calculate_threads_chosen, CountInv
<1>4. \A h \in Valid : DOMAIN pids[h] = 1 .. s
  BY <1>2, SetFacts, Members
<1>5. /\ \A h \in Valid : rank(h) \in 0 .. v - 1
      /\ \A h, k \in Valid : rank(h) = rank(k) => h = k
      /\ \A n \in 0 .. v - 1 : \E h \in Valid : rank(h) = n
  BY Ranks
<1>6. /\ \A h \in Valid : \A i \in 1 .. s : core[pids[h][i]] = assign_cpu(rank(h), i)
      /\ \A t \in Thread : \E h \in Valid : \E i \in 1 .. s : pids[h][i] = t
      /\ \A h, k \in Valid : \A i, j \in 1 .. s : pids[h][i] = pids[k][j] => h = k /\ i = j
  <2> HIDE DEF core, rank
  <2> QED BY <1>4, Placement DEF core, rank
<1> HIDE DEF rank, core
<1>7. ASSUME NEW h \in Valid, NEW i \in 1 .. s
      PROVE  /\ pids[h][i] \in Thread
             /\ core[pids[h][i]] = c * rank(h) + ((i - 1) % c)
             /\ core[pids[h][i]] \div c = rank(h) /\ core[pids[h][i]] % c = (i - 1) % c
  <2>1. pids[h][i] \in Thread
    BY <1>4, SetFacts, Members
  <2>2. core[pids[h][i]] = c * rank(h) + ((i - 1) % c)
    BY <1>6 DEF assign_cpu
  <2> HIDE DEF c
  <2>3. PICK r \in 0 .. c - 1 : r = (i - 1) % c
    <3>1. PICK m \in Nat : m = i - 1
      OBVIOUS
    <3>2. m % c \in 0 .. c - 1
      BY <1>1, Division
    <3> QED BY <3>1, <3>2
  <2>4. PICK n \in Nat : n = rank(h)
    BY <1>1, <1>5
  <2>5. (c * n + r) \div c = n /\ (c * n + r) % c = r
    BY <1>1, Quotient
  <2> QED BY <2>1, <2>2, <2>3, <2>4, <2>5
<1> HIDE DEF c
<1>8. ASSUME NEW n \in 0 .. v - 1
      PROVE  Cardinality(OnNode(n)) = s
  <2>1. PICK h \in Valid : rank(h) = n
    BY <1>5
  <2>2. IsFiniteSet(1 .. s) /\ Cardinality(1 .. s) = s
    BY FS_Interval
  <2>3. \A i \in 1 .. s : pids[h][i] \in OnNode(n)
    BY <1>7, <2>1
  <2>4. ASSUME NEW t \in OnNode(n) PROVE \E i \in 1 .. s : pids[h][i] = t
    <3>1. PICK k \in Valid, i \in 1 .. s : pids[k][i] = t
      BY <1>6
    <3>2. rank(k) = n
      BY <1>7, <3>1
    <3> QED BY <1>5, <2>1, <3>1, <3>2
  <2>5. \A i, j \in 1 .. s : pids[h][i] = pids[h][j] => i = j
    BY <1>6
  <2> HIDE DEF OnNode
  <2>6. PICK q : q = pids[h]
    OBVIOUS
  <2>7. Cardinality(OnNode(n)) = Cardinality(1 .. s)
    BY <2>2, <2>3, <2>4, <2>5, <2>6, Listed
  <2> QED BY <2>2, <2>7
<1>9. ASSUME NEW n \in 0 .. v - 1, NEW r \in 0 .. c - 1
      PROVE  Cardinality(OnCore(c * n + r)) = Cardinality(Turn(s, r))
  <2>1. PICK h \in Valid : rank(h) = n
    BY <1>5
  <2>2. IsFiniteSet(Turn(s, r))
    BY TurnFinite
  <2>3. Turn(s, r) = {i \in 1 .. s : (i - 1) % c = r}
    BY DEF Turn, c
  <2>4. \A i \in Turn(s, r) : pids[h][i] \in OnCore(c * n + r)
    BY <1>7, <2>1, <2>3
  <2>5. ASSUME NEW t \in OnCore(c * n + r) PROVE \E i \in Turn(s, r) : pids[h][i] = t
    <3>1. PICK k \in Valid, i \in 1 .. s : pids[k][i] = t
      BY <1>6
    <3>2. core[t] \div c = n /\ core[t] % c = r
      <4>1. core[t] = c * n + r /\ n \in Nat
        OBVIOUS
      <4>2. (c * n + r) \div c = n /\ (c * n + r) % c = r
        BY <1>1, <4>1, Quotient
      <4> QED BY <4>1, <4>2
    <3>3. rank(k) = n /\ (i - 1) % c = r
      BY <1>7, <3>1, <3>2
    <3>4. k = h
      BY <1>5, <2>1, <3>3
    <3> QED BY <2>3, <3>1, <3>3, <3>4
  <2>6. \A i, j \in Turn(s, r) : pids[h][i] = pids[h][j] => i = j
    BY <1>6, <2>3
  <2> HIDE DEF OnCore
  <2> QED BY <2>2, <2>4, <2>5, <2>6, Listed
<1>10. ASSUME NEW j \in 0 .. v * c - 1
       PROVE  \E n \in 0 .. v - 1, r \in 0 .. c - 1 :
                j \div c = n /\ Cardinality(OnCore(j)) = Cardinality(Turn(s, r))
  <2>1. PICK n \in Nat, r \in 0 .. c - 1 : n = j \div c /\ j = c * n + r
    <3>1. j \in Nat
      BY <1>1
    <3>2. j \div c \in Nat /\ j % c \in 0 .. c - 1 /\ j = c * (j \div c) + (j % c)
      BY <1>1, <3>1, Division
    <3> QED BY <3>2
  <2>2. n < v
    <3>1. SUFFICES ASSUME v <= n PROVE FALSE
      BY <1>1
    <3>2. PICK d \in Nat : n = v + d
      <4>1. n - v \in Nat /\ n = v + (n - v)
        BY <1>1, <3>1
      <4> QED BY <4>1
    <3>3. c * n = v * c + c * d /\ c * d \in Nat /\ v * c \in Nat
      BY <1>1, <3>2
    <3> QED BY <2>1, <3>3
  <2>3. n \in 0 .. v - 1
    BY <1>1, <2>2
  <2> HIDE DEF OnCore
  <2> QED BY <1>9, <2>1, <2>3
<1>11. NTHREADS \div v = s
  <2>1. v # 0
    BY <1>1, <1>2
  <2>2. v * s + 0 = NTHREADS /\ 0 \in 0 .. v - 1 /\ v \in Nat \ {0}
    BY <1>1, <1>2, <2>1
  <2>3. (v * s + 0) \div v = s
    BY <2>2, Quotient
  <2> QED BY <2>2, <2>3
<1>12. ASSUME NEW j \in 0 .. v * c - 1, NEW k \in 0 .. v * c - 1
       PROVE  Cardinality(OnCore(j)) <= Cardinality(OnCore(k)) +
                (IF j \div c = k \div c THEN 1 ELSE NTHREADS \div v)
  <2>1. PICK n \in 0 .. v - 1, r \in 0 .. c - 1 :
          j \div c = n /\ Cardinality(OnCore(j)) = Cardinality(Turn(s, r))
    BY <1>10
  <2>2. PICK m \in 0 .. v - 1, e \in 0 .. c - 1 :
          k \div c = m /\ Cardinality(OnCore(k)) = Cardinality(Turn(s, e))
    BY <1>10
  <2>3. /\ Cardinality(Turn(s, r)) \in Nat /\ Cardinality(Turn(s, r)) <= s
        /\ Cardinality(Turn(s, e)) \in Nat
    BY TurnFinite
  <2>4. Cardinality(Turn(s, r)) <= Cardinality(Turn(s, e)) + 1
    BY TurnsEven DEF c
  <2> HIDE DEF OnCore
  <2> QED BY <1>11, <2>1, <2>2, <2>3, <2>4
<1>13. \A n \in 0 .. v - 1 : NTHREADS = v * Cardinality(OnNode(n))
  <2> HIDE DEF OnNode
  <2> QED BY <1>1, <1>2, <1>8
<1> QED
  <2>1. \A k : Load(k)' = Cardinality(OnCore(k))
    BY DEF Load, core
  <2>2. \A n : {t \in Thread : threads_chosen'[t] \div cores_per_node = n} = OnNode(n)
    BY DEF core, c
  <2> HIDE DEF OnCore, OnNode
  <2> QED BY <1>3, <1>12, <1>13, <2>1, <2>2 DEF CoresBalanced, c

-----------------------------------------------------------------------------
(* The invariant, and what follows from it.                                *)

\* The memory the module is loaded with satisfies it.
LEMMA InvariantInit == Init => IInv
<1> SUFFICES ASSUME Init PROVE IInv
  OBVIOUS
<1>1. CountInv /\ PlaceInv /\ SizeInv /\ GroupInv
  BY DEF Init, CountInv, PlaceInv, SizeInv, GroupInv
<1>2. NTHREADS \in Nat
  BY ThreadFacts
<1>3. \A c \in Thread : pids[c] = <<>> /\ Len(pids[c]) <= NTHREADS
  BY <1>2 DEF Init
<1>4. pids \in [Thread -> Seq(Thread)]
  BY DEF Init
<1>5. 0 \in 0 .. num_nodes * cores_per_node - 1
  <2>1. num_nodes * cores_per_node \in Nat \ {0}
    BY NodeAssumption
  <2> QED BY <2>1
<1>6. threads_chosen \in [Thread -> 0 .. num_nodes * cores_per_node - 1]
  BY <1>5 DEF Init
<1>7. TypeOK
  BY <1>2, <1>3, <1>4, <1>6 DEF Init, TypeOK
<1> QED BY <1>1, <1>7 DEF IInv

\* Every reachable state satisfies the inductive invariant.
THEOREM Invariant == Spec => []IInv
<1>1. IInv /\ [Next]_vars => IInv'
  <2> SUFFICES ASSUME IInv, [Next]_vars PROVE IInv'
    OBVIOUS
  <2>1. TypeOK /\ CountInv /\ PlaceInv /\ SizeInv /\ GroupInv
    BY DEF IInv
  <2>2. CountInv' /\ PlaceInv' /\ SizeInv' /\ GroupInv'
    BY <2>1, CountStep, PlaceStep, SizeStep, GroupStep
  <2>3. TypeOK'
    BY <2>1, <2>2, TypeStep
  <2> QED BY <2>2, <2>3 DEF IInv
<1> QED BY <1>1, InvariantInit, PTL DEF Spec

\* No clique outgrows pids[NTHREADS], and a chosen core is a core of the machine
\* (clique.c:254, 322-330).
THEOREM TypeCorrect == Spec => []TypeOK
<1>1. IInv => TypeOK
  BY DEF IInv
<1> QED BY <1>1, Invariant, PTL

\* Merging neither loses nor duplicates a thread (clique.c:239-267).
THEOREM Partitioned == Spec => []Partition
<1>1. ASSUME IInv PROVE Partition
  <2> SUFFICES ASSUME pc # "done", NEW t \in Thread PROVE Cardinality(Places(t)) = 1
    BY DEF Partition
  <2>1. TypeOK /\ OwnedOnce /\ Covered
    BY <1>1 DEF IInv, PlaceInv
  <2>2. PICK c \in InUse : \E i \in DOMAIN pids[c] : pids[c][i] = t
    BY <2>1 DEF Covered
  <2>3. PICK i \in DOMAIN pids[c] : pids[c][i] = t
    BY <2>2
  <2>4. c \in Thread /\ flag[c] # "C_INVALID"
    BY DEF InUse
  <2>5. i \in 1 .. NTHREADS
    <3>1. DOMAIN pids[c] = 1 .. Len(pids[c]) /\ Len(pids[c]) \in Nat
      BY <2>1, <2>4, Members
    <3>2. Len(pids[c]) <= NTHREADS /\ NTHREADS \in Nat
      BY <2>1, <2>4, ThreadFacts DEF TypeOK
    <3> QED BY <3>1, <3>2
  <2>6. <<c, i>> \in Places(t)
    BY <2>3, <2>4, <2>5 DEF Places
  <2>7. ASSUME NEW p \in Places(t)
        PROVE  p = <<c, i>>
    <3>1. p \in Thread \X (1 .. NTHREADS) /\ p = <<p[1], p[2]>>
      BY DEF Places
    <3>2. p[1] \in InUse /\ p[2] \in DOMAIN pids[p[1]] /\ pids[p[1]][p[2]] = t
      BY <3>1 DEF Places, InUse
    <3>3. p[1] = c /\ p[2] = i
      BY <2>1, <2>3, <3>2 DEF OwnedOnce
    <3> QED BY <3>1, <3>3
  <2>8. Places(t) = {<<c, i>>}
    BY <2>6, <2>7
  <2> QED BY <2>8, FS_Singleton
<1> QED BY <1>1, Invariant, PTL

\* cliques_size is the number of the valid cliques (clique.c:250, 261, 302, 315).
THEOREM Counted == Spec => []SizeCounted
<1>1. IInv => SizeCounted
  BY DEF IInv, CountInv, SizeCounted
<1> QED BY <1>1, Invariant, PTL

\* find_neighbor never returns its uninitialized c2 (clique.c:282, 294).
THEOREM NeighborExists == Spec => []NeighborFound
<1>1. IInv => NeighborFound
  BY TwoValid DEF IInv, NeighborFound
<1> QED BY <1>1, Invariant, PTL

\* The nodes share the threads evenly, and so do the cores of a node (clique.c:322-337).
THEOREM Balanced == Spec => []CoresBalanced
<1>1. Init => CoresBalanced
  BY DEF Init, CoresBalanced
<1>2. IInv /\ CoresBalanced /\ [Next]_vars => CoresBalanced'
  <2> SUFFICES ASSUME IInv, CoresBalanced, [Next]_vars PROVE CoresBalanced'
    OBVIOUS
  <2>1. CASE calculate_threads_chosen
    BY <2>1, BalanceStep DEF IInv
  <2>2. CASE init_cliques \/ NextRound \/ Merge \/ reset_cliques
    <3>1. pc' # "done"
      BY <2>2 DEF init_cliques, NextRound, Merge, reset_cliques
    <3> QED BY <3>1 DEF CoresBalanced
  <2>3. CASE UNCHANGED vars
    <3>1. UNCHANGED <<pc, cliques_size, threads_chosen>>
      BY <2>3 DEF vars
    <3>2. \A k : Load(k)' = Load(k)
      BY <3>1 DEF Load
    <3> QED BY <3>1, <3>2 DEF CoresBalanced
  <2> QED BY <2>1, <2>2, <2>3 DEF Next
<1> QED BY <1>1, <1>2, Invariant, PTL DEF Spec

\* If the threads communicate in groups that fit the nodes, each group ends up on one node
\* (clique.c:269-294, 347-369).
THEOREM Together == Spec => []GroupsTogether
<1>1. Init => GroupsTogether
  BY DEF Init, GroupsTogether
<1>2. IInv /\ GroupsTogether /\ [Next]_vars => GroupsTogether'
  <2> SUFFICES ASSUME IInv, GroupsTogether, [Next]_vars PROVE GroupsTogether'
    OBVIOUS
  <2>1. CASE calculate_threads_chosen
    BY <2>1, TogetherStep DEF IInv
  <2>2. CASE init_cliques \/ NextRound \/ Merge \/ reset_cliques
    <3>1. pc' # "done"
      BY <2>2 DEF init_cliques, NextRound, Merge, reset_cliques
    <3> QED BY <3>1 DEF GroupsTogether
  <2>3. CASE UNCHANGED vars
    BY <2>3 DEF vars, GroupsTogether
  <2> QED BY <2>1, <2>2, <2>3 DEF Next
<1> QED BY <1>1, <1>2, Invariant, PTL DEF Spec

=============================================================================
