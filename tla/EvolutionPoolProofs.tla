------------------------ MODULE EvolutionPoolProofs ------------------------
(*****************************************************************************)
(* Proofs about ParetoFrontier and EvolutionPool, for every population,      *)
(* val score list, number of slots and cap.                                  *)
(*                                                                           *)
(* The library's induction theorems take an operator as a parameter, which   *)
(* the provers cannot instantiate.  Every induction here is a least          *)
(* counterexample instead: WFMin applied to a set of subsets of a finite     *)
(* set, ordered by strict inclusion.                                         *)
(*****************************************************************************)
EXTENDS EvolutionPool, FiniteSetTheorems, TLAPS

(* A strict total order on S, as a set of pairs.                            *)
StrictOrder(R, S) ==
    /\ \A a \in S : <<a, a>> \notin R
    /\ \A a, b, c \in S : <<a, b>> \in R /\ <<b, c>> \in R => <<a, c>> \in R
    /\ \A a, b \in S : a = b \/ <<a, b>> \in R \/ <<b, a>> \in R

Inverted(R, S) == {q \in S \X S : <<q[2], q[1]>> \in R}
-----------------------------------------------------------------------------
(* Induction over finite sets, and total orders on them.                    *)

(* Among finitely large sets one is minimal.                                *)
LEMMA SmallestSet ==
    ASSUME NEW S, IsFiniteSet(S), NEW F \in SUBSET (SUBSET S), F # {}
    PROVE  \E T \in F : \A U \in F : U \subseteq T => U = T
<1>1. FiniteSubsetsOf(S) = SUBSET S
  BY FS_FiniteSubsetsOfFinite
<1>2. IsWellFoundedOn(StrictSubsetOrdering(S), SUBSET S)
  BY <1>1, FS_StrictSubsetOrderingWellFounded
<1>3. PICK T \in F : \A U \in F : <<U, T>> \notin StrictSubsetOrdering(S)
  BY <1>2, WFMin
<1>4. \A U \in F : U \subseteq T => U = T
  BY <1>3 DEF StrictSubsetOrdering
<1> QED
  BY <1>4

LEMMA DisjointUnion ==
    ASSUME NEW A, IsFiniteSet(A), NEW B, IsFiniteSet(B), A \cap B = {}
    PROVE  Cardinality(A \cup B) = Cardinality(A) + Cardinality(B) - 0
<1>1. Cardinality(A \cap B) = 0
  BY FS_EmptySet
<1>2. Cardinality(A \cup B) = Cardinality(A) + Cardinality(B) - Cardinality(A \cap B)
  BY FS_Union
<1> QED
  BY <1>1, <1>2

(* In a strict total order every non-empty subset of a finite set has a     *)
(* first element: the one whose set of predecessors is minimal.             *)
LEMMA FirstOf ==
    ASSUME NEW S, IsFiniteSet(S), NEW R, StrictOrder(R, S), NEW T \in SUBSET S, T # {}
    PROVE  \E x \in T : \A y \in T \ {x} : <<x, y>> \in R
<1> DEFINE before(x) == {y \in T : <<y, x>> \in R}
           F == {before(x) : x \in T}
<1>1. F \in SUBSET (SUBSET S) /\ F # {}
  OBVIOUS
<1>2. PICK U \in F : \A V \in F : V \subseteq U => V = U
  <2> HIDE DEF F
  <2> QED
    BY <1>1, SmallestSet
<1>3. PICK x \in T : U = before(x)
  OBVIOUS
<1>4. \A y \in T \ {x} : <<x, y>> \in R
  <2> SUFFICES ASSUME NEW y \in T \ {x}, <<x, y>> \notin R PROVE FALSE
    OBVIOUS
  <2>1. <<y, x>> \in R
    BY DEF StrictOrder
  <2>2. before(y) \subseteq before(x)
    BY <2>1 DEF StrictOrder
  <2>3. y \in before(x) /\ y \notin before(y)
    BY <2>1 DEF StrictOrder
  <2> QED
    BY <1>2, <1>3, <2>2, <2>3
<1> QED
  BY <1>4

LEMMA InvertedOrder ==
    ASSUME NEW S, NEW R, StrictOrder(R, S)
    PROVE  /\ StrictOrder(Inverted(R, S), S)
           /\ \A a, b \in S : <<a, b>> \in Inverted(R, S) <=> <<b, a>> \in R
<1>1. \A a, b \in S : <<a, b>> \in Inverted(R, S) <=> <<b, a>> \in R
  BY DEF Inverted
<1> QED
  BY <1>1 DEF StrictOrder

LEMMA LastOf ==
    ASSUME NEW S, IsFiniteSet(S), NEW R, StrictOrder(R, S), NEW T \in SUBSET S, T # {}
    PROVE  \E x \in T : \A y \in T \ {x} : <<y, x>> \in R
<1>1. PICK x \in T : \A y \in T \ {x} : <<x, y>> \in Inverted(R, S)
  BY InvertedOrder, FirstOf
<1> QED
  BY <1>1, InvertedOrder

(* Of any order, at most n elements of a finite set have fewer than n       *)
(* elements above them.                                                     *)
LEMMA TopIsSmall ==
    ASSUME NEW S, IsFiniteSet(S), NEW R, StrictOrder(R, S), NEW n \in Nat \ {0}
    PROVE  Cardinality({c \in S : Cardinality({d \in S : <<d, c>> \in R}) < n}) <= n
<1> DEFINE above(c) == {d \in S : <<d, c>> \in R}
           T == {c \in S : Cardinality(above(c)) < n}
<1>1. IsFiniteSet(T)
  BY FS_Subset
<1>2. CASE T = {}
  <2>1. Cardinality(T) = 0
    BY <1>2, FS_EmptySet, Zenon
  <2> QED
    BY <2>1
<1>3. CASE T # {}
  <2>1. PICK x \in T : \A y \in T \ {x} : <<y, x>> \in R
    <3>1. T \in SUBSET S
      OBVIOUS
    <3> HIDE DEF T
    <3> QED
      BY <1>3, <3>1, LastOf
  <2>2. T \ {x} \subseteq above(x)
    BY <2>1
  <2>3. IsFiniteSet(above(x)) /\ Cardinality(above(x)) \in Nat /\ Cardinality(above(x)) < n
    BY FS_Subset, FS_CardinalityType
  <2>4. Cardinality(T \ {x}) <= Cardinality(above(x))
    BY <2>2, <2>3, FS_Subset
  <2>5. Cardinality(T \ {x}) = Cardinality(T) - 1 /\ Cardinality(T) \in Nat
    BY <1>1, FS_RemoveElement, FS_CardinalityType
  <2> QED
    BY <2>3, <2>4, <2>5
<1> QED
  BY <1>2, <1>3
-----------------------------------------------------------------------------
(* Sums of scores.  SumFunction is a recursive function on the subsets of   *)
(* the domain, which to the prover is a CHOOSE: it has to be shown to       *)
(* exist.                                                                   *)

Chosen(s) == CHOOSE x \in s : TRUE

SumStep(f, g, s) == IF s = {} THEN 0 ELSE f[Chosen(s)] + g[s \ {Chosen(s)}]

PartialSums(f, D, g) == g = [s \in SUBSET D |-> SumStep(f, g, s)]

LEMMA Least ==
    ASSUME NEW T \in SUBSET Nat, T # {}
    PROVE  \E x \in T : \A y \in T : x <= y
<1> DEFINE less == {q \in Nat \X Nat : q[1] < q[2]}
<1>1. IsWellFoundedOn(less, Nat)
  BY NatLessThanWellFounded DEF OpToRel
<1>2. PICK x \in T : \A y \in T : <<y, x>> \notin less
  <2> HIDE DEF less
  <2> QED
    BY <1>1, WFMin
<1>3. \A y \in T : ~(y < x)
  BY <1>2
<1> QED
  BY <1>3

(* The recursion is well founded, so a function satisfies it: it is built   *)
(* on the subsets of at most n elements for growing n.                      *)
LEMMA PartialSumsExist ==
    ASSUME NEW D, IsFiniteSet(D), NEW f
    PROVE  \E g : PartialSums(f, D, g)
<1> DEFINE Layer(n) == {s \in SUBSET D : Cardinality(s) <= n}
           Exists(n) == \E g : g = [s \in Layer(n) |-> SumStep(f, g, s)]
           T == {n \in Nat : ~Exists(n)}
<1>1. \A s \in SUBSET D : IsFiniteSet(s) /\ Cardinality(s) \in Nat
  BY FS_Subset, FS_CardinalityType
<1>2. Exists(0)
  <2> DEFINE g == [s \in Layer(0) |-> 0]
  <2>1. \A s \in Layer(0) : s = {}
    <3> TAKE s \in Layer(0)
    <3>1. IsFiniteSet(s) /\ Cardinality(s) = 0
      BY <1>1
    <3> QED
      BY <3>1, FS_EmptySet
  <2>2. g = [s \in Layer(0) |-> SumStep(f, g, s)]
    BY <2>1 DEF SumStep
  <2> QED
    BY <2>2
<1>3. \A n \in Nat : Exists(n) => Exists(n + 1)
  <2> TAKE n \in Nat
  <2> HAVE Exists(n)
  <2>1. PICK g : g = [s \in Layer(n) |-> SumStep(f, g, s)]
    OBVIOUS
  <2> DEFINE h == [s \in Layer(n + 1) |-> SumStep(f, g, s)]
  <2>2. \A s \in Layer(n + 1) : s # {} => s \ {Chosen(s)} \in Layer(n)
    <3> TAKE s \in Layer(n + 1)
    <3> HAVE s # {}
    <3>1. Chosen(s) \in s
      BY DEF Chosen
    <3>2. Cardinality(s \ {Chosen(s)}) = Cardinality(s) - 1
      BY <1>1, <3>1, FS_RemoveElement
    <3> QED
      BY <1>1, <3>2
  <2>3. \A s \in Layer(n) : s \in Layer(n + 1) /\ h[s] = g[s]
    <3> TAKE s \in Layer(n)
    <3>1. s \in Layer(n + 1)
      BY <1>1
    <3>2. h[s] = SumStep(f, g, s)
      BY <3>1
    <3>3. g[s] = SumStep(f, g, s)
      BY <2>1
    <3> QED
      BY <3>1, <3>2, <3>3
  <2>4. \A s \in Layer(n + 1) : SumStep(f, g, s) = SumStep(f, h, s)
    <3> HIDE DEF h
    <3> QED
      BY <2>2, <2>3 DEF SumStep
  <2>5. h = [s \in Layer(n + 1) |-> SumStep(f, h, s)]
    BY <2>4
  <2> QED
    BY <2>5
<1>4. T = {}
  <2> SUFFICES ASSUME T # {} PROVE FALSE
    OBVIOUS
  <2> HIDE DEF Exists
  <2>1. PICK n \in T : \A m \in T : n <= m
    BY Least
  <2>2. n # 0 /\ n \in Nat
    BY <1>2
  <2>3. n - 1 \in Nat /\ n - 1 \notin T
    BY <2>1, <2>2
  <2>4. Exists(n - 1 + 1)
    BY <1>3, <2>3
  <2>5. n - 1 + 1 = n
    BY <2>2
  <2> QED
    BY <2>4, <2>5
<1>5. Exists(Cardinality(D))
  <2> HIDE DEF Exists
  <2> QED
    BY <1>1, <1>4
<1>6. Layer(Cardinality(D)) = SUBSET D
  BY FS_Subset
<1> QED
  BY <1>5, <1>6 DEF PartialSums

(* What AvgScore computes, as the value of such a function.                 *)
LEMMA AvgScoreSums ==
    ASSUME NEW f, IsFiniteSet(DOMAIN f)
    PROVE  \E g : PartialSums(f, DOMAIN f, g) /\ EA!AvgScore(f) = g[DOMAIN f]
<1> DEFINE g == CHOOSE g : PartialSums(f, DOMAIN f, g)
<1>1. PartialSums(f, DOMAIN f, g)
  BY PartialSumsExist
<1>2. EA!AvgScore(f) = g[DOMAIN f]
  BY DEF EA!AvgScore, EA!SumFunction, EA!SumFunctionOnSet, EA!FoldFunctionOnSet,
         EA!MapThenFoldSet, PartialSums, SumStep, Chosen
<1> HIDE DEF g
<1> QED
  BY <1>1, <1>2

(* The sum of natural numbers is one; it grows with each of them, and two   *)
(* lists, one at least the other everywhere, have one sum only if equal.    *)
LEMMA PartialSumsMonotone ==
    ASSUME NEW D, IsFiniteSet(D), NEW e \in [D -> Nat], NEW f \in [D -> Nat],
           NEW g, PartialSums(e, D, g), NEW h, PartialSums(f, D, h),
           \A d \in D : e[d] >= f[d]
    PROVE  /\ g[D] \in Nat /\ h[D] \in Nat /\ g[D] >= h[D]
           /\ g[D] = h[D] => e = f
<1> DEFINE Fine(s) == /\ g[s] \in Nat /\ h[s] \in Nat /\ g[s] >= h[s]
                      /\ g[s] = h[s] => \A d \in s : e[d] = f[d]
           T == {s \in SUBSET D : ~Fine(s)}
<1>1. \A s \in SUBSET D : g[s] = SumStep(e, g, s) /\ h[s] = SumStep(f, h, s)
  BY DEF PartialSums
<1>2. T = {}
  <2> SUFFICES ASSUME T # {} PROVE FALSE
    OBVIOUS
  <2>1. T \in SUBSET (SUBSET D)
    OBVIOUS
  <2>2. PICK s \in T : \A u \in T : u \subseteq s => u = s
    <3> HIDE DEF T
    <3> QED
      BY <2>1, SmallestSet
  <2>3. s # {}
    <3> SUFFICES ASSUME s = {} PROVE FALSE
      OBVIOUS
    <3>1. g[s] = 0 /\ h[s] = 0
      BY <1>1 DEF SumStep
    <3>2. ~Fine(s)
      BY <2>2
    <3> QED
      BY <3>1, <3>2
  <2> DEFINE x == Chosen(s)
             r == s \ {Chosen(s)}
  <2>4. x \in s /\ x \in D
    BY <2>3 DEF Chosen
  <2>5. r \in SUBSET D /\ r \subseteq s /\ r # s
    BY <2>4
  <2>6. Fine(r)
    <3> HIDE DEF Fine
    <3> QED
      BY <2>2, <2>5
  <2>7. g[s] = e[x] + g[r] /\ h[s] = f[x] + h[r]
    BY <1>1, <2>3 DEF SumStep
  <2> HIDE DEF x, r
  <2>8. e[x] \in Nat /\ f[x] \in Nat /\ e[x] >= f[x]
    BY <2>4
  <2>9. g[s] \in Nat /\ h[s] \in Nat /\ g[s] >= h[s]
    BY <2>6, <2>7, <2>8
  <2>10. ASSUME g[s] = h[s] PROVE \A d \in s : e[d] = f[d]
    <3>1. g[r] = h[r] /\ e[x] = f[x]
      BY <2>6, <2>7, <2>8, <2>10
    <3>2. s = r \cup {x}
      BY <2>4 DEF x, r
    <3> QED
      BY <2>6, <3>1, <3>2
  <2> QED
    BY <2>9, <2>10
<1>3. Fine(D)
  <2> HIDE DEF Fine
  <2> QED
    BY <1>2
<1> QED
  BY <1>3

(* Averages of score lists, ranked by their sums.                           *)
LEMMA AvgScoreMonotone ==
    ASSUME NEW n \in Nat, NEW a \in [1 .. n -> Nat], NEW b \in [1 .. n -> Nat],
           \A d \in 1 .. n : a[d] >= b[d]
    PROVE  /\ EA!AvgScore(a) \in Nat /\ EA!AvgScore(b) \in Nat
           /\ EA!AvgScore(a) >= EA!AvgScore(b)
           /\ EA!AvgScore(a) = EA!AvgScore(b) => a = b
<1>1. IsFiniteSet(1 .. n) /\ DOMAIN a = 1 .. n /\ DOMAIN b = 1 .. n
  BY FS_Interval
<1>2. PICK g : PartialSums(a, 1 .. n, g) /\ EA!AvgScore(a) = g[1 .. n]
  BY <1>1, AvgScoreSums
<1>3. PICK h : PartialSums(b, 1 .. n, h) /\ EA!AvgScore(b) = h[1 .. n]
  BY <1>1, AvgScoreSums
<1> QED
  BY <1>1, <1>2, <1>3, PartialSumsMonotone

(* The sum falls short by at most m for every instance if no score falls    *)
(* short by more than m.                                                    *)
LEMMA Times ==
    ASSUME NEW k \in Nat, NEW j \in Nat, NEW m \in Nat, j <= k
    PROVE  j * m \in Nat /\ (j + 1) * m = j * m + m /\ j * m <= k * m
<1>1. PICK i \in Nat : k = j + i
  <2>1. k - j \in Nat /\ k = j + (k - j)
    OBVIOUS
  <2> QED
    BY <2>1
<1>2. k * m = j * m + i * m /\ i * m \in Nat /\ j * m \in Nat
  BY <1>1
<1> QED
  BY <1>2

LEMMA PartialSumsNear ==
    ASSUME NEW D, IsFiniteSet(D), NEW e \in [D -> Nat], NEW f \in [D -> Nat],
           NEW g, PartialSums(e, D, g), NEW h, PartialSums(f, D, h),
           NEW m \in Nat, \A d \in D : e[d] + m >= f[d]
    PROVE  /\ g[D] \in Nat /\ h[D] \in Nat
           /\ g[D] + Cardinality(D) * m >= h[D]
<1> DEFINE Fine(s) == /\ g[s] \in Nat /\ h[s] \in Nat
                      /\ g[s] + Cardinality(s) * m >= h[s]
           T == {s \in SUBSET D : ~Fine(s)}
<1>1. \A s \in SUBSET D : /\ g[s] = SumStep(e, g, s) /\ h[s] = SumStep(f, h, s)
                          /\ IsFiniteSet(s) /\ Cardinality(s) \in Nat
  BY FS_Subset, FS_CardinalityType DEF PartialSums
<1>2. T = {}
  <2> SUFFICES ASSUME T # {} PROVE FALSE
    OBVIOUS
  <2>1. T \in SUBSET (SUBSET D)
    OBVIOUS
  <2>2. PICK s \in T : \A u \in T : u \subseteq s => u = s
    <3> HIDE DEF T
    <3> QED
      BY <2>1, SmallestSet
  <2>3. s # {}
    <3> SUFFICES ASSUME s = {} PROVE FALSE
      OBVIOUS
    <3>1. g[s] = 0 /\ h[s] = 0
      BY <1>1 DEF SumStep
    <3>2. Cardinality(s) = 0
      BY FS_EmptySet
    <3>3. Fine(s)
      BY <3>1, <3>2
    <3> QED
      BY <2>2, <3>3
  <2> DEFINE x == Chosen(s)
             r == s \ {Chosen(s)}
  <2>4. x \in s /\ x \in D
    BY <2>3 DEF Chosen
  <2>5. r \in SUBSET D /\ r \subseteq s /\ r # s
    BY <2>4
  <2>6. Fine(r)
    <3> HIDE DEF Fine
    <3> QED
      BY <2>2, <2>5
  <2>7. g[s] = e[x] + g[r] /\ h[s] = f[x] + h[r]
    BY <1>1, <2>3 DEF SumStep
  <2>8. Cardinality(s) = Cardinality(r) + 1 /\ Cardinality(r) \in Nat
    BY <1>1, <2>4, FS_RemoveElement
  <2> HIDE DEF x, r
  <2>9. e[x] \in Nat /\ f[x] \in Nat /\ e[x] + m >= f[x]
    BY <2>4
  <2>10. /\ Cardinality(s) * m = Cardinality(r) * m + m
         /\ Cardinality(r) * m \in Nat
    BY <2>8, Times
  <2>11. Fine(s)
    BY <2>6, <2>7, <2>9, <2>10
  <2> QED
    BY <2>2, <2>11
<1>3. Fine(D)
  <2> HIDE DEF Fine
  <2> QED
    BY <1>2
<1> QED
  BY <1>3

LEMMA AvgScoreNear ==
    ASSUME NEW n \in Nat, NEW a \in [1 .. n -> Nat], NEW b \in [1 .. n -> Nat],
           NEW m \in Nat, \A d \in 1 .. n : a[d] + m >= b[d]
    PROVE  EA!AvgScore(a) + n * m >= EA!AvgScore(b)
<1>1. /\ IsFiniteSet(1 .. n) /\ Cardinality(1 .. n) = n
      /\ DOMAIN a = 1 .. n /\ DOMAIN b = 1 .. n
  BY FS_Interval
<1>2. PICK g : PartialSums(a, 1 .. n, g) /\ EA!AvgScore(a) = g[1 .. n]
  BY <1>1, AvgScoreSums
<1>3. PICK h : PartialSums(b, 1 .. n, h) /\ EA!AvgScore(b) = h[1 .. n]
  BY <1>1, AvgScoreSums
<1> QED
  BY <1>1, <1>2, <1>3, PartialSumsNear
-----------------------------------------------------------------------------
(* Phase 1 of eliminate in the abstract: the candidates S are visited in    *)
(* the order P, D holds the pairs <<a, b>> of which a dominates b.          *)

(* K: the candidates that are alive at their turn.                          *)
Kernel(S, P, D, K) ==
    /\ K \in SUBSET S
    /\ \A c \in S : c \in K <=> \A a \in K : <<a, c>> \in P => <<a, c>> \notin D

Survivors(S, D, K) == {b \in S : \A a \in K : <<a, b>> \notin D}

(* The visits give a kernel: take the longest initial segment that has one. *)
LEMMA KernelExists ==
    ASSUME NEW S, IsFiniteSet(S), NEW P, StrictOrder(P, S), NEW D
    PROVE  \E K : Kernel(S, P, D, K)
<1> DEFINE Segment(W) == \A a \in S, c \in W : <<a, c>> \in P => a \in W
           Visited(W) == Segment(W) /\ \E K : Kernel(W, P, D, K)
           F == {R \in SUBSET S : Visited(S \ R)}
<1>1. S \in F
  BY DEF Kernel
<1>2. PICK R \in F : \A U \in F : U \subseteq R => U = R
  <2>1. F \in SUBSET (SUBSET S) /\ F # {}
    BY <1>1
  <2> HIDE DEF F
  <2> QED
    BY <2>1, SmallestSet
<1>3. R = {}
  <2> SUFFICES ASSUME R # {} PROVE FALSE
    OBVIOUS
  <2> DEFINE W == S \ R
  <2>1. R \in SUBSET S /\ Segment(W)
    BY <1>2
  <2>2. PICK K : Kernel(W, P, D, K)
    BY <1>2
  <2>3. PICK m \in R : \A y \in R \ {m} : <<m, y>> \in P
    BY <2>1, FirstOf
  <2> DEFINE V == W \cup {m}
             free == \A a \in K : <<a, m>> \in P => <<a, m>> \notin D
             J == IF free THEN K \cup {m} ELSE K
  <2>4. m \in S /\ m \notin W /\ V = S \ (R \ {m}) /\ R \ {m} # R
    BY <2>1
  <2>5. Segment(V)
    <3> SUFFICES ASSUME NEW a \in S, <<a, m>> \in P, a \in R \ {m} PROVE FALSE
      BY <2>1, <2>4
    <3> QED
      BY <2>3, <2>4 DEF StrictOrder
  <2>6. \A c \in W : <<m, c>> \notin P
    BY <2>1, <2>4
  <2>7. <<m, m>> \notin P
    BY <2>4 DEF StrictOrder
  <2>8. Kernel(V, P, D, J)
    <3>1. K \in SUBSET W /\ m \notin K
      BY <2>2, <2>4 DEF Kernel
    <3>2. ASSUME NEW c \in W
          PROVE  c \in J <=> \A a \in J : <<a, c>> \in P => <<a, c>> \notin D
      <4>1. c \in J <=> c \in K
        BY <2>4
      <4>2. c \in K <=> \A a \in K : <<a, c>> \in P => <<a, c>> \notin D
        BY <2>2 DEF Kernel
      <4>3. (\A a \in J : <<a, c>> \in P => <<a, c>> \notin D)
              <=> (\A a \in K : <<a, c>> \in P => <<a, c>> \notin D)
        BY <2>6
      <4> QED
        BY <4>1, <4>2, <4>3
    <3>3. m \in J <=> \A a \in J : <<a, m>> \in P => <<a, m>> \notin D
      BY <2>7, <3>1
    <3> QED
      BY <3>1, <3>2, <3>3 DEF Kernel
  <2>9. R \ {m} \in F
    BY <2>1, <2>4, <2>5, <2>8
  <2> QED
    BY <1>2, <2>4, <2>9
<1>4. S \ R = S
  BY <1>3
<1> QED
  BY <1>2, <1>4

(* There is only one: two of them first differ nowhere.                     *)
LEMMA KernelUnique ==
    ASSUME NEW S, IsFiniteSet(S), NEW P, StrictOrder(P, S), NEW D,
           NEW K, Kernel(S, P, D, K), NEW J, Kernel(S, P, D, J)
    PROVE  K = J
<1> DEFINE T == {c \in S : ~(c \in K <=> c \in J)}
<1>1. K \in SUBSET S /\ J \in SUBSET S
  BY DEF Kernel
<1>2. T = {}
  <2> SUFFICES ASSUME T # {} PROVE FALSE
    OBVIOUS
  <2>1. PICK c \in T : \A d \in T \ {c} : <<c, d>> \in P
    <3>1. T \in SUBSET S
      OBVIOUS
    <3> HIDE DEF T
    <3> QED
      BY <3>1, FirstOf
  <2>2. \A a \in S : <<a, c>> \in P => (a \in K <=> a \in J)
    BY <2>1 DEF StrictOrder
  <2> QED
    BY <1>1, <2>2 DEF Kernel
<1> QED
  BY <1>1, <1>2

(* Somebody survives whatever the tolerance: nothing alive at its turn can  *)
(* dominate the last one that is.                                           *)
LEMMA SurvivorExists ==
    ASSUME NEW S, IsFiniteSet(S), S # {}, NEW P, StrictOrder(P, S), NEW D,
           \A a \in S : <<a, a>> \notin D, NEW K, Kernel(S, P, D, K)
    PROVE  Survivors(S, D, K) # {}
<1>1. K \in SUBSET S
  BY DEF Kernel
<1>2. K # {}
  <2>1. PICK x \in S : \A y \in S \ {x} : <<x, y>> \in P
    BY FirstOf
  <2>2. \A a \in S : <<a, x>> \notin P
    BY <2>1 DEF StrictOrder
  <2> QED
    BY <1>1, <2>2 DEF Kernel
<1>3. PICK z \in K : \A y \in K \ {z} : <<y, z>> \in P
  BY <1>1, <1>2, LastOf
<1>4. z \in Survivors(S, D, K)
  BY <1>1, <1>3 DEF Kernel, Survivors
<1> QED
  BY <1>4

(* When D is a preorder (less the pairs <<a, a>>), exactly those survive    *)
(* that nobody beats: dominates, and precedes if the two dominate each      *)
(* other.                                                                   *)
LEMMA SurvivorsAreMaximal ==
    ASSUME NEW S, IsFiniteSet(S), NEW P, StrictOrder(P, S), NEW D,
           \A a, b, c \in S : <<a, b>> \in D /\ <<b, c>> \in D /\ a # c => <<a, c>> \in D,
           \A a \in S : <<a, a>> \notin D,
           NEW K, Kernel(S, P, D, K)
    PROVE  Survivors(S, D, K) =
             {b \in S : ~\E a \in S : /\ <<a, b>> \in D
                                      /\ <<b, a>> \in D => <<a, b>> \in P}
<1>1. K \in SUBSET S
  BY DEF Kernel
<1>2. ASSUME NEW b \in Survivors(S, D, K), NEW a \in S,
             <<a, b>> \in D, <<b, a>> \in D => <<a, b>> \in P
      PROVE  FALSE
  <2> DEFINE T == {x \in S : x = a \/ <<x, a>> \in D}
  <2>1. PICK z \in T : \A y \in T \ {z} : <<z, y>> \in P
    <3>1. T \in SUBSET S /\ T # {}
      OBVIOUS
    <3> HIDE DEF T
    <3> QED
      BY <3>1, FirstOf
  <2>2. z \in K
    <3> SUFFICES ASSUME NEW e \in K, <<e, z>> \in P, <<e, z>> \in D PROVE FALSE
      BY DEF Kernel
    <3>1. e \in T
      BY <1>1
    <3>2. e # z
      BY <2>1 DEF StrictOrder
    <3>3. <<z, e>> \in P
      BY <2>1, <3>1, <3>2
    <3> QED
      BY <3>1, <3>3 DEF StrictOrder
  <2>3. b \in S
    BY DEF Survivors
  <2>4. CASE z # b
    <3>1. <<z, b>> \in D
      BY <1>2, <2>3, <2>4
    <3> QED
      BY <2>2, <3>1 DEF Survivors
  <2>5. CASE z = b
    <3>1. a # b
      BY <1>2
    <3>2. <<b, a>> \in D /\ <<b, a>> \in P
      BY <2>1, <2>5, <3>1
    <3> QED
      BY <1>2, <2>3, <3>2 DEF StrictOrder
  <2> QED
    BY <2>4, <2>5
<1>3. ASSUME NEW b \in S, b \notin Survivors(S, D, K)
      PROVE  \E a \in S : <<a, b>> \in D /\ (<<b, a>> \in D => <<a, b>> \in P)
  <2>1. PICK a \in K : <<a, b>> \in D
    BY <1>3 DEF Survivors
  <2>2. a \in S /\ a # b
    BY <1>1, <2>1
  <2>3. CASE <<b, a>> \in D /\ <<a, b>> \notin P
    <3>1. <<b, a>> \in P
      BY <2>2, <2>3 DEF StrictOrder
    <3>2. b \notin K
      BY <2>1, <2>2, <2>3, <3>1 DEF Kernel
    <3>3. PICK e \in K : <<e, b>> \in P /\ <<e, b>> \in D
      BY <3>2 DEF Kernel
    <3>4. e \in S /\ <<e, a>> \in P
      BY <1>1, <2>2, <3>1, <3>3 DEF StrictOrder
    <3>5. e # a
      BY <2>2, <3>4 DEF StrictOrder
    <3>6. <<e, a>> \in D
      BY <2>2, <2>3, <3>3, <3>4, <3>5
    <3> QED
      BY <2>1, <3>4, <3>6 DEF Kernel
  <2> QED
    BY <2>1, <2>2, <2>3
<1>4. Survivors(S, D, K) \in SUBSET S
  BY DEF Survivors
<1> QED
  BY <1>2, <1>3, <1>4

(* When dominating means not to fall short by more than e, every candidate  *)
(* is close to a survivor: whoever killed it was alive at its turn, and can *)
(* itself only be killed by one that comes later, so that the chain of      *)
(* killers visits nobody twice.                                             *)
Reaches(val, n, a, b, e) == \A d \in 1 .. n : val[a][d] + e >= val[b][d]

Within(D, S, val, n, e) ==
    /\ val \in [S -> [1 .. n -> Nat]]
    /\ \A a, b \in S : <<a, b>> \in D => Reaches(val, n, a, b, e)

LEMMA SurvivorNear ==
    ASSUME NEW S, IsFiniteSet(S), NEW P, StrictOrder(P, S), NEW D,
           \A a \in S : <<a, a>> \notin D, NEW K, Kernel(S, P, D, K),
           NEW n \in Nat, NEW e \in Nat, NEW val, Within(D, S, val, n, e),
           NEW m \in Nat, Cardinality(S) - 1 <= m, NEW b \in S
    PROVE  \E s \in Survivors(S, D, K) : Reaches(val, n, s, b, m * e)
<1> DEFINE after(a) == {c \in K : <<a, c>> \in P}
           slack(k) == k * e
           Near(s, a, k) == Reaches(val, n, s, a, slack(k))
           Saved(a, k) == \E s \in Survivors(S, D, K) : Near(s, a, k)
           T == {a \in K : ~Saved(a, Cardinality(after(a)))}
<1>1. K \in SUBSET S /\ Survivors(S, D, K) \subseteq S /\ IsFiniteSet(K)
  BY FS_Subset DEF Kernel, Survivors
<1>2. \A a, d : a \in S /\ d \in 1 .. n => val[a][d] \in Nat
  BY DEF Within
<1>3. \A a \in S : IsFiniteSet(after(a)) /\ Cardinality(after(a)) \in Nat
  BY <1>1, FS_Subset, FS_CardinalityType
<1>4. /\ \A k \in Nat : slack(k) \in Nat /\ slack(k + 1) = slack(k) + e
      /\ \A k, j \in Nat : k <= j => slack(k) <= slack(j)
  BY Times
<1>5. slack(0) = 0
  OBVIOUS
<1> HIDE DEF slack
<1>6. ASSUME NEW s \in S, NEW a \in S, NEW k \in Nat, NEW j \in Nat, k <= j, Near(s, a, k)
      PROVE  Near(s, a, j)
  <2> SUFFICES ASSUME NEW d \in 1 .. n PROVE val[s][d] + slack(j) >= val[a][d]
    BY DEF Reaches
  <2>1. val[s][d] + slack(k) >= val[a][d] /\ val[s][d] \in Nat /\ val[a][d] \in Nat
    BY <1>2, <1>6 DEF Reaches
  <2>2. slack(k) \in Nat /\ slack(j) \in Nat /\ slack(k) <= slack(j)
    BY <1>4, <1>6
  <2> QED
    BY <2>1, <2>2
<1>7. ASSUME NEW s \in S, NEW x \in S, NEW a \in S, <<x, a>> \in D, NEW k \in Nat,
             NEW j \in Nat, k + 1 <= j, Near(s, x, k)
      PROVE  Near(s, a, j)
  <2>1. Near(s, a, k + 1)
    <3> SUFFICES ASSUME NEW d \in 1 .. n PROVE val[s][d] + slack(k + 1) >= val[a][d]
      BY DEF Reaches
    <3>1. val[s][d] + slack(k) >= val[x][d] /\ val[x][d] + e >= val[a][d]
      BY <1>7 DEF Within, Reaches
    <3>2. val[s][d] \in Nat /\ val[x][d] \in Nat /\ val[a][d] \in Nat
      BY <1>2
    <3>3. slack(k) \in Nat /\ slack(k + 1) = slack(k) + e
      BY <1>4
    <3> QED
      BY <3>1, <3>2, <3>3
  <2> HIDE DEF Near
  <2>2. k + 1 \in Nat
    OBVIOUS
  <2> QED
    BY <1>6, <1>7, <2>1, <2>2
<1>8. \A a \in S : Near(a, a, 0)
  BY <1>2, <1>5 DEF Reaches
<1> HIDE DEF Near
<1>9. T = {}
  <2> SUFFICES ASSUME T # {} PROVE FALSE
    OBVIOUS
  <2>1. PICK a \in T : \A y \in T \ {a} : <<y, a>> \in P
    <3>1. T \in SUBSET S
      BY <1>1
    <3> HIDE DEF T
    <3> QED
      BY <3>1, LastOf
  <2>2. a \in K /\ a \in S /\ ~Saved(a, Cardinality(after(a)))
    BY <1>1
  <2>3. a \notin Survivors(S, D, K)
    <3> SUFFICES ASSUME a \in Survivors(S, D, K) PROVE FALSE
      OBVIOUS
    <3>1. Near(a, a, Cardinality(after(a)))
      <4> HIDE DEF after
      <4> QED
        BY <1>3, <1>6, <1>8, <2>2
    <3> QED
      BY <2>2, <3>1
  <2>4. PICK x \in K : <<x, a>> \in D
    BY <2>2, <2>3 DEF Survivors
  <2>5. x \in S /\ x # a /\ <<x, a>> \notin P /\ <<a, x>> \in P
    BY <1>1, <2>2, <2>4 DEF Kernel, StrictOrder
  <2>6. x \notin T
    BY <2>1, <2>5
  <2>7. PICK s \in Survivors(S, D, K) : Near(s, x, Cardinality(after(x)))
    BY <2>4, <2>6
  <2>8. Cardinality(after(x)) + 1 <= Cardinality(after(a))
    <3>1. after(x) \subseteq after(a) \ {x}
      BY <1>1, <2>2, <2>5 DEF StrictOrder
    <3>2. x \in after(a)
      BY <2>4, <2>5
    <3> HIDE DEF after
    <3>3. /\ IsFiniteSet(after(a) \ {x})
          /\ Cardinality(after(a) \ {x}) = Cardinality(after(a)) - 1
      BY <1>3, <2>2, <3>2, FS_RemoveElement
    <3>4. Cardinality(after(x)) <= Cardinality(after(a) \ {x})
      BY <3>1, <3>3, FS_Subset
    <3> QED
      BY <1>3, <2>2, <2>5, <3>3, <3>4
  <2>9. Near(s, a, Cardinality(after(a)))
    <3> HIDE DEF after
    <3> QED
      BY <1>1, <1>3, <1>7, <2>2, <2>4, <2>5, <2>7, <2>8
  <2> QED
    BY <2>2, <2>9
<1>10. \A c \in S : IsFiniteSet(S \ {c}) /\ Cardinality(S \ {c}) = Cardinality(S) - 1
                   /\ Cardinality(S) \in Nat
  BY FS_RemoveElement, FS_CardinalityType
<1>11. CASE b \in K
  <2>1. after(b) \subseteq S \ {b}
    BY <1>1 DEF StrictOrder
  <2>2. Saved(b, Cardinality(after(b)))
    BY <1>9, <1>11
  <2> HIDE DEF after
  <2>3. Cardinality(after(b)) <= m
    <3>1. Cardinality(after(b)) <= Cardinality(S \ {b})
      BY <1>10, <2>1, FS_Subset
    <3>2. Cardinality(S \ {b}) = Cardinality(S) - 1 /\ Cardinality(S) \in Nat
      BY <1>10
    <3>3. Cardinality(after(b)) \in Nat
      BY <1>3
    <3> QED
      BY <3>1, <3>2, <3>3
  <2>4. PICK s \in Survivors(S, D, K) : Near(s, b, Cardinality(after(b)))
    BY <2>2
  <2>5. Near(s, b, m)
    BY <1>1, <1>3, <1>6, <2>3, <2>4
  <2> QED
    BY <2>5 DEF Near, slack
<1>12. CASE b \notin K
  <2>1. PICK x \in K : <<x, b>> \in D
    BY <1>12 DEF Kernel
  <2>2. x \in S /\ x \in S \ {b}
    BY <1>1, <1>12, <2>1
  <2>3. after(x) \subseteq (S \ {b}) \ {x}
    BY <1>1, <1>12, <2>2 DEF StrictOrder
  <2>4. Saved(x, Cardinality(after(x)))
    BY <1>9, <2>1
  <2> HIDE DEF after
  <2>5. Cardinality(after(x)) + 1 <= m
    <3>1. /\ IsFiniteSet((S \ {b}) \ {x})
          /\ Cardinality((S \ {b}) \ {x}) = Cardinality(S \ {b}) - 1
      BY <1>10, <2>2, FS_RemoveElement
    <3>2. Cardinality(after(x)) <= Cardinality((S \ {b}) \ {x})
      BY <2>3, <3>1, FS_Subset
    <3>3. Cardinality(S \ {b}) = Cardinality(S) - 1 /\ Cardinality(S) \in Nat
      BY <1>10
    <3>4. Cardinality(after(x)) \in Nat
      BY <1>3, <2>2
    <3> QED
      BY <3>1, <3>2, <3>3, <3>4
  <2>6. PICK s \in Survivors(S, D, K) : Near(s, x, Cardinality(after(x)))
    BY <2>4
  <2>7. Near(s, b, m)
    BY <1>1, <1>3, <1>7, <2>1, <2>2, <2>5, <2>6
  <2> QED
    BY <2>7 DEF Near, slack
<1> QED
  BY <1>11, <1>12
-----------------------------------------------------------------------------
(* Populations: finite, and every alive candidate has a val score list.     *)

Ranked(p) ==
    /\ IsFiniteSet(EA!Alive(p)) /\ EA!Alive(p) \subseteq Nat
    /\ \A c \in EA!Alive(p) : p[c].generation \in Nat /\ p[c].scores \in ValScores

Precedence(p) ==
    {q \in EA!Alive(p) \X EA!Alive(p) : EA!Precedes(p, q[1], q[2])}

Ranking(p) ==
    {q \in EA!Alive(p) \X EA!Alive(p) : EA!RanksAbove(p, q[1], q[2])}

Dominance(p) ==
    {q \in EA!Alive(p) \X EA!Alive(p) :
        q[1] # q[2] /\ EA!IsDominated(p[q[1]].scores, p[q[2]].scores)}

LEMMA Constants ==
    /\ NumProposals \in Nat \ {0} /\ MaxCandidateNum \in Nat \ {0} /\ ScoreEps \in Nat
    /\ Ids \subseteq Nat \ {0} /\ Generations \subseteq Nat
    /\ \A v, w \in ValScores : v \in Seq(Nat) /\ Len(v) = Len(w)
BY PoolAssumption

(* Two val score lists are functions on the same instances.                 *)
LEMMA SameVal ==
    ASSUME NEW v \in ValScores, NEW w \in ValScores
    PROVE  /\ Len(v) \in Nat /\ v \in [1 .. Len(v) -> Nat] /\ w \in [1 .. Len(v) -> Nat]
           /\ DOMAIN v = 1 .. Len(v) /\ Len(w) = Len(v)
           /\ v = <<>> <=> Len(v) = 0
<1>1. v \in Seq(Nat) /\ w \in Seq(Nat) /\ Len(v) = Len(w)
  BY Constants
<1>2. Len(v) \in Nat /\ v \in [1 .. Len(v) -> Nat] /\ w \in [1 .. Len(w) -> Nat]
  BY <1>1
<1>3. v = <<>> <=> Len(v) = 0
  BY <1>1
<1> QED
  BY <1>1, <1>2, <1>3

LEMMA CountedAlike == ASSUME NEW S PROVE EA!Cardinality(S) = Cardinality(S)
BY DEF EA!Cardinality, Cardinality

LEMMA PrecedenceOrder ==
    ASSUME NEW p, Ranked(p)
    PROVE  StrictOrder(Precedence(p), EA!Alive(p))
<1> DEFINE S == EA!Alive(p)
<1>1. \A a \in S : a \in Nat /\ p[a].generation \in Nat
  BY DEF Ranked
<1>2. \A a, b \in S : <<a, b>> \in Precedence(p) <=> EA!Precedes(p, a, b)
  BY DEF Precedence
<1>3. \A a \in S : ~EA!Precedes(p, a, a)
  BY <1>1 DEF EA!Precedes
<1>4. \A a, b, c \in S : EA!Precedes(p, a, b) /\ EA!Precedes(p, b, c) => EA!Precedes(p, a, c)
  BY <1>1 DEF EA!Precedes
<1>5. \A a, b \in S : a = b \/ EA!Precedes(p, a, b) \/ EA!Precedes(p, b, a)
  BY <1>1 DEF EA!Precedes
<1> HIDE DEF S
<1> QED
  BY <1>2, <1>3, <1>4, <1>5 DEF StrictOrder, S

LEMMA AverageType ==
    ASSUME NEW v \in ValScores
    PROVE  EA!AvgScore(v) \in Nat
<1>1. \A d \in 1 .. Len(v) : v[d] >= v[d]
  BY SameVal
<1> QED
  BY <1>1, SameVal, AvgScoreMonotone

LEMMA RankingOrder ==
    ASSUME NEW p, Ranked(p)
    PROVE  StrictOrder(Ranking(p), EA!Alive(p))
<1> DEFINE S == EA!Alive(p)
           avg(a) == EA!AvgScore(p[a].scores)
<1>1. \A a \in S : a \in Nat /\ p[a].generation \in Nat /\ avg(a) \in Nat
  BY AverageType DEF Ranked
<1>2. \A a, b \in S : <<a, b>> \in Ranking(p) <=> EA!RanksAbove(p, a, b)
  BY DEF Ranking
<1>3. \A a, b \in S : EA!RanksAbove(p, a, b) <=>
        \/ avg(a) > avg(b)
        \/ avg(a) = avg(b) /\ p[a].generation > p[b].generation
        \/ avg(a) = avg(b) /\ p[a].generation = p[b].generation /\ a > b
  BY DEF EA!RanksAbove, EA!Precedes
<1> HIDE DEF S, avg
<1>4. \A a \in S : ~EA!RanksAbove(p, a, a)
  BY <1>1, <1>3
<1>5. \A a, b, c \in S :
        EA!RanksAbove(p, a, b) /\ EA!RanksAbove(p, b, c) => EA!RanksAbove(p, a, c)
  BY <1>1, <1>3
<1>6. \A a, b \in S : a = b \/ EA!RanksAbove(p, a, b) \/ EA!RanksAbove(p, b, a)
  BY <1>1, <1>3
<1> QED
  BY <1>2, <1>4, <1>5, <1>6 DEF StrictOrder, S

(* Frontier(p) is what survives phase 1.                                    *)
LEMMA FrontierSurvives ==
    ASSUME NEW p, Ranked(p)
    PROVE  \E K : /\ Kernel(EA!Alive(p), Precedence(p), Dominance(p), K)
                  /\ EA!Frontier(p) = Survivors(EA!Alive(p), Dominance(p), K)
<1> DEFINE S == EA!Alive(p)
           dom(a, b) == a # b /\ EA!IsDominated(p[a].scores, p[b].scores)
           Turn(A) == A = [c \in S |-> \A a \in S : EA!Precedes(p, a, c) /\ A[a] => ~dom(a, c)]
           A == CHOOSE A : Turn(A)
<1>1. EA!Frontier(p) = {b \in S : \A a \in S : A[a] => ~dom(a, b)}
  BY DEF EA!Frontier
<1>2. \A a, b \in S : /\ <<a, b>> \in Precedence(p) <=> EA!Precedes(p, a, b)
                      /\ <<a, b>> \in Dominance(p) <=> dom(a, b)
  BY DEF Precedence, Dominance
<1>3. IsFiniteSet(S)
  BY DEF Ranked
<1> HIDE DEF S, dom
<1>4. PICK J : Kernel(S, Precedence(p), Dominance(p), J)
  BY <1>3, PrecedenceOrder, KernelExists DEF S
<1>5. \E B : Turn(B)
  <2> DEFINE B == [c \in S |-> c \in J]
  <2>1. J \in SUBSET S
    BY <1>4 DEF Kernel
  <2>2. \A c \in S : c \in J <=> \A a \in S : EA!Precedes(p, a, c) /\ a \in J => ~dom(a, c)
    BY <1>2, <1>4, <2>1 DEF Kernel
  <2> DEFINE turn(c) == \A a \in S : EA!Precedes(p, a, c) /\ B[a] => ~dom(a, c)
  <2>3. \A c \in S : turn(c) \in BOOLEAN
    OBVIOUS
  <2>4. \A c \in S : B[c] <=> turn(c)
    BY <2>2
  <2>5. B \in [S -> BOOLEAN]
    OBVIOUS
  <2> HIDE DEF turn
  <2>6. B = [c \in S |-> turn(c)]
    BY <2>3, <2>4, <2>5
  <2> USE DEF turn
  <2> QED
    BY <2>6
<1>6. Turn(A)
  BY <1>5
<1> DEFINE K == {c \in S : A[c]}
<1>7. \A c \in S : A[c] = \A a \in S : EA!Precedes(p, a, c) /\ A[a] => ~dom(a, c)
  <2> HIDE DEF A
  <2> QED
    BY <1>6
<1> HIDE DEF A
<1>8. Kernel(S, Precedence(p), Dominance(p), K)
  BY <1>2, <1>7 DEF Kernel
<1>9. EA!Frontier(p) = Survivors(S, Dominance(p), K)
  BY <1>1, <1>2 DEF Survivors
<1> QED
  BY <1>8, <1>9 DEF S
-----------------------------------------------------------------------------
(* What elimination and selection do to a population.                       *)

(* Phase 1 never retires everybody.                                         *)
LEMMA FrontierNonEmpty ==
    ASSUME NEW p, Ranked(p), EA!Alive(p) # {}
    PROVE  EA!Frontier(p) # {} /\ EA!Frontier(p) \subseteq EA!Alive(p)
<1>1. PICK K : /\ Kernel(EA!Alive(p), Precedence(p), Dominance(p), K)
               /\ EA!Frontier(p) = Survivors(EA!Alive(p), Dominance(p), K)
  BY FrontierSurvives
<1>2. IsFiniteSet(EA!Alive(p)) /\ \A a \in EA!Alive(p) : <<a, a>> \notin Dominance(p)
  BY DEF Ranked, Dominance
<1>3. EA!Frontier(p) # {}
  BY <1>1, <1>2, PrecedenceOrder, SurvivorExists
<1> QED
  BY <1>1, <1>3 DEF Survivors

(* Exact dominance between candidates that are evaluated is a preorder.     *)
LEMMA DominanceTransitive ==
    ASSUME NEW p, Ranked(p), ScoreEps = 0
    PROVE  \A a, b, c \in EA!Alive(p) :
             <<a, b>> \in Dominance(p) /\ <<b, c>> \in Dominance(p) /\ a # c
               => <<a, c>> \in Dominance(p)
<1> SUFFICES ASSUME NEW a \in EA!Alive(p), NEW b \in EA!Alive(p), NEW c \in EA!Alive(p),
                    <<a, b>> \in Dominance(p), <<b, c>> \in Dominance(p), a # c
             PROVE  <<a, c>> \in Dominance(p)
  OBVIOUS
<1> DEFINE x == p[a].scores
           y == p[b].scores
           z == p[c].scores
<1>1. x \in ValScores /\ y \in ValScores /\ z \in ValScores
  BY DEF Ranked
<1>2. EA!IsDominated(x, y) /\ EA!IsDominated(y, z)
  BY DEF Dominance
<1> HIDE DEF x, y, z
<1>3. PICK n \in Nat : /\ DOMAIN x = 1 .. n /\ DOMAIN y = 1 .. n
                       /\ x \in [1 .. n -> Nat] /\ y \in [1 .. n -> Nat] /\ z \in [1 .. n -> Nat]
  BY <1>1, SameVal
<1>4. \A d \in 1 .. n : x[d] >= y[d] /\ y[d] >= z[d]
  BY <1>2, <1>3 DEF EA!IsDominated
<1>5. \A d \in 1 .. n : x[d] >= z[d]
  BY <1>3, <1>4
<1>6. EA!IsDominated(x, z)
  BY <1>1, <1>2, <1>3, <1>5, SameVal DEF EA!IsDominated
<1> QED
  BY <1>6 DEF Dominance, x, z

LEMMA FrontierMaximal ==
    ASSUME NEW p, Ranked(p), ScoreEps = 0
    PROVE  EA!Frontier(p) = {b \in EA!Alive(p) : ~\E a \in EA!Alive(p) \ {b} : Beats(p, a, b)}
<1> DEFINE S == EA!Alive(p)
<1>1. PICK K : /\ Kernel(S, Precedence(p), Dominance(p), K)
               /\ EA!Frontier(p) = Survivors(S, Dominance(p), K)
  BY FrontierSurvives
<1>2. IsFiniteSet(S) /\ \A a \in S : <<a, a>> \notin Dominance(p)
  BY DEF Ranked, Dominance
<1>3. Survivors(S, Dominance(p), K) =
        {b \in S : ~\E a \in S : /\ <<a, b>> \in Dominance(p)
                                 /\ <<b, a>> \in Dominance(p) => <<a, b>> \in Precedence(p)}
  <2>1. StrictOrder(Precedence(p), S)
    BY PrecedenceOrder
  <2>2. \A a, b, c \in S :
          <<a, b>> \in Dominance(p) /\ <<b, c>> \in Dominance(p) /\ a # c
            => <<a, c>> \in Dominance(p)
    BY DominanceTransitive
  <2> HIDE DEF S
  <2>3. \A P, D :
          /\ StrictOrder(P, S)
          /\ \A a, b, c \in S : <<a, b>> \in D /\ <<b, c>> \in D /\ a # c => <<a, c>> \in D
          /\ \A a \in S : <<a, a>> \notin D
          /\ Kernel(S, P, D, K)
          => Survivors(S, D, K) =
                {b \in S : ~\E a \in S : <<a, b>> \in D /\ (<<b, a>> \in D => <<a, b>> \in P)}
    BY <1>2, SurvivorsAreMaximal
  <2> QED
    BY <1>1, <1>2, <2>1, <2>2, <2>3
<1>4. \A a, b \in S :
        (/\ <<a, b>> \in Dominance(p)
         /\ <<b, a>> \in Dominance(p) => <<a, b>> \in Precedence(p))
        <=> a # b /\ Beats(p, a, b)
  BY DEF Dominance, Precedence, Beats
<1> HIDE DEF S
<1>5. EA!Frontier(p) = {b \in S : ~\E a \in S \ {b} : Beats(p, a, b)}
  BY <1>1, <1>3, <1>4
<1> QED
  BY <1>5 DEF S

(* Somebody ranks above everybody else.                                     *)
Highest(p, S, b) == b \in S /\ \A d \in S \ {b} : EA!RanksAbove(p, b, d)

LEMMA HighestExists ==
    ASSUME NEW p, Ranked(p), NEW S \in SUBSET EA!Alive(p), S # {}
    PROVE  \E b : Highest(p, S, b)
<1>1. PICK b \in S : \A d \in S \ {b} : <<b, d>> \in Ranking(p)
  BY RankingOrder, FirstOf DEF Ranked
<1> QED
  BY <1>1 DEF Ranking, Highest

LEMMA HighestUnique ==
    ASSUME NEW p, Ranked(p), NEW S \in SUBSET EA!Alive(p),
           NEW b, Highest(p, S, b), NEW c, Highest(p, S, c)
    PROVE  b = c
<1>1. \A x, y \in S : <<x, y>> \in Ranking(p) <=> EA!RanksAbove(p, x, y)
  BY DEF Ranking
<1>2. StrictOrder(Ranking(p), EA!Alive(p))
  BY RankingOrder
<1>3. b \in S /\ c \in S
  BY DEF Highest
<1>4. b # c => <<b, c>> \in Ranking(p) /\ <<c, b>> \in Ranking(p)
  BY <1>1, <1>3 DEF Highest
<1>5. b # c => <<b, b>> \in Ranking(p)
  BY <1>2, <1>3, <1>4 DEF StrictOrder
<1> QED
  BY <1>2, <1>3, <1>5 DEF StrictOrder

(* Phase 2 keeps at most max_candidate_num, the highest among them.         *)
LEMMA TopNKeeps ==
    ASSUME NEW p, Ranked(p), NEW S \in SUBSET EA!Alive(p)
    PROVE  /\ EA!TopN(p, S) \subseteq S /\ IsFiniteSet(EA!TopN(p, S))
           /\ Cardinality(EA!TopN(p, S)) <= MaxCandidateNum
           /\ \A b : Highest(p, S, b) => b \in EA!TopN(p, S)
<1>1. IsFiniteSet(S) /\ EA!TopN(p, S) \subseteq S /\ IsFiniteSet(EA!TopN(p, S))
  BY FS_Subset DEF Ranked, EA!TopN
<1>2. StrictOrder(Ranking(p), S)
  BY RankingOrder DEF StrictOrder
<1>3. \A c, d \in S : <<d, c>> \in Ranking(p) <=> EA!RanksAbove(p, d, c)
  BY DEF Ranking
<1>4. EA!TopN(p, S) =
        {c \in S : Cardinality({d \in S : <<d, c>> \in Ranking(p)}) < MaxCandidateNum}
  <2> DEFINE above(c) == {d \in S : EA!RanksAbove(p, d, c)}
             ranked(c) == {d \in S : <<d, c>> \in Ranking(p)}
  <2>1. \A c \in S : above(c) = ranked(c)
    BY <1>3
  <2>2. EA!TopN(p, S) = {c \in S : Cardinality(above(c)) < MaxCandidateNum}
    BY CountedAlike DEF EA!TopN
  <2> HIDE DEF above, ranked
  <2>3. EA!TopN(p, S) = {c \in S : Cardinality(ranked(c)) < MaxCandidateNum}
    BY <2>1, <2>2
  <2> QED
    BY <2>3 DEF ranked
<1>5. Cardinality(EA!TopN(p, S)) <= MaxCandidateNum
  BY <1>1, <1>2, <1>4, Constants, TopIsSmall
<1>6. ASSUME NEW b, Highest(p, S, b) PROVE b \in EA!TopN(p, S)
  <2>1. b \in S /\ \A d \in S \ {b} : <<b, d>> \in Ranking(p)
    BY <1>3, <1>6 DEF Highest
  <2>2. {d \in S : <<d, b>> \in Ranking(p)} = {}
    BY <1>2, <2>1 DEF StrictOrder
  <2>3. Cardinality({d \in S : <<d, b>> \in Ranking(p)}) = 0
    BY <2>2, FS_EmptySet
  <2> QED
    BY <1>4, <2>1, <2>3, Constants
<1> QED
  BY <1>1, <1>5, <1>6

(* Elimination always leaves somebody alive.                                *)
LEMMA SomebodyIsKept ==
    ASSUME NEW p, Ranked(p), EA!Alive(p) # {}
    PROVE  \E c \in EA!Alive(p) : c \notin EA!Eliminated(p)
<1>1. EA!Frontier(p) # {} /\ EA!Frontier(p) \in SUBSET EA!Alive(p)
  BY FrontierNonEmpty
<1>2. PICK b : Highest(p, EA!Frontier(p), b)
  BY <1>1, HighestExists
<1>3. b \in EA!TopN(p, EA!Frontier(p)) /\ b \in EA!Alive(p)
  BY <1>1, <1>2, TopNKeeps DEF Highest
<1> QED
  BY <1>3 DEF EA!Eliminated

(* A chain of candidates as long as the pool, each within the tolerance of  *)
(* the next, is all that an elimination can lose.                           *)
LEMMA DriftType ==
    ASSUME ValScores # {}
    PROVE  /\ Instances \in Nat /\ \A v \in ValScores : Len(v) = Instances
           /\ MaxCandidateNum + NumProposals - 1 \in Nat
           /\ (MaxCandidateNum + NumProposals - 1) * ScoreEps \in Nat /\ Drift \in Nat
<1> DEFINE w == CHOOSE v \in ValScores : TRUE
           m == (MaxCandidateNum + NumProposals - 1) * ScoreEps
<1>1. w \in ValScores
  OBVIOUS
<1> HIDE DEF w
<1>2. Len(w) \in Nat /\ \A v \in ValScores : Len(v) = Len(w)
  BY <1>1, Constants, SameVal
<1>3. MaxCandidateNum + NumProposals - 1 \in Nat
  BY Constants
<1>4. m \in Nat
  BY <1>3, Constants, Times
<1> HIDE DEF m
<1>5. Len(w) * m \in Nat
  BY <1>2, <1>4, Times
<1> QED
  BY <1>2, <1>3, <1>4, <1>5 DEF Instances, Drift, w, m

LEMMA BestIsKept ==
    ASSUME NEW p, Ranked(p), NEW b \in EA!Alive(p),
           Cardinality(EA!Alive(p)) <= MaxCandidateNum + NumProposals
    PROVE  \E c \in EA!Alive(p) : /\ c \notin EA!Eliminated(p)
                                  /\ EA!AvgScore(p[c].scores) + Drift >= EA!AvgScore(p[b].scores)
<1> DEFINE S == EA!Alive(p)
           F == EA!Frontier(p)
           m == MaxCandidateNum + NumProposals - 1
           val == [c \in S |-> p[c].scores]
           avg(c) == EA!AvgScore(p[c].scores)
<1>1. PICK K : Kernel(S, Precedence(p), Dominance(p), K) /\ F = Survivors(S, Dominance(p), K)
  BY FrontierSurvives
<1>2. /\ IsFiniteSet(S) /\ \A c \in S : p[c].scores \in ValScores
      /\ StrictOrder(Precedence(p), S)
  BY PrecedenceOrder DEF Ranked
<1>3. /\ Instances \in Nat /\ m \in Nat /\ m * ScoreEps \in Nat /\ Drift \in Nat
      /\ ScoreEps \in Nat /\ \A v \in ValScores : Len(v) = Instances
  BY <1>2, DriftType, Constants
<1>4. \A c \in S : /\ p[c].scores \in [1 .. Instances -> Nat] /\ avg(c) \in Nat
                   /\ DOMAIN p[c].scores = 1 .. Instances
  <2> TAKE c \in S
  <2> DEFINE v == p[c].scores
  <2>1. v \in ValScores
    BY <1>2
  <2> HIDE DEF v
  <2>2. v \in [1 .. Instances -> Nat] /\ EA!AvgScore(v) \in Nat /\ DOMAIN v = 1 .. Instances
    BY <1>3, <2>1, SameVal, AverageType
  <2> QED
    BY <2>2 DEF v
<1>5. \A a, c \in S : <<a, c>> \in Dominance(p) =>
        a # c /\ \A d \in 1 .. Instances : p[a].scores[d] + ScoreEps >= p[c].scores[d]
  BY <1>4 DEF Dominance, EA!IsDominated
<1>6. Cardinality(S) - 1 <= m
  <2>1. Cardinality(S) \in Nat
    BY <1>2, FS_CardinalityType
  <2> HIDE DEF S
  <2> QED
    BY <2>1, Constants DEF S
<1>7. PICK s \in F : Reaches(val, Instances, s, b, m * ScoreEps)
  <2>1. val \in [S -> [1 .. Instances -> Nat]]
    BY <1>4
  <2>2. Within(Dominance(p), S, val, Instances, ScoreEps)
    BY <1>5, <2>1 DEF Within, Reaches
  <2>3. \A a \in S : <<a, a>> \notin Dominance(p)
    BY <1>5
  <2>4. b \in S
    OBVIOUS
  <2> HIDE DEF S, F, val, m
  <2>5. ASSUME NEW P, StrictOrder(P, S), NEW D, \A a \in S : <<a, a>> \notin D,
               NEW k, Kernel(S, P, D, k), Within(D, S, val, Instances, ScoreEps)
        PROVE  \E s \in Survivors(S, D, k) : Reaches(val, Instances, s, b, m * ScoreEps)
    <3>1. IsFiniteSet(S) /\ Cardinality(S) - 1 <= m /\ b \in S
      BY <1>2, <1>6, <2>4
    <3>2. Instances \in Nat /\ ScoreEps \in Nat /\ m \in Nat
      BY <1>3
    <3> QED
      BY <2>5, <3>1, <3>2, SurvivorNear
  <2> QED
    BY <1>1, <1>2, <2>2, <2>3, <2>5
<1>8. F # {} /\ F \in SUBSET S
  BY FrontierNonEmpty
<1>9. avg(s) + Drift >= avg(b)
  <2>1. s \in S /\ val[s] = p[s].scores /\ val[b] = p[b].scores
    BY <1>8
  <2> DEFINE x == p[s].scores
             y == p[b].scores
             e == m * ScoreEps
  <2>2. x \in [1 .. Instances -> Nat] /\ y \in [1 .. Instances -> Nat]
    BY <1>4, <2>1
  <2>3. \A d \in 1 .. Instances : x[d] + e >= y[d]
    BY <1>7, <2>1 DEF Reaches
  <2>4. e \in Nat /\ Drift = Instances * e
    BY <1>3 DEF Drift
  <2> HIDE DEF x, y, e
  <2>5. EA!AvgScore(x) + Instances * e >= EA!AvgScore(y)
    BY <1>3, <2>2, <2>3, <2>4, AvgScoreNear
  <2> QED
    BY <2>4, <2>5 DEF x, y
<1>10. PICK h : Highest(p, F, h)
  BY <1>8, HighestExists
<1>11. h \in F /\ h \in S /\ h \in EA!TopN(p, F)
  BY <1>8, <1>10, TopNKeeps DEF Highest
<1>12. h = s \/ avg(h) >= avg(s)
  <2>1. h = s \/ EA!RanksAbove(p, h, s)
    BY <1>10 DEF Highest
  <2>2. EA!RanksAbove(p, h, s) => avg(h) > avg(s) \/ avg(h) = avg(s)
    BY DEF EA!RanksAbove
  <2>3. avg(h) \in Nat /\ avg(s) \in Nat
    BY <1>4, <1>8, <1>11
  <2> HIDE DEF avg
  <2> QED
    BY <2>1, <2>2, <2>3
<1>13. h \notin EA!Eliminated(p)
  BY <1>11 DEF EA!Eliminated
<1>14. avg(h) + Drift >= avg(b)
  <2>1. avg(h) \in Nat /\ avg(s) \in Nat /\ avg(b) \in Nat
    BY <1>4, <1>8, <1>11
  <2> HIDE DEF avg
  <2> QED
    BY <1>3, <1>9, <1>12, <2>1
<1> QED
  BY <1>11, <1>13, <1>14

(* On the first instance somebody has the highest score, whatever the       *)
(* tolerance, so that a non-empty pool of idle candidates can be selected   *)
(* from.                                                                    *)
LEMMA SomebodyIsSelectable ==
    ASSUME NEW p, Ranked(p), EA!InPool(p, {"pending"}) # {}
    PROVE  EA!Selectable(p) # {}
<1> DEFINE idle == EA!InPool(p, {"pending"})
           S == {c \in idle : p[c].scores # <<>>}
           top(c) == {d \in DOMAIN p[c].scores :
                         \A e \in S : p[c].scores[d] + ScoreEps >= p[e].scores[d]}
<1>1. S \in SUBSET EA!Alive(p) /\ IsFiniteSet(S)
  <2>1. S \in SUBSET EA!Alive(p)
    BY DEF EA!InPool, EA!Alive
  <2> QED
    BY <2>1, FS_Subset DEF Ranked
<1>2. CASE S = {}
  BY <1>2 DEF EA!Selectable
<1>3. CASE S # {}
  <2>1. \A c, e \in S : /\ c \in Nat /\ p[c].scores[1] \in Nat /\ p[e].scores[1] \in Nat
                        /\ 1 \in DOMAIN p[c].scores /\ IsFiniteSet(DOMAIN p[c].scores)
    <3> TAKE c, e \in S
    <3>1. p[c].scores \in ValScores /\ p[e].scores \in ValScores /\ c \in Nat
      BY <1>1 DEF Ranked
    <3>2. p[c].scores # <<>>
      OBVIOUS
    <3> DEFINE v == p[c].scores
               w == p[e].scores
    <3> HIDE DEF v, w
    <3>3. Len(v) \in Nat /\ Len(v) # 0 /\ DOMAIN v = 1 .. Len(v)
          /\ v \in [1 .. Len(v) -> Nat] /\ w \in [1 .. Len(v) -> Nat]
      BY <3>1, <3>2, SameVal DEF v, w
    <3>4. v[1] \in Nat /\ w[1] \in Nat /\ 1 \in DOMAIN v
      BY <3>3
    <3>5. IsFiniteSet(DOMAIN v)
      <4>1. \A n \in Nat : IsFiniteSet(1 .. n)
        BY FS_Interval
      <4> QED
        BY <3>3, <4>1, Zenon
    <3> QED
      BY <3>1, <3>4, <3>5 DEF v, w
  <2> DEFINE first(c) == p[c].scores[1]
             R == {q \in S \X S : \/ first(q[1]) < first(q[2])
                                  \/ first(q[1]) = first(q[2]) /\ q[1] < q[2]}
  <2>2. \A a, b \in S : <<a, b>> \in R <=> (first(a) < first(b) \/ (first(a) = first(b) /\ a < b))
    OBVIOUS
  <2>3. \A a \in S : first(a) \in Nat /\ a \in Nat
    BY <2>1
  <2>4. PICK c \in S : \A e \in S \ {c} : <<e, c>> \in R
    <3> HIDE DEF S, first, R
    <3>1. StrictOrder(R, S)
      BY <2>2, <2>3 DEF StrictOrder
    <3> QED
      BY <1>1, <1>3, <3>1, LastOf
  <2>5. \A e \in S : first(c) >= first(e)
    <3> HIDE DEF first, S, R
    <3> TAKE e \in S
    <3>1. e # c => first(e) < first(c) \/ first(e) = first(c)
      BY <2>2, <2>4
    <3> QED
      BY <2>3, <3>1
  <2>6. 1 \in top(c)
    <3>1. 1 \in DOMAIN p[c].scores /\ \A e \in S : first(c) + ScoreEps >= first(e)
      <4> HIDE DEF first, S
      <4> QED
        BY <2>1, <2>3, <2>4, <2>5, Constants
    <3> QED
      BY <3>1
  <2>7. Cardinality(top(c)) > 0
    <3>1. IsFiniteSet(top(c))
      BY <2>1, <2>4, FS_Subset
    <3> HIDE DEF top
    <3> QED
      BY <2>6, <3>1, FS_EmptySet, FS_CardinalityType
  <2>8. EA!MaxScoreCount(p, S, c) = Cardinality(top(c))
    BY CountedAlike DEF EA!MaxScoreCount
  <2> QED
    BY <1>3, <2>4, <2>7, <2>8 DEF EA!Selectable
<1> QED
  BY <1>2, <1>3

(* Elimination and selection look at nothing but the alive candidates'      *)
(* state, generation and scores.                                            *)
SameAlive(p, q) ==
    /\ EA!Alive(p) = EA!Alive(q)
    /\ \A c \in EA!Alive(p) : /\ p[c].state = q[c].state
                              /\ p[c].generation = q[c].generation
                              /\ p[c].scores = q[c].scores

LEMMA SameAliveSame ==
    ASSUME NEW p, Ranked(p), NEW q, SameAlive(p, q)
    PROVE  /\ Ranked(q) /\ EA!InPool(q, {"pending"}) = EA!InPool(p, {"pending"})
           /\ EA!Eliminated(q) = EA!Eliminated(p)
           /\ EA!Selectable(q) = EA!Selectable(p)
<1> DEFINE S == EA!Alive(p)
<1>1. S = EA!Alive(q) /\ Ranked(q)
  BY DEF SameAlive, Ranked
<1>2. \A c \in S : /\ p[c].state = q[c].state /\ p[c].generation = q[c].generation
                   /\ p[c].scores = q[c].scores
  BY DEF SameAlive
<1>3. EA!InPool(q, {"pending"}) = EA!InPool(p, {"pending"})
      /\ EA!InPool(p, {"pending"}) \subseteq S
  BY <1>1, <1>2 DEF EA!Alive, EA!InPool
<1>4. Precedence(p) = Precedence(q) /\ Dominance(p) = Dominance(q)
  <2>1. \A a, b \in S : EA!Precedes(p, a, b) <=> EA!Precedes(q, a, b)
    BY <1>2 DEF EA!Precedes
  <2> HIDE DEF S
  <2> QED
    BY <1>1, <1>2, <2>1 DEF Precedence, Dominance, S
<1>5. EA!Frontier(p) = EA!Frontier(q) /\ EA!Frontier(p) \subseteq S
  <2>1. PICK K : /\ Kernel(S, Precedence(p), Dominance(p), K)
                 /\ EA!Frontier(p) = Survivors(S, Dominance(p), K)
    BY FrontierSurvives
  <2>2. PICK J : /\ Kernel(S, Precedence(p), Dominance(p), J)
                 /\ EA!Frontier(q) = Survivors(S, Dominance(p), J)
    BY <1>1, <1>4, FrontierSurvives
  <2>3. IsFiniteSet(S) /\ StrictOrder(Precedence(p), S)
    BY PrecedenceOrder DEF Ranked
  <2> HIDE DEF S
  <2>4. K = J
    BY <2>1, <2>2, <2>3, KernelUnique
  <2> QED
    BY <2>1, <2>2, <2>4 DEF Survivors
<1>6. ASSUME NEW F \in SUBSET S PROVE EA!TopN(p, F) = EA!TopN(q, F)
  <2> DEFINE above(r, c) == {d \in F : EA!RanksAbove(r, d, c)}
  <2>1. \A c \in F : above(p, c) = above(q, c)
    BY <1>2 DEF EA!RanksAbove, EA!Precedes
  <2>2. \A r : EA!TopN(r, F) = {c \in F : EA!Cardinality(above(r, c)) < MaxCandidateNum}
    BY DEF EA!TopN
  <2> HIDE DEF above
  <2> QED
    BY <2>1, <2>2
<1>7. EA!Eliminated(q) = EA!Eliminated(p)
  <2>1. EA!TopN(p, EA!Frontier(p)) = EA!TopN(q, EA!Frontier(q))
    BY <1>5, <1>6
  <2> QED
    BY <1>1, <1>3, <2>1 DEF EA!Eliminated
<1>8. EA!Selectable(q) = EA!Selectable(p)
  <2> DEFINE idle == EA!InPool(p, {"pending"})
             scored == {c \in idle : p[c].scores # <<>>}
  <2>1. scored = {c \in idle : q[c].scores # <<>>} /\ scored \subseteq S
    BY <1>2, <1>3
  <2>2. \A c \in scored : EA!MaxScoreCount(p, scored, c) = EA!MaxScoreCount(q, scored, c)
    <3> DEFINE top(r, c) == {d \in DOMAIN r[c].scores :
                               \A e \in scored : r[c].scores[d] + ScoreEps >= r[e].scores[d]}
    <3>1. \A c \in scored : top(p, c) = top(q, c)
      <4> TAKE c \in scored
      <4>1. p[c].scores = q[c].scores /\ \A e \in scored : p[e].scores = q[e].scores
        BY <1>2, <2>1
      <4> HIDE DEF scored
      <4> QED
        BY <4>1
    <3>2. \A r, c : EA!MaxScoreCount(r, scored, c) = EA!Cardinality(top(r, c))
      BY DEF EA!MaxScoreCount
    <3> HIDE DEF top
    <3> QED
      BY <3>1, <3>2
  <2>3. EA!Selectable(p) = IF scored = {} THEN idle
                           ELSE {c \in scored : EA!MaxScoreCount(p, scored, c) > 0}
    BY DEF EA!Selectable
  <2>4. EA!Selectable(q) = IF scored = {} THEN idle
                           ELSE {c \in scored : EA!MaxScoreCount(q, scored, c) > 0}
    BY <1>3, <2>1 DEF EA!Selectable
  <2> HIDE DEF scored
  <2> QED
    BY <2>2, <2>3, <2>4
<1> QED
  BY <1>1, <1>3, <1>7, <1>8
-----------------------------------------------------------------------------
(* The population and its steps.                                            *)

Member == [state : {"pending", "evolving"}, generation : Nat, scores : ValScores]

PoolType(p) ==
    /\ IsFiniteSet(DOMAIN p) /\ DOMAIN p \subseteq Ids
    /\ p \in [DOMAIN p -> Member]

PInv == PoolType(pop) /\ Cardinality(Busy(pop)) <= NumProposals /\ PoolBound

LEMMA PoolIsRanked ==
    ASSUME NEW p, PoolType(p)
    PROVE  /\ EA!Alive(p) = DOMAIN p /\ Ranked(p)
           /\ EA!InPool(p, {"pending"}) = DOMAIN p \ Busy(p)
           /\ Busy(p) \subseteq DOMAIN p /\ IsFiniteSet(Busy(p))
           /\ Cardinality(Busy(p)) \in Nat /\ Cardinality(DOMAIN p) \in Nat
<1>1. \A c \in DOMAIN p : /\ p[c].state \in {"pending", "evolving"}
                          /\ p[c].generation \in Nat /\ p[c].scores \in ValScores
                          /\ c \in Nat
  BY Constants DEF PoolType, Member
<1>2. EA!Alive(p) = DOMAIN p /\ EA!InPool(p, {"pending"}) = DOMAIN p \ Busy(p)
      /\ Busy(p) \in SUBSET DOMAIN p
  BY <1>1 DEF EA!Alive, EA!InPool, Busy
<1>3. IsFiniteSet(DOMAIN p)
  BY DEF PoolType
<1> QED
  BY <1>1, <1>2, <1>3, FS_Subset, FS_CardinalityType DEF Ranked

LEMMA PutType ==
    ASSUME NEW p, PoolType(p), NEW c \in Ids, NEW rec \in Member
    PROVE  /\ PoolType(Put(p, c, rec)) /\ DOMAIN Put(p, c, rec) = DOMAIN p \cup {c}
           /\ \A d \in DOMAIN p : d # c => Put(p, c, rec)[d] = p[d]
           /\ Put(p, c, rec)[c] = rec
<1>1. IsFiniteSet(DOMAIN p \cup {c})
  BY FS_AddElement DEF PoolType
<1> QED
  BY <1>1 DEF PoolType, Put

(* q is p with the state of c set to s.                                     *)
Relabels(p, q, c, s) ==
    /\ PoolType(q) /\ DOMAIN q = DOMAIN p
    /\ \A d \in DOMAIN p : /\ q[d].scores = p[d].scores
                           /\ q[d].generation = p[d].generation
                           /\ q[d].state = IF d = c THEN s ELSE p[d].state

LEMMA WithStateType ==
    ASSUME NEW p, PoolType(p), NEW c \in DOMAIN p, NEW s \in {"pending", "evolving"}
    PROVE  Relabels(p, WithState(p, c, s), c, s)
<1> DEFINE q == WithState(p, c, s)
<1>1. q = [p EXCEPT ![c] = [p[c] EXCEPT !.state = s]] /\ DOMAIN q = DOMAIN p
  BY DEF WithState
<1>2. \A d \in DOMAIN p : p[d] \in Member
  BY DEF PoolType
<1> HIDE DEF q
<1>3. \A d \in DOMAIN p : /\ q[d] \in Member /\ q[d].scores = p[d].scores
                          /\ q[d].generation = p[d].generation
                          /\ q[d].state = IF d = c THEN s ELSE p[d].state
  BY <1>1, <1>2 DEF Member
<1>4. q \in [DOMAIN p -> Member]
  BY <1>1, <1>3
<1> QED
  BY <1>1, <1>3, <1>4 DEF PoolType, Relabels, q

LEMMA DropType ==
    ASSUME NEW p, PoolType(p), NEW C
    PROVE  /\ PoolType(Drop(p, C)) /\ DOMAIN Drop(p, C) = DOMAIN p \ C
           /\ \A d \in DOMAIN p \ C : Drop(p, C)[d] = p[d]
<1>1. IsFiniteSet(DOMAIN p \ C)
  BY FS_Subset DEF PoolType
<1> QED
  BY <1>1 DEF PoolType, Drop

(* The elimination at the end of a slot: it keeps somebody, spares the      *)
(* busy, leaves at most the cap idle, keeps the best but for the drift, and *)
(* with exact comparison leaves nobody idle whom another one beats.         *)
LEMMA SettledFacts ==
    ASSUME NEW p, PoolType(p), DOMAIN p # {}
    PROVE  /\ PoolType(Settled(p)) /\ DOMAIN Settled(p) # {}
           /\ Busy(Settled(p)) = Busy(p)
           /\ Cardinality(DOMAIN Settled(p)) <= MaxCandidateNum + Cardinality(Busy(p))
           /\ ScoreEps = 0 => Pruned(Settled(p))
           /\ Cardinality(DOMAIN p) <= MaxCandidateNum + NumProposals =>
                \A a \in Avgs(p) : \E b \in Avgs(Settled(p)) : b + Drift >= a
<1> DEFINE q == Settled(p)
           C == EA!Eliminated(p)
<1>1. /\ PoolType(q) /\ DOMAIN q = DOMAIN p \ C /\ \A d \in DOMAIN q : q[d] = p[d]
  BY DropType DEF Settled
<1>2. /\ EA!Alive(p) = DOMAIN p /\ Ranked(p) /\ IsFiniteSet(DOMAIN p)
      /\ EA!InPool(p, {"pending"}) = DOMAIN p \ Busy(p)
      /\ Busy(p) \subseteq DOMAIN p /\ IsFiniteSet(Busy(p)) /\ Cardinality(Busy(p)) \in Nat
      /\ Cardinality(DOMAIN p) \in Nat
  BY PoolIsRanked DEF PoolType
<1>3. DOMAIN q # {}
  BY <1>1, <1>2, SomebodyIsKept
<1>4. C \subseteq DOMAIN p \ Busy(p)
  BY <1>2 DEF EA!Eliminated
<1>5. Busy(q) = Busy(p)
  BY <1>1, <1>2, <1>4 DEF Busy, EA!InPool
<1>6. /\ EA!InPool(q, {"pending"}) = DOMAIN q \ Busy(p)
      /\ IsFiniteSet(DOMAIN q) /\ Cardinality(DOMAIN q) \in Nat
  BY <1>1, <1>5, PoolIsRanked DEF PoolType
<1> DEFINE F == EA!Frontier(p)
           N == EA!TopN(p, F)
           idle == DOMAIN q \ Busy(p)
<1>7. /\ F \in SUBSET DOMAIN p /\ N \subseteq F /\ IsFiniteSet(N)
      /\ Cardinality(N) \in Nat /\ Cardinality(N) <= MaxCandidateNum
  <2>1. F \in SUBSET EA!Alive(p)
    BY <1>2, FrontierNonEmpty
  <2> HIDE DEF F
  <2> QED
    BY <1>2, <2>1, TopNKeeps, FS_CardinalityType
<1>8. CASE Cardinality(DOMAIN p) <= 1
  <2>1. C = {} /\ DOMAIN q = DOMAIN p
    BY <1>1, <1>2, <1>8, CountedAlike DEF EA!Eliminated
  <2>2. \A a \in DOMAIN q, b \in DOMAIN q : a = b
    <3>1. Cardinality(DOMAIN p) = 1
      BY <1>2, <1>8, FS_EmptySet
    <3> QED
      BY <1>2, <2>1, <3>1, FS_Singleton
  <2>3. Cardinality(idle) \in Nat /\ Cardinality(idle) <= 1
    BY <1>2, <1>8, <2>1, FS_Subset, FS_CardinalityType
  <2>4. Cardinality(idle) <= MaxCandidateNum
    BY <2>3, Constants
  <2>5. \A a \in DOMAIN q, b \in idle : a # b => ~Beats(q, a, b)
    BY <2>2
  <2>6. Avgs(q) = Avgs(p)
    BY <1>1, <2>1 DEF Avgs
  <2>7. Cardinality(DOMAIN q) <= MaxCandidateNum + Cardinality(Busy(p))
    BY <1>2, <1>8, <2>1, Constants
  <2>8. \A a \in Avgs(p) : a \in Nat /\ Drift \in Nat
    BY <1>2, AverageType, DriftType DEF Avgs, Ranked
  <2>9. Pruned(q)
    BY <1>6, <2>4, <2>5 DEF Pruned
  <2>10. \A a \in Avgs(p) : a \in Avgs(q) /\ a + Drift >= a
    BY <2>6, <2>8
  <2> QED
    BY <1>1, <1>3, <1>5, <2>7, <2>9, <2>10
<1>9. CASE ~(Cardinality(DOMAIN p) <= 1)
  <2>1. C = (DOMAIN p \ Busy(p)) \ N
    BY <1>2, <1>9, CountedAlike DEF EA!Eliminated
  <2>2. idle \subseteq N
    BY <1>1, <2>1
  <2>3. Cardinality(idle) \in Nat /\ Cardinality(idle) <= MaxCandidateNum
    BY <1>7, <2>2, FS_Subset, FS_CardinalityType, Constants
  <2>4. Cardinality(DOMAIN q) <= MaxCandidateNum + Cardinality(Busy(p))
    <3>1. DOMAIN q = idle \cup Busy(p) /\ idle \cap Busy(p) = {}
      BY <1>1, <1>2, <1>4
    <3>2. IsFiniteSet(idle)
      BY <1>7, <2>2, FS_Subset
    <3>3. Cardinality(DOMAIN q) = Cardinality(idle) + Cardinality(Busy(p)) - 0
      <4> HIDE DEF idle, q
      <4> QED
        BY <1>2, <3>1, <3>2, DisjointUnion
    <3> QED
      BY <1>2, <2>3, <3>3, Constants
  <2>5. ASSUME ScoreEps = 0 PROVE \A a \in DOMAIN q, b \in idle : a # b => ~Beats(q, a, b)
    <3> SUFFICES ASSUME NEW a \in DOMAIN q, NEW b \in idle, a # b, Beats(q, a, b) PROVE FALSE
      OBVIOUS
    <3>1. q[a] = p[a] /\ q[b] = p[b] /\ a \in DOMAIN p /\ b \in DOMAIN p
      BY <1>1
    <3>2. Beats(p, a, b)
      BY <3>1 DEF Beats, EA!Precedes
    <3>3. b \in F
      BY <1>7, <2>2
    <3> QED
      BY <1>2, <2>5, <3>1, <3>2, <3>3, FrontierMaximal
  <2>6. ASSUME Cardinality(DOMAIN p) <= MaxCandidateNum + NumProposals
        PROVE  \A a \in Avgs(p) : \E b \in Avgs(q) : b + Drift >= a
    <3> SUFFICES ASSUME NEW c \in DOMAIN p
                 PROVE  \E b \in Avgs(q) : b + Drift >= EA!AvgScore(p[c].scores)
      BY DEF Avgs
    <3>1. PICK d \in DOMAIN p : /\ d \notin C
                               /\ EA!AvgScore(p[d].scores) + Drift >= EA!AvgScore(p[c].scores)
      BY <1>2, <2>6, BestIsKept
    <3>2. d \in DOMAIN q /\ q[d] = p[d]
      BY <1>1, <3>1
    <3> QED
      BY <3>1, <3>2 DEF Avgs
  <2> QED
    BY <1>1, <1>3, <1>5, <1>6, <2>3, <2>4, <2>5, <2>6 DEF Pruned
<1> QED
  BY <1>2, <1>8, <1>9

(* What every step does to the population.                                  *)
PoolStep(p, q) ==
    /\ DOMAIN q # {}
    /\ Busy(q) = {} => EA!Selectable(q) # {}
    /\ \A a \in Avgs(p) : \E b \in Avgs(q) : b + Drift >= a

LEMMA IdleIsSelectable ==
    ASSUME NEW p, PoolType(p), DOMAIN p # {}, Busy(p) = {}
    PROVE  EA!Selectable(p) # {}
BY PoolIsRanked, SomebodyIsSelectable

LEMMA BusyAfter ==
    ASSUME NEW p, PoolType(p), NEW c \in DOMAIN p
    PROVE  /\ Busy(WithState(p, c, "pending")) = Busy(p) \ {c}
           /\ Busy(WithState(p, c, "evolving")) = Busy(p) \cup {c}
<1>1. Relabels(p, WithState(p, c, "pending"), c, "pending")
  BY WithStateType
<1>2. Relabels(p, WithState(p, c, "evolving"), c, "evolving")
  BY WithStateType
<1> QED
  BY <1>1, <1>2 DEF Busy, EA!InPool, Relabels

LEMMA AveragesStay ==
    ASSUME NEW p, PoolType(p), NEW q, DOMAIN p \subseteq DOMAIN q,
           \A d \in DOMAIN p : q[d].scores = p[d].scores
    PROVE  \A a \in Avgs(p) : a \in Nat /\ a \in Avgs(q) /\ \E b \in Avgs(q) : b + Drift >= a
<1>1. \A a \in Avgs(p) : a \in Nat /\ Drift \in Nat
  BY PoolIsRanked, AverageType, DriftType DEF Avgs, Ranked
<1>2. \A a \in Avgs(p) : a \in Avgs(q)
  BY DEF Avgs
<1>3. \A a \in Avgs(p) : a + Drift >= a
  BY <1>1
<1> QED
  BY <1>1, <1>2, <1>3

LEMMA SeedKeeps ==
    ASSUME PInv, Seed
    PROVE  PInv' /\ PoolStep(pop, pop')
<1>1. PICK r \in Ids, v \in ValScores :
        pop' = Put(pop, r, [state |-> "pending", generation |-> 0, scores |-> v])
  BY DEF Seed
<1> DEFINE rec == [state |-> "pending", generation |-> 0, scores |-> v]
<1>2. rec \in Member
  BY DEF Member
<1>3. PoolType(pop) /\ DOMAIN pop = {}
  BY DEF PInv, Seed
<1> HIDE DEF rec
<1>4. /\ PoolType(pop') /\ DOMAIN pop' = {r} /\ pop'[r] = rec
  BY <1>1, <1>2, <1>3, PutType DEF rec
<1>5. Busy(pop') = {}
  BY <1>4 DEF Busy, EA!InPool, rec
<1>6. Cardinality(DOMAIN pop') = 1 /\ Cardinality(Busy(pop')) = 0
  BY <1>4, <1>5, FS_Singleton, FS_EmptySet
<1>7. Avgs(pop) = {}
  BY <1>3 DEF Avgs
<1>8. PInv'
  BY <1>4, <1>6, Constants DEF PInv, PoolBound
<1>9. EA!Selectable(pop') # {}
  BY <1>4, <1>5, IdleIsSelectable
<1> QED
  BY <1>4, <1>7, <1>8, <1>9 DEF PoolStep

(* A step that only moves candidates between pending and evolving.          *)
LEMMA MovesKeep ==
    ASSUME PInv, NEW q, PoolType(q), DOMAIN q = DOMAIN pop, DOMAIN pop # {},
           \A d \in DOMAIN pop : q[d].scores = pop[d].scores,
           Cardinality(Busy(q)) <= NumProposals, pop' = q
    PROVE  PInv' /\ PoolStep(pop, pop')
<1>1. \A a \in Avgs(pop) : \E b \in Avgs(pop') : b + Drift >= a
  BY AveragesStay DEF PInv
<1>2. Busy(pop') = {} => EA!Selectable(pop') # {}
  BY IdleIsSelectable
<1> QED
  BY <1>1, <1>2 DEF PInv, PoolBound, PoolStep

LEMMA BorrowKeeps ==
    ASSUME PInv, Borrow
    PROVE  PInv' /\ PoolStep(pop, pop')
<1>1. PICK c \in EA!Selectable(pop) : pop' = WithState(pop, c, "evolving")
  BY DEF Borrow
<1>2. PoolType(pop) /\ c \in DOMAIN pop
  BY DEF PInv, EA!Selectable, EA!InPool
<1> DEFINE q == WithState(pop, c, "evolving")
<1>3. PoolType(q) /\ DOMAIN q = DOMAIN pop /\ \A d \in DOMAIN pop : q[d].scores = pop[d].scores
  BY <1>2, WithStateType DEF Relabels
<1>4. Busy(q) = Busy(pop) \cup {c}
  BY <1>2, BusyAfter
<1>5. IsFiniteSet(Busy(pop)) /\ Cardinality(Busy(pop)) \in Nat
  BY <1>2, PoolIsRanked
<1>6. Cardinality(Busy(q)) <= NumProposals
  <2>1. Cardinality(Busy(pop)) < NumProposals
    BY DEF Borrow
  <2>2. Cardinality(Busy(pop) \cup {c}) <= Cardinality(Busy(pop)) + 1
    <3>1. Cardinality(Busy(pop) \cup {c}) \in {Cardinality(Busy(pop)), Cardinality(Busy(pop)) + 1}
      BY <1>5, FS_AddElement
    <3> QED
      BY <1>5, <3>1
  <2>3. Cardinality(Busy(q)) = Cardinality(Busy(pop) \cup {c})
    BY <1>4
  <2>4. Cardinality(Busy(q)) \in Nat
    BY <1>3, PoolIsRanked
  <2> HIDE DEF q
  <2> QED
    BY <1>5, <2>1, <2>2, <2>3, <2>4, Constants
<1> HIDE DEF q
<1> QED
  BY <1>1, <1>2, <1>3, <1>6, MovesKeep DEF q

(* The candidate c of a slot that ended, idle again.                        *)
LEMMA GivenBack ==
    ASSUME PInv, NEW c \in Busy(pop), NEW q, q = WithState(pop, c, "pending")
    PROVE  /\ PoolType(pop) /\ c \in DOMAIN pop
           /\ PoolType(q) /\ DOMAIN q = DOMAIN pop
           /\ \A d \in DOMAIN pop : q[d].scores = pop[d].scores
           /\ Busy(q) = Busy(pop) \ {c} /\ IsFiniteSet(Busy(q))
           /\ Cardinality(Busy(q)) \in Nat /\ Cardinality(Busy(q)) <= NumProposals - 1
<1>1. PoolType(pop) /\ c \in DOMAIN pop
  BY DEF PInv, Busy, EA!InPool
<1>2. PoolType(q) /\ DOMAIN q = DOMAIN pop /\ \A d \in DOMAIN pop : q[d].scores = pop[d].scores
  <2>1. Relabels(pop, WithState(pop, c, "pending"), c, "pending")
    BY <1>1, WithStateType
  <2> QED
    BY <2>1 DEF Relabels
<1>3. Busy(q) = Busy(pop) \ {c}
  BY <1>1, BusyAfter
<1>4. IsFiniteSet(Busy(pop)) /\ Cardinality(Busy(pop)) \in Nat
  BY <1>1, PoolIsRanked
<1>5. IsFiniteSet(Busy(q)) /\ Cardinality(Busy(q)) = Cardinality(Busy(pop)) - 1
  BY <1>3, <1>4, FS_RemoveElement
<1>6. Cardinality(Busy(q)) \in Nat
  BY <1>5, FS_CardinalityType
<1> QED
  BY <1>1, <1>2, <1>3, <1>4, <1>5, <1>6, Constants DEF PInv

(* The elimination over a population p that has at most NumProposals - 1    *)
(* busy candidates, everything the pool had and at most one more.           *)
LEMMA SettlingKeeps ==
    ASSUME PInv, NEW p, PoolType(p), DOMAIN pop \subseteq DOMAIN p, DOMAIN p # {},
           \A d \in DOMAIN pop : p[d].scores = pop[d].scores,
           Cardinality(Busy(p)) <= NumProposals - 1,
           Cardinality(DOMAIN p) <= MaxCandidateNum + NumProposals, pop' = Settled(p)
    PROVE  PInv' /\ PoolStep(pop, pop') /\ (ScoreEps = 0 => Pruned(pop'))
<1>1. /\ PoolType(pop') /\ DOMAIN pop' # {}
      /\ Busy(pop') = Busy(p)
      /\ Cardinality(DOMAIN pop') <= MaxCandidateNum + Cardinality(Busy(p))
      /\ ScoreEps = 0 => Pruned(pop')
      /\ \A a \in Avgs(p) : \E b \in Avgs(pop') : b + Drift >= a
  BY SettledFacts
<1>2. Cardinality(Busy(p)) \in Nat /\ Cardinality(DOMAIN pop') \in Nat
  BY <1>1, PoolIsRanked
<1>3. Busy(pop') = {} => EA!Selectable(pop') # {}
  BY <1>1, IdleIsSelectable
<1>4. \A a \in Avgs(pop) : a \in Avgs(p)
  BY AveragesStay DEF PInv
<1> QED
  BY <1>1, <1>2, <1>3, <1>4, Constants DEF PInv, PoolBound, PoolStep

LEMMA ReturnKeeps ==
    ASSUME PInv, Return
    PROVE  PInv' /\ PoolStep(pop, pop') /\ (ScoreEps = 0 => Pruned(pop'))
<1>1. PICK c \in Busy(pop) : pop' = Settled(WithState(pop, c, "pending"))
  BY DEF Return
<1> DEFINE p == WithState(pop, c, "pending")
<1>2. /\ c \in DOMAIN pop /\ PoolType(p) /\ DOMAIN p = DOMAIN pop
      /\ \A d \in DOMAIN pop : p[d].scores = pop[d].scores
      /\ Cardinality(Busy(p)) <= NumProposals - 1
  BY GivenBack
<1>3. Cardinality(DOMAIN p) <= MaxCandidateNum + NumProposals
  <2>1. Cardinality(DOMAIN pop) \in Nat /\ DOMAIN p = DOMAIN pop
    BY <1>2, PoolIsRanked DEF PInv
  <2> HIDE DEF p
  <2> QED
    BY <2>1, Constants DEF PInv, PoolBound
<1> HIDE DEF p
<1> QED
  BY <1>1, <1>2, <1>3, SettlingKeeps DEF p

LEMMA ReturnWithChildKeeps ==
    ASSUME PInv, ReturnWithChild
    PROVE  PInv' /\ PoolStep(pop, pop') /\ (ScoreEps = 0 => Pruned(pop'))
<1>1. PICK c \in Busy(pop), n \in Ids \ DOMAIN pop, v \in ValScores, g \in Generations :
        pop' = Settled(Put(WithState(pop, c, "pending"), n,
                           [state |-> "pending", generation |-> g, scores |-> v]))
  BY DEF ReturnWithChild
<1> DEFINE q == WithState(pop, c, "pending")
           rec == [state |-> "pending", generation |-> g, scores |-> v]
           p == Put(q, n, rec)
<1>2. /\ PoolType(q) /\ DOMAIN q = DOMAIN pop
      /\ \A d \in DOMAIN pop : q[d].scores = pop[d].scores
      /\ Cardinality(Busy(q)) <= NumProposals - 1
  BY GivenBack
<1>3. rec \in Member
  BY Constants DEF Member
<1> HIDE DEF q
<1>4. /\ PoolType(p) /\ DOMAIN p = DOMAIN pop \cup {n}
      /\ \A d \in DOMAIN pop : p[d] = q[d]
      /\ p[n] = rec
  <2> HIDE DEF rec
  <2> QED
    BY <1>2, <1>3, PutType
<1>5. Busy(p) = Busy(q)
  <2>1. p[n].state = "pending" /\ n \notin DOMAIN q
    BY <1>2, <1>4
  <2> HIDE DEF p
  <2> QED
    BY <1>2, <1>4, <2>1 DEF Busy, EA!InPool
<1> HIDE DEF p
<1>6. \A d \in DOMAIN pop : p[d].scores = pop[d].scores
  BY <1>2, <1>4
<1>7. DOMAIN p # {} /\ DOMAIN pop \subseteq DOMAIN p
  BY <1>4
<1>8. Cardinality(DOMAIN p) <= MaxCandidateNum + NumProposals
  <2>1. IsFiniteSet(DOMAIN pop) /\ Cardinality(DOMAIN pop) \in Nat
    BY PoolIsRanked DEF PInv, PoolType
  <2>2. Cardinality(DOMAIN p) = Cardinality(DOMAIN pop) + 1
    BY <1>4, <2>1, FS_AddElement
  <2> QED
    BY <2>1, <2>2, Constants DEF PInv, PoolBound
<1> QED
  BY <1>1, <1>2, <1>4, <1>5, <1>6, <1>7, <1>8, SettlingKeeps DEF p, q

LEMMA FailKeeps ==
    ASSUME PInv, Fail
    PROVE  PInv' /\ PoolStep(pop, pop')
<1>1. PICK c \in Busy(pop) : pop' = WithState(pop, c, "pending")
  BY DEF Fail
<1> DEFINE q == WithState(pop, c, "pending")
<1>2. /\ c \in DOMAIN pop /\ PoolType(q) /\ DOMAIN q = DOMAIN pop
      /\ \A d \in DOMAIN pop : q[d].scores = pop[d].scores
      /\ Cardinality(Busy(q)) \in Nat /\ Cardinality(Busy(q)) <= NumProposals - 1
  BY GivenBack
<1> HIDE DEF q
<1>3. Cardinality(Busy(q)) <= NumProposals /\ DOMAIN pop # {}
  BY <1>2, Constants
<1> QED
  BY <1>1, <1>2, <1>3, MovesKeep DEF q

LEMMA RecoverKeeps ==
    ASSUME PInv, Recover
    PROVE  PInv' /\ PoolStep(pop, pop')
<1> DEFINE q == [c \in DOMAIN pop |-> [pop[c] EXCEPT !.state = "pending"]]
<1>1. \A c \in DOMAIN pop : pop[c] \in Member /\ DOMAIN pop # {}
  BY DEF PInv, PoolType
<1>2. \A c \in DOMAIN pop : /\ q[c] \in Member /\ q[c].state = "pending"
                            /\ q[c].scores = pop[c].scores
  BY <1>1 DEF Member
<1>3. PoolType(q) /\ DOMAIN q = DOMAIN pop
  BY <1>2 DEF PInv, PoolType
<1> HIDE DEF q
<1>4. Busy(q) = {}
  BY <1>2, <1>3 DEF Busy, EA!InPool
<1>5. Cardinality(Busy(q)) <= NumProposals
  BY <1>4, FS_EmptySet, Constants
<1>6. DOMAIN pop # {}
  BY DEF Recover, Busy, EA!InPool
<1> QED
  BY <1>2, <1>3, <1>5, <1>6, MovesKeep DEF Recover, q

LEMMA InitKeeps == Init => PInv
<1> SUFFICES ASSUME Init PROVE PInv
  OBVIOUS
<1>1. DOMAIN pop = {} /\ pop \in [DOMAIN pop -> Member]
  BY DEF Init
<1>2. Busy(pop) = {}
  BY <1>1 DEF Busy, EA!InPool
<1>3. IsFiniteSet(DOMAIN pop) /\ Cardinality(DOMAIN pop) = 0 /\ Cardinality(Busy(pop)) = 0
  BY <1>1, <1>2, FS_EmptySet
<1>4. 0 <= NumProposals /\ 0 <= MaxCandidateNum + NumProposals - 1
  BY Constants
<1> QED
  BY <1>1, <1>3, <1>4 DEF PInv, PoolType, PoolBound

LEMMA StepKeeps ==
    ASSUME PInv, Next
    PROVE  /\ PInv' /\ PoolStep(pop, pop')
           /\ ScoreEps = 0 /\ (Return \/ ReturnWithChild) => Pruned(pop')
BY SeedKeeps, BorrowKeeps, ReturnKeeps, ReturnWithChildKeeps, FailKeeps, RecoverKeeps DEF Next

LEMMA NextKeeps == PInv /\ [Next]_pop => PInv'
<1>1. CASE Next
  BY <1>1, StepKeeps
<1>2. CASE UNCHANGED pop
  BY <1>2 DEF PInv, PoolBound
<1> QED
  BY <1>1, <1>2

THEOREM PoolInvariance == Spec => []PInv
BY InitKeeps, NextKeeps, PTL DEF Spec

(* The pool never outgrows the cap plus the slots in flight, whatever the   *)
(* order in which slots borrow, complete, fail and are recovered, and       *)
(* whatever the tolerance of the comparison.                                *)
THEOREM PoolIsBounded == Spec => []PoolBound
<1>1. PInv => PoolBound
  BY DEF PInv
<1> QED
  BY <1>1, PoolInvariance, PTL

(* Phase 1 of eliminate, one pass in a fixed order that kills as it goes,   *)
(* computes the maximal candidates of the population.                       *)
THEOREM PhaseOneIsMaximal ==
    ASSUME ScoreEps = 0
    PROVE  Spec => []FrontierIsMaximal
<1>1. PInv => FrontierIsMaximal
  <2> SUFFICES ASSUME PInv PROVE FrontierIsMaximal
    OBVIOUS
  <2>1. EA!Alive(pop) = DOMAIN pop /\ Ranked(pop)
    BY PoolIsRanked DEF PInv
  <2> QED
    BY <2>1, FrontierMaximal DEF FrontierIsMaximal
<1> QED
  BY <1>1, PoolInvariance, PTL

(* Once seeded the pool never dies out: elimination always leaves somebody, *)
(* and with no slot running select finds a candidate.                       *)
THEOREM SelectionNeverRunsDry == Spec => AlwaysSelectable
<1>1. PInv /\ [Next]_pop =>
        [DOMAIN pop' # {} /\ (Busy(pop)' = {} => EA!Selectable(pop)' # {})]_pop
  BY StepKeeps DEF PoolStep
<1> QED
  BY <1>1, PoolInvariance, PTL DEF Spec, AlwaysSelectable

(* No elimination loses the best average of the pool but for a drift that   *)
(* is proportional to the tolerance, the instances and the candidates       *)
(* alive; with exact comparison it never drops.                             *)
THEOREM BestIsNeverLost == Spec => BestNeverDrops
<1>1. PInv /\ [Next]_pop => [\A a \in Avgs(pop) : \E b \in Avgs(pop') : b + Drift >= a]_pop
  BY StepKeeps DEF PoolStep
<1>2. PInv /\ [Next]_pop => [\A a \in Avgs(pop) : \E b \in Avgs(pop)' : b + Drift >= a]_pop
  BY <1>1 DEF Avgs
<1> QED
  BY <1>1, <1>2, PoolInvariance, PTL DEF Spec, BestNeverDrops

(* A completed slot leaves an idle pool nobody in the pool beats, those who *)
(* were spared while evolving included, and within the cap.                 *)
THEOREM ReturnPrunes ==
    ASSUME ScoreEps = 0
    PROVE  Spec => PrunedAfterReturn
<1>1. PInv /\ [Next]_pop => [Return \/ ReturnWithChild => Pruned(pop')]_pop
  BY StepKeeps
<1> QED
  BY <1>1, PoolInvariance, PTL DEF Spec, PrunedAfterReturn
=============================================================================
