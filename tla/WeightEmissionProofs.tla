------------------------ MODULE WeightEmissionProofs ------------------------
(***************************************************************************)
(* Proofs about WeightEmission, for every set of uids, scores, limit, burn *)
(* percentage and resolution: what set_weights submits.                    *)
(*                                                                         *)
(* Its sums are folds.  A sum of naturals is shown to be the number of     *)
(* points below a graph, by induction on the subsets of its index set,     *)
(* with a set of good subsets in place of a predicate.                     *)
(***************************************************************************)
EXTENDS WeightEmission, FiniteSetTheorems, WellFoundedInduction, TLAPS

-----------------------------------------------------------------------------
(* Sums *)

\* A property of the empty set that every subset of S has when the smaller ones
\* do is a property of S; Good is the set of the subsets that have it.
LEMMA SubsetInduction ==
  ASSUME NEW S, IsFiniteSet(S), NEW Good, {} \in Good,
         \A T \in SUBSET S : T # {} /\ (\A x \in T : T \ {x} \in Good) => T \in Good
  PROVE  S \in Good
<1> DEFINE Bad == (SUBSET S) \ Good
<1>1. CASE Bad = {}
  BY <1>1
<1>2. CASE Bad # {}
  <2>1. Bad \subseteq FiniteSubsetsOf(S)
    BY FS_FiniteSubsetsOfFinite
  <2>2. PICK T \in Bad : \A U \in Bad : ~(<<U, T>> \in StrictSubsetOrdering(S))
    <3> HIDE DEF Bad
    <3> QED BY <1>2, <2>1, FS_StrictSubsetOrderingWellFounded, WFMin
  <2>3. ASSUME NEW x \in T PROVE T \ {x} \in Good
    <3>1. <<T \ {x}, T>> \in StrictSubsetOrdering(S)
      BY <2>3 DEF StrictSubsetOrdering
    <3> QED BY <2>2, <3>1
  <2> QED BY <2>2, <2>3
<1> QED BY <1>1, <1>2

\* The points below the graph of f over S.
Points(f, S) == {p \in S \X Nat : 1 <= p[2] /\ p[2] <= f[p[1]]}

LEMMA PointsOfElement ==
  ASSUME NEW f, NEW T, NEW x \in T, f[x] \in Nat, IsFiniteSet(Points(f, T \ {x}))
  PROVE  /\ IsFiniteSet(Points(f, T))
         /\ Cardinality(Points(f, T)) = f[x] + Cardinality(Points(f, T \ {x}))
<1> DEFINE C == {x} \X (1 .. f[x])
           R == Points(f, T \ {x})
<1>1. Points(f, T) = R \cup C /\ R \cap C = {}
  BY DEF Points
<1>2. IsFiniteSet({x}) /\ Cardinality({x}) = 1
  BY FS_Singleton
<1>3. IsFiniteSet(1 .. f[x]) /\ Cardinality(1 .. f[x]) = f[x]
  BY FS_Interval
<1>4. IsFiniteSet(C) /\ Cardinality(C) = f[x]
  <2> DEFINE I == 1 .. f[x]
  <2> HIDE DEF I
  <2>1. IsFiniteSet({x} \X I) /\ Cardinality({x} \X I) = Cardinality({x}) * Cardinality(I)
    BY <1>2, <1>3, FS_Product DEF I
  <2> QED BY <1>2, <1>3, <2>1 DEF I
<1> HIDE DEF C, R
<1>5. IsFiniteSet(R)
  BY DEF R
<1>6. IsFiniteSet(R \cup C) /\ Cardinality(R \cup C) = Cardinality(R) + Cardinality(C) - 0
  BY <1>1, <1>4, <1>5, FS_Union, FS_EmptySet
<1>7. Cardinality(R) \in Nat
  BY <1>5, FS_CardinalityType
<1> QED BY <1>1, <1>4, <1>6, <1>7 DEF R

LEMMA PointsFinite ==
  ASSUME NEW S, IsFiniteSet(S), NEW f, \A x \in S : f[x] \in Nat, NEW T \in SUBSET S
  PROVE  IsFiniteSet(Points(f, T))
<1> DEFINE Good == {U \in SUBSET S : IsFiniteSet(Points(f, U))}
<1>1. {} \in Good
  <2>1. Points(f, {}) = {}
    BY DEF Points
  <2> QED BY <2>1, FS_EmptySet
<1>2. ASSUME NEW U \in SUBSET S, U # {}, \A x \in U : U \ {x} \in Good
      PROVE  U \in Good
  BY <1>2, PointsOfElement
<1>3. S \in Good
  <2> HIDE DEF Good
  <2> QED BY <1>1, <1>2, SubsetInduction
<1>4. Points(f, T) \subseteq Points(f, S)
  BY DEF Points
<1> QED BY <1>3, <1>4, FS_Subset

LEMMA SumIsAFold ==
  ASSUME NEW f, NEW S
  PROVE  SumFunctionOnSet(f, S)
           = (CHOOSE it : it = [s \in SUBSET S |->
                IF s = {} THEN 0
                ELSE f[CHOOSE x \in s : TRUE] + it[s \ {CHOOSE x \in s : TRUE}]])[S]
BY DEF SumFunctionOnSet, FoldFunctionOnSet, MapThenFoldSet

\* A sum of naturals counts the points below the graph.
LEMMA SumCounts ==
  ASSUME NEW S, IsFiniteSet(S), NEW f, \A x \in S : f[x] \in Nat
  PROVE  SumFunctionOnSet(f, S) = Cardinality(Points(f, S))
<1> DEFINE first(s) == CHOOSE x \in s : TRUE
           count == [s \in SUBSET S |-> Cardinality(Points(f, s))]
           IsSum(it) == it = [s \in SUBSET S |-> IF s = {} THEN 0
                                                ELSE f[first(s)] + it[s \ {first(s)}]]
           sum == CHOOSE it : IsSum(it)
<1>1. count[{}] = 0
  <2>1. Points(f, {}) = {}
    BY DEF Points
  <2> QED BY <2>1, FS_EmptySet
<1>2. ASSUME NEW s \in SUBSET S, NEW x \in s
      PROVE  count[s] = f[x] + count[s \ {x}]
  <2>1. s \ {x} \in SUBSET S /\ f[x] \in Nat
    BY <1>2
  <2>2. IsFiniteSet(Points(f, s \ {x}))
    BY <2>1, PointsFinite
  <2>3. Cardinality(Points(f, s)) = f[x] + Cardinality(Points(f, s \ {x}))
    BY <1>2, <2>1, <2>2, PointsOfElement
  <2> QED BY <2>1, <2>3
<1>3. \A s \in SUBSET S : s # {} => first(s) \in s
  OBVIOUS
<1>4. IsSum(count)
  <2> DEFINE step(s) == IF s = {} THEN 0 ELSE f[first(s)] + count[s \ {first(s)}]
  <2>1. \A s \in SUBSET S : count[s] = step(s)
    <3> HIDE DEF first, count
    <3> QED BY <1>1, <1>2, <1>3
  <2>2. count = [s \in SUBSET S |-> count[s]]
    OBVIOUS
  <2> HIDE DEF count, step
  <2>3. count = [s \in SUBSET S |-> step(s)]
    BY <2>1, <2>2
  <2> QED BY <2>3 DEF step
<1>5. IsSum(sum)
  <2> HIDE DEF count, IsSum
  <2> QED BY <1>4
<1>6. SumFunctionOnSet(f, S) = sum[S]
  BY SumIsAFold
<1> HIDE DEF sum, first
<1>7. \A s \in SUBSET S : sum[s] = IF s = {} THEN 0 ELSE f[first(s)] + sum[s \ {first(s)}]
  BY <1>5
<1> DEFINE Good == {s \in SUBSET S : sum[s] = count[s]}
<1>8. {} \in Good
  BY <1>1, <1>7
<1>9. ASSUME NEW s \in SUBSET S, s # {}, \A x \in s : s \ {x} \in Good
      PROVE  s \in Good
  <2>1. first(s) \in s /\ sum[s \ {first(s)}] = count[s \ {first(s)}]
    BY <1>3, <1>9
  <2> HIDE DEF count
  <2> QED BY <1>2, <1>7, <1>9, <2>1
<1>10. S \in Good
  <2> HIDE DEF Good
  <2> QED BY <1>8, <1>9, SubsetInduction
<1> QED BY <1>6, <1>10

\* One term of a sum may be taken out.
LEMMA SumTakeOut ==
  ASSUME NEW S, IsFiniteSet(S), NEW f, \A x \in S : f[x] \in Nat
  PROVE  /\ SumFunctionOnSet(f, S) \in Nat
         /\ S = {} => SumFunctionOnSet(f, S) = 0
         /\ \A x \in S : /\ SumFunctionOnSet(f, S \ {x}) \in Nat
                         /\ SumFunctionOnSet(f, S) = f[x] + SumFunctionOnSet(f, S \ {x})
<1>1. IsFiniteSet(Points(f, S)) /\ SumFunctionOnSet(f, S) = Cardinality(Points(f, S))
  BY PointsFinite, SumCounts
<1>2. SumFunctionOnSet(f, S) \in Nat
  BY <1>1, FS_CardinalityType
<1>3. ASSUME S = {} PROVE SumFunctionOnSet(f, S) = 0
  <2>1. Points(f, S) = {}
    BY <1>3 DEF Points
  <2> QED BY <1>1, <2>1, FS_EmptySet
<1>4. ASSUME NEW x \in S
      PROVE  /\ SumFunctionOnSet(f, S \ {x}) \in Nat
             /\ SumFunctionOnSet(f, S) = f[x] + SumFunctionOnSet(f, S \ {x})
  <2> DEFINE R == S \ {x}
  <2>1. IsFiniteSet(R) /\ \A y \in R : f[y] \in Nat
    BY FS_RemoveElement
  <2>2. IsFiniteSet(Points(f, R)) /\ SumFunctionOnSet(f, R) = Cardinality(Points(f, R))
    BY <2>1, PointsFinite, SumCounts
  <2>3. Cardinality(Points(f, S)) = f[x] + Cardinality(Points(f, R))
    BY <2>2, PointsOfElement
  <2>4. Cardinality(Points(f, R)) \in Nat
    BY <2>2, FS_CardinalityType
  <2> QED BY <1>1, <2>2, <2>3, <2>4
<1> QED BY <1>2, <1>3, <1>4

\* A linear inequality between the terms of two sums holds between the sums.
LEMMA SumCompare ==
  ASSUME NEW S, IsFiniteSet(S), NEW f, NEW g,
         NEW a \in Nat, NEW b \in Nat, NEW c \in Nat, NEW d \in Nat,
         \A x \in S : f[x] \in Nat /\ g[x] \in Nat /\ a * f[x] + c <= b * g[x] + d
  PROVE  a * SumFunctionOnSet(f, S) + c * Cardinality(S)
           <= b * SumFunctionOnSet(g, S) + d * Cardinality(S)
<1> DEFINE Below(T) == a * SumFunctionOnSet(f, T) + c * Cardinality(T)
                         <= b * SumFunctionOnSet(g, T) + d * Cardinality(T)
           Good == {T \in SUBSET S : Below(T)}
<1>1. {} \in Good
  <2>1. SumFunctionOnSet(f, {}) = 0 /\ SumFunctionOnSet(g, {}) = 0 /\ Cardinality({}) = 0
    BY SumTakeOut, FS_EmptySet
  <2> QED BY <2>1
<1>2. ASSUME NEW T \in SUBSET S, T # {}, \A x \in T : T \ {x} \in Good
      PROVE  T \in Good
  <2>1. PICK x \in T : TRUE
    BY <1>2
  <2> DEFINE R == T \ {x}
             F == SumFunctionOnSet(f, R)
             G == SumFunctionOnSet(g, R)
             n == Cardinality(R)
  <2>2. IsFiniteSet(T) /\ IsFiniteSet(R)
    BY FS_Subset
  <2>3. Cardinality(T) = n + 1 /\ n \in Nat
    <3>1. Cardinality(R) = Cardinality(T) - 1
      BY <2>2, FS_RemoveElement
    <3>2. Cardinality(T) \in Nat /\ Cardinality(R) \in Nat
      BY <2>2, FS_CardinalityType
    <3> QED BY <3>1, <3>2
  <2>4. /\ SumFunctionOnSet(f, T) = f[x] + F /\ F \in Nat
        /\ SumFunctionOnSet(g, T) = g[x] + G /\ G \in Nat
    BY <2>2, SumTakeOut
  <2>5. a * F + c * n <= b * G + d * n
    BY <1>2
  <2> HIDE DEF F, G, n
  <2>6. f[x] \in Nat /\ g[x] \in Nat /\ a * f[x] + c <= b * g[x] + d
    OBVIOUS
  <2>7. /\ a * (f[x] + F) = a * f[x] + a * F /\ b * (g[x] + G) = b * g[x] + b * G
        /\ c * (n + 1) = c * n + c /\ d * (n + 1) = d * n + d
    BY <2>3, <2>4, <2>6
  <2>8. /\ a * f[x] \in Nat /\ a * F \in Nat /\ b * g[x] \in Nat /\ b * G \in Nat
        /\ c * n \in Nat /\ d * n \in Nat
    BY <2>3, <2>4, <2>6
  <2>9. a * (f[x] + F) + c * (n + 1) <= b * (g[x] + G) + d * (n + 1)
    BY <2>5, <2>6, <2>7, <2>8
  <2> QED BY <2>3, <2>4, <2>9
<1>3. S \in Good
  <2> HIDE DEF Good
  <2> QED BY <1>1, <1>2, SubsetInduction
<1> QED BY <1>3

\* A sum over two disjoint sets.
LEMMA SumSplit ==
  ASSUME NEW S, IsFiniteSet(S), NEW A \in SUBSET S, NEW f, \A x \in S : f[x] \in Nat
  PROVE  /\ SumFunctionOnSet(f, A) \in Nat /\ SumFunctionOnSet(f, S \ A) \in Nat
         /\ SumFunctionOnSet(f, S) = SumFunctionOnSet(f, A) + SumFunctionOnSet(f, S \ A)
<1> DEFINE Sum(T) == SumFunctionOnSet(f, T)
           Good == {T \in SUBSET A : Sum((S \ A) \cup T) = Sum(T) + Sum(S \ A)}
<1>0. /\ IsFiniteSet(A) /\ IsFiniteSet(S \ A)
      /\ Sum(A) \in Nat /\ Sum(S \ A) \in Nat
  BY FS_Subset, SumTakeOut
<1>1. {} \in Good
  <2>1. Sum({}) = 0 /\ (S \ A) \cup {} = S \ A
    BY SumTakeOut, FS_EmptySet
  <2> HIDE DEF Sum
  <2> QED BY <1>0, <2>1
<1>2. ASSUME NEW T \in SUBSET A, T # {}, \A x \in T : T \ {x} \in Good
      PROVE  T \in Good
  <2>1. PICK x \in T : TRUE
    BY <1>2
  <2>2. /\ IsFiniteSet(T) /\ IsFiniteSet((S \ A) \cup T) /\ T \subseteq S
        /\ ((S \ A) \cup T) \ {x} = (S \ A) \cup (T \ {x})
    <3>1. T \in SUBSET S /\ (S \ A) \cup T \in SUBSET S /\ x \in A
      OBVIOUS
    <3> QED BY <3>1, FS_Subset
  <2>3. Sum(T) = f[x] + Sum(T \ {x}) /\ Sum(T \ {x}) \in Nat
    BY <2>2, SumTakeOut
  <2>4. Sum((S \ A) \cup T) = f[x] + Sum((S \ A) \cup (T \ {x}))
    <3>1. Sum((S \ A) \cup T) = f[x] + Sum(((S \ A) \cup T) \ {x})
      BY <2>2, SumTakeOut
    <3> QED BY <2>2, <3>1
  <2>5. Sum((S \ A) \cup (T \ {x})) = Sum(T \ {x}) + Sum(S \ A) /\ f[x] \in Nat
    BY <1>2
  <2>6. Sum((S \ A) \cup T) = Sum(T) + Sum(S \ A)
    <3> HIDE DEF Sum
    <3> QED BY <1>0, <2>3, <2>4, <2>5
  <2> QED BY <2>6
<1>3. A \in Good
  <2> HIDE DEF Good
  <2> QED BY <1>0, <1>1, <1>2, SubsetInduction
<1>4. (S \ A) \cup A = S
  OBVIOUS
<1> QED BY <1>0, <1>3, <1>4

\* A sum is no less than any of its terms, and positive if one is.
LEMMA SumBounds ==
  ASSUME NEW S, IsFiniteSet(S), NEW f, \A x \in S : f[x] \in Nat
  PROVE  /\ \A x \in S : f[x] <= SumFunctionOnSet(f, S)
         /\ SumFunctionOnSet(f, S) = 0 <=> \A x \in S : f[x] = 0
<1>1. ASSUME NEW x \in S PROVE f[x] <= SumFunctionOnSet(f, S)
  <2>1. /\ SumFunctionOnSet(f, S) = f[x] + SumFunctionOnSet(f, S \ {x})
        /\ SumFunctionOnSet(f, S \ {x}) \in Nat
    BY SumTakeOut
  <2> QED BY <2>1
<1>2. ASSUME \A x \in S : f[x] = 0 PROVE SumFunctionOnSet(f, S) = 0
  <2>1. 1 * SumFunctionOnSet(f, S) + 0 * Cardinality(S)
          <= 0 * SumFunctionOnSet(f, S) + 0 * Cardinality(S)
    <3>1. \A x \in S : f[x] \in Nat /\ 1 * f[x] + 0 <= 0 * f[x] + 0
      BY <1>2
    <3> QED BY <3>1, SumCompare
  <2>2. SumFunctionOnSet(f, S) \in Nat /\ Cardinality(S) \in Nat
    BY SumTakeOut, FS_CardinalityType
  <2> QED BY <2>1, <2>2
<1>3. SumFunctionOnSet(f, S) \in Nat
  BY SumTakeOut
<1> QED BY <1>1, <1>2, <1>3

\* The largest weight is one of the weights.
LEMMA MaxOfIn ==
  ASSUME NEW w, IsFiniteSet(DOMAIN w), DOMAIN w # {}, \A u \in DOMAIN w : w[u] \in Nat
  PROVE  /\ MaxOf(w) \in Nat
         /\ \E u \in DOMAIN w : w[u] = MaxOf(w)
         /\ \A u \in DOMAIN w : w[u] <= MaxOf(w)
<1> DEFINE D == DOMAIN w
           B == {b \in Nat : \A u \in D : w[u] <= b}
<1>1. B # {}
  <2>1. SumFunctionOnSet(w, D) \in B
    BY SumTakeOut, SumBounds
  <2> QED BY <2>1
<1>2. PICK b \in B : \A c \in B : ~(<<c, b>> \in OpToRel(<, Nat))
  <2>1. B \subseteq Nat
    OBVIOUS
  <2> HIDE DEF B
  <2> QED BY <1>1, <2>1, NatLessThanWellFounded, WFMin
<1>3. \A c \in B : ~(c < b)
  BY <1>2 DEF OpToRel
<1>4. \E u \in D : w[u] = b
  <2> SUFFICES ASSUME \A u \in D : w[u] # b PROVE FALSE
    OBVIOUS
  <2>1. PICK u \in D : TRUE
    OBVIOUS
  <2>2. b > 0
    BY <2>1
  <2>3. b - 1 \in B
    BY <2>2
  <2> QED BY <1>3, <2>2, <2>3
<1>5. \E x \in Range(w) : \A y \in Range(w) : x >= y
  BY <1>4 DEF Range
<1>6. MaxOf(w) \in Range(w) /\ \A y \in Range(w) : MaxOf(w) >= y
  BY <1>5 DEF MaxOf, Max
<1> QED BY <1>6 DEF Range

-----------------------------------------------------------------------------
(* Products *)

LEMMA ProductMonotone ==
  ASSUME NEW a \in Int, NEW b \in Int, NEW c \in Nat, a <= b
  PROVE  a * c <= b * c
<1>1. PICK d \in Nat : b = a + d
  <2>1. b - a \in Nat /\ b = a + (b - a)
    OBVIOUS
  <2> QED BY <2>1
<1>2. d * c \in Nat /\ b * c = a * c + d * c
  BY <1>1
<1>3. a * c \in Int
  OBVIOUS
<1> QED BY <1>2, <1>3

LEMMA ProductCancel ==
  ASSUME NEW a \in Int, NEW b \in Int, NEW c \in Nat, c > 0
  PROVE  a * c <= b * c => a <= b
<1> SUFFICES ASSUME b < a PROVE b * c < a * c
  <2>1. a * c \in Int /\ b * c \in Int
    OBVIOUS
  <2> QED BY <2>1
<1>1. (b + 1) * c <= a * c
  BY ProductMonotone
<1>2. (b + 1) * c = b * c + c /\ b * c \in Int /\ a * c \in Int
  OBVIOUS
<1> QED BY <1>1, <1>2

LEMMA ProductPositive ==
  ASSUME NEW a \in Nat, NEW b \in Nat, a > 0, b > 0
  PROVE  a * b \in Nat /\ a * b > 0
<1>1. 1 * b <= a * b
  BY ProductMonotone
<1> QED BY <1>1

\* Rounding is within a half and keeps the order.
LEMMA RoundIsNear ==
  ASSUME NEW a \in Nat, NEW b \in Nat, b > 0
  PROVE  /\ RoundHalfEven(a, b) \in Nat
         /\ 2 * (RoundHalfEven(a, b) * b) <= 2 * a + b
         /\ 2 * a <= 2 * (RoundHalfEven(a, b) * b) + b
<1> DEFINE q == a \div b
           r == a % b
<1>1. q \in Nat /\ r \in Nat /\ r < b /\ a = b * q + r
  OBVIOUS
<1>2. RoundHalfEven(a, b) = IF 2 * r > b \/ (2 * r = b /\ q % 2 = 1) THEN q + 1 ELSE q
  BY DEF RoundHalfEven
<1> HIDE DEF q, r
<1>3. b * q = q * b /\ (q + 1) * b = q * b + b /\ q * b \in Nat
  BY <1>1
<1>4. CASE RoundHalfEven(a, b) = q /\ 2 * r <= b
  BY <1>1, <1>3, <1>4
<1>5. CASE RoundHalfEven(a, b) = q + 1 /\ 2 * r >= b
  BY <1>1, <1>3, <1>5
<1> QED BY <1>1, <1>2, <1>4, <1>5

LEMMA RoundKeepsOrder ==
  ASSUME NEW a \in Nat, NEW c \in Nat, NEW b \in Nat, b > 0, a <= c
  PROVE  RoundHalfEven(a, b) <= RoundHalfEven(c, b)
<1> DEFINE qa == a \div b
           ra == a % b
           qc == c \div b
           rc == c % b
<1>1. /\ qa \in Nat /\ ra \in Nat /\ ra < b /\ a = qa * b + ra
      /\ qc \in Nat /\ rc \in Nat /\ rc < b /\ c = qc * b + rc
  OBVIOUS
<1>2. /\ RoundHalfEven(a, b) = IF 2 * ra > b \/ (2 * ra = b /\ qa % 2 = 1) THEN qa + 1 ELSE qa
      /\ RoundHalfEven(c, b) = IF 2 * rc > b \/ (2 * rc = b /\ qc % 2 = 1) THEN qc + 1 ELSE qc
  BY DEF RoundHalfEven
<1> HIDE DEF qa, ra, qc, rc
<1>3. CASE qa = qc
  <2>1. qa * b \in Nat
    BY <1>1
  <2>2. ra <= rc
    BY <1>1, <1>3, <2>1
  <2> QED BY <1>1, <1>2, <1>3, <2>2
<1>4. CASE qa < qc
  BY <1>1, <1>2, <1>4
<1>5. CASE qc < qa
  <2>1. (qc + 1) * b <= qa * b
    BY <1>1, <1>5, ProductMonotone
  <2>2. (qc + 1) * b = qc * b + b /\ qc * b \in Nat /\ qa * b \in Nat
    BY <1>1
  <2> QED BY <1>1, <2>1, <2>2
<1> QED BY <1>1, <1>3, <1>4, <1>5

-----------------------------------------------------------------------------
(* The clipped sums of normalize_max_weight *)

Weights(w) == IsFiniteSet(DOMAIN w) /\ DOMAIN w # {} /\ \A u \in DOMAIN w : w[u] \in Nat \ {0}

Clip(w, x) == [v \in DOMAIN w |-> IF w[v] < x THEN w[v] ELSE x]

LEMMA SumOfFunction == \A f : SumFunction(f) = SumFunctionOnSet(f, DOMAIN f)
BY DEF SumFunction, FoldFunction, SumFunctionOnSet

\* Terms outside the function's domain play no part.
LEMMA ClippedSumIs ==
  ASSUME NEW w, Weights(w), NEW x \in Nat
  PROVE  /\ ClippedSum(w, x) = SumFunctionOnSet(Clip(w, x), DOMAIN w)
         /\ ClippedSum(w, x) \in Nat
         /\ \A v \in DOMAIN w : Clip(w, x)[v] \in Nat
<1>1. SumFunction(Clip(w, x)) = SumFunctionOnSet(Clip(w, x), DOMAIN w)
  BY SumOfFunction DEF Clip
<1>2. \A v \in DOMAIN w : Clip(w, x)[v] \in Nat
  BY DEF Clip, Weights
<1>3. SumFunctionOnSet(Clip(w, x), DOMAIN w) \in Nat
  BY <1>2, SumTakeOut DEF Weights
<1> QED BY <1>1, <1>2, <1>3 DEF ClippedSum, Clip

\* Some member of a set of uids has the least weight.
LEMMA LightestOf ==
  ASSUME NEW w, Weights(w), NEW S \in SUBSET DOMAIN w, S # {}
  PROVE  \E u \in S : \A v \in S : w[u] <= w[v]
<1> DEFINE B == {w[u] : u \in S}
<1>1. B \subseteq Nat /\ B # {}
  BY DEF Weights
<1>2. PICK b \in B : \A c \in B : ~(<<c, b>> \in OpToRel(<, Nat))
  <2> HIDE DEF B
  <2> QED BY <1>1, NatLessThanWellFounded, WFMin
<1>3. PICK u \in S : w[u] = b
  BY <1>2
<1>4. \A v \in S : w[v] \in B /\ w[v] \in Nat
  BY <1>1
<1>5. \A v \in S : ~(w[v] < w[u])
  BY <1>2, <1>3, <1>4 DEF OpToRel
<1> QED BY <1>3, <1>4, <1>5

Low(w) == {u \in DOMAIN w : w[u] * LimitDen < LimitNum * ClippedSum(w, w[u])}
HighCount(w) == Cardinality(DOMAIN w) - Cardinality(Low(w))
LowSum(w) == SumFunctionOnSet(w, Low(w))
Factor(w) == LimitDen - LimitNum * HighCount(w)
Cutoff(w) == LimitNum * LowSum(w)

LEMMA LowTypes ==
  ASSUME NEW w, Weights(w)
  PROVE  /\ LimitNum \in Nat /\ LimitDen \in Nat /\ LimitNum > 0 /\ LimitDen > 0
         /\ Low(w) \subseteq DOMAIN w /\ IsFiniteSet(Low(w))
         /\ IsFiniteSet(DOMAIN w \ Low(w))
         /\ HighCount(w) \in Nat /\ HighCount(w) = Cardinality(DOMAIN w \ Low(w))
         /\ LowSum(w) \in Nat /\ Cutoff(w) \in Nat /\ Factor(w) \in Int
<1>1. LimitNum \in Nat /\ LimitDen \in Nat /\ LimitNum > 0 /\ LimitDen > 0
  BY EmissionAssumption
<1>2. Low(w) \subseteq DOMAIN w /\ IsFiniteSet(Low(w)) /\ IsFiniteSet(DOMAIN w \ Low(w))
  <2>1. Low(w) \subseteq DOMAIN w /\ DOMAIN w \ Low(w) \subseteq DOMAIN w
    BY DEF Low
  <2> QED BY <2>1, FS_Subset DEF Weights
<1>3. Cardinality(DOMAIN w \ Low(w)) = Cardinality(DOMAIN w) - Cardinality(Low(w))
  <2>1. DOMAIN w \cap Low(w) = Low(w)
    BY <1>2
  <2> QED BY <2>1, FS_Difference DEF Weights
<1>4. HighCount(w) \in Nat /\ HighCount(w) = Cardinality(DOMAIN w \ Low(w))
  BY <1>2, <1>3, FS_CardinalityType DEF HighCount
<1>5. LowSum(w) \in Nat
  BY <1>2, SumTakeOut DEF LowSum, Weights
<1> QED BY <1>1, <1>2, <1>4, <1>5 DEF Cutoff, Factor

\* The clipped sum at a low weight is at most the low sum and that weight for
\* each of the others.
LEMMA ClippedBelow ==
  ASSUME NEW w, Weights(w), NEW x \in Nat
  PROVE  ClippedSum(w, x) <= LowSum(w) + HighCount(w) * x
<1> DEFINE D == DOMAIN w
           H == D \ Low(w)
           c == Clip(w, x)
<1>0. HighCount(w) \in Nat /\ LowSum(w) \in Nat
  BY LowTypes
<1>1. IsFiniteSet(D) /\ Low(w) \in SUBSET D /\ \A v \in D : c[v] \in Nat
  BY ClippedSumIs, LowTypes DEF Weights
<1>2. /\ SumFunctionOnSet(c, D) = SumFunctionOnSet(c, Low(w)) + SumFunctionOnSet(c, H)
      /\ SumFunctionOnSet(c, Low(w)) \in Nat /\ SumFunctionOnSet(c, H) \in Nat
  <2> HIDE DEF c
  <2> QED BY <1>1, SumSplit
<1>3. SumFunctionOnSet(c, Low(w)) <= LowSum(w)
  <2>1. \A v \in Low(w) : c[v] \in Nat /\ w[v] \in Nat /\ 1 * c[v] + 0 <= 1 * w[v] + 0
    BY <1>1 DEF Clip, Weights
  <2>2. 1 * SumFunctionOnSet(c, Low(w)) + 0 * Cardinality(Low(w))
          <= 1 * SumFunctionOnSet(w, Low(w)) + 0 * Cardinality(Low(w))
    <3> HIDE DEF c
    <3> QED BY <2>1, LowTypes, SumCompare
  <2>3. Cardinality(Low(w)) \in Nat
    BY LowTypes, FS_CardinalityType
  <2> HIDE DEF c, H
  <2> QED BY <1>0, <1>2, <2>2, <2>3 DEF LowSum
<1>4. SumFunctionOnSet(c, H) <= HighCount(w) * x
  <2>1. \A v \in H : c[v] \in Nat /\ 1 * c[v] + 0 <= 0 * c[v] + x
    BY <1>1 DEF Clip, Weights
  <2>2. 1 * SumFunctionOnSet(c, H) + 0 * Cardinality(H)
          <= 0 * SumFunctionOnSet(c, H) + x * Cardinality(H)
    <3> HIDE DEF c
    <3> QED BY <2>1, LowTypes, SumCompare
  <2>3. Cardinality(H) = HighCount(w) /\ HighCount(w) \in Nat
    BY LowTypes
  <2>4. x * HighCount(w) = HighCount(w) * x /\ x * HighCount(w) \in Nat
    BY <2>3
  <2> HIDE DEF c, H
  <2> QED BY <1>2, <2>2, <2>3, <2>4
<1>5. HighCount(w) * x \in Nat
  BY <1>0
<1>6. ClippedSum(w, x) = SumFunctionOnSet(c, D)
  BY ClippedSumIs
<1> HIDE DEF c, D, H
<1> QED BY <1>0, <1>2, <1>3, <1>4, <1>5, <1>6

\* At most every low weight, and exactly x for the others, if x lies between.
LEMMA ClippedBetween ==
  ASSUME NEW w, Weights(w), NEW x \in Nat,
         \A v \in Low(w) : w[v] <= x, \A v \in DOMAIN w \ Low(w) : x <= w[v]
  PROVE  LowSum(w) + HighCount(w) * x <= ClippedSum(w, x)
<1> DEFINE D == DOMAIN w
           H == D \ Low(w)
           c == Clip(w, x)
<1>0. HighCount(w) \in Nat /\ LowSum(w) \in Nat
  BY LowTypes
<1>1. IsFiniteSet(D) /\ Low(w) \in SUBSET D /\ \A v \in D : c[v] \in Nat
  BY ClippedSumIs, LowTypes DEF Weights
<1>2. /\ SumFunctionOnSet(c, D) = SumFunctionOnSet(c, Low(w)) + SumFunctionOnSet(c, H)
      /\ SumFunctionOnSet(c, Low(w)) \in Nat /\ SumFunctionOnSet(c, H) \in Nat
  <2> HIDE DEF c
  <2> QED BY <1>1, SumSplit
<1>3. LowSum(w) <= SumFunctionOnSet(c, Low(w))
  <2>1. \A v \in Low(w) : w[v] \in Nat /\ c[v] \in Nat /\ 1 * w[v] + 0 <= 1 * c[v] + 0
    BY <1>1 DEF Clip, Weights
  <2>2. 1 * SumFunctionOnSet(w, Low(w)) + 0 * Cardinality(Low(w))
          <= 1 * SumFunctionOnSet(c, Low(w)) + 0 * Cardinality(Low(w))
    <3> HIDE DEF c
    <3> QED BY <2>1, LowTypes, SumCompare
  <2>3. Cardinality(Low(w)) \in Nat
    BY LowTypes, FS_CardinalityType
  <2> HIDE DEF c, H
  <2> QED BY <1>0, <1>2, <2>2, <2>3 DEF LowSum
<1>4. HighCount(w) * x <= SumFunctionOnSet(c, H)
  <2>1. \A v \in H : c[v] \in Nat /\ 0 * c[v] + x <= 1 * c[v] + 0
    BY <1>1 DEF Clip, Weights
  <2>2. 0 * SumFunctionOnSet(c, H) + x * Cardinality(H)
          <= 1 * SumFunctionOnSet(c, H) + 0 * Cardinality(H)
    <3> HIDE DEF c
    <3> QED BY <2>1, LowTypes, SumCompare
  <2>3. Cardinality(H) = HighCount(w) /\ HighCount(w) \in Nat
    BY LowTypes
  <2>4. x * HighCount(w) = HighCount(w) * x /\ x * HighCount(w) \in Nat
    BY <2>3
  <2> HIDE DEF c, H
  <2> QED BY <1>2, <2>2, <2>3, <2>4
<1>5. HighCount(w) * x \in Nat
  BY <1>0
<1>6. ClippedSum(w, x) = SumFunctionOnSet(c, D)
  BY ClippedSumIs
<1> HIDE DEF c, D, H
<1> QED BY <1>0, <1>2, <1>3, <1>4, <1>5, <1>6

\* With room for the limit, the least weight is low.
LEMMA LightestIsLow ==
  ASSUME NEW w, Weights(w), Cardinality(DOMAIN w) * LimitNum > LimitDen
  PROVE  Low(w) # {} /\ LowSum(w) > 0
<1> DEFINE D == DOMAIN w
<1>1. PICK u \in D : \A v \in D : w[u] <= w[v]
  BY LightestOf DEF Weights
<1> DEFINE x == w[u]
           c == Clip(w, x)
           n == Cardinality(D)
<1>2. x \in Nat /\ x > 0 /\ IsFiniteSet(D)
  BY DEF Weights
<1>3. n \in Nat
  BY <1>2, FS_CardinalityType
<1>4. ClippedSum(w, x) = SumFunctionOnSet(c, D) /\ ClippedSum(w, x) \in Nat
      /\ \A v \in D : c[v] \in Nat
  BY <1>2, ClippedSumIs
<1>5. x * n <= ClippedSum(w, x)
  <2>1. \A v \in D : c[v] \in Nat /\ 0 * c[v] + x <= 1 * c[v] + 0
    BY <1>1, <1>2, <1>4 DEF Clip, Weights
  <2>2. 0 * SumFunctionOnSet(c, D) + x * Cardinality(D)
          <= 1 * SumFunctionOnSet(c, D) + 0 * Cardinality(D)
    <3> HIDE DEF c, x
    <3> QED BY <1>2, <2>1, SumCompare
  <2>3. x * n \in Nat
    BY <1>2, <1>3
  <2> HIDE DEF c, x
  <2> QED BY <1>3, <1>4, <2>2, <2>3
<1>6. x * LimitDen < LimitNum * ClippedSum(w, x)
  <2>1. LimitNum \in Nat /\ LimitDen \in Nat
    BY EmissionAssumption
  <2> HIDE DEF x, n
  <2>2. (LimitDen + 1) * x <= (n * LimitNum) * x
    <3>1. n * LimitNum \in Nat
      BY <1>3, <2>1
    <3>2. LimitDen + 1 <= n * LimitNum
      BY <2>1, <3>1 DEF n
    <3> QED BY <1>2, <2>1, <3>1, <3>2, ProductMonotone
  <2>3. (x * n) * LimitNum <= ClippedSum(w, x) * LimitNum
    <3>1. x * n \in Nat
      BY <1>2, <1>3
    <3> QED BY <1>4, <1>5, <2>1, <3>1, ProductMonotone
  <2>4. /\ (n * LimitNum) * x = (x * n) * LimitNum
        /\ (LimitDen + 1) * x = x * LimitDen + x
        /\ ClippedSum(w, x) * LimitNum = LimitNum * ClippedSum(w, x)
        /\ x * LimitDen \in Nat /\ LimitNum * ClippedSum(w, x) \in Nat
        /\ (x * n) * LimitNum \in Nat
    BY <1>2, <1>3, <1>4, <2>1
  <2> QED BY <1>2, <2>2, <2>3, <2>4
<1>7. u \in Low(w)
  BY <1>6 DEF Low
<1>8. x <= LowSum(w)
  <2>1. \A v \in Low(w) : w[v] \in Nat
    BY DEF Low, Weights
  <2> QED BY <1>7, <2>1, LowTypes, SumBounds DEF LowSum
<1>9. LowSum(w) \in Nat
  BY LowTypes
<1> QED BY <1>2, <1>7, <1>8, <1>9

\* Scaled by the factor, a low weight stays below the cutoff.
LEMMA LowIsBelow ==
  ASSUME NEW w, Weights(w), NEW u \in Low(w)
  PROVE  w[u] * Factor(w) < Cutoff(w)
<1> DEFINE x == w[u]
           A == LowSum(w)
           h == HighCount(w)
           C == ClippedSum(w, x)
<1>1. x \in Nat /\ A \in Nat /\ h \in Nat /\ LimitNum \in Nat /\ LimitDen \in Nat
  BY LowTypes DEF Weights, Low
<1>2. C \in Nat /\ C <= A + h * x /\ x * LimitDen < LimitNum * C
  BY <1>1, ClippedSumIs, ClippedBelow DEF Low
<1>3. Factor(w) = LimitDen - LimitNum * h /\ Cutoff(w) = LimitNum * A
  BY DEF Factor, Cutoff
<1> HIDE DEF x, A, h, C
<1>4. C * LimitNum <= (A + h * x) * LimitNum
  <2>1. A + h * x \in Nat
    BY <1>1
  <2> QED BY <1>1, <1>2, <2>1, ProductMonotone
<1>5. /\ C * LimitNum = LimitNum * C /\ LimitNum * C \in Nat
      /\ (A + h * x) * LimitNum = LimitNum * A + x * (LimitNum * h)
      /\ x * (LimitDen - LimitNum * h) = x * LimitDen - x * (LimitNum * h)
      /\ LimitNum * A \in Nat /\ x * (LimitNum * h) \in Nat /\ x * LimitDen \in Nat
  BY <1>1, <1>2
<1>6. x * (LimitDen - LimitNum * h) < LimitNum * A
  BY <1>2, <1>4, <1>5
<1> QED BY <1>3, <1>6 DEF x

\* A weight as large as one that is not low is not low.
LEMMA HighIsUpward ==
  ASSUME NEW w, Weights(w), NEW u \in DOMAIN w \ Low(w), NEW t \in DOMAIN w, w[u] <= w[t]
  PROVE  t \notin Low(w)
<1> DEFINE D == DOMAIN w
           x == w[u]
           y == w[t]
           cx == Clip(w, x)
           cy == Clip(w, y)
           X == ClippedSum(w, x)
           Y == ClippedSum(w, y)
<1>1. /\ x \in Nat /\ y \in Nat /\ x > 0 /\ y > 0 /\ IsFiniteSet(D)
      /\ LimitNum \in Nat /\ LimitDen \in Nat
  BY EmissionAssumption DEF Weights
<1>2. /\ X = SumFunctionOnSet(cx, D) /\ X \in Nat /\ \A v \in D : cx[v] \in Nat
      /\ Y = SumFunctionOnSet(cy, D) /\ Y \in Nat /\ \A v \in D : cy[v] \in Nat
  BY <1>1, ClippedSumIs
<1>3. x * Y <= y * X
  <2>1. ASSUME NEW v \in D PROVE x * cy[v] <= y * cx[v]
    <3> DEFINE z == w[v]
    <3>1. z \in Nat
      BY DEF Weights
    <3>2. /\ cx[v] = IF z < x THEN z ELSE x
          /\ cy[v] = IF z < y THEN z ELSE y
      BY DEF Clip
    <3> HIDE DEF x, y, z, cx, cy
    <3>3. x <= y
      BY DEF x, y
    <3>4. CASE z < x
      <4>1. x * z <= y * z
        BY <1>1, <3>1, <3>3, ProductMonotone
      <4> QED BY <1>1, <3>1, <3>2, <3>3, <3>4, <4>1
    <3>5. CASE ~(z < x) /\ z < y
      <4>1. z * x <= y * x /\ z * x = x * z
        BY <1>1, <3>1, <3>5, ProductMonotone
      <4> QED BY <3>2, <3>5, <4>1
    <3>6. CASE ~(z < x) /\ ~(z < y)
      <4>1. x * y = y * x /\ x * y \in Nat
        BY <1>1
      <4> QED BY <3>2, <3>6, <4>1
    <3> QED BY <3>4, <3>5, <3>6
  <2>2. \A v \in D : cy[v] \in Nat /\ cx[v] \in Nat /\ x * cy[v] + 0 <= y * cx[v] + 0
    <3> HIDE DEF x, y, cx, cy
    <3> QED BY <1>1, <1>2, <2>1
  <2>3. x * SumFunctionOnSet(cy, D) + 0 * Cardinality(D)
          <= y * SumFunctionOnSet(cx, D) + 0 * Cardinality(D)
    <3> HIDE DEF x, y, cx, cy
    <3> QED BY <1>1, <2>2, SumCompare
  <2>4. Cardinality(D) \in Nat
    BY <1>1, FS_CardinalityType
  <2>5. x * SumFunctionOnSet(cy, D) \in Nat /\ y * SumFunctionOnSet(cx, D) \in Nat
    <3> HIDE DEF x, y, cx, cy, X, Y
    <3> QED BY <1>1, <1>2
  <2> HIDE DEF x, y, cx, cy, X, Y
  <2> QED BY <1>2, <2>3, <2>4, <2>5
<1>4. LimitNum * X <= x * LimitDen
  <2>1. ~(x * LimitDen < LimitNum * X)
    BY DEF Low
  <2> HIDE DEF x, X
  <2>2. x * LimitDen \in Nat /\ LimitNum * X \in Nat
    BY <1>1, <1>2
  <2> QED BY <2>1, <2>2
<1>5. LimitNum * Y <= y * LimitDen
  <2> HIDE DEF x, y, X, Y
  <2>1. (x * Y) * LimitNum <= (y * X) * LimitNum
    BY <1>1, <1>2, <1>3, ProductMonotone
  <2>2. (LimitNum * X) * y <= (x * LimitDen) * y
    BY <1>1, <1>2, <1>4, ProductMonotone
  <2>3. /\ (x * Y) * LimitNum = (LimitNum * Y) * x
        /\ (y * X) * LimitNum = (LimitNum * X) * y
        /\ (x * LimitDen) * y = (y * LimitDen) * x
        /\ (x * Y) * LimitNum \in Nat /\ (y * X) * LimitNum \in Nat /\ (x * LimitDen) * y \in Nat
    BY <1>1, <1>2
  <2>4. (LimitNum * Y) * x <= (y * LimitDen) * x
    BY <2>1, <2>2, <2>3
  <2>5. LimitNum * Y \in Int /\ y * LimitDen \in Int
    BY <1>1, <1>2
  <2> QED BY <1>1, <2>4, <2>5, ProductCancel
<1>6. ~(y * LimitDen < LimitNum * Y)
  <2> HIDE DEF y, Y
  <2>1. LimitNum * Y \in Int /\ y * LimitDen \in Int
    BY <1>1, <1>2
  <2> QED BY <1>5, <2>1
<1> QED BY <1>6 DEF Low

\* When some weight is not low the factor is positive, and brings the weights
\* that are not low to the cutoff or above.
LEMMA HighIsAbove ==
  ASSUME NEW w, Weights(w), Cardinality(DOMAIN w) * LimitNum > LimitDen,
         DOMAIN w \ Low(w) # {}
  PROVE  Factor(w) > 0 /\ \A t \in DOMAIN w \ Low(w) : Cutoff(w) <= w[t] * Factor(w)
<1> DEFINE H == DOMAIN w \ Low(w)
<1>1. PICK u \in H : \A v \in H : w[u] <= w[v]
  BY LightestOf
<1> DEFINE x == w[u]
           A == LowSum(w)
           h == HighCount(w)
           C == ClippedSum(w, x)
<1>2. \A v \in DOMAIN w : w[v] \in Nat /\ w[v] > 0
  BY DEF Weights
<1>3. /\ x \in Nat /\ x > 0 /\ A \in Nat /\ A > 0 /\ h \in Nat
      /\ LimitNum \in Nat /\ LimitNum > 0 /\ LimitDen \in Nat
  BY <1>2, LowTypes, LightestIsLow
<1>4. C \in Nat
  BY <1>3, ClippedSumIs
<1>5. \A v \in Low(w) : w[v] <= x
  <2> SUFFICES ASSUME NEW v \in Low(w), x <= w[v] PROVE FALSE
    BY <1>2, <1>3 DEF Low
  <2>1. v \in DOMAIN w
    BY DEF Low
  <2> QED BY <2>1, HighIsUpward
<1>6. A + h * x <= C
  BY <1>1, <1>3, <1>5, ClippedBetween
<1>7. LimitNum * C <= x * LimitDen
  <2>1. ~(x * LimitDen < LimitNum * C)
    BY DEF Low
  <2> HIDE DEF x, C
  <2>2. x * LimitDen \in Nat /\ LimitNum * C \in Nat
    BY <1>3, <1>4
  <2> QED BY <2>1, <2>2
<1>8. Factor(w) = LimitDen - LimitNum * h /\ Cutoff(w) = LimitNum * A
  BY DEF Factor, Cutoff
<1>9. LimitNum * A <= x * (LimitDen - LimitNum * h)
  <2> HIDE DEF x, A, h, C
  <2>1. (A + h * x) * LimitNum <= C * LimitNum
    <3>1. A + h * x \in Nat
      BY <1>3
    <3> QED BY <1>3, <1>4, <1>6, <3>1, ProductMonotone
  <2>2. /\ C * LimitNum = LimitNum * C /\ LimitNum * C \in Nat
        /\ (A + h * x) * LimitNum = LimitNum * A + x * (LimitNum * h)
        /\ x * (LimitDen - LimitNum * h) = x * LimitDen - x * (LimitNum * h)
        /\ LimitNum * A \in Nat /\ x * (LimitNum * h) \in Nat /\ x * LimitDen \in Nat
    BY <1>3, <1>4
  <2> QED BY <1>7, <2>1, <2>2
<1>10. Factor(w) \in Int /\ Cutoff(w) \in Nat /\ Cutoff(w) > 0
  <2> HIDE DEF A, h
  <2> QED BY <1>3, <1>8, ProductPositive
<1>11. Factor(w) > 0
  <2> SUFFICES ASSUME Factor(w) <= 0 PROVE FALSE
    BY <1>10
  <2> HIDE DEF x
  <2>1. Factor(w) * x <= 0 * x
    BY <1>3, <1>10, ProductMonotone
  <2>2. Factor(w) * x = x * Factor(w)
    BY <1>3, <1>10
  <2> QED BY <1>3, <1>8, <1>9, <1>10, <2>1, <2>2
<1>12. ASSUME NEW t \in H PROVE Cutoff(w) <= w[t] * Factor(w)
  <2>1. w[t] \in Nat /\ x <= w[t]
    BY <1>1, <1>2
  <2> HIDE DEF x
  <2>2. x * Factor(w) <= w[t] * Factor(w)
    BY <1>3, <1>10, <1>11, <2>1, ProductMonotone
  <2>3. x * Factor(w) \in Int /\ w[t] * Factor(w) \in Int
    BY <1>3, <1>10, <2>1
  <2> QED BY <1>8, <1>9, <1>10, <2>2, <2>3
<1> QED BY <1>11, <1>12

\* The levels of a vector that is cut down: the sum is limit's inverse times the
\* cutoff, which no weight exceeds.
LEMMA CutDown ==
  ASSUME NEW w, Weights(w), Cardinality(DOMAIN w) * LimitNum > LimitDen,
         DOMAIN w \ Low(w) # {},
         NEW v, v = [u \in DOMAIN w |-> IF w[u] * Factor(w) > Cutoff(w)
                                       THEN Cutoff(w) ELSE w[u] * Factor(w)]
  PROVE  /\ \A u \in DOMAIN w : v[u] \in Nat \ {0} /\ v[u] <= Cutoff(w)
         /\ \A u, t \in DOMAIN w : w[u] <= w[t] => v[u] <= v[t]
         /\ LimitNum * SumFunctionOnSet(v, DOMAIN w) = Cutoff(w) * LimitDen
<1> DEFINE D == DOMAIN w
           H == D \ Low(w)
           F == Factor(w)
           K == Cutoff(w)
           A == LowSum(w)
           h == HighCount(w)
<1>1. /\ F \in Nat /\ F > 0
      /\ \A t \in H : K <= w[t] * F
      /\ \A t \in Low(w) : w[t] * F < K
  <2>1. F \in Int
    BY LowTypes
  <2>2. F > 0 /\ \A t \in H : K <= w[t] * F
    BY HighIsAbove
  <2>3. \A t \in Low(w) : w[t] * F < K
    BY LowIsBelow
  <2> QED BY <2>1, <2>2, <2>3
<1>2. K \in Nat /\ K > 0 /\ A \in Nat /\ h \in Nat /\ LimitNum \in Nat /\ LimitDen \in Nat
  BY LowTypes, LightestIsLow, ProductPositive DEF Cutoff
<1>3. \A u \in D : w[u] \in Nat /\ w[u] > 0
  BY DEF Weights
<1> HIDE DEF F, K
<1>4. \A u \in D : w[u] * F \in Nat /\ w[u] * F > 0
  BY <1>1, <1>3, ProductPositive
<1>5. \A u \in D : v[u] = IF w[u] * F > K THEN K ELSE w[u] * F
  BY DEF F, K
<1>6. \A u \in D : v[u] \in Nat \ {0} /\ v[u] <= K
  BY <1>2, <1>4, <1>5
<1>7. ASSUME NEW u \in D, NEW t \in D, w[u] <= w[t] PROVE v[u] <= v[t]
  <2>1. w[u] * F <= w[t] * F
    BY <1>1, <1>3, <1>7, ProductMonotone
  <2> QED BY <1>2, <1>4, <1>5, <2>1
<1>8. SumFunctionOnSet(v, Low(w)) = A * F
  <2>1. \A u \in Low(w) : v[u] = w[u] * F /\ w[u] \in Nat /\ v[u] \in Nat
    BY <1>1, <1>2, <1>3, <1>4, <1>5 DEF Low
  <2>2. IsFiniteSet(Low(w))
    BY LowTypes
  <2>3. \A u \in Low(w) : /\ w[u] \in Nat /\ v[u] \in Nat
                          /\ 1 * v[u] + 0 <= F * w[u] + 0
                          /\ F * w[u] + 0 <= 1 * v[u] + 0
    <3>1. \A u \in Low(w) : w[u] * F = F * w[u] /\ F * w[u] \in Nat
      BY <1>1, <2>1
    <3> QED BY <2>1, <3>1
  <2>4. /\ 1 * SumFunctionOnSet(v, Low(w)) + 0 * Cardinality(Low(w))
             <= F * SumFunctionOnSet(w, Low(w)) + 0 * Cardinality(Low(w))
        /\ F * SumFunctionOnSet(w, Low(w)) + 0 * Cardinality(Low(w))
             <= 1 * SumFunctionOnSet(v, Low(w)) + 0 * Cardinality(Low(w))
    BY <1>1, <2>2, <2>3, SumCompare
  <2>5. SumFunctionOnSet(v, Low(w)) \in Nat /\ Cardinality(Low(w)) \in Nat
    BY <2>1, <2>2, SumTakeOut, FS_CardinalityType
  <2>6. SumFunctionOnSet(w, Low(w)) = A
    BY DEF LowSum
  <2>7. A * F = F * A /\ A * F \in Nat
    BY <1>1, <1>2
  <2> HIDE DEF A
  <2> QED BY <2>4, <2>5, <2>6, <2>7
<1>9. SumFunctionOnSet(v, H) = K * h
  <2>1. ASSUME NEW u \in H PROVE v[u] = K
    <3>1. K <= w[u] * F /\ w[u] * F \in Nat
      BY <1>1, <1>4
    <3>2. v[u] = IF w[u] * F > K THEN K ELSE w[u] * F
      BY <1>5
    <3> QED BY <1>2, <3>1, <3>2
  <2>2. IsFiniteSet(H) /\ Cardinality(H) = h
    BY LowTypes
  <2>3. \A u \in H : v[u] \in Nat /\ 1 * v[u] + 0 <= 0 * v[u] + K
                                  /\ 0 * v[u] + K <= 1 * v[u] + 0
    BY <1>2, <2>1
  <2>4. /\ 1 * SumFunctionOnSet(v, H) + 0 * Cardinality(H)
             <= 0 * SumFunctionOnSet(v, H) + K * Cardinality(H)
        /\ 0 * SumFunctionOnSet(v, H) + K * Cardinality(H)
             <= 1 * SumFunctionOnSet(v, H) + 0 * Cardinality(H)
    BY <1>2, <2>2, <2>3, SumCompare
  <2>5. SumFunctionOnSet(v, H) \in Nat
    BY <2>2, <2>3, SumTakeOut
  <2>6. K * h \in Nat
    BY <1>2
  <2> HIDE DEF H, h
  <2> QED BY <1>2, <2>2, <2>4, <2>5, <2>6
<1>10. SumFunctionOnSet(v, D) = A * F + K * h
  <2>1. IsFiniteSet(D) /\ Low(w) \in SUBSET D /\ \A u \in D : v[u] \in Nat
    BY <1>6, LowTypes DEF Weights
  <2>2. SumFunctionOnSet(v, D) = SumFunctionOnSet(v, Low(w)) + SumFunctionOnSet(v, D \ Low(w))
    BY <2>1, SumSplit
  <2> QED BY <1>8, <1>9, <2>2
<1>11. LimitNum * SumFunctionOnSet(v, D) = K * LimitDen
  <2>1. F = LimitDen - LimitNum * h /\ K = LimitNum * A
    BY DEF F, K, Factor, Cutoff
  <2> HIDE DEF A, h
  <2>2. LimitNum * (A * F + K * h) = K * F + K * (LimitNum * h)
    <3>1. LimitNum * (A * F + K * h) = (LimitNum * A) * F + K * (LimitNum * h)
      BY <1>1, <1>2
    <3> QED BY <2>1, <3>1
  <2>3. K * F + K * (LimitNum * h) = K * (F + LimitNum * h)
    BY <1>1, <1>2
  <2>4. F + LimitNum * h = LimitDen
    <3>1. LimitNum * h \in Nat
      BY <1>2
    <3> QED BY <1>2, <2>1, <3>1
  <2> QED BY <1>10, <2>2, <2>3, <2>4
<1> QED BY <1>6, <1>7, <1>11 DEF K

\* A weight above the limit is not low.
LEMMA OverLimitIsHigh ==
  ASSUME NEW w, Weights(w), NEW u \in DOMAIN w,
         ~(w[u] * LimitDen <= LimitNum * SumFunction(w))
  PROVE  u \in DOMAIN w \ Low(w)
<1> DEFINE D == DOMAIN w
           x == w[u]
           c == Clip(w, x)
           C == ClippedSum(w, x)
<1>1. x \in Nat /\ IsFiniteSet(D) /\ \A v \in D : w[v] \in Nat
  BY DEF Weights
<1>2. C = SumFunctionOnSet(c, D) /\ C \in Nat /\ \A v \in D : c[v] \in Nat
  BY <1>1, ClippedSumIs
<1>3. SumFunction(w) = SumFunctionOnSet(w, D) /\ SumFunction(w) \in Nat
  BY <1>1, SumOfFunction, SumTakeOut
<1>4. C <= SumFunction(w)
  <2>1. \A v \in D : c[v] \in Nat /\ w[v] \in Nat /\ 1 * c[v] + 0 <= 1 * w[v] + 0
    BY <1>1, <1>2 DEF Clip
  <2>2. 1 * SumFunctionOnSet(c, D) + 0 * Cardinality(D)
          <= 1 * SumFunctionOnSet(w, D) + 0 * Cardinality(D)
    <3> HIDE DEF c
    <3> QED BY <1>1, <2>1, SumCompare
  <2>3. Cardinality(D) \in Nat
    BY <1>1, FS_CardinalityType
  <2> HIDE DEF c, C
  <2> QED BY <1>2, <1>3, <2>2, <2>3
<1>5. LimitNum \in Nat /\ LimitDen \in Nat
  BY EmissionAssumption
<1> HIDE DEF x, C
<1>6. C * LimitNum <= SumFunction(w) * LimitNum
  BY <1>2, <1>3, <1>4, <1>5, ProductMonotone
<1>7. /\ C * LimitNum = LimitNum * C /\ SumFunction(w) * LimitNum = LimitNum * SumFunction(w)
      /\ LimitNum * C \in Nat /\ LimitNum * SumFunction(w) \in Nat /\ x * LimitDen \in Nat
  BY <1>1, <1>2, <1>3, <1>5
<1>8. ~(x * LimitDen < LimitNum * C)
  BY <1>6, <1>7 DEF x
<1> QED BY <1>8 DEF Low, x, C

\* What normalize_max_weight does to positive weights.
LEMMA NormalizeMaxWeightIs ==
  ASSUME NEW w, Weights(w), NEW v, v = NormalizeMaxWeight(w)
  PROVE  /\ DOMAIN v = DOMAIN w /\ Weights(v)
         /\ \A u, t \in DOMAIN w : w[u] <= w[t] => v[u] <= v[t]
         /\ \/ Cardinality(DOMAIN w) * LimitNum <= LimitDen
            \/ \A u \in DOMAIN w : v[u] * LimitDen <= LimitNum * SumFunctionOnSet(v, DOMAIN w)
<1> DEFINE D == DOMAIN w
           n == Cardinality(D)
<1>1. IsFiniteSet(D) /\ D # {} /\ \A u \in D : w[u] \in Nat \ {0}
  BY DEF Weights
<1>2. n \in Nat /\ LimitNum \in Nat /\ LimitDen \in Nat
  BY <1>1, FS_CardinalityType, EmissionAssumption
<1>3. SumFunction(w) = SumFunctionOnSet(w, D) /\ SumFunction(w) \in Nat /\ SumFunction(w) # 0
  <2>1. SumFunction(w) = SumFunctionOnSet(w, D) /\ SumFunction(w) \in Nat
    BY <1>1, SumOfFunction, SumTakeOut
  <2>2. SumFunctionOnSet(w, D) # 0
    BY <1>1, SumBounds
  <2> QED BY <2>1, <2>2
<1>4. v = IF n * LimitNum <= LimitDen
          THEN [u \in D |-> 1]
          ELSE IF MaxOf(w) * LimitDen <= LimitNum * SumFunction(w) THEN w
          ELSE [u \in D |-> IF w[u] * Factor(w) > Cutoff(w)
                            THEN Cutoff(w) ELSE w[u] * Factor(w)]
  BY <1>3 DEF NormalizeMaxWeight, Factor, Cutoff, HighCount, LowSum, Low
<1>5. CASE n * LimitNum <= LimitDen
  <2>1. v = [u \in D |-> 1]
    BY <1>4, <1>5
  <2> QED BY <1>1, <1>5, <2>1 DEF Weights
<1>6. MaxOf(w) \in Nat /\ (\E u \in D : w[u] = MaxOf(w)) /\ (\A u \in D : w[u] <= MaxOf(w))
  BY <1>1, MaxOfIn
<1>7. CASE ~(n * LimitNum <= LimitDen) /\ MaxOf(w) * LimitDen <= LimitNum * SumFunction(w)
  <2>1. v = w
    BY <1>4, <1>7
  <2>2. ASSUME NEW u \in D PROVE w[u] * LimitDen <= LimitNum * SumFunctionOnSet(w, D)
    <3>1. w[u] * LimitDen <= MaxOf(w) * LimitDen
      BY <1>1, <1>2, <1>6, ProductMonotone
    <3>2. /\ w[u] * LimitDen \in Nat /\ MaxOf(w) * LimitDen \in Nat
          /\ LimitNum * SumFunction(w) \in Nat
      BY <1>1, <1>2, <1>3, <1>6
    <3> QED BY <1>3, <1>7, <3>1, <3>2
  <2> QED BY <2>1, <2>2
<1>8. CASE ~(n * LimitNum <= LimitDen) /\ ~(MaxOf(w) * LimitDen <= LimitNum * SumFunction(w))
  <2>1. v = [u \in D |-> IF w[u] * Factor(w) > Cutoff(w)
                         THEN Cutoff(w) ELSE w[u] * Factor(w)]
    BY <1>4, <1>8
  <2>2. D \ Low(w) # {}
    <3>1. PICK u \in D : w[u] = MaxOf(w)
      BY <1>6
    <3> QED BY <1>8, <3>1, OverLimitIsHigh
  <2>3. n * LimitNum > LimitDen
    <3>1. n * LimitNum \in Nat
      BY <1>2
    <3> QED BY <1>2, <1>8, <3>1
  <2>4. /\ \A u \in D : v[u] \in Nat \ {0} /\ v[u] <= Cutoff(w)
        /\ \A u, t \in D : w[u] <= w[t] => v[u] <= v[t]
        /\ LimitNum * SumFunctionOnSet(v, D) = Cutoff(w) * LimitDen
    BY <2>1, <2>2, <2>3, CutDown
  <2>5. ASSUME NEW u \in D PROVE v[u] * LimitDen <= LimitNum * SumFunctionOnSet(v, D)
    <3>1. Cutoff(w) \in Nat
      BY LowTypes
    <3>2. v[u] * LimitDen <= Cutoff(w) * LimitDen
      BY <1>2, <2>4, <3>1, ProductMonotone
    <3> QED BY <2>4, <3>2
  <2>6. DOMAIN v = D
    BY <2>1
  <2> QED BY <1>1, <2>4, <2>5, <2>6 DEF Weights
<1> QED BY <1>5, <1>7, <1>8

-----------------------------------------------------------------------------
(* What is submitted *)

\* The vector the chain stores: zero where nothing was submitted.
Stored(w) == [u \in UIDs |-> IF u \in DOMAIN w THEN w[u] ELSE 0]

\* A vector the conversion can scale: some weight is positive.
Scalable(a) ==
  /\ DOMAIN a \subseteq UIDs
  /\ \A u \in DOMAIN a : a[u] \in Nat
  /\ \E u \in DOMAIN a : a[u] > 0

LEMMA StoredIs ==
  ASSUME NEW a, Scalable(a), NEW out, out = Stored(ConvertForEmit(a))
  PROVE  /\ MaxOf(a) \in Nat /\ MaxOf(a) > 0
         /\ \A u \in UIDs \ DOMAIN a : out[u] = 0
         /\ \A u \in DOMAIN a :
              /\ out[u] \in 0 .. U16Max
              /\ 2 * (out[u] * MaxOf(a)) <= 2 * (a[u] * U16Max) + MaxOf(a)
              /\ 2 * (a[u] * U16Max) <= 2 * (out[u] * MaxOf(a)) + MaxOf(a)
         /\ \A u, t \in DOMAIN a : a[u] <= a[t] => out[u] <= out[t]
<1> DEFINE D == DOMAIN a
           M == MaxOf(a)
           val(u) == RoundHalfEven(a[u] * U16Max, M)
<1>1. /\ IsFiniteSet(D) /\ D # {} /\ (\A u \in D : a[u] \in Nat) /\ D \subseteq UIDs
      /\ U16Max \in Nat /\ U16Max > 0
  <2>1. IsFiniteSet(UIDs) /\ U16Max \in Nat /\ U16Max > 0
    BY EmissionAssumption
  <2> QED BY <2>1, FS_Subset DEF Scalable
<1>2. M \in Nat /\ M > 0 /\ \A u \in D : a[u] <= M
  <2>1. M \in Nat /\ \A u \in D : a[u] <= M
    BY <1>1, MaxOfIn
  <2>2. PICK u \in D : a[u] > 0
    BY DEF Scalable
  <2> QED BY <1>1, <2>1, <2>2
<1>3. \A u \in D : a[u] * U16Max \in Nat
  BY <1>1
<1>4. ASSUME NEW u \in D
      PROVE  /\ val(u) \in Nat
             /\ 2 * (val(u) * M) <= 2 * (a[u] * U16Max) + M
             /\ 2 * (a[u] * U16Max) <= 2 * (val(u) * M) + M
  <2> HIDE DEF M
  <2> QED BY <1>2, <1>3, RoundIsNear
<1>5. out = [u \in UIDs |-> IF u \in D /\ val(u) # 0 THEN val(u) ELSE 0]
  <2>1. ConvertForEmit(a) = [u \in {v \in D : val(v) # 0} |-> val(u)]
    BY DEF ConvertForEmit
  <2> HIDE DEF val
  <2> QED BY <2>1 DEF Stored
<1>6. /\ \A u \in UIDs \ D : out[u] = 0
      /\ \A u \in D : out[u] = val(u)
  <2> HIDE DEF val
  <2> QED BY <1>1, <1>5
<1>7. ASSUME NEW u \in D PROVE val(u) <= U16Max
  <2> SUFFICES ASSUME U16Max + 1 <= val(u) PROVE FALSE
    BY <1>1, <1>4
  <2> HIDE DEF M, val
  <2>1. (U16Max + 1) * M <= val(u) * M
    BY <1>1, <1>2, <1>4, ProductMonotone
  <2>2. a[u] * U16Max <= M * U16Max
    BY <1>1, <1>2, ProductMonotone
  <2>3. /\ (U16Max + 1) * M = M * U16Max + M /\ M * U16Max \in Nat /\ a[u] * U16Max \in Nat
        /\ val(u) * M \in Nat
    BY <1>1, <1>2, <1>4
  <2>4. 2 * (val(u) * M) <= 2 * (a[u] * U16Max) + M
    BY <1>4
  <2> QED BY <1>2, <2>1, <2>2, <2>3, <2>4
<1>8. ASSUME NEW u \in D, NEW t \in D, a[u] <= a[t] PROVE val(u) <= val(t)
  <2>1. a[u] * U16Max <= a[t] * U16Max
    BY <1>1, <1>8, ProductMonotone
  <2> HIDE DEF M
  <2> QED BY <1>2, <1>3, <2>1, RoundKeepsOrder
<1> HIDE DEF M, val
<1>9. \A u \in D : val(u) \in 0 .. U16Max
  BY <1>1, <1>4, <1>7
<1> QED BY <1>2, <1>4, <1>6, <1>8, <1>9 DEF M

Miners(w) == DOMAIN w \ {BurnUid}
MinerTotal(w) == SumFunctionOnSet(w, Miners(w))

\* A vector the burn allocation takes.
Allocatable(w) == DOMAIN w \subseteq UIDs /\ \A u \in DOMAIN w : w[u] \in Nat

LEMMA AllocatableTypes ==
  ASSUME NEW w, Allocatable(w)
  PROVE  /\ IsFiniteSet(DOMAIN w) /\ IsFiniteSet(Miners(w))
         /\ MinerTotal(w) \in Nat
         /\ MinerTotal(w) = 0 <=> \A u \in Miners(w) : w[u] = 0
<1>1. IsFiniteSet(DOMAIN w) /\ IsFiniteSet(Miners(w))
  <2>1. DOMAIN w \in SUBSET UIDs /\ Miners(w) \in SUBSET UIDs
    BY DEF Allocatable, Miners
  <2> QED BY <2>1, FS_Subset, EmissionAssumption
<1>2. \A u \in Miners(w) : w[u] \in Nat
  BY DEF Allocatable, Miners
<1> QED BY <1>1, <1>2, SumTakeOut, SumBounds DEF MinerTotal

\* BURN_UID's share, and the miners' split of the rest.
LEMMA BurnAllocationIs ==
  ASSUME NEW w, Allocatable(w), BurnUid \in UIDs, NEW a, a = ApplyBurnAllocation(w)
  PROVE  /\ Scalable(a)
         /\ MinerTotal(w) = 0 \/ BurnPct = 100 => a = [u \in {BurnUid} |-> 1]
         /\ MinerTotal(w) > 0 /\ BurnPct < 100 =>
              /\ DOMAIN a = Miners(w) \cup {BurnUid}
              /\ a[BurnUid] = MinerTotal(w) * BurnPct
              /\ \A u \in Miners(w) : a[u] = w[u] * (100 - BurnPct)
<1>1. BurnPct \in Nat /\ BurnPct <= 100 /\ MinerTotal(w) \in Nat
  BY EmissionAssumption, AllocatableTypes
<1>2. a = IF MinerTotal(w) > 0 /\ BurnPct < 100
          THEN [u \in Miners(w) \cup {BurnUid} |->
                  IF u = BurnUid THEN MinerTotal(w) * BurnPct ELSE w[u] * (100 - BurnPct)]
          ELSE [u \in {BurnUid} |-> 1]
  BY DEF ApplyBurnAllocation, MinerTotal, Miners
<1>3. CASE MinerTotal(w) = 0 \/ BurnPct = 100
  <2>1. a = [u \in {BurnUid} |-> 1]
    BY <1>1, <1>2, <1>3
  <2>2. Scalable(a)
    BY <2>1 DEF Scalable
  <2> QED BY <1>1, <1>3, <2>1, <2>2
<1>4. CASE MinerTotal(w) > 0 /\ BurnPct < 100
  <2>1. a = [u \in Miners(w) \cup {BurnUid} |->
               IF u = BurnUid THEN MinerTotal(w) * BurnPct ELSE w[u] * (100 - BurnPct)]
    BY <1>2, <1>4
  <2>2. /\ DOMAIN a = Miners(w) \cup {BurnUid}
        /\ a[BurnUid] = MinerTotal(w) * BurnPct
        /\ \A u \in Miners(w) : a[u] = w[u] * (100 - BurnPct)
    BY <2>1 DEF Miners
  <2>3. 100 - BurnPct \in Nat /\ 100 - BurnPct > 0
    BY <1>1, <1>4
  <2>4. \A u \in Miners(w) : w[u] \in Nat
    BY DEF Allocatable, Miners
  <2>5. \A u \in DOMAIN a : a[u] \in Nat
    <3>1. MinerTotal(w) * BurnPct \in Nat
      BY <1>1
    <3>2. \A u \in Miners(w) : w[u] * (100 - BurnPct) \in Nat
      BY <2>3, <2>4
    <3> QED BY <2>2, <3>1, <3>2
  <2>6. PICK u \in Miners(w) : w[u] # 0
    BY <1>1, <1>4, AllocatableTypes
  <2>7. a[u] > 0
    BY <2>2, <2>3, <2>4, <2>6, ProductPositive
  <2>8. Scalable(a)
    BY <2>2, <2>5, <2>7 DEF Scalable, Allocatable, Miners
  <2> QED BY <1>4, <2>2, <2>8
<1> QED BY <1>1, <1>3, <1>4

\* Everything burns.
LEMMA AllBurns ==
  ASSUME BurnUid \in UIDs, NEW out, out = Stored(ConvertForEmit([u \in {BurnUid} |-> 1]))
  PROVE  out = [u \in UIDs |-> IF u = BurnUid THEN U16Max ELSE 0]
<1> DEFINE a == [u \in {BurnUid} |-> 1]
<1>1. DOMAIN a = {BurnUid} /\ a[BurnUid] = 1 /\ Scalable(a)
  BY DEF Scalable
<1>2. U16Max \in Nat
  BY EmissionAssumption
<1>3. out = Stored(ConvertForEmit(a))
  OBVIOUS
<1> HIDE DEF a
<1>4. MaxOf(a) = 1
  <2>1. IsFiniteSet(DOMAIN a)
    BY <1>1, FS_Singleton
  <2> QED BY <1>1, <2>1, MaxOfIn
<1>5. /\ \A u \in UIDs \ {BurnUid} : out[u] = 0
      /\ out[BurnUid] \in 0 .. U16Max
      /\ 2 * (1 * U16Max) <= 2 * (out[BurnUid] * 1) + 1
  BY <1>1, <1>3, <1>4, StoredIs
<1>6. out[BurnUid] = U16Max
  BY <1>2, <1>5
<1>7. out = [u \in UIDs |-> out[u]]
  BY <1>3 DEF Stored
<1> QED BY <1>5, <1>6, <1>7

LEMMA NonZeroTypes ==
  ASSUME NEW s \in [UIDs -> Nat]
  PROVE  /\ NonZero(s) \subseteq UIDs /\ IsFiniteSet(NonZero(s))
         /\ \A u \in NonZero(s) : s[u] \in Nat \ {0}
         /\ \A u \in UIDs \ NonZero(s) : s[u] = 0
<1>1. NonZero(s) \in SUBSET UIDs
  BY DEF NonZero
<1> QED BY <1>1, FS_Subset, EmissionAssumption DEF NonZero

\* Enough earners: they are who gets weight, in the order of their scores.
LEMMA EarnersAreWeighed ==
  ASSUME NEW s \in [UIDs -> Nat], NonZero(s) # {}, EnoughEarners(s),
         NEW w, w = EarnedWeights(s)
  PROVE  /\ DOMAIN w = NonZero(s) /\ Weights(w)
         /\ \A u, t \in NonZero(s) : s[u] <= s[t] => w[u] <= w[t]
         /\ \/ Cardinality(NonZero(s)) * LimitNum <= LimitDen
            \/ \A u \in NonZero(s) :
                 w[u] * LimitDen <= LimitNum * SumFunctionOnSet(w, NonZero(s))
<1> DEFINE r == Restrict(s, NonZero(s))
<1>1. /\ IsFiniteSet(UIDs) /\ MinAllowed \in Nat
      /\ Cardinality(UIDs) \in Nat /\ Cardinality(NonZero(s)) \in Nat
      /\ Cardinality(NonZero(s)) <= Cardinality(UIDs)
  BY NonZeroTypes, EmissionAssumption, FS_Subset, FS_CardinalityType
<1>2. Cardinality(NonZero(s)) >= MinAllowed
  BY DEF EnoughEarners
<1>3. w = NormalizeMaxWeight(r)
  BY <1>1, <1>2 DEF EarnedWeights, ProcessWeights
<1>4. DOMAIN r = NonZero(s) /\ \A u \in NonZero(s) : r[u] = s[u]
  BY DEF Restrict
<1>5. Weights(r)
  BY <1>4, NonZeroTypes DEF Weights
<1> HIDE DEF r
<1> QED BY <1>3, <1>4, <1>5, NormalizeMaxWeightIs

\* Whatever the scores, the burn allocation gets a vector over the uids.
LEMMA EarnedType ==
  ASSUME NEW s \in [UIDs -> Nat], NEW w, w = EarnedWeights(s)
  PROVE  Allocatable(w)
<1>0. \A f : Weights(f) /\ DOMAIN f \subseteq UIDs => Allocatable(f)
  BY DEF Weights, Allocatable
<1>1. CASE NonZero(s) = {}
  BY <1>1 DEF EarnedWeights, Allocatable
<1>2. CASE NonZero(s) # {} /\ Cardinality(UIDs) < MinAllowed
  BY <1>2 DEF EarnedWeights, ProcessWeights, Allocatable
<1>3. CASE NonZero(s) # {} /\ ~(Cardinality(UIDs) < MinAllowed)
           /\ Cardinality(NonZero(s)) < MinAllowed
  <2> DEFINE f == [u \in UIDs |-> SumFunction(s) + DustDen * s[u]]
  <2>1. w = NormalizeMaxWeight(f)
    BY <1>3 DEF EarnedWeights, ProcessWeights
  <2>2. IsFiniteSet(UIDs) /\ DustDen \in Nat /\ UIDs # {}
    BY <1>3, EmissionAssumption DEF NonZero
  <2>3. SumFunction(s) \in Nat /\ SumFunction(s) # 0
    <3>1. SumFunction(s) = SumFunctionOnSet(s, UIDs) /\ \A u \in UIDs : s[u] \in Nat
      BY SumOfFunction
    <3>2. \E u \in UIDs : s[u] # 0
      BY <1>3 DEF NonZero
    <3> QED BY <2>2, <3>1, <3>2, SumTakeOut, SumBounds
  <2>4. \A u \in UIDs : f[u] \in Nat \ {0}
    BY <2>2, <2>3
  <2>5. DOMAIN f = UIDs /\ Weights(f)
    BY <2>2, <2>4 DEF Weights
  <2> HIDE DEF f
  <2> QED BY <1>0, <2>1, <2>5, NormalizeMaxWeightIs
<1>4. CASE NonZero(s) # {} /\ Cardinality(NonZero(s)) >= MinAllowed
  <2>1. EnoughEarners(s)
    BY <1>4 DEF EnoughEarners
  <2> QED BY <1>0, <1>4, <2>1, EarnersAreWeighed, NonZeroTypes
<1>5. Cardinality(NonZero(s)) \in Nat /\ MinAllowed \in Nat
  BY NonZeroTypes, FS_CardinalityType, EmissionAssumption
<1> QED BY <1>1, <1>2, <1>3, <1>4, <1>5

\* Every weight the chain stores is a weight of the chain's width.
LEMMA StoredType ==
  ASSUME NEW s \in [UIDs -> Nat], BurnUid \in UIDs
  PROVE  Stored(EmittedWeights(s)) \in [UIDs -> 0 .. U16Max]
<1> DEFINE a == ApplyBurnAllocation(EarnedWeights(s))
           out == Stored(ConvertForEmit(a))
<1>1. Scalable(a)
  BY EarnedType, BurnAllocationIs
<1>2. \A u \in UIDs : out[u] \in 0 .. U16Max
  <2>1. 0 \in 0 .. U16Max
    BY EmissionAssumption
  <2> HIDE DEF a
  <2> QED BY <1>1, <2>1, StoredIs
<1>3. out = [u \in UIDs |-> out[u]]
  BY DEF Stored
<1> QED BY <1>2, <1>3 DEF EmittedWeights

\* A share p to q of T, scaled by U / M and rounded, against the sum S of m
\* weights that were rounded too.
LEMMA BurnIsShare ==
  ASSUME NEW M \in Nat, M > 0, NEW W \in Nat, NEW T \in Nat, NEW p \in Nat, NEW q \in Nat,
         NEW U \in Nat, NEW S \in Nat, NEW m \in Nat,
         2 * (W * M) <= 2 * ((T * p) * U) + M, 2 * ((T * p) * U) <= 2 * (W * M) + M,
         (2 * (q * U)) * T <= (2 * M) * S + M * m, (2 * M) * S <= (2 * (q * U)) * T + M * m
  PROVE  /\ (2 * W - 1) * q <= (2 * S + m) * p
         /\ (2 * W + 1) * q >= (2 * S - m) * p
<1> DEFINE X == 2 * ((T * p) * U)
           Y == (2 * (q * U)) * T
           Z == 2 * (W * M)
           V == (2 * M) * S
<1>1. X \in Nat /\ Y \in Nat /\ Z \in Nat /\ V \in Nat /\ M * m \in Nat
  OBVIOUS
<1>2. /\ X * q = Y * p
      /\ ((2 * W - 1) * q) * M = Z * q - M * q
      /\ ((2 * W + 1) * q) * M = Z * q + M * q
      /\ ((2 * S + m) * p) * M = V * p + (M * m) * p
      /\ ((2 * S - m) * p) * M = V * p - (M * m) * p
  OBVIOUS
<1>3. Z <= X + M /\ X <= Z + M /\ Y <= V + M * m /\ V <= Y + M * m
  OBVIOUS
<1> HIDE DEF X, Y, Z, V
<1>4. /\ Z * q <= (X + M) * q /\ X * q <= (Z + M) * q
      /\ Y * p <= (V + M * m) * p /\ V * p <= (Y + M * m) * p
  <2>1. /\ X + M \in Int /\ Z + M \in Int /\ V + M * m \in Int /\ Y + M * m \in Int
        /\ X \in Int /\ Y \in Int /\ Z \in Int /\ V \in Int
    BY <1>1
  <2> QED BY <1>3, <2>1, ProductMonotone
<1>5. /\ (X + M) * q = X * q + M * q /\ (Z + M) * q = Z * q + M * q
      /\ (V + M * m) * p = V * p + (M * m) * p /\ (Y + M * m) * p = Y * p + (M * m) * p
      /\ X * q \in Nat /\ Z * q \in Nat /\ V * p \in Nat /\ Y * p \in Nat /\ M * q \in Nat
      /\ (M * m) * p \in Nat
  BY <1>1
<1>6. /\ ((2 * W - 1) * q) * M <= ((2 * S + m) * p) * M
      /\ ((2 * S - m) * p) * M <= ((2 * W + 1) * q) * M
  BY <1>2, <1>4, <1>5
<1>7. /\ (2 * W - 1) * q \in Int /\ (2 * W + 1) * q \in Int
      /\ (2 * S + m) * p \in Int /\ (2 * S - m) * p \in Int
  OBVIOUS
<1>8. (2 * W - 1) * q <= (2 * S + m) * p /\ (2 * S - m) * p <= (2 * W + 1) * q
  BY <1>6, <1>7, ProductCancel
<1> QED BY <1>7, <1>8

\* A weight v of at most a / b of T, likewise.
LEMMA LimitIsShare ==
  ASSUME NEW M \in Nat, M > 0, NEW W \in Nat, NEW T \in Nat, NEW v \in Nat, NEW q \in Nat,
         NEW U \in Nat, NEW S \in Nat, NEW m \in Nat, NEW a \in Nat, NEW b \in Nat,
         2 * (W * M) <= 2 * ((v * q) * U) + M, v * b <= a * T,
         (2 * (q * U)) * T <= (2 * M) * S + M * m
  PROVE  (2 * W - 1) * b <= (2 * S + m) * a
<1> DEFINE X == 2 * ((v * q) * U)
           K == 2 * (q * U)
           Z == 2 * (W * M)
           V == (2 * M) * S
<1>1. X \in Nat /\ K \in Nat /\ Z \in Nat /\ V \in Nat /\ M * m \in Nat /\ K * T \in Nat
  OBVIOUS
<1>2. /\ X * b = (v * b) * K
      /\ ((2 * W - 1) * b) * M = Z * b - M * b
      /\ ((2 * S + m) * a) * M = V * a + (M * m) * a
  OBVIOUS
<1>3. Z <= X + M /\ K * T <= V + M * m
  OBVIOUS
<1> HIDE DEF X, K, Z, V
<1>4. Z * b <= (X + M) * b /\ (v * b) * K <= (a * T) * K /\ (K * T) * a <= (V + M * m) * a
  <2>1. /\ X + M \in Int /\ Z \in Int /\ V + M * m \in Int /\ K * T \in Int
        /\ v * b \in Int /\ a * T \in Int
    BY <1>1
  <2> QED BY <1>1, <1>3, <2>1, ProductMonotone
<1>5. /\ (X + M) * b = X * b + M * b /\ (a * T) * K = (K * T) * a
      /\ (V + M * m) * a = V * a + (M * m) * a
      /\ X * b \in Nat /\ Z * b \in Nat /\ V * a \in Nat /\ (M * m) * a \in Nat /\ M * b \in Nat
      /\ (K * T) * a \in Nat
  BY <1>1
<1>6. ((2 * W - 1) * b) * M <= ((2 * S + m) * a) * M
  BY <1>2, <1>4, <1>5
<1>7. (2 * W - 1) * b \in Int /\ (2 * S + m) * a \in Int
  OBVIOUS
<1> QED BY <1>6, <1>7, ProductCancel

\* The chain stores what the scores earn (set_weights, _apply_burn_allocation,
\* normalize_max_weight, convert_weights_and_uids_for_emit), for every set of
\* uids, every score, limit, burn percentage and resolution, as long as there
\* are min_allowed_weights earners, or none.
THEOREM ScoresAreSplit ==
  ASSUME NEW s \in [UIDs -> Nat], BurnUid \in UIDs, EnoughEarners(s)
  PROVE  SplitByScore(s, Stored(EmittedWeights(s)))
<1> DEFINE w == EarnedWeights(s)
           a == ApplyBurnAllocation(w)
           out == Stored(EmittedWeights(s))
           miners == UIDs \ {BurnUid}
           earners == NonZero(s) \ {BurnUid}
           n == Cardinality(earners)
           total == SumFunctionOnSet(out, miners)
           burnt == [u \in UIDs |-> IF u = BurnUid THEN U16Max ELSE 0]
<1>1. out = Stored(ConvertForEmit(a))
  BY DEF EmittedWeights
<1>2. Allocatable(w) /\ MinerTotal(w) \in Nat /\ BurnPct \in Nat /\ BurnPct <= 100
  BY EarnedType, AllocatableTypes, EmissionAssumption
<1>3. MinerTotal(w) = 0 \/ BurnPct = 100 => out = burnt
  <2> SUFFICES ASSUME MinerTotal(w) = 0 \/ BurnPct = 100 PROVE out = burnt
    OBVIOUS
  <2>1. a = [u \in {BurnUid} |-> 1]
    BY <1>2, BurnAllocationIs
  <2> HIDE DEF a, out
  <2> QED BY <1>1, <2>1, AllBurns
<1>4. CASE earners = {}
  <2>1. \A u \in Miners(w) : w[u] = 0
    <3>1. CASE NonZero(s) = {}
      BY <3>1 DEF EarnedWeights, Miners
    <3>2. CASE NonZero(s) # {}
      <4>1. DOMAIN w = NonZero(s)
        BY <3>2, EarnersAreWeighed
      <4> QED BY <1>4, <4>1 DEF Miners
    <3> QED BY <3>1, <3>2
  <2>2. MinerTotal(w) = 0
    BY <1>2, <2>1, AllocatableTypes
  <2>3. out = burnt
    BY <1>3, <2>2
  <2> QED BY <1>4, <2>3 DEF SplitByScore
<1>5. CASE earners # {}
  <2>0. n \in Nat /\ IsFiniteSet(miners) /\ IsFiniteSet(earners) /\ earners \in SUBSET miners
    <3>1. IsFiniteSet(UIDs) /\ miners \in SUBSET UIDs /\ earners \in SUBSET miners
      BY NonZeroTypes, EmissionAssumption
    <3>2. IsFiniteSet(miners) /\ IsFiniteSet(earners)
      BY <3>1, FS_Subset
    <3> QED BY <3>1, <3>2, FS_CardinalityType
  <2>1. /\ DOMAIN w = NonZero(s) /\ Weights(w)
        /\ \A u, t \in NonZero(s) : s[u] <= s[t] => w[u] <= w[t]
        /\ \/ Cardinality(NonZero(s)) * LimitNum <= LimitDen
           \/ \A u \in NonZero(s) :
                w[u] * LimitDen <= LimitNum * SumFunctionOnSet(w, NonZero(s))
    BY <1>5, EarnersAreWeighed
  <2>2. Miners(w) = earners /\ MinerTotal(w) = SumFunctionOnSet(w, earners)
    BY <2>1 DEF Miners, MinerTotal
  <2>3. \A u \in earners : w[u] \in Nat /\ w[u] > 0
    BY <2>1 DEF Weights
  <2>4. LimitNum \in Nat /\ LimitDen \in Nat /\ LimitDen > 0 /\ U16Max \in Nat
    BY EmissionAssumption
  <2>5. \A u \in UIDs : out[u] \in Nat /\ out[u] <= U16Max
    BY <2>4, StoredType
  <2>6. total \in Nat
    <3> HIDE DEF out
    <3> QED BY <2>0, <2>5, SumTakeOut
  <2>7. CASE BurnPct = 100
    <3>1. out = burnt
      BY <1>3, <2>7
    <3>2. \A u \in miners : out[u] = 0
      BY <3>1
    <3>3. total = 0
      <4> HIDE DEF out
      <4> QED BY <2>0, <3>2, SumBounds
    <3>4. \A u \in miners : (2 * out[u] - 1) * LimitDen <= (2 * total + n) * LimitNum
      <4>1. (2 * 0 - 1) * LimitDen <= 0 /\ 0 <= n * LimitNum
        BY <2>0, <2>4
      <4> HIDE DEF out, total, n
      <4>2. n * LimitNum \in Int /\ (2 * 0 - 1) * LimitDen \in Int
        BY <2>0, <2>4
      <4>3. (2 * 0 - 1) * LimitDen <= (2 * 0 + n) * LimitNum
        BY <2>0, <4>1, <4>2
      <4> QED BY <3>2, <3>3, <4>3
    <3>5. /\ (2 * out[BurnUid] - 1) * (100 - BurnPct) <= (2 * total + n) * BurnPct
          /\ (2 * out[BurnUid] + 1) * (100 - BurnPct) >= (2 * total - n) * BurnPct
      <4> HIDE DEF out, total, n
      <4>1. out[BurnUid] \in Nat
        BY <2>5
      <4>2. /\ (2 * out[BurnUid] - 1) * 0 = 0 /\ (2 * out[BurnUid] + 1) * 0 = 0
            /\ (2 * 0 + n) * 100 = n * 100 /\ (2 * 0 - n) * 100 = 0 - n * 100
            /\ n * 100 \in Nat
        BY <2>0, <4>1
      <4>3. 100 - BurnPct = 0
        BY <2>7
      <4> QED BY <2>7, <3>3, <4>2, <4>3
    <3>6. \A u, t \in miners : out[u] <= out[t]
      BY <3>2
    <3>7. SplitByScore(s, out)
      <4> HIDE DEF out
      <4> QED BY <1>5, <3>2, <3>4, <3>5, <3>6 DEF SplitByScore
    <3> QED BY <3>7
  <2>8. CASE BurnPct < 100
    <3> DEFINE T == MinerTotal(w)
               q == 100 - BurnPct
               M == MaxOf(a)
    <3>1. T > 0
      <4>1. \E u \in earners : w[u] # 0
        BY <1>5, <2>3
      <4> QED BY <1>2, <2>2, <4>1, AllocatableTypes
    <3>2. q \in Nat /\ q > 0
      BY <1>2, <2>8
    <3>3. /\ Scalable(a) /\ DOMAIN a = earners \cup {BurnUid}
          /\ a[BurnUid] = T * BurnPct
          /\ \A u \in earners : a[u] = w[u] * q
      <4>1. /\ Scalable(a) /\ DOMAIN a = Miners(w) \cup {BurnUid}
            /\ a[BurnUid] = MinerTotal(w) * BurnPct
            /\ \A u \in Miners(w) : a[u] = w[u] * (100 - BurnPct)
        <5> HIDE DEF w
        <5> QED BY <1>2, <2>8, <3>1, BurnAllocationIs
      <4> HIDE DEF a, w, earners
      <4> QED BY <2>2, <4>1
    <3>4. /\ M \in Nat /\ M > 0
          /\ \A u \in UIDs \ DOMAIN a : out[u] = 0
          /\ \A u \in DOMAIN a :
               /\ 2 * (out[u] * M) <= 2 * (a[u] * U16Max) + M
               /\ 2 * (a[u] * U16Max) <= 2 * (out[u] * M) + M
          /\ \A u, t \in DOMAIN a : a[u] <= a[t] => out[u] <= out[t]
      <4> HIDE DEF a, out
      <4> QED BY <1>1, <3>3, StoredIs
    <3> HIDE DEF a, out, w, q, M
    <3>5. \A u \in miners \ earners : out[u] = 0
      BY <3>3, <3>4
    <3>6. ASSUME NEW u \in miners, NEW t \in miners, s[u] <= s[t] PROVE out[u] <= out[t]
      <4>1. CASE u \notin earners
        <5>1. out[u] = 0 /\ out[t] \in Nat
          BY <2>5, <3>5, <4>1
        <5> QED BY <5>1
      <4>2. CASE u \in earners
        <5>1. t \in earners
          <6>1. s[u] \in Nat /\ s[t] \in Nat /\ s[u] > 0
            BY <4>2 DEF NonZero
          <6> QED BY <3>6, <6>1 DEF NonZero
        <5>2. w[u] <= w[t] /\ w[u] \in Nat /\ w[t] \in Nat
          BY <2>1, <2>3, <3>6, <4>2, <5>1
        <5>3. w[u] * q <= w[t] * q
          BY <3>2, <5>2, ProductMonotone
        <5> QED BY <3>3, <3>4, <4>2, <5>1, <5>3
      <4> QED BY <4>1, <4>2
    <3>7. total = SumFunctionOnSet(out, earners)
      <4>1. \A u \in miners : out[u] \in Nat
        BY <2>5
      <4>2. /\ SumFunctionOnSet(out, earners) \in Nat
            /\ total = SumFunctionOnSet(out, earners) + SumFunctionOnSet(out, miners \ earners)
        BY <2>0, <4>1, SumSplit
      <4>3. SumFunctionOnSet(out, miners \ earners) = 0
        <5>1. IsFiniteSet(miners \ earners)
          BY <2>0, FS_Subset
        <5> HIDE DEF miners, earners
        <5> QED BY <3>5, <5>1, SumBounds
      <4> QED BY <4>2, <4>3
    <3>8. /\ (2 * (q * U16Max)) * T <= (2 * M) * total + M * n
          /\ (2 * M) * total <= (2 * (q * U16Max)) * T + M * n
      <4> DEFINE b == 2 * (q * U16Max)
                 c == 2 * M
      <4>1. b \in Nat /\ c \in Nat
        BY <2>4, <3>2, <3>4
      <4>2. ASSUME NEW u \in earners
            PROVE  /\ w[u] \in Nat /\ out[u] \in Nat
                   /\ b * w[u] + 0 <= c * out[u] + M
                   /\ c * out[u] + 0 <= b * w[u] + M
        <5>1. w[u] \in Nat /\ out[u] \in Nat
          BY <2>0, <2>3, <2>5
        <5>2. /\ 2 * (out[u] * M) <= 2 * ((w[u] * q) * U16Max) + M
              /\ 2 * ((w[u] * q) * U16Max) <= 2 * (out[u] * M) + M
          BY <3>3, <3>4
        <5>3. /\ 2 * (out[u] * M) = c * out[u] /\ c * out[u] \in Nat
              /\ 2 * ((w[u] * q) * U16Max) = b * w[u] /\ b * w[u] \in Nat
          BY <2>4, <3>2, <3>4, <5>1
        <5> HIDE DEF b, c
        <5> QED BY <5>1, <5>2, <5>3
      <4> HIDE DEF b, c, earners, n
      <4>3. /\ b * SumFunctionOnSet(w, earners) + 0 * Cardinality(earners)
                 <= c * SumFunctionOnSet(out, earners) + M * Cardinality(earners)
            /\ c * SumFunctionOnSet(out, earners) + 0 * Cardinality(earners)
                 <= b * SumFunctionOnSet(w, earners) + M * Cardinality(earners)
        BY <2>0, <3>4, <4>1, <4>2, SumCompare
      <4>4. /\ b * T + 0 * n <= c * total + M * n
            /\ c * total + 0 * n <= b * T + M * n
        <5> HIDE DEF T, total
        <5> QED BY <2>2, <3>7, <4>3 DEF n, T
      <4>5. b * T \in Nat /\ c * total \in Nat /\ 0 * n = 0
        BY <1>2, <2>0, <2>6, <4>1
      <4> QED BY <4>4, <4>5 DEF b, c
    <3>9. /\ (2 * out[BurnUid] - 1) * q <= (2 * total + n) * BurnPct
          /\ (2 * out[BurnUid] + 1) * q >= (2 * total - n) * BurnPct
      <4>1. /\ 2 * (out[BurnUid] * M) <= 2 * ((T * BurnPct) * U16Max) + M
            /\ 2 * ((T * BurnPct) * U16Max) <= 2 * (out[BurnUid] * M) + M
        BY <3>3, <3>4
      <4>2. out[BurnUid] \in Nat
        BY <2>5
      <4> HIDE DEF T, total, n
      <4> QED BY <1>2, <2>0, <2>4, <2>6, <3>2, <3>4, <3>8, <4>1, <4>2, BurnIsShare DEF T
    <3>10. \/ s[BurnUid] > 0
           \/ n * LimitNum <= LimitDen
           \/ \A u \in miners : (2 * out[u] - 1) * LimitDen <= (2 * total + n) * LimitNum
      <4> SUFFICES ASSUME ~(s[BurnUid] > 0), ~(n * LimitNum <= LimitDen), NEW u \in miners
                   PROVE  (2 * out[u] - 1) * LimitDen <= (2 * total + n) * LimitNum
        OBVIOUS
      <4>1. NonZero(s) = earners
        BY DEF NonZero
      <4>2. CASE u \in earners
        <5>1. w[u] * LimitDen <= LimitNum * T
          BY <2>1, <2>2, <4>1, <4>2
        <5>2. 2 * (out[u] * M) <= 2 * ((w[u] * q) * U16Max) + M
          BY <3>3, <3>4, <4>2
        <5>3. out[u] \in Nat /\ w[u] \in Nat
          BY <2>3, <2>5, <4>2
        <5> HIDE DEF T, total, n
        <5> QED BY <1>2, <2>0, <2>4, <2>6, <3>2, <3>4, <3>8, <5>1, <5>2, <5>3, LimitIsShare
                DEF T
      <4>3. CASE u \notin earners
        <5>1. out[u] = 0
          BY <3>5, <4>3
        <5>2. (2 * 0 - 1) * LimitDen <= 0 /\ (2 * 0 - 1) * LimitDen \in Int
          BY <2>4
        <5>3. 2 * total + n \in Nat /\ (2 * total + n) * LimitNum \in Nat
          <6> HIDE DEF total, n
          <6> QED BY <2>0, <2>4, <2>6
        <5> HIDE DEF total, n
        <5> QED BY <5>1, <5>2, <5>3
      <4> QED BY <4>2, <4>3
    <3>11. SplitByScore(s, out)
      BY <1>5, <3>5, <3>6, <3>9, <3>10 DEF SplitByScore, q
    <3> QED BY <3>11 DEF out
  <2> QED BY <1>2, <2>7, <2>8
<1> QED BY <1>4, <1>5

=============================================================================
