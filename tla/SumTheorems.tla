----------------------------- MODULE SumTheorems -----------------------------
(***************************************************************************)
(* Sums over finite sets, as MapThenSumSet of the community modules        *)
(* computes them: one element after another, in an order of its choice.    *)
(* The order does not matter (SumsExist, TotalIs), so a sum is known by    *)
(* what each element adds (TotalOfNone, TotalStep).  The induction         *)
(* theorems of the library take an operator; a least counterexample takes  *)
(* their place here.                                                       *)
(***************************************************************************)
EXTENDS Integers, FiniteSetsExt, FiniteSetTheorems, WellFoundedInduction, TLAPS

\* A set of naturals that is not empty has a least element.
LEMMA LeastNatural ==
  ASSUME NEW S, S \subseteq Nat, S # {}
  PROVE  \E n \in S : \A m \in S : n <= m
<1> DEFINE R == OpToRel(<, Nat)
<1>1. IsWellFoundedOn(R, Nat)
  BY NatLessThanWellFounded
<1>2. PICK n \in S : \A m \in S : <<m, n>> \notin R
  BY <1>1, WFMin
<1>3. \A m \in S : ~(m < n)
  BY <1>2 DEF OpToRel
<1> QED
  BY <1>3

\* A set that has 0 and goes on to L has every number up to L.
LEMMA GoesOn ==
  ASSUME NEW L \in Nat, NEW P, 0 \in P, \A n \in 1..L : n - 1 \in P => n \in P
  PROVE  0..L \subseteq P
<1> DEFINE Bad == (0..L) \ P
<1> SUFFICES ASSUME Bad # {} PROVE FALSE
  OBVIOUS
<1>1. PICK n \in Bad : \A m \in Bad : n <= m
  <2>1. Bad \subseteq Nat
    OBVIOUS
  <2> HIDE DEF Bad
  <2> QED
    BY <2>1, LeastNatural
<1>2. n \in 1..L /\ n - 1 \in 0..L /\ n - 1 \notin Bad
  BY <1>1
<1> QED
  BY <1>1, <1>2

\* Among sets of parts of a finite set there is one without smaller ones.
LEMMA LeastSubset ==
  ASSUME NEW D, IsFiniteSet(D), NEW Bad, Bad \subseteq SUBSET D, Bad # {}
  PROVE  \E C \in Bad : \A a \in C : C \ {a} \notin Bad
<1> DEFINE Sizes == {Cardinality(C) : C \in Bad}
<1>1. \A C \in Bad : IsFiniteSet(C) /\ Cardinality(C) \in Nat
  BY FS_Subset, FS_CardinalityType
<1>2. PICK n \in Sizes : \A m \in Sizes : n <= m
  <2>1. Sizes \subseteq Nat /\ Sizes # {}
    BY <1>1
  <2> HIDE DEF Sizes
  <2> QED
    BY <2>1, LeastNatural
<1>3. PICK C \in Bad : n = Cardinality(C)
  BY <1>2
<1>4. ASSUME NEW a \in C, C \ {a} \in Bad  PROVE  FALSE
  <2>1. Cardinality(C \ {a}) = Cardinality(C) - 1
    BY <1>1, <1>3, FS_RemoveElement
  <2>2. n <= Cardinality(C \ {a}) /\ n \in Nat
    BY <1>1, <1>2, <1>3, <1>4
  <2> QED
    BY <1>3, <2>1, <2>2
<1> QED
  BY <1>4

\* T gives the sum of f over each part of D, whatever element is added last.
Sums(T, f, D) ==
  /\ T \in [SUBSET D -> Int] /\ T[{}] = 0
  /\ \A s \in SUBSET D : \A x \in s : T[s] = f[x] + T[s \ {x}]

\* T adds up f over each part of D in the order that MapThenSumSet takes.
Solves(T, f, D) ==
  T = [s \in SUBSET D |-> IF s = {} THEN 0
                          ELSE f[CHOOSE x \in s : TRUE] + T[s \ {CHOOSE x \in s : TRUE}]]

\* One element more.
LEMMA SumsExtend ==
  ASSUME NEW D, NEW a, a \notin D, NEW f, f[a] \in Int, \A x \in D : f[x] \in Int,
         NEW T, Sums(T, f, D)
  PROVE  \E U : Sums(U, f, D \union {a})
<1> DEFINE E == D \union {a}
           U == [s \in SUBSET E |-> IF a \in s THEN f[a] + T[s \ {a}] ELSE T[s]]
<1>1. \A s \in SUBSET E : s \ {a} \in SUBSET D /\ (a \notin s => s \in SUBSET D)
  OBVIOUS
<1>2. U \in [SUBSET E -> Int] /\ U[{}] = 0
  BY <1>1 DEF Sums
<1>3. ASSUME NEW s \in SUBSET E, NEW x \in s PROVE U[s] = f[x] + U[s \ {x}]
  <2>1. CASE a \notin s
    BY <1>1, <2>1 DEF Sums
  <2>2. CASE a = x
    BY <1>1, <2>2 DEF Sums
  <2>3. CASE a \in s /\ a # x
    <3>1. s \ {a} \in SUBSET D /\ x \in s \ {a} /\ (s \ {a}) \ {x} = (s \ {x}) \ {a}
          /\ (s \ {x}) \ {a} \in SUBSET D /\ x \in D
      BY <1>1, <2>3
    <3>2. T[s \ {a}] = f[x] + T[(s \ {x}) \ {a}]
      <4>1. T[s \ {a}] = f[x] + T[(s \ {a}) \ {x}]
        BY <3>1 DEF Sums
      <4> QED
        BY <3>1, <4>1, Zenon
    <3>3. U[s] = f[a] + T[s \ {a}] /\ U[s \ {x}] = f[a] + T[(s \ {x}) \ {a}]
      <4>1. s \ {x} \in SUBSET E /\ a \in s \ {x}
        BY <2>3
      <4> QED
        BY <2>3, <4>1
    <3>4. T[(s \ {x}) \ {a}] \in Int /\ f[x] \in Int
      BY <3>1 DEF Sums
    <3> QED
      BY <3>2, <3>3, <3>4
  <2> QED
    BY <2>1, <2>2, <2>3
<1> HIDE DEF U
<1> QED
  BY <1>2, <1>3 DEF Sums

\* Over a finite set the order of addition does not matter.
LEMMA SumsExist ==
  ASSUME NEW D, IsFiniteSet(D), NEW f, \A x \in D : f[x] \in Int
  PROVE  \E T : Sums(T, f, D)
<1> SUFFICES ASSUME ~\E T : Sums(T, f, D) PROVE FALSE
  OBVIOUS
<1> DEFINE Bad == {C \in SUBSET D : ~\E T : Sums(T, f, C)}
<1>1. PICK C \in Bad : \A a \in C : C \ {a} \notin Bad
  <2>1. Bad \subseteq SUBSET D /\ Bad # {}
    OBVIOUS
  <2> HIDE DEF Bad
  <2> QED
    BY <2>1, LeastSubset
<1>2. C # {}
  <2> DEFINE T == [s \in SUBSET {} |-> 0]
  <2>1. Sums(T, f, {})
    BY DEF Sums
  <2> QED
    BY <1>1, <2>1
<1>3. PICK a \in C : TRUE
  BY <1>2
<1>4. PICK T : Sums(T, f, C \ {a})
  BY <1>1, <1>3
<1>5. \E U : Sums(U, f, (C \ {a}) \union {a})
  BY <1>1, <1>3, <1>4, SumsExtend
<1> QED
  BY <1>1, <1>3, <1>5

\* Every way to add is one of them.
LEMMA OneSum ==
  ASSUME NEW D, IsFiniteSet(D), NEW f, NEW T, Sums(T, f, D),
         NEW S \in SUBSET D, NEW U, Solves(U, f, S)
  PROVE  U[S] = T[S]
<1> SUFFICES ASSUME U[S] # T[S] PROVE FALSE
  OBVIOUS
<1> DEFINE Bad == {C \in SUBSET S : U[C] # T[C]}
<1>1. PICK C \in Bad : \A x \in C : C \ {x} \notin Bad
  <2>1. Bad \subseteq SUBSET S /\ Bad # {} /\ IsFiniteSet(S)
    BY FS_Subset
  <2> HIDE DEF Bad
  <2> QED
    BY <2>1, LeastSubset
<1> DEFINE a == CHOOSE x \in C : TRUE
<1>2. U[C] = IF C = {} THEN 0 ELSE f[a] + U[C \ {a}]
  <2> DEFINE V == [s \in SUBSET S |-> IF s = {} THEN 0
                          ELSE f[CHOOSE x \in s : TRUE] + U[s \ {CHOOSE x \in s : TRUE}]]
  <2>1. U = V
    BY Zenon DEF Solves
  <2>2. V[C] = IF C = {} THEN 0 ELSE f[a] + U[C \ {a}]
    BY <1>1
  <2> HIDE DEF V
  <2> QED
    BY <2>1, <2>2
<1>3. C # {}
  BY <1>1, <1>2 DEF Sums
<1>4. a \in C
  BY <1>3
<1>5. T[C] = f[a] + T[C \ {a}]
  BY <1>1, <1>4 DEF Sums
<1> HIDE DEF a
<1>6. U[C \ {a}] = T[C \ {a}]
  BY <1>1, <1>4
<1> QED
  BY <1>1, <1>2, <1>3, <1>5, <1>6

\* A sum is what MapThenSumSet chooses.
LEMMA SumsSolve ==
  ASSUME NEW D, NEW f, NEW T, Sums(T, f, D), NEW S \in SUBSET D
  PROVE  Solves([s \in SUBSET S |-> T[s]], f, S)
<1> DEFINE U == [s \in SUBSET S |-> T[s]]
           V == [s \in SUBSET S |-> IF s = {} THEN 0
                          ELSE f[CHOOSE x \in s : TRUE] + U[s \ {CHOOSE x \in s : TRUE}]]
<1>1. ASSUME NEW s \in SUBSET S PROVE U[s] = V[s]
  <2>1. CASE s = {}
    BY <2>1 DEF Sums
  <2>2. CASE s # {}
    <3>1. PICK x \in s : x = CHOOSE y \in s : TRUE
      BY <2>2
    <3>2. T[s] = f[x] + T[s \ {x}]
      BY DEF Sums
    <3>3. V[s] = f[x] + U[s \ {x}] /\ U[s \ {x}] = T[s \ {x}]
      BY <2>2, <3>1
    <3> QED
      BY <3>2, <3>3
  <2> QED
    BY <2>1, <2>2
<1>2. U = V
  <2>1. DOMAIN U = SUBSET S /\ DOMAIN V = SUBSET S
    OBVIOUS
  <2> QED
    BY <1>1
<1> QED
  BY <1>2 DEF Solves

\* The sum of f over S.
Total(f, S) == MapThenSumSet(LAMBDA x : f[x], S)

LEMMA TotalIs ==
  ASSUME NEW D, IsFiniteSet(D), NEW f, NEW T, Sums(T, f, D), NEW S \in SUBSET D
  PROVE  Total(f, S) = T[S]
<1> DEFINE U == CHOOSE V : Solves(V, f, S)
<1>1. Total(f, S) = U[S]
  BY DEF Total, MapThenSumSet, MapThenFoldSet, Solves
<1>2. Solves(U, f, S)
  BY SumsSolve
<1> QED
  BY <1>1, <1>2, OneSum

LEMMA TotalOfNone == ASSUME NEW f PROVE Total(f, {}) = 0
<1>1. IsFiniteSet({}) /\ \A x \in {} : f[x] \in Int
  BY FS_EmptySet
<1>2. PICK T : Sums(T, f, {})
  BY <1>1, SumsExist
<1>3. Total(f, {}) = T[{}]
  <2>1. {} \in SUBSET {}
    OBVIOUS
  <2> QED
    BY <1>1, <1>2, <2>1, TotalIs, Zenon
<1> QED
  BY <1>2, <1>3 DEF Sums

\* Each element adds its own, whichever is added last.
LEMMA TotalStep ==
  ASSUME NEW S, IsFiniteSet(S), NEW f, \A x \in S : f[x] \in Int
  PROVE  /\ Total(f, S) \in Int
         /\ \A a \in S : /\ Total(f, S \ {a}) \in Int
                        /\ Total(f, S) = f[a] + Total(f, S \ {a})
<1>1. PICK T : Sums(T, f, S)
  BY SumsExist
<1>2. Total(f, S) = T[S]
  BY <1>1, TotalIs
<1>3. \A a \in S : Total(f, S \ {a}) = T[S \ {a}]
  BY <1>1, TotalIs
<1> QED
  BY <1>1, <1>2, <1>3 DEF Sums

\* Only the values on the set count.
LEMMA TotalSame ==
  ASSUME NEW S, IsFiniteSet(S), NEW f, NEW g, \A x \in S : f[x] \in Int /\ f[x] = g[x]
  PROVE  Total(f, S) = Total(g, S)
<1>1. PICK T : Sums(T, f, S)
  BY SumsExist
<1>2. Sums(T, g, S)
  BY <1>1 DEF Sums
<1>3. Total(f, S) = T[S] /\ Total(g, S) = T[S]
  BY <1>1, <1>2, TotalIs
<1> QED
  BY <1>3

LEMMA TotalOfOne ==
  ASSUME NEW a, NEW f, f[a] \in Int
  PROVE  Total(f, {a}) = f[a]
<1>1. IsFiniteSet({a}) /\ {a} \ {a} = {}
  BY FS_Singleton
<1>2. Total(f, {a}) = f[a] + Total(f, {a} \ {a})
  BY <1>1, TotalStep
<1> QED
  BY <1>1, <1>2, TotalOfNone

LEMMA TotalGrow ==
  ASSUME NEW S, IsFiniteSet(S), NEW a, a \notin S,
         NEW f, f[a] \in Int, \A x \in S : f[x] \in Int
  PROVE  Total(f, S \union {a}) = f[a] + Total(f, S)
<1>1. IsFiniteSet(S \union {a}) /\ (S \union {a}) \ {a} = S
  BY FS_AddElement
<1>2. \A x \in S \union {a} : f[x] \in Int
  OBVIOUS
<1>3. Total(f, S \union {a}) = f[a] + Total(f, (S \union {a}) \ {a})
  BY <1>1, <1>2, TotalStep
<1> QED
  BY <1>1, <1>3

\* The sum over two sets without common elements is the sum of the sums.
LEMMA TotalDisjoint ==
  ASSUME NEW A, IsFiniteSet(A), NEW B, IsFiniteSet(B), A \intersect B = {},
         NEW f, \A x \in A \union B : f[x] \in Int
  PROVE  Total(f, A \union B) = Total(f, A) + Total(f, B)
<1> SUFFICES ASSUME Total(f, A \union B) # Total(f, A) + Total(f, B) PROVE FALSE
  OBVIOUS
<1> DEFINE Bad == {C \in SUBSET B : Total(f, A \union C) # Total(f, A) + Total(f, C)}
<1>1. PICK C \in Bad : \A a \in C : C \ {a} \notin Bad
  <2>1. Bad \subseteq SUBSET B /\ Bad # {}
    OBVIOUS
  <2> HIDE DEF Bad
  <2> QED
    BY <2>1, LeastSubset
<1>2. C # {}
  <2>1. A \union {} = A /\ \A x \in A : f[x] \in Int
    OBVIOUS
  <2>2. Total(f, A) \in Int /\ Total(f, {}) = 0
    BY <2>1, TotalStep, TotalOfNone
  <2>3. Total(f, A) + 0 = Total(f, A)
    BY <2>2
  <2> QED
    BY <1>1, <2>1, <2>2, <2>3
<1>3. PICK a \in C : TRUE
  BY <1>2
<1>4. Total(f, A \union (C \ {a})) = Total(f, A) + Total(f, C \ {a})
  BY <1>1, <1>3
<1>5. IsFiniteSet(C) /\ IsFiniteSet(A \union C)
  BY <1>1, FS_Subset, FS_Union
<1>6. Total(f, C) = f[a] + Total(f, C \ {a}) /\ Total(f, C \ {a}) \in Int /\ f[a] \in Int
  <2>1. \A x \in C : f[x] \in Int
    BY <1>1
  <2> QED
    BY <1>3, <1>5, <2>1, TotalStep
<1>7. Total(f, A \union C) = f[a] + Total(f, A \union (C \ {a}))
  <2>1. \A x \in A \union C : f[x] \in Int
    BY <1>1
  <2>2. Total(f, A \union C) = f[a] + Total(f, (A \union C) \ {a})
    BY <1>3, <1>5, <2>1, TotalStep
  <2>3. (A \union C) \ {a} = A \union (C \ {a})
    BY <1>1, <1>3
  <2> QED
    BY <2>2, <2>3
<1>8. Total(f, A) \in Int
  BY TotalStep
<1> QED
  BY <1>1, <1>4, <1>6, <1>7, <1>8

\* A sum of values between low and high is between as many times low and high.
LEMMA TotalBounds ==
  ASSUME NEW S, IsFiniteSet(S), NEW f, \A x \in S : f[x] \in Int, NEW low \in Int, NEW high \in Int
  PROVE  /\ (\A x \in S : low <= f[x]) => low * Cardinality(S) <= Total(f, S)
         /\ (\A x \in S : f[x] <= high) => Total(f, S) <= high * Cardinality(S)
<1> DEFINE Within(C) == /\ (\A x \in S : low <= f[x]) => low * Cardinality(C) <= Total(f, C)
                        /\ (\A x \in S : f[x] <= high) => Total(f, C) <= high * Cardinality(C)
           Bad == {C \in SUBSET S : ~Within(C)}
<1> SUFFICES ASSUME ~Within(S) PROVE FALSE
  OBVIOUS
<1>1. PICK C \in Bad : \A a \in C : C \ {a} \notin Bad
  <2>1. Bad \subseteq SUBSET S /\ Bad # {}
    OBVIOUS
  <2> HIDE DEF Bad
  <2> QED
    BY <2>1, LeastSubset
<1>2. C # {}
  <2>1. Total(f, {}) = 0 /\ Cardinality({}) = 0
    BY TotalOfNone, FS_EmptySet
  <2>2. Within({})
    BY <2>1
  <2> HIDE DEF Within
  <2> QED
    BY <1>1, <2>2
<1>3. PICK a \in C : TRUE
  BY <1>2
<1>4. Within(C \ {a}) /\ ~Within(C) /\ C \subseteq S
  <2> HIDE DEF Within
  <2> QED
    BY <1>1, <1>3
<1>5. IsFiniteSet(C)
  BY <1>4, FS_Subset
<1>6. /\ Total(f, C) = f[a] + Total(f, C \ {a}) /\ Total(f, C \ {a}) \in Int
      /\ f[a] \in Int /\ a \in S
  BY <1>3, <1>4, <1>5, TotalStep
<1> DEFINE k == Cardinality(C \ {a})
<1>7. Cardinality(C) = k + 1 /\ k \in Nat
  <2>1. Cardinality(C) \in Nat /\ IsFiniteSet(C \ {a})
    BY <1>5, FS_RemoveElement, FS_CardinalityType
  <2>2. Cardinality(C \ {a}) = Cardinality(C) - 1 /\ Cardinality(C \ {a}) \in Nat
    BY <1>3, <1>5, <2>1, FS_RemoveElement, FS_CardinalityType
  <2> QED
    BY <2>1, <2>2
<1>8. low * (k + 1) = low * k + low /\ high * (k + 1) = high * k + high
      /\ low * k \in Int /\ high * k \in Int
  <2> HIDE DEF k, Within, Bad
  <2> QED
    BY <1>7
<1> DEFINE m == low * k
           n == high * k
<1>9. /\ (\A x \in S : low <= f[x]) => m <= Total(f, C \ {a})
      /\ (\A x \in S : f[x] <= high) => Total(f, C \ {a}) <= n
  BY <1>4
<1>10. \/ (\A x \in S : low <= f[x]) /\ ~(m + low <= Total(f, C))
       \/ (\A x \in S : f[x] <= high) /\ ~(Total(f, C) <= n + high)
  BY <1>4, <1>7, <1>8
<1>11. m \in Int /\ n \in Int
  BY <1>8
<1> HIDE DEF m, n, Bad, Within, k
<1> QED
  BY <1>6, <1>9, <1>10, <1>11

\* Where nothing is negative, a part adds up to no more than the whole.
LEMMA TotalPart ==
  ASSUME NEW S, IsFiniteSet(S), NEW f, \A x \in S : f[x] \in Nat, NEW T \in SUBSET S
  PROVE  Total(f, T) \in Nat /\ Total(f, S) \in Nat /\ Total(f, T) <= Total(f, S)
<1> DEFINE R == S \ T
<1>1. /\ IsFiniteSet(T) /\ IsFiniteSet(R) /\ S = T \union R /\ T \intersect R = {}
      /\ \A x \in T \union R : f[x] \in Int
  BY FS_Subset
<1>2. ASSUME NEW C \in SUBSET S  PROVE  Total(f, C) \in Nat
  <2>1. IsFiniteSet(C) /\ \A x \in C : f[x] \in Int /\ 0 <= f[x]
    BY FS_Subset
  <2>2. 0 \in Int /\ Cardinality(C) \in Nat /\ Total(f, C) \in Int
    BY <2>1, FS_CardinalityType, TotalStep
  <2>3. 0 * Cardinality(C) <= Total(f, C)
    BY <2>1, <2>2, TotalBounds
  <2> QED
    BY <2>2, <2>3
<1>3. Total(f, S) = Total(f, T) + Total(f, R)
  BY <1>1, TotalDisjoint
<1>4. Total(f, T) \in Nat /\ Total(f, S) \in Nat /\ Total(f, R) \in Nat
  BY <1>2
<1> QED
  BY <1>3, <1>4

\* A sum does not depend on how its elements are called.
LEMMA TotalRenamed ==
  ASSUME NEW S, IsFiniteSet(S), NEW h, \A x, y \in S : h[x] = h[y] => x = y,
         NEW f, \A x \in S : f[x] \in Int, NEW g, \A x \in S : g[h[x]] = f[x]
  PROVE  Total(g, {h[x] : x \in S}) = Total(f, S)
<1> DEFINE Image(C) == {h[x] : x \in C}
           Bad == {C \in SUBSET S : Total(g, Image(C)) # Total(f, C)}
<1> SUFFICES ASSUME S \in Bad PROVE FALSE
  OBVIOUS
<1>1. PICK C \in Bad : \A a \in C : C \ {a} \notin Bad
  <2>1. Bad \subseteq SUBSET S /\ Bad # {}
    OBVIOUS
  <2> HIDE DEF Bad
  <2> QED
    BY <2>1, LeastSubset
<1>2. C \subseteq S /\ IsFiniteSet(C) /\ Total(g, Image(C)) # Total(f, C)
  BY <1>1, FS_Subset
<1>3. C # {}
  <2>1. Total(f, {}) = 0 /\ Total(g, {}) = 0 /\ Image({}) = {}
    BY TotalOfNone
  <2> QED
    BY <1>2, <2>1
<1>4. PICK a \in C : TRUE
  BY <1>3
<1>5. Total(g, Image(C \ {a})) = Total(f, C \ {a})
  BY <1>1, <1>2, <1>4
<1>6. /\ Image(C \ {a}) = Image(C) \ {h[a]} /\ h[a] \in Image(C)
      /\ \A y \in Image(C) : g[y] \in Int
  BY <1>2, <1>4
<1>7. IsFiniteSet(Image(C))
  <2> DEFINE F == [x \in C |-> h[x]]
  <2>1. F \in Surjection(C, Image(C))
    BY DEF Surjection
  <2> HIDE DEF F, Image
  <2> QED
    BY <1>2, <2>1, FS_Surjection
<1>8. Total(g, Image(C)) = g[h[a]] + Total(g, Image(C) \ {h[a]})
  <2> HIDE DEF Image
  <2>1. \A y \in Image(C) : Total(g, Image(C)) = g[y] + Total(g, Image(C) \ {y})
    BY <1>6, <1>7, TotalStep
  <2> QED
    BY <1>6, <2>1
<1>9. Total(f, C) = f[a] + Total(f, C \ {a})
  <2>1. \A x \in C : f[x] \in Int
    BY <1>2
  <2> QED
    BY <1>2, <1>4, <2>1, TotalStep
<1>10. g[h[a]] = f[a]
  BY <1>2, <1>4
<1> HIDE DEF Image, Bad
<1> QED
  BY <1>2, <1>5, <1>6, <1>8, <1>9, <1>10

-----------------------------------------------------------------------------
(* Functions defined by recursion over 0..L.                               *)

\* g takes L steps from base, each from where the one before it ended.
Steps(g, L, base, step) ==
  g[0] = base /\ \A n \in 1..L : g[n] = step[n][g[n - 1]]

\* However many steps, some function takes them.
LEMMA StepsExist ==
  ASSUME NEW L \in Nat, NEW X, NEW base \in X, NEW step,
         \A n \in 1..L : \A x \in X : step[n][x] \in X
  PROVE  \E g \in [0..L -> X] : Steps(g, L, base, step)
<1> DEFINE P == {n \in 0..L : \E g \in [0..n -> X] : Steps(g, n, base, step)}
<1>1. 0 \in P
  <2> DEFINE g == [k \in 0..0 |-> base]
  <2>1. g \in [0..0 -> X] /\ Steps(g, 0, base, step)
    BY DEF Steps
  <2> QED
    BY <2>1
<1>2. ASSUME NEW n \in 1..L, n - 1 \in P  PROVE n \in P
  <2>1. PICK g \in [0..(n - 1) -> X] : Steps(g, n - 1, base, step)
    BY <1>2
  <2> DEFINE h == [k \in 0..n |-> IF k = n THEN step[n][g[n - 1]] ELSE g[k]]
  <2>2. n \in Nat /\ n >= 1 /\ n - 1 \in 0..(n - 1) /\ n \in 0..L
    OBVIOUS
  <2>3. h \in [0..n -> X]
    BY <2>2
  <2>4. h[0] = base
    BY <2>1, <2>2 DEF Steps
  <2>5. ASSUME NEW k \in 1..n  PROVE h[k] = step[k][h[k - 1]]
    <3>1. h[k - 1] = g[k - 1]
      BY <2>2
    <3>2. CASE k = n
      BY <2>2, <3>1, <3>2
    <3>3. CASE k # n
      <4>1. k \in 1..(n - 1) /\ h[k] = g[k]
        BY <2>2, <3>3
      <4> QED
        BY <2>1, <3>1, <4>1 DEF Steps
    <3> QED
      BY <3>2, <3>3
  <2> HIDE DEF h
  <2>6. Steps(h, n, base, step)
    BY <2>4, <2>5 DEF Steps
  <2> QED
    BY <2>2, <2>3, <2>6
<1> HIDE DEF P
<1>3. 0..L \subseteq P
  BY <1>1, <1>2, GoesOn
<1>4. L \in P
  BY <1>3
<1> QED
  BY <1>4 DEF P
=============================================================================
