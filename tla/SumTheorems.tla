----------------------------- MODULE SumTheorems ------------------------------
(***************************************************************************)
(* Sums over finite sets, as the models write them (SumFunctionOnSet and   *)
(* SumFunction of the community modules), and the induction they rest on.  *)
(* The induction principles speak of sets instead of operators: the set    *)
(* of the numbers, or of the subsets, for which the claim holds.           *)
(***************************************************************************)
EXTENDS FiniteSetsExt, FiniteSetTheorems, TLAPS

------------------------------------------------------------------------------
(* Induction *)

\* A set of naturals that is not empty has a least element.
THEOREM LeastNatural ==
  ASSUME NEW N \in SUBSET Nat, N # {}
  PROVE  \E n \in N : \A m \in N : n <= m
<1> DEFINE Below == OpToRel(<, Nat)
<1>1. \A m, n \in Nat : <<m, n>> \notin Below => n <= m
  <2>1. \A m, n \in Nat : m < n => <<m, n>> \in Below
    BY DEF OpToRel
  <2>2. \A m, n \in Nat : ~(m < n) => n <= m
    OBVIOUS
  <2> HIDE DEF Below
  <2> QED
    BY <2>1, <2>2, Zenon
<1>2. PICK n \in N : \A m \in N : <<m, n>> \notin Below
  <2>1. IsWellFoundedOn(Below, Nat)
    BY NatLessThanWellFounded
  <2> HIDE DEF Below
  <2> QED
    BY <2>1, WFMin
<1> HIDE DEF Below
<1> QED
  BY <1>1, <1>2

\* What holds of zero and of the successor of whatever it holds of, holds of all.
THEOREM NaturalInduction ==
  ASSUME NEW N, 0 \in N, \A n \in Nat : n \in N => n + 1 \in N
  PROVE  Nat \subseteq N
<1> SUFFICES ASSUME Nat \ N # {} PROVE FALSE
  OBVIOUS
<1>1. PICK n \in Nat \ N : \A m \in Nat \ N : n <= m
  BY LeastNatural
<1>2. n # 0 /\ n - 1 \in Nat /\ n - 1 \notin Nat \ N
  BY <1>1
<1> QED
  BY <1>1, <1>2

\* What holds of a subset when it holds of all smaller ones, holds of the set.
THEOREM SubsetInduction ==
  ASSUME NEW S, IsFiniteSet(S), NEW F,
         \A U \in SUBSET S : (\A V \in SUBSET U : V # U => V \in F) => U \in F
  PROVE  S \in F
<1> SUFFICES ASSUME S \notin F PROVE FALSE
  OBVIOUS
<1> DEFINE Bad == {U \in SUBSET S : U \notin F}
           Sizes == {Cardinality(U) : U \in Bad}
<1>1. \A U \in SUBSET S : IsFiniteSet(U) /\ Cardinality(U) \in Nat
  BY FS_Subset, FS_CardinalityType
<1>2. Sizes \in SUBSET Nat /\ Sizes # {}
  BY <1>1
<1>3. PICK n \in Sizes : \A m \in Sizes : n <= m
  <2> HIDE DEF Sizes
  <2> QED
    BY <1>2, LeastNatural
<1>4. PICK U \in Bad : n = Cardinality(U)
  OBVIOUS
<1>5. ASSUME NEW V \in SUBSET U, V # U PROVE V \in F
  <2>1. V \in SUBSET S /\ U \in SUBSET S
    OBVIOUS
  <2>2. Cardinality(V) < Cardinality(U)
    BY <1>1, <1>5, <2>1, FS_Subset
  <2>3. V \notin Bad
    <3>1. V \in Bad => Cardinality(V) \in Sizes
      OBVIOUS
    <3>2. Cardinality(U) \in Nat /\ Cardinality(V) \in Nat
      BY <1>1, <2>1
    <3> HIDE DEF Bad, Sizes
    <3>3. V \in Bad => Cardinality(U) <= Cardinality(V)
      BY <1>3, <1>4, <3>1
    <3> QED
      BY <2>2, <3>2, <3>3
  <2> QED
    BY <2>1, <2>3
<1> QED
  BY <1>5

\* What holds of no element, and of a subset if it holds without one of its elements,
\* holds of the set.
THEOREM ElementInduction ==
  ASSUME NEW S, IsFiniteSet(S), NEW F, {} \in F,
         \A U \in SUBSET S : \A x \in U : U \ {x} \in F => U \in F
  PROVE  S \in F
<1>1. ASSUME NEW U \in SUBSET S, \A V \in SUBSET U : V # U => V \in F
      PROVE  U \in F
  <2>1. CASE U = {}
    BY <2>1
  <2>2. ASSUME NEW x \in U PROVE U \in F
    <3>1. U \ {x} \in F
      BY <1>1
    <3> QED
      BY <3>1
  <2> QED
    BY <2>1, <2>2
<1> QED
  BY <1>1, SubsetInduction

------------------------------------------------------------------------------
(* What a sum is *)

Pick(U) == CHOOSE x \in U : TRUE

\* g holds the sums of f over every set of D.
SumsOf(f, g, D) ==
  g = [U \in D |-> IF U = {} THEN 0 ELSE f[Pick(U)] + g[U \ {Pick(U)}]]

LEMMA Picked == \A U : U # {} => Pick(U) \in U
BY DEF Pick

\* The recursion that defines a sum has a solution over a finite set.
LEMMA SumsExist ==
  ASSUME NEW f, NEW S, IsFiniteSet(S)
  PROVE  \E g : SumsOf(f, g, SUBSET S)
<1> DEFINE D(n) == {U \in SUBSET S : Cardinality(U) <= n}
           Solved == {n \in Nat : \E g : SumsOf(f, g, D(n))}
<1>1. \A U \in SUBSET S : IsFiniteSet(U) /\ Cardinality(U) \in Nat
  BY FS_Subset, FS_CardinalityType
<1>2. 0 \in Solved
  <2> DEFINE g == [U \in D(0) |-> 0]
  <2>1. \A U \in D(0) : U = {}
    BY <1>1, FS_EmptySet
  <2>2. SumsOf(f, g, D(0))
    BY <2>1 DEF SumsOf
  <2> QED
    BY <2>2
<1>3. ASSUME NEW n \in Nat, n \in Solved
      PROVE  n + 1 \in Solved
  <2>1. PICK g : SumsOf(f, g, D(n))
    BY <1>3
  <2> DEFINE Step(h, U) == IF U = {} THEN 0 ELSE f[Pick(U)] + h[U \ {Pick(U)}]
             h == [U \in D(n + 1) |-> Step(g, U)]
  <2>2. \A U \in D(n) : g[U] = Step(g, U)
    BY <2>1 DEF SumsOf
  <2>3. ASSUME NEW U \in D(n + 1), U # {}
        PROVE  U \ {Pick(U)} \in D(n) /\ U \ {Pick(U)} \in D(n + 1)
    <3>1. Cardinality(U \ {Pick(U)}) = Cardinality(U) - 1
      BY <1>1, <2>3, Picked, FS_RemoveElement
    <3> QED
      BY <1>1, <3>1
  <2>4. \A U \in D(n) : U \in D(n + 1)
    BY <1>1
  <2> HIDE DEF D
  <2>5. \A U \in D(n + 1) : Step(g, U) = Step(h, U)
    BY <2>2, <2>3, <2>4
  <2>6. SumsOf(f, h, D(n + 1))
    BY <2>5 DEF SumsOf
  <2> QED
    BY <2>6
<1>4. Cardinality(S) \in Solved
  <2> HIDE DEF Solved
  <2> QED
    BY <1>1, <1>2, <1>3, NaturalInduction
<1>5. D(Cardinality(S)) = SUBSET S
  BY FS_Subset, FS_CardinalityType
<1> QED
  BY <1>4, <1>5

\* It has one solution only, over whatever larger set it is solved.
LEMMA SumsAgree ==
  ASSUME NEW f, NEW S, NEW T, T \subseteq S, IsFiniteSet(T)
  PROVE  \A g, h : SumsOf(f, g, SUBSET S) /\ SumsOf(f, h, SUBSET T) => g[T] = h[T]
<1> SUFFICES ASSUME NEW g, NEW h, SumsOf(f, g, SUBSET S), SumsOf(f, h, SUBSET T)
             PROVE  g[T] = h[T]
  OBVIOUS
<1> DEFINE Same == {U \in SUBSET T : g[U] = h[U]}
<1>1. ASSUME NEW U \in SUBSET T, \A V \in SUBSET U : V # U => V \in Same
      PROVE  U \in Same
  <2>1. /\ g[U] = IF U = {} THEN 0 ELSE f[Pick(U)] + g[U \ {Pick(U)}]
        /\ h[U] = IF U = {} THEN 0 ELSE f[Pick(U)] + h[U \ {Pick(U)}]
    BY DEF SumsOf
  <2>2. U # {} => U \ {Pick(U)} \in Same
    BY <1>1, Picked
  <2> QED
    BY <2>1, <2>2
<1>2. T \in Same
  <2> HIDE DEF Same
  <2> QED
    BY <1>1, SubsetInduction
<1> QED
  BY <1>2

LEMMA SumIsSolution ==
  ASSUME NEW f, NEW S, IsFiniteSet(S), NEW g, SumsOf(f, g, SUBSET S)
  PROVE  SumFunctionOnSet(f, S) = g[S]
<1> DEFINE h == CHOOSE iter : SumsOf(f, iter, SUBSET S)
<1>1. SumFunctionOnSet(f, S) = h[S]
  BY DEF SumFunctionOnSet, FoldFunctionOnSet, MapThenFoldSet, SumsOf, Pick
<1>2. SumsOf(f, h, SUBSET S) /\ S \subseteq S
  OBVIOUS
<1> HIDE DEF h
<1>3. g[S] = h[S]
  BY <1>2, SumsAgree
<1> QED
  BY <1>1, <1>3

\* A sum is empty, or an element and the sum of the rest.
LEMMA SumUnfolds ==
  ASSUME NEW f, NEW S, IsFiniteSet(S)
  PROVE  SumFunctionOnSet(f, S) =
           IF S = {} THEN 0
           ELSE f[Pick(S)] + SumFunctionOnSet(f, S \ {Pick(S)})
<1>1. PICK g : SumsOf(f, g, SUBSET S)
  BY SumsExist
<1>2. g[S] = IF S = {} THEN 0 ELSE f[Pick(S)] + g[S \ {Pick(S)}]
  BY <1>1 DEF SumsOf
<1>3. SumFunctionOnSet(f, S) = g[S]
  BY <1>1, SumIsSolution
<1>4. SumFunctionOnSet(f, S \ {Pick(S)}) = g[S \ {Pick(S)}]
  <2> DEFINE T == S \ {Pick(S)}
  <2>1. T \subseteq S /\ IsFiniteSet(T)
    BY FS_RemoveElement
  <2>2. PICK h : SumsOf(f, h, SUBSET T)
    BY <2>1, SumsExist
  <2> HIDE DEF T
  <2>3. g[T] = h[T]
    BY <1>1, <2>1, <2>2, SumsAgree
  <2>4. SumFunctionOnSet(f, T) = h[T]
    BY <2>1, <2>2, SumIsSolution
  <2> QED
    BY <2>3, <2>4 DEF T
<1> QED
  BY <1>2, <1>3, <1>4

------------------------------------------------------------------------------
(* Sums of integers *)

LEMMA SumOfNone == \A f : SumFunctionOnSet(f, {}) = 0
BY SumUnfolds, FS_EmptySet

\* Integers over a finite set have a sum, an integer.
THEOREM SumIsInt ==
  ASSUME NEW S, IsFiniteSet(S), NEW f, \A x \in S : f[x] \in Int
  PROVE  SumFunctionOnSet(f, S) \in Int
<1> DEFINE F == {U \in SUBSET S : SumFunctionOnSet(f, U) \in Int}
<1>1. ASSUME NEW U \in SUBSET S, \A V \in SUBSET U : V # U => V \in F
      PROVE  U \in F
  <2>1. CASE U = {}
    BY <2>1, SumOfNone
  <2>2. CASE U # {}
    <3>1. Pick(U) \in U /\ U \ {Pick(U)} \in F
      BY <1>1, <2>2, Picked
    <3>2. SumFunctionOnSet(f, U) = f[Pick(U)] + SumFunctionOnSet(f, U \ {Pick(U)})
      BY <2>2, SumUnfolds, FS_Subset
    <3> QED
      BY <3>1, <3>2
  <2> QED
    BY <2>1, <2>2
<1> HIDE DEF F
<1>2. S \in F
  BY <1>1, SubsetInduction
<1> QED
  BY <1>2 DEF F

\* Any element may be taken out of a sum.
THEOREM SumWithout ==
  ASSUME NEW S, IsFiniteSet(S), NEW f, \A x \in S : f[x] \in Int
  PROVE  \A x \in S : SumFunctionOnSet(f, S) = f[x] + SumFunctionOnSet(f, S \ {x})
<1> DEFINE F == {U \in SUBSET S : \A x \in U :
                   SumFunctionOnSet(f, U) = f[x] + SumFunctionOnSet(f, U \ {x})}
<1>1. \A U \in SUBSET S : IsFiniteSet(U)
  BY FS_Subset
<1>2. \A U \in SUBSET S : SumFunctionOnSet(f, U) \in Int
  BY <1>1, SumIsInt
<1>3. ASSUME NEW U \in SUBSET S, \A V \in SUBSET U : V # U => V \in F
      PROVE  U \in F
  <2> SUFFICES ASSUME NEW x \in U
               PROVE  SumFunctionOnSet(f, U) = f[x] + SumFunctionOnSet(f, U \ {x})
    OBVIOUS
  <2> DEFINE c == Pick(U)
  <2>1. c \in U /\ SumFunctionOnSet(f, U) = f[c] + SumFunctionOnSet(f, U \ {c})
    BY <1>1, SumUnfolds, Picked
  <2> HIDE DEF c
  <2>2. CASE x # c
    <3>1. U \ {c} \in F /\ U \ {x} \in F /\ x \in U \ {c} /\ c \in U \ {x}
      BY <1>3, <2>1, <2>2
    <3>2. SumFunctionOnSet(f, U \ {c}) = f[x] + SumFunctionOnSet(f, (U \ {c}) \ {x})
      BY <3>1
    <3>3. SumFunctionOnSet(f, U \ {x}) = f[c] + SumFunctionOnSet(f, (U \ {x}) \ {c})
      BY <3>1
    <3>4. (U \ {x}) \ {c} = (U \ {c}) \ {x} /\ (U \ {c}) \ {x} \in SUBSET S
      OBVIOUS
    <3>5. SumFunctionOnSet(f, (U \ {c}) \ {x}) \in Int /\ f[x] \in Int /\ f[c] \in Int
      BY <1>2, <2>1, <3>4
    <3> DEFINE rest == SumFunctionOnSet(f, (U \ {c}) \ {x})
    <3>6. SumFunctionOnSet(f, U) = f[c] + (f[x] + rest)
      BY <2>1, <3>2
    <3>7. SumFunctionOnSet(f, U \ {x}) = f[c] + rest
      BY <3>3, <3>4
    <3> HIDE DEF rest
    <3>8. f[c] + (f[x] + rest) = f[x] + (f[c] + rest)
      BY <3>5 DEF rest
    <3> QED
      BY <3>6, <3>7, <3>8
  <2> QED
    BY <2>1, <2>2
<1> HIDE DEF F
<1>4. S \in F
  BY <1>3, SubsetInduction
<1> QED
  BY <1>4 DEF F

\* A sum grows with its parts.
THEOREM SumGrows ==
  ASSUME NEW S, IsFiniteSet(S), NEW f, NEW g,
         \A x \in S : f[x] \in Int /\ g[x] \in Int /\ f[x] <= g[x]
  PROVE  SumFunctionOnSet(f, S) <= SumFunctionOnSet(g, S)
<1> DEFINE F == {U \in SUBSET S : SumFunctionOnSet(f, U) <= SumFunctionOnSet(g, U)}
<1>1. \A U \in SUBSET S : /\ IsFiniteSet(U)
                          /\ SumFunctionOnSet(f, U) \in Int /\ SumFunctionOnSet(g, U) \in Int
  <2>1. \A U \in SUBSET S : IsFiniteSet(U)
    BY FS_Subset
  <2> QED
    BY <2>1, SumIsInt
<1>2. {} \in F
  BY SumOfNone
<1>3. ASSUME NEW U \in SUBSET S, NEW x \in U, U \ {x} \in F
      PROVE  U \in F
  <2>1. /\ SumFunctionOnSet(f, U) = f[x] + SumFunctionOnSet(f, U \ {x})
        /\ SumFunctionOnSet(g, U) = g[x] + SumFunctionOnSet(g, U \ {x})
    BY <1>1, SumWithout
  <2>2. /\ U \ {x} \in SUBSET S
        /\ SumFunctionOnSet(f, U \ {x}) <= SumFunctionOnSet(g, U \ {x})
    BY <1>3
  <2> QED
    BY <1>1, <2>1, <2>2
<1> HIDE DEF F
<1>4. S \in F
  BY <1>2, <1>3, ElementInduction
<1> QED
  BY <1>4 DEF F

\* Functions that agree on a set have the same sum over it.
THEOREM SumIsSame ==
  ASSUME NEW S, IsFiniteSet(S), NEW f, NEW g, \A x \in S : f[x] \in Int /\ f[x] = g[x]
  PROVE  SumFunctionOnSet(f, S) = SumFunctionOnSet(g, S)
<1>1. SumFunctionOnSet(f, S) \in Int /\ SumFunctionOnSet(g, S) \in Int
  BY SumIsInt
<1>2. /\ SumFunctionOnSet(f, S) <= SumFunctionOnSet(g, S)
      /\ SumFunctionOnSet(g, S) <= SumFunctionOnSet(f, S)
  BY SumGrows
<1> QED
  BY <1>1, <1>2

\* A sum of one number.
THEOREM SumOfConstant ==
  ASSUME NEW S, IsFiniteSet(S), NEW k \in Int, NEW f, \A x \in S : f[x] = k
  PROVE  SumFunctionOnSet(f, S) = k * Cardinality(S)
<1> DEFINE F == {U \in SUBSET S : SumFunctionOnSet(f, U) = k * Cardinality(U)}
<1>1. \A U \in SUBSET S : IsFiniteSet(U) /\ Cardinality(U) \in Nat
  BY FS_Subset, FS_CardinalityType
<1>2. {} \in F
  BY SumOfNone, FS_EmptySet
<1>3. ASSUME NEW U \in SUBSET S, NEW x \in U, U \ {x} \in F
      PROVE  U \in F
  <2>1. SumFunctionOnSet(f, U) = k + SumFunctionOnSet(f, U \ {x})
    BY <1>1, SumWithout
  <2>2. Cardinality(U) \in Nat /\ Cardinality(U \ {x}) = Cardinality(U) - 1
    BY <1>1, FS_RemoveElement
  <2>3. SumFunctionOnSet(f, U \ {x}) = k * (Cardinality(U) - 1)
    BY <1>3, <2>2
  <2>4. \A n \in Nat : k + k * (n - 1) = k * n
    OBVIOUS
  <2> QED
    BY <2>1, <2>2, <2>3, <2>4
<1> HIDE DEF F
<1>4. S \in F
  BY <1>2, <1>3, ElementInduction
<1> QED
  BY <1>4 DEF F

\* A sum is that of a part and that of the rest.
THEOREM SumSplits ==
  ASSUME NEW S, IsFiniteSet(S), NEW f, \A x \in S : f[x] \in Int, NEW T \in SUBSET S
  PROVE  SumFunctionOnSet(f, S) = SumFunctionOnSet(f, T) + SumFunctionOnSet(f, S \ T)
<1> DEFINE F == {U \in SUBSET T : SumFunctionOnSet(f, S) =
                   SumFunctionOnSet(f, U) + SumFunctionOnSet(f, S \ U)}
<1>1. \A U \in SUBSET S : IsFiniteSet(U) /\ SumFunctionOnSet(f, U) \in Int
  <2>1. \A U \in SUBSET S : IsFiniteSet(U)
    BY FS_Subset
  <2> QED
    BY <2>1, SumIsInt
<1>2. {} \in F
  <2>1. S \ {} = S /\ SumFunctionOnSet(f, S) \in Int
    BY <1>1
  <2> QED
    BY <2>1, SumOfNone
<1>3. ASSUME NEW U \in SUBSET T, NEW x \in U, U \ {x} \in F
      PROVE  U \in F
  <2> DEFINE V == U \ {x}
  <2>1. SumFunctionOnSet(f, U) = f[x] + SumFunctionOnSet(f, V)
    BY <1>1, SumWithout
  <2>2. SumFunctionOnSet(f, S \ V) = f[x] + SumFunctionOnSet(f, S \ U)
    <3>1. S \ V \in SUBSET S /\ x \in S \ V /\ (S \ V) \ {x} = S \ U
      OBVIOUS
    <3>2. SumFunctionOnSet(f, S \ V) = f[x] + SumFunctionOnSet(f, (S \ V) \ {x})
      <4> HIDE DEF V
      <4> QED
        BY <1>1, <3>1, SumWithout
    <3> QED
      BY <3>1, <3>2
  <2>3. SumFunctionOnSet(f, S) = SumFunctionOnSet(f, V) + SumFunctionOnSet(f, S \ V)
    BY <1>3
  <2>4. /\ SumFunctionOnSet(f, V) \in Int /\ SumFunctionOnSet(f, S \ U) \in Int
        /\ f[x] \in Int
    BY <1>1
  <2> HIDE DEF V
  <2> QED
    BY <2>1, <2>2, <2>3, <2>4
<1> HIDE DEF F
<1>4. T \in F
  BY <1>1, <1>2, <1>3, ElementInduction
<1> QED
  BY <1>4 DEF F

\* Without negative parts a sum is not negative, and no part of it exceeds it.
THEOREM SumIsNat ==
  ASSUME NEW S, IsFiniteSet(S), NEW f, \A x \in S : f[x] \in Nat
  PROVE  /\ SumFunctionOnSet(f, S) \in Nat
         /\ \A T \in SUBSET S : SumFunctionOnSet(f, T) <= SumFunctionOnSet(f, S)
         /\ \A x \in S : f[x] <= SumFunctionOnSet(f, S)
<1>1. \A U \in SUBSET S : IsFiniteSet(U)
  BY FS_Subset
<1>2. \A U \in SUBSET S : SumFunctionOnSet(f, U) \in Nat
  <2> SUFFICES ASSUME NEW U \in SUBSET S PROVE SumFunctionOnSet(f, U) \in Nat
    OBVIOUS
  <2> DEFINE zero == [x \in U |-> 0]
  <2>1. SumFunctionOnSet(zero, U) = 0 * Cardinality(U) /\ Cardinality(U) \in Nat
    BY <1>1, SumOfConstant, FS_CardinalityType
  <2>2. SumFunctionOnSet(zero, U) <= SumFunctionOnSet(f, U)
    <3>1. \A x \in U : zero[x] \in Int /\ f[x] \in Int /\ zero[x] <= f[x]
      OBVIOUS
    <3> HIDE DEF zero
    <3> QED
      BY <1>1, <3>1, SumGrows
  <2>3. SumFunctionOnSet(f, U) \in Int
    BY <1>1, SumIsInt
  <2> HIDE DEF zero
  <2> QED
    BY <2>1, <2>2, <2>3
<1>3. ASSUME NEW T \in SUBSET S
      PROVE  SumFunctionOnSet(f, T) <= SumFunctionOnSet(f, S)
  <2>1. SumFunctionOnSet(f, S) = SumFunctionOnSet(f, T) + SumFunctionOnSet(f, S \ T)
    BY SumSplits
  <2> QED
    BY <1>2, <2>1
<1>4. ASSUME NEW x \in S
      PROVE  f[x] <= SumFunctionOnSet(f, S)
  <2>1. SumFunctionOnSet(f, S) = f[x] + SumFunctionOnSet(f, S \ {x})
    BY SumWithout
  <2> QED
    BY <1>2, <2>1
<1> QED
  BY <1>2, <1>3, <1>4

\* What holds part by part, f against a to g against b, holds of the sums.
THEOREM SumWeighed ==
  ASSUME NEW S, IsFiniteSet(S), NEW f, NEW g, NEW a \in Int, NEW b \in Int,
         \A x \in S : f[x] \in Int /\ g[x] \in Int /\ f[x] * a <= g[x] * b
  PROVE  SumFunctionOnSet(f, S) * a <= SumFunctionOnSet(g, S) * b
<1> DEFINE F == {U \in SUBSET S : SumFunctionOnSet(f, U) * a <= SumFunctionOnSet(g, U) * b}
<1>1. \A U \in SUBSET S : /\ IsFiniteSet(U)
                          /\ SumFunctionOnSet(f, U) \in Int /\ SumFunctionOnSet(g, U) \in Int
  <2>1. \A U \in SUBSET S : IsFiniteSet(U)
    BY FS_Subset
  <2> QED
    BY <2>1, SumIsInt
<1>2. {} \in F
  BY SumOfNone
<1>3. ASSUME NEW U \in SUBSET S, NEW x \in U, U \ {x} \in F
      PROVE  U \in F
  <2> DEFINE m == SumFunctionOnSet(f, U \ {x})
             n == SumFunctionOnSet(g, U \ {x})
  <2>1. SumFunctionOnSet(f, U) = f[x] + m /\ SumFunctionOnSet(g, U) = g[x] + n
    BY <1>1, SumWithout
  <2>2. m \in Int /\ n \in Int /\ m * a <= n * b
    BY <1>1, <1>3
  <2>3. f[x] \in Int /\ g[x] \in Int /\ f[x] * a <= g[x] * b
    OBVIOUS
  <2> HIDE DEF m, n
  <2>4. \A i, j, k \in Int : (i + j) * k = i * k + j * k
    OBVIOUS
  <2>5. (f[x] + m) * a = f[x] * a + m * a /\ (g[x] + n) * b = g[x] * b + n * b
    BY <2>2, <2>3, <2>4
  <2>6. f[x] * a \in Int /\ m * a \in Int /\ g[x] * b \in Int /\ n * b \in Int
    BY <2>2, <2>3
  <2>7. f[x] * a + m * a <= g[x] * b + n * b
    BY <2>2, <2>3, <2>6
  <2> QED
    BY <2>1, <2>5, <2>7
<1> HIDE DEF F
<1>4. S \in F
  BY <1>2, <1>3, ElementInduction
<1> QED
  BY <1>4 DEF F

\* And strictly, where there is anything to compare.
THEOREM SumWeighedStrictly ==
  ASSUME NEW S, IsFiniteSet(S), S # {}, NEW f, NEW g, NEW a \in Int, NEW b \in Int,
         \A x \in S : f[x] \in Int /\ g[x] \in Int /\ f[x] * a < g[x] * b
  PROVE  SumFunctionOnSet(f, S) * a < SumFunctionOnSet(g, S) * b
<1>1. PICK x \in S : TRUE
  OBVIOUS
<1> DEFINE U == S \ {x}
           m == SumFunctionOnSet(f, U)
           n == SumFunctionOnSet(g, U)
<1>2. IsFiniteSet(U) /\ \A y \in U : f[y] \in Int /\ g[y] \in Int /\ f[y] * a <= g[y] * b
  <2>1. IsFiniteSet(U)
    BY FS_Subset
  <2>2. ASSUME NEW y \in U PROVE f[y] \in Int /\ g[y] \in Int /\ f[y] * a <= g[y] * b
    <3>1. f[y] \in Int /\ g[y] \in Int /\ f[y] * a < g[y] * b
      OBVIOUS
    <3>2. f[y] * a \in Int /\ g[y] * b \in Int
      BY <3>1
    <3> QED
      BY <3>1, <3>2
  <2> QED
    BY <2>1, <2>2
<1>3. SumFunctionOnSet(f, S) = f[x] + m /\ SumFunctionOnSet(g, S) = g[x] + n
  BY SumWithout
<1> HIDE DEF U
<1>4. m * a <= n * b /\ m \in Int /\ n \in Int
  BY <1>2, SumWeighed, SumIsInt
<1>5. f[x] \in Int /\ g[x] \in Int /\ f[x] * a < g[x] * b
  OBVIOUS
<1> HIDE DEF m, n
<1>6. (f[x] + m) * a = f[x] * a + m * a /\ (g[x] + n) * b = g[x] * b + n * b
  BY <1>4, <1>5
<1>7. f[x] * a \in Int /\ g[x] * b \in Int /\ m * a \in Int /\ n * b \in Int
  BY <1>4, <1>5
<1> QED
  BY <1>3, <1>4, <1>5, <1>6, <1>7

\* Sums add up.
THEOREM SumAdds ==
  ASSUME NEW S, IsFiniteSet(S), NEW f, NEW g, NEW h,
         \A x \in S : f[x] \in Int /\ g[x] \in Int /\ h[x] = f[x] + g[x]
  PROVE  SumFunctionOnSet(h, S) = SumFunctionOnSet(f, S) + SumFunctionOnSet(g, S)
<1> DEFINE F == {U \in SUBSET S : SumFunctionOnSet(h, U) =
                                    SumFunctionOnSet(f, U) + SumFunctionOnSet(g, U)}
<1>1. \A U \in SUBSET S : IsFiniteSet(U)
  BY FS_Subset
<1>2. \A x \in S : h[x] \in Int /\ f[x] \in Int /\ g[x] \in Int
  OBVIOUS
<1>3. \A U \in SUBSET S : SumFunctionOnSet(f, U) \in Int /\ SumFunctionOnSet(g, U) \in Int
  BY <1>1, SumIsInt
<1>4. {} \in F
  BY SumOfNone
<1>5. ASSUME NEW U \in SUBSET S, NEW x \in U, U \ {x} \in F
      PROVE  U \in F
  <2> DEFINE m == SumFunctionOnSet(f, U \ {x})
             n == SumFunctionOnSet(g, U \ {x})
  <2>1. /\ SumFunctionOnSet(f, U) = f[x] + m
        /\ SumFunctionOnSet(g, U) = g[x] + n
        /\ SumFunctionOnSet(h, U) = h[x] + SumFunctionOnSet(h, U \ {x})
    BY <1>1, <1>2, SumWithout
  <2>2. SumFunctionOnSet(h, U \ {x}) = m + n
    BY <1>5
  <2>3. m \in Int /\ n \in Int
    BY <1>3
  <2>4. h[x] = f[x] + g[x] /\ f[x] \in Int /\ g[x] \in Int
    OBVIOUS
  <2> HIDE DEF m, n
  <2>5. h[x] + (m + n) = (f[x] + m) + (g[x] + n)
    BY <2>3, <2>4
  <2> QED
    BY <2>1, <2>2, <2>5
<1> HIDE DEF F
<1>6. S \in F
  BY <1>4, <1>5, ElementInduction
<1> QED
  BY <1>6 DEF F

\* A factor may be taken out of a sum.
THEOREM SumTimes ==
  ASSUME NEW S, IsFiniteSet(S), NEW f, NEW k \in Int, NEW h,
         \A x \in S : f[x] \in Int /\ h[x] = f[x] * k
  PROVE  SumFunctionOnSet(h, S) = SumFunctionOnSet(f, S) * k
<1>1. \A x \in S : h[x] \in Int
  OBVIOUS
<1>2. /\ SumFunctionOnSet(h, S) \in Int /\ SumFunctionOnSet(f, S) \in Int
      /\ SumFunctionOnSet(f, S) * k \in Int
  BY <1>1, SumIsInt
<1>3. \A x \in S : h[x] * 1 <= f[x] * k /\ f[x] * k <= h[x] * 1
  BY <1>1
<1>4. SumFunctionOnSet(h, S) * 1 <= SumFunctionOnSet(f, S) * k
  BY <1>1, <1>3, SumWeighed
<1>5. SumFunctionOnSet(f, S) * k <= SumFunctionOnSet(h, S) * 1
  BY <1>1, <1>3, SumWeighed
<1> QED
  BY <1>2, <1>4, <1>5

\* As many times more as there are parts.
LEMMA SumPlus ==
  ASSUME NEW S, IsFiniteSet(S), NEW f, NEW n \in Int, NEW h,
         \A x \in S : f[x] \in Int /\ h[x] = f[x] + n
  PROVE  SumFunctionOnSet(h, S) = SumFunctionOnSet(f, S) + n * Cardinality(S)
<1> DEFINE g == [x \in S |-> n]
<1>1. \A x \in S : f[x] \in Int /\ g[x] \in Int /\ h[x] = f[x] + g[x] /\ g[x] = n
  OBVIOUS
<1> HIDE DEF g
<1>2. SumFunctionOnSet(h, S) = SumFunctionOnSet(f, S) + SumFunctionOnSet(g, S)
  BY <1>1, SumAdds
<1>3. SumFunctionOnSet(g, S) = n * Cardinality(S)
  BY <1>1, SumOfConstant
<1> QED
  BY <1>2, <1>3

\* What bounds the sum of every part bounds, summed, the sum of all.
THEOREM SumByParts ==
  ASSUME NEW S, IsFiniteSet(S), NEW f, \A x \in S : f[x] \in Int,
         NEW P, IsFiniteSet(P), NEW part, \A x \in S : part[x] \in P,
         NEW g, \A p \in P : g[p] \in Int,
         \A p \in P : SumFunctionOnSet(f, {x \in S : part[x] = p}) <= g[p]
  PROVE  SumFunctionOnSet(f, S) <= SumFunctionOnSet(g, P)
<1> DEFINE In(Q) == {x \in S : part[x] \in Q}
           F == {Q \in SUBSET P : SumFunctionOnSet(f, In(Q)) <= SumFunctionOnSet(g, Q)}
<1>1. /\ \A U \in SUBSET S : IsFiniteSet(U) /\ SumFunctionOnSet(f, U) \in Int
      /\ \A Q \in SUBSET P : IsFiniteSet(Q) /\ SumFunctionOnSet(g, Q) \in Int
  <2>1. (\A U \in SUBSET S : IsFiniteSet(U)) /\ (\A Q \in SUBSET P : IsFiniteSet(Q))
    BY FS_Subset
  <2>2. \A U \in SUBSET S : SumFunctionOnSet(f, U) \in Int
    BY <2>1, SumIsInt
  <2>3. \A Q \in SUBSET P : SumFunctionOnSet(g, Q) \in Int
    BY <2>1, SumIsInt
  <2> QED
    BY <2>1, <2>2, <2>3
<1>2. {} \in F
  <2>1. In({}) = {}
    OBVIOUS
  <2> QED
    BY <2>1, SumOfNone
<1>3. ASSUME NEW Q \in SUBSET P, NEW p \in Q, Q \ {p} \in F
      PROVE  Q \in F
  <2> DEFINE Own == {x \in S : part[x] = p}
  <2>1. /\ Own \in SUBSET In(Q) /\ In(Q) \ Own = In(Q \ {p})
        /\ In(Q) \in SUBSET S /\ Own \in SUBSET S /\ In(Q \ {p}) \in SUBSET S
    OBVIOUS
  <2>2. \A x \in In(Q) : f[x] \in Int
    OBVIOUS
  <2>3. /\ SumFunctionOnSet(f, Own) <= g[p] /\ g[p] \in Int
        /\ SumFunctionOnSet(f, In(Q \ {p})) <= SumFunctionOnSet(g, Q \ {p})
    BY <1>3
  <2>4. SumFunctionOnSet(g, Q) = g[p] + SumFunctionOnSet(g, Q \ {p})
    BY <1>1, SumWithout
  <2> HIDE DEF In, Own
  <2>5. SumFunctionOnSet(f, In(Q)) = SumFunctionOnSet(f, Own) + SumFunctionOnSet(f, In(Q) \ Own)
    BY <1>1, <2>1, <2>2, SumSplits
  <2>6. /\ SumFunctionOnSet(f, Own) \in Int /\ SumFunctionOnSet(f, In(Q \ {p})) \in Int
        /\ SumFunctionOnSet(g, Q \ {p}) \in Int
    BY <1>1, <2>1
  <2>7. SumFunctionOnSet(f, In(Q)) = SumFunctionOnSet(f, Own) + SumFunctionOnSet(f, In(Q \ {p}))
    BY <2>1, <2>5
  <2>8. SumFunctionOnSet(f, In(Q)) <= SumFunctionOnSet(g, Q)
    BY <2>3, <2>4, <2>6, <2>7
  <2> QED
    BY <2>8
<1>4. P \in F
  <2> HIDE DEF F
  <2> QED
    BY <1>2, <1>3, ElementInduction
<1>5. In(P) = S
  OBVIOUS
<1> QED
  BY <1>4, <1>5

\* And from below.
LEMMA SumByPartsBelow ==
  ASSUME NEW S, IsFiniteSet(S), NEW f, \A x \in S : f[x] \in Int,
         NEW P, IsFiniteSet(P), NEW part, \A x \in S : part[x] \in P,
         NEW g, \A p \in P : g[p] \in Int,
         \A p \in P : SumFunctionOnSet(f, {x \in S : part[x] = p}) >= g[p]
  PROVE  SumFunctionOnSet(f, S) >= SumFunctionOnSet(g, P)
<1> DEFINE minus == [x \in S |-> f[x] * (-1)]
           less == [p \in P |-> g[p] * (-1)]
           In(p) == {x \in S : part[x] = p}
<1>1. /\ \A x \in S : minus[x] \in Int /\ f[x] \in Int /\ minus[x] = f[x] * (-1)
      /\ \A p \in P : less[p] \in Int /\ g[p] \in Int /\ less[p] = g[p] * (-1)
      /\ -1 \in Int
  OBVIOUS
<1> HIDE DEF minus, less
<1>2. ASSUME NEW p \in P PROVE SumFunctionOnSet(minus, In(p)) <= less[p]
  <2>1. IsFiniteSet(In(p)) /\ \A x \in In(p) : f[x] \in Int /\ minus[x] = f[x] * (-1)
    BY <1>1, FS_Subset
  <2>2. SumFunctionOnSet(f, In(p)) >= g[p]
    OBVIOUS
  <2> HIDE DEF In
  <2>3. SumFunctionOnSet(minus, In(p)) = SumFunctionOnSet(f, In(p)) * (-1)
    BY <1>1, <2>1, SumTimes
  <2>4. SumFunctionOnSet(f, In(p)) \in Int
    BY <2>1, SumIsInt
  <2> QED
    BY <1>1, <2>2, <2>3, <2>4
<1>3. SumFunctionOnSet(minus, S) <= SumFunctionOnSet(less, P)
  BY <1>1, <1>2, SumByParts
<1>4. /\ SumFunctionOnSet(minus, S) = SumFunctionOnSet(f, S) * (-1)
      /\ SumFunctionOnSet(less, P) = SumFunctionOnSet(g, P) * (-1)
  BY <1>1, SumTimes
<1>5. SumFunctionOnSet(f, S) \in Int /\ SumFunctionOnSet(g, P) \in Int
  BY SumIsInt
<1> QED
  BY <1>3, <1>4, <1>5

------------------------------------------------------------------------------
(* Finite sets *)

\* A finite set of naturals that is not empty has a greatest element.
THEOREM GreatestNatural ==
  ASSUME NEW S \in SUBSET Nat, IsFiniteSet(S), S # {}
  PROVE  \E n \in S : \A m \in S : n >= m
<1> DEFINE F == {U \in SUBSET S : U # {} => \E n \in U : \A m \in U : n >= m}
<1>1. ASSUME NEW U \in SUBSET S, NEW x \in U, U \ {x} \in F
      PROVE  U \in F
  <2>1. CASE U = {x}
    BY <2>1
  <2>2. CASE U # {x}
    <3>1. PICK n \in U \ {x} : \A m \in U \ {x} : n >= m
      BY <1>1, <2>2
    <3>2. CASE n >= x
      BY <3>1, <3>2
    <3>3. CASE ~(n >= x)
      <4>1. \A m \in U : x >= m
        BY <3>1, <3>3
      <4> QED
        BY <4>1
    <3> QED
      BY <3>2, <3>3
  <2> QED
    BY <2>1, <2>2
<1>2. {} \in F
  OBVIOUS
<1> HIDE DEF F
<1>3. S \in F
  BY <1>1, <1>2, ElementInduction
<1> QED
  BY <1>3 DEF F

\* The values of a function over a finite set are finitely many.
THEOREM ValuesAreFinite ==
  ASSUME NEW S, IsFiniteSet(S), NEW f
  PROVE  IsFiniteSet({f[x] : x \in S})
<1> DEFINE Values(U) == {f[x] : x \in U}
           F == {U \in SUBSET S : IsFiniteSet(Values(U))}
<1>1. {} \in F
  <2>1. Values({}) = {}
    OBVIOUS
  <2> QED
    BY <2>1, FS_EmptySet
<1>2. ASSUME NEW U \in SUBSET S, NEW x \in U, U \ {x} \in F
      PROVE  U \in F
  <2>1. Values(U) = Values(U \ {x}) \cup {f[x]}
    OBVIOUS
  <2>2. IsFiniteSet(Values(U \ {x}))
    BY <1>2
  <2>3. IsFiniteSet({f[x]})
    BY FS_Singleton
  <2> HIDE DEF Values
  <2>4. IsFiniteSet(Values(U))
    BY <2>1, <2>2, <2>3, FS_Union
  <2> QED
    BY <2>4
<1>3. S \in F
  <2> HIDE DEF F
  <2> QED
    BY <1>1, <1>2, ElementInduction
<1> QED
  BY <1>3

==============================================================================
