--------------------------- MODULE WaterfillProofs ---------------------------
(***************************************************************************)
(* Proofs about the water-filling of the receiver's scheduler, for any     *)
(* capacity, demands and caps and for positive weights.                    *)
(*                                                                         *)
(* Grants. Fill is recursive: FillRises says that its recursion has a      *)
(* solution and unfolds it, and FillFits follows by induction over the     *)
(* items still active. A level that saturates the cheapest caps pays for   *)
(* all of them (SaturatedIsPaid), so what is left never becomes negative,  *)
(* and the last level gives nobody more than its cap (LevelFits).          *)
(*                                                                         *)
(* Ceilings. A level found between two points of the grid is paid for,     *)
(* and no level that is paid for takes more (LevelIsPaid). Whatever else   *)
(* is said of a ceiling follows from this: those of items that want        *)
(* everything fit together (HungryCeilingsFit), and an item whose cap Fill *)
(* does not saturate is granted its ceiling (CeilingIsGrant).              *)
(*                                                                         *)
(* Of the three layers the same follows layer by layer: GrantsAreWithin,   *)
(* CeilingsAreWithin, GrantIsDemandOrCeiling, SharesAreKept and            *)
(* RootIsInfinite. What the roundings of three layers can hide is less     *)
(* than three for each flow-set (GrantsSpend), so in a unit that every     *)
(* quotient leaves whole they hide nothing (GrantsSpendAll).               *)
(***************************************************************************)
EXTENDS Waterfill, SumTheorems

------------------------------------------------------------------------------
(* Arithmetic *)

LEMMA QuotientIsNat == ASSUME NEW a \in Nat, NEW b \in Nat \ {0} PROVE a \div b \in Nat
OBVIOUS

LEMMA ProductIsNat == ASSUME NEW a \in Nat, NEW b \in Nat PROVE a * b \in Nat
OBVIOUS

\* A quotient is rounded down.
LEMMA QuotientFits ==
  ASSUME NEW a \in Nat, NEW b \in Nat \ {0} PROVE (a \div b) * b <= a
OBVIOUS

\* By less than one.
LEMMA QuotientLoses ==
  ASSUME NEW a \in Nat, NEW b \in Nat \ {0} PROVE a <= (a \div b + 1) * b
OBVIOUS

LEMMA Cancel ==
  ASSUME NEW a \in Int, NEW b \in Int, NEW c \in Nat \ {0}, a * c <= b * c PROVE a <= b
<1> SUFFICES ASSUME a > b PROVE FALSE
  OBVIOUS
<1>1. PICK d \in Nat : a = b + 1 + d
  <2>1. a - b - 1 \in Nat /\ a = b + 1 + (a - b - 1)
    OBVIOUS
  <2> QED
    BY <2>1
<1>2. a * c = b * c + c + d * c /\ d * c \in Nat /\ b * c \in Int
  BY <1>1
<1> QED
  BY <1>2

LEMMA Scale ==
  ASSUME NEW a \in Int, NEW b \in Int, NEW c \in Nat, a <= b PROVE a * c <= b * c
<1>1. PICK d \in Nat : b = a + d
  <2>1. b - a \in Nat /\ b = a + (b - a)
    OBVIOUS
  <2> QED
    BY <2>1
<1>2. b * c = a * c + d * c /\ d * c \in Nat /\ a * c \in Int
  BY <1>1
<1> QED
  BY <1>2

LEMMA ScaleStrictly ==
  ASSUME NEW a \in Int, NEW b \in Int, NEW c \in Nat \ {0}, a < b PROVE a * c < b * c
<1>1. a + 1 <= b
  OBVIOUS
<1>2. (a + 1) * c <= b * c /\ (a + 1) * c = a * c + c /\ a * c \in Int /\ b * c \in Int
  BY <1>1, Scale
<1> QED
  BY <1>2

\* a / v <= b / w and b / w <= c / x give a / v <= c / x.
LEMMA RatioTransitive ==
  ASSUME NEW a \in Int, NEW b \in Int, NEW c \in Int,
         NEW v \in Nat \ {0}, NEW w \in Nat \ {0}, NEW x \in Nat \ {0},
         a * w <= b * v, b * x <= c * w
  PROVE  a * x <= c * v
<1>1. (a * w) * x <= (b * v) * x /\ (b * x) * v <= (c * w) * v
  BY Scale
<1>2. /\ (a * w) * x = (a * x) * w /\ (b * v) * x = (b * x) * v
      /\ (c * w) * v = (c * v) * w
  OBVIOUS
<1>3. a * x \in Int /\ c * v \in Int /\ (b * x) * v \in Int /\ (a * x) * w \in Int /\ (c * v) * w \in Int
  OBVIOUS
<1>4. (a * x) * w <= (c * v) * w
  BY <1>1, <1>2, <1>3
<1> QED
  BY <1>3, <1>4, Cancel

LEMMA QuotientOfProduct == ASSUME NEW n \in Nat, NEW b \in Nat \ {0} PROVE (b * n) \div b = n
OBVIOUS

LEMMA Divides ==
  ASSUME NEW a \in Nat, NEW b \in Nat \ {0}, a % b = 0
  PROVE  a = b * (a \div b) /\ a \div b \in Nat
OBVIOUS

\* Multiples of what b divides are divided without a rest.
LEMMA ExactQuotient ==
  ASSUME NEW a \in Nat, NEW b \in Nat \ {0}, a % b = 0, NEW c \in Nat
  PROVE  (c * a) \div b \in Nat /\ b * ((c * a) \div b) = c * a
<1>1. a = b * (a \div b) /\ a \div b \in Nat
  BY Divides
<1> DEFINE q == a \div b
<1>2. c * q \in Nat /\ c * a = b * (c * q)
  BY <1>1
<1>3. (c * a) \div b = c * q
  BY <1>2, QuotientOfProduct
<1> QED
  BY <1>2, <1>3

\* How far m lasts on a line that rises by s in each of h steps.
LEMMA StepsOnLine ==
  ASSUME NEW m \in Nat, NEW s \in Nat \ {0}, NEW h \in Nat \ {0}, m <= s * h
  PROVE  LET x == (m * h) \div (s * h) IN x \in Nat /\ x <= h /\ s * x <= m /\ m < s * (x + 1)
<1> DEFINE x == (m * h) \div (s * h)
<1>1. s * h \in Nat \ {0} /\ m * h \in Nat
  OBVIOUS
<1>2. x \in Nat /\ x * (s * h) <= m * h /\ m * h < (x + 1) * (s * h)
  BY <1>1
<1> HIDE DEF x
<1>3. (s * x) * h <= m * h /\ s * x \in Int
  BY <1>2
<1>4. s * x <= m
  BY <1>3, Cancel
<1>5. x * s <= h * s
  BY <1>2, <1>4
<1>6. x <= h
  BY <1>2, <1>5, Cancel
<1>7. m < s * (x + 1)
  <2> SUFFICES ASSUME s * (x + 1) <= m PROVE FALSE
    BY <1>2
  <2>1. (s * (x + 1)) * h <= m * h
    BY <1>2, Scale
  <2>2. (s * (x + 1)) * h = (x + 1) * (s * h)
    BY <1>2
  <2> QED
    BY <1>1, <1>2, <2>1, <2>2
<1> QED
  BY <1>2, <1>4, <1>6, <1>7

------------------------------------------------------------------------------
(* One layer: the recursion of Fill *)

Left(capacity, cap, active) == capacity - SumFunctionOnSet(cap, DOMAIN cap \ active)

Cheapest(w, cap, active) ==
  {k \in active : \A j \in active : cap[k] * w[j] <= cap[j] * w[k]}

Saturates(capacity, w, cap, active) ==
  \E k \in Cheapest(w, cap, active) :
    cap[k] * SumFunctionOnSet(w, active) <= Left(capacity, cap, active) * w[k]

Leveled(capacity, w, cap, active) ==
  [k \in DOMAIN cap |-> IF k \in active
     THEN (Left(capacity, cap, active) * w[k]) \div SumFunctionOnSet(w, active)
     ELSE cap[k]]

\* g holds what Fill gives to every set of active items of D.
Rises(capacity, w, cap, g, D) ==
  g = [active \in D |-> IF Saturates(capacity, w, cap, active)
                          THEN g[active \ Cheapest(w, cap, active)]
                          ELSE Leveled(capacity, w, cap, active)]

LEMMA CheapestSaturate ==
  \A capacity, w, cap, active :
    Saturates(capacity, w, cap, active) => Cheapest(w, cap, active) # {}
BY DEF Saturates

LEMMA RiseExists ==
  ASSUME NEW capacity, NEW w, NEW cap, IsFiniteSet(DOMAIN cap)
  PROVE  \E g : Rises(capacity, w, cap, g, SUBSET DOMAIN cap)
<1> DEFINE S == DOMAIN cap
           D(n) == {U \in SUBSET S : Cardinality(U) <= n}
           Solved == {n \in Nat : \E g : Rises(capacity, w, cap, g, D(n))}
           Step(h, U) == IF Saturates(capacity, w, cap, U)
                           THEN h[U \ Cheapest(w, cap, U)]
                           ELSE Leveled(capacity, w, cap, U)
<1>1. \A U \in SUBSET S : IsFiniteSet(U) /\ Cardinality(U) \in Nat
  BY FS_Subset, FS_CardinalityType
<1>2. 0 \in Solved
  <2> DEFINE g == [U \in D(0) |-> Leveled(capacity, w, cap, U)]
  <2>1. \A U \in D(0) : U = {}
    BY <1>1, FS_EmptySet
  <2>2. \A U \in D(0) : ~ Saturates(capacity, w, cap, U)
    BY <2>1 DEF Saturates, Cheapest
  <2>3. Rises(capacity, w, cap, g, D(0))
    BY <2>2 DEF Rises
  <2> QED
    BY <2>3
<1>3. ASSUME NEW n \in Nat, n \in Solved
      PROVE  n + 1 \in Solved
  <2>1. PICK g : Rises(capacity, w, cap, g, D(n))
    BY <1>3
  <2> DEFINE h == [U \in D(n + 1) |-> Step(g, U)]
  <2>2. \A U \in D(n) : g[U] = Step(g, U)
    BY <2>1 DEF Rises
  <2>3. ASSUME NEW U \in D(n + 1), Saturates(capacity, w, cap, U)
        PROVE  U \ Cheapest(w, cap, U) \in D(n) /\ U \ Cheapest(w, cap, U) \in D(n + 1)
    <3>1. Cheapest(w, cap, U) # {} /\ Cheapest(w, cap, U) \subseteq U
      BY <2>3, CheapestSaturate DEF Cheapest
    <3>2. U \ Cheapest(w, cap, U) \in SUBSET U /\ U \ Cheapest(w, cap, U) # U
      BY <3>1
    <3>3. Cardinality(U \ Cheapest(w, cap, U)) < Cardinality(U)
      BY <1>1, <3>2, FS_Subset
    <3>4. U \ Cheapest(w, cap, U) \in SUBSET S
      OBVIOUS
    <3> QED
      BY <1>1, <3>3, <3>4
  <2>4. \A U \in D(n) : U \in D(n + 1)
    BY <1>1
  <2> HIDE DEF D
  <2>5. \A U \in D(n + 1) : Step(g, U) = Step(h, U)
    BY <2>2, <2>3, <2>4
  <2>6. Rises(capacity, w, cap, h, D(n + 1))
    BY <2>5 DEF Rises
  <2> QED
    BY <2>6
<1>4. Cardinality(S) \in Solved
  <2> HIDE DEF Solved
  <2> QED
    BY <1>1, <1>2, <1>3, NaturalInduction
<1>5. D(Cardinality(S)) = SUBSET S
  BY FS_Subset, FS_CardinalityType
<1> QED
  BY <1>4, <1>5

LEMMA FillRises ==
  ASSUME NEW capacity, NEW w, NEW cap, IsFiniteSet(DOMAIN cap)
  PROVE  \E g : /\ Rises(capacity, w, cap, g, SUBSET DOMAIN cap)
                /\ Fill(capacity, w, cap) = g[{k \in DOMAIN cap : cap[k] > 0}]
<1> DEFINE g == CHOOSE g : Rises(capacity, w, cap, g, SUBSET DOMAIN cap)
<1>1. Rises(capacity, w, cap, g, SUBSET DOMAIN cap)
  BY RiseExists
<1>2. Fill(capacity, w, cap) = g[{k \in DOMAIN cap : cap[k] > 0}]
  BY DEF Fill, Rises, Saturates, Leveled, Left, Cheapest
<1> HIDE DEF g
<1> QED
  BY <1>1, <1>2

------------------------------------------------------------------------------
(* One layer: what it gives fits *)

Layer(w, cap) == /\ IsFiniteSet(DOMAIN cap)
                 /\ \A k \in DOMAIN cap : cap[k] \in Nat /\ w[k] \in Nat \ {0}

LEMMA LayerSums ==
  ASSUME NEW w, NEW cap, Layer(w, cap), NEW U \in SUBSET DOMAIN cap
  PROVE  /\ IsFiniteSet(U)
         /\ SumFunctionOnSet(cap, U) \in Nat
         /\ SumFunctionOnSet(w, U) \in Nat
         /\ \A V \in SUBSET U : SumFunctionOnSet(w, V) <= SumFunctionOnSet(w, U)
         /\ U # {} => SumFunctionOnSet(w, U) # 0
<1>1. IsFiniteSet(U) /\ \A k \in U : cap[k] \in Nat /\ w[k] \in Nat /\ w[k] > 0
  BY FS_Subset DEF Layer
<1>2. SumFunctionOnSet(cap, U) \in Nat
  BY <1>1, SumIsNat
<1>3. /\ SumFunctionOnSet(w, U) \in Nat
      /\ \A V \in SUBSET U : SumFunctionOnSet(w, V) <= SumFunctionOnSet(w, U)
      /\ \A k \in U : w[k] <= SumFunctionOnSet(w, U)
  BY <1>1, SumIsNat
<1> QED
  BY <1>1, <1>2, <1>3

LEMMA SomeAreCheapest ==
  ASSUME NEW w, NEW cap, Layer(w, cap), NEW active \in SUBSET DOMAIN cap, active # {}
  PROVE  Cheapest(w, cap, active) # {}
<1> DEFINE F == {U \in SUBSET active : U # {} => Cheapest(w, cap, U) # {}}
<1>1. ASSUME NEW U \in SUBSET active, NEW x \in U, U \ {x} \in F
      PROVE  U \in F
  <2>1. CASE U = {x}
    <3>1. cap[x] * w[x] <= cap[x] * w[x]
      BY DEF Layer
    <3> QED
      BY <2>1, <3>1 DEF Cheapest
  <2>2. CASE U # {x}
    <3>1. PICK k \in U \ {x} : \A j \in U \ {x} : cap[k] * w[j] <= cap[j] * w[k]
      BY <1>1, <2>2 DEF Cheapest
    <3>2. /\ cap[k] \in Nat /\ w[k] \in Nat \ {0} /\ cap[x] \in Nat /\ w[x] \in Nat \ {0}
          /\ \A j \in U : cap[j] \in Nat /\ w[j] \in Nat \ {0}
      BY DEF Layer
    <3>3. CASE cap[k] * w[x] <= cap[x] * w[k]
      BY <3>1, <3>3 DEF Cheapest
    <3>4. CASE ~(cap[k] * w[x] <= cap[x] * w[k])
      <4>1. cap[x] * w[k] <= cap[k] * w[x]
        BY <3>2, <3>4
      <4>2. ASSUME NEW j \in U \ {x} PROVE cap[x] * w[j] <= cap[j] * w[x]
        <5>1. cap[k] * w[j] <= cap[j] * w[k]
          BY <3>1
        <5>2. /\ cap[x] \in Int /\ cap[k] \in Int /\ cap[j] \in Int
              /\ w[x] \in Nat \ {0} /\ w[k] \in Nat \ {0} /\ w[j] \in Nat \ {0}
          BY <3>2
        <5> QED
          BY <4>1, <5>1, <5>2, RatioTransitive
      <4>3. cap[x] * w[x] <= cap[x] * w[x]
        BY <3>2
      <4> QED
        BY <4>2, <4>3 DEF Cheapest
    <3> QED
      BY <3>3, <3>4
  <2> QED
    BY <2>1, <2>2
<1>2. {} \in F
  OBVIOUS
<1>3. IsFiniteSet(active)
  BY LayerSums
<1> HIDE DEF F
<1>4. active \in F
  BY <1>1, <1>2, <1>3, ElementInduction
<1> QED
  BY <1>4 DEF F

\* Where the rise stands: nothing is owed, and whoever is saturated is so at a level
\* that the others have passed.
Stands(capacity, w, cap, active) ==
  /\ Left(capacity, cap, active) \in Nat
  /\ \A k \in DOMAIN cap \ active :
       cap[k] * SumFunctionOnSet(w, active) <= Left(capacity, cap, active) * w[k]

\* Where the cheapest saturate there is enough for all of them, and the level rises.
LEMMA SaturatedIsPaid ==
  ASSUME NEW capacity \in Nat, NEW w, NEW cap, Layer(w, cap),
         NEW active \in SUBSET DOMAIN cap,
         Stands(capacity, w, cap, active), Saturates(capacity, w, cap, active)
  PROVE  Stands(capacity, w, cap, active \ Cheapest(w, cap, active))
<1> DEFINE C == Cheapest(w, cap, active)
           W == SumFunctionOnSet(w, active)
           left == Left(capacity, cap, active)
<1>1. C \in SUBSET active /\ C \in SUBSET DOMAIN cap
  BY DEF Cheapest
<1>2. PICK m \in C : cap[m] * W <= left * w[m]
  BY DEF Saturates
<1>3. W \in Nat \ {0} /\ left \in Nat
  BY <1>1, LayerSums DEF Stands
<1>4. ASSUME NEW j \in C PROVE cap[j] * W <= w[j] * left
  <2>1. cap[j] * w[m] <= cap[m] * w[j]
    BY <1>1 DEF Cheapest
  <2>2. cap[j] \in Nat /\ w[j] \in Nat \ {0} /\ cap[m] \in Nat /\ w[m] \in Nat \ {0}
    BY <1>1 DEF Layer
  <2> HIDE DEF C, W, left
  <2>3. /\ cap[j] \in Int /\ cap[m] \in Int /\ left \in Int
        /\ w[j] \in Nat \ {0} /\ w[m] \in Nat \ {0} /\ W \in Nat \ {0}
    BY <1>3, <2>2
  <2>4. cap[j] * W <= left * w[j]
    BY <1>2, <2>1, <2>3, RatioTransitive
  <2>5. left * w[j] = w[j] * left
    BY <2>3
  <2> QED
    BY <2>4, <2>5
<1>5. /\ \A j \in C : cap[j] \in Int /\ w[j] \in Int
      /\ IsFiniteSet(C) /\ SumFunctionOnSet(cap, C) \in Nat
      /\ SumFunctionOnSet(w, C) \in Nat /\ SumFunctionOnSet(w, C) <= W
  <2>1. \A j \in C : cap[j] \in Int /\ w[j] \in Int
    BY <1>1 DEF Layer
  <2> HIDE DEF C
  <2> QED
    BY <1>1, <2>1, LayerSums
<1> HIDE DEF C, W, left
<1>6. SumFunctionOnSet(cap, C) * W <= SumFunctionOnSet(w, C) * left
  BY <1>3, <1>4, <1>5, SumWeighed
<1>7. SumFunctionOnSet(w, C) * left <= W * left /\ W * left = left * W
  BY <1>3, <1>5, Scale
<1>8. SumFunctionOnSet(cap, C) * W <= left * W
  <2>1. /\ SumFunctionOnSet(cap, C) * W \in Int /\ SumFunctionOnSet(w, C) * left \in Int
        /\ left * W \in Int
    BY <1>3, <1>5
  <2> QED
    BY <1>6, <1>7, <2>1
<1>9. SumFunctionOnSet(cap, C) <= left
  BY <1>3, <1>5, <1>8, Cancel
<1>10. Left(capacity, cap, active \ C) = left - SumFunctionOnSet(cap, C)
  <2> DEFINE rest == DOMAIN cap \ (active \ C)
  <2>1. C \in SUBSET rest /\ rest \ C = DOMAIN cap \ active /\ rest \in SUBSET DOMAIN cap
    BY <1>1
  <2>2. IsFiniteSet(rest) /\ \A x \in rest : cap[x] \in Int
    BY FS_Subset DEF Layer
  <2>3. SumFunctionOnSet(cap, DOMAIN cap \ active) \in Nat /\ SumFunctionOnSet(cap, rest) \in Nat
    BY LayerSums
  <2> HIDE DEF rest
  <2>4. SumFunctionOnSet(cap, rest) = SumFunctionOnSet(cap, C) + SumFunctionOnSet(cap, rest \ C)
    BY <2>1, <2>2, SumSplits
  <2>5. SumFunctionOnSet(cap, rest) = SumFunctionOnSet(cap, C) + SumFunctionOnSet(cap, DOMAIN cap \ active)
    BY <2>1, <2>4
  <2>6. /\ left = capacity - SumFunctionOnSet(cap, DOMAIN cap \ active)
        /\ Left(capacity, cap, active \ C) = capacity - SumFunctionOnSet(cap, rest)
    BY DEF left, rest, Left
  <2> QED
    BY <1>5, <2>3, <2>5, <2>6
<1>11. Left(capacity, cap, active \ C) \in Nat
  BY <1>3, <1>5, <1>9, <1>10
<1> DEFINE rest == active \ C
           V == SumFunctionOnSet(w, rest)
           after == Left(capacity, cap, rest)
<1>12. V \in Nat /\ W = SumFunctionOnSet(w, C) + V
  <2>1. /\ IsFiniteSet(active) /\ rest \in SUBSET DOMAIN cap
        /\ \A x \in active : w[x] \in Int
    BY LayerSums DEF Layer
  <2> HIDE DEF rest
  <2>2. V \in Nat
    BY <2>1, LayerSums
  <2>3. W = SumFunctionOnSet(w, C) + SumFunctionOnSet(w, active \ C)
    BY <1>1, <2>1, SumSplits DEF W
  <2> QED
    BY <2>2, <2>3 DEF rest
<1>13. after = left - SumFunctionOnSet(cap, C) /\ after \in Nat
  BY <1>10, <1>11
<1> HIDE DEF V, after
<1>14. left * V <= after * W
  <2> DEFINE a == SumFunctionOnSet(cap, C)
             b == SumFunctionOnSet(w, C)
  <2>1. a \in Nat /\ b \in Nat /\ a * W <= b * left
    BY <1>5, <1>6
  <2>2. W = b + V /\ after = left - a
    BY <1>12, <1>13
  <2> HIDE DEF a, b
  <2>3. after * W = left * W - a * W
    BY <1>3, <2>1, <2>2
  <2>4. left * W = left * V + b * left
    BY <1>3, <1>12, <2>1, <2>2
  <2>5. a * W \in Nat /\ b * left \in Nat /\ left * V \in Nat
    BY <1>3, <1>12, <2>1, ProductIsNat
  <2> QED
    BY <2>1, <2>3, <2>4, <2>5
<1>15. ASSUME NEW k \in DOMAIN cap \ rest
       PROVE  cap[k] * V <= after * w[k]
  <2>1. cap[k] * W <= left * w[k]
    <3>1. CASE k \in C
      <4>1. cap[k] * W <= w[k] * left /\ w[k] * left = left * w[k]
        BY <1>3, <1>4, <3>1 DEF Layer
      <4> QED
        BY <4>1
    <3>2. CASE k \notin C
      BY <3>2 DEF Stands, W, left
    <3> QED
      BY <3>1, <3>2
  <2>2. cap[k] \in Nat /\ w[k] \in Nat \ {0}
    BY DEF Layer
  <2>3. CASE V = 0
    BY <1>13, <2>2, <2>3, ProductIsNat
  <2>4. CASE V # 0
    <3>1. cap[k] \in Int /\ left \in Int /\ after \in Int /\ V \in Nat \ {0}
      BY <1>3, <1>12, <1>13, <2>2, <2>4
    <3> QED
      BY <1>3, <1>14, <2>1, <2>2, <3>1, RatioTransitive
  <2> QED
    BY <2>3, <2>4
<1> QED
  BY <1>13, <1>15 DEF Stands, C, V, after

\* What a layer gives: natural, no more than the caps, and together no more than
\* the capacity.
Fits(alloc, capacity, cap) ==
  /\ alloc \in [DOMAIN cap -> Nat]
  /\ \A k \in DOMAIN cap : alloc[k] <= cap[k]
  /\ SumFunctionOnSet(alloc, DOMAIN cap) <= capacity

LEMMA LevelFits ==
  ASSUME NEW capacity \in Nat, NEW w, NEW cap, Layer(w, cap),
         NEW active \in SUBSET DOMAIN cap,
         Stands(capacity, w, cap, active), ~ Saturates(capacity, w, cap, active)
  PROVE  Fits(Leveled(capacity, w, cap, active), capacity, cap)
<1> DEFINE S == DOMAIN cap
           W == SumFunctionOnSet(w, active)
           left == Left(capacity, cap, active)
           alloc == Leveled(capacity, w, cap, active)
<1>1. /\ DOMAIN alloc = S
      /\ \A k \in active : alloc[k] = (left * w[k]) \div W
      /\ \A k \in S \ active : alloc[k] = cap[k]
  BY DEF Leveled
<1>2. \A k \in S : cap[k] \in Nat /\ w[k] \in Nat \ {0}
  BY DEF Layer
<1>3. left \in Nat /\ W \in Nat /\ (active # {} => W # 0)
  BY LayerSums DEF Stands
<1> HIDE DEF alloc
<1>4. ASSUME NEW k \in active
      PROVE  alloc[k] \in Nat /\ alloc[k] <= cap[k] /\ alloc[k] * W <= w[k] * left
  <2>1. PICK m \in Cheapest(w, cap, active) : ~ (cap[m] * W <= left * w[m])
    BY SomeAreCheapest DEF Saturates
  <2>2. m \in active /\ cap[m] * w[k] <= cap[k] * w[m]
    BY <2>1 DEF Cheapest
  <2>3. /\ cap[m] \in Nat /\ w[m] \in Nat \ {0} /\ cap[k] \in Nat /\ w[k] \in Nat \ {0}
        /\ W \in Nat \ {0} /\ left \in Nat
    BY <1>2, <1>3, <2>2
  <2>4. alloc[k] = (left * w[k]) \div W
    BY <1>1
  <2> HIDE DEF W, left
  <2>5. left * w[m] <= cap[m] * W
    BY <2>1, <2>3
  <2>6. left * w[k] <= cap[k] * W
    BY <2>2, <2>3, <2>5, RatioTransitive
  <2>7. left * w[k] \in Nat /\ w[k] * left = left * w[k] /\ cap[k] * W \in Nat
    BY <2>3, ProductIsNat
  <2>8. alloc[k] \in Nat /\ alloc[k] * W <= left * w[k]
    BY <2>3, <2>4, <2>7, QuotientIsNat, QuotientFits
  <2>9. alloc[k] * W <= cap[k] * W
    <3>1. alloc[k] * W \in Nat
      BY <2>3, <2>8
    <3> QED
      BY <2>6, <2>7, <2>8, <3>1
  <2>10. alloc[k] <= cap[k]
    BY <2>3, <2>8, <2>9, Cancel
  <2> QED
    BY <2>7, <2>8, <2>10
<1>5. \A k \in S : alloc[k] \in Nat /\ alloc[k] <= cap[k]
  BY <1>1, <1>2, <1>4
<1>6. SumFunctionOnSet(alloc, S) <= capacity
  <2> DEFINE rest == S \ active
             a == SumFunctionOnSet(alloc, active)
             b == SumFunctionOnSet(alloc, rest)
  <2>1. /\ IsFiniteSet(S) /\ IsFiniteSet(active) /\ IsFiniteSet(rest)
        /\ active \in SUBSET S /\ rest \in SUBSET S
    BY FS_Subset DEF Layer
  <2>2. \A k \in S : alloc[k] \in Int /\ alloc[k] \in Nat
    BY <1>5
  <2>3. SumFunctionOnSet(alloc, S) = a + b
    BY <2>1, <2>2, SumSplits
  <2>4. a \in Nat
    <3>1. \A k \in active : alloc[k] \in Nat
      BY <2>2
    <3> QED
      BY <2>1, <3>1, SumIsNat
  <2>5. b = SumFunctionOnSet(cap, rest)
    <3>1. \A k \in rest : alloc[k] \in Int /\ alloc[k] = cap[k]
      BY <1>1, <2>2
    <3> HIDE DEF rest
    <3> QED
      BY <2>1, <3>1, SumIsSame
  <2>6. capacity = left + b /\ b \in Nat
    <3>1. SumFunctionOnSet(cap, rest) \in Nat
      BY LayerSums
    <3>2. left = capacity - SumFunctionOnSet(cap, rest)
      BY DEF Left
    <3> HIDE DEF left, rest, b
    <3> QED
      BY <1>3, <2>5, <3>1, <3>2
  <2>7. a <= left
    <3>1. CASE active = {}
      <4>1. a = 0
        BY <3>1, SumOfNone
      <4> QED
        BY <1>3, <4>1
    <3>2. CASE active # {}
      <4>1. \A k \in active : alloc[k] \in Int /\ w[k] \in Int /\ alloc[k] * W <= w[k] * left
        BY <1>2, <1>4
      <4>2. left \in Int /\ W \in Nat \ {0} /\ W \in Int
        BY <1>3, <3>2
      <4>3. a * W <= W * left
        <5> HIDE DEF left
        <5> QED
          BY <2>1, <4>1, <4>2, SumWeighed
      <4> HIDE DEF a, W, left
      <4>4. W * left = left * W
        BY <4>2
      <4> QED
        BY <2>4, <4>2, <4>3, <4>4, Cancel
    <3> QED
      BY <3>1, <3>2
  <2> HIDE DEF a, b, left
  <2> QED
    BY <1>3, <2>3, <2>4, <2>6, <2>7
<1>7. alloc \in [S -> Nat]
  <2>1. alloc = [k \in S |-> alloc[k]]
    BY DEF alloc, Leveled
  <2> QED
    BY <1>5, <2>1
<1> QED
  BY <1>5, <1>6, <1>7 DEF Fits, alloc

\* Nothing is lost but to rounding: all the caps are given, or, with one more for each
\* active item, all the capacity.
LEMMA LevelSpends ==
  ASSUME NEW capacity \in Nat, NEW w, NEW cap, Layer(w, cap),
         NEW active \in SUBSET DOMAIN cap, Stands(capacity, w, cap, active),
         NEW alloc, alloc = Leveled(capacity, w, cap, active),
         \A k \in DOMAIN cap : alloc[k] \in Nat
  PROVE  SumFunctionOnSet(alloc, DOMAIN cap) + Cardinality(DOMAIN cap)
           >= Smaller(capacity, SumFunctionOnSet(cap, DOMAIN cap))
<1> DEFINE S == DOMAIN cap
           rest == S \ active
           W == SumFunctionOnSet(w, active)
           left == Left(capacity, cap, active)
           a == SumFunctionOnSet(alloc, active)
           b == SumFunctionOnSet(alloc, rest)
           more == [k \in active |-> alloc[k] + 1]
           m == SumFunctionOnSet(more, active)
           n == Cardinality(active)
<1>1. /\ IsFiniteSet(S) /\ IsFiniteSet(active) /\ IsFiniteSet(rest)
      /\ active \in SUBSET S /\ rest \in SUBSET S
      /\ n \in Nat /\ Cardinality(S) \in Nat /\ n <= Cardinality(S)
  BY FS_Subset, FS_CardinalityType DEF Layer
<1>2. /\ \A k \in S : cap[k] \in Nat /\ cap[k] \in Int /\ w[k] \in Nat \ {0} /\ w[k] \in Int
      /\ \A k \in S : alloc[k] \in Nat /\ alloc[k] \in Int
  BY DEF Layer
<1>3. left \in Nat /\ W \in Nat /\ (active # {} => W # 0)
  BY LayerSums DEF Stands
<1>4. SumFunctionOnSet(alloc, S) = a + b /\ a \in Nat /\ b \in Nat
  <2>1. \A k \in active : alloc[k] \in Nat
    BY <1>2
  <2>2. \A k \in rest : alloc[k] \in Nat
    BY <1>2
  <2>3. a \in Nat /\ b \in Nat
    <3> HIDE DEF rest
    <3> QED
      BY <1>1, <2>1, <2>2, SumIsNat
  <2> QED
    BY <1>1, <1>2, <2>3, SumSplits
<1>5. b = SumFunctionOnSet(cap, rest) /\ left = capacity - b
  <2>1. \A k \in rest : alloc[k] \in Int /\ alloc[k] = cap[k]
    BY <1>2 DEF Leveled
  <2>2. b = SumFunctionOnSet(cap, rest)
    <3> HIDE DEF rest
    <3> QED
      BY <1>1, <2>1, SumIsSame
  <2> QED
    BY <2>2 DEF Left
<1>6. CASE active = {}
  <2>1. rest = S
    BY <1>6
  <2>2. a = 0
    BY <1>6, SumOfNone
  <2>3. SumFunctionOnSet(alloc, S) = SumFunctionOnSet(cap, S)
    BY <1>4, <1>5, <2>1, <2>2
  <2>4. SumFunctionOnSet(cap, S) \in Nat
    BY <1>4, <1>5, <2>1
  <2> HIDE DEF S, rest, a, b, n
  <2> QED
    BY <1>1, <2>3, <2>4 DEF Smaller, S
<1>7. CASE active # {}
  <2>1. ASSUME NEW k \in active
        PROVE  w[k] \in Int /\ more[k] \in Int /\ w[k] * left <= more[k] * W
    <3>1. alloc[k] = (left * w[k]) \div W /\ more[k] = alloc[k] + 1
      BY DEF Leveled
    <3>2. w[k] \in Nat /\ alloc[k] \in Nat /\ W \in Nat \ {0}
      BY <1>2, <1>3, <1>7
    <3> HIDE DEF W, left, more
    <3>3. left * w[k] \in Nat /\ w[k] * left = left * w[k]
      BY <1>3, <3>2, ProductIsNat
    <3>4. left * w[k] <= ((left * w[k]) \div W + 1) * W
      BY <3>2, <3>3, QuotientLoses
    <3>5. w[k] * left <= more[k] * W
      BY <3>1, <3>3, <3>4
    <3> QED
      BY <3>1, <3>2, <3>5
  <2>2. W * left <= m * W
    <3>1. left \in Int /\ W \in Int
      BY <1>3
    <3> HIDE DEF W, left, more
    <3> QED
      BY <1>1, <2>1, <3>1, SumWeighed DEF W
  <2>3. m = a + n
    <3>1. \A k \in active : alloc[k] \in Int /\ more[k] = alloc[k] + 1
      BY <1>2
    <3>2. m = a + 1 * n
      <4> HIDE DEF more
      <4> QED
        BY <1>1, <3>1, SumPlus
    <3> QED
      BY <1>1, <3>2
  <2> HIDE DEF S, rest, W, left, a, b, m, n
  <2>4. left <= m
    <3>1. W \in Nat \ {0} /\ left \in Int /\ m \in Int /\ left * W = W * left
      BY <1>1, <1>3, <1>4, <1>7, <2>3
    <3>2. left * W <= m * W
      BY <2>2, <3>1
    <3> QED
      BY <3>1, <3>2, Cancel
  <2>5. SumFunctionOnSet(alloc, S) + Cardinality(S) >= capacity
    BY <1>1, <1>3, <1>4, <1>5, <2>3, <2>4
  <2>6. SumFunctionOnSet(cap, S) \in Nat
    <3>1. \A k \in S : cap[k] \in Nat
      BY <1>2
    <3> QED
      BY <1>1, <3>1, SumIsNat
  <2> QED
    BY <1>1, <1>4, <2>5, <2>6 DEF Smaller, S
<1> QED
  BY <1>6, <1>7

\* Where the rise ends: some are saturated, the others share what is left.
LEMMA FillEnds ==
  ASSUME NEW capacity \in Nat, NEW w, NEW cap, Layer(w, cap)
  PROVE  \E active \in SUBSET DOMAIN cap :
           /\ Stands(capacity, w, cap, active) /\ ~ Saturates(capacity, w, cap, active)
           /\ Fill(capacity, w, cap) = Leveled(capacity, w, cap, active)
<1> DEFINE S == DOMAIN cap
           wanting == {k \in S : cap[k] > 0}
<1>1. IsFiniteSet(S)
  BY DEF Layer
<1>2. PICK g : Rises(capacity, w, cap, g, SUBSET S) /\ Fill(capacity, w, cap) = g[wanting]
  BY <1>1, FillRises
<1> DEFINE Ended(U) == \E active \in SUBSET S :
                         /\ Stands(capacity, w, cap, active)
                         /\ ~ Saturates(capacity, w, cap, active)
                         /\ g[U] = Leveled(capacity, w, cap, active)
           F == {U \in SUBSET S : Stands(capacity, w, cap, U) => Ended(U)}
<1>3. ASSUME NEW U \in SUBSET S, \A V \in SUBSET U : V # U => V \in F
      PROVE  U \in F
  <2> SUFFICES ASSUME Stands(capacity, w, cap, U) PROVE Ended(U)
    OBVIOUS
  <2>1. CASE Saturates(capacity, w, cap, U)
    <3> DEFINE V == U \ Cheapest(w, cap, U)
    <3>1. g[U] = g[V]
      BY <1>2, <2>1 DEF Rises
    <3>2. Stands(capacity, w, cap, V)
      BY <2>1, SaturatedIsPaid
    <3>3. V \in SUBSET U /\ V # U
      BY <2>1, CheapestSaturate DEF Cheapest
    <3> QED
      BY <1>3, <3>1, <3>2, <3>3
  <2>2. CASE ~ Saturates(capacity, w, cap, U)
    <3>1. g[U] = Leveled(capacity, w, cap, U)
      BY <1>2, <2>2 DEF Rises
    <3> QED
      BY <2>2, <3>1
  <2> QED
    BY <2>1, <2>2
<1>4. wanting \in F
  <2>1. wanting \in SUBSET S
    OBVIOUS
  <2>2. \A U \in SUBSET S : IsFiniteSet(U)
    BY <1>1, FS_Subset
  <2>3. \A U \in SUBSET wanting : (\A V \in SUBSET U : V # U => V \in F) => U \in F
    BY <1>3
  <2> HIDE DEF F, wanting
  <2> QED
    BY <2>1, <2>2, <2>3, SubsetInduction
<1>5. Stands(capacity, w, cap, wanting)
  <2> DEFINE idle == S \ wanting
  <2>1. \A k \in idle : cap[k] = 0 /\ w[k] \in Nat
    BY DEF Layer
  <2>2. IsFiniteSet(idle) /\ Cardinality(idle) \in Nat
    BY <1>1, FS_Subset, FS_CardinalityType
  <2>3. SumFunctionOnSet(w, wanting) \in Nat
    <3>1. wanting \in SUBSET S
      OBVIOUS
    <3> HIDE DEF wanting
    <3> QED
      BY <3>1, LayerSums
  <2> HIDE DEF idle
  <2>4. SumFunctionOnSet(cap, idle) = 0 * Cardinality(idle)
    BY <2>1, <2>2, SumOfConstant
  <2>5. SumFunctionOnSet(cap, idle) = 0
    BY <2>2, <2>4
  <2>6. Left(capacity, cap, wanting) = capacity
    BY <2>5 DEF Left, idle
  <2> HIDE DEF wanting
  <2>7. ASSUME NEW k \in S \ wanting
        PROVE  cap[k] * SumFunctionOnSet(w, wanting) <= capacity * w[k]
    <3>1. cap[k] = 0 /\ w[k] \in Nat
      BY <2>1 DEF idle
    <3>2. capacity * w[k] \in Nat
      BY <3>1, ProductIsNat
    <3> QED
      BY <2>3, <3>1, <3>2
  <2> QED
    BY <2>6, <2>7 DEF Stands
<1> QED
  BY <1>2, <1>4, <1>5

\* The water-filling of a layer fits, whatever its weights and caps.
THEOREM FillFits ==
  ASSUME NEW capacity \in Nat, NEW w, NEW cap, Layer(w, cap)
  PROVE  Fits(Fill(capacity, w, cap), capacity, cap)
BY FillEnds, LevelFits

\* And it leaves nothing but what is rounded off: at most one per item, unless all
\* the caps are given.
THEOREM FillSpends ==
  ASSUME NEW capacity \in Nat, NEW w, NEW cap, Layer(w, cap)
  PROVE  SumFunctionOnSet(Fill(capacity, w, cap), DOMAIN cap) + Cardinality(DOMAIN cap)
           >= Smaller(capacity, SumFunctionOnSet(cap, DOMAIN cap))
<1>1. PICK active \in SUBSET DOMAIN cap :
        /\ Stands(capacity, w, cap, active)
        /\ Fill(capacity, w, cap) = Leveled(capacity, w, cap, active)
  BY FillEnds
<1>2. \A k \in DOMAIN cap : Fill(capacity, w, cap)[k] \in Nat
  BY FillFits DEF Fits
<1> QED
  BY <1>1, <1>2, LevelSpends

------------------------------------------------------------------------------
(* Three layers: what they grant fits *)

\* A policy gives weights and a MaxRate to whoever is wanted for.
Covers(pol, want) ==
  \A f \in DOMAIN want :
    /\ pol.weight[DstOf[f]] \in Nat \ {0} /\ pol.maxRate[DstOf[f]] \in Nat
    /\ pol.clsWeight[DstOf[f]][ClsOf[f]] \in Nat \ {0}
    /\ pol.fsWeight[f] \in Nat \ {0}

Wants(want) == IsFiniteSet(DOMAIN want) /\ \A f \in DOMAIN want : want[f] \in Nat

LEMMA PartsAreFinite ==
  ASSUME NEW want, Wants(want)
  PROVE  /\ IsFiniteSet(VmsOf(want))
         /\ \A vm : IsFiniteSet(ClassesOf(want, vm))
         /\ \A vm, c : IsFiniteSet(InClass(want, vm, c))
         /\ \A vm : IsFiniteSet({f \in DOMAIN want : DstOf[f] = vm})
<1>1. ASSUME NEW U \in SUBSET DOMAIN want
      PROVE  IsFiniteSet(U) /\ IsFiniteSet({DstOf[f] : f \in U}) /\ IsFiniteSet({ClsOf[f] : f \in U})
  <2>1. IsFiniteSet(U)
    BY FS_Subset DEF Wants
  <2> QED
    BY <2>1, ValuesAreFinite
<1>2. /\ \A vm : {f \in DOMAIN want : DstOf[f] = vm} \in SUBSET DOMAIN want
      /\ \A vm, c : InClass(want, vm, c) \in SUBSET DOMAIN want
  BY DEF InClass
<1>3. \A vm : IsFiniteSet({f \in DOMAIN want : DstOf[f] = vm}) /\ IsFiniteSet(ClassesOf(want, vm))
  BY <1>1, <1>2 DEF ClassesOf
<1>4. IsFiniteSet(VmsOf(want))
  BY <1>1 DEF VmsOf
<1>5. \A vm, c : IsFiniteSet(InClass(want, vm, c))
  BY <1>1, <1>2
<1> QED
  BY <1>3, <1>4, <1>5

LEMMA VmLayer ==
  ASSUME NEW want, Wants(want), NEW pol, Covers(pol, want)
  PROVE  /\ Layer(VmWeights(pol, want), VmCaps(pol, want))
         /\ DOMAIN VmCaps(pol, want) = VmsOf(want)
         /\ \A vm \in VmsOf(want) : /\ pol.maxRate[vm] \in Nat
                                    /\ VmCaps(pol, want)[vm] <= pol.maxRate[vm]
<1>1. ASSUME NEW vm \in VmsOf(want)
      PROVE  /\ pol.weight[vm] \in Nat \ {0} /\ pol.maxRate[vm] \in Nat
             /\ VmDemand(want, vm) \in Nat
  <2>1. pol.weight[vm] \in Nat \ {0} /\ pol.maxRate[vm] \in Nat
    BY DEF VmsOf, Covers
  <2>2. VmDemand(want, vm) \in Nat
    <3> DEFINE S == {f \in DOMAIN want : DstOf[f] = vm}
    <3>1. IsFiniteSet(S) /\ \A f \in S : want[f] \in Nat
      BY PartsAreFinite DEF Wants
    <3> HIDE DEF S
    <3>2. SumFunctionOnSet(want, S) \in Nat
      BY <3>1, SumIsNat
    <3> QED
      BY <3>2 DEF VmDemand, S
  <2> QED
    BY <2>1, <2>2
<1>2. IsFiniteSet(VmsOf(want))
  BY PartsAreFinite
<1> QED
  BY <1>1, <1>2 DEF Layer, VmWeights, VmCaps, Smaller

LEMMA ClassLayer ==
  ASSUME NEW want, Wants(want), NEW pol, Covers(pol, want), NEW vm \in VmsOf(want)
  PROVE  /\ Layer(ClassWeights(pol, want, vm), ClassCaps(want, vm))
         /\ DOMAIN ClassCaps(want, vm) = ClassesOf(want, vm)
<1>1. ASSUME NEW c \in ClassesOf(want, vm)
      PROVE  /\ pol.clsWeight[vm][c] \in Nat \ {0}
             /\ SumFunctionOnSet(want, InClass(want, vm, c)) \in Nat
  <2>1. pol.clsWeight[vm][c] \in Nat \ {0}
    BY DEF ClassesOf, Covers
  <2>2. /\ IsFiniteSet(InClass(want, vm, c))
        /\ \A f \in InClass(want, vm, c) : want[f] \in Nat
    <3>1. IsFiniteSet(InClass(want, vm, c))
      BY PartsAreFinite
    <3>2. \A f \in InClass(want, vm, c) : want[f] \in Nat
      BY DEF Wants, InClass
    <3> QED
      BY <3>1, <3>2
  <2>3. SumFunctionOnSet(want, InClass(want, vm, c)) \in Nat
    BY <2>2, SumIsNat
  <2> QED
    BY <2>1, <2>3
<1>2. IsFiniteSet(ClassesOf(want, vm))
  BY PartsAreFinite
<1> QED
  BY <1>1, <1>2 DEF Layer, ClassWeights, ClassCaps

LEMMA LeafLayer ==
  ASSUME NEW want, Wants(want), NEW pol, Covers(pol, want), NEW vm, NEW c
  PROVE  /\ Layer(LeafWeights(pol, want, vm, c), LeafCaps(want, vm, c))
         /\ DOMAIN LeafCaps(want, vm, c) = InClass(want, vm, c)
         /\ \A f \in InClass(want, vm, c) : LeafCaps(want, vm, c)[f] = want[f]
<1>1. IsFiniteSet(InClass(want, vm, c))
  BY PartsAreFinite
<1>2. \A f \in InClass(want, vm, c) : want[f] \in Nat /\ pol.fsWeight[f] \in Nat \ {0}
  BY DEF InClass, Wants, Covers
<1> QED
  BY <1>1, <1>2 DEF Layer, LeafWeights, LeafCaps

\* Where a flow-set is in the tree.
LEMMA Placed ==
  ASSUME NEW want, NEW f \in DOMAIN want
  PROVE  /\ DstOf[f] \in VmsOf(want)
         /\ ClsOf[f] \in ClassesOf(want, DstOf[f])
         /\ f \in InClass(want, DstOf[f], ClsOf[f])
BY DEF VmsOf, ClassesOf, InClass

\* Grants of the three layers are natural, nobody is granted more than it wants, no VM
\* more than its MaxRate, and all of them no more than the root has.
THEOREM GrantsAreWithin ==
  ASSUME NEW root \in Nat, NEW want, Wants(want), NEW pol, Covers(pol, want)
  PROVE  LET e == Grants(root, pol, want)
         IN /\ e \in [DOMAIN want -> Nat]
            /\ \A f \in DOMAIN want : e[f] <= want[f]
            /\ \A vm \in VmsOf(want) :
                 SumFunctionOnSet(e, {f \in DOMAIN want : DstOf[f] = vm}) <= pol.maxRate[vm]
            /\ SumFunctionOnSet(e, DOMAIN want) <= root
<1> DEFINE vms == Fill(root, VmWeights(pol, want), VmCaps(pol, want))
           classes == [vm \in VmsOf(want) |->
                         Fill(vms[vm], ClassWeights(pol, want, vm), ClassCaps(want, vm))]
           leaves == [vm \in VmsOf(want) |-> [c \in ClassesOf(want, vm) |->
                        Fill(classes[vm][c], LeafWeights(pol, want, vm, c),
                             LeafCaps(want, vm, c))]]
           e == [f \in DOMAIN want |-> leaves[DstOf[f]][ClsOf[f]][f]]
           Own(vm) == {f \in DOMAIN want : DstOf[f] = vm}
<1>1. Grants(root, pol, want) = e
  BY DEF Grants
<1>2. Fits(vms, root, VmCaps(pol, want))
  BY VmLayer, FillFits
<1>3. /\ \A vm \in VmsOf(want) : vms[vm] \in Nat /\ vms[vm] <= pol.maxRate[vm] /\ pol.maxRate[vm] \in Nat
      /\ SumFunctionOnSet(vms, VmsOf(want)) <= root
  <2>1. /\ DOMAIN VmCaps(pol, want) = VmsOf(want)
        /\ \A vm \in VmsOf(want) :
             /\ VmCaps(pol, want)[vm] \in Nat /\ pol.maxRate[vm] \in Nat
             /\ VmCaps(pol, want)[vm] <= pol.maxRate[vm]
    BY VmLayer DEF Layer
  <2> HIDE DEF vms
  <2> QED
    BY <1>2, <2>1 DEF Fits
<1>4. ASSUME NEW vm \in VmsOf(want)
      PROVE  /\ \A c \in ClassesOf(want, vm) : classes[vm][c] \in Nat
             /\ SumFunctionOnSet(classes[vm], ClassesOf(want, vm)) <= vms[vm]
  <2>1. classes[vm] = Fill(vms[vm], ClassWeights(pol, want, vm), ClassCaps(want, vm))
    OBVIOUS
  <2> HIDE DEF classes, vms
  <2>2. Fits(classes[vm], vms[vm], ClassCaps(want, vm))
    BY <1>3, <2>1, ClassLayer, FillFits
  <2> QED
    BY <2>2, ClassLayer DEF Fits
<1>5. ASSUME NEW vm \in VmsOf(want), NEW c \in ClassesOf(want, vm)
      PROVE  /\ \A f \in InClass(want, vm, c) : leaves[vm][c][f] \in Nat /\ leaves[vm][c][f] <= want[f]
             /\ SumFunctionOnSet(leaves[vm][c], InClass(want, vm, c)) <= classes[vm][c]
  <2>1. leaves[vm][c] = Fill(classes[vm][c], LeafWeights(pol, want, vm, c), LeafCaps(want, vm, c))
    OBVIOUS
  <2> HIDE DEF leaves, classes, vms
  <2>2. Fits(leaves[vm][c], classes[vm][c], LeafCaps(want, vm, c))
    BY <1>4, <2>1, LeafLayer, FillFits
  <2> QED
    BY <2>2, LeafLayer DEF Fits
<1>6. /\ DOMAIN e = DOMAIN want
      /\ \A f \in DOMAIN want : e[f] = leaves[DstOf[f]][ClsOf[f]][f]
  OBVIOUS
<1> HIDE DEF leaves, classes, vms
<1>7. \A f \in DOMAIN want : e[f] \in Nat /\ e[f] <= want[f]
  BY <1>5, <1>6, Placed
<1>8. e \in [DOMAIN want -> Nat]
  BY <1>7
<1> HIDE DEF e
<1>9. /\ IsFiniteSet(VmsOf(want)) /\ IsFiniteSet(DOMAIN want)
      /\ \A vm : IsFiniteSet(ClassesOf(want, vm)) /\ IsFiniteSet(Own(vm))
      /\ \A vm, c : IsFiniteSet(InClass(want, vm, c))
  BY PartsAreFinite DEF Wants
<1>10. ASSUME NEW vm \in VmsOf(want)
       PROVE  SumFunctionOnSet(e, Own(vm)) <= vms[vm]
  <2>1. ASSUME NEW c \in ClassesOf(want, vm)
        PROVE  SumFunctionOnSet(e, {f \in Own(vm) : ClsOf[f] = c}) <= classes[vm][c]
    <3>1. {f \in Own(vm) : ClsOf[f] = c} = InClass(want, vm, c)
      BY DEF InClass
    <3>2. \A f \in InClass(want, vm, c) : e[f] \in Int /\ e[f] = leaves[vm][c][f]
      BY <1>6, <1>7 DEF InClass
    <3>3. SumFunctionOnSet(e, InClass(want, vm, c)) = SumFunctionOnSet(leaves[vm][c], InClass(want, vm, c))
      BY <1>9, <3>2, SumIsSame
    <3> QED
      BY <1>5, <3>1, <3>3
  <2>2. \A f \in Own(vm) : e[f] \in Int /\ ClsOf[f] \in ClassesOf(want, vm)
    BY <1>7, Placed
  <2>3. \A c \in ClassesOf(want, vm) : classes[vm][c] \in Int
    BY <1>4
  <2>4. IsFiniteSet(Own(vm)) /\ IsFiniteSet(ClassesOf(want, vm))
    BY <1>9
  <2> HIDE DEF Own
  <2>5. SumFunctionOnSet(e, Own(vm)) <= SumFunctionOnSet(classes[vm], ClassesOf(want, vm))
    BY <2>1, <2>2, <2>3, <2>4, SumByParts
  <2>6. /\ SumFunctionOnSet(e, Own(vm)) \in Int
        /\ SumFunctionOnSet(classes[vm], ClassesOf(want, vm)) \in Int
    BY <2>2, <2>3, <2>4, SumIsInt
  <2> QED
    BY <1>3, <1>4, <2>5, <2>6
<1>11. SumFunctionOnSet(e, DOMAIN want) <= root
  <2>1. \A f \in DOMAIN want : e[f] \in Int /\ DstOf[f] \in VmsOf(want)
    BY <1>7, Placed
  <2>2. \A vm \in VmsOf(want) : vms[vm] \in Int
    BY <1>3
  <2>3. \A vm \in VmsOf(want) : SumFunctionOnSet(e, {f \in DOMAIN want : DstOf[f] = vm}) <= vms[vm]
    BY <1>10
  <2>4. SumFunctionOnSet(e, DOMAIN want) <= SumFunctionOnSet(vms, VmsOf(want))
    BY <1>9, <2>1, <2>2, <2>3, SumByParts
  <2>5. SumFunctionOnSet(e, DOMAIN want) \in Int /\ SumFunctionOnSet(vms, VmsOf(want)) \in Int
    BY <1>9, <2>1, <2>2, SumIsInt
  <2> QED
    BY <1>3, <2>4, <2>5
<1>12. ASSUME NEW vm \in VmsOf(want)
       PROVE  SumFunctionOnSet(e, {f \in DOMAIN want : DstOf[f] = vm}) <= pol.maxRate[vm]
  <2>1. \A f \in Own(vm) : e[f] \in Int
    BY <1>7
  <2>2. IsFiniteSet(Own(vm))
    BY <1>9
  <2> HIDE DEF Own
  <2>3. SumFunctionOnSet(e, Own(vm)) \in Int
    BY <2>1, <2>2, SumIsInt
  <2>4. SumFunctionOnSet(e, Own(vm)) <= pol.maxRate[vm]
    BY <1>3, <1>10, <2>3
  <2> QED
    BY <2>4 DEF Own
<1> QED
  BY <1>1, <1>7, <1>8, <1>11, <1>12

------------------------------------------------------------------------------
(* One layer: consumption at a level *)

LEMMA MaxIsGreatest ==
  ASSUME NEW S \in SUBSET Nat, IsFiniteSet(S), S # {}
  PROVE  Max(S) \in S /\ \A m \in S : Max(S) >= m
BY GreatestNatural DEF Max

LEMMA MinIsLeast ==
  ASSUME NEW S \in SUBSET Nat, S # {}
  PROVE  Min(S) \in S /\ \A m \in S : Min(S) <= m
BY LeastNatural DEF Min

\* Levels are fine enough for the weights.
Fine(w, cap) == \A k \in DOMAIN cap : LevelUnit % w[k] = 0

\* What every item takes at a level.
Taken(level, w, cap) == [i \in DOMAIN cap |-> Smaller(cap[i] * LevelUnit, w[i] * level)]

LEMMA TakenIsNat ==
  ASSUME NEW w, NEW cap, Layer(w, cap), NEW level \in Nat
  PROVE  /\ \A i \in DOMAIN cap : Taken(level, w, cap)[i] \in Nat
         /\ \A U \in SUBSET DOMAIN cap :
              /\ IsFiniteSet(U)
              /\ SumFunctionOnSet(Taken(level, w, cap), U) \in Nat
              /\ SumFunctionOnSet(Taken(level, w, cap), U)
                   <= SumFunctionOnSet(Taken(level, w, cap), DOMAIN cap)
              /\ level = 0 => SumFunctionOnSet(Taken(level, w, cap), U) = 0
<1> DEFINE S == DOMAIN cap
           T == Taken(level, w, cap)
<1>1. ASSUME NEW i \in S PROVE T[i] \in Nat /\ (level = 0 => T[i] = 0)
  <2>1. cap[i] \in Nat /\ w[i] \in Nat /\ LevelUnit \in Nat
    BY WaterfillAssumption DEF Layer
  <2>2. cap[i] * LevelUnit \in Nat /\ w[i] * level \in Nat /\ (level = 0 => w[i] * level = 0)
    BY <2>1, ProductIsNat
  <2>3. T[i] = Smaller(cap[i] * LevelUnit, w[i] * level)
    BY DEF Taken
  <2> QED
    BY <2>2, <2>3 DEF Smaller
<1>2. IsFiniteSet(S)
  BY DEF Layer
<1> HIDE DEF T
<1>3. ASSUME NEW U \in SUBSET S
      PROVE  /\ IsFiniteSet(U) /\ SumFunctionOnSet(T, U) \in Nat
             /\ SumFunctionOnSet(T, U) <= SumFunctionOnSet(T, S)
             /\ level = 0 => SumFunctionOnSet(T, U) = 0
  <2>1. IsFiniteSet(U) /\ Cardinality(U) \in Nat
    BY <1>2, FS_Subset, FS_CardinalityType
  <2>2. SumFunctionOnSet(T, U) \in Nat
    BY <1>1, <2>1, SumIsNat
  <2>3. SumFunctionOnSet(T, U) <= SumFunctionOnSet(T, S)
    BY <1>1, <1>2, SumIsNat
  <2>4. ASSUME level = 0 PROVE SumFunctionOnSet(T, U) = 0
    <3>1. \A i \in U : T[i] = 0
      BY <1>1, <2>4
    <3>2. SumFunctionOnSet(T, U) = 0 * Cardinality(U)
      BY <2>1, <3>1, SumOfConstant
    <3> QED
      BY <2>1, <3>2
  <2> QED
    BY <2>1, <2>2, <2>3, <2>4
<1> QED
  BY <1>1, <1>3 DEF T

\* The code's prefix sums are the sum of what every item takes.
LEMMA ConsumedIsTaken ==
  ASSUME NEW w, NEW cap, Layer(w, cap), NEW level \in Nat
  PROVE  Consumed(level, w, cap) = SumFunctionOnSet(Taken(level, w, cap), DOMAIN cap)
<1> DEFINE S == DOMAIN cap
           T == Taken(level, w, cap)
           full == {k \in S : cap[k] * LevelUnit <= w[k] * level}
           open == S \ full
<1>1. /\ Consumed(level, w, cap) =
           SumFunctionOnSet(cap, full) * LevelUnit + SumFunctionOnSet(w, open) * level
      /\ full \in SUBSET S /\ open \in SUBSET S /\ S \ full = open
  BY DEF Consumed
<1>2. /\ \A i \in S : cap[i] \in Nat /\ w[i] \in Nat
      /\ LevelUnit \in Nat /\ IsFiniteSet(S)
  BY WaterfillAssumption DEF Layer
<1>3. ASSUME NEW i \in full PROVE cap[i] \in Int /\ T[i] = cap[i] * LevelUnit
  BY <1>2 DEF Taken, Smaller
<1>4. ASSUME NEW i \in open PROVE w[i] \in Int /\ T[i] = w[i] * level
  BY <1>2 DEF Taken, Smaller
<1>5. \A i \in S : T[i] \in Int
  <2>1. \A i \in S : T[i] \in Nat
    BY TakenIsNat
  <2> HIDE DEF T
  <2> QED
    BY <2>1
<1> HIDE DEF T, full, open
<1>6. IsFiniteSet(full) /\ IsFiniteSet(open)
  BY <1>1, <1>2, FS_Subset
<1>7. SumFunctionOnSet(T, full) = SumFunctionOnSet(cap, full) * LevelUnit
  BY <1>2, <1>3, <1>6, SumTimes
<1>8. SumFunctionOnSet(T, open) = SumFunctionOnSet(w, open) * level
  BY <1>4, <1>6, SumTimes
<1>9. SumFunctionOnSet(T, S) = SumFunctionOnSet(T, full) + SumFunctionOnSet(T, S \ full)
  BY <1>1, <1>2, <1>5, SumSplits
<1> QED
  BY <1>1, <1>7, <1>8, <1>9 DEF T

LEMMA CappedIsNat ==
  ASSUME NEW r \in Nat, NEW n \in Nat
  PROVE  /\ Capped(r, n) \in Nat /\ Capped(r, n) <= n
         /\ r # Unlimited => Capped(r, n) <= r * LevelUnit
         /\ n = 0 => Capped(r, n) = 0
<1>1. r * LevelUnit \in Nat
  BY WaterfillAssumption, ProductIsNat
<1> QED
  BY <1>1 DEF Capped, Smaller

\* Consumption at a level when the cap of k is repl.
ConsumedWith(k, level, w, cap, repl) ==
  Consumed(level, w, cap) - Smaller(cap[k] * LevelUnit, w[k] * level) + Capped(repl, w[k] * level)

\* Its two parts: the items whose cap is in force, and k.
OthersTake(k, level, w, cap) == SumFunctionOnSet(Taken(level, w, cap), DOMAIN cap \ {k})
OwnTakes(k, level, w, repl) == Capped(repl, w[k] * level)

LEMMA ConsumedWithIsTaken ==
  ASSUME NEW w, NEW cap, Layer(w, cap), NEW k \in DOMAIN cap, NEW repl \in Nat, NEW level \in Nat
  PROVE  /\ ConsumedWith(k, level, w, cap, repl) =
              OthersTake(k, level, w, cap) + OwnTakes(k, level, w, repl)
         /\ OthersTake(k, level, w, cap) \in Nat
         /\ OwnTakes(k, level, w, repl) \in Nat
         /\ SumFunctionOnSet(Taken(level, w, cap), DOMAIN cap) =
              Taken(level, w, cap)[k] + OthersTake(k, level, w, cap)
         /\ ConsumedWith(k, level, w, cap, repl) \in Nat
         /\ level = 0 => ConsumedWith(k, level, w, cap, repl) = 0
<1> DEFINE S == DOMAIN cap
           T == Taken(level, w, cap)
           others == SumFunctionOnSet(T, S \ {k})
           own == Capped(repl, w[k] * level)
<1>1. /\ IsFiniteSet(S) /\ \A i \in S : T[i] \in Nat
      /\ others \in Nat /\ (level = 0 => others = 0)
  <2>1. S \ {k} \in SUBSET S
    OBVIOUS
  <2> HIDE DEF T
  <2>2. others \in Nat /\ (level = 0 => others = 0)
    BY <2>1, TakenIsNat DEF T
  <2>3. \A i \in S : T[i] \in Nat
    BY TakenIsNat DEF T
  <2> QED
    BY <2>2, <2>3 DEF Layer
<1>2. w[k] * level \in Nat /\ (level = 0 => w[k] * level = 0)
  BY DEF Layer
<1>3. own \in Nat /\ (level = 0 => own = 0)
  BY <1>2, CappedIsNat
<1>4. T[k] = Smaller(cap[k] * LevelUnit, w[k] * level)
  BY DEF Taken
<1>5. ConsumedWith(k, level, w, cap, repl) = SumFunctionOnSet(T, S) - T[k] + own
  BY <1>4, ConsumedIsTaken DEF ConsumedWith
<1> HIDE DEF T
<1>6. SumFunctionOnSet(T, S) = T[k] + others
  BY <1>1, SumWithout
<1> HIDE DEF own, others
<1>7. ConsumedWith(k, level, w, cap, repl) = others + own
  BY <1>1, <1>3, <1>5, <1>6
<1>8. others = OthersTake(k, level, w, cap) /\ own = OwnTakes(k, level, w, repl)
  BY DEF others, own, T, OthersTake, OwnTakes
<1> QED
  BY <1>1, <1>3, <1>6, <1>7, <1>8 DEF T

\* Between two neighbours of the grid the consumption is a straight line.
OthersOnLine(c, s, k, low, high, w, cap) ==
  \A t \in low .. high : OthersTake(k, t, w, cap) = c + s * t
OwnOnLine(c, s, k, low, high, w, repl) ==
  \A t \in low .. high : OwnTakes(k, t, w, repl) = c + s * t

LEMMA OthersAreStraight ==
  ASSUME NEW w, NEW cap, Layer(w, cap), NEW k \in DOMAIN cap, NEW low \in Nat, NEW high \in Nat,
         \A i \in DOMAIN cap \ {k} :
           cap[i] * LevelUnit <= w[i] * low \/ w[i] * high <= cap[i] * LevelUnit
  PROVE  \E c, s \in Nat : OthersOnLine(c, s, k, low, high, w, cap)
<1> DEFINE U == DOMAIN cap \ {k}
           full == {i \in U : cap[i] * LevelUnit <= w[i] * low}
           open == U \ full
           c == SumFunctionOnSet(cap, full) * LevelUnit
           s == SumFunctionOnSet(w, open)
<1>1. /\ \A i \in U : cap[i] \in Nat /\ w[i] \in Nat
      /\ LevelUnit \in Nat
  BY WaterfillAssumption DEF Layer
<1>2. /\ full \in SUBSET DOMAIN cap /\ open \in SUBSET DOMAIN cap
      /\ full \in SUBSET U /\ U \ full = open
  OBVIOUS
<1>3. c \in Nat /\ s \in Nat /\ IsFiniteSet(full) /\ IsFiniteSet(open) /\ IsFiniteSet(U)
  <2> HIDE DEF full, open
  <2>1. /\ SumFunctionOnSet(cap, full) \in Nat /\ s \in Nat
        /\ IsFiniteSet(full) /\ IsFiniteSet(open) /\ IsFiniteSet(U)
    BY <1>2, LayerSums
  <2> QED
    BY <1>1, <2>1, ProductIsNat
<1>4. ASSUME NEW t \in low .. high
      PROVE  SumFunctionOnSet(Taken(t, w, cap), U) = c + s * t
  <2> DEFINE T == Taken(t, w, cap)
  <2>1. t \in Nat /\ low <= t /\ t <= high
    OBVIOUS
  <2>2. ASSUME NEW i \in full PROVE cap[i] \in Int /\ T[i] = cap[i] * LevelUnit
    <3>1. cap[i] \in Nat /\ w[i] \in Nat /\ cap[i] * LevelUnit <= w[i] * low
      BY <1>1
    <3>2. low * w[i] <= t * w[i]
      BY <2>1, <3>1, Scale
    <3>3. cap[i] * LevelUnit <= w[i] * t
      BY <1>1, <2>1, <3>1, <3>2
    <3>4. T[i] = Smaller(cap[i] * LevelUnit, w[i] * t)
      BY DEF Taken
    <3> QED
      BY <3>1, <3>3, <3>4 DEF Smaller
  <2>3. ASSUME NEW i \in open PROVE w[i] \in Int /\ T[i] = w[i] * t
    <3>1. cap[i] \in Nat /\ w[i] \in Nat /\ w[i] * high <= cap[i] * LevelUnit
      BY <1>1
    <3>2. t * w[i] <= high * w[i]
      BY <2>1, <3>1, Scale
    <3>3. w[i] * t <= cap[i] * LevelUnit /\ w[i] * t \in Nat /\ cap[i] * LevelUnit \in Nat
      BY <1>1, <2>1, <3>1, <3>2
    <3>4. T[i] = Smaller(cap[i] * LevelUnit, w[i] * t)
      BY DEF Taken
    <3> QED
      BY <3>1, <3>3, <3>4 DEF Smaller
  <2>4. \A i \in U : T[i] \in Int
    <3>1. \A i \in DOMAIN cap : T[i] \in Nat
      BY <2>1, TakenIsNat
    <3> HIDE DEF T
    <3> QED
      BY <3>1
  <2> HIDE DEF T, full, open
  <2>5. SumFunctionOnSet(T, full) = c
    BY <1>1, <1>3, <2>2, SumTimes
  <2>6. SumFunctionOnSet(T, open) = s * t
    BY <1>3, <2>1, <2>3, SumTimes
  <2>7. SumFunctionOnSet(T, U) = SumFunctionOnSet(T, full) + SumFunctionOnSet(T, U \ full)
    BY <1>2, <1>3, <2>4, SumSplits
  <2>8. SumFunctionOnSet(T, U) = c + s * t
    BY <1>2, <2>5, <2>6, <2>7
  <2> QED
    BY <2>8 DEF T
<1> HIDE DEF c, s
<1>5. OthersOnLine(c, s, k, low, high, w, cap)
  BY <1>4 DEF OthersOnLine, OthersTake
<1> QED
  BY <1>3, <1>5

LEMMA OwnIsStraight ==
  ASSUME NEW w, NEW k, w[k] \in Nat, NEW r \in Nat, NEW low \in Nat, NEW high \in Nat,
         r = Unlimited \/ r * LevelUnit <= w[k] * low \/ w[k] * high <= r * LevelUnit
  PROVE  \E c, s \in Nat : OwnOnLine(c, s, k, low, high, w, r)
<1> DEFINE v == w[k]
<1>1. LevelUnit \in Nat /\ r * LevelUnit \in Nat
  BY WaterfillAssumption, ProductIsNat
<1>2. ASSUME NEW t \in low .. high
      PROVE  /\ t \in Nat /\ v * t \in Nat
             /\ v * low <= v * t /\ v * t <= v * high
             /\ v * low \in Nat /\ v * high \in Nat
  <2>1. t \in Nat /\ low <= t /\ t <= high
    OBVIOUS
  <2>2. low * v <= t * v /\ t * v <= high * v
    BY <2>1, Scale
  <2> QED
    BY <2>1, <2>2
<1>3. CASE r # Unlimited /\ r * LevelUnit <= v * low
  <2>1. \A t \in low .. high : Capped(r, v * t) = r * LevelUnit + 0 * t
    <3> SUFFICES ASSUME NEW t \in low .. high PROVE Capped(r, v * t) = r * LevelUnit + 0 * t
      OBVIOUS
    <3>1. Capped(r, v * t) = r * LevelUnit
      BY <1>1, <1>2, <1>3 DEF Capped, Smaller
    <3> QED
      BY <1>1, <1>2, <3>1
  <2> QED
    BY <1>1, <2>1 DEF OwnOnLine, OwnTakes
<1>4. CASE r = Unlimited \/ v * high <= r * LevelUnit
  <2>1. \A t \in low .. high : Capped(r, v * t) = 0 + v * t
    <3> SUFFICES ASSUME NEW t \in low .. high PROVE Capped(r, v * t) = 0 + v * t
      OBVIOUS
    <3>1. /\ v * t \in Nat /\ v * t <= v * high /\ v * high \in Nat
          /\ r # Unlimited => v * high <= r * LevelUnit
      BY <1>2, <1>4
    <3> HIDE DEF v
    <3>2. Capped(r, v * t) = v * t
      BY <1>1, <3>1 DEF Capped, Smaller
    <3> QED
      BY <3>1, <3>2
  <2> QED
    BY <2>1 DEF OwnOnLine, OwnTakes
<1> QED
  BY <1>3, <1>4

\* At a higher level nobody takes less.
LEMMA TakenRises ==
  ASSUME NEW w, NEW cap, Layer(w, cap), NEW i \in DOMAIN cap,
         NEW low \in Nat, NEW high \in Nat, low <= high
  PROVE  Taken(low, w, cap)[i] <= Taken(high, w, cap)[i]
<1>1. cap[i] \in Nat /\ w[i] \in Nat /\ LevelUnit \in Nat
  BY WaterfillAssumption DEF Layer
<1>2. low * w[i] <= high * w[i]
  BY <1>1, Scale
<1>3. low * w[i] = w[i] * low /\ high * w[i] = w[i] * high
  BY <1>1
<1>4. w[i] * low \in Nat /\ w[i] * high \in Nat /\ cap[i] * LevelUnit \in Nat
  BY <1>1, ProductIsNat
<1>5. /\ Taken(low, w, cap)[i] = Smaller(cap[i] * LevelUnit, w[i] * low)
      /\ Taken(high, w, cap)[i] = Smaller(cap[i] * LevelUnit, w[i] * high)
  BY DEF Taken
<1> QED
  BY <1>2, <1>3, <1>4, <1>5 DEF Smaller

LEMMA OthersRise ==
  ASSUME NEW w, NEW cap, Layer(w, cap), NEW k \in DOMAIN cap,
         NEW low \in Nat, NEW high \in Nat, low <= high
  PROVE  OthersTake(k, low, w, cap) <= OthersTake(k, high, w, cap)
<1> DEFINE U == DOMAIN cap \ {k}
           B == Taken(low, w, cap)
           T == Taken(high, w, cap)
<1>1. IsFiniteSet(U)
  BY FS_Subset DEF Layer
<1>2. \A i \in DOMAIN cap : B[i] \in Nat /\ T[i] \in Nat /\ B[i] <= T[i]
  BY TakenIsNat, TakenRises
<1> HIDE DEF B, T
<1>3. SumFunctionOnSet(B, U) <= SumFunctionOnSet(T, U)
  BY <1>1, <1>2, SumGrows
<1> QED
  BY <1>3 DEF B, T, OthersTake

LEMMA OwnRises ==
  ASSUME NEW w, NEW k, w[k] \in Nat, NEW r \in Nat,
         NEW low \in Nat, NEW high \in Nat, low <= high
  PROVE  OwnTakes(k, low, w, r) <= OwnTakes(k, high, w, r)
<1> DEFINE v == w[k]
<1>1. low * v <= high * v /\ v \in Nat
  BY Scale
<1> HIDE DEF v
<1>2. v * low \in Nat /\ v * high \in Nat /\ v * low <= v * high
  BY <1>1
<1>3. r * LevelUnit \in Nat
  BY WaterfillAssumption, ProductIsNat
<1>4. Capped(r, v * low) <= Capped(r, v * high)
  BY <1>2, <1>3 DEF Capped, Smaller
<1> QED
  BY <1>4 DEF OwnTakes, v

\* The level found for an item is one at which the capacity is not exceeded, and at no
\* other such level does the item take more: within a segment of the grid it stops
\* where the money does, past the grid only what has no cap takes more.
LEMMA LevelIsPaid ==
  ASSUME NEW w, NEW cap, Layer(w, cap), Fine(w, cap), NEW k \in DOMAIN cap,
         NEW capacity \in Nat, NEW repl \in Nat
  PROVE  /\ LevelFor(k, capacity, w, cap, repl) \in Nat
         /\ ConsumedWith(k, LevelFor(k, capacity, w, cap, repl), w, cap, repl)
              <= capacity * LevelUnit
         /\ \A t \in Nat :
              ConsumedWith(k, t, w, cap, repl) <= capacity * LevelUnit =>
                OwnTakes(k, t, w, repl) <= OwnTakes(k, LevelFor(k, capacity, w, cap, repl), w, repl)
<1> DEFINE S == DOMAIN cap
           g(t) == ConsumedWith(k, t, w, cap, repl)
           at(i) == (cap[i] * LevelUnit) \div w[i]
           own == (repl * LevelUnit) \div w[k]
           grid == {at(i) : i \in S} \cup (IF repl = Unlimited THEN {} ELSE {own})
           past == {t \in grid : g(t) >= capacity * LevelUnit}
           high == Min(past)
           under == {t \in grid : past = {} \/ t < high}
           low == Max({0} \cup under)
           money == capacity * LevelUnit - g(low)
           level == LevelFor(k, capacity, w, cap, repl)
<1>1. level =
        IF past = {}
          THEN low + (IF repl = Unlimited THEN money \div w[k] ELSE 0)
          ELSE IF high > low /\ g(high) > g(low)
                 THEN low + (money * (high - low)) \div (g(high) - g(low))
                 ELSE low
  BY DEF LevelFor, ConsumedWith
<1>2. /\ LevelUnit \in Nat \ {0} /\ w[k] \in Nat \ {0} /\ cap[k] \in Nat
      /\ \A i \in S : cap[i] \in Nat /\ w[i] \in Nat \ {0} /\ LevelUnit % w[i] = 0
      /\ capacity * LevelUnit \in Nat
  BY WaterfillAssumption, ProductIsNat DEF Layer, Fine
<1>3. \A t \in Nat : g(t) \in Nat /\ (t = 0 => g(t) = 0)
  <2>1. ASSUME NEW t \in Nat
        PROVE  /\ ConsumedWith(k, t, w, cap, repl) \in Nat
               /\ t = 0 => ConsumedWith(k, t, w, cap, repl) = 0
    BY ConsumedWithIsTaken
  <2> QED
    BY <2>1
<1>4. /\ \A i \in S : at(i) \in Nat /\ w[i] * at(i) = cap[i] * LevelUnit
      /\ own \in Nat /\ w[k] * own = repl * LevelUnit
  BY <1>2, ExactQuotient
<1>5. grid \in SUBSET Nat /\ IsFiniteSet(grid)
  <2> DEFINE breaks == [i \in S |-> at(i)]
  <2>1. IsFiniteSet({breaks[i] : i \in S})
    <3> HIDE DEF breaks
    <3> QED
      BY ValuesAreFinite DEF Layer
  <2>2. {at(i) : i \in S} = {breaks[i] : i \in S}
    OBVIOUS
  <2>3. IsFiniteSet({at(i) : i \in S}) /\ {at(i) : i \in S} \in SUBSET Nat
    BY <1>4, <2>1, <2>2
  <2> DEFINE all == {at(i) : i \in S}
             extra == IF repl = Unlimited THEN {} ELSE {own}
  <2>4. IsFiniteSet(extra) /\ extra \in SUBSET Nat
    BY <1>4, FS_EmptySet, FS_Singleton
  <2>5. grid = all \cup extra /\ IsFiniteSet(all) /\ all \in SUBSET Nat
    BY <2>3
  <2> HIDE DEF all, extra, grid
  <2> QED
    BY <2>4, <2>5, FS_Union
<1>6. \A i \in S : at(i) \in grid
  OBVIOUS
<1>7. repl # Unlimited => own \in grid
  OBVIOUS
<1> HIDE DEF grid, at, own, g
<1>8. past \in SUBSET grid /\ under \in SUBSET grid /\ (past = {} => under = grid)
  OBVIOUS
<1>9. past # {} => /\ high \in grid /\ high \in Nat /\ g(high) >= capacity * LevelUnit
                   /\ \A t \in past : high <= t
  <2>1. past \in SUBSET Nat
    BY <1>5, <1>8
  <2>2. past # {} => high \in past /\ \A t \in past : high <= t
    <3> HIDE DEF past
    <3> QED
      BY <2>1, MinIsLeast
  <2> QED
    BY <1>5, <2>2
<1>10. /\ low \in Nat /\ low \in {0} \cup under
       /\ \A t \in under : t <= low
  <2> HIDE DEF under
  <2>1. IsFiniteSet(under) /\ under \in SUBSET Nat
    BY <1>5, <1>8, FS_Subset
  <2>2. IsFiniteSet({0}) /\ 0 \in Nat
    BY FS_Singleton
  <2> DEFINE before == {0} \cup under
  <2>3. IsFiniteSet(before) /\ before \in SUBSET Nat /\ 0 \in before
    BY <2>1, <2>2, FS_Union
  <2>4. under \in SUBSET before
    OBVIOUS
  <2> HIDE DEF before
  <2>5. Max(before) \in before /\ \A t \in before : Max(before) >= t
    BY <2>3, MaxIsGreatest
  <2>6. Max(before) \in Nat /\ \A t \in under : t <= Max(before)
    BY <2>1, <2>3, <2>4, <2>5
  <2> QED
    BY <2>5, <2>6 DEF before
<1>11. g(low) \in Nat /\ g(low) <= capacity * LevelUnit
  <2>1. CASE low = 0
    BY <1>2, <1>3, <2>1
  <2>2. CASE low # 0
    <3>1. low \in grid /\ (past = {} \/ low < high)
      BY <1>10, <2>2
    <3>2. low \notin past
      <4>1. low \in past => past # {} /\ high <= low
        BY <1>9
      <4> QED
        BY <1>9, <1>10, <3>1, <4>1
    <3>3. ~ (g(low) >= capacity * LevelUnit)
      BY <3>1, <3>2
    <3> QED
      BY <1>2, <1>3, <1>10, <3>3
  <2> QED
    BY <2>1, <2>2
<1>12. money \in Nat /\ g(low) + money = capacity * LevelUnit
  BY <1>2, <1>11
<1>13. \A t \in grid : past # {} => t <= low \/ high <= t
  <2> SUFFICES ASSUME NEW t \in grid, past # {}, ~ (high <= t)
               PROVE  t <= low
    OBVIOUS
  <2>1. t \in Nat /\ high \in Nat
    BY <1>5, <1>9
  <2>2. t < high
    <3> HIDE DEF high
    <3> QED
      BY <2>1
  <2>3. t \in under
    BY <2>2
  <2> QED
    BY <1>10, <2>3
<1>14. \A i \in S : past # {} => at(i) <= low \/ high <= at(i)
  <2> HIDE DEF past, low, high
  <2> QED
    BY <1>6, <1>13
<1>15. \A i \in S : past = {} => at(i) <= low
  BY <1>6, <1>8, <1>10
<1> HIDE DEF past, under, low, high, money, level
<1> DEFINE mine(t) == OwnTakes(k, t, w, repl)
<1>16. ASSUME NEW t \in Nat, NEW v \in Nat, t <= v PROVE mine(t) <= mine(v)
  BY <1>2, <1>16, OwnRises
<1>17. ASSUME NEW t \in Nat PROVE /\ g(t) = OthersTake(k, t, w, cap) + mine(t)
                                 /\ OthersTake(k, t, w, cap) \in Nat /\ mine(t) \in Nat
  <2>1. g(t) = OthersTake(k, t, w, cap) + mine(t)
    BY ConsumedWithIsTaken DEF g
  <2>2. OthersTake(k, t, w, cap) \in Nat
    BY ConsumedWithIsTaken
  <2>3. mine(t) \in Nat
    BY ConsumedWithIsTaken
  <2> QED
    BY <2>1, <2>2, <2>3
<1>18. ASSUME NEW t \in Nat, NEW v \in Nat, t <= v PROVE g(t) <= g(v)
  <2>1. OthersTake(k, t, w, cap) <= OthersTake(k, v, w, cap)
    BY <1>18, OthersRise
  <2>2. mine(t) <= mine(v)
    BY <1>16, <1>18
  <2> HIDE DEF mine
  <2> QED
    BY <1>17, <2>1, <2>2
\* Where nothing is left over, who pays no more at another level takes no more.
<1>19. ASSUME NEW v \in Nat, g(v) >= capacity * LevelUnit,
              NEW t \in Nat, g(t) <= capacity * LevelUnit
       PROVE  mine(t) <= mine(v)
  <2>1. CASE t <= v
    BY <1>16, <2>1
  <2>2. CASE ~ (t <= v)
    <3>1. OthersTake(k, v, w, cap) <= OthersTake(k, t, w, cap)
      BY <2>2, OthersRise
    <3> HIDE DEF mine
    <3>2. g(t) \in Nat /\ g(v) \in Nat /\ g(t) <= g(v)
      BY <1>2, <1>3, <1>19
    <3> QED
      BY <1>17, <3>1, <3>2
  <2> QED
    BY <2>1, <2>2
<1> HIDE DEF mine
<1>20. CASE past = {} /\ repl = Unlimited
  <2> DEFINE x == money \div w[k]
             top == low + x
  <2>1. level = low + x /\ x \in Nat /\ x * w[k] <= money
    BY <1>1, <1>2, <1>12, <1>20, QuotientIsNat, QuotientFits
  <2> HIDE DEF x
  <2>2. top \in Nat /\ top >= low /\ top = level
    BY <1>10, <2>1
  <2>3. \A i \in S \ {k} : cap[i] * LevelUnit <= w[i] * low \/ w[i] * top <= cap[i] * LevelUnit
    <3> SUFFICES ASSUME NEW i \in S PROVE cap[i] * LevelUnit <= w[i] * low
      OBVIOUS
    <3>1. at(i) <= low /\ at(i) \in Nat /\ w[i] \in Nat
      BY <1>2, <1>4, <1>15, <1>20
    <3>2. at(i) * w[i] <= low * w[i]
      BY <1>10, <3>1, Scale
    <3> QED
      BY <1>4, <1>10, <3>1, <3>2
  <2> DEFINE others(t) == OthersTake(k, t, w, cap)
  <2>4. \A t \in Nat : g(t) = others(t) + w[k] * t /\ others(t) \in Nat
    <3> SUFFICES ASSUME NEW t \in Nat PROVE g(t) = others(t) + w[k] * t /\ others(t) \in Nat
      OBVIOUS
    <3>1. g(t) = others(t) + OwnTakes(k, t, w, repl) /\ others(t) \in Nat
      BY ConsumedWithIsTaken DEF g
    <3>2. OwnTakes(k, t, w, repl) = w[k] * t
      BY <1>20 DEF OwnTakes, Capped
    <3> QED
      BY <3>1, <3>2
  <2>5. others(top) = others(low)
    <3> DEFINE T == Taken(top, w, cap)
               B == Taken(low, w, cap)
    <3>1. ASSUME NEW i \in S \ {k} PROVE T[i] \in Int /\ T[i] = B[i]
      <4>1. at(i) <= low /\ at(i) \in Nat /\ w[i] \in Nat /\ cap[i] \in Nat /\ cap[i] * LevelUnit \in Nat
        BY <1>2, <1>4, <1>15, <1>20, ProductIsNat
      <4>2. at(i) * w[i] <= low * w[i] /\ low * w[i] <= top * w[i]
        BY <1>10, <2>2, <4>1, Scale
      <4>3. cap[i] * LevelUnit <= w[i] * low /\ cap[i] * LevelUnit <= w[i] * top
        <5>1. w[i] * at(i) = cap[i] * LevelUnit /\ w[i] * at(i) = at(i) * w[i]
          BY <1>4, <4>1
        <5>2. low * w[i] = w[i] * low /\ top * w[i] = w[i] * top
              /\ w[i] * low \in Nat /\ w[i] * top \in Nat
          BY <1>10, <2>2, <4>1
        <5> HIDE DEF top
        <5> QED
          BY <4>1, <4>2, <5>1, <5>2
      <4>4. /\ T[i] = Smaller(cap[i] * LevelUnit, w[i] * top)
            /\ B[i] = Smaller(cap[i] * LevelUnit, w[i] * low)
        BY DEF Taken
      <4> HIDE DEF T, B, top
      <4> QED
        BY <4>1, <4>3, <4>4 DEF Smaller
    <3>2. IsFiniteSet(S \ {k})
      BY FS_Subset DEF Layer
    <3> HIDE DEF T, B
    <3>3. SumFunctionOnSet(T, S \ {k}) = SumFunctionOnSet(B, S \ {k})
      BY <3>1, <3>2, SumIsSame
    <3> QED
      BY <3>3 DEF T, B, OthersTake
  <2>6. g(top) = others(low) + w[k] * top /\ g(low) = others(low) + w[k] * low /\ others(low) \in Nat
    BY <1>10, <2>2, <2>4, <2>5
  <2> HIDE DEF others
  <2>7. w[k] * top = w[k] * low + x * w[k]
    BY <1>2, <1>10, <2>1
  <2>8. w[k] * low \in Nat /\ x * w[k] \in Nat
    BY <1>2, <1>10, <2>1
  <2>9. g(top) = g(low) + x * w[k]
    BY <2>6, <2>7, <2>8
  <2>10. g(top) <= capacity * LevelUnit
    BY <1>2, <1>11, <1>12, <2>1, <2>8, <2>9
  <2>11. ASSUME NEW t \in Nat, t > level PROVE ~ (g(t) <= capacity * LevelUnit)
    <3>1. g(t) = OthersTake(k, t, w, cap) + w[k] * t /\ OthersTake(k, t, w, cap) \in Nat
      BY <2>4 DEF others
    <3>2. OthersTake(k, low, w, cap) <= OthersTake(k, t, w, cap)
      BY <1>10, <2>2, <2>11, OthersRise
    <3>3. g(low) = OthersTake(k, low, w, cap) + w[k] * low /\ OthersTake(k, low, w, cap) \in Nat
      BY <2>6 DEF others
    <3>4. money < (x + 1) * w[k] /\ (x + 1) * w[k] \in Nat
      BY <1>2, <1>12 DEF x
    <3>5. (low + (x + 1)) * w[k] <= t * w[k]
      <4>1. low + (x + 1) <= t /\ low + (x + 1) \in Nat
        BY <1>10, <2>1, <2>2, <2>11
      <4> HIDE DEF top
      <4> QED
        BY <1>2, <4>1, Scale
    <3>6. /\ (low + (x + 1)) * w[k] = w[k] * low + (x + 1) * w[k]
          /\ t * w[k] = w[k] * t /\ w[k] * t \in Nat /\ w[k] * low \in Nat
      BY <1>2, <1>10, <2>1
    <3> HIDE DEF top
    <3> QED
      BY <1>2, <1>11, <1>12, <3>1, <3>2, <3>3, <3>4, <3>5, <3>6
  <2> HIDE DEF top
  <2>12. \A t \in Nat : g(t) <= capacity * LevelUnit => mine(t) <= mine(level)
    BY <2>2, <2>11, <1>16
  <2> QED
    BY <2>2, <2>10, <2>12 DEF level, g, mine
<1>21. CASE past # {} /\ high > low /\ g(high) > g(low)
  <2> DEFINE h == high - low
             others(t) == OthersTake(k, t, w, cap)
  <2>1. h \in Nat \ {0} /\ high = low + h /\ high \in Nat /\ low \in low .. high /\ high \in low .. high
    BY <1>9, <1>10, <1>21
  <2>2. \A i \in S \ {k} : cap[i] * LevelUnit <= w[i] * low \/ w[i] * high <= cap[i] * LevelUnit
    <3> SUFFICES ASSUME NEW i \in S
                 PROVE  cap[i] * LevelUnit <= w[i] * low \/ w[i] * high <= cap[i] * LevelUnit
      OBVIOUS
    <3>1. /\ at(i) <= low \/ high <= at(i)
          /\ at(i) \in Nat /\ w[i] \in Nat /\ w[i] * at(i) = cap[i] * LevelUnit
      BY <1>2, <1>4, <1>14, <1>21
    <3>2. at(i) <= low => at(i) * w[i] <= low * w[i]
      BY <1>10, <3>1, Scale
    <3>3. high <= at(i) => high * w[i] <= at(i) * w[i]
      BY <2>1, <3>1, Scale
    <3> HIDE DEF h
    <3>4. low * w[i] = w[i] * low /\ high * w[i] = w[i] * high /\ at(i) * w[i] = w[i] * at(i)
      BY <1>10, <2>1, <3>1
    <3> QED
      BY <3>1, <3>2, <3>3, <3>4
  <2>3. repl = Unlimited \/ repl * LevelUnit <= w[k] * low \/ w[k] * high <= repl * LevelUnit
    <3> SUFFICES ASSUME repl # Unlimited
                 PROVE  repl * LevelUnit <= w[k] * low \/ w[k] * high <= repl * LevelUnit
      OBVIOUS
    <3>1. /\ own <= low \/ high <= own
          /\ own \in Nat /\ w[k] \in Nat /\ w[k] * own = repl * LevelUnit
      BY <1>2, <1>4, <1>7, <1>13, <1>21
    <3>2. own <= low => own * w[k] <= low * w[k]
      BY <1>10, <3>1, Scale
    <3>3. high <= own => high * w[k] <= own * w[k]
      BY <2>1, <3>1, Scale
    <3> HIDE DEF h
    <3>4. low * w[k] = w[k] * low /\ high * w[k] = w[k] * high /\ own * w[k] = w[k] * own
      BY <1>10, <2>1, <3>1
    <3> QED
      BY <3>1, <3>2, <3>3, <3>4
  <2>4. PICK c1 \in Nat, s1 \in Nat : OthersOnLine(c1, s1, k, low, high, w, cap)
    <3> HIDE DEF h
    <3> QED
      BY <1>10, <2>1, <2>2, OthersAreStraight
  <2>5. PICK c2 \in Nat, s2 \in Nat : OwnOnLine(c2, s2, k, low, high, w, repl)
    <3> HIDE DEF h
    <3> QED
      BY <1>2, <1>10, <2>1, <2>3, OwnIsStraight
  <2> DEFINE c == c1 + c2
             s == s1 + s2
  <2>6. \A t \in low .. high : g(t) = c + s * t
    <3> SUFFICES ASSUME NEW t \in low .. high PROVE g(t) = c + s * t
      OBVIOUS
    <3>1. t \in Nat
      BY <1>10, <2>1
    <3>2. g(t) = others(t) + mine(t)
      BY <1>17, <3>1
    <3>3. others(t) = c1 + s1 * t /\ mine(t) = c2 + s2 * t
      BY <2>4, <2>5 DEF OthersOnLine, OwnOnLine, mine
    <3> HIDE DEF others
    <3>4. c1 + s1 * t + (c2 + s2 * t) = c1 + c2 + (s1 + s2) * t
      BY <3>1
    <3> QED
      BY <3>2, <3>3, <3>4
  <2>7. c \in Nat /\ s \in Nat
    OBVIOUS
  <2> HIDE DEF others, c, s
  <2>8. g(low) = c + s * low /\ g(high) = c + s * high
    BY <2>1, <2>6
  <2>9. g(high) - g(low) = s * h
    <3>1. s * high = s * low + s * h /\ s * low \in Nat /\ s * h \in Nat
      BY <1>10, <2>1, <2>7
    <3> HIDE DEF h
    <3> QED
      BY <2>7, <2>8, <3>1
  <2>10. s # 0
    BY <1>21, <1>3, <1>10, <2>1, <2>7, <2>8
  <2>11. money <= s * h
    <3>1. g(high) \in Nat /\ g(high) >= capacity * LevelUnit
      BY <1>3, <1>9, <1>21, <2>1
    <3> QED
      BY <1>2, <1>11, <1>12, <2>9, <3>1
  <2> DEFINE x == (money * h) \div (s * h)
  <2>12. x \in Nat /\ x <= h /\ s * x <= money /\ money < s * (x + 1)
    <3> HIDE DEF h
    <3> QED
      BY <1>12, <2>1, <2>7, <2>10, <2>11, StepsOnLine
  <2>13. level = low + x
    BY <1>1, <1>21, <2>9
  <2> HIDE DEF x, h
  <2>14. level \in Nat /\ level \in low .. high
    BY <1>10, <2>1, <2>12, <2>13
  <2>15. g(level) = c + s * level
    BY <2>6, <2>14
  <2>16. s * level = s * low + s * x /\ s * low \in Nat /\ s * x \in Nat
    BY <1>10, <2>7, <2>12, <2>13
  <2>17. g(level) <= capacity * LevelUnit
    BY <1>2, <1>11, <1>12, <2>7, <2>8, <2>12, <2>15, <2>16
  <2>18. ASSUME NEW t \in Nat, g(t) <= capacity * LevelUnit PROVE mine(t) <= mine(level)
    <3>1. CASE t <= level
      BY <1>16, <2>14, <3>1
    <3>2. CASE level = high
      <4>1. g(level) >= capacity * LevelUnit
        BY <1>9, <1>21, <3>2
      <4> QED
        BY <1>19, <2>14, <2>18, <4>1
    <3>3. CASE t > level /\ level # high
      <4> DEFINE next == level + 1
      <4>1. next \in low .. high /\ next \in Nat /\ next <= t /\ next = low + (x + 1)
        BY <1>10, <2>1, <2>12, <2>13, <2>14, <3>3
      <4>2. g(next) = c + s * next
        BY <2>6, <4>1
      <4>3. s * next = s * low + s * (x + 1) /\ s * low \in Nat /\ s * (x + 1) \in Nat
        BY <1>10, <2>7, <2>12, <4>1
      <4>4. g(next) <= g(t) /\ g(next) \in Nat /\ g(t) \in Nat
        BY <1>3, <1>18, <4>1
      <4> HIDE DEF next
      <4> QED
        BY <1>2, <1>11, <1>12, <2>7, <2>8, <2>12, <2>18, <4>2, <4>3, <4>4
    <3> QED
      BY <2>14, <3>1, <3>2, <3>3
  <2> QED
    BY <2>14, <2>17, <2>18 DEF level, g, mine
<1>22. CASE /\ ~ (past = {} /\ repl = Unlimited)
            /\ ~ (past # {} /\ high > low /\ g(high) > g(low))
  <2>1. level = low
    BY <1>1, <1>10, <1>22
  <2>2. ASSUME NEW t \in Nat, g(t) <= capacity * LevelUnit PROVE mine(t) <= mine(low)
    <3>1. CASE past = {}
      <4>1. repl # Unlimited /\ own \in grid
        BY <1>7, <1>22, <3>1
      <4>2. own <= low /\ own \in Nat /\ w[k] * own = repl * LevelUnit
        BY <1>4, <1>8, <1>10, <3>1, <4>1
      <4>3. w[k] * own <= w[k] * low /\ w[k] * low \in Nat /\ w[k] * own \in Nat
        <5>1. w[k] \in Nat /\ own \in Int /\ low \in Int /\ own <= low
          BY <1>2, <1>10, <4>2
        <5>2. own * w[k] <= low * w[k]
          BY <5>1, Scale
        <5> QED
          BY <1>2, <1>10, <4>2, <5>1, <5>2
      <4>4. mine(low) = repl * LevelUnit
        BY <4>1, <4>2, <4>3 DEF mine, OwnTakes, Capped, Smaller
      <4>5. w[k] * t \in Nat
        BY <1>2, ProductIsNat
      <4>6. mine(t) <= repl * LevelUnit
        BY <4>1, <4>5, CappedIsNat DEF mine, OwnTakes
      <4> QED
        BY <4>4, <4>6
    <3>2. CASE past # {} /\ high > low
      <4>1. g(high) \in Nat /\ g(low) \in Nat /\ g(high) >= capacity * LevelUnit /\ ~ (g(high) > g(low))
        BY <1>3, <1>9, <1>11, <1>22, <3>2
      <4>2. g(low) >= capacity * LevelUnit
        BY <1>2, <4>1
      <4> QED
        BY <1>10, <1>19, <2>2, <4>2
    <3>3. CASE past # {} /\ ~ (high > low)
      <4>1. low = high
        BY <1>9, <1>10, <3>3 DEF under
      <4>2. g(low) >= capacity * LevelUnit
        BY <1>9, <3>3, <4>1
      <4> QED
        BY <1>10, <1>19, <2>2, <4>2
    <3> QED
      BY <3>1, <3>2, <3>3
  <2>3. \A t \in Nat : g(t) <= capacity * LevelUnit => mine(t) <= mine(level)
    BY <2>1, <2>2
  <2> QED
    BY <1>10, <1>11, <2>1, <2>3 DEF level, g, mine
<1> QED
  BY <1>20, <1>21, <1>22

------------------------------------------------------------------------------
(* One layer: ceilings fit together *)

\* One ceiling spends no more than the capacity, nor than its own cap.
LEMMA CeilingIsPaid ==
  ASSUME NEW w, NEW cap, Layer(w, cap), Fine(w, cap), NEW k \in DOMAIN cap,
         NEW capacity \in Nat, NEW repl, repl[k] \in Nat
  PROVE  LET level == LevelFor(k, capacity, w, cap, repl[k])
             ceiling == Ceilings(capacity, w, cap, repl)[k]
         IN /\ level \in Nat /\ ceiling \in Nat
            /\ ceiling * LevelUnit <= OwnTakes(k, level, w, repl[k])
            /\ OwnTakes(k, level, w, repl[k]) <= capacity * LevelUnit
            /\ ceiling <= capacity
            /\ repl[k] # Unlimited => ceiling <= repl[k]
<1> DEFINE level == LevelFor(k, capacity, w, cap, repl[k])
           ceiling == Ceilings(capacity, w, cap, repl)[k]
           r == repl[k]
           takes == OwnTakes(k, level, w, r)
<1>1. level \in Nat /\ ConsumedWith(k, level, w, cap, r) <= capacity * LevelUnit /\ r \in Nat
  BY LevelIsPaid
<1>2. ceiling = takes \div LevelUnit
  BY DEF Ceilings, OwnTakes
<1>3. LevelUnit \in Nat \ {0} /\ w[k] \in Nat /\ capacity * LevelUnit \in Nat
  BY WaterfillAssumption, ProductIsNat DEF Layer
<1> HIDE DEF level, ceiling, r
<1>4. /\ ConsumedWith(k, level, w, cap, r) = OthersTake(k, level, w, cap) + takes
      /\ OthersTake(k, level, w, cap) \in Nat /\ takes \in Nat
  <2>1. ConsumedWith(k, level, w, cap, r) = OthersTake(k, level, w, cap) + takes
    BY <1>1, ConsumedWithIsTaken
  <2>2. OthersTake(k, level, w, cap) \in Nat
    BY <1>1, ConsumedWithIsTaken
  <2>3. takes \in Nat
    BY <1>1, ConsumedWithIsTaken
  <2> QED
    BY <2>1, <2>2, <2>3
<1>5. r # Unlimited => takes <= r * LevelUnit
  <2>1. w[k] * level \in Nat /\ r \in Nat
    BY <1>1, <1>3, ProductIsNat
  <2> QED
    BY <2>1, CappedIsNat DEF OwnTakes
<1> HIDE DEF takes
<1>6. takes <= capacity * LevelUnit
  BY <1>1, <1>3, <1>4
<1>7. ceiling \in Nat /\ ceiling * LevelUnit <= takes /\ ceiling * LevelUnit \in Nat
  <2>1. ceiling \in Nat /\ ceiling * LevelUnit <= takes
    BY <1>2, <1>3, <1>4, QuotientIsNat, QuotientFits
  <2> QED
    BY <1>3, <2>1, ProductIsNat
<1>8. ceiling <= capacity
  <2>1. ceiling * LevelUnit <= capacity * LevelUnit
    BY <1>3, <1>4, <1>6, <1>7
  <2> QED
    BY <1>3, <1>7, <2>1, Cancel
<1>9. r # Unlimited => ceiling <= r
  <2> SUFFICES ASSUME r # Unlimited PROVE ceiling <= r
    OBVIOUS
  <2>1. r \in Nat /\ r * LevelUnit \in Nat
    BY <1>1, <1>3, ProductIsNat
  <2>2. ceiling * LevelUnit <= r * LevelUnit
    BY <1>4, <1>5, <1>7, <2>1
  <2> QED
    BY <1>3, <1>7, <2>1, <2>2, Cancel
<1> QED
  BY <1>1, <1>6, <1>7, <1>8, <1>9 DEF level, ceiling, r, takes

\* An item that could take the whole capacity, or whose cap is its own already.
Hungry(k, capacity, cap, repl) ==
  \/ cap[k] >= capacity /\ (repl[k] = Unlimited \/ repl[k] >= cap[k])
  \/ cap[k] = repl[k] /\ repl[k] # Unlimited

\* What the others are counted with and what a hungry item takes are the same.
LEMMA HungryTakesAll ==
  ASSUME NEW w, NEW cap, Layer(w, cap), NEW k \in DOMAIN cap, NEW capacity \in Nat,
         NEW repl, repl[k] \in Nat, Hungry(k, capacity, cap, repl), NEW level \in Nat
  PROVE  /\ Taken(level, w, cap)[k] <= OwnTakes(k, level, w, repl[k])
         /\ OwnTakes(k, level, w, repl[k]) <= capacity * LevelUnit =>
              OwnTakes(k, level, w, repl[k]) <= Taken(level, w, cap)[k]
<1> DEFINE r == repl[k]
           most == w[k] * level
           a == cap[k] * LevelUnit
           b == r * LevelUnit
           n == capacity * LevelUnit
<1>1. LevelUnit \in Nat /\ w[k] \in Nat /\ cap[k] \in Nat /\ r \in Nat
  BY WaterfillAssumption DEF Layer
<1>2. most \in Nat /\ a \in Nat /\ b \in Nat /\ n \in Nat
  BY <1>1, ProductIsNat
<1>3. Taken(level, w, cap)[k] = Smaller(a, most)
  BY DEF Taken
<1>4. OwnTakes(k, level, w, r) = IF r = Unlimited THEN most ELSE Smaller(b, most)
  BY DEF OwnTakes, Capped
<1>5. \/ a >= n /\ (r = Unlimited \/ b >= a)
      \/ a = b /\ r # Unlimited
  <2>1. CASE cap[k] >= capacity /\ (r = Unlimited \/ r >= cap[k])
    <3>1. a >= n
      BY <1>1, <1>2, <2>1, Scale
    <3>2. r # Unlimited => b >= a
      BY <1>1, <1>2, <2>1, Scale
    <3> QED
      BY <3>1, <3>2
  <2>2. CASE cap[k] = r /\ r # Unlimited
    BY <2>2
  <2> QED
    BY <2>1, <2>2 DEF Hungry
<1> HIDE DEF r, most, a, b, n
<1>6. /\ Smaller(a, most) <= OwnTakes(k, level, w, r)
      /\ OwnTakes(k, level, w, r) <= n => OwnTakes(k, level, w, r) <= Smaller(a, most)
  BY <1>2, <1>4, <1>5 DEF Smaller
<1> QED
  BY <1>3, <1>6 DEF r, n

\* The ceilings of hungry items, each found as if the others kept their caps, fit
\* together: at the highest of their levels all of them are within the capacity.
THEOREM HungryCeilingsFit ==
  ASSUME NEW w, NEW cap, Layer(w, cap), Fine(w, cap), NEW capacity \in Nat,
         NEW repl, NEW C \in SUBSET DOMAIN cap,
         \A k \in C : repl[k] \in Nat /\ Hungry(k, capacity, cap, repl)
  PROVE  /\ SumFunctionOnSet(Ceilings(capacity, w, cap, repl), C) \in Nat
         /\ SumFunctionOnSet(Ceilings(capacity, w, cap, repl), C) <= capacity
<1> DEFINE ceil == Ceilings(capacity, w, cap, repl)
           level == [k \in C |-> LevelFor(k, capacity, w, cap, repl[k])]
           total == SumFunctionOnSet(ceil, C)
<1>1. ASSUME NEW k \in C
      PROVE  /\ level[k] \in Nat /\ ceil[k] \in Nat
             /\ ceil[k] * LevelUnit <= OwnTakes(k, level[k], w, repl[k])
             /\ OwnTakes(k, level[k], w, repl[k]) <= capacity * LevelUnit
             /\ ConsumedWith(k, level[k], w, cap, repl[k]) <= capacity * LevelUnit
  <2>1. level[k] = LevelFor(k, capacity, w, cap, repl[k]) /\ repl[k] \in Nat /\ k \in DOMAIN cap
    OBVIOUS
  <2> HIDE DEF level, ceil
  <2> QED
    BY <2>1, CeilingIsPaid, LevelIsPaid DEF ceil
<1>2. IsFiniteSet(C) /\ IsFiniteSet(DOMAIN cap)
  BY LayerSums DEF Layer
<1> HIDE DEF ceil, level
<1>3. total \in Nat
  BY <1>1, <1>2, SumIsNat
<1>4. LevelUnit \in Nat \ {0} /\ capacity * LevelUnit \in Nat
  BY WaterfillAssumption, ProductIsNat
<1>5. CASE C = {}
  <2>1. total = 0
    BY <1>5, SumOfNone
  <2> HIDE DEF total
  <2> QED
    BY <2>1 DEF total, ceil
<1>6. CASE C # {}
  <2> DEFINE levels == {level[k] : k \in C}
  <2>1. levels \in SUBSET Nat /\ levels # {}
    BY <1>1, <1>6
  <2>2. IsFiniteSet(levels)
    BY <1>2, ValuesAreFinite
  <2> HIDE DEF levels
  <2>3. PICK top \in levels : \A l \in levels : top >= l
    BY <2>1, <2>2, GreatestNatural
  <2>4. PICK m \in C : level[m] = top
    BY <2>3 DEF levels
  <2>5. top \in Nat /\ \A k \in C : level[k] <= top
    BY <2>1, <2>3 DEF levels
  <2> DEFINE T == Taken(top, w, cap)
  <2>6. /\ \A i \in DOMAIN cap : T[i] \in Nat
        /\ SumFunctionOnSet(T, C) \in Nat /\ SumFunctionOnSet(T, DOMAIN cap) \in Nat
        /\ SumFunctionOnSet(T, C) <= SumFunctionOnSet(T, DOMAIN cap)
    <3>1. C \in SUBSET DOMAIN cap /\ DOMAIN cap \in SUBSET DOMAIN cap
      OBVIOUS
    <3> HIDE DEF T
    <3> QED
      BY <2>5, <3>1, TakenIsNat DEF T
  <2>7. ASSUME NEW k \in C PROVE ceil[k] * LevelUnit <= T[k] * 1
    <3>1. OwnTakes(k, level[k], w, repl[k]) <= Taken(level[k], w, cap)[k]
      BY <1>1, HungryTakesAll
    <3>2. Taken(level[k], w, cap)[k] <= T[k]
      BY <1>1, <2>5, TakenRises
    <3>3. /\ OwnTakes(k, level[k], w, repl[k]) \in Nat /\ Taken(level[k], w, cap)[k] \in Nat
          /\ T[k] \in Nat /\ ceil[k] * LevelUnit \in Nat
      <4>1. level[k] \in Nat /\ k \in DOMAIN cap /\ repl[k] \in Nat
        BY <1>1
      <4>2. OwnTakes(k, level[k], w, repl[k]) \in Nat
        BY <4>1, ConsumedWithIsTaken
      <4>3. Taken(level[k], w, cap)[k] \in Nat
        BY <4>1, TakenIsNat
      <4> QED
        BY <1>1, <1>4, <2>6, <4>2, <4>3, ProductIsNat
    <3> HIDE DEF T
    <3> QED
      BY <1>1, <3>1, <3>2, <3>3
  <2>8. SumFunctionOnSet(T, DOMAIN cap) <= capacity * LevelUnit
    <3>1. T[m] <= OwnTakes(m, top, w, repl[m])
      BY <2>5, HungryTakesAll
    <3>2. /\ SumFunctionOnSet(T, DOMAIN cap) = T[m] + OthersTake(m, top, w, cap)
          /\ ConsumedWith(m, top, w, cap, repl[m]) =
               OthersTake(m, top, w, cap) + OwnTakes(m, top, w, repl[m])
          /\ OthersTake(m, top, w, cap) \in Nat /\ OwnTakes(m, top, w, repl[m]) \in Nat
      <4>1. SumFunctionOnSet(T, DOMAIN cap) = T[m] + OthersTake(m, top, w, cap)
        <5>1. \A i \in DOMAIN cap : T[i] \in Int
          BY <2>6
        <5>2. OthersTake(m, top, w, cap) = SumFunctionOnSet(T, DOMAIN cap \ {m})
          BY DEF OthersTake
        <5> HIDE DEF T
        <5> QED
          BY <1>2, <5>1, <5>2, SumWithout
      <4>2. ConsumedWith(m, top, w, cap, repl[m]) =
              OthersTake(m, top, w, cap) + OwnTakes(m, top, w, repl[m])
        <5> DEFINE r == repl[m]
        <5>1. r \in Nat /\ m \in DOMAIN cap /\ top \in Nat
          BY <2>5
        <5> HIDE DEF r
        <5>2. ConsumedWith(m, top, w, cap, r) = OthersTake(m, top, w, cap) + OwnTakes(m, top, w, r)
          BY <5>1, ConsumedWithIsTaken
        <5> QED
          BY <5>2 DEF r
      <4>3. OthersTake(m, top, w, cap) \in Nat
        BY <2>5, ConsumedWithIsTaken
      <4>4. OwnTakes(m, top, w, repl[m]) \in Nat
        BY <2>5, ConsumedWithIsTaken
      <4> QED
        BY <4>1, <4>2, <4>3, <4>4
    <3>3. ConsumedWith(m, top, w, cap, repl[m]) <= capacity * LevelUnit
      BY <1>1, <2>4
    <3>4. T[m] \in Nat
      BY <2>6
    <3> HIDE DEF T
    <3> QED
      BY <1>4, <3>1, <3>2, <3>3, <3>4
  <2> HIDE DEF T
  <2>9. \A k \in C : ceil[k] \in Int /\ T[k] \in Int /\ ceil[k] * LevelUnit <= T[k] * 1
    BY <1>1, <2>6, <2>7
  <2>10. total * LevelUnit <= SumFunctionOnSet(T, C) * 1
    <3>1. LevelUnit \in Int /\ 1 \in Int
      BY <1>4
    <3> QED
      BY <1>2, <2>9, <3>1, SumWeighed
  <2> HIDE DEF total
  <2>11. total * LevelUnit <= capacity * LevelUnit
    <3>1. total * LevelUnit \in Nat
      BY <1>3, <1>4, ProductIsNat
    <3> QED
      BY <1>4, <2>6, <2>8, <2>10, <3>1
  <2>12. total <= capacity
    BY <1>3, <1>4, <2>11, Cancel
  <2> QED
    BY <1>3, <2>12 DEF total, ceil
<1> QED
  BY <1>3, <1>5, <1>6 DEF total, ceil

------------------------------------------------------------------------------
(* One layer: grants and ceilings *)

LEMMA QuotientIsBest ==
  ASSUME NEW a \in Nat, NEW b \in Nat \ {0}, NEW n \in Nat, n * b <= a PROVE n <= a \div b
OBVIOUS

LEMMA TakenAtMost ==
  ASSUME NEW w, NEW cap, Layer(w, cap), NEW t \in Nat, NEW U \in SUBSET DOMAIN cap
  PROVE  /\ SumFunctionOnSet(Taken(t, w, cap), U) <= SumFunctionOnSet(cap, U) * LevelUnit
         /\ SumFunctionOnSet(Taken(t, w, cap), U) <= SumFunctionOnSet(w, U) * t
<1> DEFINE T == Taken(t, w, cap)
<1>1. ASSUME NEW i \in U
      PROVE  /\ T[i] \in Int /\ cap[i] \in Int /\ w[i] \in Int
             /\ T[i] * 1 <= cap[i] * LevelUnit /\ T[i] * 1 <= w[i] * t
  <2>1. cap[i] \in Nat /\ w[i] \in Nat /\ LevelUnit \in Nat
    BY WaterfillAssumption DEF Layer
  <2>2. cap[i] * LevelUnit \in Nat /\ w[i] * t \in Nat
    BY <2>1, ProductIsNat
  <2>3. T[i] = Smaller(cap[i] * LevelUnit, w[i] * t)
    BY DEF Taken
  <2> HIDE DEF T
  <2> QED
    BY <2>1, <2>2, <2>3 DEF Smaller
<1>2. IsFiniteSet(U) /\ SumFunctionOnSet(T, U) \in Nat /\ LevelUnit \in Int /\ 1 \in Int /\ t \in Int
  BY TakenIsNat, WaterfillAssumption
<1> HIDE DEF T
<1>3. SumFunctionOnSet(T, U) * 1 <= SumFunctionOnSet(cap, U) * LevelUnit
  BY <1>1, <1>2, SumWeighed
<1>4. SumFunctionOnSet(T, U) * 1 <= SumFunctionOnSet(w, U) * t
  BY <1>1, <1>2, SumWeighed
<1>5. SumFunctionOnSet(T, U) * 1 = SumFunctionOnSet(T, U)
  BY <1>2
<1> QED
  BY <1>3, <1>4, <1>5 DEF T

\* The level at which k takes n.
LevelOf(n, k, w) == n * (LevelUnit \div w[k])

LEMMA LevelOfTakes ==
  ASSUME NEW w, NEW cap, Layer(w, cap), Fine(w, cap), NEW k \in DOMAIN cap, NEW n \in Nat
  PROVE  /\ LevelOf(n, k, w) \in Nat
         /\ w[k] * LevelOf(n, k, w) = n * LevelUnit
         /\ w[k] * (LevelUnit \div w[k]) = LevelUnit
         /\ LevelUnit \div w[k] \in Nat
<1> DEFINE q == LevelUnit \div w[k]
           v == w[k]
<1>1. v \in Nat \ {0} /\ LevelUnit \in Nat /\ q \in Nat /\ LevelUnit = v * q
  BY WaterfillAssumption, Divides DEF Layer, Fine
<1> HIDE DEF q, v
<1>2. n * q \in Nat /\ v * (n * q) = n * (v * q)
  BY <1>1
<1> QED
  BY <1>1, <1>2 DEF LevelOf, q, v

\* Nobody is granted more than the others leave at the level they have reached.
LEMMA GrantIsBelowLevel ==
  ASSUME NEW capacity \in Nat, NEW w, NEW cap, Layer(w, cap), NEW active \in SUBSET DOMAIN cap,
         Stands(capacity, w, cap, active), NEW k \in DOMAIN cap
  PROVE  Leveled(capacity, w, cap, active)[k] * SumFunctionOnSet(w, active)
           <= Left(capacity, cap, active) * w[k]
<1> DEFINE W == SumFunctionOnSet(w, active)
           left == Left(capacity, cap, active)
           alloc == Leveled(capacity, w, cap, active)
<1>1. left \in Nat /\ W \in Nat /\ (active # {} => W # 0) /\ w[k] \in Nat
  BY LayerSums DEF Stands, Layer
<1>2. CASE k \in active
  <2>1. alloc[k] = (left * w[k]) \div W
    BY <1>2 DEF Leveled
  <2>2. W \in Nat \ {0} /\ left * w[k] \in Nat
    BY <1>1, <1>2, ProductIsNat
  <2> HIDE DEF alloc, W, left
  <2> QED
    BY <2>1, <2>2, QuotientFits DEF alloc, W, left
<1>3. CASE k \notin active
  BY <1>3 DEF Leveled, Stands
<1> QED
  BY <1>2, <1>3

\* The level at which an item takes what it is granted is paid for.
LEMMA GrantIsPaid ==
  ASSUME NEW capacity \in Nat, NEW w, NEW cap, Layer(w, cap), Fine(w, cap), NEW k \in DOMAIN cap
  PROVE  LET grant == Fill(capacity, w, cap)[k]
             level == LevelOf(grant, k, w)
         IN /\ grant \in Nat /\ grant <= cap[k] /\ level \in Nat
            /\ w[k] * level = grant * LevelUnit
            /\ SumFunctionOnSet(Taken(level, w, cap), DOMAIN cap) <= capacity * LevelUnit
<1> DEFINE S == DOMAIN cap
           grant == Fill(capacity, w, cap)[k]
           level == LevelOf(grant, k, w)
           T == Taken(level, w, cap)
           q == LevelUnit \div w[k]
<1>1. PICK active \in SUBSET S :
        /\ Stands(capacity, w, cap, active) /\ ~ Saturates(capacity, w, cap, active)
        /\ Fill(capacity, w, cap) = Leveled(capacity, w, cap, active)
  BY FillEnds
<1> DEFINE W == SumFunctionOnSet(w, active)
           left == Left(capacity, cap, active)
           rest == S \ active
           b == SumFunctionOnSet(cap, rest)
<1>2. grant \in Nat /\ grant <= cap[k]
  BY FillFits DEF Fits
<1>3. grant * W <= left * w[k]
  BY <1>1, GrantIsBelowLevel
<1>4. /\ level \in Nat /\ level = grant * q /\ w[k] * level = grant * LevelUnit
      /\ w[k] * q = LevelUnit /\ q \in Nat
  <2> HIDE DEF grant
  <2> QED
    BY <1>2, LevelOfTakes DEF LevelOf
<1>5. /\ left \in Nat /\ W \in Nat /\ b \in Nat /\ capacity = left + b
      /\ w[k] \in Nat /\ LevelUnit \in Nat
  <2>1. b \in Nat
    BY LayerSums
  <2>2. left = capacity - b
    BY DEF Left
  <2>3. left \in Nat /\ W \in Nat /\ w[k] \in Nat /\ LevelUnit \in Nat
    BY <1>1, LayerSums, WaterfillAssumption DEF Stands, Layer
  <2> HIDE DEF b, left, W
  <2> QED
    BY <2>1, <2>2, <2>3
<1>6. /\ IsFiniteSet(S) /\ \A i \in S : T[i] \in Int
      /\ SumFunctionOnSet(T, active) \in Nat /\ SumFunctionOnSet(T, rest) \in Nat
      /\ SumFunctionOnSet(T, active) <= W * level
      /\ SumFunctionOnSet(T, rest) <= b * LevelUnit
  <2>1. rest \in SUBSET S
    OBVIOUS
  <2> HIDE DEF T, rest, level
  <2>2. SumFunctionOnSet(T, active) \in Nat /\ SumFunctionOnSet(T, rest) \in Nat
    BY <1>4, <2>1, TakenIsNat DEF T
  <2>3. \A i \in S : T[i] \in Nat
    BY <1>4, TakenIsNat DEF T
  <2>4. /\ SumFunctionOnSet(T, active) <= W * level
        /\ SumFunctionOnSet(T, rest) <= b * LevelUnit
    BY <1>4, <2>1, TakenAtMost DEF T
  <2> QED
    BY <2>2, <2>3, <2>4 DEF Layer
<1> HIDE DEF T, rest, b, W, left, level, grant, q
<1>7. SumFunctionOnSet(T, S) = SumFunctionOnSet(T, active) + SumFunctionOnSet(T, rest)
  BY <1>6, SumSplits DEF rest
<1>8. W * level <= left * LevelUnit
  <2>1. (grant * W) * q <= (left * w[k]) * q
    <3>1. grant * W \in Int /\ left * w[k] \in Int
      BY <1>2, <1>5
    <3> QED
      BY <1>3, <1>4, <3>1, Scale
  <2>2. (grant * W) * q = W * (grant * q)
    BY <1>2, <1>4, <1>5
  <2>3. (left * w[k]) * q = left * (w[k] * q)
    BY <1>4, <1>5
  <2> QED
    BY <1>4, <2>1, <2>2, <2>3
<1>9. capacity * LevelUnit = left * LevelUnit + b * LevelUnit
  BY <1>5
<1>10. /\ W * level \in Nat /\ left * LevelUnit \in Nat /\ b * LevelUnit \in Nat
  BY <1>4, <1>5, ProductIsNat
<1>11. SumFunctionOnSet(T, S) <= capacity * LevelUnit
  BY <1>6, <1>7, <1>8, <1>9, <1>10
<1> QED
  BY <1>2, <1>4, <1>11 DEF T, level, grant

\* A ceiling is the most that its item takes at a level that is paid for.
LEMMA CeilingIsBest ==
  ASSUME NEW w, NEW cap, Layer(w, cap), Fine(w, cap), NEW k \in DOMAIN cap,
         NEW capacity \in Nat, NEW repl, repl[k] \in Nat,
         NEW t \in Nat, ConsumedWith(k, t, w, cap, repl[k]) <= capacity * LevelUnit,
         NEW n \in Nat, n * LevelUnit <= OwnTakes(k, t, w, repl[k])
  PROVE  n <= Ceilings(capacity, w, cap, repl)[k]
<1> DEFINE r == repl[k]
           level == LevelFor(k, capacity, w, cap, r)
           best == OwnTakes(k, level, w, r)
           takes == OwnTakes(k, t, w, r)
<1>1. r \in Nat
  OBVIOUS
<1>2. level \in Nat /\ takes <= best
  BY LevelIsPaid
<1>3. Ceilings(capacity, w, cap, repl)[k] = best \div LevelUnit
  BY DEF Ceilings, OwnTakes
<1> HIDE DEF r, level
<1>4. best \in Nat
  BY <1>1, <1>2, ConsumedWithIsTaken
<1>5. takes \in Nat
  BY <1>1, ConsumedWithIsTaken
<1>6. n * LevelUnit <= takes /\ n * LevelUnit \in Nat /\ LevelUnit \in Nat \ {0}
  BY WaterfillAssumption, ProductIsNat DEF r
<1> HIDE DEF best, takes
<1>7. n * LevelUnit <= best
  BY <1>2, <1>4, <1>5, <1>6
<1> QED
  BY <1>3, <1>4, <1>6, <1>7, QuotientIsBest

\* What an item is granted when everybody wants more is within its ceiling, also where
\* the layer above left more.
LEMMA CeilingKeepsShare ==
  ASSUME NEW w, NEW all, Layer(w, all), NEW cap, Layer(w, cap), Fine(w, cap),
         DOMAIN all = DOMAIN cap, NEW k \in DOMAIN cap,
         NEW capacity \in Nat, NEW more \in Nat, capacity <= more,
         \A i \in DOMAIN cap : cap[i] <= all[i] \/ all[i] > capacity,
         NEW repl, repl[k] \in Nat,
         repl[k] = Unlimited \/ Fill(capacity, w, all)[k] <= repl[k]
  PROVE  Fill(capacity, w, all)[k] <= Ceilings(more, w, cap, repl)[k]
<1> DEFINE S == DOMAIN cap
           n == Fill(capacity, w, all)[k]
           t == LevelOf(n, k, w)
           A == Taken(t, w, all)
           B == Taken(t, w, cap)
           r == repl[k]
<1>1. /\ n \in Nat /\ n <= all[k] /\ t \in Nat /\ w[k] * t = n * LevelUnit
      /\ SumFunctionOnSet(A, S) <= capacity * LevelUnit
  BY GrantIsPaid DEF Fine
<1>2. /\ LevelUnit \in Nat \ {0} /\ r \in Nat /\ (r = Unlimited \/ n <= r)
      /\ \A i \in S : all[i] \in Nat /\ cap[i] \in Nat /\ w[i] \in Nat
  BY WaterfillAssumption DEF Layer
<1> HIDE DEF n, t, r
<1>3. \A i \in S : A[i] \in Nat /\ B[i] \in Nat
  BY <1>1, TakenIsNat
<1>4. /\ \A i \in S : A[i] = Smaller(all[i] * LevelUnit, w[i] * t)
      /\ \A i \in S : B[i] = Smaller(cap[i] * LevelUnit, w[i] * t)
  BY DEF Taken
<1>5. IsFiniteSet(S) /\ IsFiniteSet(S \ {k})
  BY FS_Subset DEF Layer
<1> HIDE DEF A, B
<1>6. SumFunctionOnSet(A, S) \in Nat /\ \A i \in S : A[i] <= SumFunctionOnSet(A, S)
  BY <1>3, <1>5, SumIsNat
<1>7. ASSUME NEW i \in S PROVE B[i] <= A[i]
  <2>1. /\ all[i] * LevelUnit \in Nat /\ cap[i] * LevelUnit \in Nat /\ w[i] * t \in Nat
        /\ capacity * LevelUnit \in Nat
    BY <1>1, <1>2, ProductIsNat
  <2>2. CASE cap[i] <= all[i]
    <3>1. cap[i] * LevelUnit <= all[i] * LevelUnit
      BY <1>2, <2>2, Scale
    <3> QED
      BY <1>4, <2>1, <3>1 DEF Smaller
  <2>3. CASE all[i] > capacity
    <3>1. ~ (all[i] * LevelUnit <= capacity * LevelUnit)
      BY <1>2, <2>3, Cancel
    <3>2. A[i] <= capacity * LevelUnit
      BY <1>1, <1>3, <1>6, <2>1
    <3> QED
      BY <1>3, <1>4, <2>1, <3>1, <3>2 DEF Smaller
  <2> QED
    BY <2>2, <2>3
<1>8. SumFunctionOnSet(B, S \ {k}) <= SumFunctionOnSet(A, S \ {k})
  BY <1>3, <1>5, <1>7, SumGrows
<1>9. OthersTake(k, t, w, cap) = SumFunctionOnSet(B, S \ {k})
  BY DEF OthersTake, B
<1>10. SumFunctionOnSet(A, S) = A[k] + SumFunctionOnSet(A, S \ {k})
  BY <1>3, <1>5, SumWithout
<1>11. OwnTakes(k, t, w, r) = n * LevelUnit /\ A[k] = n * LevelUnit /\ n * LevelUnit \in Nat
  <2>1. n * LevelUnit <= all[k] * LevelUnit /\ (r # Unlimited => n * LevelUnit <= r * LevelUnit)
    BY <1>1, <1>2, Scale
  <2>2. n * LevelUnit \in Nat /\ r * LevelUnit \in Nat /\ all[k] * LevelUnit \in Nat
    BY <1>1, <1>2, ProductIsNat
  <2> QED
    BY <1>1, <1>4, <2>1, <2>2 DEF OwnTakes, Capped, Smaller
<1>12. ConsumedWith(k, t, w, cap, r) = OthersTake(k, t, w, cap) + OwnTakes(k, t, w, r)
  BY <1>1, <1>2, ConsumedWithIsTaken
<1>13. SumFunctionOnSet(A, S \ {k}) \in Nat /\ SumFunctionOnSet(B, S \ {k}) \in Nat
  <2>1. \A i \in S \ {k} : A[i] \in Nat /\ B[i] \in Nat
    BY <1>3
  <2> QED
    BY <1>5, <2>1, SumIsNat
<1>14. capacity * LevelUnit <= more * LevelUnit /\ capacity * LevelUnit \in Nat /\ more * LevelUnit \in Nat
  BY <1>2, Scale, ProductIsNat
<1>15. ConsumedWith(k, t, w, cap, r) <= more * LevelUnit
  BY <1>1, <1>8, <1>9, <1>10, <1>11, <1>12, <1>13, <1>14
<1>16. n * LevelUnit <= OwnTakes(k, t, w, r)
  BY <1>11
<1>17. n <= Ceilings(more, w, cap, repl)[k]
  BY <1>1, <1>2, <1>15, <1>16, CeilingIsBest DEF r
<1> QED
  BY <1>17 DEF n

\* Where the rise ends, whoever is active has a cap above the level.
LEMMA NobodySaturates ==
  ASSUME NEW capacity \in Nat, NEW w, NEW cap, Layer(w, cap), NEW active \in SUBSET DOMAIN cap,
         Stands(capacity, w, cap, active), ~ Saturates(capacity, w, cap, active), NEW i \in active
  PROVE  Left(capacity, cap, active) * w[i] < cap[i] * SumFunctionOnSet(w, active)
<1> DEFINE W == SumFunctionOnSet(w, active)
           left == Left(capacity, cap, active)
<1>1. left \in Nat /\ W \in Nat \ {0}
  BY LayerSums DEF Stands
<1>2. PICK m \in Cheapest(w, cap, active) : ~ (cap[m] * W <= left * w[m])
  BY SomeAreCheapest DEF Saturates
<1>3. m \in active /\ cap[m] * w[i] <= cap[i] * w[m]
  BY <1>2 DEF Cheapest
<1>4. cap[m] \in Nat /\ w[m] \in Nat \ {0} /\ cap[i] \in Nat /\ w[i] \in Nat \ {0}
  BY <1>3 DEF Layer
<1> HIDE DEF W, left
<1>5. ~ (cap[i] * W <= left * w[i])
  <2> SUFFICES ASSUME cap[i] * W <= left * w[i] PROVE FALSE
    OBVIOUS
  <2>1. cap[m] \in Int /\ cap[i] \in Int /\ left \in Int
    BY <1>1, <1>4
  <2>2. cap[m] * W <= left * w[m]
    BY <1>1, <1>3, <1>4, <2>1, RatioTransitive
  <2> QED
    BY <1>2, <2>2
<1>6. cap[i] * W \in Int /\ left * w[i] \in Int
  BY <1>1, <1>4
<1> QED
  BY <1>5, <1>6 DEF W, left

\* Where there is enough for everybody, everybody is granted what it wants.
LEMMA FillGivesAll ==
  ASSUME NEW capacity \in Nat, NEW w, NEW cap, Layer(w, cap),
         SumFunctionOnSet(cap, DOMAIN cap) <= capacity, NEW k \in DOMAIN cap
  PROVE  Fill(capacity, w, cap)[k] = cap[k]
<1> DEFINE S == DOMAIN cap
<1>1. PICK active \in SUBSET S :
        /\ Stands(capacity, w, cap, active) /\ ~ Saturates(capacity, w, cap, active)
        /\ Fill(capacity, w, cap) = Leveled(capacity, w, cap, active)
  BY FillEnds
<1>2. active = {}
  <2> SUFFICES ASSUME active # {} PROVE FALSE
    OBVIOUS
  <2> DEFINE W == SumFunctionOnSet(w, active)
             left == Left(capacity, cap, active)
             a == SumFunctionOnSet(cap, active)
             b == SumFunctionOnSet(cap, S \ active)
  <2>1. /\ IsFiniteSet(S) /\ IsFiniteSet(active)
        /\ left \in Nat /\ W \in Nat \ {0} /\ a \in Nat /\ b \in Nat
        /\ \A i \in S : cap[i] \in Int
    <3>1. S \ active \in SUBSET S
      OBVIOUS
    <3>2. b \in Nat
      BY <3>1, LayerSums
    <3>3. IsFiniteSet(active) /\ a \in Nat /\ W \in Nat \ {0}
      BY LayerSums
    <3> QED
      BY <1>1, <3>2, <3>3 DEF Stands, Layer
  <2>2. a + b <= capacity /\ left = capacity - b
    <3>1. SumFunctionOnSet(cap, S) = a + b
      BY <2>1, SumSplits
    <3> QED
      BY <3>1 DEF Left
  <2> HIDE DEF a, b, left, W
  <2>3. ASSUME NEW i \in active
        PROVE  cap[i] \in Int /\ w[i] \in Int /\ w[i] * left < cap[i] * W
    <3>1. cap[i] \in Nat /\ w[i] \in Nat
      BY DEF Layer
    <3>2. left * w[i] < cap[i] * W
      BY <1>1, NobodySaturates DEF W, left
    <3> QED
      BY <2>1, <3>1, <3>2
  <2>4. W * left < a * W
    <3>1. left \in Int /\ W \in Int
      BY <2>1
    <3> QED
      BY <2>1, <2>3, <3>1, SumWeighedStrictly DEF a, W
  <2>5. a <= left
    BY <2>1, <2>2
  <2>6. a * W <= left * W /\ left * W = W * left /\ a * W \in Int /\ W * left \in Int
    BY <2>1, <2>5, Scale
  <2> QED
    BY <2>4, <2>6
<1> QED
  BY <1>1, <1>2 DEF Leveled

\* Whoever is granted less than its cap has its ceiling there: the two fillings stop at
\* the same level, and round alike.
LEMMA CeilingIsGrant ==
  ASSUME NEW w, NEW cap, Layer(w, cap), Fine(w, cap), NEW k \in DOMAIN cap,
         NEW capacity \in Nat, NEW repl, repl[k] \in Nat,
         Fill(capacity, w, cap)[k] # cap[k]
  PROVE  Ceilings(capacity, w, cap, repl)[k] <= Fill(capacity, w, cap)[k]
<1> DEFINE S == DOMAIN cap
           F == Fill(capacity, w, cap)[k]
           C == Ceilings(capacity, w, cap, repl)[k]
           r == repl[k]
           L == LevelFor(k, capacity, w, cap, r)
           own == OwnTakes(k, L, w, r)
           T == Taken(L, w, cap)
           G == [i \in S |-> IF i = k THEN own ELSE T[i]]
<1>1. PICK active \in SUBSET S :
        /\ Stands(capacity, w, cap, active) /\ ~ Saturates(capacity, w, cap, active)
        /\ Fill(capacity, w, cap) = Leveled(capacity, w, cap, active)
  BY FillEnds
<1> DEFINE W == SumFunctionOnSet(w, active)
           left == Left(capacity, cap, active)
           rest == S \ active
           b == SumFunctionOnSet(cap, rest)
<1> SUFFICES ASSUME ~ (C <= F) PROVE FALSE
  OBVIOUS
<1>2. k \in active /\ F = (left * w[k]) \div W
  BY <1>1 DEF Leveled
<1>3. /\ F \in Nat /\ L \in Nat /\ C \in Nat /\ C * LevelUnit <= own /\ r \in Nat
  BY CeilingIsPaid, FillFits DEF Fits
<1>4. /\ ConsumedWith(k, L, w, cap, r) <= capacity * LevelUnit
  BY LevelIsPaid
<1>5. /\ left \in Nat /\ W \in Nat \ {0} /\ b \in Nat /\ capacity = left + b
      /\ LevelUnit \in Nat \ {0} /\ IsFiniteSet(S) /\ IsFiniteSet(active) /\ IsFiniteSet(rest)
  <2>1. rest \in SUBSET S
    OBVIOUS
  <2>2. b \in Nat /\ IsFiniteSet(rest)
    BY <2>1, LayerSums
  <2>3. left = capacity - b
    BY DEF Left
  <2>4. left \in Nat /\ W \in Nat \ {0} /\ LevelUnit \in Nat \ {0} /\ IsFiniteSet(active)
    BY <1>1, <1>2, LayerSums, WaterfillAssumption DEF Stands
  <2> HIDE DEF b, left, W, rest
  <2> QED
    BY <2>2, <2>3, <2>4 DEF Layer
<1>6. \A i \in S : cap[i] \in Nat /\ w[i] \in Nat \ {0}
  BY DEF Layer
<1>7. ASSUME NEW i \in active PROVE left * w[i] < cap[i] * W
  BY <1>1, NobodySaturates
<1>8. ASSUME NEW i \in rest PROVE cap[i] * W <= left * w[i]
  BY <1>1 DEF Stands
<1> HIDE DEF F, C, L, r, W, left, b
<1>9. own \in Nat /\ own <= w[k] * L /\ w[k] * L \in Nat
  <2>1. w[k] * L \in Nat
    BY <1>3, <1>6, ProductIsNat
  <2> QED
    BY <1>3, <2>1, CappedIsNat DEF OwnTakes
<1>10. /\ \A i \in S : T[i] \in Nat
       /\ \A i \in S : T[i] = Smaller(cap[i] * LevelUnit, w[i] * L)
  <2>1. \A i \in S : T[i] \in Nat
    BY <1>3, TakenIsNat
  <2>2. \A i \in S : T[i] = Smaller(cap[i] * LevelUnit, w[i] * L)
    BY DEF Taken
  <2> QED
    BY <2>1, <2>2
<1>11. SumFunctionOnSet(G, S) <= capacity * LevelUnit
  <2>1. ConsumedWith(k, L, w, cap, r) = OthersTake(k, L, w, cap) + own
    BY <1>3, ConsumedWithIsTaken
  <2>2. OthersTake(k, L, w, cap) = SumFunctionOnSet(T, S \ {k})
    BY DEF OthersTake
  <2>3. IsFiniteSet(S \ {k}) /\ \A i \in S \ {k} : T[i] \in Int /\ T[i] = G[i]
    BY <1>10, FS_Subset DEF Layer
  <2>4. G[k] = own /\ \A i \in S : G[i] \in Int
    BY <1>9, <1>10
  <2> HIDE DEF T, G, own
  <2>5. SumFunctionOnSet(T, S \ {k}) = SumFunctionOnSet(G, S \ {k})
    BY <2>3, SumIsSame
  <2>6. SumFunctionOnSet(G, S) = G[k] + SumFunctionOnSet(G, S \ {k})
    BY <1>5, <2>4, SumWithout
  <2>7. SumFunctionOnSet(G, S \ {k}) \in Int
    BY <2>3, <2>4, SumIsInt
  <2>8. own \in Int
    BY <1>9 DEF own
  <2> QED
    BY <1>4, <2>1, <2>2, <2>4, <2>5, <2>6, <2>7, <2>8
<1>12. G[k] = own /\ \A i \in S : i # k => G[i] = T[i]
  OBVIOUS
<1>13. \A i \in S : G[i] \in Int
  BY <1>9, <1>10, <1>12
<1> HIDE DEF G, T, own

\* The level has passed that of the grants.
<1>14. left * w[k] < (F + 1) * W /\ left * w[k] \in Nat
  BY <1>2, <1>5, <1>6
<1>15. (left * w[k]) * LevelUnit < own * W
  <2>1. (left * w[k]) * LevelUnit < ((F + 1) * W) * LevelUnit
    BY <1>3, <1>5, <1>14, ScaleStrictly
  <2>2. (F + 1) * LevelUnit <= C * LevelUnit
    BY <1>3, <1>5, Scale
  <2>3. (F + 1) * LevelUnit <= own
    BY <1>3, <1>5, <1>9, <2>2
  <2>4. ((F + 1) * LevelUnit) * W <= own * W
    BY <1>3, <1>5, <1>9, <2>3, Scale
  <2>5. ((F + 1) * LevelUnit) * W = ((F + 1) * W) * LevelUnit
    BY <1>3, <1>5
  <2>6. /\ ((F + 1) * W) * LevelUnit \in Int /\ own * W \in Int /\ (left * w[k]) * LevelUnit \in Int
    BY <1>3, <1>5, <1>9, <1>14
  <2> QED
    BY <2>1, <2>4, <2>5, <2>6
<1> DEFINE n == left * LevelUnit
<1>16. n < L * W /\ n \in Nat /\ L * W \in Nat
  <2>1. n \in Nat /\ L * W \in Nat
    BY <1>3, <1>5, ProductIsNat
  <2> HIDE DEF n
  <2> SUFFICES ASSUME L * W <= n PROVE FALSE
    BY <2>1
  <2>2. w[k] \in Nat
    BY <1>6
  <2>3. (L * W) * w[k] <= n * w[k]
    BY <2>1, <2>2, Scale
  <2>4. own * W <= (w[k] * L) * W
    BY <1>5, <1>9, Scale
  <2>5. (w[k] * L) * W = (L * W) * w[k]
    BY <1>3, <1>5, <2>2
  <2>6. n * w[k] = (left * w[k]) * LevelUnit
    BY <1>5, <2>2 DEF n
  <2>7. own * W \in Int /\ (L * W) * w[k] \in Int /\ n * w[k] \in Int
    BY <1>5, <1>9, <2>1, <2>2
  <2> QED
    BY <1>15, <2>3, <2>4, <2>5, <2>6, <2>7
<1>17. ASSUME NEW i \in rest
       PROVE  cap[i] \in Int /\ G[i] = cap[i] * LevelUnit
  <2>1. cap[i] \in Nat /\ w[i] \in Nat \ {0} /\ i # k /\ i \in S
    BY <1>2, <1>6
  <2>2. /\ cap[i] * W <= left * w[i] /\ left * LevelUnit <= L * W
        /\ cap[i] \in Int /\ left \in Int /\ L \in Int
    BY <1>3, <1>5, <1>8, <1>16, <2>1
  <2>3. cap[i] * LevelUnit <= L * w[i]
    BY <1>5, <2>1, <2>2, RatioTransitive
  <2>4. L * w[i] = w[i] * L /\ cap[i] * LevelUnit \in Nat /\ w[i] * L \in Nat
    BY <1>3, <1>5, <2>1, ProductIsNat
  <2> QED
    BY <1>10, <1>12, <2>1, <2>3, <2>4 DEF Smaller
<1>18. ASSUME NEW i \in active
       PROVE  w[i] \in Int /\ G[i] \in Int /\ w[i] * n < G[i] * W
  <2>1. cap[i] \in Nat /\ w[i] \in Nat \ {0} /\ i \in S /\ G[i] \in Int
    BY <1>6, <1>13
  <2>2. w[i] * n = (left * w[i]) * LevelUnit
    BY <1>5, <2>1
  <2>3. CASE i = k
    BY <1>12, <1>15, <2>1, <2>2, <2>3
  <2>4. CASE i # k /\ G[i] = cap[i] * LevelUnit
    <3>1. (left * w[i]) * LevelUnit < (cap[i] * W) * LevelUnit
      <4>1. left * w[i] \in Int /\ cap[i] * W \in Int
        BY <1>5, <2>1
      <4> QED
        BY <1>5, <1>7, <4>1, ScaleStrictly
    <3>2. (cap[i] * W) * LevelUnit = (cap[i] * LevelUnit) * W
      BY <1>5, <2>1
    <3> QED
      BY <2>1, <2>2, <2>4, <3>1, <3>2
  <2>5. CASE i # k /\ G[i] = w[i] * L
    <3> HIDE DEF n
    <3>1. n * w[i] < (L * W) * w[i]
      BY <1>16, <2>1, ScaleStrictly
    <3>2. n * w[i] = w[i] * n /\ (L * W) * w[i] = (w[i] * L) * W
      BY <1>3, <1>5, <1>16, <2>1
    <3> QED
      BY <2>1, <2>5, <3>1, <3>2
  <2>6. i # k => G[i] = cap[i] * LevelUnit \/ G[i] = w[i] * L
    BY <1>10, <1>12, <2>1 DEF Smaller
  <2> QED
    BY <2>3, <2>4, <2>5, <2>6
<1> HIDE DEF n
<1> DEFINE x == SumFunctionOnSet(G, active)
           y == SumFunctionOnSet(G, rest)
<1>19. SumFunctionOnSet(G, S) = x + y /\ x \in Int
  <2>1. \A i \in active : G[i] \in Int
    BY <1>13
  <2> QED
    BY <1>5, <1>13, <2>1, SumSplits, SumIsInt
<1>20. y = b * LevelUnit
  <2> HIDE DEF rest
  <2>1. IsFiniteSet(rest) /\ LevelUnit \in Int
    BY <1>5
  <2>2. \A i \in rest : cap[i] \in Int /\ G[i] = cap[i] * LevelUnit
    BY <1>17
  <2>3. SumFunctionOnSet(G, rest) = SumFunctionOnSet(cap, rest) * LevelUnit
    BY <2>1, <2>2, SumTimes
  <2> QED
    BY <2>3 DEF b
<1>21. W * n < x * W
  <2>1. active # {} /\ n \in Int /\ W \in Int
    BY <1>2, <1>5, <1>16
  <2> QED
    BY <1>5, <1>18, <2>1, SumWeighedStrictly DEF W
<1>22. x > n
  <2> HIDE DEF x
  <2> SUFFICES ASSUME x <= n PROVE FALSE
    BY <1>16, <1>19
  <2>1. x * W <= n * W /\ n * W = W * n
    BY <1>5, <1>16, <1>19, Scale
  <2>2. x * W \in Int /\ W * n \in Int
    BY <1>5, <1>16, <1>19
  <2> QED
    BY <1>21, <2>1, <2>2
<1> HIDE DEF x, y
<1>23. capacity * LevelUnit = n + b * LevelUnit /\ b * LevelUnit \in Nat
  BY <1>5, ProductIsNat DEF n
<1> QED
  BY <1>11, <1>16, <1>19, <1>20, <1>22, <1>23

\* To want more than all there is makes no difference to the others.
LEMMA CeilingIgnoresBig ==
  ASSUME NEW w, NEW cap, Layer(w, cap), Fine(w, cap), NEW big, Layer(w, big), Fine(w, big),
         DOMAIN big = DOMAIN cap,
         NEW k \in DOMAIN cap, NEW capacity \in Nat,
         \A i \in DOMAIN cap : big[i] = cap[i] \/ cap[i] >= capacity,
         NEW repl, repl[k] \in Nat
  PROVE  Ceilings(capacity, w, cap, repl)[k] <= Ceilings(capacity, w, big, repl)[k]
<1> DEFINE S == DOMAIN cap
           n == Ceilings(capacity, w, cap, repl)[k]
           r == repl[k]
           t == LevelFor(k, capacity, w, cap, r)
           own == OwnTakes(k, t, w, r)
           A == Taken(t, w, cap)
           B == Taken(t, w, big)
<1>1. /\ t \in Nat /\ n \in Nat /\ n * LevelUnit <= own
  BY CeilingIsPaid
<1>2. ConsumedWith(k, t, w, cap, r) <= capacity * LevelUnit
  BY LevelIsPaid
<1>3. /\ LevelUnit \in Nat \ {0} /\ r \in Nat
      /\ \A i \in S : big[i] \in Nat /\ cap[i] \in Nat /\ w[i] \in Nat
  BY WaterfillAssumption DEF Layer
<1>4. Ceilings(capacity, w, big, repl)[k] \in Nat
  BY CeilingIsPaid
<1> HIDE DEF n, t, r
<1>5. /\ OwnTakes(k, t, w, r) = own
      /\ ConsumedWith(k, t, w, big, r) = OthersTake(k, t, w, big) + own
      /\ ConsumedWith(k, t, w, cap, r) = OthersTake(k, t, w, cap) + own
      /\ own \in Nat
  <2>1. OwnTakes(k, t, w, r) = own
    BY DEF OwnTakes
  <2>2. /\ ConsumedWith(k, t, w, cap, r) = OthersTake(k, t, w, cap) + own
        /\ own \in Nat
    BY <1>1, <1>3, ConsumedWithIsTaken
  <2>3. ConsumedWith(k, t, w, big, r) = OthersTake(k, t, w, big) + OwnTakes(k, t, w, r)
    BY <1>1, <1>3, ConsumedWithIsTaken
  <2> QED
    BY <2>1, <2>2, <2>3
<1>6. \A i \in S : A[i] \in Nat /\ B[i] \in Nat
  BY <1>1, TakenIsNat
<1>7. /\ \A i \in S : A[i] = Smaller(cap[i] * LevelUnit, w[i] * t)
      /\ \A i \in S : B[i] = Smaller(big[i] * LevelUnit, w[i] * t)
  BY DEF Taken
<1>8. /\ IsFiniteSet(S \ {k})
      /\ OthersTake(k, t, w, cap) = SumFunctionOnSet(A, S \ {k})
      /\ OthersTake(k, t, w, big) = SumFunctionOnSet(B, S \ {k})
  BY FS_Subset DEF OthersTake, Layer
<1> HIDE DEF A, B, own
<1>9. \A i \in S \ {k} : A[i] \in Nat /\ A[i] \in Int /\ B[i] \in Int
  BY <1>6
<1>10. /\ SumFunctionOnSet(A, S \ {k}) \in Nat /\ SumFunctionOnSet(B, S \ {k}) \in Int
       /\ \A i \in S \ {k} : A[i] <= SumFunctionOnSet(A, S \ {k})
  <2>1. SumFunctionOnSet(B, S \ {k}) \in Int
    BY <1>8, <1>9, SumIsInt
  <2>2. /\ SumFunctionOnSet(A, S \ {k}) \in Nat
        /\ \A i \in S \ {k} : A[i] <= SumFunctionOnSet(A, S \ {k})
    BY <1>8, <1>9, SumIsNat
  <2> QED
    BY <2>1, <2>2
<1>11. CASE n = 0
  BY <1>1, <1>4, <1>11 DEF n
<1>12. CASE n # 0
  <2>1. n * LevelUnit > 0 /\ n * LevelUnit \in Nat /\ capacity * LevelUnit \in Nat
    BY <1>1, <1>3, <1>12, ProductIsNat
  <2>2. own > 0
    BY <1>1, <1>5, <2>1
  <2>3. ASSUME NEW i \in S \ {k} PROVE B[i] <= A[i]
    <3>1. /\ big[i] * LevelUnit \in Nat /\ cap[i] * LevelUnit \in Nat /\ w[i] * t \in Nat
      BY <1>1, <1>3, ProductIsNat
    <3>2. CASE big[i] = cap[i]
      BY <1>7, <1>9, <3>2
    <3>3. CASE cap[i] >= capacity
      <4>1. capacity * LevelUnit <= cap[i] * LevelUnit
        BY <1>3, <3>3, Scale
      <4>2. A[i] < capacity * LevelUnit
        <5>1. OthersTake(k, t, w, cap) + own <= capacity * LevelUnit
          BY <1>2, <1>5
        <5>2. A[i] <= OthersTake(k, t, w, cap) /\ A[i] \in Nat /\ OthersTake(k, t, w, cap) \in Nat
          BY <1>8, <1>9, <1>10
        <5> QED
          BY <1>5, <2>1, <2>2, <5>1, <5>2
      <4> QED
        BY <1>7, <2>1, <3>1, <4>1, <4>2 DEF Smaller
    <3> QED
      BY <3>2, <3>3
  <2>4. SumFunctionOnSet(B, S \ {k}) <= SumFunctionOnSet(A, S \ {k})
    BY <1>8, <1>9, <2>3, SumGrows
  <2>5. ConsumedWith(k, t, w, big, r) <= capacity * LevelUnit
    BY <1>2, <1>5, <1>8, <1>10, <2>1, <2>4
  <2>6. n * LevelUnit <= OwnTakes(k, t, w, r)
    BY <1>1, <1>5
  <2> QED
    BY <1>1, <2>5, <2>6, CeilingIsBest DEF n, r
<1> QED
  BY <1>11, <1>12

------------------------------------------------------------------------------
(* Three layers: ceilings fit together *)

\* Levels are fine enough for whatever weight meets another.
FineFor(pol, want) ==
  \A f \in DOMAIN want :
    /\ LevelUnit % pol.weight[DstOf[f]] = 0
    /\ LevelUnit % pol.clsWeight[DstOf[f]][ClsOf[f]] = 0
    /\ LevelUnit % pol.fsWeight[f] = 0

LEMMA LayersAreFine ==
  ASSUME NEW want, NEW pol, FineFor(pol, want)
  PROVE  /\ Fine(VmWeights(pol, want), VmCaps(pol, want))
         /\ \A vm \in VmsOf(want) : Fine(ClassWeights(pol, want, vm), ClassCaps(want, vm))
         /\ \A vm, c : Fine(LeafWeights(pol, want, vm, c), LeafCaps(want, vm, c))
<1>1. Fine(VmWeights(pol, want), VmCaps(pol, want))
  BY DEF Fine, FineFor, VmWeights, VmCaps, VmsOf
<1>2. ASSUME NEW vm \in VmsOf(want)
      PROVE  Fine(ClassWeights(pol, want, vm), ClassCaps(want, vm))
  BY DEF Fine, FineFor, ClassWeights, ClassCaps, ClassesOf
<1>3. ASSUME NEW vm, NEW c PROVE Fine(LeafWeights(pol, want, vm, c), LeafCaps(want, vm, c))
  BY DEF Fine, FineFor, LeafWeights, LeafCaps, InClass
<1> QED
  BY <1>1, <1>2, <1>3

\* One who wants n makes its class and its VM want at least as much.
LEMMA WantsAddUp ==
  ASSUME NEW want, Wants(want), NEW f \in DOMAIN want
  PROVE  /\ VmDemand(want, DstOf[f]) \in Nat /\ want[f] <= VmDemand(want, DstOf[f])
         /\ ClassCaps(want, DstOf[f])[ClsOf[f]] \in Nat
         /\ want[f] <= ClassCaps(want, DstOf[f])[ClsOf[f]]
<1> DEFINE S == {g \in DOMAIN want : DstOf[g] = DstOf[f]}
           U == InClass(want, DstOf[f], ClsOf[f])
<1>1. /\ IsFiniteSet(S) /\ IsFiniteSet(U) /\ f \in S /\ f \in U
      /\ \A g \in S : want[g] \in Nat
      /\ \A g \in U : want[g] \in Nat
  <2>1. IsFiniteSet(S) /\ IsFiniteSet(U)
    BY PartsAreFinite
  <2>2. f \in S /\ f \in U
    BY Placed
  <2>3. S \in SUBSET DOMAIN want /\ U \in SUBSET DOMAIN want
    BY DEF InClass
  <2> HIDE DEF S, U
  <2> QED
    BY <2>1, <2>2, <2>3 DEF Wants
<1>2. /\ VmDemand(want, DstOf[f]) = SumFunctionOnSet(want, S)
      /\ ClassCaps(want, DstOf[f])[ClsOf[f]] = SumFunctionOnSet(want, U)
  BY Placed DEF VmDemand, ClassCaps
<1> HIDE DEF S, U
<1>3. SumFunctionOnSet(want, S) \in Nat /\ want[f] <= SumFunctionOnSet(want, S)
  BY <1>1, SumIsNat
<1>4. SumFunctionOnSet(want, U) \in Nat /\ want[f] <= SumFunctionOnSet(want, U)
  BY <1>1, SumIsNat
<1> QED
  BY <1>2, <1>3, <1>4

\* Ceilings are natural, none is above the root or the MaxRate of its VM, and those of
\* the flow-sets that want at least what the root has fit together, at their VM and
\* at the root, though each is found as if it were alone in wanting everything.
THEOREM CeilingsAreWithin ==
  ASSUME NEW root \in Nat, root <= Unlimited, NEW want, Wants(want),
         NEW pol, Covers(pol, want), FineFor(pol, want),
         NEW A \in SUBSET DOMAIN want, \A f \in A : want[f] >= root
  PROVE  LET ceil == FairCeilings(root, pol, want)
         IN /\ ceil \in [DOMAIN want -> Nat]
            /\ \A vm \in VmsOf(want) :
                 SumFunctionOnSet(ceil, {f \in A : DstOf[f] = vm}) <= pol.maxRate[vm]
            /\ SumFunctionOnSet(ceil, A) <= root
<1> DEFINE unbounded(S) == [x \in S |-> Unlimited]
           own == [vm \in VmsOf(want) |-> pol.maxRate[vm]]
           vms == Ceilings(root, VmWeights(pol, want), VmCaps(pol, want), own)
           classes == [vm \in VmsOf(want) |->
                         Ceilings(vms[vm], ClassWeights(pol, want, vm),
                                  ClassCaps(want, vm), unbounded(ClassesOf(want, vm)))]
           leaves == [vm \in VmsOf(want) |-> [c \in ClassesOf(want, vm) |->
                        Ceilings(classes[vm][c], LeafWeights(pol, want, vm, c),
                                 LeafCaps(want, vm, c), unbounded(InClass(want, vm, c)))]]
           ceil == [f \in DOMAIN want |-> leaves[DstOf[f]][ClsOf[f]][f]]
           At(vm) == {f \in A : DstOf[f] = vm}
           In(vm, c) == {f \in At(vm) : ClsOf[f] = c}
           VmsIn == {DstOf[f] : f \in A}
           ClassesIn(vm) == {ClsOf[f] : f \in At(vm)}
<1>1. FairCeilings(root, pol, want) = ceil
  BY DEF FairCeilings
<1>2. /\ Unlimited \in Nat /\ \A S : \A x \in S : unbounded(S)[x] = Unlimited
      /\ \A vm \in VmsOf(want) : own[vm] = pol.maxRate[vm] /\ pol.maxRate[vm] \in Nat
  BY WaterfillAssumption, VmLayer
<1>3. /\ \A f \in A : DstOf[f] \in VmsOf(want) /\ ClsOf[f] \in ClassesOf(want, DstOf[f])
      /\ \A vm, c : In(vm, c) \in SUBSET InClass(want, vm, c)
      /\ \A vm : ClassesIn(vm) \in SUBSET ClassesOf(want, vm)
      /\ VmsIn \in SUBSET VmsOf(want)
  BY DEF VmsOf, ClassesOf, InClass
<1>4. /\ IsFiniteSet(A) /\ IsFiniteSet(VmsIn)
      /\ \A vm : IsFiniteSet(At(vm)) /\ IsFiniteSet(ClassesIn(vm))
      /\ \A vm, c : IsFiniteSet(In(vm, c))
  <2>1. IsFiniteSet(A)
    BY FS_Subset DEF Wants
  <2>2. \A vm, c : At(vm) \in SUBSET A /\ In(vm, c) \in SUBSET A
    OBVIOUS
  <2> HIDE DEF At, In
  <2>3. \A vm, c : IsFiniteSet(At(vm)) /\ IsFiniteSet(In(vm, c))
    BY <2>1, <2>2, FS_Subset
  <2> QED
    BY <2>1, <2>3, ValuesAreFinite
<1> HIDE DEF unbounded, own

<1>5. ASSUME NEW vm \in VmsOf(want)
      PROVE  vms[vm] \in Nat /\ vms[vm] <= root /\ vms[vm] <= pol.maxRate[vm]
  <2>1. /\ Layer(VmWeights(pol, want), VmCaps(pol, want))
        /\ Fine(VmWeights(pol, want), VmCaps(pol, want))
        /\ vm \in DOMAIN VmCaps(pol, want) /\ own[vm] \in Nat
    BY <1>2, VmLayer, LayersAreFine
  <2>2. vms[vm] \in Nat /\ vms[vm] <= root /\ (own[vm] # Unlimited => vms[vm] <= own[vm])
    BY <2>1, CeilingIsPaid
  <2> HIDE DEF vms
  <2> QED
    BY <1>2, <2>2
<1>6. SumFunctionOnSet(vms, VmsIn) \in Nat /\ SumFunctionOnSet(vms, VmsIn) <= root
  <2>1. /\ Layer(VmWeights(pol, want), VmCaps(pol, want))
        /\ Fine(VmWeights(pol, want), VmCaps(pol, want))
        /\ VmsIn \in SUBSET DOMAIN VmCaps(pol, want)
    BY <1>3, VmLayer, LayersAreFine
  <2>2. ASSUME NEW vm \in VmsIn
        PROVE  own[vm] \in Nat /\ Hungry(vm, root, VmCaps(pol, want), own)
    <3>1. PICK f \in A : DstOf[f] = vm
      OBVIOUS
    <3>2. VmDemand(want, vm) \in Nat /\ VmDemand(want, vm) >= root
      <4>1. VmDemand(want, vm) \in Nat /\ want[f] <= VmDemand(want, vm)
        BY <3>1, WantsAddUp
      <4>2. want[f] \in Nat /\ want[f] >= root
        BY DEF Wants
      <4> QED
        BY <4>1, <4>2
    <3>3. VmCaps(pol, want)[vm] = Smaller(pol.maxRate[vm], VmDemand(want, vm))
      BY <1>3 DEF VmCaps
    <3>4. own[vm] = pol.maxRate[vm] /\ pol.maxRate[vm] \in Nat
      BY <1>2, <1>3
    <3> QED
      BY <1>2, <3>2, <3>3, <3>4 DEF Hungry, Smaller
  <2> HIDE DEF VmsIn
  <2> QED
    BY <2>1, <2>2, HungryCeilingsFit
<1> HIDE DEF vms

<1>7. ASSUME NEW vm \in VmsOf(want)
      PROVE  /\ \A c \in ClassesOf(want, vm) : classes[vm][c] \in Nat /\ classes[vm][c] <= vms[vm]
             /\ SumFunctionOnSet(classes[vm], ClassesIn(vm)) \in Nat
             /\ SumFunctionOnSet(classes[vm], ClassesIn(vm)) <= vms[vm]
  <2> DEFINE w == ClassWeights(pol, want, vm)
             cap == ClassCaps(want, vm)
             repl == unbounded(ClassesOf(want, vm))
  <2>1. classes[vm] = Ceilings(vms[vm], w, cap, repl)
    OBVIOUS
  <2>2. /\ Layer(w, cap) /\ Fine(w, cap) /\ DOMAIN cap = ClassesOf(want, vm)
        /\ \A c \in ClassesOf(want, vm) : repl[c] = Unlimited /\ repl[c] \in Nat
    BY <1>2, ClassLayer, LayersAreFine
  <2>3. ASSUME NEW c \in ClassesIn(vm) PROVE cap[c] >= vms[vm]
    <3>1. PICK f \in A : DstOf[f] = vm /\ ClsOf[f] = c
      OBVIOUS
    <3>2. cap[c] \in Nat /\ want[f] <= cap[c]
      BY <3>1, WantsAddUp
    <3>3. want[f] \in Nat /\ want[f] >= root
      BY DEF Wants
    <3>4. vms[vm] \in Nat /\ vms[vm] <= root
      BY <1>5
    <3> HIDE DEF cap
    <3> QED
      BY <3>2, <3>3, <3>4
  <2>4. vms[vm] \in Nat /\ ClassesIn(vm) \in SUBSET DOMAIN cap
    BY <1>3, <1>5, <2>2
  <2> HIDE DEF classes, w, cap, repl, ClassesIn
  <2>5. \A c \in ClassesOf(want, vm) : classes[vm][c] \in Nat /\ classes[vm][c] <= vms[vm]
    BY <2>1, <2>2, <2>4, CeilingIsPaid
  <2>6. \A c \in ClassesIn(vm) : repl[c] \in Nat /\ Hungry(c, vms[vm], cap, repl)
    BY <2>2, <2>3, <2>4 DEF Hungry
  <2>7. /\ SumFunctionOnSet(classes[vm], ClassesIn(vm)) \in Nat
        /\ SumFunctionOnSet(classes[vm], ClassesIn(vm)) <= vms[vm]
    BY <2>1, <2>2, <2>4, <2>6, HungryCeilingsFit
  <2> QED
    BY <2>5, <2>7
<1> HIDE DEF classes

<1>8. ASSUME NEW vm \in VmsOf(want), NEW c \in ClassesOf(want, vm)
      PROVE  /\ \A f \in InClass(want, vm, c) : leaves[vm][c][f] \in Nat
             /\ SumFunctionOnSet(leaves[vm][c], In(vm, c)) <= classes[vm][c]
  <2> DEFINE w == LeafWeights(pol, want, vm, c)
             cap == LeafCaps(want, vm, c)
             repl == unbounded(InClass(want, vm, c))
  <2>1. leaves[vm][c] = Ceilings(classes[vm][c], w, cap, repl)
    OBVIOUS
  <2>2. /\ Layer(w, cap) /\ Fine(w, cap) /\ DOMAIN cap = InClass(want, vm, c)
        /\ \A f \in InClass(want, vm, c) :
             repl[f] = Unlimited /\ repl[f] \in Nat /\ cap[f] = want[f]
    BY <1>2, LeafLayer, LayersAreFine
  <2>3. /\ classes[vm][c] \in Nat /\ In(vm, c) \in SUBSET DOMAIN cap
        /\ classes[vm][c] <= root
    <3>1. classes[vm][c] \in Nat /\ classes[vm][c] <= vms[vm] /\ vms[vm] \in Nat /\ vms[vm] <= root
      BY <1>5, <1>7
    <3>2. In(vm, c) \in SUBSET DOMAIN cap
      BY <1>3, <2>2
    <3> QED
      BY <3>1, <3>2
  <2>4. ASSUME NEW f \in In(vm, c) PROVE cap[f] >= classes[vm][c]
    <3>1. f \in A /\ want[f] \in Nat /\ want[f] >= root /\ cap[f] = want[f]
      BY <2>2, <2>3 DEF Wants
    <3> HIDE DEF cap
    <3> QED
      BY <2>3, <3>1
  <2> HIDE DEF leaves, w, cap, repl, In
  <2>5. \A f \in InClass(want, vm, c) : leaves[vm][c][f] \in Nat
    BY <2>1, <2>2, <2>3, CeilingIsPaid
  <2>6. \A f \in In(vm, c) : repl[f] \in Nat /\ Hungry(f, classes[vm][c], cap, repl)
    BY <2>2, <2>3, <2>4 DEF Hungry
  <2>7. SumFunctionOnSet(leaves[vm][c], In(vm, c)) <= classes[vm][c]
    BY <2>1, <2>2, <2>3, <2>6, HungryCeilingsFit
  <2> QED
    BY <2>5, <2>7

<1>9. /\ DOMAIN ceil = DOMAIN want
      /\ \A f \in DOMAIN want : ceil[f] = leaves[DstOf[f]][ClsOf[f]][f]
  OBVIOUS
<1> HIDE DEF leaves
<1>10. \A f \in DOMAIN want : ceil[f] \in Nat
  BY <1>8, <1>9, Placed
<1>11. ceil \in [DOMAIN want -> Nat]
  BY <1>10
<1> HIDE DEF ceil
<1>12. ASSUME NEW vm \in VmsOf(want)
       PROVE  SumFunctionOnSet(ceil, At(vm)) \in Nat /\ SumFunctionOnSet(ceil, At(vm)) <= vms[vm]
  <2>1. ASSUME NEW c \in ClassesIn(vm)
        PROVE  SumFunctionOnSet(ceil, {f \in At(vm) : ClsOf[f] = c}) <= classes[vm][c]
    <3>1. c \in ClassesOf(want, vm) /\ In(vm, c) \in SUBSET InClass(want, vm, c)
      BY <1>3
    <3>2. \A f \in In(vm, c) : ceil[f] \in Int /\ ceil[f] = leaves[vm][c][f]
      BY <1>9, <1>10
    <3>3. IsFiniteSet(In(vm, c)) /\ {f \in At(vm) : ClsOf[f] = c} = In(vm, c)
      BY <1>4
    <3> HIDE DEF In
    <3>4. SumFunctionOnSet(ceil, In(vm, c)) = SumFunctionOnSet(leaves[vm][c], In(vm, c))
      BY <3>2, <3>3, SumIsSame
    <3> QED
      BY <1>8, <3>1, <3>3, <3>4
  <2>2. \A f \in At(vm) : ceil[f] \in Nat /\ ceil[f] \in Int /\ ClsOf[f] \in ClassesIn(vm)
    BY <1>10
  <2>3. \A c \in ClassesIn(vm) : classes[vm][c] \in Int
    <3>1. ClassesIn(vm) \in SUBSET ClassesOf(want, vm)
      BY <1>3
    <3> HIDE DEF ClassesIn
    <3> QED
      BY <1>7, <3>1
  <2>4. IsFiniteSet(At(vm)) /\ IsFiniteSet(ClassesIn(vm))
    BY <1>4
  <2> HIDE DEF At, ClassesIn
  <2>5. SumFunctionOnSet(ceil, At(vm)) <= SumFunctionOnSet(classes[vm], ClassesIn(vm))
    BY <2>1, <2>2, <2>3, <2>4, SumByParts
  <2>6. SumFunctionOnSet(ceil, At(vm)) \in Nat
    BY <2>2, <2>4, SumIsNat
  <2> QED
    BY <1>5, <1>7, <2>5, <2>6
<1>13. SumFunctionOnSet(ceil, A) <= root
  <2>1. \A f \in A : ceil[f] \in Nat /\ ceil[f] \in Int /\ DstOf[f] \in VmsIn
    BY <1>10
  <2>2. \A vm \in VmsIn : vms[vm] \in Int
    BY <1>3, <1>5
  <2>3. \A vm \in VmsIn : SumFunctionOnSet(ceil, {f \in A : DstOf[f] = vm}) <= vms[vm]
    BY <1>3, <1>12
  <2> HIDE DEF VmsIn
  <2>4. SumFunctionOnSet(ceil, A) <= SumFunctionOnSet(vms, VmsIn)
    BY <1>4, <2>1, <2>2, <2>3, SumByParts
  <2>5. SumFunctionOnSet(ceil, A) \in Nat
    BY <1>4, <2>1, SumIsNat
  <2> QED
    BY <1>6, <2>4, <2>5
<1>14. ASSUME NEW vm \in VmsOf(want)
       PROVE  SumFunctionOnSet(ceil, {f \in A : DstOf[f] = vm}) <= pol.maxRate[vm]
  <2> HIDE DEF At
  <2>1. SumFunctionOnSet(ceil, At(vm)) <= pol.maxRate[vm]
    BY <1>2, <1>5, <1>12
  <2> QED
    BY <2>1 DEF At
<1> QED
  BY <1>1, <1>11, <1>13, <1>14

------------------------------------------------------------------------------
(* Three layers: grants and ceilings *)

\* What the two fillings give at each layer.
VmGrants(root, pol, want) == Fill(root, VmWeights(pol, want), VmCaps(pol, want))
ClassGrants(root, pol, want, vm) ==
  Fill(VmGrants(root, pol, want)[vm], ClassWeights(pol, want, vm), ClassCaps(want, vm))
LeafGrants(root, pol, want, vm, c) ==
  Fill(ClassGrants(root, pol, want, vm)[c], LeafWeights(pol, want, vm, c), LeafCaps(want, vm, c))

Unbounded(S) == [x \in S |-> Unlimited]
VmCeilings(root, pol, want) ==
  Ceilings(root, VmWeights(pol, want), VmCaps(pol, want), [vm \in VmsOf(want) |-> pol.maxRate[vm]])
ClassCeilings(root, pol, want, vm) ==
  Ceilings(VmCeilings(root, pol, want)[vm], ClassWeights(pol, want, vm),
           ClassCaps(want, vm), Unbounded(ClassesOf(want, vm)))
LeafCeilings(root, pol, want, vm, c) ==
  Ceilings(ClassCeilings(root, pol, want, vm)[c], LeafWeights(pol, want, vm, c),
           LeafCaps(want, vm, c), Unbounded(InClass(want, vm, c)))

LEMMA FoundByLayer ==
  ASSUME NEW root, NEW pol, NEW want
  PROVE  /\ DOMAIN Grants(root, pol, want) = DOMAIN want
         /\ DOMAIN FairCeilings(root, pol, want) = DOMAIN want
         /\ \A f \in DOMAIN want :
              /\ Grants(root, pol, want)[f] = LeafGrants(root, pol, want, DstOf[f], ClsOf[f])[f]
              /\ FairCeilings(root, pol, want)[f] =
                   LeafCeilings(root, pol, want, DstOf[f], ClsOf[f])[f]
<1>1. /\ DOMAIN Grants(root, pol, want) = DOMAIN want
      /\ \A f \in DOMAIN want :
           Grants(root, pol, want)[f] = LeafGrants(root, pol, want, DstOf[f], ClsOf[f])[f]
  BY Placed DEF Grants, VmGrants, ClassGrants, LeafGrants
<1>2. /\ DOMAIN FairCeilings(root, pol, want) = DOMAIN want
      /\ \A f \in DOMAIN want : FairCeilings(root, pol, want)[f] =
                                  LeafCeilings(root, pol, want, DstOf[f], ClsOf[f])[f]
  BY Placed DEF FairCeilings, VmCeilings, ClassCeilings, LeafCeilings, Unbounded
<1> QED
  BY <1>1, <1>2

LEMMA ShareFits ==
  ASSUME NEW capacity \in Nat, NEW w, NEW cap, Layer(w, cap), NEW k \in DOMAIN cap
  PROVE  LET n == Fill(capacity, w, cap)[k] IN n \in Nat /\ n <= cap[k] /\ n <= capacity
<1> DEFINE alloc == Fill(capacity, w, cap)
<1>1. Fits(alloc, capacity, cap)
  BY FillFits
<1> HIDE DEF alloc
<1>2. /\ IsFiniteSet(DOMAIN cap) /\ \A i \in DOMAIN cap : alloc[i] \in Nat
      /\ alloc[k] <= cap[k] /\ SumFunctionOnSet(alloc, DOMAIN cap) <= capacity
      /\ cap[k] \in Nat
  BY <1>1 DEF Fits, Layer
<1>3. SumFunctionOnSet(alloc, DOMAIN cap) \in Nat /\ alloc[k] <= SumFunctionOnSet(alloc, DOMAIN cap)
  BY <1>2, SumIsNat
<1>4. alloc[k] \in Nat /\ alloc[k] <= cap[k] /\ alloc[k] <= capacity
  BY <1>2, <1>3
<1> QED
  BY <1>4 DEF alloc

\* Every layer gives no more than it has, and no more than is wanted of it.
LEMMA GivenByLayer ==
  ASSUME NEW root \in Nat, root <= Unlimited, NEW want, Wants(want),
         NEW pol, Covers(pol, want), FineFor(pol, want),
         NEW vm \in VmsOf(want), NEW c \in ClassesOf(want, vm)
  PROVE  /\ VmGrants(root, pol, want)[vm] \in Nat /\ VmGrants(root, pol, want)[vm] <= root
         /\ VmGrants(root, pol, want)[vm] <= VmCaps(pol, want)[vm]
         /\ ClassGrants(root, pol, want, vm)[c] \in Nat
         /\ ClassGrants(root, pol, want, vm)[c] <= VmGrants(root, pol, want)[vm]
         /\ ClassGrants(root, pol, want, vm)[c] <= ClassCaps(want, vm)[c]
         /\ VmCeilings(root, pol, want)[vm] \in Nat /\ VmCeilings(root, pol, want)[vm] <= root
         /\ VmCeilings(root, pol, want)[vm] <= pol.maxRate[vm]
         /\ ClassCeilings(root, pol, want, vm)[c] \in Nat
         /\ ClassCeilings(root, pol, want, vm)[c] <= VmCeilings(root, pol, want)[vm]
<1> DEFINE Fv == VmGrants(root, pol, want)[vm]
           Cv == VmCeilings(root, pol, want)[vm]
           own == [x \in VmsOf(want) |-> pol.maxRate[x]]
<1>2. /\ Layer(VmWeights(pol, want), VmCaps(pol, want))
      /\ Fine(VmWeights(pol, want), VmCaps(pol, want))
      /\ vm \in DOMAIN VmCaps(pol, want)
      /\ own[vm] = pol.maxRate[vm] /\ pol.maxRate[vm] \in Nat
      /\ Layer(ClassWeights(pol, want, vm), ClassCaps(want, vm))
      /\ Fine(ClassWeights(pol, want, vm), ClassCaps(want, vm))
      /\ c \in DOMAIN ClassCaps(want, vm)
      /\ Unbounded(ClassesOf(want, vm))[c] = Unlimited /\ Unlimited \in Nat
  BY VmLayer, ClassLayer, LayersAreFine, WaterfillAssumption DEF Unbounded
<1>3. Fv \in Nat /\ Fv <= VmCaps(pol, want)[vm] /\ Fv <= root
  BY <1>2, ShareFits DEF VmGrants
<1> HIDE DEF own
<1>4. Cv \in Nat /\ Cv <= root /\ (own[vm] # Unlimited => Cv <= own[vm])
  BY <1>2, CeilingIsPaid DEF VmCeilings, own
<1> HIDE DEF Fv, Cv
<1>5. Cv <= pol.maxRate[vm]
  BY <1>2, <1>4
<1>6. LET n == ClassGrants(root, pol, want, vm)[c]
      IN n \in Nat /\ n <= Fv /\ n <= ClassCaps(want, vm)[c]
  BY <1>2, <1>3, ShareFits DEF ClassGrants, Fv
<1>7. LET n == ClassCeilings(root, pol, want, vm)[c] IN n \in Nat /\ n <= Cv
  BY <1>2, <1>4, CeilingIsPaid DEF ClassCeilings, Cv
<1> QED
  BY <1>3, <1>4, <1>5, <1>6, <1>7 DEF Fv, Cv

\* What the classes of a VM want is what the VM wants, and so for a class.
LEMMA LayersAddUp ==
  ASSUME NEW want, Wants(want), NEW vm, NEW c \in ClassesOf(want, vm)
  PROVE  /\ SumFunctionOnSet(ClassCaps(want, vm), ClassesOf(want, vm)) <= VmDemand(want, vm)
         /\ SumFunctionOnSet(LeafCaps(want, vm, c), InClass(want, vm, c)) = ClassCaps(want, vm)[c]
<1> DEFINE S == {f \in DOMAIN want : DstOf[f] = vm}
           P == ClassesOf(want, vm)
           part(p) == {f \in S : ClsOf[f] = p}
           minus == [f \in S |-> want[f] * (-1)]
           cls == ClassCaps(want, vm)
           less == [p \in P |-> cls[p] * (-1)]
<1>1. /\ IsFiniteSet(S) /\ IsFiniteSet(P) /\ \A p : IsFiniteSet(InClass(want, vm, p))
      /\ \A f \in S : want[f] \in Nat /\ want[f] \in Int /\ ClsOf[f] \in P
      /\ \A p : part(p) = InClass(want, vm, p) /\ part(p) \in SUBSET S
  <2>1. IsFiniteSet(S) /\ IsFiniteSet(P) /\ \A p : IsFiniteSet(InClass(want, vm, p))
    BY PartsAreFinite
  <2>2. \A f \in S : want[f] \in Nat /\ want[f] \in Int /\ ClsOf[f] \in P
    BY DEF Wants, ClassesOf
  <2>3. \A p : part(p) = InClass(want, vm, p) /\ part(p) \in SUBSET S
    BY DEF InClass
  <2> QED
    BY <2>1, <2>2, <2>3
<1>2. \A p \in P : cls[p] = SumFunctionOnSet(want, part(p))
  BY <1>1 DEF ClassCaps
<1>3. \A f \in S : minus[f] = want[f] * (-1) /\ minus[f] \in Int
  BY <1>1
<1> HIDE DEF S, P, part, minus, cls
<1>4. \A p \in P : IsFiniteSet(part(p)) /\ SumFunctionOnSet(want, part(p)) \in Int
  <2>1. ASSUME NEW p \in P PROVE IsFiniteSet(part(p)) /\ \A f \in part(p) : want[f] \in Int
    BY <1>1
  <2> QED
    BY <2>1, SumIsInt
<1>5. \A p \in P : cls[p] \in Int /\ less[p] = cls[p] * (-1) /\ less[p] \in Int
  BY <1>2, <1>4
<1> HIDE DEF less
<1>6. ASSUME NEW p \in P PROVE SumFunctionOnSet(minus, part(p)) <= less[p]
  <2>1. \A f \in part(p) : want[f] \in Int /\ minus[f] = want[f] * (-1)
    BY <1>1, <1>3
  <2>2. SumFunctionOnSet(minus, part(p)) = SumFunctionOnSet(want, part(p)) * (-1)
    BY <1>4, <2>1, SumTimes
  <2> QED
    BY <1>2, <1>4, <1>5, <2>2
<1>7. SumFunctionOnSet(minus, S) <= SumFunctionOnSet(less, P)
  <2>1. \A p \in P : SumFunctionOnSet(minus, {f \in S : ClsOf[f] = p}) <= less[p]
    BY <1>6 DEF part
  <2> QED
    BY <1>1, <1>3, <1>5, <2>1, SumByParts
<1>8. SumFunctionOnSet(minus, S) = SumFunctionOnSet(want, S) * (-1)
  BY <1>1, <1>3, SumTimes
<1>9. SumFunctionOnSet(less, P) = SumFunctionOnSet(cls, P) * (-1)
  BY <1>1, <1>5, SumTimes
<1>10. SumFunctionOnSet(cls, P) \in Int /\ SumFunctionOnSet(want, S) \in Int
  BY <1>1, <1>5, SumIsInt
<1>11. SumFunctionOnSet(cls, P) <= SumFunctionOnSet(want, S)
  BY <1>7, <1>8, <1>9, <1>10
<1>12. SumFunctionOnSet(LeafCaps(want, vm, c), InClass(want, vm, c)) = ClassCaps(want, vm)[c]
  <2>1. c \in P /\ InClass(want, vm, c) = part(c)
    BY <1>1 DEF P
  <2>2. \A f \in part(c) : want[f] \in Int /\ LeafCaps(want, vm, c)[f] = want[f]
    BY <1>1, <2>1 DEF LeafCaps
  <2>3. SumFunctionOnSet(LeafCaps(want, vm, c), part(c)) = SumFunctionOnSet(want, part(c))
    BY <1>4, <2>1, <2>2, SumIsSame
  <2> QED
    BY <1>2, <2>1, <2>3 DEF cls
<1> QED
  BY <1>11, <1>12 DEF cls, P, S, VmDemand

\* The layers of one flow-set, where the lemmas about one layer apply.
LEMMA LayersStand ==
  ASSUME NEW want, Wants(want), NEW pol, Covers(pol, want), FineFor(pol, want), NEW f \in DOMAIN want
  PROVE  LET vm == DstOf[f]
             c == ClsOf[f]
         IN /\ Layer(VmWeights(pol, want), VmCaps(pol, want))
            /\ Fine(VmWeights(pol, want), VmCaps(pol, want))
            /\ vm \in DOMAIN VmCaps(pol, want)
            /\ [x \in VmsOf(want) |-> pol.maxRate[x]][vm] = pol.maxRate[vm]
            /\ pol.maxRate[vm] \in Nat
            /\ Layer(ClassWeights(pol, want, vm), ClassCaps(want, vm))
            /\ Fine(ClassWeights(pol, want, vm), ClassCaps(want, vm))
            /\ c \in DOMAIN ClassCaps(want, vm)
            /\ Unbounded(ClassesOf(want, vm))[c] = Unlimited
            /\ Layer(LeafWeights(pol, want, vm, c), LeafCaps(want, vm, c))
            /\ Fine(LeafWeights(pol, want, vm, c), LeafCaps(want, vm, c))
            /\ f \in DOMAIN LeafCaps(want, vm, c) /\ LeafCaps(want, vm, c)[f] = want[f]
            /\ Unbounded(InClass(want, vm, c))[f] = Unlimited
            /\ Unlimited \in Nat
BY Placed, VmLayer, ClassLayer, LeafLayer, LayersAreFine, WaterfillAssumption DEF Unbounded

\* In one layer a grant is within its ceiling, also where the ceiling has more to go by.
LEMMA CeilingIsAboveGrant ==
  ASSUME NEW w, NEW cap, Layer(w, cap), Fine(w, cap), NEW k \in DOMAIN cap,
         NEW capacity \in Nat, NEW more \in Nat, capacity <= more,
         NEW repl, repl[k] \in Nat, repl[k] = Unlimited \/ Fill(capacity, w, cap)[k] <= repl[k]
  PROVE  Fill(capacity, w, cap)[k] <= Ceilings(more, w, cap, repl)[k]
<1>1. \A i \in DOMAIN cap : cap[i] <= cap[i] \/ cap[i] > capacity
  BY DEF Layer
<1> QED
  BY <1>1, CeilingKeepsShare

\* At each layer a grant is within its ceiling.
LEMMA GrantsAreBelowCeilings ==
  ASSUME NEW root \in Nat, root <= Unlimited, NEW want, Wants(want),
         NEW pol, Covers(pol, want), FineFor(pol, want), NEW f \in DOMAIN want
  PROVE  LET vm == DstOf[f]
             c == ClsOf[f]
         IN /\ VmGrants(root, pol, want)[vm] <= VmCeilings(root, pol, want)[vm]
            /\ ClassGrants(root, pol, want, vm)[c] <= ClassCeilings(root, pol, want, vm)[c]
            /\ LeafGrants(root, pol, want, vm, c)[f] <= LeafCeilings(root, pol, want, vm, c)[f]
<1> DEFINE vm == DstOf[f]
           c == ClsOf[f]
           own == [x \in VmsOf(want) |-> pol.maxRate[x]]
           Fv == VmGrants(root, pol, want)[vm]
           Cv == VmCeilings(root, pol, want)[vm]
           Fc == ClassGrants(root, pol, want, vm)[c]
           Cc == ClassCeilings(root, pol, want, vm)[c]
<1>1. /\ vm \in VmsOf(want) /\ c \in ClassesOf(want, vm) /\ root <= root
  BY Placed
<1>2. /\ Fv \in Nat /\ Fv <= VmCaps(pol, want)[vm] /\ Cv \in Nat /\ Fc \in Nat /\ Cc \in Nat
  BY <1>1, GivenByLayer
<1>3. VmCaps(pol, want)[vm] <= pol.maxRate[vm] /\ VmCaps(pol, want)[vm] \in Nat
  BY <1>1, VmLayer DEF Layer
<1>4. Fv <= Cv
  <2>1. /\ Layer(VmWeights(pol, want), VmCaps(pol, want))
        /\ Fine(VmWeights(pol, want), VmCaps(pol, want))
        /\ vm \in DOMAIN VmCaps(pol, want)
        /\ own[vm] = pol.maxRate[vm] /\ pol.maxRate[vm] \in Nat
    BY LayersStand
  <2>2. Fv <= own[vm] /\ own[vm] \in Nat
    BY <1>2, <1>3, <2>1
  <2> HIDE DEF own, vm
  <2> QED
    BY <1>1, <2>1, <2>2, CeilingIsAboveGrant DEF VmGrants, VmCeilings, own
<1>5. Fc <= Cc
  <2>1. /\ Layer(ClassWeights(pol, want, vm), ClassCaps(want, vm))
        /\ Fine(ClassWeights(pol, want, vm), ClassCaps(want, vm))
        /\ c \in DOMAIN ClassCaps(want, vm)
        /\ Unbounded(ClassesOf(want, vm))[c] = Unlimited /\ Unlimited \in Nat
    BY LayersStand
  <2> HIDE DEF vm, c
  <2> QED
    BY <1>2, <1>4, <2>1, CeilingIsAboveGrant DEF ClassGrants, ClassCeilings
<1>6. LeafGrants(root, pol, want, vm, c)[f] <= LeafCeilings(root, pol, want, vm, c)[f]
  <2>1. /\ Layer(LeafWeights(pol, want, vm, c), LeafCaps(want, vm, c))
        /\ Fine(LeafWeights(pol, want, vm, c), LeafCaps(want, vm, c))
        /\ f \in DOMAIN LeafCaps(want, vm, c)
        /\ Unbounded(InClass(want, vm, c))[f] = Unlimited /\ Unlimited \in Nat
    BY LayersStand
  <2> HIDE DEF vm, c
  <2> QED
    BY <1>2, <1>5, <2>1, CeilingIsAboveGrant DEF LeafGrants, LeafCeilings
<1> QED
  BY <1>4, <1>5, <1>6

\* The two fillings agree: a grant is the demand, or the ceiling where that is less. Where
\* a VM is granted all it wants so are its classes and flow-sets; where it is not, its
\* ceiling is its grant, which its classes then share alike in both.
THEOREM GrantIsDemandOrCeiling ==
  ASSUME NEW root \in Nat, root <= Unlimited, NEW want, Wants(want),
         NEW pol, Covers(pol, want), FineFor(pol, want), NEW f \in DOMAIN want
  PROVE  Grants(root, pol, want)[f] = Smaller(want[f], FairCeilings(root, pol, want)[f])
<1> DEFINE vm == DstOf[f]
           c == ClsOf[f]
           own == [x \in VmsOf(want) |-> pol.maxRate[x]]
           Fv == VmGrants(root, pol, want)[vm]
           Cv == VmCeilings(root, pol, want)[vm]
           Fc == ClassGrants(root, pol, want, vm)[c]
           Cc == ClassCeilings(root, pol, want, vm)[c]
           Ff == LeafGrants(root, pol, want, vm, c)[f]
           Cf == LeafCeilings(root, pol, want, vm, c)[f]
<1>1. vm \in VmsOf(want) /\ c \in ClassesOf(want, vm)
  BY Placed
<1>2. /\ Fv \in Nat /\ Fv <= VmCaps(pol, want)[vm] /\ Cv \in Nat /\ Fc \in Nat /\ Cc \in Nat
      /\ Cv <= pol.maxRate[vm]
  BY <1>1, GivenByLayer
<1>3. Fv <= Cv /\ Fc <= Cc /\ Ff <= Cf
  BY GrantsAreBelowCeilings
<1>4. /\ VmCaps(pol, want)[vm] = Smaller(pol.maxRate[vm], VmDemand(want, vm))
      /\ pol.maxRate[vm] \in Nat /\ VmDemand(want, vm) \in Nat
  BY <1>1, VmLayer, WantsAddUp DEF VmCaps
<1>5. Fv = VmDemand(want, vm) \/ Cv = Fv
  <2>1. CASE Fv # VmCaps(pol, want)[vm]
    <3>1. /\ Layer(VmWeights(pol, want), VmCaps(pol, want))
          /\ Fine(VmWeights(pol, want), VmCaps(pol, want))
          /\ vm \in DOMAIN VmCaps(pol, want)
          /\ own[vm] = pol.maxRate[vm] /\ own[vm] \in Nat
      BY LayersStand
    <3> HIDE DEF own, vm
    <3>2. Cv <= Fv
      BY <2>1, <3>1, CeilingIsGrant DEF VmGrants, VmCeilings, own
    <3> QED
      BY <1>2, <1>3, <3>2
  <2>2. CASE Fv = VmCaps(pol, want)[vm]
    BY <1>2, <1>3, <1>4, <2>2 DEF Smaller
  <2> QED
    BY <2>1, <2>2
<1>6. Fc = ClassCaps(want, vm)[c] \/ Cc = Fc
  <2>1. /\ Layer(ClassWeights(pol, want, vm), ClassCaps(want, vm))
        /\ Fine(ClassWeights(pol, want, vm), ClassCaps(want, vm))
        /\ c \in DOMAIN ClassCaps(want, vm) /\ DOMAIN ClassCaps(want, vm) = ClassesOf(want, vm)
        /\ Unbounded(ClassesOf(want, vm))[c] = Unlimited /\ Unlimited \in Nat
    BY <1>1, LayersStand, ClassLayer
  <2>2. CASE Fv = VmDemand(want, vm)
    <3>1. SumFunctionOnSet(ClassCaps(want, vm), DOMAIN ClassCaps(want, vm)) <= Fv
      BY <1>1, <2>1, <2>2, LayersAddUp
    <3> HIDE DEF vm, c
    <3> QED
      BY <1>2, <2>1, <3>1, FillGivesAll DEF ClassGrants
  <2>3. CASE Cv = Fv /\ Fc # ClassCaps(want, vm)[c]
    <3> HIDE DEF vm, c
    <3>1. Cc <= Fc
      BY <1>2, <2>1, <2>3, CeilingIsGrant DEF ClassGrants, ClassCeilings
    <3> QED
      BY <1>2, <1>3, <3>1
  <2> QED
    BY <1>5, <2>2, <2>3
<1>7. /\ Layer(LeafWeights(pol, want, vm, c), LeafCaps(want, vm, c))
      /\ Fine(LeafWeights(pol, want, vm, c), LeafCaps(want, vm, c))
      /\ f \in DOMAIN LeafCaps(want, vm, c) /\ LeafCaps(want, vm, c)[f] = want[f]
      /\ Unbounded(InClass(want, vm, c))[f] = Unlimited /\ Unlimited \in Nat
  BY LayersStand
<1>8. Ff = want[f] \/ Cf <= Ff
  <2>1. CASE Fc = ClassCaps(want, vm)[c]
    <3>1. SumFunctionOnSet(LeafCaps(want, vm, c), DOMAIN LeafCaps(want, vm, c)) <= Fc
      BY <1>1, <1>2, <2>1, LeafLayer, LayersAddUp
    <3> HIDE DEF vm, c
    <3> QED
      BY <1>2, <1>7, <3>1, FillGivesAll DEF LeafGrants
  <2>2. CASE Cc = Fc /\ Ff # LeafCaps(want, vm, c)[f]
    <3> HIDE DEF vm, c
    <3> QED
      BY <1>2, <1>7, <2>2, CeilingIsGrant DEF LeafGrants, LeafCeilings
  <2> QED
    BY <1>6, <1>7, <2>1, <2>2
<1>9. Ff \in Nat /\ Ff <= want[f]
  <2> HIDE DEF vm, c
  <2> QED
    BY <1>2, <1>7, ShareFits DEF LeafGrants
<1>10. Cf \in Nat
  <2> HIDE DEF vm, c
  <2> QED
    BY <1>2, <1>7, CeilingIsPaid DEF LeafCeilings
<1>11. /\ Grants(root, pol, want)[f] = Ff /\ FairCeilings(root, pol, want)[f] = Cf
       /\ want[f] \in Nat
  BY FoundByLayer DEF Wants
<1> QED
  BY <1>3, <1>8, <1>9, <1>10, <1>11 DEF Smaller

\* Nobody is held below its share: a ceiling is at least what its flow-set would be granted
\* if everyone wanted more than the root has, whatever the others want.
THEOREM SharesAreKept ==
  ASSUME NEW root \in Nat, root <= Unlimited, NEW want, Wants(want),
         NEW all, Wants(all), DOMAIN all = DOMAIN want, \A g \in DOMAIN want : all[g] > root,
         NEW pol, Covers(pol, want), FineFor(pol, want), NEW f \in DOMAIN want
  PROVE  Grants(root, pol, all)[f] <= FairCeilings(root, pol, want)[f]
<1> DEFINE vm == DstOf[f]
           c == ClsOf[f]
           own == [x \in VmsOf(want) |-> pol.maxRate[x]]
           Fv == VmGrants(root, pol, all)[vm]
           Cv == VmCeilings(root, pol, want)[vm]
           Fc == ClassGrants(root, pol, all, vm)[c]
           Cc == ClassCeilings(root, pol, want, vm)[c]
           Ff == LeafGrants(root, pol, all, vm, c)[f]
           Cf == LeafCeilings(root, pol, want, vm, c)[f]
<1>1. /\ vm \in VmsOf(want) /\ c \in ClassesOf(want, vm) /\ f \in InClass(want, vm, c)
      /\ f \in DOMAIN all /\ Covers(pol, all) /\ FineFor(pol, all)
  BY Placed DEF Covers, FineFor
<1>2. /\ VmsOf(all) = VmsOf(want)
      /\ ClassesOf(all, vm) = ClassesOf(want, vm)
      /\ InClass(all, vm, c) = InClass(want, vm, c)
      /\ VmWeights(pol, all) = VmWeights(pol, want)
      /\ ClassWeights(pol, all, vm) = ClassWeights(pol, want, vm)
      /\ LeafWeights(pol, all, vm, c) = LeafWeights(pol, want, vm, c)
  BY DEF VmsOf, ClassesOf, InClass, VmWeights, ClassWeights, LeafWeights
<1>3. /\ Fv \in Nat /\ Fv <= root /\ Fv <= VmCaps(pol, all)[vm]
      /\ Fc \in Nat /\ Fc <= Fv
  <2>1. vm \in VmsOf(all) /\ c \in ClassesOf(all, vm)
    BY <1>1, <1>2
  <2> QED
    BY <1>1, <2>1, GivenByLayer
<1>4. Cv \in Nat /\ Cc \in Nat
  BY <1>1, GivenByLayer
<1>5. Fv <= Cv
  <2> DEFINE w == VmWeights(pol, want)
             mine == VmCaps(pol, want)
             theirs == VmCaps(pol, all)
  <2>1. /\ Layer(w, mine) /\ Fine(w, mine) /\ Layer(VmWeights(pol, all), theirs)
        /\ vm \in DOMAIN mine /\ DOMAIN mine = VmsOf(want) /\ DOMAIN theirs = VmsOf(all)
        /\ own[vm] = pol.maxRate[vm] /\ pol.maxRate[vm] \in Nat
    BY <1>1, LayersStand, VmLayer
  <2>2. theirs[vm] <= pol.maxRate[vm] /\ theirs[vm] \in Nat
    <3>1. theirs[vm] <= pol.maxRate[vm]
      BY <1>1, <1>2, VmLayer
    <3>2. theirs[vm] \in Nat
      BY <1>1, <1>2, <2>1 DEF Layer
    <3> QED
      BY <3>1, <3>2
  <2>3. ASSUME NEW x \in VmsOf(want) PROVE mine[x] <= theirs[x] \/ theirs[x] > root
    <3>1. PICK g \in DOMAIN want : DstOf[g] = x
      BY DEF VmsOf
    <3>2. VmDemand(all, x) \in Nat /\ all[g] <= VmDemand(all, x) /\ all[g] \in Nat /\ all[g] > root
      BY <3>1, WantsAddUp DEF Wants
    <3>3. VmDemand(want, x) \in Nat /\ pol.maxRate[x] \in Nat
      BY <3>1, WantsAddUp DEF Covers
    <3>4. /\ mine[x] = Smaller(pol.maxRate[x], VmDemand(want, x))
          /\ theirs[x] = Smaller(pol.maxRate[x], VmDemand(all, x))
      BY <1>2 DEF VmCaps
    <3> HIDE DEF mine, theirs
    <3> QED
      BY <3>2, <3>3, <3>4 DEF Smaller
  <2>4. Fv = Fill(root, w, theirs)[vm] /\ Cv = Ceilings(root, w, mine, own)[vm]
    BY <1>2 DEF VmGrants, VmCeilings
  <2>5. Layer(w, theirs) /\ DOMAIN theirs = DOMAIN mine
    BY <1>2, <2>1
  <2> HIDE DEF w, mine, theirs, own, vm, Fv, Cv
  <2>6. Fill(root, w, theirs)[vm] <= own[vm] /\ own[vm] \in Nat
    BY <1>3, <2>1, <2>2, <2>4 DEF theirs
  <2>7. Fill(root, w, theirs)[vm] <= Ceilings(root, w, mine, own)[vm]
    BY <2>1, <2>3, <2>5, <2>6, CeilingKeepsShare
  <2> QED
    BY <2>4, <2>7
<1>6. Fc <= Cc
  <2> DEFINE w == ClassWeights(pol, want, vm)
             mine == ClassCaps(want, vm)
             theirs == ClassCaps(all, vm)
             repl == Unbounded(ClassesOf(want, vm))
  <2>1. /\ Layer(w, mine) /\ Fine(w, mine) /\ c \in DOMAIN mine
        /\ repl[c] = Unlimited /\ Unlimited \in Nat
    BY LayersStand
  <2>2. /\ Layer(ClassWeights(pol, all, vm), theirs) /\ DOMAIN theirs = ClassesOf(all, vm)
        /\ DOMAIN mine = ClassesOf(want, vm)
    BY <1>1, <1>2, ClassLayer
  <2>3. ASSUME NEW x \in ClassesOf(want, vm) PROVE theirs[x] > Fv
    <3>1. PICK g \in DOMAIN want : DstOf[g] = vm /\ ClsOf[g] = x
      BY DEF ClassesOf
    <3>2. theirs[x] \in Nat /\ all[g] <= theirs[x]
      BY <3>1, WantsAddUp
    <3>3. all[g] \in Nat /\ all[g] > root
      BY DEF Wants
    <3> HIDE DEF theirs, Fv
    <3> QED
      BY <1>3, <3>2, <3>3
  <2>4. Fc = Fill(Fv, w, theirs)[c] /\ Cc = Ceilings(Cv, w, mine, repl)[c]
    BY <1>2 DEF ClassGrants, ClassCeilings
  <2>5. Layer(w, theirs) /\ DOMAIN theirs = DOMAIN mine
    BY <1>2, <2>2
  <2> HIDE DEF w, mine, theirs, repl, vm, c, Fv, Cv, Fc, Cc
  <2>6. \A x \in DOMAIN mine : mine[x] <= theirs[x] \/ theirs[x] > Fv
    BY <2>2, <2>3
  <2>7. Fill(Fv, w, theirs)[c] <= Ceilings(Cv, w, mine, repl)[c]
    BY <1>3, <1>4, <1>5, <2>1, <2>5, <2>6, CeilingKeepsShare
  <2> QED
    BY <2>4, <2>7
<1>7. Ff <= Cf
  <2> DEFINE w == LeafWeights(pol, want, vm, c)
             mine == LeafCaps(want, vm, c)
             theirs == LeafCaps(all, vm, c)
             repl == Unbounded(InClass(want, vm, c))
  <2>1. /\ Layer(w, mine) /\ Fine(w, mine) /\ f \in DOMAIN mine
        /\ repl[f] = Unlimited /\ Unlimited \in Nat
    BY LayersStand
  <2>2. /\ Layer(LeafWeights(pol, all, vm, c), theirs) /\ DOMAIN theirs = InClass(all, vm, c)
        /\ DOMAIN mine = InClass(want, vm, c)
        /\ \A g \in InClass(all, vm, c) : theirs[g] = all[g]
    BY <1>1, LeafLayer
  <2>3. ASSUME NEW g \in InClass(want, vm, c) PROVE theirs[g] > Fc
    <3>1. g \in DOMAIN want /\ theirs[g] = all[g]
      BY <1>2, <2>2 DEF InClass
    <3>2. all[g] \in Nat /\ all[g] > root
      BY <3>1 DEF Wants
    <3> HIDE DEF theirs, Fc, Fv
    <3> QED
      BY <1>3, <3>1, <3>2
  <2>4. Ff = Fill(Fc, w, theirs)[f] /\ Cf = Ceilings(Cc, w, mine, repl)[f]
    BY <1>2 DEF LeafGrants, LeafCeilings
  <2>5. Layer(w, theirs) /\ DOMAIN theirs = DOMAIN mine
    BY <1>2, <2>2
  <2> HIDE DEF w, mine, theirs, repl, vm, c, Fc, Cc, Ff, Cf
  <2>6. \A x \in DOMAIN mine : mine[x] <= theirs[x] \/ theirs[x] > Fc
    BY <2>2, <2>3
  <2>7. Fill(Fc, w, theirs)[f] <= Ceilings(Cc, w, mine, repl)[f]
    BY <1>3, <1>4, <1>6, <2>1, <2>5, <2>6, CeilingKeepsShare
  <2> QED
    BY <2>4, <2>7
<1> QED
  BY <1>1, <1>7, FoundByLayer

\* Whoever wants more wants at least the root in both.
Alike(a, b, root) == a = b \/ (a >= root /\ b >= root)

LEMMA LayersAreAlike ==
  ASSUME NEW root \in Nat, NEW want, Wants(want), NEW more, Wants(more),
         DOMAIN more = DOMAIN want, \A f \in DOMAIN want : Alike(want[f], more[f], root),
         NEW S \in SUBSET DOMAIN want
  PROVE  /\ SumFunctionOnSet(want, S) \in Nat /\ SumFunctionOnSet(more, S) \in Nat
         /\ Alike(SumFunctionOnSet(want, S), SumFunctionOnSet(more, S), root)
<1>1. /\ IsFiniteSet(S) /\ \A f \in S : want[f] \in Nat /\ more[f] \in Nat /\ want[f] \in Int
  BY FS_Subset DEF Wants
<1>2. /\ SumFunctionOnSet(want, S) \in Nat
      /\ \A f \in S : want[f] <= SumFunctionOnSet(want, S)
  BY <1>1, SumIsNat
<1>3. /\ SumFunctionOnSet(more, S) \in Nat
      /\ \A f \in S : more[f] <= SumFunctionOnSet(more, S)
  BY <1>1, SumIsNat
<1>4. CASE \A f \in S : want[f] = more[f]
  <2>1. SumFunctionOnSet(want, S) = SumFunctionOnSet(more, S)
    BY <1>1, <1>4, SumIsSame
  <2> QED
    BY <1>2, <1>3, <2>1 DEF Alike
<1>5. CASE \E f \in S : want[f] # more[f]
  <2>1. PICK f \in S : want[f] # more[f]
    BY <1>5
  <2>2. want[f] >= root /\ more[f] >= root
    BY <2>1 DEF Alike
  <2> QED
    BY <1>1, <1>2, <1>3, <2>2 DEF Alike
<1> QED
  BY <1>4, <1>5

\* In one layer, and in three.
LEMMA CeilingIsAlike ==
  ASSUME NEW w, NEW a, Layer(w, a), Fine(w, a), NEW b, Layer(w, b), Fine(w, b),
         DOMAIN b = DOMAIN a, NEW capacity \in Nat,
         \A i \in DOMAIN a : Alike(a[i], b[i], capacity),
         NEW k \in DOMAIN a, NEW repl, repl[k] \in Nat
  PROVE  Ceilings(capacity, w, a, repl)[k] = Ceilings(capacity, w, b, repl)[k]
<1>1. \A i \in DOMAIN a : (b[i] = a[i] \/ a[i] >= capacity) /\ (a[i] = b[i] \/ b[i] >= capacity)
  BY DEF Alike
<1>2. Ceilings(capacity, w, a, repl)[k] <= Ceilings(capacity, w, b, repl)[k]
  BY <1>1, CeilingIgnoresBig
<1>3. Ceilings(capacity, w, b, repl)[k] <= Ceilings(capacity, w, a, repl)[k]
  BY <1>1, CeilingIgnoresBig
<1>4. Ceilings(capacity, w, a, repl)[k] \in Nat
  BY CeilingIsPaid
<1>5. Ceilings(capacity, w, b, repl)[k] \in Nat
  BY CeilingIsPaid
<1> QED
  BY <1>2, <1>3, <1>4, <1>5

LEMMA CeilingsAreAlike ==
  ASSUME NEW root \in Nat, root <= Unlimited, NEW want, Wants(want), NEW more, Wants(more),
         DOMAIN more = DOMAIN want, \A g \in DOMAIN want : Alike(want[g], more[g], root),
         NEW pol, Covers(pol, want), FineFor(pol, want), NEW f \in DOMAIN want
  PROVE  FairCeilings(root, pol, want)[f] = FairCeilings(root, pol, more)[f]
<1> DEFINE vm == DstOf[f]
           c == ClsOf[f]
           own == [x \in VmsOf(want) |-> pol.maxRate[x]]
           Cv == VmCeilings(root, pol, want)[vm]
           Cc == ClassCeilings(root, pol, want, vm)[c]
<1>1. /\ vm \in VmsOf(want) /\ c \in ClassesOf(want, vm)
      /\ f \in DOMAIN more /\ Covers(pol, more) /\ FineFor(pol, more)
  BY Placed DEF Covers, FineFor
<1>2. /\ VmsOf(more) = VmsOf(want)
      /\ ClassesOf(more, vm) = ClassesOf(want, vm)
      /\ InClass(more, vm, c) = InClass(want, vm, c)
      /\ VmWeights(pol, more) = VmWeights(pol, want)
      /\ ClassWeights(pol, more, vm) = ClassWeights(pol, want, vm)
      /\ LeafWeights(pol, more, vm, c) = LeafWeights(pol, want, vm, c)
  BY DEF VmsOf, ClassesOf, InClass, VmWeights, ClassWeights, LeafWeights
<1>3. Cv \in Nat /\ Cv <= root /\ Cc \in Nat /\ Cc <= Cv
  BY <1>1, GivenByLayer
<1>4. VmCeilings(root, pol, more)[vm] = Cv
  <2> DEFINE w == VmWeights(pol, want)
             a == VmCaps(pol, want)
             b == VmCaps(pol, more)
  <2>1. /\ Layer(w, a) /\ Fine(w, a) /\ vm \in DOMAIN a
        /\ Layer(VmWeights(pol, more), b) /\ Fine(VmWeights(pol, more), b)
        /\ DOMAIN a = VmsOf(want) /\ DOMAIN b = VmsOf(more)
        /\ own[vm] = pol.maxRate[vm] /\ pol.maxRate[vm] \in Nat
    BY <1>1, LayersStand, VmLayer
  <2>2. ASSUME NEW x \in VmsOf(want) PROVE Alike(a[x], b[x], root)
    <3>1. {g \in DOMAIN want : DstOf[g] = x} \in SUBSET DOMAIN want
      OBVIOUS
    <3>2. /\ VmDemand(want, x) \in Nat /\ VmDemand(more, x) \in Nat
          /\ Alike(VmDemand(want, x), VmDemand(more, x), root)
      BY <3>1, LayersAreAlike DEF VmDemand
    <3>3. pol.maxRate[x] \in Nat
      BY DEF VmsOf, Covers
    <3>4. /\ a[x] = Smaller(pol.maxRate[x], VmDemand(want, x))
          /\ b[x] = Smaller(pol.maxRate[x], VmDemand(more, x))
      BY <1>2 DEF VmCaps
    <3> HIDE DEF a, b
    <3> QED
      BY <3>2, <3>3, <3>4 DEF Alike, Smaller
  <2>3. /\ Cv = Ceilings(root, w, a, own)[vm]
        /\ VmCeilings(root, pol, more)[vm] = Ceilings(root, w, b, own)[vm]
    BY <1>2 DEF VmCeilings
  <2>4. Layer(w, b) /\ Fine(w, b) /\ DOMAIN b = DOMAIN a
    BY <1>2, <2>1
  <2>5. own[vm] \in Nat
    BY <2>1
  <2> HIDE DEF w, a, b, own, vm, Cv
  <2>6. \A x \in DOMAIN a : Alike(a[x], b[x], root)
    BY <2>1, <2>2
  <2>7. Ceilings(root, w, a, own)[vm] = Ceilings(root, w, b, own)[vm]
    BY <2>1, <2>4, <2>5, <2>6, CeilingIsAlike
  <2> QED
    BY <2>3, <2>7
<1>5. ClassCeilings(root, pol, more, vm)[c] = Cc
  <2> DEFINE w == ClassWeights(pol, want, vm)
             a == ClassCaps(want, vm)
             b == ClassCaps(more, vm)
             repl == Unbounded(ClassesOf(want, vm))
  <2>1. /\ Layer(w, a) /\ Fine(w, a) /\ c \in DOMAIN a
        /\ repl[c] = Unlimited /\ Unlimited \in Nat
    BY LayersStand
  <2>2. /\ Layer(ClassWeights(pol, more, vm), b) /\ Fine(ClassWeights(pol, more, vm), b)
        /\ DOMAIN a = ClassesOf(want, vm) /\ DOMAIN b = ClassesOf(more, vm)
    BY <1>1, <1>2, ClassLayer, LayersAreFine
  <2>3. ASSUME NEW x \in ClassesOf(want, vm) PROVE Alike(a[x], b[x], Cv)
    <3>1. InClass(want, vm, x) \in SUBSET DOMAIN want /\ InClass(more, vm, x) = InClass(want, vm, x)
      BY DEF InClass
    <3>2. /\ a[x] = SumFunctionOnSet(want, InClass(want, vm, x))
          /\ b[x] = SumFunctionOnSet(more, InClass(want, vm, x))
      BY <1>2, <3>1 DEF ClassCaps
    <3>3. a[x] \in Nat /\ b[x] \in Nat /\ Alike(a[x], b[x], root)
      BY <3>1, <3>2, LayersAreAlike
    <3> HIDE DEF a, b, Cv
    <3> QED
      BY <1>3, <3>3 DEF Alike
  <2>4. /\ Cc = Ceilings(Cv, w, a, repl)[c]
        /\ ClassCeilings(root, pol, more, vm)[c] = Ceilings(Cv, w, b, repl)[c]
    BY <1>2, <1>4 DEF ClassCeilings
  <2>5. Layer(w, b) /\ Fine(w, b) /\ DOMAIN b = DOMAIN a
    BY <1>2, <2>2
  <2> HIDE DEF w, a, b, repl, vm, c, Cv, Cc
  <2>6. \A x \in DOMAIN a : Alike(a[x], b[x], Cv)
    BY <2>2, <2>3
  <2>7. Ceilings(Cv, w, a, repl)[c] = Ceilings(Cv, w, b, repl)[c]
    BY <1>3, <2>1, <2>5, <2>6, CeilingIsAlike
  <2> QED
    BY <2>4, <2>7
<1>6. LeafCeilings(root, pol, more, vm, c)[f] = LeafCeilings(root, pol, want, vm, c)[f]
  <2> DEFINE w == LeafWeights(pol, want, vm, c)
             a == LeafCaps(want, vm, c)
             b == LeafCaps(more, vm, c)
             repl == Unbounded(InClass(want, vm, c))
  <2>1. /\ Layer(w, a) /\ Fine(w, a) /\ f \in DOMAIN a
        /\ repl[f] = Unlimited /\ Unlimited \in Nat
    BY LayersStand
  <2>2. /\ Layer(LeafWeights(pol, more, vm, c), b) /\ Fine(LeafWeights(pol, more, vm, c), b)
        /\ DOMAIN a = InClass(want, vm, c) /\ DOMAIN b = InClass(more, vm, c)
        /\ \A g \in InClass(want, vm, c) : a[g] = want[g]
        /\ \A g \in InClass(more, vm, c) : b[g] = more[g]
    BY <1>1, LeafLayer, LayersAreFine
  <2>3. ASSUME NEW g \in InClass(want, vm, c) PROVE Alike(a[g], b[g], Cc)
    <3>1. g \in DOMAIN want /\ a[g] = want[g] /\ b[g] = more[g]
      BY <1>2, <2>2 DEF InClass
    <3>2. a[g] \in Nat /\ b[g] \in Nat /\ Alike(a[g], b[g], root)
      BY <3>1 DEF Wants
    <3> HIDE DEF a, b, Cv, Cc
    <3> QED
      BY <1>3, <3>2 DEF Alike
  <2>4. /\ LeafCeilings(root, pol, want, vm, c)[f] = Ceilings(Cc, w, a, repl)[f]
        /\ LeafCeilings(root, pol, more, vm, c)[f] = Ceilings(Cc, w, b, repl)[f]
    BY <1>2, <1>5 DEF LeafCeilings
  <2>5. Layer(w, b) /\ Fine(w, b) /\ DOMAIN b = DOMAIN a
    BY <1>2, <2>2
  <2> HIDE DEF w, a, b, repl, vm, c, Cc
  <2>6. \A x \in DOMAIN a : Alike(a[x], b[x], Cc)
    BY <2>2, <2>3
  <2>7. Ceilings(Cc, w, a, repl)[f] = Ceilings(Cc, w, b, repl)[f]
    BY <1>3, <2>1, <2>5, <2>6, CeilingIsAlike
  <2> QED
    BY <2>4, <2>7
<1> QED
  BY <1>1, <1>6, FoundByLayer

\* What is as much as the root has counts as infinite: to want more moves no ceiling.
THEOREM RootIsInfinite ==
  ASSUME NEW root \in Nat, root <= Unlimited, NEW want, Wants(want), NEW more, Wants(more),
         DOMAIN more = DOMAIN want, \A f \in DOMAIN want : Alike(want[f], more[f], root),
         NEW pol, Covers(pol, want), FineFor(pol, want)
  PROVE  FairCeilings(root, pol, want) = FairCeilings(root, pol, more)
<1>1. /\ FairCeilings(root, pol, want) \in [DOMAIN want -> Nat]
      /\ FairCeilings(root, pol, more) \in [DOMAIN want -> Nat]
  <2>1. Covers(pol, more) /\ FineFor(pol, more)
    BY DEF Covers, FineFor
  <2>2. /\ {} \in SUBSET DOMAIN want /\ \A f \in {} : want[f] >= root
        /\ {} \in SUBSET DOMAIN more /\ \A f \in {} : more[f] >= root
    OBVIOUS
  <2>3. FairCeilings(root, pol, want) \in [DOMAIN want -> Nat]
    BY <2>2, CeilingsAreWithin
  <2>4. FairCeilings(root, pol, more) \in [DOMAIN more -> Nat]
    BY <2>1, <2>2, CeilingsAreWithin
  <2> QED
    BY <2>3, <2>4
<1>2. \A f \in DOMAIN want : FairCeilings(root, pol, want)[f] = FairCeilings(root, pol, more)[f]
  BY CeilingsAreAlike
<1> QED
  BY <1>1, <1>2

------------------------------------------------------------------------------
(* Three layers: what grants leave *)

\* One layer gives all it has, where as much is wanted.
LEMMA AllIsSpent ==
  ASSUME NEW capacity \in Nat, NEW w, NEW cap, Layer(w, cap),
         capacity <= SumFunctionOnSet(cap, DOMAIN cap)
  PROVE  SumFunctionOnSet(Fill(capacity, w, cap), DOMAIN cap) + Cardinality(DOMAIN cap)
           >= capacity
BY FillSpends DEF Smaller

\* What is wanted of a VM is what is wanted of its classes.
LEMMA ClassesWantAll ==
  ASSUME NEW want, Wants(want), NEW vm
  PROVE  VmDemand(want, vm) <= SumFunctionOnSet(ClassCaps(want, vm), ClassesOf(want, vm))
<1> DEFINE S == {f \in DOMAIN want : DstOf[f] = vm}
           P == ClassesOf(want, vm)
           cls == ClassCaps(want, vm)
<1>1. IsFiniteSet(S) /\ IsFiniteSet(P) /\ \A c : IsFiniteSet(InClass(want, vm, c))
  BY PartsAreFinite
<1>2. \A f \in S : want[f] \in Int /\ ClsOf[f] \in P
  BY DEF Wants, ClassesOf
<1>3. ASSUME NEW c \in P
      PROVE  /\ cls[c] \in Int
             /\ SumFunctionOnSet(want, {f \in S : ClsOf[f] = c}) <= cls[c]
  <2>1. {f \in S : ClsOf[f] = c} = InClass(want, vm, c)
    BY DEF InClass
  <2>2. cls[c] = SumFunctionOnSet(want, InClass(want, vm, c))
    BY DEF ClassCaps
  <2>3. \A f \in InClass(want, vm, c) : want[f] \in Int
    BY DEF InClass, Wants
  <2>4. SumFunctionOnSet(want, InClass(want, vm, c)) \in Int
    BY <1>1, <2>3, SumIsInt
  <2> QED
    BY <2>1, <2>2, <2>4
<1> HIDE DEF S, P, cls
<1>4. SumFunctionOnSet(want, S) <= SumFunctionOnSet(cls, P)
  BY <1>1, <1>2, <1>3, SumByParts
<1> QED
  BY <1>4 DEF VmDemand, S, P, cls

\* Nothing is left but what is rounded off, at most one at each layer for each flow-set:
\* grants spend the root, or all that is wanted within the MaxRates.
THEOREM GrantsSpend ==
  ASSUME NEW root \in Nat, NEW want, Wants(want), NEW pol, Covers(pol, want)
  PROVE  SumFunctionOnSet(Grants(root, pol, want), DOMAIN want) + 3 * Cardinality(DOMAIN want)
           >= Smaller(root, SumFunctionOnSet(VmCaps(pol, want), VmsOf(want)))
<1> DEFINE e == Grants(root, pol, want)
           D == DOMAIN want
           V == VmsOf(want)
           caps == VmCaps(pol, want)
           vms == VmGrants(root, pol, want)
           classes(vm) == ClassGrants(root, pol, want, vm)
           leaves(vm, c) == LeafGrants(root, pol, want, vm, c)
           Own(vm) == {f \in D : DstOf[f] = vm}
           two == [f \in D |-> e[f] + 2]
           three == [f \in D |-> e[f] + 3]
           onemore == [vm \in V |-> vms[vm] + 1]
<1>1. /\ IsFiniteSet(D) /\ IsFiniteSet(V)
      /\ \A vm : IsFiniteSet(Own(vm)) /\ IsFiniteSet(ClassesOf(want, vm))
      /\ \A vm, c : IsFiniteSet(InClass(want, vm, c))
  BY PartsAreFinite DEF Wants
<1>2. \A f \in D : e[f] \in Nat
  BY GrantsAreWithin
<1>3. \A f \in D : /\ e[f] \in Int /\ two[f] \in Int /\ three[f] \in Int
                   /\ two[f] = e[f] + 2 /\ three[f] = e[f] + 3 /\ three[f] = two[f] + 1
  BY <1>2
<1>4. /\ SumFunctionOnSet(vms, V) + Cardinality(V) >= Smaller(root, SumFunctionOnSet(caps, V))
      /\ \A vm \in V : vms[vm] \in Nat /\ vms[vm] <= VmDemand(want, vm)
  <2>1. Layer(VmWeights(pol, want), caps) /\ DOMAIN caps = V
    BY VmLayer
  <2>2. \A vm \in V : caps[vm] \in Nat /\ caps[vm] <= VmDemand(want, vm)
    <3>1. ASSUME NEW vm \in V PROVE VmDemand(want, vm) \in Nat /\ pol.maxRate[vm] \in Nat
      <4>1. \A f \in Own(vm) : want[f] \in Nat
        BY DEF Wants
      <4>2. SumFunctionOnSet(want, Own(vm)) \in Nat
        <5> HIDE DEF Own
        <5> QED
          BY <1>1, <4>1, SumIsNat
      <4> QED
        BY <4>2, VmLayer DEF VmDemand
    <3> QED
      BY <3>1 DEF VmCaps, Smaller
  <2> HIDE DEF caps
  <2>3. SumFunctionOnSet(vms, V) + Cardinality(V) >= Smaller(root, SumFunctionOnSet(caps, V))
    BY <2>1, FillSpends DEF VmGrants, caps
  <2>4. ASSUME NEW vm \in V PROVE vms[vm] \in Nat /\ vms[vm] <= caps[vm]
    BY <2>1, ShareFits DEF VmGrants, caps
  <2>5. \A vm \in V : VmDemand(want, vm) \in Int
    <3> SUFFICES ASSUME NEW vm \in V PROVE VmDemand(want, vm) \in Int
      OBVIOUS
    <3>1. \A f \in Own(vm) : want[f] \in Int
      BY DEF Wants
    <3>2. SumFunctionOnSet(want, Own(vm)) \in Int
      <4> HIDE DEF Own
      <4> QED
        BY <1>1, <3>1, SumIsInt
    <3> QED
      BY <3>2 DEF VmDemand
  <2> HIDE DEF vms
  <2> QED
    BY <2>2, <2>3, <2>4, <2>5
<1> HIDE DEF e, vms, two, three, onemore
<1>5. ASSUME NEW vm \in V
      PROVE  /\ SumFunctionOnSet(classes(vm), ClassesOf(want, vm)) + Cardinality(ClassesOf(want, vm))
                  >= vms[vm]
             /\ \A c \in ClassesOf(want, vm) :
                  /\ classes(vm)[c] \in Nat
                  /\ classes(vm)[c] <= ClassCaps(want, vm)[c]
  <2> DEFINE cap == ClassCaps(want, vm)
             w == ClassWeights(pol, want, vm)
  <2>1. Layer(w, cap) /\ DOMAIN cap = ClassesOf(want, vm)
    BY ClassLayer
  <2>2. vms[vm] \in Nat /\ vms[vm] <= SumFunctionOnSet(cap, DOMAIN cap)
    <3>1. /\ VmDemand(want, vm) <= SumFunctionOnSet(cap, ClassesOf(want, vm))
          /\ vms[vm] \in Nat /\ vms[vm] <= VmDemand(want, vm)
      BY <1>4, ClassesWantAll
    <3>2. VmDemand(want, vm) \in Int
      <4>1. \A f \in Own(vm) : want[f] \in Int
        BY DEF Wants
      <4>2. SumFunctionOnSet(want, Own(vm)) \in Int
        <5> HIDE DEF Own
        <5> QED
          BY <1>1, <4>1, SumIsInt
      <4> QED
        BY <4>2 DEF VmDemand
    <3>3. SumFunctionOnSet(cap, ClassesOf(want, vm)) \in Int
      <4>1. \A c \in ClassesOf(want, vm) : cap[c] \in Int
        BY <2>1 DEF Layer
      <4> HIDE DEF cap
      <4> QED
        BY <1>1, <4>1, SumIsInt
    <3> QED
      BY <2>1, <3>1, <3>2, <3>3
  <2>3. classes(vm) = Fill(vms[vm], w, cap)
    BY DEF ClassGrants, vms
  <2> HIDE DEF cap, w
  <2>4. ASSUME NEW c \in DOMAIN cap
        PROVE  Fill(vms[vm], w, cap)[c] \in Nat /\ Fill(vms[vm], w, cap)[c] <= cap[c]
    BY <2>1, <2>2, ShareFits
  <2>5. SumFunctionOnSet(Fill(vms[vm], w, cap), DOMAIN cap) + Cardinality(DOMAIN cap) >= vms[vm]
    BY <2>1, <2>2, AllIsSpent
  <2> QED
    BY <2>1, <2>3, <2>4, <2>5 DEF cap
<1>6. ASSUME NEW vm \in V, NEW c \in ClassesOf(want, vm)
      PROVE  SumFunctionOnSet(two, InClass(want, vm, c)) >= classes(vm)[c] + 1
  <2> DEFINE cap == LeafCaps(want, vm, c)
             w == LeafWeights(pol, want, vm, c)
             I == InClass(want, vm, c)
             n == classes(vm)[c]
  <2>1. Layer(w, cap) /\ DOMAIN cap = I
    BY LeafLayer
  <2>2. n \in Nat /\ n <= SumFunctionOnSet(cap, I)
    BY <1>5, LayersAddUp
  <2>3. \A f \in I : e[f] = leaves(vm, c)[f] /\ f \in D
    BY FoundByLayer DEF InClass, e
  <2>4. leaves(vm, c) = Fill(n, w, cap)
    BY DEF LeafGrants
  <2>5. I # {} /\ IsFiniteSet(I) /\ Cardinality(I) \in Nat \ {0}
    <3>1. I # {}
      BY DEF ClassesOf, InClass
    <3> QED
      BY <1>1, <3>1, FS_CardinalityType, FS_EmptySet
  <2> HIDE DEF cap, w, I, n
  <2>6. SumFunctionOnSet(Fill(n, w, cap), I) + Cardinality(I) >= n
    BY <2>1, <2>2, AllIsSpent
  <2>7. SumFunctionOnSet(e, I) = SumFunctionOnSet(Fill(n, w, cap), I)
    <3>1. \A f \in I : e[f] \in Int /\ e[f] = Fill(n, w, cap)[f]
      BY <1>3, <2>3, <2>4
    <3> QED
      BY <2>5, <3>1, SumIsSame
  <2>8. SumFunctionOnSet(two, I) = SumFunctionOnSet(e, I) + 2 * Cardinality(I)
    <3>1. \A f \in I : e[f] \in Int /\ two[f] = e[f] + 2
      BY <1>3, <2>3
    <3> QED
      BY <2>5, <3>1, SumPlus
  <2>9. SumFunctionOnSet(e, I) \in Int
    <3>1. \A f \in I : e[f] \in Int
      BY <1>3, <2>3
    <3> QED
      BY <2>5, <3>1, SumIsInt
  <2>10. SumFunctionOnSet(two, I) >= n + 1
    BY <2>2, <2>5, <2>6, <2>7, <2>8, <2>9
  <2> QED
    BY <2>10 DEF I, n
<1>7. ASSUME NEW vm \in V
      PROVE  SumFunctionOnSet(two, Own(vm)) >= vms[vm]
  <2> DEFINE P == ClassesOf(want, vm)
             least == [c \in P |-> classes(vm)[c] + 1]
             O == Own(vm)
  <2>1. /\ IsFiniteSet(O) /\ IsFiniteSet(P) /\ Cardinality(P) \in Nat
        /\ \A f \in O : two[f] \in Int /\ ClsOf[f] \in P
    BY <1>1, <1>3, FS_CardinalityType DEF ClassesOf
  <2>2. ASSUME NEW c \in P
        PROVE  /\ classes(vm)[c] \in Int /\ least[c] = classes(vm)[c] + 1 /\ least[c] \in Int
               /\ SumFunctionOnSet(two, {f \in O : ClsOf[f] = c}) >= least[c]
    <3>1. {f \in O : ClsOf[f] = c} = InClass(want, vm, c)
      BY DEF InClass
    <3> QED
      BY <1>5, <1>6, <3>1
  <2> HIDE DEF P, least, O
  <2>3. SumFunctionOnSet(two, O) >= SumFunctionOnSet(least, P)
    <3>1. /\ \A f \in O : two[f] \in Int
          /\ \A f \in O : ClsOf[f] \in P
          /\ \A c \in P : least[c] \in Int
      BY <2>1, <2>2
    <3>2. \A c \in P : SumFunctionOnSet(two, {f \in O : ClsOf[f] = c}) >= least[c]
      BY <2>2
    <3> HIDE DEF classes, leaves, Own, D, V, caps
    <3> QED
      BY <2>1, <3>1, <3>2, SumByPartsBelow
  <2>4. SumFunctionOnSet(least, P) = SumFunctionOnSet(classes(vm), P) + 1 * Cardinality(P)
    <3>1. \A c \in P : classes(vm)[c] \in Int /\ least[c] = classes(vm)[c] + 1
      BY <2>2
    <3> HIDE DEF classes
    <3> QED
      BY <2>1, <3>1, SumPlus
  <2>5. SumFunctionOnSet(classes(vm), P) \in Int /\ SumFunctionOnSet(two, O) \in Int
    <3> HIDE DEF classes
    <3> QED
      BY <2>1, <2>2, SumIsInt
  <2>6. SumFunctionOnSet(classes(vm), P) + Cardinality(P) >= vms[vm] /\ vms[vm] \in Nat
    BY <1>4, <1>5 DEF P
  <2>7. SumFunctionOnSet(two, O) >= vms[vm]
    <3> HIDE DEF classes
    <3> QED
      BY <2>1, <2>3, <2>4, <2>5, <2>6
  <2> QED
    BY <2>7 DEF O
<1>8. ASSUME NEW vm \in V
      PROVE  SumFunctionOnSet(three, Own(vm)) >= onemore[vm]
  <2> DEFINE O == Own(vm)
  <2>1. /\ IsFiniteSet(O) /\ O # {}
        /\ \A f \in O : two[f] \in Int /\ three[f] = two[f] + 1
    BY <1>1, <1>3 DEF VmsOf
  <2>2. SumFunctionOnSet(two, O) >= vms[vm] /\ vms[vm] \in Nat /\ onemore[vm] = vms[vm] + 1
    BY <1>4, <1>7 DEF onemore
  <2> HIDE DEF O
  <2>3. SumFunctionOnSet(three, O) = SumFunctionOnSet(two, O) + 1 * Cardinality(O)
    BY <2>1, SumPlus
  <2>4. SumFunctionOnSet(two, O) \in Int /\ Cardinality(O) \in Nat \ {0}
    BY <2>1, SumIsInt, FS_CardinalityType, FS_EmptySet
  <2>5. SumFunctionOnSet(three, O) >= onemore[vm]
    BY <2>2, <2>3, <2>4
  <2> QED
    BY <2>5 DEF O
<1>9. SumFunctionOnSet(three, D) >= SumFunctionOnSet(onemore, V)
  <2>1. \A f \in D : three[f] \in Int /\ DstOf[f] \in V
    BY <1>3, Placed
  <2>2. \A vm \in V : onemore[vm] \in Int
    BY <1>4 DEF onemore
  <2>3. \A vm \in V : SumFunctionOnSet(three, {f \in D : DstOf[f] = vm}) >= onemore[vm]
    BY <1>8
  <2> HIDE DEF D, V
  <2> QED
    BY <1>1, <2>1, <2>2, <2>3, SumByPartsBelow
<1>10. SumFunctionOnSet(onemore, V) = SumFunctionOnSet(vms, V) + 1 * Cardinality(V)
  <2>1. \A vm \in V : vms[vm] \in Int /\ onemore[vm] = vms[vm] + 1
    BY <1>4 DEF onemore
  <2> HIDE DEF V
  <2> QED
    BY <1>1, <2>1, SumPlus
<1>11. SumFunctionOnSet(three, D) = SumFunctionOnSet(e, D) + 3 * Cardinality(D)
  <2> HIDE DEF D
  <2> QED
    BY <1>1, <1>3, SumPlus
<1>12. /\ SumFunctionOnSet(vms, V) \in Int /\ SumFunctionOnSet(e, D) \in Int
       /\ Cardinality(V) \in Nat /\ Cardinality(D) \in Nat
       /\ Smaller(root, SumFunctionOnSet(caps, V)) \in Int
  <2>1. \A vm \in V : vms[vm] \in Int /\ caps[vm] \in Int
    BY <1>4, VmLayer DEF Layer
  <2>2. SumFunctionOnSet(caps, V) \in Int /\ SumFunctionOnSet(vms, V) \in Int
    <3> HIDE DEF caps, V
    <3> QED
      BY <1>1, <2>1, SumIsInt
  <2>3. SumFunctionOnSet(e, D) \in Int
    <3> HIDE DEF D
    <3> QED
      BY <1>1, <1>3, SumIsInt
  <2> QED
    BY <1>1, <2>2, <2>3, FS_CardinalityType DEF Smaller
<1> HIDE DEF D, V, caps
<1>13. SumFunctionOnSet(e, D) + 3 * Cardinality(D) >= Smaller(root, SumFunctionOnSet(caps, V))
  BY <1>4, <1>9, <1>10, <1>11, <1>12
<1> QED
  BY <1>13 DEF e, D, V, caps

------------------------------------------------------------------------------
(* Three layers: where quotients are whole *)

Multiple(x, m) == \E a \in Nat : x = a * m

LEMMA MultipleIsNat == ASSUME NEW x, NEW m \in Nat, Multiple(x, m) PROVE x \in Nat
BY ProductIsNat DEF Multiple

\* Of a product of units a multiple of each.
LEMMA MultipleOfPart ==
  ASSUME NEW x, NEW n \in Nat, NEW m \in Nat, Multiple(x, n * m)
  PROVE  Multiple(x, m)
<1>1. PICK a \in Nat : x = a * (n * m)
  BY DEF Multiple
<1>2. x = (a * n) * m /\ a * n \in Nat
  BY <1>1
<1> QED
  BY <1>2 DEF Multiple

LEMMA SumOfMultiples ==
  ASSUME NEW S, IsFiniteSet(S), NEW m \in Nat, NEW f, \A x \in S : Multiple(f[x], m)
  PROVE  Multiple(SumFunctionOnSet(f, S), m)
<1> DEFINE g == [x \in S |-> CHOOSE a \in Nat : f[x] = a * m]
<1>1. \A x \in S : g[x] \in Nat /\ f[x] = g[x] * m
  BY DEF Multiple
<1> HIDE DEF g
<1>2. \A x \in S : g[x] \in Int /\ f[x] = g[x] * m
  BY <1>1
<1>3. SumFunctionOnSet(f, S) = SumFunctionOnSet(g, S) * m
  BY <1>2, SumTimes
<1>4. SumFunctionOnSet(g, S) \in Nat
  BY <1>1, SumIsNat
<1> QED
  BY <1>3, <1>4 DEF Multiple

\* What is left of a multiple is a multiple.
LEMMA RestOfMultiples ==
  ASSUME NEW x, NEW y, NEW m \in Nat \ {0}, Multiple(x, m), Multiple(y, m), y <= x
  PROVE  Multiple(x - y, m)
<1>1. PICK a \in Nat : x = a * m
  BY DEF Multiple
<1>2. PICK b \in Nat : y = b * m
  BY DEF Multiple
<1>3. b <= a
  BY <1>1, <1>2, Cancel
<1>4. a - b \in Nat /\ x - y = (a - b) * m
  BY <1>1, <1>2, <1>3
<1> QED
  BY <1>4 DEF Multiple

\* A share of a multiple of n, where n divides by the weights, is whole.
LEMMA ShareIsMultiple ==
  ASSUME NEW n \in Nat \ {0}, NEW u \in Nat \ {0}, NEW w \in Nat, NEW W \in Nat \ {0},
         n % W = 0, NEW x, Multiple(x, n * u)
  PROVE  Multiple((x * w) \div W, u)
<1>1. PICK a \in Nat : x = a * (n * u)
  BY DEF Multiple
<1>2. PICK q \in Nat : n = W * q
  BY Divides
<1> DEFINE b == (a * q) * w
<1>3. b \in Nat /\ b * u \in Nat
  BY ProductIsNat
<1>4. x * w = W * (b * u)
  <2>1. x = a * ((W * q) * u)
    BY <1>1, <1>2
  <2>2. (a * ((W * q) * u)) * w = W * (((a * q) * w) * u)
    OBVIOUS
  <2> QED
    BY <2>1, <2>2
<1> HIDE DEF b
<1>5. (x * w) \div W = b * u
  BY <1>3, <1>4, QuotientOfProduct
<1> QED
  BY <1>3, <1>5 DEF Multiple

\* Whoever shares, their weights together divide n.
Shared(n, w, S) == \A A \in SUBSET S : A # {} => n % SumFunctionOnSet(w, A) = 0

\* One layer gives multiples of u where its capacity and its caps are multiples of n * u.
LEMMA FillIsWhole ==
  ASSUME NEW capacity \in Nat, NEW w, NEW cap, Layer(w, cap),
         NEW n \in Nat \ {0}, NEW u \in Nat \ {0}, Shared(n, w, DOMAIN cap),
         Multiple(capacity, n * u), \A k \in DOMAIN cap : Multiple(cap[k], n * u),
         NEW k \in DOMAIN cap
  PROVE  Multiple(Fill(capacity, w, cap)[k], u)
<1>1. PICK active \in SUBSET DOMAIN cap :
        /\ Stands(capacity, w, cap, active)
        /\ Fill(capacity, w, cap) = Leveled(capacity, w, cap, active)
  BY FillEnds
<1>2. n * u \in Nat \ {0}
  OBVIOUS
<1>3. CASE k \notin active
  <2>1. Fill(capacity, w, cap)[k] = cap[k]
    BY <1>1, <1>3 DEF Leveled
  <2> QED
    BY <2>1, MultipleOfPart
<1>4. CASE k \in active
  <2> DEFINE left == Left(capacity, cap, active)
             W == SumFunctionOnSet(w, active)
             spent == SumFunctionOnSet(cap, DOMAIN cap \ active)
  <2>1. Fill(capacity, w, cap)[k] = (left * w[k]) \div W
    BY <1>1, <1>4 DEF Leveled
  <2>2. W \in Nat \ {0} /\ n % W = 0 /\ w[k] \in Nat
    BY <1>4, LayerSums DEF Shared, Layer
  <2>3. Multiple(left, n * u)
    <3>1. Multiple(spent, n * u)
      <4>1. IsFiniteSet(DOMAIN cap \ active)
        BY FS_Subset DEF Layer
      <4> QED
        BY <1>2, <4>1, SumOfMultiples
    <3>2. left = capacity - spent /\ left \in Nat
      BY <1>1 DEF Left, Stands
    <3>3. spent \in Nat
      BY <1>2, <3>1, MultipleIsNat
    <3> HIDE DEF left, spent
    <3>4. spent <= capacity
      BY <3>2, <3>3
    <3> QED
      BY <1>2, <3>1, <3>2, <3>4, RestOfMultiples
  <2> HIDE DEF left, W
  <2> QED
    BY <2>1, <2>2, <2>3, ShareIsMultiple
<1> QED
  BY <1>3, <1>4

\* The weights that may share at some layer.
SharedByLayer(n, pol, want) ==
  /\ Shared(n, VmWeights(pol, want), VmsOf(want))
  /\ \A vm \in VmsOf(want) : Shared(n, ClassWeights(pol, want, vm), ClassesOf(want, vm))
  /\ \A vm, c : Shared(n, LeafWeights(pol, want, vm, c), InClass(want, vm, c))

\* Through three layers of quotients grants are multiples of u, where all rates are
\* multiples of n * n * n * u.
LEMMA GrantsAreWhole ==
  ASSUME NEW root \in Nat, NEW want, Wants(want), NEW pol, Covers(pol, want),
         NEW n \in Nat \ {0}, NEW u \in Nat \ {0}, SharedByLayer(n, pol, want),
         Multiple(root, n * (n * (n * u))),
         \A vm \in VmsOf(want) : Multiple(VmCaps(pol, want)[vm], n * (n * (n * u))),
         \A f \in DOMAIN want : Multiple(want[f], n * (n * (n * u)))
  PROVE  \A f \in DOMAIN want : Multiple(Grants(root, pol, want)[f], u)
<1> SUFFICES ASSUME NEW f \in DOMAIN want PROVE Multiple(Grants(root, pol, want)[f], u)
  OBVIOUS
<1> DEFINE vm == DstOf[f]
           c == ClsOf[f]
           m1 == n * u
           m2 == n * m1
           m3 == n * m2
           Fv == VmGrants(root, pol, want)[vm]
           Fc == ClassGrants(root, pol, want, vm)[c]
<1>1. vm \in VmsOf(want) /\ c \in ClassesOf(want, vm) /\ f \in InClass(want, vm, c)
  BY Placed
<1>2. m1 \in Nat \ {0} /\ m2 \in Nat \ {0} /\ m3 \in Nat \ {0}
  <2>1. m1 \in Nat \ {0}
    OBVIOUS
  <2> HIDE DEF m1
  <2>2. m2 \in Nat \ {0}
    BY <2>1
  <2> HIDE DEF m2
  <2> QED
    BY <2>1, <2>2
<1>3. /\ Multiple(root, m3)
      /\ \A x \in VmsOf(want) : Multiple(VmCaps(pol, want)[x], m3)
      /\ \A g \in DOMAIN want : Multiple(want[g], m3)
  OBVIOUS
<1> HIDE DEF vm, c
<1>4. Fv \in Nat /\ Multiple(Fv, m2)
  <2>1. Layer(VmWeights(pol, want), VmCaps(pol, want)) /\ DOMAIN VmCaps(pol, want) = VmsOf(want)
    BY VmLayer
  <2>2. Shared(n, VmWeights(pol, want), DOMAIN VmCaps(pol, want))
    BY <2>1 DEF SharedByLayer
  <2>3. Multiple(root, n * m2) /\ \A x \in DOMAIN VmCaps(pol, want) : Multiple(VmCaps(pol, want)[x], n * m2)
    BY <1>3, <2>1
  <2> HIDE DEF m1, m2, m3
  <2>4. Multiple(Fv, m2)
    BY <1>1, <1>2, <2>1, <2>2, <2>3, FillIsWhole DEF VmGrants
  <2> HIDE DEF Fv
  <2> QED
    BY <1>2, <2>4, MultipleIsNat
<1>5. Fc \in Nat /\ Multiple(Fc, m1)
  <2> DEFINE cap == ClassCaps(want, vm)
  <2>1. Layer(ClassWeights(pol, want, vm), cap) /\ DOMAIN cap = ClassesOf(want, vm)
    BY <1>1, ClassLayer
  <2>2. Shared(n, ClassWeights(pol, want, vm), DOMAIN cap)
    BY <1>1, <2>1 DEF SharedByLayer
  <2>3. ASSUME NEW p \in DOMAIN cap PROVE Multiple(cap[p], n * m1)
    <3>1. cap[p] = SumFunctionOnSet(want, InClass(want, vm, p)) /\ IsFiniteSet(InClass(want, vm, p))
      BY <2>1, PartsAreFinite DEF ClassCaps
    <3> HIDE DEF m1, m2
    <3>2. \A g \in InClass(want, vm, p) : Multiple(want[g], n * m2)
      BY <1>3 DEF InClass, m3
    <3>3. n * m2 \in Nat
      BY <1>2
    <3>4. Multiple(cap[p], n * m2)
      BY <3>1, <3>2, <3>3, SumOfMultiples
    <3>5. Multiple(cap[p], m2)
      BY <1>2, <3>4, MultipleOfPart
    <3> QED
      BY <3>5 DEF m2
  <2>4. Multiple(Fv, n * m1)
    BY <1>4
  <2> HIDE DEF m1, m2, m3, Fv, cap
  <2>5. Multiple(Fc, m1)
    BY <1>1, <1>2, <1>4, <2>1, <2>2, <2>3, <2>4, FillIsWhole DEF ClassGrants, Fv, cap
  <2> HIDE DEF Fc
  <2> QED
    BY <1>2, <2>5, MultipleIsNat
<1>6. Multiple(LeafGrants(root, pol, want, vm, c)[f], u)
  <2> DEFINE cap == LeafCaps(want, vm, c)
  <2>1. /\ Layer(LeafWeights(pol, want, vm, c), cap) /\ DOMAIN cap = InClass(want, vm, c)
        /\ \A g \in InClass(want, vm, c) : cap[g] = want[g]
    BY LeafLayer
  <2>2. Shared(n, LeafWeights(pol, want, vm, c), DOMAIN cap)
    BY <2>1 DEF SharedByLayer
  <2>3. ASSUME NEW g \in DOMAIN cap PROVE Multiple(cap[g], n * u)
    <3>1. Multiple(cap[g], m3)
      BY <1>3, <2>1 DEF InClass
    <3> HIDE DEF m1, m2
    <3>2. Multiple(cap[g], m2)
      BY <1>2, <3>1, MultipleOfPart DEF m3
    <3>3. Multiple(cap[g], m1)
      BY <1>2, <3>2, MultipleOfPart DEF m2
    <3> QED
      BY <3>3 DEF m1
  <2>4. Multiple(Fc, n * u)
    BY <1>5
  <2> HIDE DEF m1, m2, m3, Fv, Fc, cap
  <2> QED
    BY <1>1, <1>5, <2>1, <2>2, <2>3, <2>4, FillIsWhole DEF LeafGrants, Fc, cap
<1>7. Grants(root, pol, want)[f] = LeafGrants(root, pol, want, vm, c)[f]
  BY FoundByLayer DEF vm, c
<1> QED
  BY <1>6, <1>7

\* Multiples that differ by less than their unit do not differ.
LEMMA WholeGap ==
  ASSUME NEW u \in Nat \ {0}, NEW x, NEW y, Multiple(x, u), Multiple(y, u),
         NEW d \in Nat, d < u, x + d >= y
  PROVE  x >= y
<1>1. PICK a \in Nat : x = a * u
  BY DEF Multiple
<1>2. PICK b \in Nat : y = b * u
  BY DEF Multiple
<1>3. a >= b
  <2> SUFFICES ASSUME a + 1 <= b PROVE FALSE
    BY <1>1, <1>2
  <2>1. (a + 1) * u <= b * u
    BY Scale
  <2>2. (a + 1) * u = a * u + u /\ a * u \in Nat /\ b * u \in Nat
    OBVIOUS
  <2> QED
    BY <1>1, <1>2, <2>1, <2>2
<1>4. b * u <= a * u
  BY <1>3, Scale
<1> QED
  BY <1>1, <1>2, <1>4

\* Together the grants are within what is wanted of the VMs, MaxRates included.
LEMMA GrantsAreWanted ==
  ASSUME NEW root \in Nat, NEW want, Wants(want), NEW pol, Covers(pol, want)
  PROVE  SumFunctionOnSet(Grants(root, pol, want), DOMAIN want)
           <= SumFunctionOnSet(VmCaps(pol, want), VmsOf(want))
<1> DEFINE e == Grants(root, pol, want)
           D == DOMAIN want
           V == VmsOf(want)
           caps == VmCaps(pol, want)
           Own(vm) == {f \in D : DstOf[f] = vm}
<1>1. /\ \A f \in D : e[f] \in Nat /\ e[f] <= want[f] /\ want[f] \in Nat
      /\ \A vm \in V : SumFunctionOnSet(e, Own(vm)) <= pol.maxRate[vm]
  BY GrantsAreWithin DEF Wants
<1>2. /\ IsFiniteSet(D) /\ IsFiniteSet(V) /\ \A vm : IsFiniteSet(Own(vm))
      /\ \A f \in D : DstOf[f] \in V
  BY PartsAreFinite, Placed DEF Wants
<1>3. \A vm \in V : caps[vm] = Smaller(pol.maxRate[vm], SumFunctionOnSet(want, Own(vm)))
  BY DEF VmCaps, VmDemand
<1>4. \A vm \in V : caps[vm] \in Int
  BY VmLayer DEF Layer
<1> HIDE DEF e, V, caps
<1>5. ASSUME NEW vm \in V PROVE SumFunctionOnSet(e, Own(vm)) <= caps[vm]
  <2>1. \A f \in Own(vm) : e[f] \in Int /\ want[f] \in Int /\ e[f] <= want[f]
    BY <1>1
  <2>2. SumFunctionOnSet(e, Own(vm)) <= SumFunctionOnSet(want, Own(vm))
    <3> HIDE DEF Own
    <3> QED
      BY <1>2, <2>1, SumGrows
  <2> QED
    BY <1>1, <1>3, <2>2 DEF Smaller
<1>6. \A f \in D : e[f] \in Int
  BY <1>1
<1> HIDE DEF D
<1>7. SumFunctionOnSet(e, D) <= SumFunctionOnSet(caps, V)
  BY <1>2, <1>4, <1>5, <1>6, SumByParts
<1> QED
  BY <1>7 DEF e, D, V, caps

\* Where rates are measured in a unit that no quotient breaks, nothing at all is left.
THEOREM GrantsSpendAll ==
  ASSUME NEW root \in Nat, NEW want, Wants(want), NEW pol, Covers(pol, want),
         NEW n \in Nat \ {0}, NEW u \in Nat \ {0}, SharedByLayer(n, pol, want),
         3 * Cardinality(DOMAIN want) < u,
         Multiple(root, n * (n * (n * u))),
         \A vm \in VmsOf(want) : Multiple(pol.maxRate[vm], n * (n * (n * u))),
         \A f \in DOMAIN want : Multiple(want[f], n * (n * (n * u)))
  PROVE  SumFunctionOnSet(Grants(root, pol, want), DOMAIN want)
           = Smaller(root, SumFunctionOnSet(VmCaps(pol, want), VmsOf(want)))
<1> DEFINE e == Grants(root, pol, want)
           D == DOMAIN want
           V == VmsOf(want)
           caps == VmCaps(pol, want)
           m3 == n * (n * (n * u))
           all == SumFunctionOnSet(caps, V)
           given == SumFunctionOnSet(e, D)
<1>1. m3 \in Nat /\ n * (n * n) \in Nat /\ m3 = (n * (n * n)) * u
  <2>1. n * n \in Nat /\ n * u \in Nat
    BY ProductIsNat
  <2>2. n * (n * n) \in Nat /\ n * (n * u) \in Nat
    BY <2>1, ProductIsNat
  <2>3. m3 \in Nat
    BY <2>2, ProductIsNat
  <2> QED
    BY <2>2, <2>3
<1> HIDE DEF m3
<1>2. IsFiniteSet(D) /\ IsFiniteSet(V) /\ Cardinality(D) \in Nat
  BY PartsAreFinite, FS_CardinalityType DEF Wants
<1>3. ASSUME NEW vm \in V PROVE Multiple(caps[vm], m3)
  <2> DEFINE S == {f \in DOMAIN want : DstOf[f] = vm}
  <2>1. IsFiniteSet(S) /\ \A f \in S : Multiple(want[f], m3)
    BY PartsAreFinite DEF m3
  <2> HIDE DEF S
  <2>2. Multiple(SumFunctionOnSet(want, S), m3)
    BY <1>1, <2>1, SumOfMultiples
  <2>3. caps[vm] = Smaller(pol.maxRate[vm], SumFunctionOnSet(want, S))
    BY DEF VmCaps, VmDemand, S
  <2> QED
    BY <2>2, <2>3 DEF Smaller, m3
<1>4. \A f \in D : Multiple(e[f], u)
  BY <1>3, GrantsAreWhole DEF m3
<1> HIDE DEF e, D, V, caps
<1>5. Multiple(given, u) /\ given \in Nat
  <2>1. Multiple(given, u)
    BY <1>2, <1>4, SumOfMultiples
  <2> HIDE DEF given
  <2> QED
    BY <2>1, MultipleIsNat
<1>6. Multiple(all, m3) /\ all \in Nat
  <2>1. Multiple(all, m3)
    BY <1>1, <1>2, <1>3, SumOfMultiples
  <2> HIDE DEF all
  <2> QED
    BY <1>1, <2>1, MultipleIsNat
<1>7. Multiple(Smaller(root, all), u)
  <2>1. Multiple(Smaller(root, all), m3)
    BY <1>6 DEF Smaller, m3
  <2> HIDE DEF all
  <2> QED
    BY <1>1, <2>1, MultipleOfPart
<1>8. given <= root /\ given <= all /\ given + 3 * Cardinality(D) >= Smaller(root, all)
  BY GrantsAreWithin, GrantsAreWanted, GrantsSpend DEF e, D, V, caps
<1>9. 3 * Cardinality(D) < u
  BY DEF D
<1> HIDE DEF all, given
<1>10. given >= Smaller(root, all)
  BY <1>2, <1>5, <1>7, <1>8, <1>9, WholeGap
<1>11. given = Smaller(root, all)
  BY <1>5, <1>6, <1>8, <1>10 DEF Smaller
<1> QED
  BY <1>11 DEF given, all, e, D, V, caps

==============================================================================
