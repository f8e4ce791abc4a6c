---------------------------- MODULE RxRatesProofs -----------------------------
(***************************************************************************)
(* Proofs about the receiver's measurement (RxRates), for any flow-sets    *)
(* and any windows: its types, that no split invents a rate, and that what *)
(* is attributed to the wrong senders is right again in time. The type     *)
(* invariant is inductive as it stands: it ties the ages of the mix to     *)
(* those who have a megaflow or bytes in the window. The last theorem      *)
(* needs CalmInv: what each dump of a calm adds and takes away.            *)
(***************************************************************************)
EXTENDS RxRates, SumTheorems, SequenceTheorems

LEMMA Sizes ==
  /\ Window \in Nat \ {0} /\ SlowEvery \in Nat \ {0} /\ Lag \in Nat /\ LiveTicks \in Nat
  /\ Rdma \subseteq FlowSets /\ Steady \subseteq FlowSets
BY RatesAssumption

\* The window of dumps takes one more and drops the oldest when it is full.
LEMMA WindowSlides ==
  ASSUME hist \in Seq(SUBSET FlowSets), Len(hist) <= Window, NEW shown \in SUBSET FlowSets
  PROVE  LET longer == Append(hist, shown)
             h == IF Len(longer) > Window THEN Tail(longer) ELSE longer
         IN h \in Seq(SUBSET FlowSets) /\ Len(h) <= Window
<1> DEFINE longer == Append(hist, shown)
<1>1. longer \in Seq(SUBSET FlowSets) /\ Len(longer) = Len(hist) + 1
  OBVIOUS
<1>2. Len(hist) \in Nat /\ Window \in Nat
  BY Sizes
<1>3. longer # <<>>
  BY <1>1, <1>2
<1> HIDE DEF longer
<1>4. Tail(longer) \in Seq(SUBSET FlowSets) /\ Len(Tail(longer)) = Len(hist)
  BY <1>1, <1>2, <1>3, HeadTailProperties
<1>5. CASE Len(longer) > Window
  BY <1>4, <1>5 DEF longer
<1>6. CASE ~(Len(longer) > Window)
  BY <1>1, <1>2, <1>6 DEF longer
<1> QED
  BY <1>5, <1>6

LEMMA AgesBound ==
  ASSUME TypeOK, NEW members \in SUBSET FlowSets
  PROVE  AgesAfter(members) \in [members -> 0 .. Window]
BY Sizes DEF TypeOK, AgesAfter, Members

LEMMA DumpTypes ==
  ASSUME TypeOK, NEW present \in SUBSET (table \cup Owing), NEW snapshot \in BOOLEAN,
         NEW shown \in SUBSET (present \cap Owing), Dump(present, shown, snapshot)
  PROVE  TypeOK'
<1>1. present \subseteq FlowSets /\ shown \subseteq FlowSets
  BY DEF TypeOK, Members, Owing
<1>2. hist' \in Seq(SUBSET FlowSets) /\ Len(hist') <= Window
  <2>1. (IF snapshot THEN {} ELSE shown) \in SUBSET FlowSets
    BY <1>1
  <2> QED
    BY <2>1, WindowSlides DEF Dump, TypeOK
<1>3. owed' \in [FlowSets -> 0 .. Lag + 1]
  <2>1. ASSUME NEW f \in present, f \notin shown, owed[f] > 0
        PROVE  owed[f] \in 1 .. Lag
    BY <1>1, <2>1, Sizes DEF Dump, TypeOK
  <2>2. \A f \in FlowSets : owed'[f] = IF f \in shown \/ f \notin present THEN 0
                                       ELSE IF owed[f] > 0 THEN owed[f] + 1 ELSE 0
    BY DEF Dump
  <2>3. owed' = [f \in FlowSets |-> owed'[f]]
    BY DEF Dump
  <2> QED
    BY <2>1, <2>2, <2>3, Sizes
<1>4. /\ DOMAIN age' = table' \cup UNION {hist'[i] : i \in DOMAIN hist'}
      /\ DOMAIN age' \subseteq FlowSets /\ age' \in [DOMAIN age' -> 0 .. Window]
  <2> DEFINE members == present \cup UNION {hist'[i] : i \in DOMAIN hist'}
  <2>1. members \in SUBSET FlowSets
    BY <1>1, <1>2
  <2>2. age' = AgesAfter(members) /\ table' = present
    BY DEF Dump
  <2> HIDE DEF members
  <2>3. age' \in [members -> 0 .. Window]
    BY <2>1, <2>2, AgesBound
  <2> QED
    BY <2>1, <2>2, <2>3 DEF members
<1>5. phase' \in 0 .. SlowEvery /\ UNCHANGED <<sending, idle, toldAge, grants>>
  BY Sizes DEF Dump
<1>6. calm' \in 0 .. Settled
  BY Sizes DEF Dump, Settled, TypeOK
<1> QED
  BY <1>2, <1>3, <1>4, <1>5, <1>6 DEF TypeOK, Members

LEMMA TickTypes ==
  ASSUME TypeOK, NEW meter \in BOOLEAN, NEW kern \in Reports,
         NEW kept \in SUBSET (DOMAIN grants \ Members), Tick(meter, kern, kept)
  PROVE  TypeOK'
<1>1. grants' \in [Members \cup kept -> BOOLEAN] /\ DOMAIN grants' \subseteq FlowSets
  BY DEF Tick, TypeOK
<1>2. owed' \in [FlowSets -> 0 .. Lag + 1]
  BY Sizes DEF Tick, TypeOK
<1>3. toldAge' \in 0 .. LiveTicks + 1
  BY Sizes DEF Tick, TypeOK
<1>4. phase' \in 0 .. SlowEvery
  <2>1. phase' = (phase + 1) % (SlowEvery + 1) /\ phase + 1 \in Nat /\ SlowEvery + 1 \in Nat \ {0}
    BY Sizes DEF Tick, TypeOK
  <2>2. \A n \in Nat, m \in Nat \ {0} : n % m \in 0 .. m - 1
    OBVIOUS
  <2>3. (phase + 1) % (SlowEvery + 1) \in 0 .. (SlowEvery + 1) - 1
    BY <2>1, <2>2
  <2> QED
    BY <2>1, <2>3, Sizes
<1>5. UNCHANGED <<sending, table, hist, age, idle, calm>>
  BY DEF Tick
<1> QED
  BY <1>1, <1>2, <1>3, <1>4, <1>5 DEF TypeOK, Members

LEMMA SenderTypes ==
  ASSUME TypeOK,
         \/ \E f \in FlowSets : Start(f) \/ Stop(f) \/ Hear(f)
         \/ HearAgain
         \/ UNCHANGED rateVars
  PROVE  TypeOK'
<1>1. /\ UNCHANGED <<owed, table, hist, age, grants, phase>>
      /\ sending' \subseteq FlowSets /\ idle' \subseteq FlowSets
      /\ toldAge' \in 0 .. LiveTicks + 1 /\ calm' \in 0 .. Settled
  BY Sizes DEF Start, Stop, Hear, HearAgain, rateVars, TypeOK, Settled
<1> QED
  BY <1>1 DEF TypeOK, Members

\* Every reachable state of the measurement has its type: the mix has an age for
\* whoever has a megaflow or bytes in the window, and for nobody else.
THEOREM RateTypes == Spec => []TypeOK
<1>1. Init => TypeOK
  <2> SUFFICES ASSUME Init PROVE TypeOK
    OBVIOUS
  <2>1. hist = <<>> /\ hist \in Seq(SUBSET FlowSets) /\ Len(hist) = 0 /\ DOMAIN hist = {}
    BY DEF Init
  <2>2. DOMAIN age = {} /\ DOMAIN grants = {} /\ table = {}
    BY DEF Init
  <2>3. age \in [{} -> 0 .. Window] /\ grants \in [{} -> BOOLEAN]
    BY DEF Init
  <2>4. UNION {hist[i] : i \in DOMAIN hist} = {}
    BY <2>1
  <2>5. /\ sending \subseteq FlowSets /\ owed \in [FlowSets -> 0 .. Lag + 1]
        /\ idle \subseteq FlowSets /\ toldAge \in 0 .. LiveTicks + 1
        /\ phase \in 0 .. SlowEvery /\ calm \in 0 .. Settled
    BY Sizes DEF Init, Settled
  <2> QED
    BY <2>1, <2>2, <2>3, <2>4, <2>5, Sizes DEF TypeOK, Members
<1>2. TypeOK /\ [Next]_rateVars => TypeOK'
  BY DumpTypes, TickTypes, SenderTypes DEF Next, Dumps, Ticks
<1> QED
  BY <1>1, <1>2, PTL DEF Spec

------------------------------------------------------------------------------
(* A split invents nothing *)

\* Whatever a flow-set is weighed by, its weight is not negative.
LEMMA WeightsAreNat ==
  ASSUME TypeOK, NEW fs \in SUBSET FlowSets
  PROVE  RatioWeights(fs) \in [fs -> Nat] /\ PriorWeights(fs) \in [fs -> Nat]
<1>1. \A f : Win(f) \in Nat
  <2> SUFFICES ASSUME NEW f PROVE Win(f) \in Nat
    OBVIOUS
  <2>1. DOMAIN hist = 1 .. Len(hist) /\ Len(hist) \in Nat
    BY DEF TypeOK
  <2>2. IsFiniteSet(DOMAIN hist)
    BY <2>1, FS_Interval
  <2>3. IsFiniteSet({i \in DOMAIN hist : f \in hist[i]})
    BY <2>2, FS_Subset
  <2> QED
    BY <2>3, FS_CardinalityType DEF Win
<1>2. \A S \in SUBSET fs : Cardinality(S) \in Nat
  <2>1. IsFiniteSet(fs)
    BY RatesAssumption, FS_Subset
  <2> QED
    BY <2>1, FS_Subset, FS_CardinalityType
<1>3. RatioWeights(fs) \in [fs -> Nat]
  BY <1>1 DEF RatioWeights
<1>4. PriorWeights(fs) \in [fs -> Nat]
  <2> DEFINE granted == {f \in fs \cap DOMAIN grants : grants[f]}
             known == fs \cap DOMAIN grants
  <2>1. Cardinality(granted) \in Nat /\ Cardinality(known) \in Nat
    BY <1>2
  <2> QED
    BY <2>1 DEF PriorWeights
<1> QED
  BY <1>3, <1>4

\* Gating never gates all members of a pool.
LEMMA SomeoneIsAlive == \A fs : fs # {} => Alive(fs) \subseteq fs /\ Alive(fs) # {}
BY DEF Alive

\* Whether the weights are taken over all members or over those alive, and even if
\* nobody has any: those who are alive get no more than all, and all if nobody is gated.
LEMMA SplitPartsFit ==
  ASSUME TypeOK, NEW fs \in SUBSET FlowSets, fs # {}, NEW size, NEW gate \in BOOLEAN
  PROVE  LET s == Split(fs, size, gate)
             parts == SumFunction(s.weight)
         IN parts <= s.of /\ (s.gated = {} => parts = s.of)
<1> DEFINE act == IF gate THEN Alive(fs) ELSE fs
           w == IF Trusted(act) THEN RatioWeights(fs) ELSE PriorWeights(act)
           all == IF Trusted(act) THEN fs ELSE act
           sum == SumFunction(w)
           weight == [f \in act |-> IF sum > 0 THEN w[f] ELSE 1]
           s == Split(fs, size, gate)
<1>1. s.gated = fs \ act /\ s.weight = weight /\ s.of = IF sum > 0 THEN sum ELSE Cardinality(act)
  BY DEF Split
<1>2. act \subseteq fs /\ act # {} /\ act \subseteq all /\ all \subseteq fs
  BY SomeoneIsAlive
<1>3. w \in [all -> Nat] /\ DOMAIN w = all
  <2>1. act \in SUBSET FlowSets
    BY <1>2
  <2> HIDE DEF act
  <2> QED
    BY <2>1, WeightsAreNat
<1>4. IsFiniteSet(all) /\ IsFiniteSet(act) /\ Cardinality(act) \in Nat
  BY <1>2, RatesAssumption, FS_Subset, FS_CardinalityType
<1>5. SumFunction(s.weight) = SumFunctionOnSet(weight, act) /\ sum = SumFunctionOnSet(w, all)
  <2>1. DOMAIN weight = act
    OBVIOUS
  <2> HIDE DEF act, w, all, weight, s
  <2> QED
    BY <1>1, <1>3, <2>1 DEF SumFunction, sum
<1>6. sum \in Nat /\ SumFunctionOnSet(w, act) <= sum
  <2> HIDE DEF act, w, all
  <2>1. \A f \in all : w[f] \in Nat
    BY <1>3
  <2> QED
    BY <1>2, <1>4, <1>5, <2>1, SumIsNat
<1>7. s.gated = {} => act = all
  BY <1>1, <1>2
<1>8. CASE sum > 0
  <2>1. \A f \in act : weight[f] \in Int /\ weight[f] = w[f]
    BY <1>2, <1>3, <1>8
  <2>2. SumFunctionOnSet(weight, act) = SumFunctionOnSet(w, act)
    <3>1. IsFiniteSet(act)
      BY <1>4
    <3> HIDE DEF act, w, all, weight, s, sum
    <3> QED
      BY <2>1, <3>1, SumIsSame
  <2> HIDE DEF act, w, all, weight, s, sum
  <2> QED
    BY <1>1, <1>5, <1>6, <1>7, <1>8, <2>2 DEF s
<1>9. CASE ~(sum > 0)
  <2>1. \A f \in act : weight[f] = 1
    BY <1>9
  <2>2. SumFunctionOnSet(weight, act) = 1 * Cardinality(act)
    <3>1. IsFiniteSet(act) /\ 1 \in Int
      BY <1>4
    <3> HIDE DEF act, w, all, weight, s, sum
    <3> QED
      BY <2>1, <3>1, SumOfConstant
  <2> HIDE DEF act, w, all, weight, s, sum
  <2> QED
    BY <1>1, <1>4, <1>5, <1>9, <2>2 DEF s
<1> QED
  BY <1>8, <1>9

LEMMA NothingInventedByTypes == TypeOK => NothingInvented
<1> SUFFICES ASSUME TypeOK, NEW meter \in BOOLEAN, NEW kern \in Reports,
                    NEW p \in DOMAIN Rates(meter, kern)
             PROVE  LET s == Rates(meter, kern)[p]
                        parts == SumFunction(s.weight)
                    IN parts <= s.of /\ (s.gated = {} => parts = s.of)
  BY DEF NothingInvented
<1> DEFINE fs == Group(p) \cap Members
<1>1. fs # {} /\ Rates(meter, kern)[p] = Split(fs, PoolSizes(meter, kern)[p], p # "all")
  BY DEF Rates
<1>2. fs \in SUBSET FlowSets
  BY DEF TypeOK
<1> HIDE DEF fs
<1> QED
  BY <1>1, <1>2, SplitPartsFit

\* However the flow-sets of a pool came, left, fell silent or were gated, and whatever
\* was granted before: what the pool is divided into never makes more than the pool,
\* and all of it unless a member is gated.
THEOREM NothingIsInvented == Spec => []NothingInvented
BY RateTypes, NothingInventedByTypes, PTL

------------------------------------------------------------------------------
(* Misattribution is over in time *)

\* The dump that shows an owing flow-set's bytes at the latest is Lag + 1 dumps away:
\* what is owed counts the dumps since a flow-set was last shown.
Since(f) == IF owed[f] = 0 THEN 1 ELSE owed[f]

\* Before a dump every sender owes bytes, as an iteration came after its start; only
\* the very first dump finds nothing.
SendersOwe ==
  /\ hist # <<>> /\ phase = 0 => \A f \in sending : owed[f] > 0
  /\ hist = <<>> => calm = 0

\* A sender was shown as recently as it owes, or owes since before the calm.
SendersShown ==
  \A f \in sending :
    \/ Since(f) >= calm
    \/ \E i \in DOMAIN hist : i > Len(hist) - Since(f) /\ f \in hist[i]

\* What is still owed by those who do not send any more is from before the calm.
OldDebts == \A f \in FlowSets \ sending : owed[f] = 0 \/ owed[f] > calm

\* The dumps of the calm show flow-sets of the table, and, once old debts are shown,
\* senders only.
CalmDumps ==
  \A i \in DOMAIN hist :
    /\ i > Len(hist) - calm => hist[i] \subseteq table
    /\ i > Len(hist) - (calm - (Lag + 1)) => hist[i] \subseteq sending

\* Whoever is in the table through the calm is that old.
CalmAges == \A f \in table : age[f] >= calm \/ age[f] = Window

CalmInv == SendersOwe /\ SendersShown /\ OldDebts /\ CalmDumps /\ CalmAges

\* The window after a dump: a new entry at its end, the others where they were, or one
\* place down when the window was full.
Slid(shown) ==
  LET longer == Append(hist, shown)
  IN IF Len(longer) > Window THEN Tail(longer) ELSE longer

Moved(h, drop, shown) ==
  /\ drop = 1 => Len(hist) = Window
  /\ DOMAIN hist = 1 .. Len(hist) /\ Len(hist) \in 0 .. Window
  /\ DOMAIN h = 1 .. Len(h) /\ Len(h) = Len(hist) + 1 - drop /\ Len(h) \in 1 .. Window
  /\ h[Len(h)] = shown
  /\ \A i \in 1 .. Len(h) - 1 : h[i] = hist[i + drop]

LEMMA WindowMoves ==
  ASSUME TypeOK, NEW shown \in SUBSET FlowSets
  PROVE  \E drop \in {0, 1} : Moved(Slid(shown), drop, shown)
<1> DEFINE longer == Append(hist, shown)
           rest == Tail(longer)
<1>1. /\ longer \in Seq(SUBSET FlowSets) /\ Len(longer) = Len(hist) + 1 /\ longer # <<>>
      /\ \A i \in 1 .. Len(hist) : longer[i] = hist[i]
      /\ longer[Len(hist) + 1] = shown
  BY DEF TypeOK
<1>2. Len(hist) \in Nat /\ Len(hist) <= Window /\ DOMAIN hist = 1 .. Len(hist)
      /\ Window \in Nat \ {0}
  BY Sizes DEF TypeOK
<1>3. Slid(shown) = IF Len(longer) > Window THEN rest ELSE longer
  BY DEF Slid
<1> HIDE DEF longer
<1>4. CASE Len(longer) > Window
  <2>1. /\ rest \in Seq(SUBSET FlowSets) /\ Len(rest) = Len(longer) - 1
        /\ \A i \in 1 .. Len(longer) - 1 : rest[i] = longer[i + 1]
    BY <1>1, HeadTailProperties
  <2> HIDE DEF rest
  <2>2. Len(hist) = Window
    <3>1. Len(longer) = Len(hist) + 1
      BY <1>1
    <3>2. Len(hist) + 1 > Window
      BY <1>4, <3>1
    <3>3. Len(hist) \in Nat /\ Window \in Nat /\ Len(hist) <= Window
      BY <1>2
    <3> QED
      BY <3>2, <3>3
  <2>3. Len(rest) = Len(hist) /\ DOMAIN rest = 1 .. Len(rest)
    BY <1>1, <1>2, <2>1
  <2>4. \A i \in 1 .. Len(hist) - 1 : rest[i] = hist[i + 1]
    BY <1>1, <1>2, <2>1
  <2>5. rest[Len(hist)] = shown
    BY <1>1, <1>2, <2>1, <2>2
  <2>6. Moved(rest, 1, shown)
    BY <1>2, <2>2, <2>3, <2>4, <2>5 DEF Moved
  <2> QED
    BY <1>3, <1>4, <2>6
<1>5. CASE ~(Len(longer) > Window)
  <2>1. DOMAIN longer = 1 .. Len(longer)
    BY <1>1
  <2>2. Moved(longer, 0, shown)
    BY <1>1, <1>2, <1>5, <2>1 DEF Moved
  <2> QED
    BY <1>3, <1>5, <2>2
<1> QED
  BY <1>4, <1>5

\* In a dump of the calm who sends is in the table, and whoever is withheld owes more.
LEMMA DumpOwes ==
  ASSUME TypeOK, NEW present \in SUBSET (table \cup Owing), NEW snapshot \in BOOLEAN,
         NEW shown \in SUBSET (present \cap Owing), Dump(present, shown, snapshot)
  PROVE  \A f \in FlowSets :
           /\ f \in shown \/ f \notin present => owed'[f] = 0
           /\ f \in present /\ f \notin shown /\ owed[f] > 0 =>
                owed[f] <= Lag /\ owed'[f] = owed[f] + 1
           /\ owed[f] = 0 => owed'[f] = 0
BY Sizes DEF Dump, TypeOK, Owing

LEMMA DumpKeepsCalm ==
  ASSUME Lag < Window, TypeOK, CalmInv,
         NEW present \in SUBSET (table \cup Owing), NEW snapshot \in BOOLEAN,
         NEW shown \in SUBSET (present \cap Owing), Dump(present, shown, snapshot)
  PROVE  CalmInv'
<1> DEFINE added == IF snapshot THEN {} ELSE shown
<1>1. present \subseteq FlowSets /\ shown \subseteq present /\ added \in SUBSET FlowSets
      /\ added \subseteq shown
  BY DEF TypeOK, Members, Owing
<1>2. hist' = Slid(added)
  BY DEF Dump, Slid
<1> HIDE DEF added
<1>3. PICK drop \in {0, 1} : Moved(hist', drop, added)
  BY <1>1, <1>2, WindowMoves
<1> DEFINE L == Len(hist)
           M == Len(hist')
<1>4. /\ DOMAIN hist = 1 .. L /\ DOMAIN hist' = 1 .. M
      /\ hist'[M] = added
      /\ \A i \in 1 .. M - 1 : hist'[i] = hist[i + drop]
  BY <1>3 DEF Moved
<1>5. /\ drop \in Int /\ 0 <= drop /\ drop <= 1
      /\ drop = 1 => L = Window
      /\ L \in Int /\ 0 <= L /\ L <= Window
      /\ M \in Int /\ 1 <= M /\ M <= Window /\ M = L + 1 - drop
  <2>1. L \in 0 .. Window /\ M \in 1 .. Window /\ M = L + 1 - drop /\ (drop = 1 => L = Window)
    BY <1>3 DEF Moved
  <2> HIDE DEF L, M
  <2> QED
    BY <2>1, Sizes
<1>6. /\ sending' = sending /\ table' = present /\ phase' = 1 /\ phase = 0
      /\ calm' = IF present # table THEN 0 ELSE IF calm < Settled THEN calm + 1 ELSE calm
      /\ Owing \cap sending \subseteq present
      /\ sending \subseteq FlowSets /\ calm \in 0 .. Settled /\ Settled = Window + Lag + 1
      /\ owed \in [FlowSets -> 0 .. Lag + 1]
      /\ owed' \in [FlowSets -> Nat]
  <2>1. TypeOK'
    BY DumpTypes
  <2>2. owed' \in [FlowSets -> Nat]
    BY <2>1, Sizes DEF TypeOK
  <2> QED
    BY <2>2, Sizes DEF Dump, TypeOK, Settled
<1>7. calm' \in 0 .. Settled /\ calm' <= calm + 1 /\ (calm' > 0 => present = table)
  BY <1>6, Sizes
<1>8. hist' # <<>>
  <2>1. M # 0
    BY <1>5
  <2> QED
    BY <2>1
<1> HIDE DEF L, M
<1>9. SendersOwe'
  BY <1>6, <1>8 DEF SendersOwe
<1>10. SendersShown'
  <2> SUFFICES ASSUME NEW f \in sending, ~(Since(f)' >= calm')
               PROVE  \E i \in DOMAIN hist' : i > M - Since(f)' /\ f \in hist'[i]
    BY <1>6 DEF SendersShown, M
  <2>1. f \in FlowSets /\ owed[f] \in 0 .. Lag + 1 /\ owed'[f] \in Nat
    BY <1>6
  <2>2. Since(f)' \in Nat \ {0} /\ calm' > 1
    BY <1>6, <1>7, <2>1 DEF Since
  <2>3. present = table /\ calm >= 1
    BY <1>6, <1>7, <2>2
  <2>4. owed[f] > 0 /\ f \in present
    BY <1>6, <2>1, <2>3 DEF CalmInv, SendersOwe, Owing
  <2>5. CASE f \in shown
    <3>1. ~snapshot
      BY <2>3, <2>5, <1>1 DEF Dump
    <3>2. f \in hist'[M]
      BY <1>4, <2>5, <3>1 DEF added
    <3> QED
      BY <1>4, <1>5, <2>2, <3>2, Sizes
  <2>6. CASE f \notin shown
    <3>1. owed[f] <= Lag /\ owed'[f] = owed[f] + 1
      BY <2>1, <2>4, <2>6, DumpOwes
    <3>2. Since(f)' = Since(f) + 1 /\ Since(f) = owed[f] /\ Since(f) \in 1 .. Lag
      BY <2>1, <2>4, <3>1, Sizes DEF Since
    <3>3. PICK i \in DOMAIN hist : i > L - Since(f) /\ f \in hist[i]
      BY <1>7, <2>1, <2>2, <3>2, <1>6 DEF CalmInv, SendersShown, L
    <3>4. i \in 1 .. L /\ i - drop \in 1 .. M - 1
      BY <1>4, <1>5, <3>2, <3>3, Sizes
    <3>5. hist'[i - drop] = hist[i]
      BY <1>4, <3>4
    <3>6. i - drop > M - Since(f)'
      BY <1>5, <3>2, <3>3, <3>4
    <3> QED
      BY <1>4, <1>5, <3>3, <3>4, <3>5, <3>6
  <2> QED
    BY <2>5, <2>6
<1>11. OldDebts'
  <2> SUFFICES ASSUME NEW f \in FlowSets \ sending, owed'[f] # 0
               PROVE  owed'[f] > calm'
    BY <1>6 DEF OldDebts
  <2>1. f \in present /\ f \notin shown /\ owed[f] > 0 /\ owed'[f] = owed[f] + 1
    BY <1>6, DumpOwes
  <2>2. owed[f] > calm
    BY <2>1 DEF CalmInv, OldDebts
  <2> QED
    BY <1>6, <1>7, <2>1, <2>2
<1>12. CalmDumps'
  <2> SUFFICES ASSUME NEW i \in DOMAIN hist'
               PROVE  /\ i > M - calm' => hist'[i] \subseteq present
                      /\ i > M - (calm' - (Lag + 1)) => hist'[i] \subseteq sending
    BY <1>6 DEF CalmDumps, M
  <2>1. CASE i = M
    <3>1. hist'[i] = added /\ added \subseteq present
      BY <1>1, <1>4, <2>1
    <3>2. ASSUME i > M - (calm' - (Lag + 1)), NEW f \in added PROVE f \in sending
      <4>1. calm >= Lag + 1
        BY <1>5, <1>6, <1>7, <2>1, <3>2, Sizes
      <4>2. f \in FlowSets /\ owed[f] > 0
        BY <1>1 DEF Owing
      <4> QED
        BY <1>6, <4>1, <4>2, Sizes DEF CalmInv, OldDebts
    <3> QED
      BY <3>1, <3>2
  <2>2. CASE i # M
    <3>1. i \in 1 .. M - 1 /\ i + drop \in 1 .. M
      BY <1>4, <1>5, <2>2
    <3>2. i + drop \in DOMAIN hist /\ hist'[i] = hist[i + drop]
      BY <1>4, <1>5, <3>1
    <3>3. i > M - calm' => present = table /\ i + drop > L - calm
      BY <1>5, <1>6, <1>7, <3>1, Sizes
    <3>4. i > M - (calm' - (Lag + 1)) =>
            i + drop > L - (calm - (Lag + 1))
      BY <1>5, <1>6, <1>7, <3>1, Sizes
    <3> QED
      BY <3>2, <3>3, <3>4 DEF CalmInv, CalmDumps, L
  <2> QED
    BY <2>1, <2>2
<1>13. CalmAges'
  <2> SUFFICES ASSUME NEW f \in present PROVE age'[f] >= calm' \/ age'[f] = Window
    BY <1>6 DEF CalmAges
  <2> DEFINE members == present \cup UNION {hist'[i] : i \in DOMAIN hist'}
  <2>1. age' = AgesAfter(members) /\ f \in members
    BY DEF Dump
  <2> HIDE DEF members
  <2>2. age'[f] = IF f \notin DOMAIN age THEN 0
                  ELSE IF age[f] < Window THEN age[f] + 1 ELSE Window
    BY <2>1 DEF AgesAfter
  <2>3. CASE present # table
    <3>1. calm' = 0
      BY <1>6, <2>3
    <3>2. f \in DOMAIN age => age[f] \in Nat
      BY Sizes DEF TypeOK, Members
    <3> QED
      BY <2>2, <3>1, <3>2, Sizes
  <2>4. CASE present = table
    <3>1. f \in DOMAIN age /\ age[f] \in 0 .. Window
      BY <2>4, Sizes DEF TypeOK, Members
    <3>2. age[f] >= calm \/ age[f] = Window
      BY <2>4 DEF CalmInv, CalmAges
    <3> QED
      BY <1>6, <1>7, <2>2, <3>1, <3>2, Sizes
  <2> QED
    BY <2>3, <2>4
<1> QED
  BY <1>9, <1>10, <1>11, <1>12, <1>13 DEF CalmInv

LEMMA TickKeepsCalm ==
  ASSUME TypeOK, CalmInv, NEW meter \in BOOLEAN, NEW kern \in Reports,
         NEW kept \in SUBSET (DOMAIN grants \ Members), Tick(meter, kern, kept)
  PROVE  CalmInv'
<1>1. /\ UNCHANGED <<sending, table, hist, age, calm>>
      /\ owed' = [f \in FlowSets |-> IF f \in sending /\ owed[f] = 0 THEN 1 ELSE owed[f]]
  BY DEF Tick
<1>2. owed \in [FlowSets -> 0 .. Lag + 1] /\ sending \subseteq FlowSets
  BY DEF TypeOK
<1>3. \A f \in sending : owed'[f] > 0 /\ Since(f)' = Since(f)
  BY <1>1, <1>2, Sizes DEF Since
<1>4. \A f \in FlowSets \ sending : owed'[f] = owed[f]
  BY <1>1
<1> QED
  BY <1>1, <1>3, <1>4
     DEF CalmInv, SendersOwe, SendersShown, OldDebts, CalmDumps, CalmAges

\* Who starts or stops ends the calm.
LEMMA ChangeEndsCalm ==
  ASSUME TypeOK, CalmInv, NEW f \in FlowSets, Start(f) \/ Stop(f)
  PROVE  CalmInv'
<1>1. /\ UNCHANGED <<owed, table, hist, age>> /\ calm' = 0 /\ phase' = phase /\ phase # 0
      /\ sending' \subseteq FlowSets
  BY DEF Start, Stop, TypeOK
<1>2. /\ owed \in [FlowSets -> 0 .. Lag + 1] /\ age \in [Members -> 0 .. Window]
      /\ Len(hist) \in Nat /\ DOMAIN hist = 1 .. Len(hist) /\ table \subseteq Members
  BY DEF TypeOK
<1>3. SendersOwe' /\ CalmAges'
  BY <1>1, <1>2, Sizes DEF SendersOwe, CalmAges
<1>4. SendersShown' /\ OldDebts'
  BY <1>1, <1>2, Sizes DEF SendersShown, OldDebts, Since
<1>5. CalmDumps'
  BY <1>1, <1>2, Sizes DEF CalmDumps
<1> QED
  BY <1>3, <1>4, <1>5 DEF CalmInv

LEMMA CalmIsKept ==
  ASSUME Lag < Window
  PROVE  Spec => []CalmInv
<1>1. Init => CalmInv
  BY Sizes DEF Init, CalmInv, SendersOwe, SendersShown, OldDebts, CalmDumps, CalmAges, Since
<1>2. TypeOK /\ CalmInv /\ [Next]_rateVars => CalmInv'
  <2> SUFFICES ASSUME TypeOK, CalmInv, [Next]_rateVars PROVE CalmInv'
    OBVIOUS
  <2>1. CASE Dumps
    BY <2>1, DumpKeepsCalm DEF Dumps
  <2>2. CASE Ticks
    BY <2>2, TickKeepsCalm DEF Ticks
  <2>3. CASE \E f \in FlowSets : Start(f) \/ Stop(f)
    BY <2>3, ChangeEndsCalm
  <2>4. CASE (\E f \in FlowSets : Hear(f)) \/ HearAgain \/ UNCHANGED rateVars
    <3>1. UNCHANGED <<sending, owed, table, hist, age, phase, calm>>
      BY <2>4 DEF Hear, HearAgain, rateVars
    <3> QED
      BY <3>1 DEF CalmInv, SendersOwe, SendersShown, OldDebts, CalmDumps, CalmAges, Since
  <2> QED
    BY <2>1, <2>2, <2>3, <2>4 DEF Next
<1> QED
  BY <1>1, <1>2, RateTypes, PTL DEF Spec

\* At the end of the calm the window has bytes of all senders and of nobody else, and
\* nobody in the mix is young.
LEMMA CalmWindow ==
  ASSUME Lag < Window, TypeOK, CalmInv, calm = Settled
  PROVE  /\ \A f \in FlowSets : Win(f) > 0 <=> f \in sending
         /\ \A f \in FlowSets : Win(f) \in Nat
         /\ sending \subseteq Members
         /\ YoungActive = {} /\ Unmeasured = {}
<1>1. /\ Len(hist) \in Nat /\ Len(hist) <= Window /\ DOMAIN hist = 1 .. Len(hist)
      /\ sending \subseteq FlowSets /\ owed \in [FlowSets -> 0 .. Lag + 1]
      /\ age \in [Members -> 0 .. Window]
      /\ Members = table \cup UNION {hist[i] : i \in DOMAIN hist}
  BY DEF TypeOK
<1>2. calm = Window + Lag + 1
  BY DEF Settled
<1>3. \A i \in DOMAIN hist : hist[i] \subseteq table /\ hist[i] \subseteq sending
  BY <1>1, <1>2, Sizes DEF CalmInv, CalmDumps
<1>4. \A f \in sending : \E i \in DOMAIN hist : f \in hist[i]
  <2> SUFFICES ASSUME NEW f \in sending PROVE \E i \in DOMAIN hist : f \in hist[i]
    OBVIOUS
  <2>1. owed[f] \in 0 .. Lag + 1
    BY <1>1
  <2>2. Since(f) < calm
    BY <1>2, <2>1, Sizes DEF Since
  <2>3. Since(f) \in Int /\ calm \in Int
    BY <1>2, <2>1, Sizes DEF Since
  <2> QED
    BY <2>2, <2>3 DEF CalmInv, SendersShown
<1>5. \A f \in FlowSets : Win(f) \in Nat /\ (Win(f) > 0 <=> f \in sending)
  <2> SUFFICES ASSUME NEW f \in FlowSets
               PROVE  Win(f) \in Nat /\ (Win(f) > 0 <=> f \in sending)
    OBVIOUS
  <2> DEFINE W == {i \in DOMAIN hist : f \in hist[i]}
  <2>1. IsFiniteSet(W)
    <3>1. IsFiniteSet(DOMAIN hist)
      BY <1>1, FS_Interval
    <3> QED
      BY <3>1, FS_Subset
  <2>2. Cardinality(W) \in Nat /\ (Cardinality(W) = 0 <=> W = {})
    BY <2>1, FS_CardinalityType, FS_EmptySet
  <2>3. W # {} <=> f \in sending
    BY <1>3, <1>4
  <2> HIDE DEF W
  <2>4. Win(f) = Cardinality(W)
    BY DEF Win, W
  <2> QED
    BY <2>2, <2>3, <2>4
<1>6. sending \subseteq Members
  BY <1>1, <1>4
<1>7. \A f \in Members : age[f] = Window
  <2> SUFFICES ASSUME NEW f \in Members PROVE age[f] = Window
    OBVIOUS
  <2>1. f \in table
    BY <1>1, <1>3
  <2>2. age[f] \in 0 .. Window
    BY <1>1
  <2>3. age[f] >= calm \/ age[f] = Window
    BY <2>1 DEF CalmInv, CalmAges
  <2> QED
    BY <1>2, <2>2, <2>3, Sizes
<1>8. YoungActive = {} /\ Unmeasured = {}
  BY <1>7, Sizes DEF YoungActive, Unmeasured
<1> QED
  BY <1>5, <1>6, <1>8

\* Where the byte ratio is to be trusted, a pool is credited to those with bytes.
LEMMA RatioCredits ==
  ASSUME TypeOK, NEW fs \in SUBSET Members, NEW size, NEW gate \in BOOLEAN,
         NEW S \in SUBSET FlowSets,
         \A f \in FlowSets : Win(f) > 0 <=> f \in S,
         \A f \in FlowSets : Win(f) \in Nat,
         S \cap fs # {}, \A f \in S : ~Idle(f),
         YoungActive = {}, Unmeasured = {}
  PROVE  Credited(Split(fs, size, gate)) = S \cap fs
<1> DEFINE act == IF gate THEN Alive(fs) ELSE fs
           w == RatioWeights(fs)
           sum == SumFunction(w)
           weight == [f \in act |-> IF sum > 0 THEN w[f] ELSE 1]
<1>1. Members \subseteq FlowSets /\ fs \subseteq FlowSets /\ IsFiniteSet(fs)
  <2>1. Members \subseteq FlowSets
    BY DEF TypeOK
  <2> QED
    BY <2>1, RatesAssumption, FS_Subset
<1>2. Trusted(act)
  BY DEF Trusted
<1>3. Split(fs, size, gate).weight = weight
  <2> HIDE DEF act
  <2> QED
    BY <1>2 DEF Split, act
<1>4. PICK s \in S \cap fs : TRUE
  OBVIOUS
<1>5. S \cap fs \subseteq act /\ act \subseteq fs
  BY <1>4 DEF Alive
<1>6. \A f \in fs : w[f] = Win(f) /\ w[f] \in Nat
  <2>1. s \in Members /\ Win(s) > 0
    BY <1>1, <1>4
  <2> QED
    BY <1>1, <2>1 DEF RatioWeights
<1>7. DOMAIN w = fs
  BY DEF RatioWeights
<1> HIDE DEF w
<1>8. sum > 0
  <2>1. w[s] > 0
    BY <1>1, <1>4, <1>6
  <2>2. sum = SumFunctionOnSet(w, fs)
    BY <1>7 DEF SumFunction
  <2>3. SumFunctionOnSet(w, fs) \in Nat /\ w[s] <= SumFunctionOnSet(w, fs)
    BY <1>1, <1>4, <1>6, SumIsNat
  <2> HIDE DEF sum
  <2> QED
    BY <1>4, <1>6, <2>1, <2>2, <2>3
<1> HIDE DEF sum, act
<1>9. DOMAIN weight = act /\ \A f \in act : weight[f] = Win(f)
  BY <1>5, <1>6, <1>8
<1> HIDE DEF weight
<1>10. Credited(Split(fs, size, gate)) = {f \in act : Win(f) > 0}
  BY <1>3, <1>9 DEF Credited
<1>11. {f \in act : Win(f) > 0} = S \cap fs
  BY <1>1, <1>5
<1> QED
  BY <1>10, <1>11

LEMMA CalmAttributes == Lag < Window /\ TypeOK /\ CalmInv => TruthInTime
<1> SUFFICES ASSUME Lag < Window, TypeOK, CalmInv, calm = Settled, FeedIsTrue,
                    NEW meter \in BOOLEAN, NEW kern \in Reports,
                    NEW p \in DOMAIN Rates(meter, kern), sending \cap Group(p) # {}
             PROVE  Credited(Rates(meter, kern)[p]) = sending \cap Group(p)
  BY DEF TruthInTime, Attributed
<1> DEFINE fs == Group(p) \cap Members
<1>1. Rates(meter, kern)[p] = Split(fs, PoolSizes(meter, kern)[p], p # "all")
  BY DEF Rates
<1>2. /\ \A f \in FlowSets : Win(f) > 0 <=> f \in sending
      /\ \A f \in FlowSets : Win(f) \in Nat
      /\ sending \subseteq Members /\ YoungActive = {} /\ Unmeasured = {}
  BY CalmWindow
<1>3. sending \subseteq FlowSets /\ \A f \in sending : ~Idle(f)
  BY DEF TypeOK, FeedIsTrue
<1>4. sending \cap fs = sending \cap Group(p)
  BY <1>2
<1>5. fs \in SUBSET Members /\ sending \in SUBSET FlowSets
  BY <1>3
<1> HIDE DEF fs
<1>6. Credited(Split(fs, PoolSizes(meter, kern)[p], p # "all")) = sending \cap fs
  BY <1>2, <1>3, <1>4, <1>5, RatioCredits
<1> QED
  BY <1>1, <1>4, <1>6

\* However senders came, left and came back, however long the NIC withheld their bytes
\* and whatever was guessed from grants meanwhile: Settled dumps after the last change
\* of senders and flow table each pool is split among exactly those who send. The window
\* has to be longer than bytes are withheld, or a sender may have none in it.
THEOREM TruthIsInTime ==
  ASSUME Lag < Window
  PROVE  Spec => []TruthInTime
BY RateTypes, CalmIsKept, CalmAttributes, PTL

==============================================================================
