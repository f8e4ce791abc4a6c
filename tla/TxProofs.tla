------------------------------- MODULE TxProofs -------------------------------
(***************************************************************************)
(* Proofs about the sender agent: its loop (TxAgent), for any number of    *)
(* flow-sets, any grid and any thresholds that satisfy the assumptions of  *)
(* that module, and what surrounds the loop, the path of the paces to the  *)
(* executors (TxPath) and the reload of the policy (TxPolicy).             *)
(*                                                                         *)
(* The loop's inductive invariant is IInv: the properties the runs check,  *)
(* and that a flow-set is in fail-open only past N2, which is what makes   *)
(* the ticker cap it again in every tick. Path and reload leave the loop a *)
(* behaviour of TxAgent, so that every theorem about it holds beside them. *)
(* Whatever is lost, reordered or restarted, an executor only ever holds a *)
(* pace of the grid or nothing of the agent's, and the NIC departs from    *)
(* the policy only by a fault.                                             *)
(*                                                                         *)
(* Two liveness properties are proved of the safety specification, from    *)
(* the recurrence of a step where the runs assume fairness: what is needed *)
(* is one such step, not a count of them.                                  *)
(***************************************************************************)
EXTENDS TxPath, TxPolicy, TLAPS

------------------------------------------------------------------------------
(* The loop *)

\* What Follow is applied to: a known flow-set, or one its record creates.
Follower == [mode : {"fresh", "track", "frozen", "fail_open"}, R : Level,
             age : 0 .. N3 + 1, since : 0 .. DtMax + 1,
             pace : NoPace .. Top, beat : 0 .. Heartbeat]

\* Fail-open begins past N2, and only a record ends it.
FailOpenIsOld ==
  \A f \in Flows : Known(f) /\ st[f].mode = "fail_open" => st[f].age > N2

\* The part of the invariant that is about one flow-set's state.
Sound(s) ==
  /\ s \in FlowState
  /\ s.pace <= s.R
  /\ s.mode = "fail_open" => s.age > N2

IInv == TypeOK /\ LimiterOnlyLags /\ FailOpenCapped /\ FailOpenIsOld

------------------------------------------------------------------------------
(* The operators *)

\* A step of the law ends within the grid, and above neither the rate it starts
\* from nor the target.
LEMMA TrackStepBounds ==
  ASSUME NEW R \in Level, NEW u \in Level, NEW dt \in 1 .. DtMax
  PROVE  /\ TrackStep(R, u, dt) \in Paces
         /\ TrackStep(R, u, dt) <= Larger(Larger(R, u), Floor)
<1> DEFINE t   == Larger(u, Floor)
           r0  == Larger(R, Floor)
           way == Covered(Distance(t, r0), dt)
<1>1. t \in 0 .. Top /\ r0 \in 0 .. Top
  BY SizesAssumption DEF Larger, Floor, Level, Zero
<1>2. Distance(t, r0) \in 0 .. Top
  BY <1>1, SizesAssumption DEF Distance
<1>3. way \in 0 .. Distance(t, r0)
  BY <1>2, LawAssumption
<1>4. TrackStep(R, u, dt) = IF t >= r0 THEN r0 + way ELSE r0 - way
  BY DEF TrackStep
<1>5. CASE t >= r0
  <2>1. Distance(t, r0) = t - r0
    BY <1>5 DEF Distance
  <2> HIDE DEF way
  <2>2. r0 + way \in Paces /\ r0 + way <= t
    BY <1>1, <1>3, <2>1, SizesAssumption DEF Paces, Floor
  <2> QED
    BY <1>1, <1>4, <1>5, <2>2, SizesAssumption DEF Larger, Floor, Level, Zero, Paces
<1>6. CASE ~(t >= r0)
  <2>1. Distance(t, r0) = r0 - t
    BY <1>6 DEF Distance
  <2> HIDE DEF way
  <2>2. r0 - way \in Paces /\ r0 - way <= r0
    BY <1>1, <1>3, <1>6, <2>1, SizesAssumption DEF Paces, Floor
  <2> QED
    BY <1>1, <1>4, <1>6, <2>2, SizesAssumption DEF Larger, Floor, Level, Zero, Paces
<1> QED
  BY <1>5, <1>6

\* The interval a step covers is clamped between a tick and DtMax.
LEMMA ClampedInterval ==
  ASSUME NEW since \in 0 .. DtMax + 1
  PROVE  Larger(Smaller(since, DtMax), 1) \in 1 .. DtMax
BY SizesAssumption DEF Larger, Smaller

\* Actuation leaves everything but the pace and the heartbeat alone.
LEMMA ActuateFacts ==
  ASSUME NEW s \in Follower, s.R \in Paces, s.mode # "fresh",
         NEW tree \in Level
  PROVE  /\ Actuate(s, tree) \in FlowState
         /\ Actuate(s, tree).pace = Larger(Smaller(s.R, tree), Floor)
         /\ Actuate(s, tree).R = s.R
         /\ Actuate(s, tree).mode = s.mode
         /\ Actuate(s, tree).age = s.age
<1>1. PaceOf(s, tree) \in Paces
  BY SizesAssumption DEF PaceOf, Larger, Smaller, Paces, Floor, Level, Zero
<1>2. 0 \in 0 .. Heartbeat
  BY SizesAssumption
<1> QED
  BY <1>1, <1>2 DEF Actuate, Follower, FlowState, PaceOf

\* A tracking step leaves everything but the rate and its anchor alone.
LEMMA TrackFacts ==
  ASSUME NEW s \in Follower, NEW u \in Level
  PROVE  /\ Track(s, u) \in Follower
         /\ Track(s, u).R \in Paces
         /\ Track(s, u).mode = s.mode
         /\ Track(s, u).age = s.age
         /\ Track(s, u).R <= Larger(Larger(s.R, u), Floor)
<1> DEFINE dt == Larger(Smaller(s.since, DtMax), 1)
<1>1. dt \in 1 .. DtMax
  BY ClampedInterval DEF Follower
<1>2. /\ TrackStep(s.R, u, dt) \in Paces
      /\ TrackStep(s.R, u, dt) <= Larger(Larger(s.R, u), Floor)
  <2> HIDE DEF dt
  <2> QED
    BY <1>1, TrackStepBounds DEF Follower
<1>3. Paces \subseteq Level /\ 0 \in 0 .. DtMax + 1
  BY SizesAssumption DEF Paces, Level, Zero, Floor
<1> QED
  BY <1>2, <1>3 DEF Track, Follower

\* A reported flow-set is well typed, within its rate, and is paced at its rate
\* or its tree.
LEMMA FollowFacts ==
  ASSUME NEW s \in Follower, NEW u \in Level, NEW tree \in Level
  PROVE  /\ Sound(Follow(s, u, tree))
         /\ Follow(s, u, tree).mode = "track"
         /\ Follow(s, u, tree).R <= Larger(Larger(s.R, u), Floor)
         /\ Follow(s, u, tree).pace =
              Larger(Smaller(Follow(s, u, tree).R, tree), Floor)
<1> DEFINE s0 == [s EXCEPT !.age = 0, !.mode = "track"]
           s1 == Track(s0, u)
<1>0. 0 \in 0 .. N3 + 1
  BY SizesAssumption
<1>1. s0 \in Follower /\ s0.R = s.R /\ s0.mode = "track"
  BY <1>0 DEF Follower
<1>2. /\ s1 \in Follower /\ s1.R \in Paces /\ s1.mode = "track"
      /\ s1.R <= Larger(Larger(s.R, u), Floor)
  <2> HIDE DEF s0
  <2> QED
    BY <1>1, TrackFacts
<1>3. Follow(s, u, tree) = Actuate(s1, tree)
  BY DEF Follow
<1> HIDE DEF s1
<1>4. /\ Follow(s, u, tree) \in FlowState
      /\ Follow(s, u, tree).pace = Larger(Smaller(s1.R, tree), Floor)
      /\ Follow(s, u, tree).R = s1.R
      /\ Follow(s, u, tree).mode = "track"
  BY <1>2, <1>3, ActuateFacts
<1>5. Larger(Smaller(s1.R, tree), Floor) <= s1.R
  BY <1>2, SizesAssumption DEF Larger, Smaller, Floor, Paces, Level, Zero
<1> QED
  BY <1>2, <1>4, <1>5 DEF Sound

\* Time only moves the ages of a flow-set.
LEMMA OlderFacts ==
  ASSUME NEW s \in FlowState, Sound(s), NEW d \in {0, 1}
  PROVE  /\ Sound(Older(s, d))
         /\ Older(s, d) \in Follower
<1>1. /\ Saturated(s.age, d, N3 + 1) \in 0 .. N3 + 1
      /\ s.age > N2 => Saturated(s.age, d, N3 + 1) > N2
      /\ Saturated(s.since, d, DtMax + 1) \in 0 .. DtMax + 1
      /\ Saturated(s.beat, d, Heartbeat) \in 0 .. Heartbeat
  BY SizesAssumption DEF Saturated, Smaller, FlowState
<1>2. Older(s, d) \in FlowState
  BY <1>1 DEF Older, FlowState
<1>3. FlowState \subseteq Follower
  BY SizesAssumption DEF FlowState, Follower, Paces, Level, Zero, NoPace, Floor
<1> QED
  BY <1>1, <1>2, <1>3 DEF Older, Sound, FlowState

\* The ticker: eviction only while telemetry is alive; past N2 a flow-set is in
\* fail-open and capped by its tree, and before N2 it is not in fail-open.
LEMMA DegradeFacts ==
  ASSUME NEW s \in Follower, Sound(s), NEW tree \in Level, NEW alive
  PROVE  LET n == Degrade(s, tree, alive)
         IN \/ n = NoFlow /\ alive
            \/ /\ Sound(n)
               /\ n.age > N2 =>
                    n.mode = "fail_open" /\ n.pace <= Larger(tree, Floor)
<1> DEFINE n == Degrade(s, tree, alive)
<1>1. CASE alive /\ s.age > N3
  BY <1>1 DEF Degrade
<1>2. CASE ~(alive /\ s.age > N3) /\ s.age > N2
  <2> DEFINE s0 == [s EXCEPT !.mode = "fail_open"]
             s1 == Track(s0, tree)
  <2>1. s0 \in Follower /\ s0.mode = "fail_open" /\ s0.age = s.age
    BY DEF Follower
  <2>2. s1 \in Follower /\ s1.R \in Paces /\ s1.mode = "fail_open"
        /\ s1.age = s.age
    <3> HIDE DEF s0
    <3> QED
      BY <2>1, TrackFacts
  <2>3. n = Actuate(s1, tree)
    BY <1>2 DEF Degrade
  <2> HIDE DEF s1
  <2>4. /\ n \in FlowState /\ n.R = s1.R
        /\ n.pace = Larger(Smaller(s1.R, tree), Floor)
        /\ n.mode = "fail_open" /\ n.age = s.age
    BY <2>2, <2>3, ActuateFacts
  <2>5. /\ Larger(Smaller(s1.R, tree), Floor) <= s1.R
        /\ Larger(Smaller(s1.R, tree), Floor) <= Larger(tree, Floor)
    BY <2>2, SizesAssumption DEF Larger, Smaller, Floor, Paces, Level, Zero
  <2> QED
    BY <1>2, <2>4, <2>5 DEF Sound
<1>3. CASE ~(alive /\ s.age > N3) /\ ~(s.age > N2)
  <2>1. /\ n \in {s, [s EXCEPT !.since = 0, !.mode = "frozen"]}
    BY <1>3 DEF Degrade
  <2>2. 0 \in 0 .. DtMax + 1
    BY SizesAssumption
  <2>3. Sound(n) /\ n.age = s.age
    BY <2>1, <2>2 DEF Sound, FlowState
  <2> QED
    BY <1>3, <2>3
<1> QED
  BY <1>1, <1>2, <1>3

\* A gap is never covered by nothing.
LEMMA CoversSome ==
  ASSUME NEW gap \in 1 .. Top, NEW dt \in 1 .. DtMax
  PROVE  Covered(gap, dt) \in 1 .. gap
<1>1. Covered(gap, dt) \in 0 .. gap
  BY LawAssumption
<1>2. Tau \in Nat \ {0} /\ gap \in Nat \ {0} /\ dt \in Nat \ {0}
  BY SizesAssumption
<1> DEFINE x == gap * dt
<1>3. x \in Nat /\ x >= 1
  BY <1>2
<1>4. \A a \in Nat : a >= 1 => (a + Tau - 1) \div Tau # 0
  BY <1>2
<1>5. Covered(gap, dt) # 0
  <2> HIDE DEF x
  <2> QED
    BY <1>3, <1>4 DEF Covered, x
<1> QED
  BY <1>1, <1>2, <1>5

\* Where an outage takes a rate R of a flow-set that is capped by the tree.
Nearer(R, next, tree) ==
  LET goal == Larger(tree, Floor)
  IN /\ next = goal \/ Distance(goal, next) < Distance(goal, R)
     /\ R <= goal => next <= goal
     /\ R >= goal => next >= goal

\* A step of the law from the grid ends nearer to its target, on the same side.
LEMMA TrackStepNearer ==
  ASSUME NEW R \in Paces, NEW u \in Level, NEW dt \in 1 .. DtMax
  PROVE  Nearer(R, TrackStep(R, u, dt), u)
<1> DEFINE t   == Larger(u, Floor)
           way == Covered(Distance(t, R), dt)
<1>1. t \in 0 .. Top /\ R \in 0 .. Top /\ Larger(R, Floor) = R
  BY SizesAssumption DEF Larger, Floor, Level, Zero, Paces
<1>2. Top \in Nat
  BY SizesAssumption
<1>3. TrackStep(R, u, dt) = IF t >= R THEN R + way ELSE R - way
  BY <1>1 DEF TrackStep
<1>4. Distance(t, R) \in 0 .. Top
  BY <1>1, <1>2 DEF Distance
<1>5. /\ way \in 0 .. Distance(t, R)
      /\ Distance(t, R) > 0 => way \in 1 .. Distance(t, R)
  <2>1. Distance(t, R) > 0 => Distance(t, R) \in 1 .. Top
    BY <1>2, <1>4
  <2> QED
    BY <1>4, <2>1, CoversSome, LawAssumption
<1> HIDE DEF t, way
<1>6. /\ TrackStep(R, u, dt) = t \/ Distance(t, TrackStep(R, u, dt)) < Distance(t, R)
      /\ R <= t => TrackStep(R, u, dt) <= t
      /\ R >= t => TrackStep(R, u, dt) >= t
  <2>1. CASE t >= R
    <3>1. Distance(t, R) = t - R
      BY <2>1 DEF Distance
    <3> QED
      BY <1>1, <1>2, <1>3, <1>5, <2>1, <3>1 DEF Distance
  <2>2. CASE ~(t >= R)
    <3>1. Distance(t, R) = R - t
      BY <2>2 DEF Distance
    <3> QED
      BY <1>1, <1>2, <1>3, <1>5, <2>2, <3>1 DEF Distance
  <2> QED
    BY <2>1, <2>2
<1> QED
  BY <1>6 DEF Nearer, t

\* What the ticker makes of a flow-set it does not evict.
Held(s, n, tree) ==
  IF n.age > N2
    THEN /\ Nearer(s.R, n.R, tree)
         /\ n.pace = Smaller(n.R, Larger(tree, Floor))
    ELSE n.R = s.R /\ n.pace = s.pace

\* The ticker of a silent agent: frozen, then nearer to the tree.
LEMMA DegradeHolds ==
  ASSUME NEW s \in Follower, Sound(s), NEW tree \in Level
  PROVE  Held(s, Degrade(s, tree, FALSE), tree)
<1> DEFINE n == Degrade(s, tree, FALSE)
<1>1. CASE s.age > N2
  <2> DEFINE s0 == [s EXCEPT !.mode = "fail_open"]
             s1 == Track(s0, tree)
             dt == Larger(Smaller(s.since, DtMax), 1)
  <2>1. s0 \in Follower /\ s0.mode = "fail_open" /\ s0.age = s.age
        /\ s0.R = s.R /\ s0.since = s.since
    BY DEF Follower
  <2>2. s1 \in Follower /\ s1.R \in Paces /\ s1.mode = "fail_open"
        /\ s1.age = s.age
    <3> HIDE DEF s0
    <3> QED
      BY <2>1, TrackFacts
  <2>3. s1.R = TrackStep(s.R, tree, dt)
    BY <2>1 DEF Track, Follower
  <2>4. Nearer(s.R, s1.R, tree)
    <3>1. dt \in 1 .. DtMax
      BY ClampedInterval DEF Follower
    <3>2. s.R \in Paces
      BY DEF Sound, FlowState
    <3> HIDE DEF dt, s1
    <3> QED
      BY <2>3, <3>1, <3>2, TrackStepNearer
  <2>5. n = Actuate(s1, tree)
    BY <1>1 DEF Degrade
  <2> HIDE DEF s1, n
  <2>6. n.R = s1.R /\ n.age = s.age
        /\ n.pace = Larger(Smaller(s1.R, tree), Floor)
    BY <2>2, <2>5, ActuateFacts
  <2>7. Larger(Smaller(s1.R, tree), Floor) = Smaller(s1.R, Larger(tree, Floor))
    BY <2>2, SizesAssumption DEF Larger, Smaller, Floor, Paces, Level, Zero
  <2> QED
    BY <1>1, <2>4, <2>6, <2>7 DEF Held, n
<1>2. CASE ~(s.age > N2)
  <2>1. n \in {s, [s EXCEPT !.since = 0, !.mode = "frozen"]}
    BY <1>2 DEF Degrade
  <2>2. n.R = s.R /\ n.pace = s.pace /\ n.age = s.age
    BY <2>1 DEF Follower
  <2> QED
    BY <1>2, <2>2 DEF Held
<1> QED
  BY <1>1, <1>2

\* The limiter stays on the grid and never goes below the computed tree.
LEMMA LimitedFacts ==
  ASSUME NEW prev \in Level \cup {Missing}, NEW w \in Level, NEW dt \in Nat
  PROVE  Limited(prev, w, dt) \in Level /\ Limited(prev, w, dt) >= w
BY SizesAssumption DEF Limited, Fall, Larger, Level, Zero, Missing

\* The tree a flow-set is capped by is a level, whether it has an entry or not.
LEMMA TreeOfLevel ==
  ASSUME NEW ap \in [Flows -> Level \cup {Missing}],
         NEW w \in [Flows -> Wants \cup {Missing}], NEW f \in Flows
  PROVE  TreeOf(ap, w, f) \in Level
<1>1. TreeStub \in Level
  BY SizesAssumption DEF Paces, Level, Zero, Floor
<1>2. ap[f] # Missing => ap[f] \in Level
  OBVIOUS
<1>3. w[f] # Missing => w[f] \in Level
  BY SizesAssumption
<1> QED
  BY <1>1, <1>2, <1>3 DEF TreeOf

------------------------------------------------------------------------------
(* The invariant *)

LEMMA InitInv == Init => IInv
<1> SUFFICES ASSUME Init PROVE IInv
  OBVIOUS
<1>1. NoRecords \in Records
  <2>1. NoRecords \in [{} -> Targets]
    BY DEF NoRecords
  <2> QED
    BY <2>1 DEF Records
<1>2. DOMAIN NoRecords = {}
  BY DEF NoRecords
<1>3. TypeOK
  BY <1>1, SizesAssumption DEF Init, TypeOK
<1> QED
  BY <1>2, <1>3 DEF Init, IInv, LimiterOnlyLags, FailOpenCapped, FailOpenIsOld,
                    Known, NoFlow, Missing

\* What a known flow-set is in a state of the invariant.
LEMMA KnownIsSound ==
  ASSUME IInv, NEW f \in Flows, Known(f)
  PROVE  st[f] \in FlowState /\ Sound(st[f])
BY DEF IInv, TypeOK, LimiterOnlyLags, FailOpenIsOld, Known, Sound

\* What an iteration makes of one flow-set, given the tree it is capped by.
Outcome(f, rec, d, n, tree) ==
  /\ n = NoFlow \/ Sound(n)
  /\ f \in DOMAIN rec =>
       n # NoFlow /\ n.pace = Larger(Smaller(n.R, tree), Floor)
  /\ f \notin DOMAIN rec /\ d > 0 /\ n # NoFlow /\ n.age > N2 =>
       n.mode = "fail_open" /\ n.pace <= Larger(tree, Floor)
  /\ f \notin DOMAIN rec /\ ~(anyAge' < N1) => (n = NoFlow <=> ~Known(f))

\* Every branch of the iteration leads to it.
LEMMA FlowStepFacts ==
  ASSUME IInv, NEW d \in {0, 1}, NEW rec \in Records, NEW f \in Flows,
         want' \in [Flows -> Wants \cup {Missing}],
         applied' \in [Flows -> Level \cup {Missing}]
  PROVE  Outcome(f, rec, d, FlowStep(f, rec, d), TreeOf(applied', want', f))
<1> DEFINE n     == FlowStep(f, rec, d)
           tree  == TreeOf(applied', want', f)
           alive == anyAge' < N1
<1> SUFFICES Outcome(f, rec, d, n, tree)
  OBVIOUS
<1>1. tree \in Level
  BY TreeOfLevel
<1>2. \A s : Sound(s) => s # NoFlow
  BY DEF Sound, FlowState, NoFlow
<1>3. CASE f \in DOMAIN rec
  <2> DEFINE s == IF Known(f) THEN Older(st[f], d) ELSE NewFlow(tree, rec[f])
  <2>1. rec[f] \in Level
    BY <1>3, SizesAssumption DEF Records
  <2>2. s \in Follower
    <3>1. CASE Known(f)
      BY <3>1, KnownIsSound, OlderFacts
    <3>2. CASE ~Known(f)
      <4>1. StartRate(tree, rec[f]) \in Level
        BY <1>1, <2>1, SizesAssumption DEF StartRate, Smaller, Level, Zero
      <4>2. /\ 0 \in 0 .. N3 + 1 /\ 0 \in 0 .. DtMax + 1
            /\ NoPace \in NoPace .. Top /\ Heartbeat \in 0 .. Heartbeat
        BY SizesAssumption DEF NoPace
      <4> QED
        BY <3>2, <4>1, <4>2 DEF NewFlow, Follower
    <3> QED
      BY <3>1, <3>2
  <2>3. n = Follow(s, rec[f], tree)
    BY <1>3 DEF FlowStep
  <2> HIDE DEF s, tree, n
  <2>4. Sound(n) /\ n.pace = Larger(Smaller(n.R, tree), Floor)
    BY <1>1, <2>1, <2>2, <2>3, FollowFacts
  <2> QED
    BY <1>2, <1>3, <2>4 DEF Outcome
<1>4. CASE f \notin DOMAIN rec /\ Known(f) /\ d > 0
  <2>1. n = Degrade(Older(st[f], d), tree, alive)
    BY <1>4 DEF FlowStep
  <2>2. Sound(Older(st[f], d)) /\ Older(st[f], d) \in Follower
    BY <1>4, KnownIsSound, OlderFacts
  <2> HIDE DEF tree, alive
  <2>3. \/ n = NoFlow /\ alive
        \/ /\ Sound(n)
           /\ n.age > N2 => n.mode = "fail_open" /\ n.pace <= Larger(tree, Floor)
    BY <1>1, <2>1, <2>2, DegradeFacts
  <2> HIDE DEF n
  <2>4. CASE n = NoFlow /\ alive
    BY <1>4, <2>4 DEF alive, Outcome
  <2>5. CASE /\ Sound(n)
             /\ n.age > N2 =>
                  n.mode = "fail_open" /\ n.pace <= Larger(tree, Floor)
    BY <1>2, <1>4, <2>5 DEF Outcome
  <2> QED
    BY <2>3, <2>4, <2>5
<1>5. CASE f \notin DOMAIN rec /\ ~(Known(f) /\ d > 0)
  <2>1. n = st[f]
    BY <1>5 DEF FlowStep
  <2> QED
    BY <1>2, <1>5, <2>1, KnownIsSound DEF Known, Outcome
<1> QED
  BY <1>3, <1>4, <1>5

\* The same for all flow-sets at once, and what it says of the next state.
LEMMA FlowsetsFacts ==
  ASSUME IInv, NEW d \in {0, 1}, NEW rec \in Records, Flowsets(rec, d),
         want' \in [Flows -> Wants \cup {Missing}],
         applied' \in [Flows -> Level \cup {Missing}]
  PROVE  /\ \A f \in Flows :
              Outcome(f, rec, d, st'[f], TreeOf(applied', want', f))
         /\ st' \in [Flows -> FlowState \cup {NoFlow}]
         /\ heard' = rec
         /\ FailOpenIsOld'
         /\ \A f \in Flows : Known(f)' => st'[f].pace <= st'[f].R
<1>1. st' = [f \in Flows |-> FlowStep(f, rec, d)] /\ heard' = rec
  BY DEF Flowsets
<1>2. \A f \in Flows : Outcome(f, rec, d, st'[f], TreeOf(applied', want', f))
  BY <1>1, FlowStepFacts
<1>3. \A f \in Flows : st'[f] = NoFlow \/ Sound(st'[f])
  BY <1>2 DEF Outcome
<1>4. st' \in [Flows -> FlowState \cup {NoFlow}]
  BY <1>1, <1>3 DEF Sound
<1>5. FailOpenIsOld' /\ \A f \in Flows : Known(f)' => st'[f].pace <= st'[f].R
  BY <1>3 DEF FailOpenIsOld, Known, Sound
<1> QED
  BY <1>1, <1>2, <1>4, <1>5

LEMMA TelemetryInv ==
  ASSUME IInv, NEW d \in {0, 1}, Telemetry(d)
  PROVE  IInv'
<1>1. PICK rec \in Records :
        \E w \in [{f \in Flows : Known(f)} \cup DOMAIN rec -> Wants] :
          /\ want' = [f \in Flows |-> IF f \in DOMAIN w THEN w[f] ELSE Missing]
          /\ applied' = [f \in Flows |->
                           IF f \in DOMAIN w
                             THEN Limited(applied[f], w[f], treeAge + d)
                             ELSE Missing]
          /\ treeAge' = 0
          /\ anyAge' = 0
          /\ Flowsets(rec, d)
  BY DEF Telemetry
<1>2. PICK w \in [{f \in Flows : Known(f)} \cup DOMAIN rec -> Wants] :
          /\ want' = [f \in Flows |-> IF f \in DOMAIN w THEN w[f] ELSE Missing]
          /\ applied' = [f \in Flows |->
                           IF f \in DOMAIN w
                             THEN Limited(applied[f], w[f], treeAge + d)
                             ELSE Missing]
          /\ treeAge' = 0
          /\ anyAge' = 0
          /\ Flowsets(rec, d)
  BY <1>1
<1>3. treeAge + d \in Nat
  BY SizesAssumption DEF IInv, TypeOK
<1>4. \A f \in DOMAIN w : w[f] \in Wants /\ w[f] \in Level
  BY SizesAssumption
<1>5. \A f \in Flows : applied[f] \in Level \cup {Missing}
  BY DEF IInv, TypeOK
<1>6. \A f \in Flows : f \in DOMAIN w =>
        /\ Limited(applied[f], w[f], treeAge + d) \in Level
        /\ Limited(applied[f], w[f], treeAge + d) >= w[f]
  BY <1>3, <1>4, <1>5, LimitedFacts
<1>7. want' \in [Flows -> Wants \cup {Missing}]
  BY <1>2, <1>4
<1>8. applied' \in [Flows -> Level \cup {Missing}]
  BY <1>2, <1>6
<1>9. \A f \in Flows : want'[f] # Missing => applied'[f] >= want'[f]
  BY <1>2, <1>6
<1>10. /\ \A f \in Flows : Outcome(f, rec, d, st'[f], TreeOf(applied', want', f))
       /\ st' \in [Flows -> FlowState \cup {NoFlow}]
       /\ heard' = rec
       /\ FailOpenIsOld'
       /\ \A f \in Flows : Known(f)' => st'[f].pace <= st'[f].R
  BY <1>2, <1>7, <1>8, FlowsetsFacts
<1>11. TypeOK'
  BY <1>2, <1>7, <1>8, <1>10, SizesAssumption DEF TypeOK
<1>12. \A f \in Flows : f \in DOMAIN heard' =>
         st'[f].pace >= Larger(Smaller(st'[f].R, want'[f]), Floor)
  <2> SUFFICES ASSUME NEW f \in Flows, f \in DOMAIN rec
               PROVE  st'[f].pace >= Larger(Smaller(st'[f].R, want'[f]), Floor)
    BY <1>10
  <2>1. f \in DOMAIN w
    OBVIOUS
  <2>2. want'[f] \in Level /\ applied'[f] \in Level /\ applied'[f] >= want'[f]
    BY <1>2, <1>4, <1>6, <2>1
  <2>3. TreeOf(applied', want', f) = applied'[f]
    BY <2>2, SizesAssumption DEF TreeOf, Level, Zero, Missing
  <2>4. /\ st'[f] # NoFlow
        /\ st'[f].pace = Larger(Smaller(st'[f].R, applied'[f]), Floor)
    BY <1>10, <2>3 DEF Outcome
  <2>5. st'[f].R \in Paces
    BY <1>10, <2>4 DEF FlowState
  <2> QED
    BY <2>2, <2>4, <2>5, SizesAssumption
       DEF Larger, Smaller, Level, Zero, Paces, Floor
<1>13. LimiterOnlyLags'
  BY <1>9, <1>10, <1>12 DEF LimiterOnlyLags
<1>14. FailOpenCapped'
  BY <1>2 DEF FailOpenCapped
<1> QED
  BY <1>10, <1>11, <1>13, <1>14 DEF IInv

LEMMA SilenceInv ==
  ASSUME IInv, NEW d \in {0, 1}, Silence(d)
  PROVE  IInv'
<1>1. /\ d > 0
      /\ treeAge' = Saturated(treeAge, d, Top + 2)
      /\ anyAge' = Saturated(anyAge, d, N1)
      /\ want' = want /\ applied' = applied
      /\ Flowsets(NoRecords, d)
  BY DEF Silence
<1>2. NoRecords \in Records /\ DOMAIN NoRecords = {}
  <2>1. NoRecords \in [{} -> Targets]
    BY DEF NoRecords
  <2> QED
    BY <2>1 DEF Records, NoRecords
<1>3. /\ want' \in [Flows -> Wants \cup {Missing}]
      /\ applied' \in [Flows -> Level \cup {Missing}]
  BY <1>1 DEF IInv, TypeOK
<1>4. /\ \A f \in Flows :
           Outcome(f, NoRecords, d, st'[f], TreeOf(applied', want', f))
      /\ st' \in [Flows -> FlowState \cup {NoFlow}]
      /\ heard' = NoRecords
      /\ FailOpenIsOld'
      /\ \A f \in Flows : Known(f)' => st'[f].pace <= st'[f].R
  BY <1>1, <1>2, <1>3, FlowsetsFacts
<1>5. treeAge' \in 0 .. Top + 2 /\ anyAge' \in 0 .. N1
  BY <1>1, SizesAssumption DEF IInv, TypeOK, Saturated, Smaller
<1>6. TypeOK'
  BY <1>2, <1>3, <1>4, <1>5 DEF TypeOK
<1>7. LimiterOnlyLags'
  BY <1>1, <1>2, <1>4 DEF LimiterOnlyLags, IInv
<1>8. FailOpenCapped'
  <2> SUFFICES ASSUME NEW f \in Flows, st'[f] # NoFlow,
                      st'[f].mode = "fail_open"
               PROVE  st'[f].pace <= Larger(TreeOf(applied', want', f), Floor)
    BY DEF FailOpenCapped, Known
  <2>1. st'[f].age > N2
    BY <1>4 DEF FailOpenIsOld, Known
  <2> QED
    BY <1>1, <1>2, <1>4, <2>1 DEF Outcome
<1> QED
  BY <1>4, <1>6, <1>7, <1>8 DEF IInv

LEMMA NextInv ==
  ASSUME IInv, [Next]_vars
  PROVE  IInv'
<1>1. ASSUME NEW d \in Steps, Loop(d)
      PROVE  IInv'
  <2>1. d \in {0, 1}
    BY SizesAssumption
  <2> QED
    BY <1>1, <2>1, TelemetryInv, SilenceInv DEF Loop
<1>2. CASE UNCHANGED vars
  BY <1>2 DEF vars, IInv, TypeOK, LimiterOnlyLags, FailOpenCapped, FailOpenIsOld,
              Known, TreeOf
<1> QED
  BY <1>1, <1>2 DEF Next

\* The first actuation of a flow-set stays within a grant that is not zero, or at
\* the floor.
LEMMA FirstRecord ==
  ASSUME NEW tree \in Level, NEW u \in Level, u > Zero
  PROVE  Follow(NewFlow(tree, u), u, tree).pace <= Larger(u, Floor)
<1> DEFINE s == NewFlow(tree, u)
           n == Follow(s, u, tree)
<1>1. StartRate(tree, u) \in Level /\ StartRate(tree, u) <= u
  BY SizesAssumption DEF StartRate, Smaller, Level, Zero
<1>2. /\ 0 \in 0 .. N3 + 1 /\ 0 \in 0 .. DtMax + 1
      /\ NoPace \in NoPace .. Top /\ Heartbeat \in 0 .. Heartbeat
  BY SizesAssumption DEF NoPace
<1>3. s \in Follower /\ s.R = StartRate(tree, u)
  BY <1>1, <1>2 DEF NewFlow, Follower
<1> HIDE DEF s
<1>4. Sound(n) /\ n.R <= Larger(Larger(s.R, u), Floor)
  BY <1>3, FollowFacts
<1> HIDE DEF n
<1>5. n.R <= Larger(u, Floor)
  BY <1>1, <1>3, <1>4, SizesAssumption
     DEF Larger, Floor, Level, Zero, Sound, FlowState, Paces
<1>6. n.pace <= Larger(u, Floor)
  BY <1>4, <1>5, SizesAssumption DEF Sound, FlowState, Paces, Floor, Level, Zero, Larger
<1> QED
  BY <1>6 DEF n, s

\* The step of FirstBudgetWithinGrant.
LEMMA GrantStep ==
  ASSUME IInv, Next
  PROVE  \A f \in DOMAIN heard' :
           ~Known(f) /\ heard'[f] > Zero => st'[f].pace <= Larger(heard'[f], Floor)
<1>1. IInv'
  BY NextInv
<1>2. PICK d \in {0, 1} : Loop(d)
  BY SizesAssumption DEF Next
<1>3. CASE Silence(d)
  BY <1>3 DEF Silence, Flowsets, NoRecords
<1>4. CASE Telemetry(d)
  <2>1. PICK rec \in Records : Flowsets(rec, d)
    BY <1>4 DEF Telemetry
  <2> SUFFICES ASSUME NEW f \in DOMAIN rec, ~Known(f), rec[f] > Zero
               PROVE  st'[f].pace <= Larger(rec[f], Floor)
    BY <2>1 DEF Flowsets
  <2> DEFINE tree == TreeOf(applied', want', f)
  <2>2. f \in Flows /\ rec[f] \in Level
    BY <2>1, SizesAssumption DEF Records
  <2>3. tree \in Level
    BY <1>1, <2>2, TreeOfLevel DEF IInv, TypeOK
  <2>4. st'[f] = Follow(NewFlow(tree, rec[f]), rec[f], tree)
    BY <2>1, <2>2 DEF Flowsets, FlowStep
  <2> QED
    BY <2>2, <2>3, <2>4, FirstRecord
<1> QED
  BY <1>2, <1>3, <1>4 DEF Loop

\* An outage is an iteration without a datagram.
LEMMA OutageIsSilent ==
  ASSUME IInv, NEW d \in {0, 1}, Loop(d), anyAge' >= N1
  PROVE  /\ Silence(d) /\ d > 0 /\ ~(anyAge' < N1)
         /\ want' = want /\ applied' = applied /\ Flowsets(NoRecords, d)
<1>1. Silence(d)
  <2>1. Telemetry(d) => anyAge' = 0
    BY DEF Telemetry
  <2> QED
    BY <2>1, SizesAssumption DEF Loop
<1>2. anyAge \in 0 .. N1
  BY DEF IInv, TypeOK
<1>3. anyAge' \in Int
  BY <1>1, <1>2, SizesAssumption DEF Silence, Saturated, Smaller
<1> QED
  BY <1>1, <1>3, SizesAssumption DEF Silence

\* The step of OutageKeepsFlows.
LEMMA OutageStep ==
  ASSUME IInv, Next, anyAge' >= N1
  PROVE  \A f \in Flows :
           /\ Known(f) <=> st'[f] # NoFlow
           /\ Known(f) /\ st'[f].age > N2 => st'[f].mode = "fail_open"
<1>1. PICK d \in {0, 1} : Loop(d)
  BY SizesAssumption DEF Next
<1>2. /\ d > 0 /\ ~(anyAge' < N1)
      /\ want' = want /\ applied' = applied /\ Flowsets(NoRecords, d)
  BY <1>1, OutageIsSilent
<1>3. NoRecords \in Records /\ DOMAIN NoRecords = {}
  <2>1. NoRecords \in [{} -> Targets]
    BY DEF NoRecords
  <2> QED
    BY <2>1 DEF Records, NoRecords
<1>4. \A f \in Flows :
        Outcome(f, NoRecords, d, st'[f], TreeOf(applied', want', f))
  <2>1. /\ want' \in [Flows -> Wants \cup {Missing}]
        /\ applied' \in [Flows -> Level \cup {Missing}]
    BY <1>2 DEF IInv, TypeOK
  <2> QED
    BY <1>2, <1>3, <2>1, FlowsetsFacts
<1> QED
  BY <1>2, <1>3, <1>4 DEF Outcome

\* The step of OutageApproachesTree.
LEMMA ApproachStep ==
  ASSUME IInv, Next, anyAge' >= N1
  PROVE  \A f \in Flows : Known(f) => Held(st[f], st'[f], TreeOf(applied, want, f))
<1>1. PICK d \in {0, 1} : Loop(d)
  BY SizesAssumption DEF Next
<1>2. /\ d > 0 /\ ~(anyAge' < N1)
      /\ want' = want /\ applied' = applied /\ Flowsets(NoRecords, d)
  BY <1>1, OutageIsSilent
<1> SUFFICES ASSUME NEW f \in Flows, Known(f)
             PROVE  Held(st[f], st'[f], TreeOf(applied, want, f))
  OBVIOUS
<1> DEFINE tree == TreeOf(applied, want, f)
<1>3. tree \in Level
  BY TreeOfLevel DEF IInv, TypeOK
<1>4. st'[f] = Degrade(Older(st[f], d), tree, FALSE)
  <2>1. DOMAIN NoRecords = {}
    BY DEF NoRecords
  <2>2. st'[f] = FlowStep(f, NoRecords, d)
    BY <1>2 DEF Flowsets
  <2>3. (anyAge' < N1) = FALSE
    BY <1>2
  <2>4. TreeOf(applied', want', f) = tree
    BY <1>2
  <2> QED
    BY <1>2, <2>1, <2>2, <2>3, <2>4 DEF FlowStep
<1>5. Sound(Older(st[f], d)) /\ Older(st[f], d) \in Follower
  BY KnownIsSound, OlderFacts
<1>6. Older(st[f], d).R = st[f].R /\ Older(st[f], d).pace = st[f].pace
  BY KnownIsSound DEF Older, FlowState
<1> HIDE DEF tree
<1>7. Held(Older(st[f], d), st'[f], tree)
  BY <1>3, <1>4, <1>5, DegradeHolds
<1> QED
  BY <1>6, <1>7 DEF Held, tree

------------------------------------------------------------------------------
(* Theorems *)

\* The invariant holds in every state the loop can reach.
THEOREM Invariance == Spec => []IInv
BY InitInv, NextInv, PTL DEF Spec

\* Rates and paces stay on the grid, above the floor, for any tree and target.
THEOREM TypeCorrect == Spec => []TypeOK
BY Invariance, PTL DEF IInv

\* A lagging tree never throttles the law, nor is the law ever exceeded.
THEOREM TheLimiterOnlyLags == Spec => []LimiterOnlyLags
BY Invariance, PTL DEF IInv

\* A silent flow-set is capped by its tree as that tree is applied.
THEOREM FailOpenIsCapped == Spec => []FailOpenCapped
BY Invariance, PTL DEF IInv

\* The first budget of a flow-set is within the grant that created it.
THEOREM FirstBudgetIsWithinGrant == Spec => FirstBudgetWithinGrant
<1>1. IInv /\ [Next]_vars =>
        [\A f \in DOMAIN heard' :
           ~Known(f) /\ heard'[f] > Zero => st'[f].pace <= Larger(heard'[f], Floor)]_vars
  BY GrantStep
<1> QED
  BY <1>1, Invariance, PTL DEF Spec, FirstBudgetWithinGrant

\* An outage of the telemetry evicts nothing.
THEOREM OutageEvictsNothing == Spec => OutageKeepsFlows
<1>1. IInv /\ [Next]_vars =>
        [anyAge >= N1 /\ anyAge' >= N1 =>
           \A f \in Flows :
             /\ Known(f) <=> st'[f] # NoFlow
             /\ Known(f) /\ st'[f].age > N2 => st'[f].mode = "fail_open"]_vars
  BY OutageStep
<1> QED
  BY <1>1, Invariance, PTL DEF Spec, OutageKeepsFlows

\* An outage of the telemetry freezes a rate and then leads it to its tree.
THEOREM OutageLeadsToTree == Spec => OutageApproachesTree
<1> DEFINE Led ==
      \A f \in Flows : Known(f) =>
        LET goal == Larger(TreeOf(applied, want, f), Floor)
            next == st'[f].R
        IN IF st'[f].age > N2
             THEN /\ next = goal \/ Distance(goal, next) < Distance(goal, st[f].R)
                  /\ st[f].R <= goal => next <= goal
                  /\ st[f].R >= goal => next >= goal
                  /\ st'[f].pace = Smaller(next, goal)
             ELSE next = st[f].R /\ st'[f].pace = st[f].pace
<1>1. IInv /\ [Next]_vars => [anyAge >= N1 /\ anyAge' >= N1 => Led]_vars
  <2> SUFFICES ASSUME IInv, Next, anyAge' >= N1 PROVE Led
    OBVIOUS
  <2>1. \A f \in Flows : Known(f) => Held(st[f], st'[f], TreeOf(applied, want, f))
    BY ApproachStep
  <2> QED
    BY <2>1 DEF Held, Nearer
<1> QED
  BY <1>1, Invariance, PTL DEF Spec, OutageApproachesTree

------------------------------------------------------------------------------
(* The path *)

\* The path adds nothing to what the loop does.
LEMMA PathStep == [PathNext]_allVars => [Next]_vars
<1> SUFFICES ASSUME [PathNext]_allVars PROVE [Next]_vars
  OBVIOUS
<1>1. ASSUME NEW d \in Steps, LoopPath(d)
      PROVE  Next
  BY <1>1 DEF LoopPath, Next
<1>2. CASE \/ \E f \in TcpFlows, p \in Paces : Deliver(f, p) \/ Lose(f, p)
           \/ ReapplyEdt \/ RestartShim \/ StopRp \/ StartRp
           \/ UNCHANGED allVars
  BY <1>2 DEF Deliver, Lose, ReapplyEdt, RestartShim, StopRp, StartRp, allVars
<1> QED
  BY <1>1, <1>2 DEF PathNext

\* Beside datagrams, batches and restarts of executors the loop is still the loop of
\* TxAgent.
THEOREM PathRefinesLoop == PathSpec => Spec
<1>1. PathInit => Init
  BY DEF PathInit
<1> QED
  BY <1>1, PathStep, PTL DEF PathSpec, Spec

\* The inductive invariant: that of the loop and the types of the path.
PathInv == IInv /\ PathTypeOK

\* An actuated flow-set has a pace.
LEMMA ActuatedHasPace ==
  ASSUME IInv', NEW f \in Flows, NEW d, Actuated(f, d), heard' \in Records,
         \A g \in DOMAIN heard' : st'[g] # NoFlow
  PROVE  st'[f].pace \in Paces
<1>1. st'[f] # NoFlow
  BY DEF Actuated
<1>2. st'[f] \in FlowState
  BY <1>1 DEF IInv, TypeOK
<1> QED
  BY <1>2 DEF FlowState

\* A reported flow-set is known after the iteration.
LEMMA HeardIsKnown ==
  ASSUME IInv, NEW d \in Steps, Loop(d)
  PROVE  \A f \in DOMAIN heard' : st'[f] # NoFlow
<1>1. d \in {0, 1}
  BY SizesAssumption
<1>2. IInv'
  BY <1>1, TelemetryInv, SilenceInv DEF Loop
<1>3. PICK rec \in Records : Flowsets(rec, d)
  <2>1. NoRecords \in Records
    BY DEF Records, NoRecords
  <2> QED
    BY <2>1 DEF Loop, Telemetry, Silence
<1>4. /\ want' \in [Flows -> Wants \cup {Missing}]
      /\ applied' \in [Flows -> Level \cup {Missing}]
  BY <1>2 DEF IInv, TypeOK
<1>5. \A f \in Flows : Outcome(f, rec, d, st'[f], TreeOf(applied', want', f))
  BY <1>1, <1>3, <1>4, FlowsetsFacts
<1>6. heard' = rec /\ DOMAIN rec \subseteq Flows
  BY <1>3 DEF Flowsets, Records
<1> QED
  BY <1>5, <1>6 DEF Outcome

LEMMA LoopPathInv ==
  ASSUME PathInv, NEW d \in Steps, LoopPath(d)
  PROVE  PathInv'
<1>1. d \in {0, 1} /\ Loop(d)
  BY SizesAssumption DEF LoopPath
<1>2. IInv'
  BY <1>1, TelemetryInv, SilenceInv DEF Loop, PathInv
<1>3. \A f \in Flows : Actuated(f, d) => st'[f].pace \in Paces
  BY <1>1, <1>2, HeardIsKnown, ActuatedHasPace DEF PathInv, IInv, TypeOK
<1>4. net' \in [TcpFlows -> SUBSET Paces]
  BY <1>3, PathAssumption DEF LoopPath, SendTcp, Sent, PathInv, PathTypeOK
<1>5. latest' \in [RdmaFlows -> Paces \cup {Missing}]
  BY <1>3 DEF LoopPath, Coalesce, RdmaFlows, PathInv, PathTypeOK
<1>6. exec' \in [Flows -> Paces \cup {Unset}]
  <2>1. \A f \in RdmaFlows : latest'[f] # Missing => latest'[f] \in Paces
    BY <1>5
  <2> QED
    BY <2>1 DEF LoopPath, Push, Flush, PathInv, PathTypeOK
<1>7. pushAge' \in 0 .. PushTicks
  <2>1. Saturated(pushAge, d, PushTicks) \in 0 .. PushTicks
    BY <1>1, PathAssumption DEF Saturated, Smaller, PathInv, PathTypeOK
  <2>2. 0 \in 0 .. PushTicks
    BY PathAssumption
  <2> QED
    BY <2>1, <2>2 DEF LoopPath, Push
<1>8. tick' \in 0 .. 1
  BY <1>1 DEF LoopPath, PathInv, PathTypeOK
<1> QED
  BY <1>2, <1>4, <1>5, <1>6, <1>7, <1>8
     DEF LoopPath, PathInv, PathTypeOK, IInv

\* The steps of the executors leave the loop's variables alone.
LEMMA ExecutorInv ==
  ASSUME PathInv,
         \/ \E f \in TcpFlows, p \in Paces : Deliver(f, p) \/ Lose(f, p)
         \/ ReapplyEdt \/ RestartShim \/ StopRp \/ StartRp
  PROVE  PathInv'
<1>1. UNCHANGED vars
  BY DEF Deliver, Lose, ReapplyEdt, RestartShim, StopRp, StartRp
<1>2. IInv'
  BY <1>1, NextInv DEF PathInv
<1>3. TypeOK'
  BY <1>2 DEF IInv
<1>4. ASSUME NEW f \in TcpFlows, NEW p \in Paces, Deliver(f, p) \/ Lose(f, p)
      PROVE  PathTypeOK'
  BY <1>3, <1>4, PathAssumption DEF Deliver, Lose, PathInv, PathTypeOK
<1>5. ASSUME ReapplyEdt
      PROVE  PathTypeOK'
  <2>1. restarts' \in 0 .. MaxRestarts
    BY <1>5, PathAssumption DEF ReapplyEdt, PathInv, PathTypeOK
  <2>2. exec' \in [Flows -> Paces \cup {Unset}]
    BY <1>5 DEF ReapplyEdt, PathInv, PathTypeOK
  <2> QED
    BY <1>3, <1>5, <2>1, <2>2 DEF ReapplyEdt, PathInv, PathTypeOK
<1>6. ASSUME RestartShim
      PROVE  PathTypeOK'
  BY <1>3, <1>6 DEF RestartShim, PathInv, PathTypeOK
<1>7. ASSUME StopRp
      PROVE  PathTypeOK'
  <2>1. restarts' \in 0 .. MaxRestarts
    BY <1>7, PathAssumption DEF StopRp, PathInv, PathTypeOK
  <2>2. exec' \in [Flows -> Paces \cup {Unset}]
    BY <1>7 DEF StopRp, PathInv, PathTypeOK
  <2> QED
    BY <1>3, <1>7, <2>1, <2>2 DEF StopRp, PathInv, PathTypeOK
<1>8. ASSUME StartRp
      PROVE  PathTypeOK'
  BY <1>3, <1>8 DEF StartRp, PathInv, PathTypeOK
<1> QED
  BY <1>2, <1>4, <1>5, <1>6, <1>7, <1>8 DEF PathInv

LEMMA InitPathInv == PathInit => PathInv
BY InitInv, PathAssumption
   DEF PathInit, PathInv, PathTypeOK, IInv

LEMMA NextPathInv == PathInv /\ [PathNext]_allVars => PathInv'
<1> SUFFICES ASSUME PathInv, [PathNext]_allVars PROVE PathInv'
  OBVIOUS
<1>1. CASE UNCHANGED allVars
  <2>1. IInv'
    BY <1>1, NextInv DEF allVars, PathInv
  <2> QED
    BY <1>1, <2>1 DEF allVars, pathVars, PathInv, PathTypeOK, IInv
<1> QED
  BY <1>1, LoopPathInv, ExecutorInv DEF PathNext

\* Whatever is lost, reordered or restarted, every executor holds a pace between
\* the floor and the top, or none of the agent's.
THEOREM PathTypeCorrect == PathSpec => []PathTypeOK
<1>1. PathInv => PathTypeOK
  BY DEF PathInv
<1> QED
  BY <1>1, InitPathInv, NextPathInv, PTL DEF PathSpec

\* An rdma flow-set that is known has a budget kept for the RP.
Budgeted == \A f \in RdmaFlows : Known(f) => latest[f] # Missing

BudgetInv == PathInv /\ Budgeted

\* Whatever restarts, latest_rdma has an entry of every known rdma flow-set.
LEMMA NextBudgetInv == BudgetInv /\ [PathNext]_allVars => BudgetInv'
<1> SUFFICES ASSUME BudgetInv, [PathNext]_allVars PROVE BudgetInv'
  OBVIOUS
<1>1. PathInv'
  BY NextPathInv DEF BudgetInv
<1>2. ASSUME NEW d \in Steps, LoopPath(d)
      PROVE  Budgeted'
  <2>1. d \in {0, 1} /\ Loop(d)
    BY <1>2, SizesAssumption DEF LoopPath
  <2>2. \A f \in Flows : Actuated(f, d) => st'[f].pace \in Paces
    BY <1>1, <2>1, HeardIsKnown, ActuatedHasPace DEF BudgetInv, PathInv, IInv, TypeOK
  <2>3. ASSUME NEW f \in RdmaFlows, Known(f)', f \notin DOMAIN heard'
        PROVE  Known(f)
    <3>1. PICK rec \in Records : Flowsets(rec, d)
      <4>1. NoRecords \in Records
        BY DEF Records, NoRecords
      <4> QED
        BY <2>1, <4>1 DEF Loop, Telemetry, Silence
    <3>2. f \in Flows /\ f \notin DOMAIN rec /\ st'[f] = FlowStep(f, rec, d)
      BY <2>3, <3>1 DEF Flowsets, RdmaFlows
    <3> QED
      BY <2>3, <3>2 DEF FlowStep, Known
  <2>4. ASSUME NEW f \in RdmaFlows, Known(f)'
        PROVE  latest'[f] # Missing
    <3>1. latest'[f] = IF Actuated(f, d) THEN st'[f].pace ELSE latest[f]
      BY <1>2 DEF LoopPath, Coalesce
    <3>2. CASE Actuated(f, d)
      <4>1. st'[f].pace \in Nat
        BY <2>2, <3>2, SizesAssumption DEF RdmaFlows, Paces, Floor
      <4> QED
        BY <3>1, <3>2, <4>1 DEF Missing
    <3>3. CASE ~Actuated(f, d)
      BY <2>3, <2>4, <3>1, <3>3 DEF Actuated, BudgetInv, Budgeted
    <3> QED
      BY <3>2, <3>3
  <2> QED
    BY <2>4 DEF Budgeted
<1>3. CASE \/ \E f \in TcpFlows, p \in Paces : Deliver(f, p) \/ Lose(f, p)
           \/ ReapplyEdt \/ RestartShim \/ StopRp \/ StartRp \/ UNCHANGED allVars
  <2>1. UNCHANGED <<st, latest>>
    BY <1>3 DEF Deliver, Lose, ReapplyEdt, RestartShim, StopRp, StartRp,
                allVars, pathVars, vars
  <2> QED
    BY <1>1, <2>1 DEF BudgetInv, Budgeted, Known
<1> QED
  BY <1>1, <1>2, <1>3 DEF PathNext, BudgetInv

\* A budget is replaced, never taken away.
LEMMA BudgetStays ==
  ASSUME NEW f \in RdmaFlows
  PROVE  BudgetInv /\ latest[f] # Missing /\ [PathNext]_allVars => latest'[f] # Missing
<1> SUFFICES ASSUME BudgetInv, latest[f] # Missing, [PathNext]_allVars
             PROVE  latest'[f] # Missing
  OBVIOUS
<1>1. PathInv'
  BY NextPathInv DEF BudgetInv
<1>2. ASSUME NEW d \in Steps, LoopPath(d)
      PROVE  latest'[f] # Missing
  <2>1. d \in {0, 1} /\ Loop(d)
    BY <1>2, SizesAssumption DEF LoopPath
  <2>2. Actuated(f, d) => st'[f].pace \in Paces
    BY <1>1, <2>1, HeardIsKnown, ActuatedHasPace
       DEF BudgetInv, PathInv, IInv, TypeOK, RdmaFlows
  <2>3. Missing \notin Paces
    BY SizesAssumption DEF Paces, Floor, Missing
  <2>4. latest'[f] = IF Actuated(f, d) THEN st'[f].pace ELSE latest[f]
    BY <1>2 DEF LoopPath, Coalesce
  <2> QED
    BY <2>2, <2>3, <2>4
<1>3. CASE \/ \E g \in TcpFlows, p \in Paces : Deliver(g, p) \/ Lose(g, p)
           \/ ReapplyEdt \/ RestartShim \/ StopRp \/ StartRp \/ UNCHANGED allVars
  BY <1>3 DEF Deliver, Lose, ReapplyEdt, RestartShim, StopRp, StartRp,
              allVars, pathVars
<1> QED
  BY <1>2, <1>3 DEF PathNext

\* An iteration whose push falls due while the RP reads its FIFO.
Flushes ==
  fifoUp /\ \E d \in Steps : /\ LoopPath(d)
                             /\ Saturated(pushAge, d, PushTicks) >= PushTicks

\* Such a push puts every budget that is kept into the RP.
LEMMA FlushReaches ==
  ASSUME NEW f \in RdmaFlows
  PROVE  BudgetInv /\ latest[f] # Missing /\ <<Flushes>>_allVars => (exec[f] # Unset)'
<1> SUFFICES ASSUME BudgetInv, latest[f] # Missing, fifoUp, NEW d \in Steps, LoopPath(d),
                    Saturated(pushAge, d, PushTicks) >= PushTicks
             PROVE  exec'[f] # Unset
  BY DEF Flushes
<1>1. [PathNext]_allVars
  BY DEF PathNext
<1>2. latest'[f] # Missing
  BY <1>1, BudgetStays
<1>3. exec'[f] = latest'[f]
  BY <1>2 DEF LoopPath, Push, Flush, RdmaFlows
<1>4. latest'[f] \in Paces
  BY <1>1, <1>2, NextPathInv DEF BudgetInv, PathInv, PathTypeOK
<1> QED
  BY <1>3, <1>4, SizesAssumption DEF Paces, Unset

\* In place of fairness, whose ENABLED has no place in a proof: again and again a
\* push falls due while the RP reads its FIFO. Then a budget that was once kept
\* outlives every restart of the RP, for any flow-sets and periods.
THEOREM FlushOutlivesRestarts ==
  PathSpec /\ []<><<Flushes>>_allVars => BudgetsSurviveRestart
<1> SUFFICES ASSUME NEW f \in RdmaFlows
             PROVE  PathSpec /\ []<><<Flushes>>_allVars =>
                      ((latest[f] # Missing) ~> [](exec[f] = Unset => <>(exec[f] # Unset)))
  BY DEF BudgetsSurviveRestart
<1>1. PathInit => BudgetInv
  BY InitPathInv DEF PathInit, Init, BudgetInv, Budgeted, Known, RdmaFlows
<1>2. PathSpec => []BudgetInv
  BY <1>1, NextBudgetInv, PTL DEF PathSpec
<1>3. BudgetInv /\ latest[f] # Missing /\ [PathNext]_allVars => (latest[f] # Missing)'
  BY BudgetStays
<1>4. BudgetInv /\ latest[f] # Missing /\ <<Flushes>>_allVars => (exec[f] # Unset)'
  BY FlushReaches
<1> QED
  BY <1>2, <1>3, <1>4, PTL DEF PathSpec

\* Under the same hypothesis the rdma half of UnsetIsRepaced: a flow-set that stays
\* known does not stay without a budget in the RP.
THEOREM FlushRepacesRdma ==
  PathSpec /\ []<><<Flushes>>_allVars =>
    \A f \in RdmaFlows : (Known(f) /\ exec[f] = Unset) ~> (exec[f] # Unset \/ ~Known(f))
<1> SUFFICES ASSUME NEW f \in RdmaFlows
             PROVE  PathSpec /\ []<><<Flushes>>_allVars =>
                      ((Known(f) /\ exec[f] = Unset) ~> (exec[f] # Unset \/ ~Known(f)))
  OBVIOUS
<1>1. PathInit => BudgetInv
  BY InitPathInv DEF PathInit, Init, BudgetInv, Budgeted, Known, RdmaFlows
<1>2. PathSpec => []BudgetInv
  BY <1>1, NextBudgetInv, PTL DEF PathSpec
<1>3. BudgetInv /\ Known(f) => latest[f] # Missing
  BY DEF BudgetInv, Budgeted
<1>4. BudgetInv /\ latest[f] # Missing /\ [PathNext]_allVars => (latest[f] # Missing)'
  BY BudgetStays
<1>5. BudgetInv /\ latest[f] # Missing /\ <<Flushes>>_allVars => (exec[f] # Unset)'
  BY FlushReaches
<1> QED
  BY <1>2, <1>3, <1>4, <1>5, PTL DEF PathSpec

------------------------------------------------------------------------------
(* The policy *)

\* ApartOnlyByFault speaks of functions on Vms, which the steps keep.
Layers ==
  /\ hw \in Policies /\ policy \in Policies /\ file \in Policies
  /\ ApartOnlyByFault

\* Whichever commands succeed, synchronising leaves the NIC at the policy but for
\* the VMs that refused it.
LEMMA SyncedFacts ==
  ASSUME NEW leaf \in Policies, NEW pol \in Policies, NEW ok \in SUBSET Vms
  PROVE  /\ SyncedHw(leaf, pol, ok) \in Policies
         /\ \A v \in Vms : pol[v] # NoCap /\ v \notin Refused(pol, ok) =>
              SyncedHw(leaf, pol, ok)[v] = pol[v]
BY DEF SyncedHw, Policies, Refused

\* The NIC agrees with the policy from the start, whatever it enforced before.
LEMMA InitLayers == PolicyInit => Layers /\ apart \in SUBSET Vms
<1> SUFFICES ASSUME PolicyInit PROVE Layers /\ apart \in SUBSET Vms
  OBVIOUS
<1>1. PICK was \in Policies, ok \in SUBSET Vms :
        hw = SyncedHw(was, policy, ok) /\ apart = Refused(policy, ok)
  BY DEF PolicyInit
<1>2. policy \in Policies /\ file \in Policies
  BY DEF PolicyInit
<1> QED
  BY <1>1, <1>2, SyncedFacts DEF Layers, ApartOnlyByFault, Refused

LEMMA LoopLayers ==
  ASSUME Layers, NEW d \in Steps, LoopPolicy(d)
  PROVE  Layers'
<1>1. file' = file
  BY DEF LoopPolicy, fileVars
<1>2. CASE UNCHANGED <<policy, hw, apart>>
  BY <1>1, <1>2 DEF Layers, ApartOnlyByFault
<1>3. CASE Load
  <2>1. PICK ok \in SUBSET Vms :
          /\ policy' = file
          /\ hw' = SyncedHw(hw, file, ok)
          /\ apart' = Refused(file, ok)
    BY <1>3 DEF Load
  <2> QED
    BY <1>1, <2>1, SyncedFacts DEF Layers, ApartOnlyByFault
<1> QED
  BY <1>2, <1>3 DEF LoopPolicy, MaybeReload

LEMMA NextLayers ==
  ASSUME Layers, [PolicyNext]_policedVars
  PROVE  Layers'
<1>1. ASSUME NEW d \in Steps, LoopPolicy(d)
      PROVE  Layers'
  BY <1>1, LoopLayers
<1>2. ASSUME NEW v \in Vms, NEW cap \in Caps \cup {NoCap}, BeginEdit(v, cap)
      PROVE  Layers'
  BY <1>2 DEF BeginEdit, Layers, ApartOnlyByFault, Policies
<1>3. CASE FinishEdit
  BY <1>3 DEF FinishEdit, Layers, ApartOnlyByFault
<1>4. ASSUME NEW v \in Vms, DropLeaf(v)
      PROVE  Layers'
  BY <1>4 DEF DropLeaf, Layers, ApartOnlyByFault, Policies, fileVars
<1>5. CASE UNCHANGED policedVars
  BY <1>5 DEF policedVars, policyVars, fileVars, Layers, ApartOnlyByFault
<1> QED
  BY <1>1, <1>2, <1>3, <1>4, <1>5 DEF PolicyNext

\* However edits, reloads, failing commands and firmware resets interleave, the
\* NIC enforces the MaxRate of the loaded policy on every VM but those at fault.
THEOREM LayersApartOnlyByFault == PolicySpec => []ApartOnlyByFault
<1>1. PolicyInit => Layers
  BY InitLayers
<1>2. Layers => ApartOnlyByFault
  BY DEF Layers
<1> QED
  BY <1>1, <1>2, NextLayers, PTL DEF PolicySpec

\* The reload adds nothing to what the loop does.
LEMMA PolicyStep == [PolicyNext]_policedVars => [Next]_vars
<1> SUFFICES ASSUME [PolicyNext]_policedVars PROVE [Next]_vars
  OBVIOUS
<1>1. ASSUME NEW d \in Steps, LoopPolicy(d)
      PROVE  Next
  BY <1>1 DEF LoopPolicy, Next
<1>2. CASE \/ \E v \in Vms, cap \in Caps \cup {NoCap} : BeginEdit(v, cap)
           \/ FinishEdit
           \/ \E v \in Vms : DropLeaf(v)
           \/ UNCHANGED policedVars
  BY <1>2 DEF BeginEdit, FinishEdit, DropLeaf, policedVars
<1> QED
  BY <1>1, <1>2 DEF PolicyNext

\* Beside the reload the loop is still the loop of TxAgent.
THEOREM PolicyRefinesLoop == PolicySpec => Spec
<1>1. PolicyInit => Init
  BY DEF PolicyInit
<1> QED
  BY <1>1, PolicyStep, PTL DEF PolicySpec, Spec

\* The inductive invariant: that of the loop and the types of the reload.
PolicyInv == IInv /\ PolicyTypeOK

\* Whatever part of the reload an iteration does, its variables keep their types.
LEMMA LoopPolicyTypes ==
  ASSUME PolicyInv, TypeOK', NEW d \in Steps, LoopPolicy(d)
  PROVE  PolicyTypeOK'
<1>1. d \in {0, 1} /\ ReloadTicks \in Nat \ {0}
  BY SizesAssumption, PolicyAssumption
<1>2. /\ policy \in Policies /\ hw \in Policies /\ file \in Policies /\ edited \in BOOLEAN
      /\ chkAge \in 0 .. ReloadTicks /\ apart \in SUBSET Vms /\ beat \in 0 .. 1
      /\ torn \in BOOLEAN
  BY DEF PolicyInv, PolicyTypeOK
<1>3. file' = file /\ torn' = torn /\ beat' \in 0 .. 1
  BY <1>1, <1>2 DEF LoopPolicy, fileVars
<1>4. /\ policy' \in Policies /\ hw' \in Policies /\ edited' \in BOOLEAN
      /\ apart' \in SUBSET Vms
  <2>1. CASE UNCHANGED <<policy, hw, apart>> /\ edited' \in {edited, FALSE}
    BY <1>2, <2>1
  <2>2. CASE Load /\ edited' = FALSE
    <3>1. PICK ok \in SUBSET Vms :
            /\ policy' = file
            /\ hw' = SyncedHw(hw, file, ok)
            /\ apart' = Refused(file, ok)
      BY <2>2 DEF Load
    <3>2. SyncedHw(hw, file, ok) \in Policies /\ Refused(file, ok) \in SUBSET Vms
      BY <1>2, SyncedFacts DEF Refused
    <3> QED
      BY <1>2, <2>2, <3>1, <3>2
  <2> QED
    BY <2>1, <2>2 DEF LoopPolicy, MaybeReload
<1>5. chkAge' \in 0 .. ReloadTicks
  <2>1. Saturated(chkAge, d, ReloadTicks) \in 0 .. ReloadTicks
    BY <1>1, <1>2 DEF Saturated, Smaller
  <2>2. chkAge' = chkAge \/ chkAge' = 0 \/ chkAge' = Saturated(chkAge, d, ReloadTicks)
    BY DEF LoopPolicy, MaybeReload
  <2> QED
    BY <1>1, <1>2, <2>1, <2>2
<1> QED
  BY <1>2, <1>3, <1>4, <1>5 DEF PolicyTypeOK

\* An operator's edit and a leaf that is dropped keep them too.
LEMMA FaultTypes ==
  ASSUME PolicyInv, TypeOK',
         \/ \E v \in Vms, cap \in Caps \cup {NoCap} : BeginEdit(v, cap)
         \/ FinishEdit
         \/ \E v \in Vms : DropLeaf(v)
         \/ UNCHANGED policedVars
  PROVE  PolicyTypeOK'
<1>1. ASSUME NEW v \in Vms, NEW cap \in Caps \cup {NoCap}, BeginEdit(v, cap)
      PROVE  PolicyTypeOK'
  BY <1>1 DEF BeginEdit, PolicyInv, PolicyTypeOK, Policies
<1>2. CASE FinishEdit
  BY <1>2 DEF FinishEdit, PolicyInv, PolicyTypeOK
<1>3. ASSUME NEW v \in Vms, DropLeaf(v)
      PROVE  PolicyTypeOK'
  BY <1>3 DEF DropLeaf, PolicyInv, PolicyTypeOK, Policies, fileVars
<1>4. CASE UNCHANGED policedVars
  BY <1>4 DEF policedVars, policyVars, fileVars, PolicyInv, PolicyTypeOK
<1> QED
  BY <1>1, <1>2, <1>3, <1>4

\* Every reachable state of the loop with its reload has its type, whatever the
\* operator writes and the NIC refuses or forgets.
THEOREM PolicyTypeCorrect == PolicySpec => []PolicyTypeOK
<1>1. PolicyInit => PolicyInv
  <2> SUFFICES ASSUME PolicyInit PROVE PolicyInv
    OBVIOUS
  <2>1. IInv
    BY InitInv DEF PolicyInit
  <2>2. ReloadTicks \in Nat \ {0}
    BY PolicyAssumption
  <2>3. TypeOK
    BY <2>1 DEF IInv
  <2>4. policy \in Policies /\ hw \in Policies /\ file \in Policies /\ apart \in SUBSET Vms
    BY InitLayers DEF Layers
  <2>5. torn \in BOOLEAN /\ edited \in BOOLEAN
    BY DEF PolicyInit
  <2>6. chkAge \in 0 .. ReloadTicks /\ beat \in 0 .. 1
    BY <2>2 DEF PolicyInit
  <2> QED
    BY <2>1, <2>3, <2>4, <2>5, <2>6 DEF PolicyInv, PolicyTypeOK
<1>2. PolicyInv /\ [PolicyNext]_policedVars => PolicyInv'
  <2> SUFFICES ASSUME PolicyInv, [PolicyNext]_policedVars PROVE PolicyInv'
    OBVIOUS
  <2>1. IInv'
    BY PolicyStep, NextInv DEF PolicyInv
  <2>2. TypeOK'
    BY <2>1 DEF IInv
  <2> QED
    BY <2>1, <2>2, LoopPolicyTypes, FaultTypes DEF PolicyNext, PolicyInv
<1>3. PolicyInv => PolicyTypeOK
  BY DEF PolicyInv
<1> QED
  BY <1>1, <1>2, <1>3, PTL DEF PolicySpec

\* Once the registry is whole and its last change is noticed, what was loaded is what
\* it says.
InStep == ~torn /\ ~edited => policy = file

LEMMA StepStaysInStep == InStep /\ [PolicyNext]_policedVars => InStep'
<1> SUFFICES ASSUME InStep, [PolicyNext]_policedVars PROVE InStep'
  OBVIOUS
<1>1. ASSUME NEW d \in Steps, LoopPolicy(d)
      PROVE  InStep'
  <2>1. file' = file /\ torn' = torn
    BY <1>1 DEF LoopPolicy, fileVars
  <2>2. CASE edited /\ ~torn /\ Load
    BY <2>1, <2>2 DEF Load, InStep
  <2>3. CASE UNCHANGED <<policy, edited>>
    BY <2>1, <2>3 DEF InStep
  <2>4. CASE ~(edited /\ ~torn) /\ policy' = policy
    BY <2>1, <2>4 DEF InStep
  <2> QED
    BY <1>1, <2>2, <2>3, <2>4 DEF LoopPolicy, MaybeReload
<1>2. CASE \/ \E v \in Vms, cap \in Caps \cup {NoCap} : BeginEdit(v, cap)
           \/ FinishEdit
  BY <1>2 DEF BeginEdit, FinishEdit, InStep
<1>3. CASE (\E v \in Vms : DropLeaf(v)) \/ UNCHANGED policedVars
  BY <1>3 DEF DropLeaf, policedVars, policyVars, fileVars, InStep
<1> QED
  BY <1>1, <1>2, <1>3 DEF PolicyNext

\* An iteration in which the reload looks at the registry.
Checks ==
  \E d \in Steps : /\ d > 0 /\ LoopPolicy(d)
                   /\ ~(Saturated(chkAge, d, ReloadTicks) < ReloadTicks)

\* A registry that is left alone stays whole, and stays noticed.
LEMMA LeftAlone ==
  Layers /\ [PolicyNext]_policedVars /\ file' = file /\ ~torn
    => ~torn' /\ (~edited => ~edited')
<1> SUFFICES ASSUME Layers, [PolicyNext]_policedVars, file' = file, ~torn
             PROVE  ~torn' /\ (~edited => ~edited')
  OBVIOUS
<1>1. ASSUME NEW d \in Steps, LoopPolicy(d)
      PROVE  ~torn' /\ (~edited => ~edited')
  BY <1>1 DEF LoopPolicy, MaybeReload, fileVars
<1>2. ASSUME NEW v \in Vms, NEW cap \in Caps \cup {NoCap}, BeginEdit(v, cap)
      PROVE  FALSE
  <2>1. file' = [file EXCEPT ![v] = cap] /\ file[v] # cap /\ v \in DOMAIN file
    BY <1>2 DEF BeginEdit, Layers, Policies
  <2>2. file'[v] = cap
    BY <2>1
  <2> QED
    BY <2>1, <2>2
<1>3. CASE FinishEdit
  BY <1>3 DEF FinishEdit
<1>5. CASE (\E v \in Vms : DropLeaf(v)) \/ UNCHANGED policedVars
  BY <1>5 DEF DropLeaf, policedVars, policyVars, fileVars
<1> QED
  BY <1>1, <1>2, <1>3, <1>5 DEF PolicyNext

\* After it the agent has taken note of the last change.
LEMMA CheckNotices == <<Checks>>_policedVars => ~edited'
<1> SUFFICES ASSUME NEW d \in Steps, d > 0, LoopPolicy(d),
                    ~(Saturated(chkAge, d, ReloadTicks) < ReloadTicks)
             PROVE  ~edited'
  BY DEF Checks
<1> QED
  BY DEF LoopPolicy, MaybeReload

\* The NIC enforces what the registry says, but for a fault.
Agrees == \A v \in Vms : file[v] = NoCap \/ v \in apart \/ hw[v] = file[v]

\* In place of fairness, whose ENABLED has no place in a proof: the registry is whole
\* again and again, and again and again the reload looks at it. Then a MaxRate that is
\* left alone, and was not missed at the start, reaches the NIC, telemetry or not, for
\* any VMs, policies and periods.
THEOREM HardwareFollowsTheFile ==
  PolicySpec /\ []<>~torn /\ []<><<Checks>>_policedVars => HardwareTakesEffect
<1>1. PolicyInit => Layers
  BY InitLayers
<1>2. PolicySpec => []Layers
  BY <1>1, NextLayers, PTL DEF PolicySpec
<1>3. (policy = file => InStep) /\ (edited => InStep)
  BY DEF InStep
<1>4. PolicySpec /\ NoEditMissed => <>[]InStep
  BY <1>3, StepStaysInStep, PTL DEF PolicySpec, NoEditMissed
<1>5. Layers /\ InStep /\ ~torn /\ ~edited => Agrees
  BY DEF Layers, ApartOnlyByFault, InStep, Agrees
<1>6. Layers /\ [PolicyNext]_policedVars /\ [file' = file]_file /\ ~torn
        => ~torn' /\ (~edited => ~edited')
  <2>1. [file' = file]_file => file' = file
    OBVIOUS
  <2> QED
    BY <2>1, LeftAlone
<1>7. PolicySpec /\ []<>~torn /\ []<><<Checks>>_policedVars /\ FileIsStable
        /\ NoEditMissed => <>[]Agrees
  BY <1>2, <1>4, <1>5, <1>6, CheckNotices, PTL DEF PolicySpec, FileIsStable
<1> QED
  BY <1>7 DEF HardwareTakesEffect, Agrees

==============================================================================
