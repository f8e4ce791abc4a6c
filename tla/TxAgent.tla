------------------------------- MODULE TxAgent -------------------------------
(***************************************************************************)
(* The control law of the sender-side agent (tools/dpu/tx_agent_e.py): one *)
(* process whose main loop receives telemetry, steps the rate R of every   *)
(* reported flow-set towards its target, limits how fast the sender tree   *)
(* may fall, and degrades flow-sets that fall silent (freeze, fail-open,   *)
(* eviction). TxPath adds the way a pace takes to the executors, TxPolicy  *)
(* the policy reload.                                                      *)
(*                                                                         *)
(* Time is in ticks of period_ms. Every timestamp the code keeps is here   *)
(* the age it is compared with, saturated one past the largest threshold.  *)
(* Rates are levels of a logarithmic grid: level 0 is the pace floor, -1   *)
(* any rate between zero and the floor, -2 a rate of zero, and one level   *)
(* is the factor by which the limiter lets the tree fall in one tick. The  *)
(* law's step, a fraction of the logarithmic gap, is rounded up to the     *)
(* grid.                                                                   *)
(*                                                                         *)
(* Telemetry is any datagram: loss, delay, duplication and reordering need *)
(* no model of their own because the agent never looks at the sequence     *)
(* number. The tree of a flow-set is any level: the water-filling behind   *)
(* it is abstracted.                                                       *)
(***************************************************************************)
EXTENDS Integers

CONSTANTS
  Flows,      \* local flow-sets
  Top,        \* highest level: the line rate less its headroom
  Targets,    \* levels of u a record may carry
  Wants,      \* levels the sender tree may compute
  TreeStub,   \* tree_stub_bps
  Tau,        \* the law's time constant, 1 / (k * period)
  DtMax,      \* dt_max in ticks; dt_min is one tick
  Heartbeat,  \* tcp_refresh_ms in ticks
  N1, N2, N3, \* ages of freeze, fail-open and eviction
  Steps       \* bound of the model: ticks between two iterations

Zero == -2       \* a rate of zero
Level == Zero .. Top
Floor == 0       \* pace_floor_bps
Paces == Floor .. Top
Missing == -3    \* no entry in a table
NoPace == -1     \* FlowState.pace before the first actuation
NoFlow == [mode |-> "none"]

Larger(a, b) == IF a >= b THEN a ELSE b
Smaller(a, b) == IF a <= b THEN a ELSE b
Distance(a, b) == IF a >= b THEN a - b ELSE b - a
Saturated(age, d, max) == Smaller(age + d, max)

\* Levels of a gap the law covers in dt ticks: 1 - exp(-k dt) of it.
Covered(gap, dt) == (gap * dt + Tau - 1) \div Tau

ASSUME SizesAssumption ==
  /\ Top \in Nat
  /\ \A n \in {Tau, DtMax, Heartbeat, N1, N2, N3} : n \in Nat \ {0}
  /\ Targets \subseteq Level /\ Wants \subseteq Level /\ TreeStub \in Paces
  /\ N1 < N2 /\ N2 < N3
  /\ Steps \subseteq {0, 1}

ASSUME LawAssumption ==
  \A gap \in 0 .. Top, dt \in 1 .. DtMax : Covered(gap, dt) \in 0 .. gap

\* What a datagram reports: a target for each of a set of local flow-sets,
\* which is empty when it has records of other hosts' flow-sets only.
Records == UNION {[reported -> Targets] : reported \in SUBSET Flows}
NoRecords == [f \in {} |-> Floor]

VARIABLES
  st,       \* flows: FlowState per flow-set, NoFlow when it is not known
  want,     \* trees: Tree_f as last computed, Missing without an entry
  applied,  \* tree_applied: Tree_f as limited
  treeAge,  \* now - tree_ts
  anyAge,   \* now - last_any_rx
  heard     \* the records of the iteration that just ran

vars == <<st, want, applied, treeAge, anyAge, heard>>

Known(f) == st[f] # NoFlow

------------------------------------------------------------------------------
(* The law and the actuation of one flow-set *)

\* Mutant: the target is not raised to the floor.
TrackBelowFloor(R, target, dt) ==
  LET r0  == Larger(R, Floor)
      way == Covered(Distance(target, r0), dt)
  IN IF target >= r0 THEN r0 + way ELSE r0 - way

\* track_step: one step towards the target, never past it; the floor bounds
\* both ends.
TrackStep(R, target, dt) ==
  LET u   == Larger(target, Floor)
      r0  == Larger(R, Floor)
      way == Covered(Distance(u, r0), dt)
  IN IF u >= r0 THEN r0 + way ELSE r0 - way

\* track: dt is the time since the flow-set's last step, clamped.
Track(s, target) ==
  [s EXCEPT !.R = TrackStep(s.R, target, Larger(Smaller(s.since, DtMax), 1)),
            !.since = 0]

\* Mutant: the tree left out of the pace.
PaceUncapped(s, tree) == Larger(s.R, Floor)

PaceOf(s, tree) == Larger(Smaller(s.R, tree), Floor)

\* Mutant: a rate sent to the shim only when it changes.
SendsOnChange(s, pace) == pace # s.pace

\* A tcp pace is sent on change and on a heartbeat.
Sends(s, pace) == pace # s.pace \/ s.beat >= Heartbeat

Actuate(s, tree) ==
  [s EXCEPT !.pace = PaceOf(s, tree),
            !.beat = IF Sends(s, PaceOf(s, tree)) THEN 0 ELSE @]

Older(s, d) ==
  [s EXCEPT !.age = Saturated(@, d, N3 + 1),
            !.since = Saturated(@, d, DtMax + 1),
            !.beat = Saturated(@, d, Heartbeat)]

\* Mutant: a new flow-set starts at its tree whatever the receiver said.
StartAtTree(tree, u0) == tree

\* The start of a flow-set: its tree, but no more than its first record grants
\* unless that grant is zero.
StartRate(tree, u0) == IF u0 > Zero THEN Smaller(tree, u0) ELSE tree

NewFlow(tree, u0) ==
  [mode |-> "fresh", R |-> StartRate(tree, u0), age |-> 0, since |-> 0,
   pace |-> NoPace, beat |-> Heartbeat]

------------------------------------------------------------------------------
(* The sender tree and its limiter *)

\* Mutant: the limiter falls past what the tree asks for.
FallFreely(prev, wanted, dt) == prev - dt

\* Mutant: the age is taken after tree_ts is reset.
FallByZero(prev, wanted, dt) == Larger(wanted, prev)

\* A fall is limited to one level per tick since apply_trees last ran.
Fall(prev, wanted, dt) == Larger(wanted, prev - dt)

\* apply_trees: a rise is immediate.
Limited(prev, wanted, dt) ==
  IF prev = Missing \/ wanted >= prev THEN wanted ELSE Fall(prev, wanted, dt)

\* tree_of
TreeOf(ap, w, f) ==
  IF ap[f] # Missing THEN ap[f] ELSE IF w[f] # Missing THEN w[f] ELSE TreeStub

------------------------------------------------------------------------------
(* One iteration of the main loop, d ticks after the previous one *)

\* The telemetry path: the record's flow-set steps towards its target.
Follow(s, u, tree) ==
  Actuate(Track([s EXCEPT !.age = 0, !.mode = "track"], u), tree)

\* Mutant: eviction does not ask whether telemetry is alive.
DegradeForgetful(s, tree, alive) ==
  IF s.age > N3 THEN NoFlow
  ELSE IF s.age > N2
    THEN Actuate(Track([s EXCEPT !.mode = "fail_open"], tree), tree)
  ELSE IF s.age > N1 /\ s.mode \notin {"frozen", "fail_open"}
    THEN [s EXCEPT !.since = 0, !.mode = "frozen"]
  ELSE s

\* Mutant: the freeze is for ever.
DegradeWedged(s, tree, alive) ==
  IF alive /\ s.age > N3 THEN NoFlow
  ELSE IF s.age > N1 /\ s.mode # "frozen"
    THEN [s EXCEPT !.since = 0, !.mode = "frozen"]
  ELSE s

\* The local ticker: eviction while telemetry is alive, fail-open, freeze.
Degrade(s, tree, alive) ==
  IF alive /\ s.age > N3 THEN NoFlow
  ELSE IF s.age > N2
    THEN Actuate(Track([s EXCEPT !.mode = "fail_open"], tree), tree)
  ELSE IF s.age > N1 /\ s.mode \notin {"frozen", "fail_open"}
    THEN [s EXCEPT !.since = 0, !.mode = "frozen"]
  ELSE s

\* What the iteration does with flow-set f, once the trees are up to date.
FlowStep(f, rec, d) ==
  LET tree  == TreeOf(applied', want', f)
      alive == anyAge' < N1
  IN IF f \in DOMAIN rec
       THEN Follow(IF Known(f) THEN Older(st[f], d) ELSE NewFlow(tree, rec[f]),
                   rec[f], tree)
     ELSE IF Known(f) /\ d > 0 THEN Degrade(Older(st[f], d), tree, alive)
     ELSE st[f]

Flowsets(rec, d) ==
  /\ st' = [f \in Flows |-> FlowStep(f, rec, d)]
  /\ heard' = rec

\* recvfrom returns a datagram: the trees of the known flow-sets and of the
\* reported ones are computed and applied before any of them steps.
Telemetry(d) ==
  \E rec \in Records :
    \E w \in [{f \in Flows : Known(f)} \cup DOMAIN rec -> Wants] :
      /\ want' = [f \in Flows |-> IF f \in DOMAIN w THEN w[f] ELSE Missing]
      /\ applied' = [f \in Flows |->
                       IF f \in DOMAIN w
                         THEN Limited(applied[f], w[f], treeAge + d)
                         ELSE Missing]
      /\ treeAge' = 0
      /\ anyAge' = 0
      /\ Flowsets(rec, d)

\* recvfrom times out, after one period.
Silence(d) ==
  /\ d > 0
  /\ treeAge' = Saturated(treeAge, d, Top + 2)
  /\ anyAge' = Saturated(anyAge, d, N1)
  /\ UNCHANGED <<want, applied>>
  /\ Flowsets(NoRecords, d)

Loop(d) == Telemetry(d) \/ Silence(d)

\* actuate ran for f in the iteration.
Actuated(f, d) ==
  \/ f \in DOMAIN heard'
  \/ d > 0 /\ Known(f) /\ st'[f] # NoFlow /\ st'[f].age > N2

\* In the iteration, actuate sent the pace of f to the shim if f is tcp.
Sent(f, d) ==
  Actuated(f, d) /\ (Known(f) => Sends(Older(st[f], d), st'[f].pace))

Init ==
  /\ st = [f \in Flows |-> NoFlow]
  /\ want = [f \in Flows |-> Missing]
  /\ applied = [f \in Flows |-> Missing]
  /\ treeAge = 0 /\ anyAge = 0
  /\ heard = NoRecords

Next == \E d \in Steps : Loop(d)

Spec == Init /\ [][Next]_vars

------------------------------------------------------------------------------
(* Properties *)

FlowState == [mode : {"track", "frozen", "fail_open"}, R : Paces,
              age : 0 .. N3 + 1, since : 0 .. DtMax + 1,
              pace : Paces, beat : 0 .. Heartbeat]

\* Every variable has its type; no rate leaves the range of the grid and no
\* known flow-set is without a pace.
TypeOK ==
  /\ st \in [Flows -> FlowState \cup {NoFlow}]
  /\ want \in [Flows -> Wants \cup {Missing}]
  /\ applied \in [Flows -> Level \cup {Missing}]
  /\ treeAge \in 0 .. Top + 2 /\ anyAge \in 0 .. N1
  /\ heard \in Records

\* "The limiter only ever holds Tree ABOVE what it would otherwise be", so that
\* "whatever descent the law commands through R passes through untouched": a
\* pace is at most R, and one that was just set is no less than the computed
\* tree and the law would have made it.
LimiterOnlyLags ==
  \A f \in Flows :
    /\ want[f] # Missing => applied[f] >= want[f]
    /\ Known(f) => st[f].pace <= st[f].R
    /\ f \in DOMAIN heard =>
         st[f].pace >= Larger(Smaller(st[f].R, want[f]), Floor)

\* A silent flow-set is "still capped by Tree_f, never uncapped", although the
\* telemetry of others goes on moving its tree: but for the rest of the tick in
\* which the tree moved, its pace is within the applied tree.
FailOpenCapped ==
  \A f \in Flows :
    Known(f) /\ st[f].mode = "fail_open" /\ treeAge > 0 =>
      st[f].pace <= Larger(TreeOf(applied, want, f), Floor)

\* The first budget of a flow-set is no more than the record that created it
\* grants ("no more optimistic than what the receiver has ALREADY said"), or than the
\* floor when it grants less, even though the law already takes one step. A grant of
\* zero is excepted.
FirstBudgetWithinGrant ==
  [][\A f \in DOMAIN heard' :
       ~Known(f) /\ heard'[f] > Zero => st'[f].pace <= Larger(heard'[f], Floor)]_vars

\* "Under a genuine outage nothing is evicted": from the moment no flow-set has
\* been heard for N1 until the next datagram, every known flow-set stays known
\* and, past N2, is in fail-open.
OutageKeepsFlows ==
  [][anyAge >= N1 /\ anyAge' >= N1 =>
       \A f \in Flows :
         /\ Known(f) <=> st'[f] # NoFlow
         /\ Known(f) /\ st'[f].age > N2 => st'[f].mode = "fail_open"]_vars

\* "R frozen", then "a fail-open flow can never overshoot Tree_f": through
\* an outage a flow-set keeps its rate up to N2, and past it every tick takes the rate
\* nearer to the tree it is capped by, and never past it, until it is there.
OutageApproachesTree ==
  [][anyAge >= N1 /\ anyAge' >= N1 =>
       \A f \in Flows : Known(f) =>
         LET goal == Larger(TreeOf(applied, want, f), Floor)
             next == st'[f].R
         IN IF st'[f].age > N2
              THEN /\ next = goal \/ Distance(goal, next) < Distance(goal, st[f].R)
                   /\ st[f].R <= goal => next <= goal
                   /\ st[f].R >= goal => next >= goal
                   /\ st'[f].pace = Smaller(next, goal)
              ELSE next = st[f].R /\ st'[f].pace = st[f].pace]_vars

==============================================================================
