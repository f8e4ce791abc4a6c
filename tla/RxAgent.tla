------------------------------- MODULE RxAgent -------------------------------
(***************************************************************************)
(* The receiver-side agent (tools/dpu/rx_agent.py): one process whose loop *)
(* turns the rates measured per flow-set into demands, demands into grants *)
(* and ceilings by water-filling, excess over the grant into a virtual     *)
(* queue, and sends every sender one target per flow-set. Every few ticks  *)
(* it reads the flow table, the registry and the speed of its link, in the *)
(* same thread.                                                            *)
(*                                                                         *)
(* A tick is one iteration. Its rates are any: RxRates says how they are   *)
(* measured. Timestamps are ages. What the id of a flow-set says of its    *)
(* destination and class is DstOf and ClsOf.                               *)
(***************************************************************************)
EXTENDS Waterfill

CONSTANTS
  FlowSets,     \* those of the scheduled classes
  Rates,        \* levels a measured rate may have
  Policies,     \* what the registry may say, see Waterfill
  Speeds,       \* speeds the link may have, line_rate_bps among them
  Headroom,     \* e_params.headroom in percent
  VTicks,       \* e_params.v_seconds in ticks
  DeltaDen,     \* 1 / delta_demand
  GammaDen,     \* 1 / gamma
  Grace,        \* fs_grace_s in ticks
  SlowEvery,    \* ticks per slow iteration
  Steps         \* bound of the model: ticks that may pass in one iteration

Vms == {DstOf[f] : f \in FlowSets}
CRoot(c) == (c * (100 - Headroom)) \div 100
VOf(c) == (VTicks * Headroom * c) \div 100
Demand(r) == r + r \div DeltaDen
Beyond == 4 * Max({CRoot(s) : s \in Speeds}) \* more than all there is, for the properties
DemandLevels == {Demand(r) : r \in Rates} \cup {CRoot(s) : s \in Speeds} \cup {Beyond}
Demands == {[f \in S |-> level[f]] : S \in SUBSET FlowSets, level \in [FlowSets -> DemandLevels]}

\* Scheduler.entitlements: both results of the fill, as a table.
Entitlements ==
  [root \in {CRoot(s) : s \in Speeds} |-> [pol \in Policies |-> [want \in Demands |->
     [e |-> Grants(root, pol, want), c |-> FairCeilings(root, pol, want)]]]]

ASSUME RxAssumption ==
  /\ Rates \subseteq Nat /\ 0 \in Rates
  /\ Speeds \subseteq Nat \ {0}
  /\ Headroom \in 1 .. 99
  /\ \A n \in {VTicks, DeltaDen, GammaDen, SlowEvery} : n \in Nat \ {0}
  /\ Grace \in Nat
  /\ Steps \subseteq Nat \ {0}
  /\ \A s \in Speeds : VOf(s) \in Nat \ {0} /\ CRoot(s) \in 1 .. Unlimited

\* Weights are what the registry says, or 1; the filling divides by them, and its
\* levels are fine enough for each of them.
ASSUME PolicyAssumption ==
  /\ IsFiniteSet(FlowSets)
  /\ \A pol \in Policies, f \in FlowSets :
       /\ pol.weight[DstOf[f]] \in Nat \ {0} /\ pol.maxRate[DstOf[f]] \in Nat
       /\ pol.clsWeight[DstOf[f]][ClsOf[f]] \in Nat \ {0}
       /\ pol.fsWeight[f] \in Nat \ {0}
       /\ \A w \in {pol.weight[DstOf[f]], pol.clsWeight[DstOf[f]][ClsOf[f]], pol.fsWeight[f]} :
            LevelUnit % w = 0

VARIABLES
  rate,    \* sched_rates; its domain is the flow table's (hybrid.by_dst)
  seen,    \* last_seen, as ages
  rootOn,  \* rootcong.on
  nodeOn,  \* nodesat.nodes
  demand,  \* demand per active flow-set
  grant,   \* ents
  ceil,    \* ceils
  vq,      \* marker.vq
  report,  \* per flow-set: u and r of the last telemetry
  policy,  \* sched.policy
  speed,   \* last_speed, which c_root and V follow
  phase,   \* nticks_total modulo SlowEvery
  file,    \* what the registry says, or will say when it is no longer torn
  torn,    \* the registry is half written
  edited   \* its mtime differs from reg_mtime

agentVars == <<rate, seen, rootOn, nodeOn, demand, grant, ceil, vq, report, policy, speed,
               phase, edited>>
vars == <<agentVars, file, torn>>

Empty == [f \in {} |-> 0]
Get(fn, x, default) == IF x \in DOMAIN fn THEN fn[x] ELSE default

------------------------------------------------------------------------------
(* Demand *)

\* RootCongestion.update: on from 95 percent, off again at 85.
Saturated(on, total, capacity) ==
  IF 100 * total >= 95 * capacity THEN TRUE
  ELSE IF 100 * total <= 85 * capacity THEN FALSE ELSE on

Totals(active) == [vm \in VmsOf(active) |-> VmDemand(active, vm)]

\* NodeSaturation.update: a VM without MaxRate keeps what it has, a VM without
\* flow-sets is dropped.
NodesAfter(active, pol) ==
  LET total == Totals(active)
      capped == {vm \in DOMAIN total : pol.maxRate[vm] # Unlimited}
  IN [vm \in capped \cup (DOMAIN total \cap DOMAIN nodeOn) |->
        IF vm \in capped THEN Saturated(Get(nodeOn, vm, FALSE), total[vm], pol.maxRate[vm])
                         ELSE nodeOn[vm]]

SaturatedVms(nodes, pol) == {vm \in DOMAIN nodes : nodes[vm] /\ pol.maxRate[vm] # Unlimited}

\* Mutant: only the root is looked at.
RatchetDemand(active, root, congested, vms) ==
  [f \in DOMAIN active |-> IF active[f] > 0 /\ congested THEN root ELSE Demand(active[f])]

\* Mutant: what was measured an iteration ago is wanted.
LateDemand(active, root, congested, vms) ==
  [f \in DOMAIN active |->
     IF active[f] > 0 /\ (congested \/ DstOf[f] \in vms)
       THEN root ELSE Demand(Get(rate, f, 0))]

\* demand_estimate: a flow-set that sends below a saturated node wants all it
\* can get, any other a little more than it has.
Estimated(active, root, congested, vms) ==
  [f \in DOMAIN active |->
     IF active[f] > 0 /\ (congested \/ DstOf[f] \in vms) THEN root ELSE Demand(active[f])]

------------------------------------------------------------------------------
(* Virtual queue *)

\* Mutant: the integral is not bounded by V.
ClipBelow(n, max) == Larger(n, 0)

Clip(n, max) == Larger(Smaller(n, max), 0)

\* Mutant: only silence drains the queue.
DrainedBySilence(f, r, e, c, v) ==
  LET q == Get(vq, f, 0)
  IN Clip(CASE r = 0 -> q - v
            [] r > 0 /\ r > Get(e, f, 0) -> q + (r - e[f])
            [] OTHER -> q, v)

\* VQMarker.step for one flow-set: excess over the grant fills, what the ceiling
\* leaves drains, silence empties it.
Queue(f, r, e, c, v) ==
  LET q == Get(vq, f, 0)
  IN Clip(CASE r = 0 -> q - v
            [] r > 0 /\ r > Get(e, f, 0) -> q + (r - e[f])
            [] OTHER -> q - Larger(c[f] - r, 0), v)

\* The queues after a tick; an empty one of a silent flow-set is forgotten.
QueuesAfter(rates, e, c, v) ==
  LET next(f) == Queue(f, Get(rates, f, 0), e, c, v)
  IN [f \in {g \in DOMAIN vq \cup DOMAIN rates : next(g) > 0 \/ Get(rates, g, 0) > 0} |-> next(f)]

\* u = ceil * (1 - gamma * vq / V), rounded down when packed.
Target(f, c, queues, v) ==
  (c[f] * (GammaDen * v - Get(queues, f, 0))) \div (GammaDen * v)

------------------------------------------------------------------------------
(* The loop *)

\* last_seen after a tick of d: whoever is in the table is young, whoever is not
\* is kept until the grace is over.
\* Mutant: no grace.
SeenNow(rates, d) == [f \in DOMAIN rates |-> 0]

SeenAfter(rates, d) ==
  [f \in DOMAIN rates \cup {g \in DOMAIN seen : seen[g] + d <= Grace} |->
     IF f \in DOMAIN rates THEN 0 ELSE seen[f] + d]

\* Whatever is due every SlowEvery ticks. The dump may fail, and leave the table
\* as it was; the registry may not parse; the link's speed may have changed.
Reload ==
  /\ edited' = FALSE
  /\ policy' = IF edited /\ ~torn THEN file ELSE policy

FollowLink == speed' \in Speeds

SlowWork(table) ==
  IF phase = 0
    THEN Reload /\ FollowLink
    ELSE table = DOMAIN rate /\ UNCHANGED <<policy, edited, speed>>

\* Scheduler, marker and telemetry on the rates of this tick.
Allocate(rates, d) ==
  LET active == [f \in DOMAIN seen' |-> Get(rates, f, 0)]
      root == CRoot(speed')
      v == VOf(speed')
  IN /\ seen' = SeenAfter(rates, d)
     /\ rootOn' = Saturated(rootOn, SumFunction(active), root)
     /\ nodeOn' = NodesAfter(active, policy')
     /\ demand' = Estimated(active, root, rootOn', SaturatedVms(nodeOn', policy'))
     /\ grant' = Entitlements[root][policy'][demand'].e
     /\ ceil' = Entitlements[root][policy'][demand'].c
     /\ vq' = QueuesAfter(rates, grant', ceil', v)
     /\ report' = [f \in DOMAIN active |->
                     [u |-> Target(f, ceil', vq', v), r |-> active[f]]]

\* One iteration, which takes d ticks.
Tick(rates, d) ==
  /\ SlowWork(DOMAIN rates)
  /\ rate' = rates
  /\ Allocate(rates, d)
  /\ phase' = (phase + 1) % SlowEvery
  /\ UNCHANGED <<file, torn>>

Ticks == \E table \in SUBSET FlowSets, d \in Steps :
           \E rates \in [table -> Rates] : Tick(rates, d)

\* The agent ends and starts again: what it knew is lost, and it takes registry
\* and speed as it finds them.
Restart ==
  /\ ~torn
  /\ rate' = Empty /\ seen' = Empty
  /\ rootOn' = FALSE /\ nodeOn' = Empty
  /\ demand' = Empty /\ grant' = Empty /\ ceil' = Empty
  /\ vq' = Empty /\ report' = Empty
  /\ policy' = file
  /\ speed' \in Speeds
  /\ phase' = 0 /\ edited' = FALSE
  /\ UNCHANGED <<file, torn>>

------------------------------------------------------------------------------
(* The operator *)

BeginEdit(pol) ==
  /\ ~torn /\ file # pol
  /\ file' = pol /\ torn' = TRUE /\ edited' = TRUE
  /\ UNCHANGED <<rate, seen, rootOn, nodeOn, demand, grant, ceil, vq, report, policy, speed,
                 phase>>

FinishEdit ==
  /\ torn
  /\ torn' = FALSE /\ edited' = TRUE
  /\ UNCHANGED <<rate, seen, rootOn, nodeOn, demand, grant, ceil, vq, report, policy, speed,
                 phase, file>>

Init ==
  /\ file \in Policies /\ torn = FALSE
  /\ rate = Empty /\ seen = Empty
  /\ rootOn = FALSE /\ nodeOn = Empty
  /\ demand = Empty /\ grant = Empty /\ ceil = Empty
  /\ vq = Empty /\ report = Empty
  /\ policy = file
  /\ speed \in Speeds
  /\ phase = 0 /\ edited = FALSE

Next ==
  \/ Ticks
  \/ Restart
  \/ \E pol \in Policies : BeginEdit(pol)
  \/ FinishEdit

Spec == Init /\ [][Next]_vars

\* The loop never stops: another iteration is always possible.
Iteration == phase' = (phase + 1) % SlowEvery
FairSpec == Spec /\ WF_phase(Iteration)

------------------------------------------------------------------------------
(* Properties *)

\* Every variable has its type; whoever is in the flow table is not silent, and
\* the results of the scheduler cover the same flow-sets as its demand.
TypeOK ==
  /\ DOMAIN rate \subseteq DOMAIN seen /\ rate \in [DOMAIN rate -> Rates]
  /\ DOMAIN seen \subseteq FlowSets /\ seen \in [DOMAIN seen -> 0 .. Grace]
  /\ \A f \in DOMAIN rate : seen[f] = 0
  /\ rootOn \in BOOLEAN
  /\ DOMAIN nodeOn \subseteq Vms /\ nodeOn \in [DOMAIN nodeOn -> BOOLEAN]
  /\ demand \in [DOMAIN seen -> DemandLevels]
  /\ grant \in [DOMAIN seen -> Nat] /\ ceil \in [DOMAIN seen -> Nat]
  /\ DOMAIN vq \subseteq FlowSets /\ vq \in [DOMAIN vq -> 0 .. VOf(speed)]
  /\ report \in [DOMAIN seen -> [u : Nat, r : Rates]]
  /\ {policy, file} \subseteq Policies /\ speed \in Speeds
  /\ phase \in 0 .. SlowEvery - 1
  /\ torn \in BOOLEAN /\ edited \in BOOLEAN

Senders(vm) == {f \in DOMAIN rate : DstOf[f] = vm /\ rate[f] > 0}
Sending == {f \in DOMAIN rate : rate[f] > 0}

\* Ceilings may be "individually right and jointly impossible": below a node at
\* its capacity they must fit together, whatever was measured before, whatever
\* the hysteresis remembers and whatever reload or speed came in between.
JointCeilings ==
  /\ \A vm \in SaturatedVms(nodeOn, policy) :
       SumFunctionOnSet(ceil, Senders(vm)) <= policy.maxRate[vm]
  /\ rootOn => SumFunctionOnSet(ceil, Sending) <= CRoot(speed)

\* The grant of the one filling and the ceiling of the other agree: a grant is
\* the demand, or the ceiling where that is less.
GrantIsCappedCeiling ==
  \A f \in DOMAIN seen : grant[f] = Smaller(demand[f], ceil[f])

\* Grants fit wherever they are spent: nobody is granted more than it wants, no VM
\* more than its MaxRate of today, all together no more than the root has, also when
\* the policy is reloaded or the link changes its speed in the same iteration.
GrantsFit ==
  /\ \A f \in DOMAIN seen : grant[f] <= demand[f]
  /\ \A vm \in Vms :
       SumFunctionOnSet(grant, {f \in DOMAIN seen : DstOf[f] = vm}) <= policy.maxRate[vm]
  /\ SumFunction(grant) <= CRoot(speed)

\* Grants leave nothing: together they spend the root's capacity, or all that is
\* wanted within the MaxRates.
GrantsExhaust ==
  LET wanted == [vm \in VmsOf(demand) |->
                   Smaller(policy.maxRate[vm], VmDemand(demand, vm))]
  IN SumFunction(grant) = Smaller(CRoot(speed), SumFunction(wanted))

\* Nobody is held below its weighted share by what others want: a ceiling is at
\* least what the flow-set would get if everyone wanted everything.
NeverBelowShare ==
  LET all == [f \in DOMAIN seen |-> Beyond]
  IN \A f \in DOMAIN seen : ceil[f] >= Entitlements[CRoot(speed)][policy][all].e[f]

\* The root's capacity as a demand "saturates the class demand cap exactly like
\* inf": were more than all there is wanted by those contending, no ceiling moves.
BigIsInfinite ==
  LET contends(f) == f \in Sending /\ (rootOn \/ DstOf[f] \in SaturatedVms(nodeOn, policy))
      infinite == [f \in DOMAIN seen |-> IF contends(f) THEN Beyond ELSE demand[f]]
  IN ceil = Entitlements[CRoot(speed)][policy][infinite].c

WithinCeiling(f) == Get(rate, f, 0) = 0 \/ rate[f] < ceil[f]

\* Marks follow the ceilings though queues fill above the grants: in an iteration only
\* the queue of a flow-set above its ceiling grows, and that of one within it shrinks
\* until it is empty, whatever is reloaded in the same iteration.
MarksFollowCeilings ==
  [][torn' = torn =>
       \A f \in FlowSets :
         LET before == Get(vq, f, 0)
             after == Get(vq', f, 0)
         IN /\ after > before => rate'[f] > ceil'[f]
            /\ WithinCeiling(f)' => after = 0 \/ after < before]_vars

\* A sender that stays within its ceiling, or falls silent, is forgiven: its mark
\* dies out and its target returns to the ceiling.
MarksDieOut ==
  \A f \in FlowSets : <>[]WithinCeiling(f) => <>[](Get(vq, f, 0) = 0)

Permits == INSTANCE Permit WITH
  silence <- [f \in FlowSets |-> Get(seen, f, Grace + 1)],
  permitted <- DOMAIN report

\* "Report membership is decided by the FLOW TABLE, never by the instantaneous
\* rate": whatever is measured, marked or reloaded, telemetry is what Permit says.
ImplementsPermit == Permits!Spec

==============================================================================
