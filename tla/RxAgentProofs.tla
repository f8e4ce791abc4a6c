---------------------------- MODULE RxAgentProofs ----------------------------
(***************************************************************************)
(* Proofs about the receiver's agent, for any flow-sets, rates, policies   *)
(* and link speeds: its types, what it allocates, and that its telemetry   *)
(* implements Permit. What the fillings return is WaterfillProofs.         *)
(*                                                                         *)
(* Grants and ceilings are kept from one iteration to the next, over       *)
(* reloads of the registry and changes of the link, so the invariant adds  *)
(* to the types where they come from (Allocated): they are the fillings    *)
(* of the demands, for the policy and the capacity they were computed      *)
(* with. What the properties say of a state is then a fact of Waterfill.   *)
(***************************************************************************)
EXTENDS RxAgent, WaterfillProofs

------------------------------------------------------------------------------
(* Arithmetic *)

\* V times 1 / gamma is at least V.
LEMMA ProductGrows == ASSUME NEW n \in Nat \ {0}, NEW v \in Nat \ {0}
                      PROVE  n * v \in Nat \ {0} /\ n * v >= v
<1>1. n * v = v + (n - 1) * v /\ n - 1 \in Nat
  OBVIOUS
<1>2. (n - 1) * v \in Nat
  BY <1>1
<1> QED
  BY <1>1, <1>2

\* A target is never negative while the queue is within V.
LEMMA TargetIsNat ==
  ASSUME NEW f, NEW c, f \in DOMAIN c, c[f] \in Nat, NEW q,
         NEW v \in Nat \ {0}, Get(q, f, 0) \in 0 .. v
  PROVE  Target(f, c, q, v) \in Nat
<1> DEFINE g == GammaDen * v
           level == Get(q, f, 0)
<1>1. g \in Nat \ {0} /\ g >= v
  BY ProductGrows, RxAssumption
<1>2. g - level \in Nat
  BY <1>1
<1>3. c[f] * (g - level) \in Nat
  BY <1>2, ProductIsNat
<1> QED
  BY <1>1, <1>3, QuotientIsNat DEF Target

\* The integral stays within V, whatever is added or taken.
LEMMA ClipBounds == ASSUME NEW n \in Int, NEW v \in Nat PROVE Clip(n, v) \in 0 .. v
BY DEF Clip, Smaller, Larger

------------------------------------------------------------------------------
(* Parts of an iteration *)

LEMMA QueueBounds ==
  ASSUME NEW f, NEW r \in Nat, NEW v \in Nat, NEW e, NEW c, Get(vq, f, 0) \in Nat,
         r > 0 => f \in DOMAIN e /\ f \in DOMAIN c /\ e[f] \in Nat /\ c[f] \in Nat
  PROVE  Queue(f, r, e, c, v) \in 0 .. v
<1> DEFINE q == Get(vq, f, 0)
<1>1. CASE r = 0
  <2>1. Queue(f, r, e, c, v) = Clip(q - v, v)
    BY <1>1 DEF Queue
  <2> QED
    BY <2>1, ClipBounds
<1>2. CASE r > 0 /\ r > Get(e, f, 0)
  <2>1. Queue(f, r, e, c, v) = Clip(q + (r - e[f]), v)
    BY <1>2 DEF Queue
  <2>2. q + (r - e[f]) \in Int
    BY <1>2
  <2> QED
    BY <2>1, <2>2, ClipBounds
<1>3. CASE r > 0 /\ ~(r > Get(e, f, 0))
  <2>1. Queue(f, r, e, c, v) = Clip(q - Larger(c[f] - r, 0), v)
    BY <1>3 DEF Queue
  <2>2. q - Larger(c[f] - r, 0) \in Int
    BY <1>3 DEF Larger
  <2> QED
    BY <2>1, <2>2, ClipBounds
<1> QED
  BY <1>1, <1>2, <1>3

\* Whoever is measured is known, and is neither old nor unscheduled.
LEMMA SeenBounds ==
  ASSUME TypeOK, NEW rates, DOMAIN rates \subseteq FlowSets, NEW d \in Steps
  PROVE  /\ DOMAIN rates \subseteq DOMAIN SeenAfter(rates, d)
         /\ DOMAIN SeenAfter(rates, d) \subseteq FlowSets
         /\ SeenAfter(rates, d) \in [DOMAIN SeenAfter(rates, d) -> 0 .. Grace]
         /\ \A f \in DOMAIN rates : SeenAfter(rates, d)[f] = 0
<1>1. d \in Nat /\ Grace \in Nat
  BY RxAssumption
<1> QED
  BY <1>1 DEF SeenAfter, TypeOK

LEMMA DemandBounds ==
  ASSUME NEW active, DOMAIN active \subseteq FlowSets, active \in [DOMAIN active -> Rates],
         NEW s \in Speeds, NEW congested, NEW vms
  PROVE  /\ Estimated(active, CRoot(s), congested, vms) \in [DOMAIN active -> DemandLevels]
         /\ Estimated(active, CRoot(s), congested, vms) \in Demands
<1> DEFINE want == Estimated(active, CRoot(s), congested, vms)
           level == [f \in FlowSets |-> IF f \in DOMAIN active THEN want[f] ELSE Demand(0)]
<1>1. want \in [DOMAIN active -> DemandLevels]
  BY DEF Estimated, DemandLevels
<1>2. level \in [FlowSets -> DemandLevels]
  BY <1>1, RxAssumption DEF DemandLevels
<1>3. want = [f \in DOMAIN active |-> level[f]]
  BY <1>1
<1>4. DOMAIN active \in SUBSET FlowSets
  OBVIOUS
<1> HIDE DEF want, level
<1>5. want \in Demands
  BY <1>2, <1>3, <1>4 DEF Demands
<1> QED
  BY <1>1, <1>5 DEF want

LEMMA NodesBounds ==
  ASSUME TypeOK, NEW active, DOMAIN active \subseteq FlowSets, NEW pol
  PROVE  /\ DOMAIN NodesAfter(active, pol) \subseteq Vms
         /\ NodesAfter(active, pol) \in [DOMAIN NodesAfter(active, pol) -> BOOLEAN]
<1>1. DOMAIN Totals(active) \subseteq Vms
  BY DEF Totals, VmsOf, Vms
<1>2. ASSUME NEW on \in BOOLEAN, NEW t, NEW m PROVE Saturated(on, t, m) \in BOOLEAN
  BY DEF Saturated
<1>3. \A vm : Get(nodeOn, vm, FALSE) \in BOOLEAN
  BY DEF Get, TypeOK
<1> QED
  BY <1>1, <1>2, <1>3 DEF NodesAfter, TypeOK

LEMMA DemandIsNat ==
  ASSUME NEW active, DOMAIN active \subseteq FlowSets, active \in [DOMAIN active -> Rates],
         NEW s \in Speeds, NEW congested, NEW vms
  PROVE  Wants(Estimated(active, CRoot(s), congested, vms))
<1>1. IsFiniteSet(DOMAIN active)
  BY PolicyAssumption, FS_Subset
<1>2. \A r \in Rates : Demand(r) \in Nat
  <2>1. \A r \in Rates : r \in Nat /\ DeltaDen \in Nat \ {0}
    BY RxAssumption
  <2> QED
    BY <2>1, QuotientIsNat DEF Demand
<1>3. CRoot(s) \in Nat
  BY RxAssumption
<1> QED
  BY <1>1, <1>2, <1>3 DEF Wants, Estimated

LEMMA PoliciesCover ==
  ASSUME NEW want, DOMAIN want \subseteq FlowSets, NEW pol \in Policies
  PROVE  Covers(pol, want) /\ FineFor(pol, want)
BY PolicyAssumption DEF Covers, FineFor

\* The table holds the two results of the filling.
LEMMA EntitlementsHold ==
  ASSUME NEW s \in Speeds, NEW pol \in Policies, NEW want \in Demands
  PROVE  Entitlements[CRoot(s)][pol][want] =
           [e |-> Grants(CRoot(s), pol, want), c |-> FairCeilings(CRoot(s), pol, want)]
<1>1. CRoot(s) \in {CRoot(t) : t \in Speeds}
  OBVIOUS
<1> QED
  BY <1>1 DEF Entitlements

\* What an iteration grants, and to whom.
Fitting(e, want, pol, root) ==
  /\ \A f \in DOMAIN want : e[f] <= want[f]
  /\ \A vm \in Vms :
       SumFunctionOnSet(e, {f \in DOMAIN want : DstOf[f] = vm}) <= pol.maxRate[vm]
  /\ SumFunctionOnSet(e, DOMAIN want) <= root

LEMMA EntitlementsFit ==
  ASSUME NEW s \in Speeds, NEW pol \in Policies,
         NEW want \in Demands, DOMAIN want \subseteq FlowSets, Wants(want)
  PROVE  /\ Entitlements[CRoot(s)][pol][want].e \in [DOMAIN want -> Nat]
         /\ Entitlements[CRoot(s)][pol][want].c \in [DOMAIN want -> Nat]
         /\ Fitting(Entitlements[CRoot(s)][pol][want].e, want, pol, CRoot(s))
<1> DEFINE e == Grants(CRoot(s), pol, want)
           c == FairCeilings(CRoot(s), pol, want)
<1>1. /\ Entitlements[CRoot(s)][pol][want].e = e
      /\ Entitlements[CRoot(s)][pol][want].c = c
  <2>1. Entitlements[CRoot(s)][pol][want] = [e |-> e, c |-> c]
    BY EntitlementsHold
  <2> HIDE DEF e, c
  <2> QED
    BY <2>1
<1>2. CRoot(s) \in Nat /\ CRoot(s) <= Unlimited /\ Covers(pol, want) /\ FineFor(pol, want)
  <2>1. CRoot(s) \in 1 .. Unlimited /\ Unlimited \in Nat
    BY RxAssumption, WaterfillAssumption
  <2>2. CRoot(s) \in Nat /\ CRoot(s) <= Unlimited
    BY <2>1
  <2>3. Covers(pol, want) /\ FineFor(pol, want)
    BY PoliciesCover
  <2> QED
    BY <2>2, <2>3
<1>3. c \in [DOMAIN want -> Nat]
  <2>1. {} \in SUBSET DOMAIN want /\ \A f \in {} : want[f] >= CRoot(s)
    OBVIOUS
  <2> QED
    BY <1>2, <2>1, CeilingsAreWithin
<1>4. /\ e \in [DOMAIN want -> Nat] /\ \A f \in DOMAIN want : e[f] <= want[f]
      /\ \A vm \in VmsOf(want) :
           SumFunctionOnSet(e, {f \in DOMAIN want : DstOf[f] = vm}) <= pol.maxRate[vm]
      /\ SumFunctionOnSet(e, DOMAIN want) <= CRoot(s)
  BY <1>2, GrantsAreWithin
<1> HIDE DEF e, c
<1>5. ASSUME NEW vm \in Vms, vm \notin VmsOf(want)
      PROVE  SumFunctionOnSet(e, {f \in DOMAIN want : DstOf[f] = vm}) <= pol.maxRate[vm]
  <2>1. {f \in DOMAIN want : DstOf[f] = vm} = {}
    BY <1>5 DEF VmsOf
  <2>2. pol.maxRate[vm] \in Nat
    BY PolicyAssumption DEF Vms
  <2> QED
    BY <2>1, <2>2, SumOfNone
<1>6. Fitting(e, want, pol, CRoot(s))
  BY <1>4, <1>5 DEF Fitting
<1> QED
  BY <1>1, <1>3, <1>4, <1>6

\* Ceilings of whoever is taken to want all there is.
LEMMA EntitlementsAreJoint ==
  ASSUME NEW s \in Speeds, NEW pol \in Policies,
         NEW want \in Demands, DOMAIN want \subseteq FlowSets, Wants(want),
         NEW A \in SUBSET DOMAIN want, \A f \in A : want[f] = CRoot(s)
  PROVE  /\ \A vm \in Vms : SumFunctionOnSet(Entitlements[CRoot(s)][pol][want].c,
                                             {f \in A : DstOf[f] = vm}) <= pol.maxRate[vm]
         /\ SumFunctionOnSet(Entitlements[CRoot(s)][pol][want].c, A) <= CRoot(s)
<1> DEFINE e == Grants(CRoot(s), pol, want)
           c == FairCeilings(CRoot(s), pol, want)
<1>1. Entitlements[CRoot(s)][pol][want].c = c
  <2>1. Entitlements[CRoot(s)][pol][want] = [e |-> e, c |-> c]
    BY EntitlementsHold
  <2> HIDE DEF e, c
  <2> QED
    BY <2>1
<1>2. CRoot(s) \in Nat /\ CRoot(s) <= Unlimited /\ Covers(pol, want) /\ FineFor(pol, want)
  BY RxAssumption, WaterfillAssumption, PoliciesCover
<1>3. \A f \in A : want[f] >= CRoot(s)
  BY <1>2
<1>4. /\ \A vm \in VmsOf(want) :
           SumFunctionOnSet(c, {f \in A : DstOf[f] = vm}) <= pol.maxRate[vm]
      /\ SumFunctionOnSet(c, A) <= CRoot(s)
  BY <1>2, <1>3, CeilingsAreWithin
<1> HIDE DEF c
<1>5. ASSUME NEW vm \in Vms, vm \notin VmsOf(want)
      PROVE  SumFunctionOnSet(c, {f \in A : DstOf[f] = vm}) <= pol.maxRate[vm]
  <2>1. {f \in A : DstOf[f] = vm} = {}
    BY <1>5 DEF VmsOf
  <2>2. pol.maxRate[vm] \in Nat
    BY PolicyAssumption DEF Vms
  <2> QED
    BY <2>1, <2>2, SumOfNone
<1> QED
  BY <1>1, <1>4, <1>5

------------------------------------------------------------------------------
(* The loop *)

LEMMA AllocateKeepsTypes ==
  ASSUME TypeOK, NEW rates, DOMAIN rates \subseteq FlowSets, rates \in [DOMAIN rates -> Rates],
         NEW d \in Steps, Allocate(rates, d), speed' \in Speeds, policy' \in Policies
  PROVE  /\ DOMAIN rates \subseteq DOMAIN seen' /\ DOMAIN seen' \subseteq FlowSets
         /\ seen' \in [DOMAIN seen' -> 0 .. Grace] /\ \A f \in DOMAIN rates : seen'[f] = 0
         /\ rootOn' \in BOOLEAN
         /\ DOMAIN nodeOn' \subseteq Vms /\ nodeOn' \in [DOMAIN nodeOn' -> BOOLEAN]
         /\ demand' \in [DOMAIN seen' -> DemandLevels]
         /\ grant' \in [DOMAIN seen' -> Nat] /\ ceil' \in [DOMAIN seen' -> Nat]
         /\ DOMAIN vq' \subseteq FlowSets /\ vq' \in [DOMAIN vq' -> 0 .. VOf(speed')]
         /\ report' \in [DOMAIN seen' -> [u : Nat, r : Rates]]
         /\ Fitting(grant', demand', policy', CRoot(speed'))
<1> DEFINE active == [f \in DOMAIN seen' |-> Get(rates, f, 0)]
           root == CRoot(speed')
           v == VOf(speed')
<1>1. /\ DOMAIN rates \subseteq DOMAIN seen' /\ DOMAIN seen' \subseteq FlowSets
      /\ seen' \in [DOMAIN seen' -> 0 .. Grace] /\ \A f \in DOMAIN rates : seen'[f] = 0
  BY SeenBounds DEF Allocate
<1>2. \A f : Get(rates, f, 0) \in Rates /\ Get(rates, f, 0) \in Nat
  BY RxAssumption DEF Get
<1>3. /\ active \in [DOMAIN seen' -> Rates] /\ DOMAIN active = DOMAIN seen'
      /\ \A f \in DOMAIN seen' : active[f] = Get(rates, f, 0)
  BY <1>2
<1>4. /\ v \in Nat \ {0} /\ speed' \in Speeds
  BY RxAssumption
<1>5. /\ rootOn' = Saturated(rootOn, SumFunction(active), root)
      /\ nodeOn' = NodesAfter(active, policy')
      /\ demand' = Estimated(active, root, rootOn', SaturatedVms(nodeOn', policy'))
      /\ grant' = Entitlements[root][policy'][demand'].e
      /\ ceil' = Entitlements[root][policy'][demand'].c
      /\ vq' = QueuesAfter(rates, grant', ceil', v)
      /\ report' = [f \in DOMAIN active |-> [u |-> Target(f, ceil', vq', v), r |-> active[f]]]
  BY DEF Allocate
<1> HIDE DEF active
<1>6. rootOn' \in BOOLEAN
  BY <1>5 DEF Saturated, TypeOK
<1>7. DOMAIN nodeOn' \subseteq Vms /\ nodeOn' \in [DOMAIN nodeOn' -> BOOLEAN]
  BY <1>1, <1>3, <1>5, NodesBounds
<1>8. /\ demand' \in [DOMAIN seen' -> DemandLevels] /\ demand' \in Demands
      /\ DOMAIN demand' = DOMAIN seen' /\ Wants(demand')
  BY <1>1, <1>3, <1>4, <1>5, DemandBounds, DemandIsNat
<1>9. /\ grant' \in [DOMAIN seen' -> Nat] /\ ceil' \in [DOMAIN seen' -> Nat]
      /\ Fitting(grant', demand', policy', root)
  <2>1. /\ speed' \in Speeds /\ policy' \in Policies /\ demand' \in Demands
        /\ DOMAIN demand' \subseteq FlowSets /\ Wants(demand') /\ DOMAIN demand' = DOMAIN seen'
    BY <1>1, <1>4, <1>8
  <2>2. /\ Entitlements[CRoot(speed')][policy'][demand'].e \in [DOMAIN demand' -> Nat]
        /\ Entitlements[CRoot(speed')][policy'][demand'].c \in [DOMAIN demand' -> Nat]
        /\ Fitting(Entitlements[CRoot(speed')][policy'][demand'].e, demand', policy', CRoot(speed'))
    BY <2>1, EntitlementsFit
  <2> QED
    BY <1>5, <2>1, <2>2
<1>10. \A f : Get(vq, f, 0) \in Nat
  BY RxAssumption DEF Get, TypeOK
<1>11. DOMAIN vq' \subseteq FlowSets /\ vq' \in [DOMAIN vq' -> 0 .. v]
  <2>1. ASSUME NEW f \in DOMAIN vq \cup DOMAIN rates
        PROVE  Queue(f, Get(rates, f, 0), grant', ceil', v) \in 0 .. v
    <3>1. Get(rates, f, 0) > 0 => f \in DOMAIN seen'
      BY <1>1 DEF Get
    <3> QED
      BY <1>2, <1>4, <1>9, <1>10, <3>1, QueueBounds
  <2>2. DOMAIN vq \subseteq FlowSets
    BY DEF TypeOK
  <2> QED
    BY <1>5, <2>1, <2>2 DEF QueuesAfter
<1>12. \A f : Get(vq', f, 0) \in 0 .. v
  BY <1>4, <1>11 DEF Get
<1>13. report' \in [DOMAIN seen' -> [u : Nat, r : Rates]]
  <2>1. ASSUME NEW f \in DOMAIN seen' PROVE Target(f, ceil', vq', v) \in Nat
    BY <1>4, <1>9, <1>12, TargetIsNat
  <2> QED
    BY <1>3, <1>5, <2>1
<1> QED
  BY <1>1, <1>6, <1>7, <1>8, <1>9, <1>11, <1>13

LEMMA TickKeepsTypes ==
  ASSUME TypeOK, Ticks PROVE TypeOK' /\ Fitting(grant', demand', policy', CRoot(speed'))
<1>1. PICK table \in SUBSET FlowSets, d \in Steps : \E rates \in [table -> Rates] : Tick(rates, d)
  BY DEF Ticks
<1>2. PICK rates \in [table -> Rates] : Tick(rates, d)
  BY <1>1
<1>3. /\ DOMAIN rates = table /\ rates \in [DOMAIN rates -> Rates]
      /\ rate' = rates /\ Allocate(rates, d) /\ UNCHANGED <<file, torn>>
      /\ phase' = (phase + 1) % SlowEvery
      /\ SlowWork(table)
  BY <1>2 DEF Tick
<1>4. speed' \in Speeds /\ policy' \in Policies /\ edited' \in BOOLEAN
  BY <1>3 DEF SlowWork, Reload, FollowLink, TypeOK
<1>5. phase' \in 0 .. SlowEvery - 1
  BY <1>3, RxAssumption DEF TypeOK
<1>6. file' \in Policies /\ torn' \in BOOLEAN
  BY <1>3 DEF TypeOK
<1> QED
  BY <1>3, <1>4, <1>5, <1>6, AllocateKeepsTypes DEF TypeOK

LEMMA EmptyTypes == /\ DOMAIN Empty = {} /\ \A S : Empty \in [DOMAIN Empty -> S]
                    /\ \A S : Empty \in [{} -> S]
BY DEF Empty

LEMMA TypesInit == Init => TypeOK
<1>1. 0 \in 0 .. SlowEvery - 1
  BY RxAssumption
<1> QED
  BY <1>1, EmptyTypes DEF Init, TypeOK

LEMMA TypesStep == TypeOK /\ [Next]_vars => TypeOK'
<1> SUFFICES ASSUME TypeOK, [Next]_vars PROVE TypeOK'
  OBVIOUS
<1>1. CASE Ticks
  BY <1>1, TickKeepsTypes
<1>2. CASE Restart
  <2>1. 0 \in 0 .. SlowEvery - 1
    BY RxAssumption
  <2> QED
    BY <1>2, <2>1, EmptyTypes DEF Restart, TypeOK
<1>3. CASE FinishEdit \/ \E pol \in Policies : BeginEdit(pol)
  BY <1>3 DEF FinishEdit, BeginEdit, TypeOK
<1>4. CASE UNCHANGED vars
  BY <1>4 DEF vars, agentVars, TypeOK
<1> QED
  BY <1>1, <1>2, <1>3, <1>4 DEF Next

\* Whatever is measured, reloaded or restarted, every variable of the receiver keeps
\* its type: no grant, ceiling or target is negative, a queue stays within the V of
\* the link's speed of today, and whoever is in the flow table is reported.
THEOREM RxTypes == Spec => []TypeOK
BY TypesInit, TypesStep, PTL DEF Spec

------------------------------------------------------------------------------
(* What was allocated *)

\* A flow-set that sends below a node taken to be saturated.
Contends(f) == f \in Sending /\ (rootOn \/ DstOf[f] \in SaturatedVms(nodeOn, policy))
\* Grants and ceilings are those of the demand at the policy and speed of today,
\* whoever contends is taken to want all there is, and nobody less than it has.
Allocated ==
  /\ DOMAIN demand = DOMAIN seen /\ demand \in Demands /\ Wants(demand)
  /\ grant = Entitlements[CRoot(speed)][policy][demand].e
  /\ ceil = Entitlements[CRoot(speed)][policy][demand].c
  /\ \A f \in FlowSets : Contends(f) => demand[f] = CRoot(speed)
  /\ \A f \in DOMAIN rate : demand[f] >= rate[f] \/ demand[f] = CRoot(speed)

LEMMA TickAllocates ==
  ASSUME TypeOK, Ticks PROVE Allocated'
<1>1. PICK table \in SUBSET FlowSets, d \in Steps : \E rates \in [table -> Rates] : Tick(rates, d)
  BY DEF Ticks
<1>2. PICK rates \in [table -> Rates] : Tick(rates, d)
  BY <1>1
<1> DEFINE active == [f \in DOMAIN seen' |-> Get(rates, f, 0)]
           root == CRoot(speed')
<1>3. /\ DOMAIN rates \subseteq FlowSets /\ rates \in [DOMAIN rates -> Rates]
      /\ rate' = rates /\ Allocate(rates, d) /\ speed' \in Speeds
  BY <1>2 DEF Tick, SlowWork, Reload, FollowLink, TypeOK
<1>4. DOMAIN rates \subseteq DOMAIN seen' /\ DOMAIN seen' \subseteq FlowSets
  BY <1>3, SeenBounds DEF Allocate
<1>5. /\ active \in [DOMAIN seen' -> Rates] /\ DOMAIN active = DOMAIN seen'
      /\ \A f \in DOMAIN rates : active[f] = rates[f]
  BY <1>3, <1>4, RxAssumption DEF Get
<1>6. /\ demand' = Estimated(active, root, rootOn', SaturatedVms(nodeOn', policy'))
      /\ grant' = Entitlements[root][policy'][demand'].e
      /\ ceil' = Entitlements[root][policy'][demand'].c
  BY <1>3 DEF Allocate
<1> HIDE DEF active
<1>7. demand' \in Demands /\ DOMAIN demand' = DOMAIN seen' /\ Wants(demand')
  BY <1>3, <1>4, <1>5, <1>6, DemandBounds, DemandIsNat
<1>8. ASSUME NEW f \in DOMAIN rates, rates[f] > 0,
             rootOn' \/ DstOf[f] \in SaturatedVms(nodeOn', policy')
      PROVE  demand'[f] = root
  BY <1>4, <1>5, <1>6, <1>8 DEF Estimated
<1>9. \A f \in FlowSets : Contends(f)' => demand'[f] = root
  BY <1>3, <1>8 DEF Contends, Sending
<1>10. ASSUME NEW f \in DOMAIN rates
       PROVE  demand'[f] >= rates[f] \/ demand'[f] = root
  <2>1. rates[f] \in Nat /\ DeltaDen \in Nat \ {0}
    BY <1>3, RxAssumption
  <2>2. Demand(rates[f]) >= rates[f]
    BY <2>1, QuotientIsNat DEF Demand
  <2>3. demand'[f] = root \/ demand'[f] = Demand(rates[f])
    BY <1>4, <1>5, <1>6 DEF Estimated
  <2> HIDE DEF root
  <2> QED
    BY <2>2, <2>3
<1> QED
  BY <1>3, <1>6, <1>7, <1>9, <1>10 DEF Allocated

\* An agent that knows nobody allocates nothing.
LEMMA EmptyIsAllocated ==
  ASSUME NEW pol \in Policies, NEW s \in Speeds
  PROVE  /\ Empty \in Demands /\ Wants(Empty)
         /\ Empty = Entitlements[CRoot(s)][pol][Empty].e
         /\ Empty = Entitlements[CRoot(s)][pol][Empty].c
<1>1. Empty \in Demands
  <2> DEFINE level == [f \in FlowSets |-> Demand(0)]
  <2>1. level \in [FlowSets -> DemandLevels] /\ {} \in SUBSET FlowSets
    BY RxAssumption DEF DemandLevels
  <2> HIDE DEF level
  <2> DEFINE restricted(S) == [f \in S |-> level[f]]
  <2>2. \A S \in SUBSET FlowSets : restricted(S) \in Demands
    BY <2>1 DEF Demands
  <2>3. Empty = restricted({})
    BY DEF Empty
  <2> HIDE DEF restricted
  <2> QED
    BY <2>1, <2>2, <2>3
<1>2. Wants(Empty) /\ DOMAIN Empty = {}
  BY EmptyTypes, FS_EmptySet DEF Wants
<1>3. DOMAIN Empty \subseteq FlowSets
  BY <1>2
<1>4. /\ Entitlements[CRoot(s)][pol][Empty].e \in [{} -> Nat]
      /\ Entitlements[CRoot(s)][pol][Empty].c \in [{} -> Nat]
  BY <1>1, <1>2, <1>3, EntitlementsFit
<1>5. Empty \in [{} -> Nat]
  BY EmptyTypes
<1> QED
  BY <1>1, <1>2, <1>4, <1>5

LEMMA AllocatedInit == Init => Allocated
<1> SUFFICES ASSUME Init PROVE Allocated
  OBVIOUS
<1>1. policy \in Policies /\ speed \in Speeds /\ Sending = {} /\ DOMAIN rate = {}
  BY EmptyTypes DEF Init, Sending
<1> QED
  BY <1>1, EmptyIsAllocated DEF Init, Allocated, Contends

LEMMA AllocatedStep == TypeOK /\ Allocated /\ [Next]_vars => Allocated'
<1> SUFFICES ASSUME TypeOK, Allocated, [Next]_vars
             PROVE  Allocated'
  OBVIOUS
<1>1. CASE Ticks
  BY <1>1, TickAllocates
<1>2. CASE Restart
  <2>1. policy' \in Policies /\ speed' \in Speeds /\ Sending' = {} /\ DOMAIN rate' = {}
    BY <1>2, EmptyTypes DEF Restart, Sending, TypeOK
  <2>2. /\ seen' = Empty /\ demand' = Empty /\ grant' = Empty /\ ceil' = Empty
    BY <1>2 DEF Restart
  <2> QED
    BY <2>1, <2>2, EmptyIsAllocated DEF Allocated, Contends
<1>3. CASE FinishEdit \/ (\E pol \in Policies : BeginEdit(pol)) \/ UNCHANGED vars
  BY <1>3 DEF FinishEdit, BeginEdit, vars, agentVars, Allocated, Contends, Sending, SaturatedVms
<1> QED
  BY <1>1, <1>2, <1>3 DEF Next

LEMMA TypesAndAllocated == Spec => [](TypeOK /\ Allocated)
BY TypesInit, TypesStep, AllocatedInit, AllocatedStep, PTL DEF Spec

\* In any state of the agent the demands are ones the theorems of the filling speak of.
LEMMA AllocatedIsFilled ==
  ASSUME TypeOK, Allocated
  PROVE  /\ DOMAIN demand \subseteq FlowSets /\ policy \in Policies /\ speed \in Speeds
         /\ Covers(policy, demand) /\ FineFor(policy, demand)
         /\ CRoot(speed) \in Nat \ {0} /\ CRoot(speed) <= Unlimited
         /\ grant = Grants(CRoot(speed), policy, demand)
         /\ ceil = FairCeilings(CRoot(speed), policy, demand)
<1>1. /\ DOMAIN demand \subseteq FlowSets /\ policy \in Policies /\ speed \in Speeds
      /\ demand \in Demands
  BY DEF TypeOK, Allocated
<1>2. CRoot(speed) \in Nat \ {0} /\ CRoot(speed) <= Unlimited
  BY <1>1, RxAssumption, WaterfillAssumption
<1> DEFINE e == Grants(CRoot(speed), policy, demand)
           c == FairCeilings(CRoot(speed), policy, demand)
<1>3. Entitlements[CRoot(speed)][policy][demand] = [e |-> e, c |-> c]
  BY <1>1, EntitlementsHold
<1> HIDE DEF e, c
<1>4. grant = e /\ ceil = c
  BY <1>3 DEF Allocated
<1> QED
  BY <1>1, <1>2, <1>4, PoliciesCover DEF e, c

------------------------------------------------------------------------------
(* Grants *)

LEMMA AllocatedGrantsFit == TypeOK /\ Allocated => GrantsFit
<1> SUFFICES ASSUME TypeOK, Allocated PROVE GrantsFit
  OBVIOUS
<1>1. DOMAIN demand = DOMAIN seen /\ DOMAIN grant = DOMAIN seen /\ Wants(demand)
      /\ demand \in Demands /\ grant = Entitlements[CRoot(speed)][policy][demand].e
  BY DEF TypeOK, Allocated
<1>2. Fitting(grant, demand, policy, CRoot(speed))
  BY <1>1, AllocatedIsFilled, EntitlementsFit
<1> QED
  BY <1>1, <1>2 DEF GrantsFit, Fitting, SumFunction

\* Whatever is measured and whatever is reloaded in between, no grant exceeds its
\* demand, no VM is granted more than its MaxRate and the link no more than its
\* capacity: for any flow-sets, any policies of positive weights and any speeds, at
\* every layer of the filling.
THEOREM GrantsAlwaysFit == Spec => []GrantsFit
BY TypesAndAllocated, AllocatedGrantsFit, PTL

\* GrantsExhaust where quotients are rounded down: what the grants fall short of it is
\* at most one for each flow-set at each of the three layers.
GrantsNearlyExhaust ==
  LET wanted == [vm \in VmsOf(demand) |->
                   Smaller(policy.maxRate[vm], VmDemand(demand, vm))]
  IN SumFunction(grant) + 3 * Cardinality(DOMAIN seen)
       >= Smaller(CRoot(speed), SumFunction(wanted))

LEMMA AllocatedIsSpent == TypeOK /\ Allocated => GrantsNearlyExhaust
<1> SUFFICES ASSUME TypeOK, Allocated PROVE GrantsNearlyExhaust
  OBVIOUS
<1> DEFINE caps == VmCaps(policy, demand)
<1>1. /\ DOMAIN demand = DOMAIN seen /\ DOMAIN grant = DOMAIN seen /\ Wants(demand)
      /\ grant = Grants(CRoot(speed), policy, demand)
      /\ CRoot(speed) \in Nat /\ Covers(policy, demand)
  BY AllocatedIsFilled DEF TypeOK, Allocated
<1>2. SumFunctionOnSet(grant, DOMAIN seen) + 3 * Cardinality(DOMAIN seen)
        >= Smaller(CRoot(speed), SumFunctionOnSet(caps, VmsOf(demand)))
  BY <1>1, GrantsSpend
<1>3. DOMAIN caps = VmsOf(demand)
  BY DEF VmCaps
<1> QED
  BY <1>1, <1>2, <1>3 DEF GrantsNearlyExhaust, SumFunction, VmCaps

\* Whatever is measured and reloaded: grants leave nothing of the root's capacity that is
\* wanted within the MaxRates, but what is rounded off.
THEOREM GrantsLeaveOnlyRounding == Spec => []GrantsNearlyExhaust
BY TypesAndAllocated, AllocatedIsSpent, PTL

\* A unit that no quotient of the filling breaks: whatever weights can meet at a layer add
\* up to what divides n, so that three layers deep a multiple of n * n * n * u is shared in
\* multiples of u.
Unbroken(n, u) ==
  /\ 3 * Cardinality(FlowSets) < u
  /\ \A pol \in Policies :
       /\ Shared(n, pol.weight, Vms)
       /\ \A vm \in Vms :
            Shared(n, pol.clsWeight[vm], {ClsOf[f] : f \in {g \in FlowSets : DstOf[g] = vm}})
       /\ \A vm, c : Shared(n, pol.fsWeight, {f \in FlowSets : DstOf[f] = vm /\ ClsOf[f] = c})
       /\ \A vm \in Vms : Multiple(pol.maxRate[vm], n * (n * (n * u)))
  /\ \A s \in Speeds : Multiple(CRoot(s), n * (n * (n * u)))
  /\ \A r \in Rates : Multiple(Demand(r), n * (n * (n * u)))

LEMMA SharedByFewer ==
  ASSUME NEW n, NEW w, NEW T, Shared(n, w, T), NEW S \in SUBSET T, IsFiniteSet(S),
         NEW v, \A k \in S : v[k] \in Int /\ v[k] = w[k]
  PROVE  Shared(n, v, S)
<1> SUFFICES ASSUME NEW A \in SUBSET S, A # {} PROVE n % SumFunctionOnSet(v, A) = 0
  BY DEF Shared
<1>1. IsFiniteSet(A) /\ \A k \in A : v[k] \in Int /\ v[k] = w[k]
  BY FS_Subset
<1>2. SumFunctionOnSet(v, A) = SumFunctionOnSet(w, A)
  BY <1>1, SumIsSame
<1> QED
  BY <1>2 DEF Shared

\* The demands of an agent whose rates are such multiples.
LEMMA DemandsAreWhole ==
  ASSUME NEW m \in Nat, NEW s \in Speeds,
         \A t \in Speeds : Multiple(CRoot(t), m), \A r \in Rates : Multiple(Demand(r), m),
         NEW x \in DemandLevels
  PROVE  Multiple(x, m)
<1>1. CASE x = Beyond
  <2> DEFINE S == {CRoot(t) : t \in Speeds}
  <2>1. S \in SUBSET (1 .. Unlimited) /\ CRoot(s) \in S /\ Unlimited \in Nat
    BY RxAssumption, WaterfillAssumption
  <2> HIDE DEF S
  <2>2. IsFiniteSet(S) /\ S \in SUBSET Nat /\ S # {}
    <3>1. IsFiniteSet(1 .. Unlimited)
      BY <2>1, FS_Interval
    <3> QED
      <4>1. IsFiniteSet(S)
        BY <2>1, <3>1, FS_Subset
      <4> QED
        BY <2>1, <4>1
  <2>3. Max(S) \in S
    BY <2>2, MaxIsGreatest
  <2>4. PICK a \in Nat : Max(S) = a * m
    BY <2>3 DEF S, Multiple
  <2>5. x = (4 * a) * m /\ 4 * a \in Nat
    BY <1>1, <2>4 DEF Beyond, S
  <2> QED
    BY <2>5 DEF Multiple
<1> QED
  BY <1>1 DEF DemandLevels

LEMMA AllocatedIsSpentWhole ==
  ASSUME NEW n \in Nat \ {0}, NEW u \in Nat \ {0}, Unbroken(n, u)
  PROVE  TypeOK /\ Allocated => GrantsExhaust
<1> SUFFICES ASSUME TypeOK, Allocated PROVE GrantsExhaust
  OBVIOUS
<1> DEFINE m == n * (n * (n * u))
           root == CRoot(speed)
<1>1. /\ DOMAIN demand = DOMAIN seen /\ DOMAIN grant = DOMAIN demand /\ Wants(demand)
      /\ grant = Grants(root, policy, demand)
      /\ root \in Nat /\ Covers(policy, demand)
      /\ DOMAIN demand \subseteq FlowSets /\ policy \in Policies /\ speed \in Speeds
      /\ VmsOf(demand) \subseteq Vms
  BY AllocatedIsFilled DEF TypeOK, Allocated, VmsOf, Vms
<1>2. m \in Nat
  <2>1. n * u \in Nat
    BY ProductIsNat
  <2> QED
    BY <2>1, ProductIsNat
<1>3. /\ Multiple(root, m) /\ \A vm \in VmsOf(demand) : Multiple(policy.maxRate[vm], m)
      /\ \A s \in Speeds : Multiple(CRoot(s), m) /\ \A r \in Rates : Multiple(Demand(r), m)
  BY <1>1 DEF Unbroken
<1> HIDE DEF m
<1>4. \A f \in DOMAIN demand : Multiple(demand[f], m)
  BY <1>1, <1>2, <1>3, DemandsAreWhole DEF TypeOK
<1>5. SharedByLayer(n, policy, demand)
  <2>1. Shared(n, VmWeights(policy, demand), VmsOf(demand))
    <3>1. Shared(n, policy.weight, Vms) /\ IsFiniteSet(VmsOf(demand))
      BY <1>1, PartsAreFinite DEF Unbroken
    <3>2. \A vm \in VmsOf(demand) : /\ VmWeights(policy, demand)[vm] \in Int
                                    /\ VmWeights(policy, demand)[vm] = policy.weight[vm]
      BY <1>1 DEF VmWeights, Covers, VmsOf
    <3> QED
      BY <1>1, <3>1, <3>2, SharedByFewer
  <2>2. ASSUME NEW vm \in VmsOf(demand)
        PROVE  Shared(n, ClassWeights(policy, demand, vm), ClassesOf(demand, vm))
    <3> DEFINE T == {ClsOf[f] : f \in {g \in FlowSets : DstOf[g] = vm}}
    <3>1. Shared(n, policy.clsWeight[vm], T) /\ IsFiniteSet(ClassesOf(demand, vm))
      BY <1>1, PartsAreFinite DEF Unbroken
    <3>2. ClassesOf(demand, vm) \in SUBSET T
      BY <1>1 DEF ClassesOf
    <3>3. \A c \in ClassesOf(demand, vm) :
            /\ ClassWeights(policy, demand, vm)[c] \in Int
            /\ ClassWeights(policy, demand, vm)[c] = policy.clsWeight[vm][c]
      BY <1>1 DEF ClassWeights, Covers, ClassesOf
    <3> HIDE DEF T
    <3> QED
      BY <3>1, <3>2, <3>3, SharedByFewer
  <2>3. ASSUME NEW vm, NEW c
        PROVE  Shared(n, LeafWeights(policy, demand, vm, c), InClass(demand, vm, c))
    <3> DEFINE T == {f \in FlowSets : DstOf[f] = vm /\ ClsOf[f] = c}
    <3>1. Shared(n, policy.fsWeight, T) /\ IsFiniteSet(InClass(demand, vm, c))
      <4>1. IsFiniteSet(InClass(demand, vm, c))
        BY <1>1, PartsAreFinite
      <4>2. \A v, d : Shared(n, policy.fsWeight, {f \in FlowSets : DstOf[f] = v /\ ClsOf[f] = d})
        BY <1>1 DEF Unbroken
      <4> QED
        BY <4>1, <4>2
    <3>2. InClass(demand, vm, c) \in SUBSET T
      BY <1>1 DEF InClass
    <3>3. \A f \in InClass(demand, vm, c) :
            /\ LeafWeights(policy, demand, vm, c)[f] \in Int
            /\ LeafWeights(policy, demand, vm, c)[f] = policy.fsWeight[f]
      BY <1>1 DEF LeafWeights, Covers, InClass
    <3> HIDE DEF T
    <3> QED
      BY <3>1, <3>2, <3>3, SharedByFewer
  <2> QED
    BY <2>1, <2>2, <2>3 DEF SharedByLayer
<1>6. 3 * Cardinality(DOMAIN demand) < u
  <2>1. /\ Cardinality(DOMAIN demand) <= Cardinality(FlowSets)
        /\ Cardinality(DOMAIN demand) \in Nat /\ Cardinality(FlowSets) \in Nat
    BY <1>1, PolicyAssumption, FS_Subset, FS_CardinalityType
  <2> QED
    BY <2>1 DEF Unbroken
<1> HIDE DEF root
<1>7. SumFunctionOnSet(grant, DOMAIN demand)
        = Smaller(root, SumFunctionOnSet(VmCaps(policy, demand), VmsOf(demand)))
  BY <1>1, <1>3, <1>4, <1>5, <1>6, GrantsSpendAll DEF m
<1>8. DOMAIN VmCaps(policy, demand) = VmsOf(demand)
  BY DEF VmCaps
<1> QED
  BY <1>1, <1>7, <1>8 DEF GrantsExhaust, SumFunction, VmCaps, root

\* In a unit that no quotient breaks, as the rationals always have one: whatever is
\* measured and reloaded, grants leave nothing, neither of the root's capacity nor of what
\* is wanted within the MaxRates. What GrantsLeaveOnlyRounding allows is rounding alone.
THEOREM GrantsAlwaysExhaust ==
  ASSUME NEW n \in Nat \ {0}, NEW u \in Nat \ {0}, Unbroken(n, u)
  PROVE  Spec => []GrantsExhaust
<1>1. TypeOK /\ Allocated => GrantsExhaust
  BY AllocatedIsSpentWhole
<1> QED
  BY <1>1, TypesAndAllocated, PTL

LEMMA AllocatedGrantsAreCapped == TypeOK /\ Allocated => GrantIsCappedCeiling
<1> SUFFICES ASSUME TypeOK, Allocated, NEW f \in DOMAIN seen
             PROVE  grant[f] = Smaller(demand[f], ceil[f])
  BY DEF GrantIsCappedCeiling
<1>1. f \in DOMAIN demand /\ Wants(demand)
  BY DEF Allocated
<1> QED
  BY <1>1, AllocatedIsFilled, GrantIsDemandOrCeiling

\* The grant of the one filling and the ceiling of the other, found in different ways,
\* always agree: a grant is the demand, or the ceiling where that is less, for any
\* tree of VMs, classes and flow-sets, rounding included.
THEOREM GrantsAreCappedCeilings == Spec => []GrantIsCappedCeiling
BY TypesAndAllocated, AllocatedGrantsAreCapped, PTL

------------------------------------------------------------------------------
(* Ceilings *)

LEMMA AllocatedIsJoint == TypeOK /\ Allocated => JointCeilings
<1> SUFFICES ASSUME TypeOK, Allocated PROVE JointCeilings
  OBVIOUS
<1>1. /\ DOMAIN demand \subseteq FlowSets /\ policy \in Policies /\ speed \in Speeds
      /\ demand \in Demands /\ Wants(demand)
      /\ ceil = Entitlements[CRoot(speed)][policy][demand].c
      /\ Sending \in SUBSET DOMAIN demand /\ Sending \in SUBSET FlowSets
  BY AllocatedIsFilled DEF Allocated, Sending, TypeOK
<1>2. ASSUME NEW vm \in SaturatedVms(nodeOn, policy)
      PROVE  SumFunctionOnSet(ceil, Senders(vm)) <= policy.maxRate[vm]
  <2>1. Senders(vm) \in SUBSET DOMAIN demand /\ {f \in Senders(vm) : DstOf[f] = vm} = Senders(vm)
    BY <1>1 DEF Senders, Sending
  <2>2. \A f \in Senders(vm) : demand[f] = CRoot(speed)
    BY <1>1 DEF Senders, Sending, Allocated, Contends
  <2>3. vm \in Vms
    BY DEF TypeOK, SaturatedVms
  <2>4. SumFunctionOnSet(ceil, {f \in Senders(vm) : DstOf[f] = vm}) <= policy.maxRate[vm]
    BY <1>1, <2>1, <2>2, <2>3, EntitlementsAreJoint
  <2> QED
    BY <2>1, <2>4
<1>3. ASSUME rootOn
      PROVE  SumFunctionOnSet(ceil, Sending) <= CRoot(speed)
  <2>1. \A f \in Sending : demand[f] = CRoot(speed)
    BY <1>1, <1>3 DEF Allocated, Contends
  <2> QED
    BY <1>1, <2>1, EntitlementsAreJoint
<1> QED
  BY <1>2, <1>3 DEF JointCeilings

\* Below a node at its capacity the ceilings of all who send fit together, for any
\* flow-sets, policies and speeds and any hysteresis, though each ceiling is found
\* as if its flow-set were the only one to want everything.
THEOREM CeilingsAlwaysFit == Spec => []JointCeilings
BY TypesAndAllocated, AllocatedIsJoint, PTL

LEMMA BeyondIsBeyond == ASSUME NEW s \in Speeds PROVE Beyond \in Nat /\ Beyond > CRoot(s)
<1> DEFINE S == {CRoot(t) : t \in Speeds}
<1>1. /\ S \in SUBSET (1 .. Unlimited) /\ CRoot(s) \in S /\ CRoot(s) \in Nat \ {0}
      /\ Unlimited \in Nat
  BY RxAssumption, WaterfillAssumption
<1> HIDE DEF S
<1>2. S \in SUBSET Nat /\ IsFiniteSet(S) /\ S # {}
  <2>1. IsFiniteSet(1 .. Unlimited)
    BY <1>1, FS_Interval
  <2>2. IsFiniteSet(S)
    BY <1>1, <2>1, FS_Subset
  <2> QED
    BY <1>1, <2>2
<1>3. Max(S) \in Nat /\ Max(S) >= CRoot(s)
  BY <1>1, <1>2, MaxIsGreatest
<1>4. Beyond = 4 * Max(S)
  BY DEF Beyond, S
<1> QED
  BY <1>1, <1>3, <1>4

\* A demand that is more than all there is for some and unchanged for the others.
LEMMA RaisedDemand ==
  ASSUME TypeOK, Allocated, NEW U \in SUBSET DOMAIN seen
  PROVE  LET raised == [f \in DOMAIN seen |-> IF f \in U THEN Beyond ELSE demand[f]]
         IN raised \in Demands /\ Wants(raised) /\ DOMAIN raised = DOMAIN seen
<1> DEFINE raised == [f \in DOMAIN seen |-> IF f \in U THEN Beyond ELSE demand[f]]
           level == [f \in FlowSets |-> IF f \in DOMAIN seen THEN raised[f] ELSE Beyond]
<1>1. demand \in [DOMAIN seen -> DemandLevels] /\ DOMAIN seen \in SUBSET FlowSets
  BY DEF TypeOK
<1>2. Beyond \in DemandLevels
  BY DEF DemandLevels
<1>3. level \in [FlowSets -> DemandLevels]
  BY <1>1, <1>2
<1>4. raised = [f \in DOMAIN seen |-> level[f]]
  BY <1>1
<1>5. Beyond \in Nat
  BY BeyondIsBeyond DEF TypeOK
<1>6. Wants(raised) /\ DOMAIN raised = DOMAIN seen
  BY <1>5 DEF Allocated, Wants
<1> HIDE DEF level, raised
<1>7. [f \in DOMAIN seen |-> level[f]] \in Demands
  BY <1>1, <1>3 DEF Demands
<1> QED
  BY <1>4, <1>6, <1>7 DEF raised

LEMMA AllocatedKeepsShares == TypeOK /\ Allocated => NeverBelowShare
<1> SUFFICES ASSUME TypeOK, Allocated PROVE NeverBelowShare
  OBVIOUS
<1> DEFINE all == [f \in DOMAIN seen |-> Beyond]
           root == CRoot(speed)
<1>1. /\ DOMAIN demand = DOMAIN seen /\ DOMAIN all = DOMAIN seen
      /\ \A f \in DOMAIN seen : all[f] = Beyond
  BY DEF Allocated
<1>2. all \in Demands /\ Wants(all)
  <2>1. DOMAIN seen \in SUBSET DOMAIN seen
        /\ [f \in DOMAIN seen |-> IF f \in DOMAIN seen THEN Beyond ELSE demand[f]] = all
    OBVIOUS
  <2> HIDE DEF all
  <2> QED
    BY <2>1, RaisedDemand
<1>3. /\ policy \in Policies /\ speed \in Speeds /\ Wants(demand)
      /\ Covers(policy, demand) /\ FineFor(policy, demand)
      /\ root \in Nat /\ root <= Unlimited
      /\ ceil = FairCeilings(root, policy, demand)
  BY AllocatedIsFilled DEF Allocated
<1>4. Beyond > root
  BY <1>3, BeyondIsBeyond
<1> HIDE DEF all
<1>5. Entitlements[root][policy][all].e = Grants(root, policy, all)
  <2> DEFINE e == Grants(root, policy, all)
             c == FairCeilings(root, policy, all)
  <2>1. Entitlements[root][policy][all] = [e |-> e, c |-> c]
    BY <1>2, <1>3, EntitlementsHold
  <2> HIDE DEF e, c
  <2> QED
    BY <2>1 DEF e
<1>6. ASSUME NEW f \in DOMAIN seen PROVE Grants(root, policy, all)[f] <= ceil[f]
  <2>1. \A g \in DOMAIN demand : all[g] > root
    BY <1>1, <1>4
  <2> HIDE DEF root
  <2> QED
    BY <1>1, <1>2, <1>3, <2>1, SharesAreKept
<1>7. /\ \A f \in DOMAIN seen : Grants(root, policy, all)[f] \in Nat
      /\ \A f \in DOMAIN seen : ceil[f] \in Nat
  <2>1. Covers(policy, all) /\ DOMAIN all = DOMAIN seen
    BY <1>1, <1>3 DEF Covers
  <2>2. Grants(root, policy, all) \in [DOMAIN all -> Nat]
    BY <1>2, <1>3, <2>1, GrantsAreWithin
  <2> QED
    BY <2>1, <2>2 DEF TypeOK
<1>8. \A f \in DOMAIN seen : ceil[f] >= Entitlements[root][policy][all].e[f]
  BY <1>5, <1>6, <1>7
<1> QED
  BY <1>8 DEF NeverBelowShare, all

\* Nobody is ever held below its weighted share by what the others are measured to send:
\* its ceiling is at least its grant were everyone to want everything.
THEOREM CeilingsKeepShares == Spec => []NeverBelowShare
BY TypesAndAllocated, AllocatedKeepsShares, PTL

LEMMA AllocatedIsInfinite == TypeOK /\ Allocated => BigIsInfinite
<1> SUFFICES ASSUME TypeOK, Allocated PROVE BigIsInfinite
  OBVIOUS
<1> DEFINE infinite == [f \in DOMAIN seen |-> IF Contends(f) THEN Beyond ELSE demand[f]]
           U == {f \in DOMAIN seen : Contends(f)}
           root == CRoot(speed)
<1>1. DOMAIN demand = DOMAIN seen /\ DOMAIN infinite = DOMAIN seen
  BY DEF Allocated
<1>2. infinite \in Demands /\ Wants(infinite)
  <2>1. /\ U \in SUBSET DOMAIN seen
        /\ [f \in DOMAIN seen |-> IF f \in U THEN Beyond ELSE demand[f]] = infinite
    OBVIOUS
  <2> HIDE DEF U, infinite
  <2> QED
    BY <2>1, RaisedDemand
<1>3. /\ policy \in Policies /\ speed \in Speeds /\ Wants(demand)
      /\ Covers(policy, demand) /\ FineFor(policy, demand)
      /\ root \in Nat /\ root <= Unlimited
      /\ ceil = FairCeilings(root, policy, demand)
  BY AllocatedIsFilled DEF Allocated
<1>4. Beyond \in Nat /\ Beyond > root
  BY <1>3, BeyondIsBeyond
<1>5. ASSUME NEW f \in DOMAIN demand PROVE Alike(demand[f], infinite[f], root)
  <2>1. Contends(f) => demand[f] = root
    BY <1>1 DEF Allocated, TypeOK
  <2> HIDE DEF root
  <2> QED
    BY <1>1, <1>3, <1>4, <2>1 DEF Alike
<1> HIDE DEF infinite
<1>6. Entitlements[root][policy][infinite].c = FairCeilings(root, policy, infinite)
  <2> DEFINE e == Grants(root, policy, infinite)
             c == FairCeilings(root, policy, infinite)
  <2>1. Entitlements[root][policy][infinite] = [e |-> e, c |-> c]
    BY <1>2, <1>3, EntitlementsHold
  <2> HIDE DEF e, c
  <2> QED
    BY <2>1 DEF c
<1>7. FairCeilings(root, policy, demand) = FairCeilings(root, policy, infinite)
  <2> HIDE DEF root
  <2> QED
    BY <1>1, <1>2, <1>3, <1>5, RootIsInfinite
<1> QED
  BY <1>3, <1>6, <1>7 DEF BigIsInfinite, infinite, Contends

\* The root's capacity as a demand counts as infinite: were more than all there is wanted
\* by those contending, no ceiling of anybody would move.
THEOREM ContendersAreUnbounded == Spec => []BigIsInfinite
BY TypesAndAllocated, AllocatedIsInfinite, PTL

------------------------------------------------------------------------------
(* Marks follow the ceilings *)

\* A flow-set above its grant is above its ceiling: it wants no less than it has, unless
\* it wants all there is, which no ceiling exceeds.
OnlyExcessOverflows == \A f \in DOMAIN rate : rate[f] > grant[f] => rate[f] > ceil[f]

LEMMA ExcessIsOverCeiling == TypeOK /\ Allocated => OnlyExcessOverflows
<1> SUFFICES ASSUME TypeOK, Allocated, NEW f \in DOMAIN rate, rate[f] > grant[f]
             PROVE  rate[f] > ceil[f]
  BY DEF OnlyExcessOverflows
<1>1. /\ f \in DOMAIN seen /\ rate[f] \in Nat
      /\ demand[f] \in Nat /\ grant[f] \in Nat /\ ceil[f] \in Nat
  BY RxAssumption DEF TypeOK, Allocated, Wants
<1>2. grant[f] = Smaller(demand[f], ceil[f])
  BY <1>1, AllocatedGrantsAreCapped DEF GrantIsCappedCeiling
<1>3. CASE demand[f] >= rate[f]
  BY <1>1, <1>2, <1>3 DEF Smaller
<1>4. CASE demand[f] = CRoot(speed)
  <2>1. /\ {f} \in SUBSET DOMAIN demand /\ \A g \in {f} : demand[g] = CRoot(speed)
        /\ DOMAIN demand \subseteq FlowSets /\ policy \in Policies /\ speed \in Speeds
        /\ demand \in Demands /\ Wants(demand)
        /\ ceil = Entitlements[CRoot(speed)][policy][demand].c
    BY <1>1, <1>4, AllocatedIsFilled DEF Allocated
  <2>2. SumFunctionOnSet(ceil, {f}) <= CRoot(speed)
    BY <2>1, EntitlementsAreJoint
  <2>3. SumFunctionOnSet(ceil, {f}) \in Nat /\ ceil[f] <= SumFunctionOnSet(ceil, {f})
    <3>1. IsFiniteSet({f}) /\ \A x \in {f} : ceil[x] \in Nat
      BY <1>1, FS_Singleton
    <3> QED
      BY <3>1, SumIsNat
  <2>4. CRoot(speed) \in Nat
    BY AllocatedIsFilled
  <2>5. ceil[f] <= CRoot(speed)
    BY <1>1, <2>2, <2>3, <2>4
  <2> QED
    BY <1>1, <1>2, <1>4, <2>4, <2>5 DEF Smaller
<1> QED
  BY <1>3, <1>4 DEF Allocated

\* The same of the state after a step.
LEMMA ExcessWillBeOverCeiling == (TypeOK /\ Allocated)' => OnlyExcessOverflows'
BY ExcessIsOverCeiling, PTL

\* A queue that was within its bounds grows over the grant, and drains under it, by what
\* the ceiling leaves.
LEMMA QueueMoves ==
  ASSUME NEW f, NEW r \in Nat, NEW v \in Nat \ {0}, NEW e, NEW c, Get(vq, f, 0) \in Nat,
         r > 0 => f \in DOMAIN e /\ f \in DOMAIN c /\ e[f] \in Nat /\ c[f] \in Nat,
         r > 0 /\ r > e[f] => r > c[f]
  PROVE  LET before == Get(vq, f, 0)
             after == Queue(f, r, e, c, v)
         IN /\ after > before => r > 0 /\ r > c[f]
            /\ r = 0 \/ r < c[f] => after = 0 \/ after < before
<1> DEFINE q == Get(vq, f, 0)
<1>1. CASE r = 0
  <2>1. Queue(f, r, e, c, v) = Clip(q - v, v)
    BY <1>1 DEF Queue
  <2> HIDE DEF q
  <2> QED
    BY <1>1, <2>1 DEF Clip, Smaller, Larger, q
<1>2. CASE r > 0 /\ r > Get(e, f, 0)
  <2>1. Queue(f, r, e, c, v) = Clip(q + (r - e[f]), v) /\ r > c[f]
    BY <1>2 DEF Queue, Get
  <2> QED
    BY <1>2, <2>1
<1>3. CASE r > 0 /\ ~(r > Get(e, f, 0))
  <2>1. Queue(f, r, e, c, v) = Clip(q - Larger(c[f] - r, 0), v)
    BY <1>3 DEF Queue
  <2>2. c[f] \in Nat /\ q \in Nat
    BY <1>3
  <2> HIDE DEF q
  <2>3. /\ ~(Clip(q - Larger(c[f] - r, 0), v) > q)
        /\ r < c[f] => \/ Clip(q - Larger(c[f] - r, 0), v) = 0
                       \/ Clip(q - Larger(c[f] - r, 0), v) < q
    BY <2>2 DEF Clip, Smaller, Larger
  <2> QED
    BY <1>3, <2>1, <2>3 DEF q
<1> QED
  BY <1>1, <1>2, <1>3

LEMMA TickMovesMarks ==
  ASSUME TypeOK, Ticks, NEW f \in FlowSets
  PROVE  /\ Get(vq', f, 0) > Get(vq, f, 0) => rate'[f] > ceil'[f]
         /\ WithinCeiling(f)' => Get(vq', f, 0) = 0 \/ Get(vq', f, 0) < Get(vq, f, 0)
<1>1. PICK table \in SUBSET FlowSets, d \in Steps : \E rates \in [table -> Rates] : Tick(rates, d)
  BY DEF Ticks
<1>2. PICK rates \in [table -> Rates] : Tick(rates, d)
  BY <1>1
<1> DEFINE r == Get(rates, f, 0)
           v == VOf(speed')
           before == Get(vq, f, 0)
           after == Queue(f, r, grant', ceil', v)
<1>3. /\ rate' = rates /\ vq' = QueuesAfter(rates, grant', ceil', v)
  BY <1>2 DEF Tick, Allocate
<1>4. TypeOK' /\ Allocated'
  BY TickKeepsTypes, TickAllocates
<1>5. /\ r \in Nat /\ v \in Nat \ {0} /\ before \in Nat
      /\ r > 0 => f \in DOMAIN rates /\ r = rates[f]
  BY <1>2, <1>4, RxAssumption DEF Get, TypeOK
<1>6. r > 0 => /\ f \in DOMAIN grant' /\ f \in DOMAIN ceil'
               /\ grant'[f] \in Nat /\ ceil'[f] \in Nat
  BY <1>3, <1>4, <1>5 DEF TypeOK
<1>7. r > 0 /\ r > grant'[f] => r > ceil'[f]
  BY <1>3, <1>4, <1>5, ExcessWillBeOverCeiling DEF OnlyExcessOverflows
<1>8. Get(vq', f, 0) = after
  <2>1. after \in 0 .. v
    BY <1>5, <1>6, QueueBounds
  <2>2. f \in DOMAIN vq \cup DOMAIN rates /\ (after > 0 \/ r > 0) => vq'[f] = after
                                                              /\ f \in DOMAIN vq'
    BY <1>3 DEF QueuesAfter
  <2>3. f \in DOMAIN vq' => vq'[f] = after
    BY <1>3 DEF QueuesAfter
  <2>4. f \notin DOMAIN vq \cup DOMAIN rates => after = 0
    <3> SUFFICES ASSUME f \notin DOMAIN vq, f \notin DOMAIN rates PROVE after = 0
      OBVIOUS
    <3>1. before = 0 /\ r = 0
      BY DEF Get
    <3>2. after = Clip(0 - v, v)
      BY <3>1 DEF Queue
    <3> QED
      BY <1>5, <3>2 DEF Clip, Smaller, Larger
  <2> QED
    BY <2>1, <2>2, <2>3, <2>4 DEF Get
<1>9. /\ after > before => r > 0 /\ r > ceil'[f]
      /\ r = 0 \/ r < ceil'[f] => after = 0 \/ after < before
  BY <1>5, <1>6, <1>7, QueueMoves
<1>10. WithinCeiling(f)' => r = 0 \/ r < ceil'[f]
  BY <1>3 DEF WithinCeiling, Get
<1> QED
  BY <1>3, <1>5, <1>8, <1>9, <1>10

\* Queues are compared with grants, marks with ceilings, and both agree in every step: no
\* flow-set is marked further that does not exceed its ceiling, and one within its
\* ceiling gets nearer to having no mark with each iteration, for any rates, policies and
\* speeds and whatever is reloaded in between.
THEOREM MarksAlwaysFollowCeilings == Spec => MarksFollowCeilings
<1> DEFINE Moves == torn' = torn =>
                      \A f \in FlowSets :
                        LET before == Get(vq, f, 0)
                            after == Get(vq', f, 0)
                        IN /\ after > before => rate'[f] > ceil'[f]
                           /\ WithinCeiling(f)' => after = 0 \/ after < before
<1>1. ASSUME TypeOK, Next PROVE Moves
  <2>1. CASE Ticks
    <3>1. ASSUME NEW f \in FlowSets
          PROVE  LET before == Get(vq, f, 0)
                     after == Get(vq', f, 0)
                 IN /\ after > before => rate'[f] > ceil'[f]
                    /\ WithinCeiling(f)' => after = 0 \/ after < before
      BY <1>1, <2>1, TickMovesMarks
    <3> QED
      BY <3>1
  <2>2. CASE Restart
    <3>1. \A f : Get(vq', f, 0) = 0
      BY <2>2, EmptyTypes DEF Restart, Get
    <3>2. \A f : Get(vq, f, 0) \in Nat
      BY <1>1, RxAssumption DEF TypeOK, Get
    <3> QED
      BY <3>1, <3>2
  <2>3. CASE FinishEdit \/ \E pol \in Policies : BeginEdit(pol)
    BY <2>3 DEF FinishEdit, BeginEdit
  <2> QED
    BY <1>1, <2>1, <2>2, <2>3 DEF Next
<1>2. TypeOK /\ [Next]_vars => [Moves]_vars
  BY <1>1
<1> HIDE DEF Moves
<1>3. Spec => [][Moves]_vars
  BY <1>2, TypesInit, TypesStep, PTL DEF Spec
<1> QED
  BY <1>3 DEF Moves, MarksFollowCeilings

------------------------------------------------------------------------------
(* Telemetry implements Permit *)

LEMMA TickIsReport ==
  ASSUME TypeOK, Ticks
  PROVE  Permits!Next
<1>1. PICK table \in SUBSET FlowSets, d \in Steps : \E rates \in [table -> Rates] : Tick(rates, d)
  BY DEF Ticks
<1>2. PICK rates \in [table -> Rates] : Tick(rates, d)
  BY <1>1
<1>3. /\ seen' = SeenAfter(rates, d) /\ DOMAIN rates = table
      /\ DOMAIN report' = DOMAIN seen'
  BY <1>2 DEF Tick, Allocate
<1>4. Grace \in Nat /\ d \in Nat \ {0}
  BY RxAssumption
<1>5. \A f \in DOMAIN seen : seen[f] \in 0 .. Grace
  BY DEF TypeOK
<1>6. DOMAIN seen' = table \cup {g \in DOMAIN seen : seen[g] + d <= Grace}
  BY <1>3 DEF SeenAfter
<1>7. ASSUME NEW f \in FlowSets
      PROVE  /\ Get(seen', f, Grace + 1) =
                   IF f \in table THEN 0 ELSE Permits!Saturated(Get(seen, f, Grace + 1) + d)
             /\ f \in DOMAIN seen' <=> Get(seen', f, Grace + 1) <= Grace
  <2>1. CASE f \in table
    BY <1>3, <1>4, <1>6, <2>1 DEF SeenAfter, Get
  <2>2. CASE f \notin table /\ f \in DOMAIN seen /\ seen[f] + d <= Grace
    BY <1>3, <1>4, <1>5, <1>6, <2>2 DEF SeenAfter, Get, Permits!Saturated
  <2>3. CASE f \notin table /\ f \in DOMAIN seen /\ ~(seen[f] + d <= Grace)
    BY <1>4, <1>5, <1>6, <2>3 DEF Get, Permits!Saturated
  <2>4. CASE f \notin table /\ f \notin DOMAIN seen
    BY <1>4, <1>6, <2>4 DEF Get, Permits!Saturated
  <2> QED
    BY <2>1, <2>2, <2>3, <2>4
<1>8. DOMAIN seen' \subseteq FlowSets
  BY <1>6 DEF TypeOK
<1>9. Permits!Report(table, d)
  BY <1>3, <1>7, <1>8 DEF Permits!Report, Get
<1> QED
  BY <1>9 DEF Permits!Next

LEMMA PermitStep == TypeOK /\ [Next]_vars => [Permits!Next]_Permits!permitVars
<1> SUFFICES ASSUME TypeOK, [Next]_vars
             PROVE  Permits!Next \/ UNCHANGED Permits!permitVars
  OBVIOUS
<1>1. CASE Ticks
  BY <1>1, TickIsReport
<1>2. CASE Restart
  <2>1. DOMAIN report' = {} /\ \A f \in FlowSets : Get(seen', f, Grace + 1) = Grace + 1
    BY <1>2, EmptyTypes DEF Restart, Get
  <2> QED
    BY <2>1 DEF Permits!Next, Permits!Restart, Get
<1>3. CASE FinishEdit \/ \E pol \in Policies : BeginEdit(pol)
  BY <1>3 DEF FinishEdit, BeginEdit, Permits!permitVars
<1>4. CASE UNCHANGED vars
  BY <1>4 DEF vars, agentVars, Permits!permitVars
<1> QED
  BY <1>1, <1>2, <1>3, <1>4 DEF Next

\* Who is in the telemetry depends on the flow table and the grace alone: a flow-set
\* that sends nothing for a moment, or that is marked to nothing, keeps its permit,
\* for any rates, policies and link speeds.
THEOREM TelemetryIsPermit == Spec => ImplementsPermit
<1>1. Init => Permits!Init
  BY EmptyTypes DEF Init, Permits!Init, Get
<1> QED
  BY <1>1, TypesInit, TypesStep, PermitStep, PTL DEF Spec, ImplementsPermit, Permits!Spec

==============================================================================
