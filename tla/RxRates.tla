------------------------------- MODULE RxRates -------------------------------
(***************************************************************************)
(* How the receiver measures the rates that RxAgent allocates              *)
(* (FlowSetMeter, SenderLiveness and HybridRates of tools/dpu/rx_agent.py).*)
(* What arrives at a destination VM is counted exactly, who sent it is     *)
(* not: the total is split among the flow-sets of the flow table, first by *)
(* class (vport meter, else the host's kernel counter, else not at all),   *)
(* then by the byte ratio of a window of flow-table dumps, or by the last  *)
(* grants while the ratio cannot be trusted. Senders report what they send *)
(* ("liveness"), which only excludes those that report nothing.            *)
(*                                                                         *)
(* One destination VM, for the others are handled alike. The amount a      *)
(* flow-set sends in a tick is 0 or 1. A dump begins every SlowEvery-th    *)
(* iteration, and windows are counted in dumps: one that fails leaves all  *)
(* as it was. Counters are sampled tick to tick.                           *)
(***************************************************************************)
EXTENDS Integers, Sequences, FiniteSets, FiniteSetsExt, Functions

CONSTANTS
  FlowSets,
  Rdma,       \* those of class rdma; the others are of the kernel's classes
  Window,     \* mix_window_s in dumps
  Lag,        \* dumps for which the hardware may withhold bytes it counted
  SlowEvery,  \* ticks per dump
  LiveTicks,  \* SenderLiveness.STALE_S in ticks
  Steady      \* a bound: flow-sets that always send, their bytes never withheld

ASSUME RatesAssumption ==
  /\ Rdma \subseteq FlowSets /\ Steady \subseteq FlowSets /\ IsFiniteSet(FlowSets)
  /\ \A n \in {Window, SlowEvery} : n \in Nat \ {0}
  /\ Lag \in Nat /\ LiveTicks \in Nat

VARIABLES
  sending,  \* flow-sets that send
  owed,     \* per flow-set: dumps that withheld its bytes, plus one; 0 if there are none
  table,    \* flow-sets with a megaflow in the last dump
  hist,     \* hybrid.hist: flow-sets with bytes, per dump of the window
  age,      \* hybrid.first_seen: dumps since a flow-set entered the mix
  idle,     \* SenderLiveness.rate: flow-sets last reported below IDLE_BPS
  toldAge,  \* ticks since SenderLiveness.t
  grants,   \* hybrid.prev_ents: is what a flow-set was granted more than zero?
  phase,    \* place in the slow cycle: 0 is the dump
  calm      \* history: dumps since senders or flow table changed, at most Settled

rateVars == <<sending, owed, table, hist, age, idle, toldAge, grants, phase, calm>>

\* Dumps after which nothing is left of a change: what was withheld has been shown
\* and has left the window.
Settled == Window + Lag + 1

Group(pool) == CASE pool = "rdma" -> Rdma
                 [] pool = "kern" -> FlowSets \ Rdma
                 [] pool = "all" -> FlowSets

------------------------------------------------------------------------------
(* The slow path: FlowSetMeter.tick and HybridRates.update_mix *)

Win(f) == Cardinality({i \in DOMAIN hist : f \in hist[i]})

\* by_dst: whoever has a megaflow, or bytes in the window.
Members == DOMAIN age

\* Mutant: whoever has no bytes is unmeasured, however long it has been there.
UnmeasuredForEver == {f \in Members : Win(f) = 0}

Unmeasured == {f \in Members : Win(f) = 0 /\ age[f] < Window}
YoungActive == {f \in Members : Win(f) > 0 /\ age[f] < Window}

Owing == {f \in FlowSets : owed[f] > 0}

\* Mutant: whoever leaves the mix is not forgotten.
AgesKept(members) ==
  [f \in members \cup DOMAIN age |->
     IF f \notin DOMAIN age THEN 0 ELSE IF age[f] < Window THEN age[f] + 1 ELSE Window]

AgesAfter(members) ==
  [f \in members |-> IF f \notin DOMAIN age THEN 0
                     ELSE IF age[f] < Window THEN age[f] + 1 ELSE Window]

\* The dump has the megaflows of the flow-sets in present. The bytes of those in
\* shown are in it, the hardware withholds the others'. The first dump, or one
\* after an empty table, only takes a snapshot.
Dump(present, shown, snapshot) ==
  /\ phase = 0
  /\ Owing \cap sending \subseteq present
  /\ {f \in present : owed[f] > Lag} \cup (present \cap Owing \cap Steady) \subseteq shown
  /\ snapshot => table = {}
  /\ table' = present
  /\ hist' = LET longer == Append(hist, IF snapshot THEN {} ELSE shown)
             IN IF Len(longer) > Window THEN Tail(longer) ELSE longer
  /\ age' = AgesAfter(present \cup UNION {hist'[i] : i \in DOMAIN hist'})
  /\ owed' = [f \in FlowSets |-> IF f \in shown \/ f \notin present THEN 0
                                 ELSE IF owed[f] > 0 THEN owed[f] + 1 ELSE 0]
  /\ phase' = 1
  /\ calm' = IF present # table THEN 0 ELSE IF calm < Settled THEN calm + 1 ELSE calm
  /\ UNCHANGED <<sending, idle, toldAge, grants>>

Dumps == \E present \in SUBSET (table \cup Owing), snapshot \in BOOLEAN :
           \E shown \in SUBSET (present \cap Owing) : Dump(present, shown, snapshot)

------------------------------------------------------------------------------
(* The fast path: HybridRates.rates *)

\* SenderLiveness.idle
Idle(f) == toldAge <= LiveTicks /\ f \in idle

\* The members of a pool that are not gated: gating all of them gates none.
Alive(fs) == LET act == {f \in fs : ~Idle(f)} IN IF act = {} THEN fs ELSE act

Trusted(fs) == fs \cap (YoungActive \cup Unmeasured) = {}

\* The grants of the last tick as weights: whoever has none yet gets the average
\* of those who have, all get the same if nobody has any.
PriorWeights(fs) ==
  LET granted == {f \in fs \cap DOMAIN grants : grants[f]}
      new == fs \ DOMAIN grants
      known == Cardinality(fs \cap DOMAIN grants)
  IN IF known = 0 \/ granted = {} THEN [f \in fs |-> 1]
     ELSE [f \in fs |-> IF f \in new THEN Cardinality(granted)
                        ELSE IF f \in granted THEN known ELSE 0]

\* The byte ratio as weights: mix_shares, before it is normalised.
RatioWeights(fs) ==
  [f \in fs |-> IF \E g \in Members : Win(g) > 0 THEN Win(f) ELSE 1]

\* Mutant: the gate is applied to the sum of the weights alone.
SplitTwice(fs, size, gate) ==
  LET act == IF gate THEN Alive(fs) ELSE fs
      w == IF Trusted(act) THEN RatioWeights(fs) ELSE PriorWeights(fs)
      sum == SumFunctionOnSet(w, act)
  IN [size |-> size, gated |-> fs \ act,
      weight |-> [f \in fs |-> IF sum > 0 THEN w[f] ELSE 1],
      of |-> IF sum > 0 THEN sum ELSE Cardinality(act)]

\* _split: a pool of that size among fs; a member's rate is weight / of of it. The
\* byte ratio is taken before the gate, its sum over all of fs, gated or not.
Split(fs, size, gate) ==
  LET act == IF gate THEN Alive(fs) ELSE fs
      w == IF Trusted(act) THEN RatioWeights(fs) ELSE PriorWeights(act)
      sum == SumFunction(w)
  IN [size |-> size, gated |-> fs \ act,
      weight |-> [f \in act |-> IF sum > 0 THEN w[f] ELSE 1],
      of |-> IF sum > 0 THEN sum ELSE Cardinality(act)]

Bytes(pool) == Cardinality(sending \cap Group(pool))
Total == Bytes("all")
ByClass(rdma, kern) == [p \in {"rdma", "kern"} |-> IF p = "rdma" THEN rdma ELSE kern]
HostPools(kern) ==
  LET k == Min({kern, Total}) IN ByClass(Total - k, k)

\* The pools of a tick. The vport meter, when fresh, has both classes; the host's
\* counter, when fresh, has the kernel's (kern), not always of the same instant.
PoolSizes(meter, kern) ==
  IF meter THEN ByClass(Bytes("rdma"), Bytes("kern"))
  ELSE IF kern \in Nat THEN HostPools(kern) ELSE [p \in {"all"} |-> Total]

\* rates: every pool with bytes and members, split. The mix alone has no gate.
Rates(meter, kern) ==
  LET size == PoolSizes(meter, kern)
      pools == {p \in DOMAIN size : size[p] > 0 /\ Group(p) \cap Members # {}}
  IN [p \in pools |-> Split(Group(p) \cap Members, size[p], p # "all")]

Credited(s) == {f \in DOMAIN s.weight : s.weight[f] > 0}

NoReport == -1

\* One iteration after its slow work, and what the scheduler makes of its rates: who
\* is measured at more than zero is granted more than zero (RxAgent), who has left
\* the table keeps a grant of zero for a grace.
Tick(meter, kern, kept) ==
  LET rates == Rates(meter, kern)
  IN /\ phase > 0
     /\ grants' = [f \in Members \cup kept |-> \E p \in DOMAIN rates : f \in Credited(rates[p])]
     /\ owed' = [f \in FlowSets |-> IF f \in sending /\ owed[f] = 0 THEN 1 ELSE owed[f]]
     /\ toldAge' = IF toldAge <= LiveTicks THEN toldAge + 1 ELSE toldAge
     /\ phase' = (phase + 1) % (SlowEvery + 1)
     /\ UNCHANGED <<sending, table, hist, age, idle, calm>>

Reports == {NoReport} \cup 0 .. Cardinality(FlowSets \ Rdma)
Ticks == \E meter \in BOOLEAN, kern \in Reports, kept \in SUBSET (DOMAIN grants \ Members) :
           Tick(meter, kern, kept)

------------------------------------------------------------------------------
(* Senders *)

\* What happens between an iteration's dump and its rates might as well happen
\* before the dump: to bound the model, it happens there only.

Start(f) ==
  /\ phase > 0 /\ f \notin sending
  /\ sending' = sending \cup {f}
  /\ calm' = 0
  /\ UNCHANGED <<owed, table, hist, age, idle, toldAge, grants, phase>>

Stop(f) ==
  /\ phase > 0 /\ f \in sending \ Steady
  /\ sending' = sending \ {f}
  /\ calm' = 0
  /\ UNCHANGED <<owed, table, hist, age, idle, toldAge, grants, phase>>

\* SenderLiveness.poll takes a datagram of f's sender; there is one time for all.
Hear(f) ==
  /\ phase > 0
  /\ idle' = IF f \in sending THEN idle \ {f} ELSE idle \cup {f}
  /\ toldAge' = 0
  /\ UNCHANGED <<sending, owed, table, hist, age, grants, phase, calm>>

\* A sender whose vport helper has died says what it said before.
HearAgain ==
  /\ phase > 0
  /\ toldAge' = 0
  /\ UNCHANGED <<sending, owed, table, hist, age, idle, grants, phase, calm>>

Init ==
  /\ sending = Steady /\ owed = [f \in FlowSets |-> 0]
  /\ table = {} /\ hist = <<>> /\ age = [f \in {} |-> 0]
  /\ idle = {} /\ toldAge = LiveTicks + 1
  /\ grants = [f \in {} |-> FALSE]
  /\ phase = 0 /\ calm = 0

Next ==
  \/ Dumps
  \/ Ticks
  \/ \E f \in FlowSets : Start(f) \/ Stop(f) \/ Hear(f)
  \/ HearAgain

Spec == Init /\ [][Next]_rateVars

\* The loop never stops: the next stage of the slow cycle always comes.
Stage == phase' = (phase + 1) % (SlowEvery + 1)
FairSpec == Spec /\ WF_phase(Stage)

------------------------------------------------------------------------------
(* Properties *)

\* Every variable has its type; only who has bytes or a megaflow is in the mix.
TypeOK ==
  /\ sending \subseteq FlowSets /\ owed \in [FlowSets -> 0 .. Lag + 1]
  /\ Members = table \cup UNION {hist[i] : i \in DOMAIN hist}
  /\ hist \in Seq(SUBSET FlowSets) /\ Len(hist) <= Window
  /\ Members \subseteq FlowSets /\ age \in [Members -> 0 .. Window]
  /\ idle \subseteq FlowSets /\ toldAge \in 0 .. LiveTicks + 1
  /\ DOMAIN grants \subseteq FlowSets /\ grants \in [DOMAIN grants -> BOOLEAN]
  /\ phase \in 0 .. SlowEvery /\ calm \in 0 .. Settled

\* "Divide one exactly-measured pool among its flow-sets": whatever is unmeasured,
\* new, returned or only granted, the parts never make more than the pool, and all of
\* it unless a member is gated.
NothingInvented ==
  phase > 0 => \A meter \in BOOLEAN, kern \in Reports :
    LET rates == Rates(meter, kern)
    IN \A p \in DOMAIN rates :
         LET parts == SumFunction(rates[p].weight)
         IN parts <= rates[p].of /\ (rates[p].gated = {} => parts = rates[p].of)

\* "The SUM of the estimates is the exact vport total no matter how badly the split
\* is wrong, because the split is a partition of it."
SumIsExact ==
  phase > 0 => \A meter \in BOOLEAN, kern \in Reports :
    LET rates == Rates(meter, kern)
    IN \A p \in DOMAIN rates : SumFunction(rates[p].weight) = rates[p].of

\* Every pool with a sender is credited to its senders, all of them and nobody else,
\* whichever meters are fresh.
Attributed ==
  \A meter \in BOOLEAN, kern \in Reports :
    LET rates == Rates(meter, kern)
    IN \A p \in DOMAIN rates :
         sending \cap Group(p) # {} => Credited(rates[p]) = sending \cap Group(p)

FeedIsTrue == sending \cap {f \in FlowSets : Idle(f)} = {}

\* Misattribution is over in time: once the senders and the flow table have been the
\* same for Settled dumps, every pool is split among exactly those who send, unless a
\* report calls one of them idle, however they came, left and came back before.
TruthInTime == calm = Settled /\ phase > 0 /\ FeedIsTrue => Attributed

Calm == <>[][sending' = sending /\ table' = table]_<<sending, table>>

\* Misattribution ends: when senders and flow table no longer change and no sender is
\* said to be idle, in the end every pool is split among exactly those who send.
TruthPrevails == Calm /\ <>[]FeedIsTrue => <>[](phase > 0 => Attributed)

=============================================================================
