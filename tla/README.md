# HPFT: models, model checking and proofs

HPFT shares the links of a cluster between pairs of virtual NICs. A *receiver
agent* on each DPU measures what arrives, decides what each flow-set (source vNIC,
destination vNIC, class) may have, and tells the senders by UDP. A *sender agent*
on each DPU follows those targets under its own policy and drives two
*executors*: a tc-BPF classifier on the host for TCP and a program on the NIC's
congestion-control processors for RDMA. This directory holds TLA+ models of both
agents, of what they measure with and of the executors, TLC runs of them, and TLAPS
proofs about them.

| file | what it is |
| --- | --- |
| `EdtPacer.tla`, `EdtPacerProofs.tla` | the TCP executor and the shim that writes its rate |
| `TxAgent.tla` | the main loop of the sender agent |
| `TxPath.tla` | TxAgent with the way its paces take to the executors |
| `TxPolicy.tla` | TxAgent with policy reload and the NIC's own cap |
| `TxProofs.tla` | proofs about these three |
| `RpPcc.tla`, `RpPccProofs.tla` | the RDMA executor |
| `VportMeter.tla`, `VportMeterProofs.tla` | the vport counters in shared memory, their writer and a reader |
| `SampledRegister.tla` | abstract: what a reader of those counters is promised |
| `RxRates.tla`, `RxRatesProofs.tla` | how the receiver attributes what it measured to flow-sets |
| `Waterfill.tla`, `WaterfillProofs.tla` | the receiver's water-filling, as operators |
| `RxAgent.tla`, `RxAgentProofs.tla` | the main loop of the receiver agent, which uses Waterfill |
| `Permit.tla` | abstract: what the receiver promises its senders about telemetry |
| `SumTheorems.tla` | sums over finite sets, and induction, for the proofs |
| `MC*.tla`, `MC*.cfg` | instances for TLC |
| `PROJECT.json` | components, runs, mutants, the source lines of each definition, hazards, theorems |

To check a run: `tlc -config MCTxPath.cfg MCTxPath`; to check proofs:
`tlapm EdtPacerProofs.tla`.

## The system

All paths are below `src/`.

| component | state | operations | talks to |
| --- | --- | --- | --- |
| EDT classifier, `tcp/bpf-opt3/hpft_tcp_edt_kern.c` | per pair: rate and generation, `next_ns`; per flow: `last_send_ns` | one program run per packet, on any CPU | reads what the shim writes |
| Pace shim, `tools/host/hpft_pace_shim.py` | `_GEN_CACHE`, the map's descriptor | one datagram, one map write | sender agent (UDP), BPF maps |
| Sender agent, `tools/dpu/tx_agent_e.py` | per flow-set R, pace, ages and mode; trees and limited trees; latest RDMA budgets | telemetry, local ticker, policy reload, flush | receiver agents (UDP), shim, RP FIFO, NIC |
| Hardware cap, `tools/dpu/hw_maxrate.py` | none of its own; rate leaves in the NIC | discover, sync, clear | devlink |
| RP device program, `tools/dpu/pcc/rp_rtt_template_dev_main.c` | pair table, QP map, per-thread event state | mailbox message, event handler | RP host program |
| RP host program, `tools/dpu/pcc/pcc_host.c`, `rp_service.sh` | the FIFO | one line, one mailbox call | sender agent |
| Receiver agent, `tools/dpu/rx_agent.py` | rates per class, virtual queues, entitlements, liveness of senders | measure, allocate, mark, send telemetry, reload | OVS, vport meter, host exporters, sender agents |
| Vport meter, `tools/dpu/vport_meter.c` | a shared file of seqlocked records | sample all, write | receiver agent reads |
| fastfill, `tools/dpu/fastfill.c` | none | water-filling | both agents call it |
| TCP shaper library and tools, `tools/tcp_shaper` | pinned maps | apply a plan, update a rate | the EDT classifier's maps |
| Host helpers, `tools/host` | none | re-apply, export rates, resolve QPs | |
| Older controllers, `tools/hpft-*-controller` | none | one-shot configuration | the executors, by ssh |

What is hard about it:

- **Interleaving.** The classifier runs on many CPUs, and only its debt update is
  under a lock; the RP's handler runs on many threads with no lock at all; the
  vport meter is read while it is written.
- **Delivery.** Telemetry and paces travel in datagrams that nobody acknowledges
  to the law; the RP is fed through a FIFO that may have no reader.
- **Failure.** Telemetry stops for one flow-set or for all; executors restart
  without their rates; the NIC refuses or forgets a cap; a file is read half
  written.
- **Time.** Freeze, fail-open, eviction, heartbeat, flush, limiter and reload have
  a period each and act on the same state.

What makes each component correct: the TCP executor enforces its pace whatever the
CPUs do and forgives no debt it should not; the RDMA executor shares a pair's budget
without exceeding it and without losing any of it; the sender agent starts flow-sets
no faster than it was told, falls back to its own policy without forgetting anybody,
and its paces reach executors that restart; the two layers of the policy stay
together. For the receiver: a sample of the vport counters is one the helper wrote as
a whole; what was measured is divided without inventing anything and, in the end,
among those who send; grants leave nothing and ceilings below a full node fit
together; marks die out when the excess does; and a flow-set in the flow table has a
record in every report. `PROJECT.json` lists the hazards one by one, at their lines.

## The modules

### EdtPacer: one TCP pair

A packet is four steps of its CPU, as only the last is under the pair's lock:
`Lookup` (the pair's configuration is a snapshot), `ReadClock`, `Exchange` (the flow's
gap, and its `last_send_ns` replaced), `Pace` (adoption of a new generation, the debt,
the drop, the sparse bypass, the departure). Nothing keeps two CPUs from handling
packets of one flow at once, such as forwarded ones: `last_send_ns` may then go back
and the gap, an unsigned difference, wraps (`WrappedGap`), so that a flow in full
flight counts as idle. `ShimPush` writes a rate between any two steps, and mints a
generation when the rate moved by more than a quarter. The first push of a restarted
shim (`RestartedPush`) mints one for whatever rate, as its cache is empty. The kernel
may drop a flow's entry (`EvictFlow`). History variables keep a meter of what left on
the wire.

- `DebtBounded`: the next stamp is at most the cap and one packet ahead.
- `NoAmnesty`: no step takes the debt below the cap (less a CPU's skew).
- `PaceEnforced`: over *every* window between two departures, what the pair was
  charged exceeds the window's length by at most two bursts, the skew and a
  socket's own stamp.
- `SmallStepsNeverForgive`: small changes of the rate never forgive debt, as long as
  the shim that pushes them does not restart.

Bounds (run `edt_pacer`): two CPUs, one flow that both may handle, a small packet and a
super-packet stamped ahead by its socket, two rates (a step of exactly a quarter one
way, a larger one the other way), a clock of five values, unsigned times below 64, two
pushes. One flow is enough, as its entry may be dropped at any time and any packet may
then find it idle. Two pushes make one generation stale in a CPU that read it; the
clock is short, but the cap is reached by packets, which need no time. The clock ends,
so deadlock is not checked. Proved without these bounds.

### TxAgent: the law and its fallbacks

One action per iteration of the main loop, `d` ticks after the one before:
`Telemetry(d)` (a datagram) or `Silence(d)` (the receive timed out). In an
iteration, as in the code, trees are computed and limited first, then new flow-sets
start, then reported ones step (`Follow`), then, on a tick, the others are frozen,
fail open or are evicted (`Degrade`). Rates are levels of a logarithmic grid, on
which the law's step is a fraction of the gap and a halving a number of levels. Below
the floor there are two more: a positive rate that is less than the floor, and zero.
Every timestamp is the age it is compared with. Telemetry is *any* set of records, so
loss, duplication and reordering are included: the agent never compares sequence
numbers. `trees()` is *any* level for each flow-set, so what holds here holds for
any water-filling.

- `LimiterOnlyLags`: the limiter holds a tree above what it would be, never below,
  and a pace that was just set is no lower than law and tree make it.
- `FailOpenCapped`: a flow-set in fail-open stays within its tree although
  telemetry of others moves that tree.
- `FirstBudgetWithinGrant`: the first budget is within the record that created the
  flow-set, or at the pace floor when that record grants less. A grant of zero is
  excepted: the code takes it for no grant.
- `OutageKeepsFlows`: when everybody is silent nobody is evicted, and everybody
  comes to fail open.
- `OutageApproachesTree`: in such an outage a rate is frozen up to N2, and after it
  every tick takes it nearer to the tree it is capped by, never past it. On the grid
  the law's step is rounded up, so that it arrives; in the code the approach is
  asymptotic.

Bounds (run `tx_agent`): two flow-sets (one silent while the other is heard), four
levels, ages 3, 4 and 6, so that each is passed and more than one flow-set's age is
between two of them; grants of zero, below the floor and above it. Symmetric in the
flow-sets.

### TxPath: paces reach executors

`LoopPath` is an iteration of TxAgent together with what it sends: TCP paces as
datagrams (a set, as order is not kept) and the RDMA budgets, coalesced and flushed
at the mailbox rate. A budget is kept per flow-set; the code keeps it per flowtag, and
of two flow-sets with the same tag the one written last would count for both
(`config/lab-registry.json:88` names such pairs, which are never to be scheduled
together). `Deliver` and `Lose` are the network and the shim;
`ReapplyEdt`, `RestartShim`, `StopRp` and `StartRp` the restarts.

- `UnsetIsRepaced`, `BudgetsSurviveRestart`: an executor that lost a rate is given
  one, as long as the flow-set is known, or, for RDMA, even after.
- `OutageEndsAtTree`: telemetry that stays dead ends with every known flow-set
  *enforced*, in its executor, at exactly its tree. It needs a flowtag for each RDMA
  flow-set.

Fairness: the loop never stops and time passes in it (it is one `while True` with
a receive timeout of one period); a datagram does not stay in flight for ever, and
one that is sent again and again arrives (without this nothing can be said of a UDP
path); `rp_service.sh start` follows its `stop`; and, in `OperatedSpec` only, the
operator restarts the shim after a full re-apply, as `edt_ensure.sh` asks: without that
the heartbeat's datagrams end in a map nobody reads.

Bounds (run `tx_path`): a TCP and an RDMA flow-set, two levels, ages 1, 2, 3, one
restart. The properties distinguish a rate from none and a tree from another, so two
levels suffice; one restart at any moment, because each property is about what
follows the last one.

### TxPolicy: two layers, one registry

`LoopPolicy` is an iteration of TxAgent with `maybe_reload` after the telemetry path;
`BeginEdit`/`FinishEdit` an operator who edits the file in place; `DropLeaf` a NIC
that forgets a cap. `SyncedHw` leaves a VM without MaxRate alone, as the code does.
`PolicyInit` is the agent after its start: it has read the registry, synchronised the
NIC, where some commands may have failed, and then taken the file's mtime. An edit made
meanwhile is in the file and not in the agent, and counts as noticed.

- `ApartOnlyByFault`: NIC and loaded policy differ only after a fault of the NIC.
- `PolicyTakesEffect`, `HardwareTakesEffect`: a MaxRate that is left alone reaches
  the limited trees (while telemetry comes) and the NIC. Both are about a start that
  missed no edit, or about an edit made after it (`NoEditMissed`): one that fell
  between the start's reading of the file and of its mtime waits for the next.

Fairness: the loop, time, and an edit that is finished. Bounds (run `tx_policy`): one
VM with one flow-set, three levels, caps at both ends and none; at the start any policy
loaded, any in the file, whole or torn, and any cap in the NIC.

### RpPcc: the RDMA executor

Threads run the event handler with no lock: an event is up to four steps, split
where the code reads shared memory and writes it later. `Event` finds the pair and
reads `qp_seen`; `CountQp` writes it back and claims the epoch if it is over; `Roll`
closes the epoch and reads the budget; `Assign` sets the level. A thread that does
not win the claim answers in the same step. `Mailbox` installs, changes and deletes
pairs in between. `epoch_ts` is kept as an age, `epoch_id` as the number of epochs
since a QP was seen; a thread's `now` may be a tick older than the epoch, and the
difference is then taken unsigned. `Roll` is one step for the stores that close the
epoch (833-837) and the read of the budget (874): a thread that acts between these is
not in the model. The congestion term is left out: the rate answered is
`min(cc_rate, level)`, and the model has the level.

- `SharesBudget`, `FillsBudget`: five epochs after the last change, and after the last
  race of two threads, the QPs that send have `budget / N` each, N the number of them,
  no more in sum than the budget, and a QP with an event now and then takes no share.

The races are two threads that count a QP at once, where an increment is lost, and two
that close one epoch, where the second takes its N from a count that has only begun. The
history variable `epochs` starts anew with each. That the code takes the second for
harmless, and that it is not, is the run `double_epoch`.

No fairness is needed for these two. The run `unpaired_fails_open` is about what a QP
is answered in the end, and its `FairSpec` says that an event in hand is answered (the
handler waits for nothing), that a QP which sends has its events handled although
threads are shared, and that time goes on. One thread and a QP of each of two pairs
that take turns in one entry suffice for it.

Bounds (run `rp_pcc`): two threads, two QPs that send and stop, one sparse QP, a budget
and its deletion, one table entry that is deleted and taken again; symmetric in the
threads and in the QPs that send. An epoch is three ticks and an event takes less than
two: an event may begin in one epoch and be answered in the next. With an epoch of two
ticks an event could last as long as one, and TLC finds
`SharesBudget` violated; the code's epoch is a millisecond and its handler some
microseconds. That a budget may change to another as well as go is left to the theorem,
which has any budgets.

### VportMeter and SampledRegister: counters in shared memory

The helper stores word by word: `Start` maps the file, which may be the one of its
predecessor, `Zero` clears its words in no known order (`memset`), `Header` writes the
magic and then the vports; `BeginWrite`, `Write` and `EndWrite` are the sequence lock
around a query's results. `Crash` ends it anywhere, with the lock held or the file
half cleared. The reader is `Open`, `Close`, `Sample`, then per attempt `ReadSeq`, a
`ReadCell` per word and `Check`, which takes the sample or fails the attempt. One
module stands for both readers: the receiver tries three times, the sender's
SenderLiveness once (`Tries`). A record too old (STALE_S) and a second without a
fresh one may occur whenever they are asked about.

`SampledRegister` is the abstract register: a reset may spoil the sample that is
being taken; any other sample is the whole record published at that moment. In the
refinement `value` is the record's time, or 0 while it is written or cleared.

- `ImplementsRegister`: the sequence lock implements that register.
- `TimesGrow`: the times of the samples grow, over crashes and over samples that a
  clearing has spoilt. Rates divide by their differences.

Bounds (run `vport_meter`): two counters and the time, two queries, two attempts,
two samples kept; symmetric in the counters. The second query overtakes a reader in
an attempt and leaves it with words of both; the second attempt follows one that
failed. No fairness: nothing here is promised to happen. Memory is sequentially
consistent in the model: the writer's fences ask for that, the reader takes it from
the hardware.

### RxRates: who sent what

One destination VM. A dump of the flow table (`Dump`) shows the megaflows of some
flow-sets and the bytes of some of those, as the NIC's counters lag; `Tick` computes
the rates of an iteration, with or without the vport meter and with any host counter
(which need not be of the same instant), and keeps which grants were positive.
Applications `Start` and `Stop`; a sender's report is heard (`Hear`), or repeated
unchanged by a sender whose helper died (`HearAgain`). A rate is a weight in a sum of
weights of a pool, so that nothing is rounded.

- `NothingInvented`: for any combination of sources, the parts of a pool are never
  more than the pool, and all of it when no member is gated.
- `TruthPrevails`: when senders and flow table come to rest and the reports are not
  wrong, every pool ends up split among those who send, all of them and nobody else.
  Both premises are needed: the mix is a window, and a report that goes on calling a
  sender idle hides it for ever.
- `TruthInTime`: and it does so within `Window + Lag + 1` dumps. The history variable
  `calm` counts the dumps since a sender started or stopped or the flow table changed,
  up to that bound. No smaller bound will do when a dump has two ticks. The theorem
  needs the counters to lag by less than the window: with a window of one dump and a
  lag of one, TLC finds a steady sender that has no bytes in the window.

Fairness: the loop's next stage always comes. Bounds (run `rx_rates`): two RDMA
flow-sets, which share a pool, and a steady one of the kernel's class, so that the
pools differ and the host's counter can be wrong by one; a window of two dumps, bytes
withheld from at most one, a dump per tick, reports stale after a tick. A flow-set can
be new, unmeasured, young, gated, silent, gone and back in every order.

### Waterfill, RxAgent and Permit: the receiver's loop

`Waterfill` computes grants (`Grants`: a rising level with releases) and ceilings
(`FairCeilings`: the share of a flow-set if it alone wanted everything) in the code's
order, over link, VM, class and flow-set. It computes in integers and rounds down;
levels are on a grid as fine as `LevelUnit`, a multiple of the weights. In the instance
all divisions are exact.

`Tick(rates, d)` of `RxAgent` is one iteration: the slow work when it is due
(`Reload`, `FollowLink`), then membership with its grace, root and node saturation
with hysteresis, demands, the two fillings, the queues, the targets and the report.
The rates are any; `BeginEdit` and `FinishEdit` are the operator, who leaves the
registry torn in between; `Restart` loses everything.

- `GrantsFit`: no grant is above its demand, no VM is granted more than its MaxRate and
  the link no more than its capacity, in every iteration and over reloads.
- `JointCeilings`: below a VM or a root recognised as saturated, the ceilings of those
  who send fit together. The code's comment calls the alternative "individually right
  and jointly impossible".
- `GrantIsCappedCeiling`: the two fillings, written separately, agree: a grant is the
  demand, or the ceiling where that is less.
- `GrantsExhaust`, `NeverBelowShare`: grants spend the capacity, and nobody's share is
  taken by the demand of others.
- `BigIsInfinite`: the finite demand that stands for "everything" moves no ceiling.
- `MarksFollowCeilings`: a queue fills over its *grant* and a mark is about the
  *ceiling*, but they agree: in one iteration only the queue of a flow-set above its
  ceiling grows, and that of one within it shrinks until it is empty, whatever is
  reloaded meanwhile.
- `MarksDieOut`: a sender that stays below its ceiling, or is silent, loses its mark.
- `ImplementsPermit`: `Permit` says which flow-sets have a record, from the flow table
  and the grace alone; the loop implements it.

Fairness: the loop never stops. Bounds (run `rx_agent`): two flow-sets of the RDMA
class on one VM, a third of another class on a second VM; rates 0, 8 and 32; links of
80 and 40; a MaxRate of 36, which one sender can nearly fill and two exceed, or none;
weights 2 to 1; a grace of one tick, slow work every other tick. The sums of the rates
lie below, between and above the thresholds of 85 and 95 percent.

## The runs

Passing: `edt_pacer`, `tx_agent`, `tx_path`, `tx_policy`, `rp_pcc`, `vport_meter`,
`rx_rates`, `rx_agent`, as above. Each property has a mutant, a plausible bug in a
definition that models code, under which TLC finds it violated.

Violated, each by a statement of the repository about itself (details and
quotations in `PROJECT.json`, `findings`):

- `raise_takes_effect`: both layers are said to move together. A MaxRate that is
  removed stays in the NIC. The helper and its test take it as intended that a VM
  without MaxRate is left alone; what happens to one that had a MaxRate, they do not
  say.
- `double_epoch`: an epoch closed twice is said to be absorbed by an EWMA. The level
  no longer passes through one.
- `unpaired_fails_open`: a QP without a pair is said to fail open. One that was
  learned, and goes on sending after its pair is deleted, is answered with the level of
  its old entry for ever, whoever has that entry now. The property leaves room for the
  event that was in hand at the delete; it would hold if the QP map were dropped then.
- `sum_is_exact`: the split of a total is said to be a partition of it, and survivors
  to take what an idle member frees at once. Where the byte ratio is used, the idle
  member's part is given to nobody.

## What is proved

For every value of the constants that the named assumptions admit:

- **EdtPacerProofs**: `TypeCorrect`, `DebtIsBounded`, `PaceIsEnforced`,
  `SmallStepsKeepDebt`, `DebtIsNotAmnestied`. The properties are not inductive: a CPU
  holds a clock value and a generation it read before it got the lock. The invariant
  `Inv` adds how old these may be (`InFlight`), that the wire's meter leads the pair's
  debt by a bounded amount (`Meter`), and which generations exist (`Generations`).
- **TxProofs**, the loop: `TypeCorrect`, `TheLimiterOnlyLags`, `FailOpenIsCapped`,
  `FirstBudgetIsWithinGrant`, `OutageEvictsNothing`, `OutageLeadsToTree`. `IInv` adds
  that a flow-set in fail-open has an age past N2. Without it, a flow-set could be in
  fail-open, with a tree that just fell, and not be actuated. The path:
  `PathRefinesLoop` (the composition implements TxAgent, so the theorems of the loop
  hold of it) and `PathTypeCorrect`. The reload: `PolicyRefinesLoop`,
  `LayersApartOnlyByFault` and `PolicyTypeCorrect`, which takes the agent's part of
  the type from the loop, through the refinement.
- **TxProofs**, liveness. The runs assume weak fairness, whose ENABLED the prover does
  not know. Where one step of a kind is all that is needed, the recurrence of that
  step takes its place as the hypothesis; given as a PROPERTY of
  the instances of the runs, TLC finds that their fair specifications imply it. `FlushOutlivesRestarts`: if again and again a push falls due while the RP reads
  its FIFO (`Flushes`), budgets survive restarts, however many; `latest` never loses
  an entry (`BudgetStays`), and a push writes all of them (`FlushReaches`).
  `FlushRepacesRdma` is the rdma half of `UnsetIsRepaced`, with the invariant that
  every known rdma flow-set has a budget (`Budgeted`). `HardwareFollowsTheFile`: if
  again and again the registry is whole, and again and again the reload looks at it
  (`Checks`), a MaxRate that is left alone reaches the NIC. `InStep` says that a
  registry which is whole and whose last change was noticed is the policy that was
  loaded, which a reload that remembers the mtime of a torn file could have missed. It
  is no invariant, as the start may have missed an edit, but once it holds it stays, and
  it holds from the first edit after the start at the latest.
- **RpPccProofs**: `PccTypes`. A level is computed from what a thread read some steps
  ago, and would be no level if there had been no budget. `PccInv` adds that a learned
  QP's entry and the entry a thread works on keep a budget (a delete clears the tag,
  not the budget), and what a thread that assigns has read (`Budgeted`, `Learned`,
  `InHand`).
  `BudgetIsShared` and `BudgetIsFilled`, for any number of threads, entries and QPs. The
  invariant `Rounds` says what each epoch without a change adds: after the first no
  thread has an event in hand from before the change, after the second no thread assigns
  an old budget, in the third every QP that sends is seen, in the fourth all of them are
  counted and sparse ones are not, in the fifth each is answered with its share. Two
  hypotheses: an epoch is at least three ticks, and every QP that is learned is learned
  with the entry its pair has now (`Coherent`). The second fails exactly where the
  repository's claim about unpaired QPs does (run `unpaired_fails_open`);
  `KeptPairsAreCoherent` shows that it holds where pairs are not deleted, as the sender
  agent never does, and where there is one pair and one entry, as in the run.
- **VportMeterProofs**: `MeterTypes`, `SampledTimesGrow`, `MeterIsRegister`. `MeterInv`
  says what the writer keeps (while seq is even and nothing is being cleared, all words
  are of one query), what the reader keeps (unless a clearing has begun, what it has
  read is in the record as long as seq is still s1) and that times are in order from
  the ring through the attempt to the record. Between clearings seq only grows, so
  that the same even value means that nothing was written.
- **RxRatesProofs**: `RateTypes`, the type invariant, which is inductive as it stands
  and says who is in the mix, and from it `NothingIsInvented`: whichever weights a
  split takes, those of who is left are part of the sum it divides by.
  `TruthIsInTime`, for a lag below the window: its invariant `CalmInv` says what so
  many calm dumps have settled: how recently each sender's bytes were shown
  (`SendersShown`), that nobody else still owes any (`OldDebts`) or has any in the
  newest dumps of the window (`CalmDumps`), and how old whoever is in the table must
  be (`CalmAges`), so that nobody is taken to be new.
- **WaterfillProofs**, about operators, for any capacity, demands, caps and positive
  weights. `FillFits` (one layer) is by induction over the items still active: a level
  that saturates the cheapest caps pays for all of them, so what is left is never
  negative. `FillSpends`: unless all caps are given, it leaves at most a unit per item.
  `LevelIsPaid` says what the search on the grid of caps finds: a level the
  capacity pays for, such that no other level it pays for takes more of the item. All
  else about ceilings follows from this. `HungryCeilingsFit`: items that want everything
  are counted with the same consumption, so at the highest of their levels, still paid
  for, are all of them. `CeilingIsGrant` and `CeilingKeepsShare` compare the level with
  the one where `Fill` stops. Three layers are put together in `GrantsAreWithin`,
  `GrantsSpend`, `CeilingsAreWithin`, `GrantIsDemandOrCeiling`, `SharesAreKept` and
  `RootIsInfinite`; nothing is assumed about rounding, which both fillings do alike.
  `GrantsSpendAll` is what is left of `GrantsSpend` where no quotient is rounded: what
  a layer hands on is then again a multiple of the unit (`FillIsWhole`), and a multiple
  that differs from another by less than the unit is equal to it (`WholeGap`).
- **RxAgentProofs**: `RxTypes`, in particular that every queue is within the V of the
  *present* speed; `GrantsAlwaysFit`, `GrantsAreCappedCeilings`, `CeilingsAlwaysFit`,
  `CeilingsKeepShares`, `ContendersAreUnbounded`, `GrantsLeaveOnlyRounding`; and
  `TelemetryIsPermit`. Grants and ceilings stand for an iteration, over edits of the
  registry, so the invariant adds `Allocated`: they are the two fillings of the
  present demands, for the policy and the speed in force; whoever sends below a
  saturated node is taken to want the root, and nobody to want less than it has. The
  theorems of WaterfillProofs do the rest. `MarksAlwaysFollowCeilings` rests on the
  last conjunct: a flow-set above its grant is then above its ceiling
  (`ExcessIsOverCeiling`), in the next state as well as in this one.
  `GrantsAlwaysExhaust` is `GrantsExhaust` for every instance in which no quotient is
  rounded: its hypothesis `Unbroken(n, u)` says that whatever weights can meet at a
  layer have a sum that divides `n`, and that rates, capacities and MaxRates are
  multiples of `n * n * n * u`, with a `u` that exceeds three per flow-set. Any finite
  set of rational rates and weights is of this kind once measured in a unit that is
  small enough, as the code's floating point nearly is.
- **SumTheorems**: what the proofs above use about sums over finite sets, with the
  principles of induction they rest on. These speak of *sets* of numbers or of subsets
  instead of operators, as the provers cannot instantiate an operator, and are
  derived from a well-founded order. WaterfillProofs shows with them that the recursion
  of `Fill` has a solution.

The assumptions are the named ASSUMEs of the modules: signs and orders of the
thresholds, packets whose cost is bounded, the law's step within its gap, finitely
many flow-sets, weights that are positive and divide `LevelUnit` (there is such a unit
for any weights; it is a grain of the model, not of the code). TLC evaluates them in
every run.

Every safety invariant and every action property of the passing runs is stated by a
theorem. Only model-checked are the liveness properties that need a *number* of steps,
as the prover has neither ENABLED nor an induction over temporal formulas:
`OutageEndsAtTree`, the TCP half of `UnsetIsRepaced`, `PolicyTakesEffect` (the limiter
falls level by level), `TruthPrevails` and `MarksDieOut`. What makes three of them
hold is proved nevertheless, for every value of the constants: each step of an outage
brings a rate nearer to its tree (`OutageLeadsToTree`), each iteration within the
ceiling shortens a queue (`MarksAlwaysFollowCeilings`), and after so many calm dumps
the truth prevails (`TruthIsInTime`). Where quotients are rounded,
`GrantsLeaveOnlyRounding` bounds what grants may leave by a unit for each flow-set at
each layer.

## Not modelled

- Sender agent: the sender's own water-filling (its results are any), the 3%
  hysteresis and the dither of the fed rate, partial FIFO writes, a flowtag lookup
  that finds none or one tag for two flow-sets; a registry that parses but lacks a key, which ends the agent.
- RP: the congestion terms, collisions and the end of the probe chain in the QP map,
  0xB48D, 0xB48E and diagnostic messages, a thread between two stores of one closing of
  an epoch; the host program's parsing.
- Receiver: amounts in the attribution (a sender sends or does not), the parsing of
  the dump and of host reports, the `ovs-appctl` channel, the layout of datagrams, which
  slot of the shared file belongs to which vNIC. The rates RxAgent allocates are any,
  so its safety properties hold of whatever RxRates makes of the counters. Whether the
  closed loop of receiver, network and sender converges is a question about real
  numbers and is not modelled.
- The C library of fastfill beside its Python twin: the repository's own test compares
  the two. Relaxed memory order at the vport reader.
- Packet parsing, logging, command lines, static controllers, lab automation, vendored
  code.

## Plan

1. *Done.* Executors and sender agent: EdtPacer, TxAgent, TxPath, TxPolicy, RpPcc.
2. *Done.* Receiver: Waterfill, RxAgent, RxRates, VportMeter, with the abstract
   specifications Permit and SampledRegister; type invariants of all of these and both
   refinements proved.
3. TxAgent composed with Permit over a channel that loses and delays reports: a flow-set
   in the flow table does not fail open while reports arrive.
4. RpPcc: the congestion terms (AIMD and DCQCN) and their lost updates; the table's
   limit composed with the agent's flowtags.
5. *Done.* Proofs: the fillings and what RxAgent allocates with them, its queues, the
   split of a pool and when it is right, the budget of a pair under any number of
   threads, the sender agent in an outage, and what survives of its actuation.
