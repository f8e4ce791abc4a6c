------------------------------ MODULE EdtPacer ------------------------------
(***************************************************************************)
(* The host TCP executor of HPFT for one source/destination vNIC pair: the *)
(* tc egress classifier hpft_tcp_edt (tcp/bpf-opt3), run by several CPUs   *)
(* at once, and the pace shim (tools/host/hpft_pace_shim.py) that writes   *)
(* the pair's rate and generation while packets are in flight.             *)
(*                                                                         *)
(* One packet is four steps of its CPU, because only the last runs under   *)
(* the pair's spin lock:                                                   *)
(*   Lookup     the pair_cfg element is looked up (a BPF hash map replaces *)
(*              its element on an update, so the pointer is a snapshot);   *)
(*   ReadClock  now is read;                                               *)
(*   Exchange   the flow's last_send_ns is read and replaced by now;       *)
(*   Pace       the locked debt update, the drop, and the stamp.           *)
(* Nothing keeps two CPUs from handling packets of one flow at once, for   *)
(* instance forwarded ones after a change of RSS: last_send_ns may go      *)
(* back, and the gap, an unsigned difference, may wrap.                    *)
(*                                                                         *)
(* Time is in clock units and a packet costs hpft_bytes_to_ns units.       *)
(* served, excess, forgave and bigSteps are history variables that only    *)
(* properties read. served is a meter on the wire: a server that works at  *)
(* exactly the pace and gets each packet when it departs; excess is how    *)
(* long the last packet waited in it, that is, how much more than its own  *)
(* length the worst window ending with that packet was charged.            *)
(***************************************************************************)
EXTENDS Integers, FiniteSets

CONSTANTS
  Cpus,          \* CPUs that run the classifier
  Flows,         \* TCP flows of the pair
  Packets,       \* packet shapes: [len, segs, lead]; lead is how far ahead the
                 \* socket stamped the packet itself (BBR pacing), 0 if it did not
  Rates,         \* rates the sender agent may push
  Scale,         \* 8 * HPFT_NSEC_PER_SEC
  Hdr,           \* L2+L3+L4 header bytes of one frame
  FrameOverhead, \* HPFT_FRAME_OVERHEAD
  BurstBytes,    \* BURST_BYTES of the shim
  DebtCap,       \* HPFT_DEBT_CAP_NS
  GapNs,         \* HPFT_GAP_NS
  SparseMaxLen,  \* HPFT_SPARSE_MAX_LEN
  MaxCost,       \* bound on a packet's cost at any rate
  MaxBurst,      \* bound on burst_ns at any rate
  MaxLead,       \* bound on a socket's own stamp
  MaxSkew,       \* longest a CPU takes from ReadClock to Pace
  Word,          \* 2^64, the values of an unsigned time
  Horizon,       \* bound of the model: last clock value
  MaxPushes      \* bound of the model: rates pushed

Larger(a, b) == IF a >= b THEN a ELSE b
Distance(a, b) == IF a >= b THEN a - b ELSE b - a

\* hpft_bytes_to_ns: truncating division; a rate of 0 never reaches it.
BytesToNs(bytes, rate) == (bytes * Scale) \div rate

\* Bytes the packet occupies on the wire: every frame of a super-packet adds
\* its own headers and the framing skb->len never counts.
WireBytes(p) == p.len + (p.segs - 1) * Hdr + p.segs * FrameOverhead

PacketNs(p, rate) == BytesToNs(WireBytes(p), rate)
BurstNs(rate) == BytesToNs(BurstBytes, rate)

ASSUME SizesAssumption ==
  /\ \A n \in {DebtCap, GapNs, SparseMaxLen, MaxCost, MaxBurst, MaxLead,
               MaxSkew, Horizon, MaxPushes} : n \in Nat
  /\ Rates \subseteq Nat \ {0} /\ Word \in Nat \ {0}
  /\ \A p \in Packets : p.len \in Nat /\ p.lead \in 0 .. MaxLead

ASSUME CostAssumption ==
  \A r \in Rates : /\ \A p \in Packets : PacketNs(p, r) \in 0 .. MaxCost
                   /\ BurstNs(r) \in 0 .. MaxBurst

VARIABLES
  clock,     \* bpf_ktime_get_ns
  cfg,       \* pair_cfg element: [rate, generation]; rate 0 = no element yet
  genCache,  \* the shim's _GEN_CACHE entry: [rate, generation]
  minted,    \* generations minted so far (make_generation never repeats)
  pushes,    \* rates pushed so far
  next,      \* pair_state.next_ns
  stGen,     \* pair_state.generation
  lastSend,  \* hpft_flow_state_map: last_send_ns per flow, or Never
  cpu,       \* per CPU: the packet it is handling
  served,    \* history: when the meter has served every packet so far
  excess,    \* history: the last packet's wait in the meter
  forgave,   \* history: a new generation forgave some debt
  bigSteps   \* history: installs and rate steps of more than a quarter

shimVars == <<genCache, minted, pushes, bigSteps>>
pairVars == <<next, stGen, served, excess, forgave>>
vars == <<clock, cfg, lastSend, cpu, shimVars, pairVars>>

Never == -1
IdleCpu == [pc |-> "idle"]

------------------------------------------------------------------------------
(* The shim *)

\* The cache of a shim that has not pushed a rate since it started.
Forgotten == [rate |-> 0, generation |-> 0]

\* _gen_for keeps the generation while the rate moves by at most a quarter of
\* the last rate pushed.
SmallStep(cache, rate) ==
  /\ cache.rate > 0
  /\ 4 * Distance(rate, cache.rate) <= cache.rate

\* Mutant: a generation minted on every push.
MintAlways(cache, rate) == minted + 1

GenFor(cache, rate) == IF SmallStep(cache, rate) THEN cache.generation ELSE minted + 1

\* One datagram of the sender agent. The cache entry is stored before the map
\* write, and stays stored when the write fails.
ShimPush(cache, rate, written) ==
  LET entry == [rate |-> rate, generation |-> GenFor(cache, rate)]
  IN /\ pushes < MaxPushes
     /\ pushes' = pushes + 1
     /\ genCache' = entry
     /\ minted' = Larger(minted, entry.generation)
     /\ bigSteps' = IF SmallStep(cache, rate) THEN bigSteps ELSE bigSteps + 1
     /\ cfg' = IF written THEN entry ELSE cfg
     /\ UNCHANGED <<clock, lastSend, cpu, pairVars>>

\* A shim that has restarted since its last push has an empty cache: this push is
\* an install again, whatever its rate. Nothing else tells of the restart: the maps
\* stay as they are, and seed_pair_states writes only pairs that have no state.
RestartedPush(rate, written) == ShimPush(Forgotten, rate, written)

------------------------------------------------------------------------------
(* The classifier *)

\* Entry of the classifier up to the map lookups. Without a cfg element the
\* packet leaves unpaced and nothing changes, which is no step of this model.
Lookup(c, f, p) ==
  /\ cpu[c].pc = "idle"
  /\ cfg.rate # 0
  /\ cpu' = [cpu EXCEPT ![c] = [pc |-> "looked", flow |-> f, pkt |-> p,
                                rate |-> cfg.rate, gen |-> cfg.generation,
                                now |-> 0, gap |-> GapNs + 1]]
  /\ UNCHANGED <<clock, cfg, lastSend, shimVars, pairVars>>

ReadClock(c) ==
  /\ cpu[c].pc = "looked"
  /\ cpu' = [cpu EXCEPT ![c].pc = "timed", ![c].now = clock]
  /\ UNCHANGED <<clock, cfg, lastSend, shimVars, pairVars>>

\* Mutant: a signed difference.
SignedGap(s) == s.now - lastSend[s.flow]

\* now - last_send_ns in unsigned arithmetic: of a flow that another CPU has sent
\* for since now was read, the gap is huge.
WrappedGap(s) == (s.now - lastSend[s.flow]) % Word

\* The flow's gap, and its last_send_ns replaced. A flow the LRU map does not know
\* counts as idle.
Exchange(c) ==
  LET s == cpu[c]
  IN /\ s.pc = "timed"
     /\ cpu' = [cpu EXCEPT ![c].pc = "ready",
                           ![c].gap = IF lastSend[s.flow] = Never THEN @ ELSE WrappedGap(s)]
     /\ lastSend' = [lastSend EXCEPT ![s.flow] = s.now]
     /\ UNCHANGED <<clock, cfg, shimVars, pairVars>>

\* Mutant: a reconfiguration zeroes the debt.
ForgiveAll(debt, now) == now

\* A new generation forgives the debt beyond the cap and no more.
Forgive(debt, now) == IF debt > now + DebtCap THEN now + DebtCap ELSE debt

\* An idle pair may send a burst, not the whole of the time it was idle.
MinNext(s) == Larger(s.now - BurstNs(s.rate), 0)

\* Mutant: no policer tail.
NeverOverCap(send, now) == FALSE

OverCap(send, now) == send > now + DebtCap

\* Mutant: the bypass of the first design, decided by the gap alone.
SparseByGap(s, send) == s.gap > GapNs

\* The latency bypass: an idle flow, a small packet, a pair within one burst.
Sparse(s, send) ==
  /\ s.gap > GapNs
  /\ s.pkt.len <= SparseMaxLen
  /\ send - s.now <= BurstNs(s.rate)

\* When fq may release the packet: its own stamp, composed by max with the
\* pair's unless the packet bypasses it, and never before the present.
Departure(s, send) ==
  LET own == Larger(clock, IF s.pkt.lead = 0 THEN 0 ELSE s.now + s.pkt.lead)
  IN IF send > s.now /\ ~Sparse(s, send) THEN Larger(own, send) ELSE own

\* pair_state.next_ns once a new generation, if any, was adopted.
Adopted(s) == IF stGen # s.gen THEN Forgive(next, s.now) ELSE next

\* The locked section and what follows it in the same run of the program. A
\* drop does not advance the state. The debt a generation forgives is taken off
\* the meter too: NoAmnesty bounds it.
Pace(c) ==
  LET s       == cpu[c]
      send    == Larger(Adopted(s), MinNext(s))
      cost    == PacketNs(s.pkt, s.rate)
      at      == Departure(s, send)
      backlog == served - (next - Adopted(s))
  IN /\ s.pc = "ready"
     /\ cpu' = [cpu EXCEPT ![c] = IdleCpu]
     /\ stGen' = s.gen
     /\ forgave' = (forgave \/ Adopted(s) < next)
     /\ IF OverCap(send, s.now)
          THEN /\ next' = send
               /\ served' = backlog
               /\ UNCHANGED excess
          ELSE /\ next' = send + cost
               /\ served' = Larger(backlog, at) + cost
               /\ excess' = Larger(backlog, at) - at
     /\ UNCHANGED <<clock, cfg, lastSend, shimVars>>

------------------------------------------------------------------------------
(* Time and the LRU map *)

\* A CPU between its read of the clock and the end of its run.
Timed(c) == cpu[c].pc \in {"timed", "ready"}

\* The classifier is not preempted: a CPU that has read the clock paces its
\* packet within MaxSkew.
Tick ==
  /\ clock < Horizon
  /\ \A c \in Cpus : Timed(c) => clock < cpu[c].now + MaxSkew
  /\ clock' = clock + 1
  /\ UNCHANGED <<cfg, lastSend, cpu, shimVars, pairVars>>

\* hpft_flow_state_map is an LRU hash: the kernel may drop any entry.
EvictFlow(f) ==
  /\ lastSend[f] # Never
  /\ lastSend' = [lastSend EXCEPT ![f] = Never]
  /\ UNCHANGED <<clock, cfg, cpu, shimVars, pairVars>>

Init ==
  /\ clock = 0
  /\ cfg = Forgotten
  /\ genCache = Forgotten
  /\ minted = 0
  /\ pushes = 0
  /\ next = 0
  /\ stGen = 0
  /\ lastSend = [f \in Flows |-> Never]
  /\ cpu = [c \in Cpus |-> IdleCpu]
  /\ served = 0
  /\ excess = 0
  /\ forgave = FALSE
  /\ bigSteps = 0

Next ==
  \/ \E rate \in Rates, written \in BOOLEAN :
       ShimPush(genCache, rate, written) \/ RestartedPush(rate, written)
  \/ \E c \in Cpus, f \in Flows, p \in Packets : Lookup(c, f, p)
  \/ \E c \in Cpus : ReadClock(c)
  \/ \E c \in Cpus : Exchange(c)
  \/ \E c \in Cpus : Pace(c)
  \/ Tick
  \/ \E f \in Flows : EvictFlow(f)

Spec == Init /\ [][Next]_vars

------------------------------------------------------------------------------
(* Properties *)

BusyCpu == [pc : {"looked", "timed", "ready"}, flow : Flows, pkt : Packets, rate : Rates,
            gen : Nat, now : Nat, gap : Nat]
RateCfg == [rate : Rates \cup {0}, generation : Nat]

\* Every variable has its type; in particular a flow's gap is not negative, in
\* whichever order two CPUs exchange its last_send_ns.
TypeOK ==
  /\ clock \in Nat
  /\ cfg \in RateCfg /\ genCache \in RateCfg
  /\ minted \in Nat /\ pushes \in Nat /\ bigSteps \in Nat
  /\ next \in Nat /\ stGen \in Nat
  /\ lastSend \in [Flows -> Nat \cup {Never}]
  /\ cpu \in [Cpus -> {IdleCpu} \cup BusyCpu]
  /\ served \in Int /\ excess \in Nat /\ forgave \in BOOLEAN

\* The backstop against unbounded debt (HPFT_DEBT_CAP_NS): however CPUs
\* interleave, the pair's next stamp is at most the cap and one packet ahead.
DebtBounded == next <= clock + DebtCap + MaxCost

\* Whatever the CPU interleaving, no step of the classifier amnesties debt
\* below the cap: "forgive only STALE debt (cap the stamp horizon), never zero
\* it". The skew is that of a CPU whose now is old when it gets the lock.
NoAmnesty ==
  [][next' >= next \/ next' >= clock - MaxSkew + DebtCap]_vars

\* The pace is enforced on the wire: in no window between two departures was the
\* pair charged more than the window's length, apart from two bursts, the time a
\* CPU takes and a socket's own stamp. It covers the sparse bypass, whose first
\* version let a pair run past its pace while the debt grew unread.
PaceEnforced == excess <= 2 * MaxBurst + MaxSkew + MaxLead

\* A pair whose rate was installed once, by a shim that has not restarted, and
\* then moved by at most a quarter a push is never forgiven any debt: the escape
\* that a generation per push gave deep-debt senders.
SmallStepsNeverForgive == bigSteps <= 1 => ~forgave

==============================================================================
