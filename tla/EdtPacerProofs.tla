--------------------------- MODULE EdtPacerProofs ---------------------------
(***************************************************************************)
(* Proofs about EdtPacer for every number of CPUs, flows, packets and      *)
(* rates. The properties are not inductive: a CPU in flight carries a      *)
(* clock value and a generation read earlier, so the invariant says how    *)
(* old they can be (InFlight), how far the wire meter can lead the pair's  *)
(* debt (Meter), and which generations exist (Generations).                *)
(***************************************************************************)
EXTENDS EdtPacer, TLAPS

\* What a CPU read of the clock before it takes the lock is at most MaxSkew old. (Of
\* a flow's last_send_ns nothing is needed: PaceEnforced holds whoever counts as
\* idle.)
InFlight ==
  \A c \in Cpus : Timed(c) => cpu[c].now <= clock /\ clock <= cpu[c].now + MaxSkew

\* A packet departs at most Lateness after the stamp the pair gave it, so the
\* meter is at most that far ahead of the pair's debt.
Lateness == MaxBurst + MaxSkew + MaxLead
Meter == served <= next + Lateness

\* Generations are minted one by one, each by a big step; what the cache, the
\* element, the CPUs and the pair hold was minted, and before the first packet
\* of the first generation the pair has no debt.
Generations ==
  /\ bigSteps = minted
  /\ genCache.rate # 0 => genCache.generation = minted
  /\ minted = 0 => genCache.rate = 0
  /\ cfg.rate # 0 => cfg.generation \in 1 .. minted
  /\ \A c \in Cpus : cpu[c].pc # "idle" => cpu[c].gen \in 1 .. minted
  /\ stGen \in 0 .. minted
  /\ stGen = 0 => next = 0

Inv ==
  /\ TypeOK
  /\ InFlight
  /\ DebtBounded
  /\ Meter
  /\ PaceEnforced
  /\ Generations
  /\ SmallStepsNeverForgive

------------------------------------------------------------------------------

\* What a CPU about to take the lock holds.
LEMMA TimedCpuFacts ==
  ASSUME Inv, NEW c \in Cpus, Timed(c)
  PROVE  /\ cpu[c] \in BusyCpu
         /\ cpu[c].now \in Nat /\ cpu[c].rate \in Rates /\ cpu[c].gen \in 1 .. minted
         /\ cpu[c].pkt \in Packets
         /\ cpu[c].now <= clock /\ clock <= cpu[c].now + MaxSkew
         /\ PacketNs(cpu[c].pkt, cpu[c].rate) \in 0 .. MaxCost
         /\ BurstNs(cpu[c].rate) \in 0 .. MaxBurst
<1>1. cpu[c] \in BusyCpu
  BY DEF Inv, TypeOK, IdleCpu, BusyCpu, Timed
<1>2. cpu[c].now \in Nat /\ cpu[c].rate \in Rates /\ cpu[c].pkt \in Packets
  BY <1>1 DEF BusyCpu
<1>3. cpu[c].gen \in 1 .. minted
  BY DEF Inv, Generations, Timed
<1>4. cpu[c].now <= clock /\ clock <= cpu[c].now + MaxSkew
  BY DEF Inv, InFlight
<1> QED BY <1>1, <1>2, <1>3, <1>4, CostAssumption

\* The debt a CPU finds once it adopted its generation: never more than the
\* debt was, and lowered only to the cap as that CPU sees it.
LEMMA AdoptedBounds ==
  ASSUME Inv, NEW c \in Cpus, Timed(c)
  PROVE  /\ Adopted(cpu[c]) \in Nat
         /\ Adopted(cpu[c]) <= next
         /\ Adopted(cpu[c]) < next => /\ Adopted(cpu[c]) = cpu[c].now + DebtCap
                                      /\ stGen # cpu[c].gen
<1>1. cpu[c].now \in Nat
  BY TimedCpuFacts
<1>2. next \in Nat /\ DebtCap \in Nat
  BY SizesAssumption DEF Inv, TypeOK
<1> QED BY <1>1, <1>2 DEF Adopted, Forgive

\* The stamp the pair gives: at or after the debt, at most a burst before now,
\* and after the debt only when the pair was idle.
LEMMA SendBounds ==
  ASSUME Inv, NEW c \in Cpus, Timed(c),
         NEW send, send = Larger(Adopted(cpu[c]), MinNext(cpu[c]))
  PROVE  /\ send \in Nat
         /\ send >= Adopted(cpu[c])
         /\ send + MaxBurst >= cpu[c].now
         /\ send > Adopted(cpu[c]) => send <= cpu[c].now
         /\ send + BurstNs(cpu[c].rate) >= cpu[c].now
<1>1. /\ cpu[c].now \in Nat
      /\ BurstNs(cpu[c].rate) \in 0 .. MaxBurst
  BY TimedCpuFacts
<1>2. Adopted(cpu[c]) \in Nat
  BY AdoptedBounds
<1>3. MaxBurst \in Nat
  BY SizesAssumption
<1> QED BY <1>1, <1>2, <1>3 DEF Larger, MinNext

\* A packet departs no earlier than a burst before its stamp and no later than
\* Lateness after it.
LEMMA DepartureBounds ==
  ASSUME Inv, NEW c \in Cpus, Timed(c),
         NEW send, send = Larger(Adopted(cpu[c]), MinNext(cpu[c]))
  PROVE  /\ Departure(cpu[c], send) \in Nat
         /\ Departure(cpu[c], send) + MaxBurst >= send
         /\ Departure(cpu[c], send) <= send + Lateness
<1> DEFINE s == cpu[c]
<1>1. /\ s.now \in Nat /\ s.now <= clock /\ clock <= s.now + MaxSkew
      /\ BurstNs(s.rate) \in 0 .. MaxBurst
      /\ s.pkt \in Packets
  BY TimedCpuFacts
<1>2. /\ send \in Nat
      /\ send + MaxBurst >= s.now
  BY SendBounds
<1>3. clock \in Nat
  BY DEF Inv, TypeOK
<1>4. s.pkt.lead \in 0 .. MaxLead
  BY <1>1, SizesAssumption
<1>5. MaxBurst \in Nat /\ MaxSkew \in Nat /\ MaxLead \in Nat
  BY SizesAssumption
<1> DEFINE own == Larger(clock, IF s.pkt.lead = 0 THEN 0 ELSE s.now + s.pkt.lead)
<1>6. own \in Nat /\ own >= clock /\ own <= clock + MaxLead
  BY <1>1, <1>3, <1>4, <1>5 DEF Larger
<1> HIDE DEF own
<1>7. CASE send > s.now /\ ~Sparse(s, send)
  <2>1. Departure(s, send) = Larger(own, send)
    BY <1>7 DEF Departure, own
  <2> QED BY <2>1, <1>1, <1>2, <1>3, <1>5, <1>6 DEF Larger, Lateness
<1>8. CASE ~(send > s.now /\ ~Sparse(s, send))
  <2>1. Departure(s, send) = own
    BY <1>8 DEF Departure, own
  <2>2. send <= s.now + MaxBurst
    BY <1>8, <1>1, <1>2, <1>5 DEF Sparse
  <2> QED BY <2>1, <2>2, <1>1, <1>2, <1>3, <1>5, <1>6 DEF Lateness
<1> QED BY <1>7, <1>8

------------------------------------------------------------------------------
(* One lemma per action: it preserves Inv. *)

LEMMA InitInv == Init => Inv
<1> SUFFICES ASSUME Init PROVE Inv
  OBVIOUS
<1>1. \A n \in {DebtCap, MaxCost, MaxBurst, MaxLead, MaxSkew} : n \in Nat
  BY SizesAssumption
<1>2. TypeOK
  <2>1. cpu \in [Cpus -> {IdleCpu} \cup BusyCpu]
    BY DEF Init
  <2>2. lastSend \in [Flows -> Nat \cup {Never}]
    BY DEF Init
  <2>3. cfg \in RateCfg /\ genCache \in RateCfg
    BY DEF Init, RateCfg, Forgotten
  <2>4. next \in Nat /\ served \in Int /\ excess \in Nat
    BY DEF Init
  <2>5. clock \in Nat /\ minted \in Nat /\ pushes \in Nat /\ bigSteps \in Nat /\ stGen \in Nat
    BY DEF Init
  <2>6. forgave \in BOOLEAN
    BY Zenon DEF Init
  <2> QED BY <2>1, <2>2, <2>3, <2>4, <2>5, <2>6 DEF TypeOK
<1>3. InFlight
  BY DEF Init, InFlight, Timed, IdleCpu
<1>4. DebtBounded /\ Meter /\ PaceEnforced
  BY <1>1 DEF Init, DebtBounded, Meter, Lateness, PaceEnforced
<1>5. Generations /\ SmallStepsNeverForgive
  BY DEF Init, Forgotten, Generations, SmallStepsNeverForgive, IdleCpu
<1> QED BY <1>2, <1>3, <1>4, <1>5 DEF Inv

LEMMA ShimPushInv ==
  ASSUME Inv, NEW cache \in {genCache, Forgotten}, NEW rate \in Rates,
         NEW written \in BOOLEAN, ShimPush(cache, rate, written)
  PROVE  Inv'
<1> USE DEF ShimPush
<1>1. rate \in Nat \ {0}
  BY SizesAssumption
<1>2. /\ cache \in RateCfg /\ cfg \in RateCfg
      /\ minted \in Nat /\ pushes \in Nat /\ bigSteps \in Nat
      /\ cache.rate # 0 => cache.generation = minted
      /\ bigSteps = minted
      /\ cfg.rate # 0 => cfg.generation \in 1 .. minted
      /\ minted = 0 => cache.rate = 0
  BY DEF Inv, TypeOK, Generations, Forgotten, RateCfg
<1>3. /\ genCache' = [rate |-> rate, generation |-> GenFor(cache, rate)]
      /\ cfg' = IF written THEN genCache' ELSE cfg
      /\ minted' = Larger(minted, GenFor(cache, rate))
      /\ bigSteps' = IF SmallStep(cache, rate) THEN bigSteps ELSE bigSteps + 1
  OBVIOUS
<1>4. /\ GenFor(cache, rate) = minted'
      /\ minted' = bigSteps'
      /\ minted' \in Nat /\ minted' >= 1 /\ minted' >= minted
  <2>1. CASE SmallStep(cache, rate)
    BY <2>1, <1>2, <1>3 DEF GenFor, SmallStep, Larger
  <2>2. CASE ~SmallStep(cache, rate)
    BY <2>2, <1>2, <1>3 DEF GenFor, Larger
  <2> QED BY <2>1, <2>2
<1>5. genCache' \in RateCfg /\ cfg' \in RateCfg
  BY <1>2, <1>3, <1>4 DEF RateCfg
<1>6. TypeOK'
  BY <1>2, <1>4, <1>5 DEF Inv, TypeOK, pairVars
<1>7. InFlight' /\ DebtBounded' /\ Meter' /\ PaceEnforced'
  BY DEF Inv, InFlight, Timed, DebtBounded, Meter, PaceEnforced, pairVars
<1>8. Generations'
  <2>1. \A c \in Cpus : cpu[c].pc # "idle" => cpu[c].gen \in 1 .. minted'
    BY <1>2, <1>4 DEF Inv, Generations
  <2>2. stGen \in 0 .. minted'
    BY <1>2, <1>4 DEF Inv, Generations
  <2>3. cfg'.rate # 0 => cfg'.generation \in 1 .. minted'
    BY <1>2, <1>3, <1>4
  <2> QED BY <1>3, <1>4, <2>1, <2>2, <2>3 DEF Inv, Generations, pairVars
<1>9. SmallStepsNeverForgive'
  BY <1>2, <1>4 DEF Inv, SmallStepsNeverForgive, pairVars
<1> QED BY <1>6, <1>7, <1>8, <1>9 DEF Inv

LEMMA LookupInv ==
  ASSUME Inv, NEW c \in Cpus, NEW f \in Flows, NEW p \in Packets, Lookup(c, f, p)
  PROVE  Inv'
<1> USE DEF Lookup
<1> DEFINE looked == [pc |-> "looked", flow |-> f, pkt |-> p,
                      rate |-> cfg.rate, gen |-> cfg.generation,
                      now |-> 0, gap |-> GapNs + 1]
<1>1. looked \in BusyCpu
  BY SizesAssumption DEF Inv, TypeOK, RateCfg, BusyCpu
<1>2. cpu' = [cpu EXCEPT ![c] = looked]
  OBVIOUS
<1>3. cfg.generation \in 1 .. minted
  BY DEF Inv, Generations
<1>4. looked.pc = "looked" /\ looked.gen = cfg.generation
  OBVIOUS
<1> HIDE DEF looked
<1>5. cpu \in [Cpus -> {IdleCpu} \cup BusyCpu]
  BY DEF Inv, TypeOK
<1>6. cpu' \in [Cpus -> {IdleCpu} \cup BusyCpu]
  BY <1>1, <1>2, <1>5
<1>7. TypeOK'
  BY <1>6 DEF Inv, TypeOK, shimVars, pairVars
<1>8. InFlight'
  BY <1>2, <1>4, <1>5 DEF Inv, InFlight, Timed
<1>9. DebtBounded' /\ Meter' /\ PaceEnforced' /\ SmallStepsNeverForgive'
  BY DEF Inv, DebtBounded, Meter, PaceEnforced, SmallStepsNeverForgive,
         shimVars, pairVars
<1>10. Generations'
  <2>1. \A d \in Cpus : cpu'[d].pc # "idle" => cpu'[d].gen \in 1 .. minted
    BY <1>2, <1>3, <1>4, <1>5 DEF Inv, Generations
  <2> QED BY <2>1 DEF Inv, Generations, shimVars, pairVars
<1> QED BY <1>7, <1>8, <1>9, <1>10 DEF Inv

LEMMA ReadClockInv ==
  ASSUME Inv, NEW c \in Cpus, ReadClock(c)
  PROVE  Inv'
<1> USE DEF ReadClock
<1>1. cpu[c] \in BusyCpu /\ clock \in Nat
  BY DEF Inv, TypeOK, IdleCpu
<1>2. cpu \in [Cpus -> {IdleCpu} \cup BusyCpu]
  BY DEF Inv, TypeOK
<1>3. cpu' = [cpu EXCEPT ![c] = [cpu[c] EXCEPT !.pc = "timed", !.now = clock]]
  OBVIOUS
<1>4. [cpu[c] EXCEPT !.pc = "timed", !.now = clock] \in BusyCpu
  BY <1>1 DEF BusyCpu
<1>5. cpu' \in [Cpus -> {IdleCpu} \cup BusyCpu]
  BY <1>2, <1>3, <1>4
<1>6. TypeOK'
  BY <1>5 DEF Inv, TypeOK, shimVars, pairVars
<1>7. /\ cpu'[c].now = clock /\ cpu'[c].gen = cpu[c].gen /\ cpu[c].pc # "idle"
      /\ \A d \in Cpus : d # c => cpu'[d] = cpu[d]
  BY <1>1, <1>2, <1>3 DEF BusyCpu
<1>8. InFlight'
  <2>1. MaxSkew \in Nat
    BY SizesAssumption
  <2> SUFFICES ASSUME NEW d \in Cpus, Timed(d)'
               PROVE  cpu'[d].now <= clock /\ clock <= cpu'[d].now + MaxSkew
    BY DEF InFlight, Timed
  <2>2. CASE d = c
    BY <1>1, <1>7, <2>1, <2>2
  <2>3. CASE d # c
    BY <1>7, <2>3 DEF Inv, InFlight, Timed
  <2> QED BY <2>2, <2>3
<1>9. DebtBounded' /\ Meter' /\ PaceEnforced' /\ SmallStepsNeverForgive'
  BY DEF Inv, DebtBounded, Meter, PaceEnforced, SmallStepsNeverForgive,
         shimVars, pairVars
<1>10. Generations'
  <2>1. \A d \in Cpus : cpu'[d].pc # "idle" => cpu'[d].gen \in 1 .. minted
    BY <1>7 DEF Inv, Generations
  <2> QED BY <2>1 DEF Inv, Generations, shimVars, pairVars
<1> QED BY <1>6, <1>8, <1>9, <1>10 DEF Inv

LEMMA ExchangeInv ==
  ASSUME Inv, NEW c \in Cpus, Exchange(c)
  PROVE  Inv'
<1> USE DEF Exchange
<1> DEFINE gap == IF lastSend[cpu[c].flow] = Never THEN cpu[c].gap ELSE WrappedGap(cpu[c])
<1>1. cpu[c] \in BusyCpu
  BY DEF Inv, TypeOK, IdleCpu
<1>2. cpu \in [Cpus -> {IdleCpu} \cup BusyCpu]
  BY DEF Inv, TypeOK
<1>3. cpu[c].flow \in Flows /\ cpu[c].now \in Nat /\ cpu[c].gap \in Nat
  BY <1>1 DEF BusyCpu
<1>4. gap \in Nat
  <2>1. lastSend[cpu[c].flow] \in Int
    BY <1>3 DEF Inv, TypeOK, Never
  <2>2. Word \in Nat \ {0}
    BY SizesAssumption
  <2>3. WrappedGap(cpu[c]) \in Nat
    BY <1>3, <2>1, <2>2 DEF WrappedGap
  <2> QED BY <1>3, <2>3
<1>5. cpu' = [cpu EXCEPT ![c] = [cpu[c] EXCEPT !.pc = "ready", !.gap = gap]]
  OBVIOUS
<1>6. lastSend' = [lastSend EXCEPT ![cpu[c].flow] = cpu[c].now] /\ cpu[c].pc = "timed"
  OBVIOUS
<1> HIDE DEF gap
<1>7. [cpu[c] EXCEPT !.pc = "ready", !.gap = gap] \in BusyCpu
  BY <1>1, <1>4 DEF BusyCpu
<1>8. cpu' \in [Cpus -> {IdleCpu} \cup BusyCpu]
  BY <1>2, <1>5, <1>7
<1>9. lastSend' \in [Flows -> Nat \cup {Never}]
  BY <1>3, <1>6 DEF Inv, TypeOK
<1>10. TypeOK'
  BY <1>8, <1>9 DEF Inv, TypeOK, shimVars, pairVars
<1>11. /\ cpu'[c].now = cpu[c].now /\ cpu'[c].gen = cpu[c].gen
       /\ \A d \in Cpus : d # c => cpu'[d] = cpu[d]
  BY <1>1, <1>2, <1>5 DEF BusyCpu
<1>12. InFlight'
  BY <1>6, <1>11 DEF Inv, InFlight, Timed
<1>13. DebtBounded' /\ Meter' /\ PaceEnforced' /\ SmallStepsNeverForgive'
  BY DEF Inv, DebtBounded, Meter, PaceEnforced, SmallStepsNeverForgive,
         shimVars, pairVars
<1>14. Generations'
  <2>1. \A d \in Cpus : cpu'[d].pc # "idle" => cpu'[d].gen \in 1 .. minted
    BY <1>6, <1>11 DEF Inv, Generations
  <2> QED BY <2>1 DEF Inv, Generations, shimVars, pairVars
<1> QED BY <1>10, <1>12, <1>13, <1>14 DEF Inv

LEMMA PaceInv ==
  ASSUME Inv, NEW c \in Cpus, Pace(c)
  PROVE  Inv'
<1> DEFINE s       == cpu[c]
           send    == Larger(Adopted(s), MinNext(s))
           cost    == PacketNs(s.pkt, s.rate)
           at      == Departure(s, send)
           backlog == served - (next - Adopted(s))
<1>1. Timed(c)
  BY DEF Pace, Timed
<1>2. /\ cpu' = [cpu EXCEPT ![c] = IdleCpu]
      /\ stGen' = s.gen
      /\ forgave' = (forgave \/ Adopted(s) < next)
      /\ UNCHANGED <<clock, cfg, lastSend, shimVars>>
  BY DEF Pace
<1>3. /\ s.now \in Nat /\ s.gen \in 1 .. minted
      /\ s.now <= clock /\ clock <= s.now + MaxSkew
      /\ cost \in 0 .. MaxCost
  BY <1>1, TimedCpuFacts
<1>4. /\ Adopted(s) \in Nat
      /\ Adopted(s) <= next
      /\ Adopted(s) < next => Adopted(s) = s.now + DebtCap /\ stGen # s.gen
  BY <1>1, AdoptedBounds
<1>5. send \in Nat /\ send >= Adopted(s) /\ (send > Adopted(s) => send <= s.now)
  BY <1>1, SendBounds
<1>6. at \in Nat /\ at + MaxBurst >= send /\ at <= send + Lateness
  BY <1>1, DepartureBounds
<1>7. /\ DebtCap \in Nat /\ MaxCost \in Nat /\ MaxBurst \in Nat
      /\ MaxSkew \in Nat /\ MaxLead \in Nat
  BY SizesAssumption
<1>8. /\ clock \in Nat /\ next \in Nat /\ served \in Int /\ excess \in Nat
      /\ minted \in Nat /\ stGen \in Nat /\ forgave \in BOOLEAN
      /\ cpu \in [Cpus -> {IdleCpu} \cup BusyCpu]
  BY DEF Inv, TypeOK
<1>9. served <= next + Lateness
  BY DEF Inv, Meter
<1>10. \/ /\ send > s.now + DebtCap
          /\ next' = send
          /\ served' = backlog
          /\ excess' = excess
       \/ /\ ~(send > s.now + DebtCap)
          /\ next' = send + cost
          /\ served' = Larger(backlog, at) + cost
          /\ excess' = Larger(backlog, at) - at
  BY DEF Pace, OverCap
<1> HIDE DEF send, cost, at
<1>11. backlog \in Int /\ backlog <= send + Lateness
  BY <1>4, <1>5, <1>7, <1>8, <1>9 DEF Lateness
<1> HIDE DEF backlog
<1>12. next' \in Nat /\ served' \in Int /\ excess' \in Nat
  BY <1>3, <1>5, <1>6, <1>8, <1>10, <1>11 DEF Larger
<1>13. cpu' \in [Cpus -> {IdleCpu} \cup BusyCpu]
  BY <1>2, <1>8
<1>14. TypeOK'
  BY <1>2, <1>3, <1>8, <1>12, <1>13 DEF Inv, TypeOK, shimVars
<1>15. InFlight'
  BY <1>2, <1>8 DEF Inv, InFlight, Timed, IdleCpu
<1>16. DebtBounded'
  <2>1. CASE send > s.now + DebtCap
    \* A drop: the debt was not lifted, so it is what it was.
    BY <2>1, <1>2, <1>3, <1>4, <1>5, <1>7, <1>8, <1>10 DEF Inv, DebtBounded
  <2>2. CASE ~(send > s.now + DebtCap)
    BY <2>2, <1>2, <1>3, <1>5, <1>7, <1>8, <1>10 DEF DebtBounded
  <2> QED BY <2>1, <2>2
<1>17. Meter'
  BY <1>3, <1>5, <1>6, <1>7, <1>10, <1>11 DEF Meter, Larger, Lateness
<1>18. PaceEnforced'
  <2>1. Larger(backlog, at) - at <= MaxBurst + Lateness
    BY <1>5, <1>6, <1>7, <1>11 DEF Larger, Lateness
  <2> QED BY <2>1, <1>7, <1>10 DEF Inv, PaceEnforced, Lateness
<1>19. Generations'
  <2>1. \A d \in Cpus : cpu'[d].pc # "idle" => cpu'[d].gen \in 1 .. minted
    BY <1>2, <1>8 DEF Inv, Generations, IdleCpu
  <2>2. stGen' \in 1 .. minted
    BY <1>2, <1>3
  <2> QED BY <2>1, <2>2, <1>2, <1>8 DEF Inv, Generations, shimVars
<1>20. SmallStepsNeverForgive'
  <2> SUFFICES ASSUME bigSteps <= 1, Adopted(s) < next PROVE FALSE
    BY <1>2, <1>8 DEF Inv, SmallStepsNeverForgive, shimVars
  <2>1. s.gen = 1 /\ stGen # 1
    BY <1>3, <1>4, <1>8 DEF Inv, Generations
  <2>2. stGen = 0 /\ next = 0
    BY <2>1, <1>8 DEF Inv, Generations
  <2> QED BY <2>2, <1>4
<1> QED BY <1>14, <1>15, <1>16, <1>17, <1>18, <1>19, <1>20 DEF Inv

LEMMA TickInv ==
  ASSUME Inv, Tick
  PROVE  Inv'
<1> USE DEF Tick
<1>1. clock \in Nat /\ clock' = clock + 1
  BY DEF Inv, TypeOK
<1>2. TypeOK'
  BY <1>1 DEF Inv, TypeOK, shimVars, pairVars
<1>3. InFlight'
  <2> SUFFICES ASSUME NEW c \in Cpus, Timed(c)
               PROVE  cpu[c].now <= clock + 1 /\ clock + 1 <= cpu[c].now + MaxSkew
    BY <1>1 DEF InFlight, Timed
  <2>1. cpu[c].now \in Nat /\ cpu[c].now <= clock
    BY TimedCpuFacts
  <2>2. clock < cpu[c].now + MaxSkew /\ MaxSkew \in Nat
    BY SizesAssumption
  <2> QED BY <1>1, <2>1, <2>2
<1>4. DebtBounded'
  BY <1>1, SizesAssumption DEF Inv, DebtBounded, TypeOK, pairVars
<1>5. Meter' /\ PaceEnforced' /\ SmallStepsNeverForgive' /\ Generations'
  BY DEF Inv, Meter, PaceEnforced, SmallStepsNeverForgive, Generations,
         shimVars, pairVars
<1> QED BY <1>2, <1>3, <1>4, <1>5 DEF Inv

LEMMA EvictFlowInv ==
  ASSUME Inv, NEW f \in Flows, EvictFlow(f)
  PROVE  Inv'
<1> USE DEF EvictFlow
<1>1. lastSend' \in [Flows -> Nat \cup {Never}]
  BY DEF Inv, TypeOK
<1>2. TypeOK'
  BY <1>1 DEF Inv, TypeOK, shimVars, pairVars
<1>3. InFlight'
  BY DEF Inv, InFlight, Timed
<1>4. /\ DebtBounded' /\ Meter' /\ PaceEnforced' /\ SmallStepsNeverForgive'
      /\ Generations'
  BY DEF Inv, DebtBounded, Meter, PaceEnforced, SmallStepsNeverForgive, Generations,
         shimVars, pairVars
<1> QED BY <1>2, <1>3, <1>4 DEF Inv

LEMMA StutterInv ==
  ASSUME Inv, UNCHANGED vars
  PROVE  Inv'
BY DEF Inv, TypeOK, InFlight, Timed, DebtBounded, Meter, PaceEnforced, Generations,
       SmallStepsNeverForgive, vars, shimVars, pairVars

\* The invariant is inductive.
LEMMA NextInv == Inv /\ [Next]_vars => Inv'
<1> SUFFICES ASSUME Inv, [Next]_vars PROVE Inv'
  OBVIOUS
<1>1. ASSUME NEW rate \in Rates, NEW written \in BOOLEAN,
             ShimPush(genCache, rate, written) \/ RestartedPush(rate, written)
      PROVE  Inv'
  BY <1>1, ShimPushInv DEF RestartedPush
<1>2. ASSUME NEW c \in Cpus, NEW f \in Flows, NEW p \in Packets, Lookup(c, f, p)
      PROVE  Inv'
  BY <1>2, LookupInv
<1>3. ASSUME NEW c \in Cpus, ReadClock(c) PROVE Inv'
  BY <1>3, ReadClockInv
<1>4. ASSUME NEW c \in Cpus, Exchange(c) PROVE Inv'
  BY <1>4, ExchangeInv
<1>5. ASSUME NEW c \in Cpus, Pace(c) PROVE Inv'
  BY <1>5, PaceInv
<1>6. CASE Tick
  BY <1>6, TickInv
<1>7. ASSUME NEW f \in Flows, EvictFlow(f) PROVE Inv'
  BY <1>7, EvictFlowInv
<1>8. CASE UNCHANGED vars
  BY <1>8, StutterInv
<1> QED BY <1>1, <1>2, <1>3, <1>4, <1>5, <1>6, <1>7, <1>8 DEF Next

------------------------------------------------------------------------------
(* The theorems *)

\* The invariant holds of every behaviour of the executor.
THEOREM Invariance == Spec => []Inv
<1>1. Init => Inv
  BY InitInv
<1>2. Inv /\ [Next]_vars => Inv'
  BY NextInv
<1> QED BY <1>1, <1>2, PTL DEF Spec

\* Every variable keeps its type, however CPUs interleave on a flow.
THEOREM TypeCorrect == Spec => []TypeOK
<1>1. Inv => TypeOK
  BY DEF Inv
<1> QED BY <1>1, Invariance, PTL

\* The debt of a pair is at most the cap and one packet ahead of the clock, for
\* any number of CPUs racing for the lock.
THEOREM DebtIsBounded == Spec => []DebtBounded
<1>1. Inv => DebtBounded
  BY DEF Inv
<1> QED BY <1>1, Invariance, PTL

\* No window of departures was charged more than its length and the slack.
THEOREM PaceIsEnforced == Spec => []PaceEnforced
<1>1. Inv => PaceEnforced
  BY DEF Inv
<1> QED BY <1>1, Invariance, PTL

\* The shim's stable generation: small rate steps never forgive debt.
THEOREM SmallStepsKeepDebt == Spec => []SmallStepsNeverForgive
<1>1. Inv => SmallStepsNeverForgive
  BY DEF Inv
<1> QED BY <1>1, Invariance, PTL

\* A step that lowers the debt leaves it at the cap of a recent clock value.
THEOREM DebtIsNotAmnestied == Spec => NoAmnesty
<1> DEFINE Kept == next' >= next \/ next' >= clock - MaxSkew + DebtCap
<1>1. Inv /\ [Next]_vars => [Kept]_vars
  <2> SUFFICES ASSUME Inv, Next PROVE Kept
    OBVIOUS
  <2>1. next \in Nat
    BY DEF Inv, TypeOK
  <2>2. ASSUME NEW c \in Cpus, Pace(c) PROVE Kept
    <3> DEFINE s    == cpu[c]
               send == Larger(Adopted(s), MinNext(s))
    <3>1. Timed(c)
      BY <2>2 DEF Pace, Timed
    <3>2. /\ s.now \in Nat /\ clock <= s.now + MaxSkew
          /\ PacketNs(s.pkt, s.rate) \in 0 .. MaxCost
      BY <3>1, TimedCpuFacts
    <3>3. /\ Adopted(s) \in Nat
          /\ Adopted(s) >= next \/ Adopted(s) = s.now + DebtCap
      BY <2>1, <3>1, AdoptedBounds
    <3>4. send \in Nat /\ send >= Adopted(s)
      BY <3>1, SendBounds
    <3>5. next' = send \/ next' = send + PacketNs(s.pkt, s.rate)
      BY <2>2 DEF Pace
    <3>6. next' \in Nat /\ next' >= Adopted(s)
      <4> HIDE DEF send
      <4> QED BY <3>2, <3>3, <3>4, <3>5
    <3>7. MaxSkew \in Nat /\ DebtCap \in Nat /\ clock \in Nat
      BY SizesAssumption DEF Inv, TypeOK
    <3> QED BY <2>1, <3>2, <3>3, <3>6, <3>7
  <2>3. CASE next' = next
    BY <2>1, <2>3
  <2> QED BY <2>2, <2>3 DEF Next, ShimPush, RestartedPush, Lookup, ReadClock, Exchange,
                             Tick, EvictFlow, pairVars
<1> QED BY <1>1, Invariance, PTL DEF Spec, NoAmnesty

==============================================================================
