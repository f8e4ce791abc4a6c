-------------------------------- MODULE RpPcc --------------------------------
(***************************************************************************)
(* The RDMA executor of HPFT on the NIC (rp_rtt_template_dev_main.c): the  *)
(* table of source/destination pairs with their budgets, written by a      *)
(* mailbox, and the event handler doca_pcc_dev_user_algo that DPA threads  *)
(* run at once, one per QP, without locks or atomics. The handler learns   *)
(* which pair a QP belongs to, counts the QPs that send, and once per      *)
(* epoch assigns each pair its level, budget / N, the rate of every QP.    *)
(*                                                                         *)
(* One event is up to four steps of its thread: Event reads the timer,     *)
(* finds the pair and reads qp_seen, CountQp writes it back incremented    *)
(* and compares the epoch, Roll closes it and Assign sets the level.       *)
(*                                                                         *)
(* The congestion-control term is left out: the rate is min(cc_rate,       *)
(* level), so what is said here of a rate being too high holds of a lower  *)
(* one too. Each QP is taken to find a free cell in the QP map. epochs is  *)
(* a history variable that only properties read.                           *)
(***************************************************************************)
EXTENDS Integers, FiniteSets, FiniteSetsExt

CONSTANTS
  Threads,   \* DPA threads
  Slots,     \* indices of g_hpft_pairs
  Tags,      \* flowtags
  Qps,       \* QPs, but the two reserved ones
  TagOf,     \* the flowtag of a QP
  Sparse,    \* QPs that send a handful of events per second
  Budgets,   \* budgets the mailbox may carry, 0 to delete
  MinLevel,  \* HPFT_MIN_LEVEL
  MaxRate,   \* DOCA_PCC_DEV_MAX_RATE
  Epoch,     \* HPFT_EPOCH_US in ticks
  MaxSeen    \* bound of the model: values of qp_seen from here on are alike

DataQps == Qps \ Sparse
NoTag == "none"
Unlearned == [learned |-> FALSE]
IdleThread == [pc |-> "idle"]
Settled == 5  \* epochs a new QP takes to be learned, counted twice and answered

ASSUME PccAssumption ==
  /\ Slots \subseteq Nat /\ NoTag \notin Tags
  /\ TagOf \in [Qps -> Tags] /\ Sparse \subseteq Qps
  /\ IsFiniteSet(Qps) /\ MaxSeen \in Nat /\ MaxSeen >= Cardinality(Qps)
  /\ Budgets \subseteq Nat
  /\ \A n \in {MinLevel, MaxRate, Epoch} : n \in Nat \ {0}
  /\ \A b \in Budgets : b # 0 => b \in MinLevel .. MaxRate \* pace_floor is 131 times more
  /\ MinLevel <= MaxRate

VARIABLES
  pairs,   \* g_hpft_pairs; age is the timer less epoch_ts
  qpMap,   \* g_qpn_pair per QP and how many epochs ago it was seen, or Unlearned
  thread,  \* the event each thread is handling
  rate,    \* per data QP: results->rate as last answered
  sending, \* data QPs that send
  heard,   \* those of them with an event answered in this tick
  epochs   \* history: epochs since the pair's budget or its QPs changed, or two
           \* threads raced to count a QP or to close an epoch

envVars == <<sending, heard>>
vars == <<pairs, qpMap, thread, rate, envVars, epochs>>

Larger(a, b) == IF a >= b THEN a ELSE b
UpTo(max, n) == IF n > max THEN max ELSE n

FreePair == [tag |-> NoTag, budget |-> 0, level |-> 0, qpCount |-> 0, qpSeen |-> 0,
             age |-> Epoch + 1]

\* budget / N, the level assigned by the mailbox and by the epoch.
\* Mutant: the whole budget for each QP.
WholeBudget(budget, n) == Larger(budget, MinLevel)
\* Mutant: no floor.
BareShare(budget, n) == budget \div Larger(n, 1)

ShareOf(budget, n) == Larger(budget \div Larger(n, 1), MinLevel)

SlotsOf(tag) == {s \in Slots : pairs[s].tag = tag}

------------------------------------------------------------------------------
(* The mailbox *)

Disturb(s) == epochs' = [epochs EXCEPT ![s] = 0]

\* A budget for a pair that has an entry. The batch leaves a pair alone that has
\* this budget already, the single message assigns its level again.
Rebudget(s, budget, batch) ==
  /\ budget # 0 /\ (batch => budget # pairs[s].budget)
  /\ pairs' = [pairs EXCEPT ![s].budget = budget,
                            ![s].level = ShareOf(budget, pairs[s].qpCount)]
  /\ IF budget = pairs[s].budget THEN UNCHANGED epochs ELSE Disturb(s)
  /\ UNCHANGED <<qpMap, thread, rate, envVars>>

\* Budget 0 frees the entry; only the batch forgets the number of QPs.
Delete(s, batch) ==
  /\ pairs' = [pairs EXCEPT ![s].tag = NoTag,
                            ![s].qpCount = IF batch THEN 0 ELSE @]
  /\ Disturb(s)
  /\ UNCHANGED <<qpMap, thread, rate, envVars>>

\* A new pair takes the first free entry. What the entry's last owner counted in
\* the epoch stays, and after a single message its number of QPs.
Install(tag, budget, batch) ==
  LET s == Min(SlotsOf(NoTag))
  IN /\ SlotsOf(NoTag) # {} /\ budget # 0
     /\ pairs' = [pairs EXCEPT ![s] =
                   [@ EXCEPT !.tag = tag, !.budget = budget, !.level = budget,
                             !.qpCount = IF batch THEN 0 ELSE pairs[s].qpCount,
                             !.age = Epoch + 1]]
     /\ Disturb(s)
     /\ UNCHANGED <<qpMap, thread, rate, envVars>>

\* One entry of a 0xB47C batch, or a two-word message. A full table ignores it.
Mailbox(tag, budget, batch) ==
  IF SlotsOf(tag) = {}
    THEN Install(tag, budget, batch)
    ELSE \E s \in SlotsOf(tag) :
           Rebudget(s, budget, batch) \/ (budget = 0 /\ Delete(s, batch))

------------------------------------------------------------------------------
(* The event handler *)

Idle(t) == thread[t].pc = "idle"
At(t, pc) == thread[t].pc = pc

\* Mutant: every QP seen in the epoch is counted.
SeenInEpoch(q) == qpMap[q] # Unlearned /\ qpMap[q].lag > 0

\* Counted, once per epoch, are QPs that were also seen in the epoch before.
Continuous(q) == qpMap[q] # Unlearned /\ qpMap[q].lag = 1

Answer(t, q, r) ==
  /\ rate' = IF q \in DataQps THEN [rate EXCEPT ![q] = r] ELSE rate
  /\ heard' = IF q \in sending THEN heard \cup {q} ELSE heard
  /\ thread' = [thread EXCEPT ![t] = IdleThread]

\* The epoch is over HPFT_EPOCH_US after it was claimed, in unsigned arithmetic: a
\* thread whose now is older than the claim finds it over as well.
Over(sinceClaim) == sinceClaim < 0 \/ sinceClaim >= Epoch

\* The claim. A thread that finds the epoch open answers with the level as it is.
Contend(t, q, s, late) ==
  IF Over(pairs[s].age - late)
    THEN /\ thread' = [thread EXCEPT ![t] =
                        [pc |-> "roll", qp |-> q, slot |-> s, late |-> late, read |-> 0]]
         /\ UNCHANGED <<rate, heard>>
    ELSE Answer(t, q, pairs[s].level)

\* Entry of the handler: the pair is the one the QP was learned with, or else the
\* one with its flowtag, which it is learned with now. With neither it fails open.
Handle(t, q) ==
  LET found == IF qpMap[q] # Unlearned THEN {qpMap[q].slot} ELSE SlotsOf(TagOf[q])
  IN /\ Idle(t)
     /\ \A u \in Threads : ~Idle(u) => thread[u].qp # q
     /\ \/ found = {} /\ Answer(t, q, MaxRate) /\ UNCHANGED qpMap
        \/ \E s \in found :
             /\ qpMap' = [qpMap EXCEPT ![q] = [slot |-> s, lag |-> 0]]
             /\ IF Continuous(q)
                  THEN /\ thread' = [thread EXCEPT ![t] =
                                      [pc |-> "count", qp |-> q, slot |-> s, late |-> 0,
                                       read |-> pairs[s].qpSeen]]
                       /\ UNCHANGED <<rate, heard>>
                  ELSE Contend(t, q, s, 0)
     /\ UNCHANGED <<pairs, sending, epochs>>

\* qp_seen++ may overwrite what another thread counted, or a reset.
CountQp(t) ==
  LET s == thread[t].slot
  IN /\ At(t, "count")
     /\ pairs' = [pairs EXCEPT ![s].qpSeen = UpTo(MaxSeen, thread[t].read + 1)]
     /\ epochs' = IF pairs[s].qpSeen = thread[t].read THEN epochs
                                                     ELSE [epochs EXCEPT ![s] = 0]
     /\ Contend(t, thread[t].qp, s, thread[t].late)
     /\ UNCHANGED <<qpMap, sending>>

TakeCount(p) ==
  [p EXCEPT !.qpCount = IF p.qpSeen > 0 THEN p.qpSeen ELSE @, !.qpSeen = 0]

\* Another thread has closed the epoch this one claims, or is about to count a QP
\* of that epoch in the next one.
Raced(t) ==
  \/ pairs[thread[t].slot].age - thread[t].late < Epoch
  \/ \E u \in Threads : At(u, "count") /\ thread[u].slot = thread[t].slot

\* The winner closes the epoch and reads the budget.
Roll(t) ==
  LET s == thread[t].slot
  IN /\ At(t, "roll")
     /\ pairs' = [pairs EXCEPT ![s] =
                   [TakeCount(@) EXCEPT !.age = thread[t].late]]
     /\ qpMap' = [q \in Qps |->
                   IF qpMap[q] # Unlearned /\ qpMap[q].slot = s
                     THEN [qpMap[q] EXCEPT !.lag = UpTo(2, @ + 1)] ELSE qpMap[q]]
     /\ thread' = [thread EXCEPT ![t].pc = "assign", ![t].read = pairs[s].budget]
     /\ epochs' = [epochs EXCEPT ![s] = IF Raced(t) THEN 0 ELSE UpTo(Settled, @ + 1)]
     /\ UNCHANGED <<rate, envVars>>

\* The level is assigned, not searched for, and the winner answers with it.
Assign(t) ==
  LET s == thread[t].slot
      level == IF thread[t].read > 0 THEN ShareOf(thread[t].read, pairs[s].qpCount)
                                     ELSE pairs[s].level
  IN /\ At(t, "assign")
     /\ pairs' = [pairs EXCEPT ![s].level = level]
     /\ Answer(t, thread[t].qp, level)
     /\ UNCHANGED <<qpMap, sending, epochs>>

------------------------------------------------------------------------------
(* The QPs and time *)

\* A data QP that sends has events all the time, another one an event every few
\* epochs.
Event(t, q) ==
  /\ \/ q \in sending
     \/ q \in Sparse /\ (qpMap[q] # Unlearned => qpMap[q].lag > 1)
  /\ Handle(t, q)

\* A QP starts or stops to send.
Switch(q) ==
  /\ q \in DataQps
  /\ sending' = IF q \in sending THEN sending \ {q} ELSE sending \cup {q}
  /\ heard' = heard \ {q}
  /\ epochs' = [s \in Slots |->
                 IF pairs[s].tag = TagOf[q] THEN 0 ELSE epochs[s]]
  /\ UNCHANGED <<pairs, qpMap, thread, rate>>

\* In a tick, a part of HPFT_EPOCH_US, every QP that sends has an event answered, and
\* an event is answered within a tick of the tick it began in.
Tick ==
  /\ sending \subseteq heard
  /\ \A t \in Threads : ~Idle(t) => thread[t].late = 0
  /\ pairs' = [s \in Slots |->
                [pairs[s] EXCEPT !.age = UpTo(Epoch + 1, @ + 1)]]
  /\ thread' = [t \in Threads |->
                 IF Idle(t) THEN IdleThread ELSE [thread[t] EXCEPT !.late = 1]]
  /\ heard' = {}
  /\ UNCHANGED <<qpMap, rate, sending, epochs>>

Init ==
  /\ pairs = [s \in Slots |-> FreePair]
  /\ qpMap = [q \in Qps |-> Unlearned]
  /\ thread = [t \in Threads |-> IdleThread]
  /\ rate = [q \in DataQps |-> MaxRate]
  /\ sending = {} /\ heard = {}
  /\ epochs = [s \in Slots |-> 0]

Next ==
  \/ \E tag \in Tags, b \in Budgets, batch \in BOOLEAN : Mailbox(tag, b, batch)
  \/ \E t \in Threads, q \in Qps : Event(t, q)
  \/ \E t \in Threads :
       CountQp(t) \/ Roll(t) \/ Assign(t)
  \/ \E q \in Qps : Switch(q)
  \/ Tick

Spec == Init /\ [][Next]_vars

\* An event that began is answered, for the handler waits for nothing, each QP that
\* sends has its events handled, though threads are shared, and time goes on.
FairSpec ==
  /\ Spec
  /\ \A t \in Threads : WF_vars(CountQp(t) \/ Roll(t) \/ Assign(t))
  /\ \A q \in Qps : SF_vars(\E t \in Threads : Event(t, q))
  /\ WF_vars(Tick)

------------------------------------------------------------------------------
(* Properties *)

Pair == [tag : Tags \cup {NoTag}, budget : Nat, level : {0} \cup MinLevel .. MaxRate, qpCount : Nat,
         qpSeen : Nat, age : 0 .. Epoch + 1]
Handling == [pc : {"count", "roll", "assign"}, qp : Qps,
             slot : Slots, late : 0 .. 1, read : Nat]

\* Every variable has its type: no QP is ever stopped by a level below the floor,
\* nor answered with a level no budget was written for.
TypeOK ==
  /\ pairs \in [Slots -> Pair]
  /\ qpMap \in [Qps -> [slot : Slots, lag : 0 .. 2] \cup {Unlearned}]
  /\ thread \in [Threads -> Handling \cup {IdleThread}]
  /\ rate \in [DataQps -> MinLevel .. MaxRate]
  /\ heard \subseteq sending /\ sending \subseteq DataQps
  /\ epochs \in [Slots -> 0 .. Settled]

Senders(s) == {q \in sending : TagOf[q] = pairs[s].tag}
OnTheWire(s) == SumFunctionOnSet(rate, Senders(s))
WithinBudget(s) ==
  OnTheWire(s) <= Larger(pairs[s].budget, MinLevel * Cardinality(Senders(s)))

\* The aggregate a pair puts on the wire, N times the level, is at most its
\* budget: within five epochs of a change of the budget or of the QPs that send, and
\* of a race of two threads for an increment or an epoch.
SharesBudget ==
  \A s \in Slots :
    pairs[s].tag # NoTag /\ epochs[s] = Settled => WithinBudget(s)

\* Nor is any of it lost to the count: the level of each QP that sends all the time
\* is its full share, however many QPs send "a handful of events per second" beside
\* it (again five epochs on).
FillsBudget ==
  \A s \in Slots :
    pairs[s].tag # NoTag /\ epochs[s] = Settled =>
      \A q \in Senders(s) :
        rate[q] >= pairs[s].budget \div Cardinality(Senders(s))

\* "Concurrent winners are rare and the EWMA absorbs the occasional double-computed
\* epoch": closing the epoch of a settled pair, even twice, never takes an N that
\* covers the QPs that send below them, where N times the level is over the budget.
DoubleEpochAbsorbed ==
  [][\A s \in Slots :
       LET n == Cardinality(Senders(s))
       IN epochs[s] = Settled /\ pairs[s].qpCount >= n
          /\ pairs'[s].tag = pairs[s].tag /\ sending' = sending
            => pairs'[s].qpCount >= n]_vars

\* "budget=0 deletes" and "flows without a pair entry fail open": a QP that goes on
\* sending while its flowtag has no entry is, after the event that may have been in
\* a thread's hands, answered with the maximum.
FailsOpenUnpaired ==
  \A q \in DataQps :
    q \in sending /\ SlotsOf(TagOf[q]) = {}
      ~> q \notin sending \/ SlotsOf(TagOf[q]) # {} \/ rate[q] = MaxRate

==============================================================================
