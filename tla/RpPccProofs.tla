----------------------------- MODULE RpPccProofs ------------------------------
(***************************************************************************)
(* Proofs about the RDMA executor (RpPcc) for any number of threads,       *)
(* entries, QPs and budgets.                                               *)
(*                                                                         *)
(* Types: whatever the threads and the mailbox interleave, no QP is        *)
(* answered with a rate below the floor or above the maximum. What a       *)
(* thread or the QP map points at is an entry that was given a budget      *)
(* once, and an entry never loses its last budget, not even when deleted.  *)
(*                                                                         *)
(* The budget: five epochs after a change the QPs that send share it, and  *)
(* none of it is lost. The invariant (Rounds) says what holds of an entry  *)
(* after each of these epochs: the first rids it of events that began      *)
(* before the change, the second of assigners with the old budget, in the  *)
(* third every QP that sends is seen, in the fourth all are counted, and   *)
(* in the fifth each is answered with its share.                           *)
(***************************************************************************)
EXTENDS RpPcc, SumTheorems, TLAPS

Granted == MinLevel .. MaxRate

\* An entry that was given a budget has a level.
Budgeted ==
  \A s \in Slots : /\ pairs[s].budget \in Granted \cup {0}
                   /\ pairs[s].budget # 0 => pairs[s].level \in Granted
                   /\ pairs[s].tag # NoTag => pairs[s].budget # 0

\* QPs are learned with entries that have a pair, and keep them.
Learned == \A q \in Qps : qpMap[q] # Unlearned => pairs[qpMap[q].slot].budget # 0

\* So do threads; a thread that assigns has read a budget.
InHand ==
  \A t \in Threads : ~Idle(t) =>
    /\ pairs[thread[t].slot].budget # 0
    /\ At(t, "assign") => thread[t].read \in Granted

PccInv == TypeOK /\ Budgeted /\ Learned /\ InHand

------------------------------------------------------------------------------

LEMMA Floors == /\ MinLevel \in Nat \ {0} /\ MaxRate \in Nat \ {0} /\ Epoch \in Nat \ {0}
                /\ MinLevel <= MaxRate /\ Granted \subseteq Nat /\ 0 \notin Granted
<1>1. \A n \in {MinLevel, MaxRate, Epoch} : n \in Nat \ {0}
  BY PccAssumption
<1>2. MinLevel <= MaxRate
  BY PccAssumption
<1> QED
  BY <1>1, <1>2 DEF Granted

\* A share of a budget is within the floor and the maximum.
LEMMA ShareIsGranted ==
  ASSUME NEW b \in Granted, NEW n \in Nat
  PROVE  ShareOf(b, n) \in Granted
<1>1. Larger(n, 1) \in Nat \ {0}
  BY DEF Larger
<1>2. \A m \in Nat \ {0} : b \div m \in 0 .. b
  BY Floors DEF Granted
<1>3. b \div Larger(n, 1) \in 0 .. b
  BY <1>1, <1>2
<1> QED
  BY <1>3, Floors DEF ShareOf, Larger, Granted

\* The first free entry is an entry.
LEMMA FirstSlot ==
  ASSUME NEW S \in SUBSET Slots, S # {}
  PROVE  Min(S) \in S
<1>1. PICK n \in S : \A m \in S : n <= m
  BY LeastNatural, PccAssumption
<1> QED
  BY <1>1, PccAssumption DEF Min

------------------------------------------------------------------------------
(* What the parts of a step keep *)

\* A change to one entry that keeps its budget, or gives it one with a level.
LEMMA EntryKeeps ==
  ASSUME PccInv, NEW s \in Slots, NEW p \in Pair,
         pairs' = [pairs EXCEPT ![s] = p],
         p.budget \in Granted \cup {0},
         p.budget # 0 => p.level \in Granted,
         p.tag # NoTag => p.budget # 0,
         pairs[s].budget # 0 => p.budget # 0
  PROVE  /\ pairs' \in [Slots -> Pair] /\ Budgeted'
         /\ \A x \in Slots : pairs[x].budget # 0 => pairs'[x].budget # 0
BY DEF PccInv, TypeOK, Budgeted

\* Who is learned or in hand stays so when budgets stay.
LEMMA BudgetsStay ==
  ASSUME PccInv, \A x \in Slots : pairs[x].budget # 0 => pairs'[x].budget # 0
  PROVE  /\ qpMap' = qpMap => Learned'
         /\ thread' = thread => InHand'
<1>1. ASSUME NEW q \in Qps, qpMap[q] # Unlearned
      PROVE  qpMap[q].slot \in Slots
  BY <1>1 DEF PccInv, TypeOK
<1>2. ASSUME NEW t \in Threads, ~Idle(t)
      PROVE  thread[t].slot \in Slots
  BY <1>2 DEF PccInv, TypeOK, Handling, Idle, IdleThread
<1> QED
  BY <1>1, <1>2 DEF PccInv, Learned, InHand, Idle, At

\* An event that is answered leaves its thread idle.
LEMMA AnswerKeeps ==
  ASSUME PccInv, NEW t \in Threads, NEW q \in Qps, NEW r \in Granted, Answer(t, q, r)
  PROVE  /\ rate' \in [DataQps -> Granted] /\ heard' \subseteq sending
         /\ thread' \in [Threads -> Handling \cup {IdleThread}]
         /\ \A u \in Threads : thread'[u] = IF u = t THEN IdleThread ELSE thread[u]
BY DEF PccInv, TypeOK, Answer, Granted

\* One that goes on to the epoch has its entry in hand.
LEMMA ContendKeeps ==
  ASSUME PccInv, NEW t \in Threads, NEW q \in Qps, NEW s \in Slots, NEW late \in 0 .. 1,
         pairs[s].budget # 0, Contend(t, q, s, late)
  PROVE  /\ rate' \in [DataQps -> Granted] /\ heard' \subseteq sending
         /\ thread' \in [Threads -> Handling \cup {IdleThread}]
         /\ \A u \in Threads : u # t => thread'[u] = thread[u]
         /\ thread'[t] = IdleThread \/ (thread'[t].pc = "roll" /\ thread'[t].slot = s)
<1>1. CASE Over(pairs[s].age - late)
  <2>1. /\ thread' = [thread EXCEPT ![t] =
                       [pc |-> "roll", qp |-> q, slot |-> s, late |-> late, read |-> 0]]
        /\ UNCHANGED <<rate, heard>>
    BY <1>1 DEF Contend
  <2>2. [pc |-> "roll", qp |-> q, slot |-> s, late |-> late, read |-> 0] \in Handling
    BY DEF Handling
  <2> QED
    BY <2>1, <2>2 DEF PccInv, TypeOK, Granted
<1>2. CASE ~Over(pairs[s].age - late)
  <2>1. pairs[s].level \in Granted
    BY DEF PccInv, Budgeted
  <2> QED
    BY <1>2, <2>1, AnswerKeeps DEF Contend
<1> QED
  BY <1>1, <1>2

------------------------------------------------------------------------------
(* The mailbox *)

LEMMA MailboxKeeps ==
  ASSUME PccInv, NEW tag \in Tags, NEW b \in Budgets, NEW batch \in BOOLEAN,
         Mailbox(tag, b, batch)
  PROVE  PccInv'
<1> DEFINE Written == /\ UNCHANGED <<qpMap, thread, rate, envVars>>
                      /\ epochs' \in [Slots -> 0 .. Settled]
                      /\ pairs' \in [Slots -> Pair] /\ Budgeted'
                      /\ \A x \in Slots : pairs[x].budget # 0 => pairs'[x].budget # 0
<1>1. b # 0 => b \in Granted
  BY PccAssumption DEF Granted
<1>2. \A s \in Slots : Disturb(s) \/ UNCHANGED epochs => epochs' \in [Slots -> 0 .. Settled]
  BY DEF Disturb, PccInv, TypeOK, Settled
<1>3. ASSUME NEW s \in Slots, Rebudget(s, b, batch), pairs[s].tag = tag
      PROVE  Written
  <2> DEFINE p == [pairs[s] EXCEPT !.budget = b, !.level = ShareOf(b, pairs[s].qpCount)]
  <2>1. pairs[s] \in Pair
    BY DEF PccInv, TypeOK
  <2>2. b \in Granted /\ ShareOf(b, pairs[s].qpCount) \in Granted
    BY <1>1, <1>3, <2>1, ShareIsGranted DEF Rebudget, Pair
  <2>3. /\ p \in Pair /\ p.budget = b /\ p.level \in Granted
    BY <2>1, <2>2, Floors DEF Pair, Granted
  <2>4. pairs' = [pairs EXCEPT ![s] = p] /\ b # 0
    BY <1>3, <2>1 DEF Rebudget, Pair
  <2> HIDE DEF p
  <2>5. /\ pairs' \in [Slots -> Pair] /\ Budgeted'
        /\ \A x \in Slots : pairs[x].budget # 0 => pairs'[x].budget # 0
    BY <2>2, <2>3, <2>4, EntryKeeps
  <2> QED
    BY <1>2, <1>3, <2>5 DEF Rebudget
<1>4. ASSUME NEW s \in Slots, Delete(s, batch)
      PROVE  Written
  <2> DEFINE p == [pairs[s] EXCEPT !.tag = NoTag, !.qpCount = IF batch THEN 0 ELSE @]
  <2>1. pairs[s] \in Pair
    BY DEF PccInv, TypeOK
  <2>2. /\ p \in Pair /\ p.budget = pairs[s].budget /\ p.level = pairs[s].level
        /\ p.tag = NoTag
    BY <2>1 DEF Pair
  <2>3. pairs' = [pairs EXCEPT ![s] = p]
    BY <1>4, <2>1 DEF Delete, Pair
  <2>4. /\ pairs[s].budget \in Granted \cup {0}
        /\ pairs[s].budget # 0 => pairs[s].level \in Granted
    BY DEF PccInv, Budgeted
  <2> HIDE DEF p
  <2>5. /\ pairs' \in [Slots -> Pair] /\ Budgeted'
        /\ \A x \in Slots : pairs[x].budget # 0 => pairs'[x].budget # 0
    BY <2>2, <2>3, <2>4, EntryKeeps
  <2> QED
    BY <1>2, <1>4, <2>5 DEF Delete
<1>5. ASSUME Install(tag, b, batch)
      PROVE  Written
  <2> DEFINE s == Min(SlotsOf(NoTag))
             n == IF batch THEN 0 ELSE pairs[s].qpCount
             p == [pairs[s] EXCEPT !.tag = tag, !.budget = b, !.level = b,
                                   !.qpCount = n, !.age = Epoch + 1]
  <2>1. s \in Slots
    BY <1>5, FirstSlot DEF Install, SlotsOf
  <2>2. /\ b # 0 /\ Disturb(s) /\ UNCHANGED <<qpMap, thread, rate, envVars>>
        /\ pairs' = [pairs EXCEPT ![s] =
                      [@ EXCEPT !.tag = tag, !.budget = b, !.level = b,
                                !.qpCount = n, !.age = Epoch + 1]]
    BY <1>5 DEF Install
  <2> HIDE DEF s
  <2>3. pairs[s] \in Pair
    BY <2>1 DEF PccInv, TypeOK
  <2>4. b \in Granted
    BY <1>1, <2>2
  <2>5. p \in Pair /\ p.budget = b /\ p.level = b /\ pairs' = [pairs EXCEPT ![s] = p]
    <3>1. n \in Nat
      BY <2>3 DEF Pair
    <3>2. pairs' = [pairs EXCEPT ![s] = p]
      BY <2>2, <2>3 DEF Pair
    <3> HIDE DEF n
    <3>3. Epoch + 1 \in 0 .. Epoch + 1 /\ b \in Nat /\ b \in MinLevel .. MaxRate
      BY <2>4, Floors DEF Granted
    <3> QED
      BY <2>3, <3>1, <3>2, <3>3 DEF Pair
  <2> HIDE DEF p
  <2>6. /\ pairs' \in [Slots -> Pair] /\ Budgeted'
        /\ \A x \in Slots : pairs[x].budget # 0 => pairs'[x].budget # 0
    BY <2>1, <2>2, <2>4, <2>5, EntryKeeps
  <2> QED
    BY <1>2, <2>1, <2>2, <2>6
<1>6. Written
  <2>1. ASSUME NEW s \in SlotsOf(tag)
        PROVE  s \in Slots /\ pairs[s].tag = tag
    BY <2>1 DEF SlotsOf
  <2> QED
    BY <1>3, <1>4, <1>5, <2>1 DEF Mailbox
<1>7. Learned' /\ InHand'
  BY <1>6, BudgetsStay
<1> QED
  BY <1>6, <1>7 DEF PccInv, TypeOK, envVars

------------------------------------------------------------------------------
(* The event handler *)

\* What a step of thread t does when it leaves the entries' budgets alone and every
\* other thread as it is.
LEMMA HandlerKeeps ==
  ASSUME PccInv, NEW t \in Threads,
         UNCHANGED sending, epochs' \in [Slots -> 0 .. Settled],
         pairs' \in [Slots -> Pair], Budgeted',
         \A x \in Slots : pairs[x].budget # 0 => pairs'[x].budget # 0,
         qpMap' \in [Qps -> [slot : Slots, lag : 0 .. 2] \cup {Unlearned}], Learned',
         rate' \in [DataQps -> Granted], heard' \subseteq sending,
         thread' \in [Threads -> Handling \cup {IdleThread}],
         \A u \in Threads : u # t => thread'[u] = thread[u],
         \/ thread'[t] = IdleThread
         \/ /\ pairs[thread'[t].slot].budget # 0 /\ thread'[t].slot \in Slots
            /\ thread'[t].pc = "assign" => thread'[t].read \in Granted
  PROVE  PccInv'
<1>1. TypeOK'
  BY DEF PccInv, TypeOK, Granted
<1>2. ASSUME NEW u \in Threads, ~Idle(u)'
      PROVE  /\ pairs'[thread'[u].slot].budget # 0
             /\ At(u, "assign")' => thread'[u].read \in Granted
  <2>1. CASE u = t
    BY <1>2, <2>1 DEF Idle, At, IdleThread
  <2>2. CASE u # t
    <3>1. thread'[u] = thread[u] /\ ~Idle(u)
      BY <1>2, <2>2 DEF Idle
    <3>2. thread[u].slot \in Slots
      BY <3>1 DEF PccInv, TypeOK, Handling, Idle, IdleThread
    <3> QED
      BY <3>1, <3>2 DEF PccInv, InHand, At
  <2> QED
    BY <2>1, <2>2
<1> QED
  BY <1>1, <1>2 DEF PccInv, InHand

LEMMA HandleKeeps ==
  ASSUME PccInv, NEW t \in Threads, NEW q \in Qps, Handle(t, q)
  PROVE  PccInv'
<1> DEFINE found == IF qpMap[q] # Unlearned THEN {qpMap[q].slot} ELSE SlotsOf(TagOf[q])
<1>1. \A s \in found : s \in Slots /\ pairs[s].budget # 0
  <2>1. CASE qpMap[q] # Unlearned
    BY <2>1 DEF PccInv, TypeOK, Learned
  <2>2. CASE qpMap[q] = Unlearned
    BY <2>2, PccAssumption DEF PccInv, Budgeted, SlotsOf
  <2> QED
    BY <2>1, <2>2
<1>2. UNCHANGED <<pairs, sending, epochs>> /\ Budgeted'
  BY DEF Handle, PccInv, Budgeted
<1>3. CASE found = {} /\ Answer(t, q, MaxRate) /\ UNCHANGED qpMap
  <2>1. MaxRate \in Granted
    BY Floors DEF Granted
  <2>2. Learned'
    BY <1>2, <1>3 DEF PccInv, Learned
  <2> QED
    BY <1>2, <1>3, <2>1, <2>2, AnswerKeeps, HandlerKeeps DEF PccInv, TypeOK
<1>4. ASSUME NEW s \in found,
             qpMap' = [qpMap EXCEPT ![q] = [slot |-> s, lag |-> 0]],
             IF Continuous(q)
               THEN /\ thread' = [thread EXCEPT ![t] =
                                   [pc |-> "count", qp |-> q, slot |-> s, late |-> 0,
                                    read |-> pairs[s].qpSeen]]
                    /\ UNCHANGED <<rate, heard>>
               ELSE Contend(t, q, s, 0)
      PROVE  PccInv'
  <2>1. s \in Slots /\ pairs[s].budget # 0 /\ pairs[s].qpSeen \in Nat
    BY <1>1, <1>4 DEF PccInv, TypeOK, Pair
  <2>2. /\ qpMap' \in [Qps -> [slot : Slots, lag : 0 .. 2] \cup {Unlearned}]
        /\ Learned'
    <3>1. [slot |-> s, lag |-> 0] \in [slot : Slots, lag : 0 .. 2]
      BY <2>1
    <3> QED
      BY <1>2, <1>4, <2>1, <3>1 DEF PccInv, TypeOK, Learned
  <2>3. /\ rate' \in [DataQps -> Granted] /\ heard' \subseteq sending
        /\ thread' \in [Threads -> Handling \cup {IdleThread}]
        /\ \A u \in Threads : u # t => thread'[u] = thread[u]
        /\ \/ thread'[t] = IdleThread
           \/ thread'[t].slot = s /\ thread'[t].pc \in {"count", "roll"}
    <3>1. CASE Continuous(q)
      <4>1. [pc |-> "count", qp |-> q, slot |-> s, late |-> 0, read |-> pairs[s].qpSeen]
              \in Handling
        BY <2>1 DEF Handling
      <4> QED
        BY <1>4, <3>1, <4>1 DEF PccInv, TypeOK, Granted
    <3>2. CASE ~Continuous(q)
      BY <1>4, <2>1, <3>2, ContendKeeps
    <3> QED
      BY <3>1, <3>2
  <2> QED
    BY <1>2, <2>1, <2>2, <2>3, HandlerKeeps DEF PccInv, TypeOK
<1> QED
  BY <1>3, <1>4 DEF Handle

\* A thread that is not idle has an entry with a budget in hand.
LEMMA HandFacts ==
  ASSUME PccInv, NEW t \in Threads, ~Idle(t)
  PROVE  /\ thread[t] \in Handling
         /\ pairs[thread[t].slot].budget \in Granted
         /\ pairs[thread[t].slot] \in Pair
<1>1. thread[t] \in Handling
  BY DEF PccInv, TypeOK, Idle, IdleThread
<1>2. thread[t].slot \in Slots
  BY <1>1 DEF Handling
<1> QED
  BY <1>1, <1>2 DEF PccInv, TypeOK, Budgeted, InHand

LEMMA CountQpKeeps ==
  ASSUME PccInv, NEW t \in Threads, CountQp(t)
  PROVE  PccInv'
<1> DEFINE s == thread[t].slot
           p == [pairs[s] EXCEPT !.qpSeen = UpTo(MaxSeen, thread[t].read + 1)]
<1>1. /\ thread[t] \in Handling /\ pairs[s].budget \in Granted /\ pairs[s] \in Pair
      /\ s \in Slots /\ thread[t].qp \in Qps /\ thread[t].late \in 0 .. 1
  <2>1. ~Idle(t)
    BY DEF CountQp, At, Idle
  <2> QED
    BY <2>1, HandFacts DEF Handling
<1>2. /\ pairs[s].budget # 0 /\ pairs[s].level \in Granted
  BY <1>1, Floors DEF PccInv, Budgeted
<1>3. /\ p \in Pair /\ p.budget = pairs[s].budget /\ p.level = pairs[s].level
  <2>1. UpTo(MaxSeen, thread[t].read + 1) \in Nat
    BY <1>1, PccAssumption DEF Handling, UpTo
  <2> QED
    BY <1>1, <2>1 DEF Pair
<1>4. pairs' = [pairs EXCEPT ![s] = p]
  BY <1>1 DEF CountQp, Pair
<1>5. /\ epochs' \in [Slots -> 0 .. Settled] /\ UNCHANGED <<qpMap, sending>>
  BY <1>1 DEF CountQp, PccInv, TypeOK, Settled
<1>6. Contend(t, thread[t].qp, s, thread[t].late)
  BY DEF CountQp
<1> HIDE DEF p
<1>7. /\ pairs' \in [Slots -> Pair] /\ Budgeted'
      /\ \A x \in Slots : pairs[x].budget # 0 => pairs'[x].budget # 0
  BY <1>1, <1>2, <1>3, <1>4, EntryKeeps
<1>8. Learned'
  BY <1>5, <1>7, BudgetsStay
<1>9. /\ rate' \in [DataQps -> Granted] /\ heard' \subseteq sending
      /\ thread' \in [Threads -> Handling \cup {IdleThread}]
      /\ \A u \in Threads : u # t => thread'[u] = thread[u]
      /\ thread'[t] = IdleThread \/ (thread'[t].pc = "roll" /\ thread'[t].slot = s)
  BY <1>1, <1>2, <1>6, ContendKeeps
<1> QED
  BY <1>1, <1>2, <1>5, <1>7, <1>8, <1>9, HandlerKeeps DEF PccInv, TypeOK

LEMMA RollKeeps ==
  ASSUME PccInv, NEW t \in Threads, Roll(t)
  PROVE  PccInv'
<1> DEFINE s == thread[t].slot
           p == [TakeCount(pairs[s]) EXCEPT !.age = thread[t].late]
<1>1. /\ thread[t] \in Handling /\ pairs[s].budget \in Granted /\ pairs[s] \in Pair
      /\ s \in Slots
  <2>1. ~Idle(t)
    BY DEF Roll, At, Idle
  <2> QED
    BY <2>1, HandFacts DEF Handling
<1>2. /\ pairs[s].budget # 0 /\ pairs[s].level \in Granted
  BY <1>1, Floors DEF PccInv, Budgeted
<1>3. /\ p \in Pair /\ p.budget = pairs[s].budget /\ p.level = pairs[s].level
  <2>1. TakeCount(pairs[s]) \in Pair
    BY <1>1 DEF TakeCount, Pair
  <2>2. thread[t].late \in 0 .. Epoch + 1
    BY <1>1, Floors DEF Handling
  <2> QED
    BY <1>1, <2>1, <2>2 DEF TakeCount, Pair
<1>4. pairs' = [pairs EXCEPT ![s] = p]
  BY <1>1 DEF Roll
<1>5. /\ epochs' \in [Slots -> 0 .. Settled] /\ UNCHANGED <<rate, heard, sending>>
  BY <1>1 DEF Roll, PccInv, TypeOK, Settled, UpTo, envVars
<1> HIDE DEF p
<1>6. /\ pairs' \in [Slots -> Pair] /\ Budgeted'
      /\ \A x \in Slots : pairs[x].budget # 0 => pairs'[x].budget # 0
  BY <1>1, <1>2, <1>3, <1>4, EntryKeeps
<1>7. /\ qpMap' \in [Qps -> [slot : Slots, lag : 0 .. 2] \cup {Unlearned}]
      /\ Learned'
  <2>1. \A q \in Qps : \/ qpMap'[q] = qpMap[q]
                       \/ /\ qpMap[q] # Unlearned
                          /\ qpMap'[q] = [qpMap[q] EXCEPT !.lag = UpTo(2, @ + 1)]
    BY DEF Roll
  <2>2. \A q \in Qps : qpMap[q] # Unlearned =>
          /\ qpMap[q] \in [slot : Slots, lag : 0 .. 2]
          /\ [qpMap[q] EXCEPT !.lag = UpTo(2, @ + 1)] \in [slot : Slots, lag : 0 .. 2]
          /\ [qpMap[q] EXCEPT !.lag = UpTo(2, @ + 1)].slot = qpMap[q].slot
    BY DEF PccInv, TypeOK, UpTo
  <2>3. qpMap' = [q \in Qps |-> qpMap'[q]]
    BY DEF Roll
  <2> QED
    BY <1>6, <2>1, <2>2, <2>3 DEF PccInv, TypeOK, Learned
<1>8. /\ thread' \in [Threads -> Handling \cup {IdleThread}]
      /\ \A u \in Threads : u # t => thread'[u] = thread[u]
      /\ thread'[t].slot = s /\ thread'[t].read \in Granted
  <2>1. thread' = [thread EXCEPT ![t] =
                    [thread[t] EXCEPT !.pc = "assign", !.read = pairs[s].budget]]
    BY <1>1 DEF Roll, PccInv, TypeOK
  <2>2. [thread[t] EXCEPT !.pc = "assign", !.read = pairs[s].budget] \in Handling
    BY <1>1, Floors DEF Handling
  <2>3. /\ [thread[t] EXCEPT !.pc = "assign", !.read = pairs[s].budget].slot = s
        /\ [thread[t] EXCEPT !.pc = "assign", !.read = pairs[s].budget].read = pairs[s].budget
    BY <1>1 DEF Handling
  <2> QED
    BY <1>1, <2>1, <2>2, <2>3 DEF PccInv, TypeOK
<1> QED
  BY <1>1, <1>2, <1>5, <1>6, <1>7, <1>8, HandlerKeeps DEF PccInv, TypeOK, Granted

LEMMA AssignKeeps ==
  ASSUME PccInv, NEW t \in Threads, Assign(t)
  PROVE  PccInv'
<1> DEFINE s == thread[t].slot
           level == IF thread[t].read > 0 THEN ShareOf(thread[t].read, pairs[s].qpCount)
                                          ELSE pairs[s].level
           p == [pairs[s] EXCEPT !.level = level]
<1>1. /\ thread[t] \in Handling /\ pairs[s].budget \in Granted /\ pairs[s] \in Pair
      /\ s \in Slots /\ thread[t].qp \in Qps
  <2>1. ~Idle(t)
    BY DEF Assign, At, Idle
  <2> QED
    BY <2>1, HandFacts DEF Handling
<1>2. level \in Granted
  <2>1. thread[t].read \in Granted
    BY DEF Assign, At, Idle, PccInv, InHand
  <2>2. pairs[s].qpCount \in Nat
    BY <1>1 DEF Pair
  <2>3. ShareOf(thread[t].read, pairs[s].qpCount) \in Granted
    BY <2>1, <2>2, ShareIsGranted
  <2>4. thread[t].read > 0
    BY <2>1, Floors DEF Granted
  <2> QED
    BY <2>3, <2>4
<1>3. /\ pairs' = [pairs EXCEPT ![s].level = level]
      /\ Answer(t, thread[t].qp, level)
      /\ UNCHANGED <<qpMap, sending, epochs>>
  BY DEF Assign
<1> HIDE DEF level
<1>4. /\ p \in Pair /\ p.budget = pairs[s].budget /\ p.level = level
  BY <1>1, <1>2, Floors DEF Pair, Granted
<1>5. pairs' = [pairs EXCEPT ![s] = p]
  BY <1>3
<1> HIDE DEF p
<1>6. /\ pairs' \in [Slots -> Pair] /\ Budgeted'
      /\ \A x \in Slots : pairs[x].budget # 0 => pairs'[x].budget # 0
  BY <1>1, <1>2, <1>4, <1>5, Floors, EntryKeeps
<1>7. Learned'
  BY <1>3, <1>6, BudgetsStay
<1>8. /\ rate' \in [DataQps -> Granted] /\ heard' \subseteq sending
      /\ thread' \in [Threads -> Handling \cup {IdleThread}]
      /\ \A u \in Threads : thread'[u] = IF u = t THEN IdleThread ELSE thread[u]
  BY <1>1, <1>2, <1>3, AnswerKeeps
<1> QED
  BY <1>3, <1>6, <1>7, <1>8, HandlerKeeps DEF PccInv, TypeOK

------------------------------------------------------------------------------
(* The QPs, time, and the specification *)

LEMMA SwitchKeeps ==
  ASSUME PccInv, NEW q \in Qps, Switch(q)
  PROVE  PccInv'
<1>1. /\ UNCHANGED <<pairs, qpMap, thread, rate>> /\ heard' \subseteq sending'
      /\ sending' \subseteq DataQps /\ epochs' \in [Slots -> 0 .. Settled]
  BY DEF Switch, PccInv, TypeOK, Settled
<1> QED
  BY <1>1 DEF PccInv, TypeOK, Budgeted, Learned, InHand, Idle, At

LEMMA TickKeeps ==
  ASSUME PccInv, Tick
  PROVE  PccInv'
<1>1. /\ UNCHANGED <<qpMap, rate, sending, epochs>> /\ heard' = {}
  BY DEF Tick
<1>2. /\ pairs' \in [Slots -> Pair]
      /\ \A s \in Slots : /\ pairs'[s].budget = pairs[s].budget
                          /\ pairs'[s].level = pairs[s].level
                          /\ pairs'[s].tag = pairs[s].tag
  <2>1. \A s \in Slots : /\ [pairs[s] EXCEPT !.age = UpTo(Epoch + 1, @ + 1)] \in Pair
                         /\ [pairs[s] EXCEPT !.age = UpTo(Epoch + 1, @ + 1)].budget = pairs[s].budget
                         /\ [pairs[s] EXCEPT !.age = UpTo(Epoch + 1, @ + 1)].level = pairs[s].level
                         /\ [pairs[s] EXCEPT !.age = UpTo(Epoch + 1, @ + 1)].tag = pairs[s].tag
    BY Floors DEF PccInv, TypeOK, Pair, UpTo
  <2> QED
    BY <2>1 DEF Tick
<1>3. Budgeted' /\ Learned'
  BY <1>1, <1>2 DEF PccInv, TypeOK, Budgeted, Learned
<1>4. /\ thread' \in [Threads -> Handling \cup {IdleThread}]
      /\ \A t \in Threads : /\ Idle(t)' <=> Idle(t)
                            /\ ~Idle(t) => /\ thread'[t].slot = thread[t].slot
                                           /\ thread'[t].pc = thread[t].pc
                                           /\ thread'[t].read = thread[t].read
  <2>1. \A t \in Threads : ~Idle(t) =>
          /\ thread[t] \in Handling /\ thread'[t] = [thread[t] EXCEPT !.late = 1]
          /\ thread'[t] \in Handling
          /\ thread'[t].slot = thread[t].slot
          /\ thread'[t].pc = thread[t].pc
          /\ thread'[t].read = thread[t].read
    BY DEF Tick, PccInv, TypeOK, Idle, IdleThread, Handling
  <2>2. \A t \in Threads : Idle(t) => thread'[t] = IdleThread
    BY DEF Tick
  <2>3. thread' = [t \in Threads |-> thread'[t]]
    BY DEF Tick
  <2> QED
    BY <2>1, <2>2, <2>3 DEF Idle, IdleThread
<1>5. InHand'
  <2>1. \A t \in Threads : ~Idle(t) => thread[t].slot \in Slots
    BY HandFacts DEF Handling
  <2> QED
    BY <1>2, <1>4, <2>1 DEF PccInv, InHand, At
<1> QED
  BY <1>1, <1>2, <1>3, <1>4, <1>5 DEF PccInv, TypeOK

LEMMA PccHolds == Spec => []PccInv
<1>1. Init => PccInv
  <2>1. FreePair \in Pair
    BY Floors DEF FreePair, Pair
  <2>2. MaxRate \in MinLevel .. MaxRate
    BY Floors
  <2> QED
    BY <2>1, <2>2 DEF Init, PccInv, TypeOK, Budgeted, Learned, InHand, Idle, IdleThread,
                      Settled, FreePair
<1>2. PccInv /\ [Next]_vars => PccInv'
  <2> SUFFICES ASSUME PccInv, [Next]_vars PROVE PccInv'
    OBVIOUS
  <2>1. ASSUME NEW t \in Threads, NEW q \in Qps, Event(t, q)
        PROVE  PccInv'
    BY <2>1, HandleKeeps DEF Event
  <2>2. CASE UNCHANGED vars
    BY <2>2 DEF vars, envVars, PccInv, TypeOK, Budgeted, Learned, InHand, Idle, At
  <2> QED
    BY <2>1, <2>2, MailboxKeeps, CountQpKeeps, RollKeeps, AssignKeeps, SwitchKeeps, TickKeeps
       DEF Next
<1> QED
  BY <1>1, <1>2, PTL DEF Spec

\* Whatever threads, mailbox, QPs and time do in whatever order, the entries keep
\* their types, and no QP is stopped by a rate below the floor.
THEOREM PccTypes == Spec => []TypeOK
<1>1. PccInv => TypeOK
  BY DEF PccInv
<1> QED
  BY <1>1, PccHolds, PTL

------------------------------------------------------------------------------
(* The budget: what holds after how many epochs *)

\* The QP map and the table agree: a learned QP's pair, where there is one, is in
\* the entry that the QP was learned with, and no other pair is.
Coherent ==
  \A q \in Qps : qpMap[q] # Unlearned =>
    /\ SlotsOf(TagOf[q]) \subseteq {qpMap[q].slot}
    /\ pairs[qpMap[q].slot].tag \in {NoTag, TagOf[q]}

\* A QP is handled by one thread at a time, with the entry it was learned with, and
\* a pair has one entry.
Orderly ==
  /\ \A t \in Threads : ~Idle(t) => /\ qpMap[thread[t].qp] # Unlearned
                                    /\ qpMap[thread[t].qp].slot = thread[t].slot
  /\ \A t, u \in Threads : ~Idle(t) /\ ~Idle(u) /\ thread[t].qp = thread[u].qp => t = u
  /\ \A s, x \in Slots : pairs[s].tag = pairs[x].tag /\ pairs[s].tag # NoTag => s = x

On(t, pc, s) == At(t, pc) /\ thread[t].slot = s

\* Seen in the running epoch, and counted in it.
Done(q, s) == qpMap[q] # Unlearned /\ qpMap[q].slot = s /\ qpMap[q].lag = 0
Counting(s) == {q \in Qps : \E t \in Threads : On(t, "count", s) /\ thread[t].qp = q}
Counted(s) == {q \in Senders(s) : Done(q, s)} \ Counting(s)

\* Answered since the epoch was claimed, from its second tick on.
Since(q, s) == (pairs[s].age >= 2 /\ q \in heard) \/ pairs[s].age >= 3

Share(s) == ShareOf(pairs[s].budget, pairs[s].qpCount)

\* One epoch on: a QP that is being counted sends and was seen, and a thread that
\* assigns began before the claim was two ticks old.
CountersSend(s) ==
  \A t \in Threads : On(t, "count", s) =>
    thread[t].qp \in Senders(s) /\ Done(thread[t].qp, s)
AssignersAreLate(s) ==
  \A t \in Threads : On(t, "assign", s) => pairs[s].age <= 1 + thread[t].late

\* Two epochs on: only the thread that closed this epoch still assigns, with the
\* budget of today, and who was answered since was seen.
AssignersAreNew(s) ==
  \A t \in Threads : On(t, "assign", s) =>
    pairs[s].age <= thread[t].late /\ thread[t].read = pairs[s].budget
AnsweredIsDone(s) == \A q \in Senders(s) : Since(q, s) => Done(q, s)

\* Three: the QPs that send were seen in the last epoch, and qp_seen counts them.
SendersAreKnown(s) ==
  \A q \in Senders(s) :
    qpMap[q] # Unlearned /\ qpMap[q].slot = s /\ qpMap[q].lag \in 0 .. 1
SeenIsCounted(s) == pairs[s].qpSeen = Cardinality(Counted(s))

\* Four: qp_count counts them, the level is a share once it is assigned, and so is
\* the rate of whoever was answered since.
CountIsSenders(s) == Senders(s) # {} => pairs[s].qpCount = Cardinality(Senders(s))
LevelIsShare(s) ==
  epochs[s] >= 5 \/ (\A t \in Threads : ~On(t, "assign", s)) => pairs[s].level = Share(s)
RateIsShare(s) ==
  \A q \in Senders(s) : epochs[s] >= 5 \/ Since(q, s) => rate[q] = Share(s)

Rounds(s) ==
  pairs[s].tag # NoTag =>
    /\ epochs[s] >= 1 => CountersSend(s) /\ AssignersAreLate(s)
    /\ epochs[s] >= 2 => AssignersAreNew(s) /\ AnsweredIsDone(s)
    /\ epochs[s] >= 3 => SendersAreKnown(s) /\ SeenIsCounted(s)
    /\ epochs[s] >= 4 => CountIsSenders(s) /\ LevelIsShare(s) /\ RateIsShare(s)

------------------------------------------------------------------------------

\* What an event at a pair's entry may do besides counting: it answers its QP with
\* the level, and who is seen stays seen.
Attends(s) ==
  /\ pairs'[s].tag = pairs[s].tag /\ pairs'[s].budget = pairs[s].budget
  /\ pairs'[s].level = pairs[s].level /\ pairs'[s].qpCount = pairs[s].qpCount
  /\ pairs'[s].age = pairs[s].age
  /\ Senders(s)' = Senders(s) /\ epochs'[s] = epochs[s]
  /\ \A q \in Senders(s) :
       /\ Done(q, s) => Done(q, s)'
       /\ qpMap'[q] = qpMap[q] \/ Done(q, s)'
       /\ \/ rate'[q] = rate[q] /\ (q \in heard' => q \in heard)
          \/ rate'[q] = pairs[s].level /\ (q \in heard' => q \in heard \/ Done(q, s)')
  /\ \A t \in Threads :
       /\ On(t, "assign", s)' <=> On(t, "assign", s)
       /\ On(t, "assign", s) => thread'[t] = thread[t]
  /\ epochs[s] >= 1 => CountersSend(s)'

LEMMA AttendKeeps ==
  ASSUME PccInv, NEW s \in Slots, Rounds(s), Attends(s),
         pairs[s].tag # NoTag /\ epochs[s] >= 3 => SeenIsCounted(s)'
  PROVE  Rounds(s)'
<1> SUFFICES ASSUME pairs'[s].tag # NoTag, pairs[s].tag # NoTag PROVE Rounds(s)'
  BY DEF Rounds, Attends
<1>0. /\ epochs[s] \in Nat /\ pairs[s].age \in Nat
      /\ \A t \in Threads : On(t, "assign", s) => thread[t].late \in 0 .. 1
  BY DEF PccInv, TypeOK, Pair, Settled, On, At, IdleThread, Handling
<1>1. epochs[s] >= 1 => CountersSend(s)' /\ AssignersAreLate(s)'
  <2>1. epochs[s] >= 1 => CountersSend(s)'
    BY DEF Attends
  <2>2. epochs[s] >= 1 => AssignersAreLate(s)'
    BY DEF Attends, AssignersAreLate, Rounds
  <2> QED
    BY <2>1, <2>2
<1>2. epochs[s] >= 2 => AssignersAreNew(s)' /\ AnsweredIsDone(s)'
  <2>1. epochs[s] >= 2 => AssignersAreNew(s)'
    BY DEF Attends, AssignersAreNew, Rounds
  <2>2. epochs[s] >= 2 => AnsweredIsDone(s)'
    BY DEF Attends, AnsweredIsDone, Rounds, Since
  <2> QED
    BY <2>1, <2>2
<1>3. epochs[s] >= 3 => SendersAreKnown(s)' /\ SeenIsCounted(s)'
  BY DEF Attends, SendersAreKnown, Rounds, Done
<1>4. epochs[s] >= 4 => CountIsSenders(s)' /\ LevelIsShare(s)' /\ RateIsShare(s)'
  <2>1. epochs[s] >= 4 => CountIsSenders(s)'
    BY DEF Attends, CountIsSenders, Rounds
  <2>2. Share(s)' = Share(s)
    BY DEF Attends, Share
  <2>3. epochs[s] >= 4 => LevelIsShare(s)'
    BY <2>2 DEF Attends, LevelIsShare, Rounds
  <2>4. ASSUME NEW q \in Senders(s), epochs[s] >= 4, epochs[s] >= 5 \/ Since(q, s)'
        PROVE  rate'[q] = Share(s)
    <3>1. CASE rate'[q] = rate[q] /\ (q \in heard' => q \in heard)
      BY <2>4, <3>1 DEF Attends, RateIsShare, Rounds, Since
    <3>2. CASE rate'[q] = pairs[s].level
      <4>1. epochs[s] >= 5 \/ pairs[s].age >= 2
        BY <1>0, <2>4 DEF Since, Attends
      <4>2. pairs[s].age >= 2 => \A t \in Threads : ~On(t, "assign", s)
        BY <1>0, <2>4 DEF Rounds, AssignersAreNew
      <4> QED
        BY <2>4, <3>2, <4>1, <4>2 DEF Rounds, LevelIsShare
    <3> QED
      BY <3>1, <3>2 DEF Attends
  <2> QED
    BY <2>1, <2>2, <2>3, <2>4 DEF RateIsShare, Attends
<1> QED
  BY <1>0, <1>1, <1>2, <1>3, <1>4 DEF Rounds, Attends

\* What an answered event does to the QPs, and one that goes on to the epoch.
Answers(t, q, level) ==
  /\ \A u \in Threads : u # t => thread'[u] = thread[u]
  /\ \A p \in sending : p # q => rate'[p] = rate[p] /\ (p \in heard' <=> p \in heard)
  /\ q \in sending => \/ rate'[q] = rate[q] /\ (q \in heard' <=> q \in heard)
                      \/ rate'[q] = level

LEMMA AnswerFacts ==
  ASSUME PccInv, NEW t \in Threads, NEW q \in Qps, NEW r, Answer(t, q, r)
  PROVE  Answers(t, q, r) /\ thread'[t] = IdleThread
BY DEF PccInv, TypeOK, Answer, Answers

LEMMA ContendFacts ==
  ASSUME PccInv, NEW t \in Threads, NEW q \in Qps, NEW s \in Slots, NEW late,
         Contend(t, q, s, late)
  PROVE  /\ Answers(t, q, pairs[s].level)
         /\ thread'[t] = IdleThread \/ thread'[t].pc = "roll"
<1>1. CASE Over(pairs[s].age - late)
  BY <1>1 DEF Contend, Answers, PccInv, TypeOK
<1>2. CASE ~Over(pairs[s].age - late)
  BY <1>2, AnswerFacts DEF Contend
<1> QED
  BY <1>1, <1>2

\* The QP is seen in its pair's entry, and in no other; it is counted if it sends.
LEMMA HandleFacts ==
  ASSUME PccInv, Orderly, Coherent', NEW t \in Threads, NEW q \in Qps, Event(t, q),
         NEW s \in Slots, pairs[s].tag # NoTag
  PROVE  /\ Idle(t) /\ UNCHANGED <<pairs, sending, epochs>>
         /\ \A u \in Threads : ~Idle(u) => thread[u].qp # q
         /\ \A p \in Qps : p # q => qpMap'[p] = qpMap[p]
         /\ Answers(t, q, pairs[s].level) \/ (q \notin Senders(s) /\ \E r : Answers(t, q, r))
         /\ q \in Senders(s) => Done(q, s)' /\ (On(t, "count", s)' <=> Continuous(q))
         /\ ~On(t, "assign", s)'
         /\ On(t, "count", s)' =>
              /\ q \in Senders(s) /\ thread'[t].qp = q
<1> DEFINE found == IF qpMap[q] # Unlearned THEN {qpMap[q].slot} ELSE SlotsOf(TagOf[q])
<1>1. /\ Idle(t) /\ UNCHANGED <<pairs, sending, epochs>>
      /\ \A u \in Threads : ~Idle(u) => thread[u].qp # q
  BY DEF Event, Handle
<1>2. q \in Senders(s) => TagOf[q] = pairs[s].tag /\ s \in SlotsOf(TagOf[q]) /\ q \in sending
  BY DEF Senders, SlotsOf
<1>3. CASE found = {} /\ Answer(t, q, MaxRate) /\ UNCHANGED qpMap
  <2>1. q \notin Senders(s)
    BY <1>2, <1>3
  <2>2. Answers(t, q, MaxRate) /\ thread'[t] = IdleThread
    BY <1>3, AnswerFacts
  <2> QED
    BY <1>1, <1>3, <2>1, <2>2 DEF On, At, IdleThread
<1>4. ASSUME NEW x \in found,
             qpMap' = [qpMap EXCEPT ![q] = [slot |-> x, lag |-> 0]],
             IF Continuous(q)
               THEN /\ thread' = [thread EXCEPT ![t] =
                                   [pc |-> "count", qp |-> q, slot |-> x, late |-> 0,
                                    read |-> pairs[x].qpSeen]]
                    /\ UNCHANGED <<rate, heard>>
               ELSE Contend(t, q, x, 0)
      PROVE  /\ \A p \in Qps : p # q => qpMap'[p] = qpMap[p]
             /\ Answers(t, q, pairs[s].level)
                \/ (q \notin Senders(s) /\ \E r : Answers(t, q, r))
             /\ q \in Senders(s) => Done(q, s)' /\ (On(t, "count", s)' <=> Continuous(q))
             /\ ~On(t, "assign", s)'
             /\ On(t, "count", s)' =>
                  /\ q \in Senders(s) /\ thread'[t].qp = q
  <2>1. x \in Slots
    BY <1>4 DEF PccInv, TypeOK, SlotsOf
  <2>2. /\ qpMap'[q] = [slot |-> x, lag |-> 0] /\ qpMap'[q] # Unlearned
        /\ \A p \in Qps : p # q => qpMap'[p] = qpMap[p]
    BY <1>4 DEF PccInv, TypeOK, Unlearned
  <2>3. /\ {y \in Slots : pairs[y].tag = TagOf[q]} \subseteq {x}
        /\ pairs[x].tag \in {NoTag, TagOf[q]}
    <3>1. SlotsOf(TagOf[q])' = {y \in Slots : pairs[y].tag = TagOf[q]}
      BY <1>1 DEF SlotsOf
    <3>2. /\ SlotsOf(TagOf[q])' \subseteq {qpMap'[q].slot}
          /\ pairs'[qpMap'[q].slot].tag \in {NoTag, TagOf[q]}
      BY <2>2 DEF Coherent
    <3> QED
      BY <1>1, <2>2, <3>1, <3>2
  <2>4. q \in Senders(s) => x = s /\ Done(q, s)'
    BY <1>2, <2>2, <2>3 DEF SlotsOf, Done
  <2>5. CASE Continuous(q)
    <3>1. /\ thread'[t] = [pc |-> "count", qp |-> q, slot |-> x, late |-> 0,
                           read |-> pairs[x].qpSeen]
          /\ \A r : Answers(t, q, r)
      BY <1>4, <2>5 DEF Answers, PccInv, TypeOK
    <3>2. q \in sending
      BY <2>5 DEF Continuous, Event
    <3>3. x = s => q \in Senders(s)
      BY <2>3, <3>2 DEF Senders
    <3> QED
      BY <2>2, <2>4, <2>5, <3>1, <3>2, <3>3 DEF On, At
  <2>6. CASE ~Continuous(q)
    <3>1. /\ Answers(t, q, pairs[x].level)
          /\ thread'[t] = IdleThread \/ thread'[t].pc = "roll"
      BY <1>4, <2>1, <2>6, ContendFacts
    <3>2. ~On(t, "assign", s)' /\ ~On(t, "count", s)'
      BY <3>1 DEF On, At, IdleThread
    <3> QED
      BY <2>2, <2>4, <2>6, <3>1, <3>2
  <2> QED
    BY <2>5, <2>6
<1>5. \/ found = {} /\ Answer(t, q, MaxRate) /\ UNCHANGED qpMap
      \/ \E x \in found :
           /\ qpMap' = [qpMap EXCEPT ![q] = [slot |-> x, lag |-> 0]]
           /\ IF Continuous(q)
                THEN /\ thread' = [thread EXCEPT ![t] =
                                    [pc |-> "count", qp |-> q, slot |-> x, late |-> 0,
                                     read |-> pairs[x].qpSeen]]
                     /\ UNCHANGED <<rate, heard>>
                ELSE Contend(t, q, x, 0)
  BY DEF Event, Handle
<1> HIDE DEF found
<1> QED
  BY <1>1, <1>3, <1>4, <1>5

LEMMA EventRounds ==
  ASSUME PccInv, Orderly, Coherent', NEW t \in Threads, NEW q \in Qps, Event(t, q),
         NEW s \in Slots, Rounds(s)
  PROVE  Rounds(s)'
<1>1. CASE pairs[s].tag = NoTag
  BY <1>1 DEF Event, Handle, Rounds
<1>2. CASE pairs[s].tag # NoTag
  <2>1. /\ Idle(t) /\ UNCHANGED <<pairs, sending, epochs>>
        /\ \A u \in Threads : ~Idle(u) => thread[u].qp # q
        /\ \A p \in Qps : p # q => qpMap'[p] = qpMap[p]
        /\ Answers(t, q, pairs[s].level) \/ (q \notin Senders(s) /\ \E r : Answers(t, q, r))
        /\ q \in Senders(s) => Done(q, s)' /\ (On(t, "count", s)' <=> Continuous(q))
        /\ ~On(t, "assign", s)'
        /\ On(t, "count", s)' =>
             /\ q \in Senders(s) /\ thread'[t].qp = q
    BY <1>2, HandleFacts
  <2>2. Senders(s)' = Senders(s) /\ Senders(s) \subseteq sending /\ sending \subseteq Qps
    BY <2>1 DEF Senders, PccInv, TypeOK, DataQps
  <2>3. \A u \in Threads : u # t => thread'[u] = thread[u]
    BY <2>1 DEF Answers
  <2>4. \A u \in Threads, pc \in {"count", "assign"} :
          u # t => (On(u, pc, s)' <=> On(u, pc, s))
    BY <2>3 DEF On, At
  <2>5. ~On(t, "count", s) /\ ~On(t, "assign", s)
    BY <2>1 DEF Idle, On, At
  <2>6. \A p \in Qps : p # q => (Done(p, s)' <=> Done(p, s))
    BY <2>1 DEF Done
  <2>7. \A u \in Threads : On(u, "count", s) => thread[u].qp # q
    BY <2>1 DEF Idle, On, At
  <2>8. epochs[s] >= 1 => CountersSend(s)'
    <3> SUFFICES ASSUME epochs[s] >= 1, NEW u \in Threads, On(u, "count", s)'
                 PROVE  (thread[u].qp \in Senders(s) /\ Done(thread[u].qp, s))'
      BY DEF CountersSend
    <3>1. CASE u = t
      BY <2>1, <2>2, <3>1
    <3>2. CASE u # t
      <4>1. /\ thread'[u] = thread[u] /\ On(u, "count", s)
            /\ thread[u].qp \in Senders(s) /\ Done(thread[u].qp, s) /\ thread[u].qp # q
        BY <1>2, <2>3, <2>4, <2>7, <3>2 DEF Rounds, CountersSend
      <4> QED
        BY <2>2, <2>6, <4>1 DEF Done
    <3> QED
      BY <3>1, <3>2
  <2>9. Attends(s)
    BY <2>1, <2>2, <2>3, <2>4, <2>5, <2>6, <2>8 DEF Attends, Answers
  <2>10. epochs[s] >= 3 => SeenIsCounted(s)'
    <3> SUFFICES ASSUME epochs[s] >= 3 PROVE SeenIsCounted(s)'
      OBVIOUS
    <3>1. SeenIsCounted(s) /\ SendersAreKnown(s)
      BY <1>2 DEF Rounds
    <3>2. \A p \in Qps : p # q => (p \in Counting(s)' <=> p \in Counting(s))
      BY <2>1, <2>3, <2>4, <2>5 DEF Counting
    <3>3. \A p \in Senders(s) : p # q => (p \in Counted(s)' <=> p \in Counted(s))
      BY <2>2, <2>6, <3>2 DEF Counted
    <3>4. q \in Senders(s) => (q \in Counted(s)' <=> q \in Counted(s))
      <4> SUFFICES ASSUME q \in Senders(s) PROVE q \in Counted(s)' <=> q \in Counted(s)
        OBVIOUS
      <4>1. Continuous(q) <=> ~Done(q, s)
        BY <3>1 DEF SendersAreKnown, Continuous, Done
      <4>2. q \notin Counting(s)
        BY <2>7 DEF Counting
      <4>3. q \in Counting(s)' <=> On(t, "count", s)'
        BY <2>1, <2>2, <2>3, <2>4, <2>7 DEF Counting
      <4> QED
        BY <2>1, <2>2, <4>1, <4>2, <4>3 DEF Counted
    <3>5. Counted(s)' = Counted(s)
      BY <2>2, <3>3, <3>4 DEF Counted
    <3> QED
      BY <2>1, <3>1, <3>5 DEF SeenIsCounted
  <2> QED
    BY <2>9, <2>10, AttendKeeps
<1> QED
  BY <1>1, <1>2

\* A busy thread's QP sends for the pair in its entry, if it sends for any.
LEMMA InHandFacts ==
  ASSUME PccInv, Orderly, Coherent, NEW t \in Threads, ~Idle(t)
  PROVE  /\ thread[t].qp \in Qps /\ thread[t].slot \in Slots /\ thread[t].late \in 0 .. 1
         /\ thread[t].read \in Nat
         /\ \A s \in Slots : thread[t].qp \in Senders(s) => s = thread[t].slot
<1>1. thread[t] \in Handling
  BY HandFacts
<1>2. ASSUME NEW s \in Slots, thread[t].qp \in Senders(s)
      PROVE  s = thread[t].slot
  <2>1. s \in SlotsOf(TagOf[thread[t].qp])
    BY <1>2 DEF Senders, SlotsOf
  <2> QED
    BY <1>1, <2>1 DEF Orderly, Coherent, Handling
<1> QED
  BY <1>1, <1>2 DEF Handling

\* An answered event of another entry.
LEMMA ElsewhereRounds ==
  ASSUME PccInv, Orderly, Coherent, NEW t \in Threads, ~Idle(t), NEW r,
         Answers(t, thread[t].qp, r), NEW s \in Slots, Rounds(s), s # thread[t].slot,
         thread'[t] = IdleThread \/ thread'[t].pc = "roll",
         pairs'[s] = pairs[s], epochs'[s] = epochs[s], UNCHANGED <<qpMap, sending>>
  PROVE  Rounds(s)'
<1>1. \A u \in Threads : u # t => thread'[u] = thread[u]
  BY DEF Answers
<1>2. \A u \in Threads, pc \in {"count", "assign"} :
        /\ On(u, pc, s)' <=> On(u, pc, s)
        /\ On(u, pc, s) => thread'[u] = thread[u]
  BY <1>1 DEF On, At, IdleThread
<1>3. Senders(s)' = Senders(s) /\ thread[t].qp \notin Senders(s) /\ Senders(s) \subseteq sending
  BY InHandFacts DEF Senders
<1>4. \A q : Done(q, s)' <=> Done(q, s)
  BY DEF Done
<1>5. epochs[s] >= 1 /\ pairs[s].tag # NoTag => CountersSend(s)'
  BY <1>2, <1>3, <1>4 DEF Rounds, CountersSend, Done
<1>6. pairs[s].tag # NoTag => Attends(s)
  BY <1>2, <1>3, <1>4, <1>5 DEF Attends, Answers
<1>7. Counted(s)' = Counted(s)
  <2>1. Counting(s)' = Counting(s)
    BY <1>2 DEF Counting
  <2> QED
    BY <1>3, <1>4, <2>1 DEF Counted
<1>8. pairs[s].tag # NoTag /\ epochs[s] >= 3 => SeenIsCounted(s)'
  BY <1>7 DEF Rounds, SeenIsCounted
<1>9. CASE pairs[s].tag = NoTag
  BY <1>9 DEF Rounds
<1> QED
  BY <1>6, <1>8, <1>9, AttendKeeps

\* What has just changed or been raced for has nothing to keep.
LEMMA DisturbedRounds ==
  ASSUME NEW s \in Slots, epochs'[s] = 0
  PROVE  Rounds(s)'
BY DEF Rounds

LEMMA CountQpRounds ==
  ASSUME PccInv, Orderly, Coherent, NEW t \in Threads, CountQp(t),
         NEW s \in Slots, Rounds(s)
  PROVE  Rounds(s)'
<1> DEFINE q == thread[t].qp
           x == thread[t].slot
<1>1. ~Idle(t) /\ UNCHANGED <<qpMap, sending>>
  BY DEF CountQp, Idle, At
<1>2. q \in Qps /\ x \in Slots /\ thread[t].read \in Nat
  BY <1>1, InHandFacts
<1>3. /\ Answers(t, q, pairs[x].level)
      /\ thread'[t] = IdleThread \/ thread'[t].pc = "roll"
  BY <1>2, ContendFacts DEF CountQp
<1>4. /\ pairs' = [pairs EXCEPT ![x].qpSeen = UpTo(MaxSeen, thread[t].read + 1)]
      /\ epochs' = IF pairs[x].qpSeen = thread[t].read THEN epochs
                                                     ELSE [epochs EXCEPT ![x] = 0]
  BY DEF CountQp
<1>5. CASE s # x
  <2>1. pairs'[s] = pairs[s] /\ epochs'[s] = epochs[s]
    BY <1>4, <1>5
  <2> QED
    BY <1>1, <1>3, <1>5, <2>1, ElsewhereRounds
<1>6. CASE s = x /\ epochs'[s] = 0
  BY <1>6, DisturbedRounds
<1>7. CASE s = x /\ epochs'[s] # 0
  <2>1. /\ pairs[s].qpSeen = thread[t].read /\ epochs' = epochs
        /\ epochs[s] >= 1
    BY <1>2, <1>4, <1>7 DEF PccInv, TypeOK, Settled
  <2>2. /\ pairs'[s].tag = pairs[s].tag /\ pairs'[s].budget = pairs[s].budget
        /\ pairs'[s].level = pairs[s].level /\ pairs'[s].qpCount = pairs[s].qpCount
        /\ pairs'[s].age = pairs[s].age
        /\ pairs'[s].qpSeen = UpTo(MaxSeen, pairs[s].qpSeen + 1)
    BY <1>4, <1>7, <2>1 DEF PccInv, TypeOK, Pair
  <2>3. CASE pairs[s].tag = NoTag
    BY <2>2, <2>3 DEF Rounds
  <2>4. CASE pairs[s].tag # NoTag
    <3>1. On(t, "count", s) /\ q \in Senders(s) /\ Done(q, s) /\ CountersSend(s)
      BY <1>7, <2>1, <2>4 DEF CountQp, On, Rounds, CountersSend
    <3>2. /\ ~On(t, "count", s)' /\ ~On(t, "assign", s)' /\ ~On(t, "assign", s)
          /\ \A u \in Threads, pc \in {"count", "assign"} :
               u # t => /\ On(u, pc, s)' <=> On(u, pc, s)
                        /\ thread'[u] = thread[u]
      BY <1>3, <3>1 DEF On, At, IdleThread, Answers
    <3>3. Senders(s)' = Senders(s) /\ Senders(s) \subseteq sending
      BY <1>1, <2>2 DEF Senders
    <3>4. \A p : Done(p, s)' <=> Done(p, s)
      BY <1>1 DEF Done
    <3>5. CountersSend(s)'
      BY <3>1, <3>2, <3>3, <3>4 DEF CountersSend, Done
    <3>6. Attends(s)
      BY <1>1, <1>3, <1>7, <2>1, <2>2, <3>1, <3>2, <3>3, <3>4, <3>5 DEF Attends, Answers
    <3>7. ASSUME epochs[s] >= 3 PROVE SeenIsCounted(s)'
      <4>1. Counting(s)' = Counting(s) \ {q}
        <5>1. \A u \in Threads : u # t /\ On(u, "count", s) => thread[u].qp # q
          BY <1>1 DEF Orderly, On, At, Idle
        <5> QED
          BY <3>1, <3>2, <5>1 DEF Counting
      <4>2. q \in Counting(s)
        BY <1>2, <3>1 DEF Counting
      <4>3. Counted(s)' = Counted(s) \cup {q} /\ q \notin Counted(s)
        BY <3>1, <3>3, <3>4, <4>1, <4>2 DEF Counted
      <4>4. Counted(s) \cup {q} \subseteq Qps
        BY <3>1, <3>3 DEF Counted, PccInv, TypeOK, DataQps
      <4>5. /\ Cardinality(Counted(s) \cup {q}) = Cardinality(Counted(s)) + 1
            /\ Cardinality(Counted(s) \cup {q}) <= Cardinality(Qps)
            /\ Cardinality(Counted(s)) \in Nat /\ Cardinality(Qps) \in Nat
        <5>1. IsFiniteSet(Qps) /\ IsFiniteSet(Counted(s))
          BY <4>4, FS_Subset, PccAssumption
        <5> HIDE DEF q
        <5> QED
          BY <4>3, <4>4, <5>1, FS_AddElement, FS_Subset, FS_CardinalityType
      <4>6. pairs[s].qpSeen = Cardinality(Counted(s))
        BY <2>4, <3>7 DEF Rounds, SeenIsCounted
      <4>7. MaxSeen \in Nat /\ MaxSeen >= Cardinality(Qps)
        BY PccAssumption
      <4>8. pairs'[s].qpSeen = Cardinality(Counted(s) \cup {q})
        BY <2>2, <4>5, <4>6, <4>7 DEF UpTo
      <4> QED
        BY <4>3, <4>8 DEF SeenIsCounted
    <3> QED
      BY <3>6, <3>7, AttendKeeps
  <2> QED
    BY <2>3, <2>4
<1> QED
  BY <1>5, <1>6, <1>7

\* Closing the epoch of a pair that nobody races for takes it one round further.
LEMMA RollHere ==
  ASSUME PccInv, Orderly, Epoch >= 3, NEW t \in Threads, Roll(t), ~Raced(t),
         NEW s \in Slots, s = thread[t].slot, pairs[s].tag # NoTag, Rounds(s)
  PROVE  Rounds(s)'
<1> DEFINE late == thread[t].late
           p == pairs[s]
<1>1. /\ thread[t] \in Handling /\ late \in 0 .. 1 /\ p \in Pair /\ p.age \in Nat
      /\ p.budget \in Granted
  <2>1. ~Idle(t)
    BY DEF Roll, Idle, At
  <2> QED
    BY <2>1, HandFacts DEF Handling, Pair
<1>2. p.age - late >= Epoch /\ p.age >= 3
  BY <1>1, Floors DEF Raced
<1>3. /\ pairs'[s].tag = p.tag /\ pairs'[s].budget = p.budget /\ pairs'[s].level = p.level
      /\ pairs'[s].qpCount = IF p.qpSeen > 0 THEN p.qpSeen ELSE p.qpCount
      /\ pairs'[s].qpSeen = 0 /\ pairs'[s].age = late
  BY <1>1 DEF Roll, TakeCount, PccInv, TypeOK, Pair
<1>4. /\ epochs[s] \in 0 .. 5 /\ epochs'[s] = UpTo(5, epochs[s] + 1)
      /\ UNCHANGED <<rate, heard, sending>>
  BY DEF Roll, PccInv, TypeOK, Settled, envVars
<1>5. /\ epochs'[s] \in 0 .. 5 /\ epochs'[s] <= epochs[s] + 1
      /\ epochs'[s] >= 5 => epochs[s] >= 4
  BY <1>4 DEF UpTo
<1>6. /\ thread'[t].pc = "assign" /\ thread'[t].late = late
      /\ thread'[t].read = p.budget /\ thread'[t].slot = s
      /\ \A u \in Threads : u # t => thread'[u] = thread[u]
  BY <1>1 DEF Roll, PccInv, TypeOK, Handling
<1>7. \A u \in Threads : ~On(u, "count", s) /\ ~On(u, "count", s)'
  BY <1>6 DEF Raced, On, At
<1>8. Senders(s)' = Senders(s) /\ Senders(s) \subseteq Qps
  BY <1>3, <1>4 DEF Senders, PccInv, TypeOK, DataQps
<1>9. /\ \A q \in Qps : ~Done(q, s)'
      /\ \A q \in Qps : Done(q, s) =>
           qpMap'[q] # Unlearned /\ qpMap'[q].slot = s /\ qpMap'[q].lag \in 0 .. 1
  <2>1. \A q \in Qps : qpMap'[q] = IF qpMap[q] # Unlearned /\ qpMap[q].slot = s
                                     THEN [qpMap[q] EXCEPT !.lag = UpTo(2, @ + 1)]
                                     ELSE qpMap[q]
    BY DEF Roll
  <2>2. ASSUME NEW q \in Qps, qpMap[q] # Unlearned, qpMap[q].slot = s
        PROVE  /\ qpMap'[q] # Unlearned /\ qpMap'[q].slot = s
               /\ qpMap'[q].lag = UpTo(2, qpMap[q].lag + 1) /\ qpMap[q].lag \in 0 .. 2
    <3>1. qpMap[q] \in [slot : Slots, lag : 0 .. 2]
      BY <2>2 DEF PccInv, TypeOK
    <3>2. qpMap'[q] = [qpMap[q] EXCEPT !.lag = UpTo(2, @ + 1)]
      BY <2>1, <2>2
    <3>3. qpMap'[q] = [slot |-> s, lag |-> UpTo(2, qpMap[q].lag + 1)]
      BY <2>2, <3>1, <3>2
    <3> QED
      BY <3>1, <3>3 DEF Unlearned
  <2>3. ASSUME NEW q \in Qps, Done(q, s)
        PROVE  qpMap'[q] # Unlearned /\ qpMap'[q].slot = s /\ qpMap'[q].lag \in 0 .. 1
    BY <2>2, <2>3 DEF Done, UpTo
  <2>4. ASSUME NEW q \in Qps, Done(q, s)'
        PROVE  FALSE
    <3>1. CASE qpMap[q] # Unlearned /\ qpMap[q].slot = s
      BY <2>2, <2>4, <3>1 DEF Done, UpTo
    <3>2. CASE ~(qpMap[q] # Unlearned /\ qpMap[q].slot = s)
      BY <2>1, <2>4, <3>2 DEF Done
    <3> QED
      BY <3>1, <3>2
  <2> QED
    BY <2>3, <2>4
<1>10. epochs'[s] >= 1 => CountersSend(s)' /\ AssignersAreLate(s)'
  <2>1. \A u \in Threads : On(u, "assign", s)' => thread'[u].late \in 0 .. 1
    BY <1>1, <1>6 DEF On, At, PccInv, TypeOK, Handling, IdleThread
  <2> QED
    BY <1>1, <1>3, <1>7, <2>1 DEF CountersSend, AssignersAreLate
<1>11. epochs'[s] >= 2 => AssignersAreNew(s)' /\ AnsweredIsDone(s)'
  <2> SUFFICES ASSUME epochs'[s] >= 2 PROVE AssignersAreNew(s)' /\ AnsweredIsDone(s)'
    OBVIOUS
  <2>1. \A u \in Threads : ~On(u, "assign", s)
    <3>1. epochs[s] >= 1
      BY <1>4, <1>5
    <3>2. \A u \in Threads : On(u, "assign", s) => thread[u].late \in 0 .. 1
      BY DEF On, At, PccInv, TypeOK, Handling, IdleThread
    <3> QED
      BY <1>1, <1>2, <3>1, <3>2 DEF Rounds, AssignersAreLate
  <2>2. AssignersAreNew(s)'
    BY <1>1, <1>3, <1>6, <2>1 DEF AssignersAreNew, On, At
  <2>3. AnsweredIsDone(s)'
    BY <1>1, <1>3 DEF AnsweredIsDone, Since
  <2> QED
    BY <2>2, <2>3
<1>12. epochs'[s] >= 3 => SendersAreKnown(s)' /\ SeenIsCounted(s)'
  <2> SUFFICES ASSUME epochs'[s] >= 3 PROVE SendersAreKnown(s)' /\ SeenIsCounted(s)'
    OBVIOUS
  <2>1. \A q \in Senders(s) : Done(q, s)
    BY <1>2, <1>4, <1>5 DEF Rounds, AnsweredIsDone, Since
  <2>2. Counted(s)' = {}
    BY <1>8, <1>9 DEF Counted
  <2> QED
    BY <1>3, <1>8, <1>9, <2>1, <2>2, FS_EmptySet DEF SendersAreKnown, SeenIsCounted
<1>13. ASSUME epochs'[s] >= 4
       PROVE  /\ CountIsSenders(s)'
              /\ epochs'[s] >= 5 => pairs'[s].qpCount = p.qpCount
  <2>1. epochs[s] >= 3 /\ AnsweredIsDone(s) /\ SeenIsCounted(s)
    BY <1>4, <1>5, <1>13 DEF Rounds
  <2>2. Counted(s) = Senders(s)
    BY <1>2, <1>7, <2>1 DEF AnsweredIsDone, Since, Counted, Counting
  <2>3. p.qpSeen = Cardinality(Senders(s))
    BY <2>1, <2>2 DEF SeenIsCounted
  <2>4. /\ Senders(s) = {} => p.qpSeen = 0
        /\ Senders(s) # {} => p.qpSeen > 0
    <3>1. IsFiniteSet(Senders(s))
      BY <1>8, FS_Subset, PccAssumption
    <3> HIDE DEF p
    <3> QED
      BY <2>3, <3>1, FS_EmptySet, FS_CardinalityType
  <2>5. CountIsSenders(s)'
    BY <1>3, <1>8, <2>3, <2>4 DEF CountIsSenders
  <2>6. epochs'[s] >= 5 => CountIsSenders(s)
    BY <1>5 DEF Rounds
  <2> QED
    BY <1>3, <2>3, <2>4, <2>5, <2>6 DEF CountIsSenders
<1>14. epochs'[s] >= 4 => LevelIsShare(s)' /\ RateIsShare(s)'
  <2> SUFFICES ASSUME epochs'[s] >= 4 PROVE LevelIsShare(s)' /\ RateIsShare(s)'
    OBVIOUS
  <2>1. ~(epochs'[s] >= 5) => LevelIsShare(s)' /\ RateIsShare(s)'
    BY <1>1, <1>3, <1>6 DEF LevelIsShare, RateIsShare, Since, On, At
  <2>2. ASSUME epochs'[s] >= 5 PROVE LevelIsShare(s)' /\ RateIsShare(s)'
    <3>1. Share(s)' = Share(s)
      BY <1>3, <1>13, <2>2 DEF Share
    <3>2. epochs[s] >= 4 /\ epochs[s] >= 2
      BY <1>4, <1>5, <2>2
    <3>3. \A u \in Threads : ~On(u, "assign", s)
      <4>1. \A u \in Threads : On(u, "assign", s) => thread[u].late \in 0 .. 1
        BY DEF On, At, PccInv, TypeOK, Handling, IdleThread
      <4> QED
        BY <1>1, <1>2, <3>2, <4>1 DEF Rounds, AssignersAreNew
    <3>4. pairs[s].level = Share(s)
      BY <3>2, <3>3 DEF Rounds, LevelIsShare
    <3>5. \A q \in Senders(s) : rate[q] = Share(s)
      BY <1>2, <3>2 DEF Rounds, RateIsShare, Since
    <3> QED
      BY <1>3, <1>4, <1>8, <3>1, <3>4, <3>5 DEF LevelIsShare, RateIsShare
  <2> QED
    BY <2>1, <2>2
<1> QED
  BY <1>10, <1>11, <1>12, <1>13, <1>14 DEF Rounds

LEMMA RollRounds ==
  ASSUME PccInv, Orderly, Coherent, Epoch >= 3, NEW t \in Threads, Roll(t),
         NEW s \in Slots, Rounds(s)
  PROVE  Rounds(s)'
<1> DEFINE x == thread[t].slot
<1>1. ~Idle(t) /\ UNCHANGED <<rate, heard, sending>>
  BY DEF Roll, Idle, At, envVars
<1>2. x \in Slots /\ thread[t] \in Handling
  BY <1>1, InHandFacts, HandFacts
<1>3. CASE s # x
  <2>1. pairs'[s] = pairs[s] /\ epochs'[s] = epochs[s]
    BY <1>3 DEF Roll, PccInv, TypeOK
  <2>2. Senders(s)' = Senders(s) /\ Senders(s) \subseteq Qps
    BY <1>1, <2>1 DEF Senders, PccInv, TypeOK, DataQps
  <2>3. \A q \in Senders(s) : qpMap'[q] = qpMap[q]
    <3>1. \A q \in Senders(s) : qpMap[q] # Unlearned => qpMap[q].slot = s
      BY <2>2 DEF Coherent, Senders, SlotsOf
    <3> QED
      BY <1>3, <2>2, <3>1 DEF Roll
  <2>4. \A u \in Threads, pc \in {"count", "assign"} :
          /\ On(u, pc, s)' <=> On(u, pc, s)
          /\ On(u, pc, s) => thread'[u] = thread[u]
    BY <1>2, <1>3 DEF On, At, Roll, PccInv, TypeOK, Handling
  <2>5. \A q \in Senders(s) : Done(q, s)' <=> Done(q, s)
    BY <2>3 DEF Done
  <2>6. epochs[s] >= 1 /\ pairs[s].tag # NoTag => CountersSend(s)'
    BY <2>2, <2>4, <2>5 DEF Rounds, CountersSend, Done
  <2>7. pairs[s].tag # NoTag => Attends(s)
    BY <1>1, <2>1, <2>2, <2>3, <2>4, <2>5, <2>6 DEF Attends
  <2>8. Counted(s)' = Counted(s)
    <3>1. Counting(s)' = Counting(s)
      BY <2>4 DEF Counting
    <3> QED
      BY <2>2, <2>5, <3>1 DEF Counted
  <2>9. pairs[s].tag # NoTag /\ epochs[s] >= 3 => SeenIsCounted(s)'
    BY <2>1, <2>8 DEF Rounds, SeenIsCounted
  <2>10. CASE pairs[s].tag = NoTag
    BY <2>1, <2>10 DEF Rounds
  <2> QED
    BY <2>7, <2>9, <2>10, AttendKeeps
<1>4. CASE s = x
  <2>1. CASE Raced(t)
    <3>1. epochs'[s] = 0
      BY <1>4, <2>1 DEF Roll, PccInv, TypeOK
    <3> QED
      BY <3>1, DisturbedRounds
  <2>2. CASE pairs[s].tag = NoTag
    <3>1. pairs'[s].tag = pairs[s].tag
      BY <1>4 DEF Roll, TakeCount, PccInv, TypeOK, Pair
    <3> QED
      BY <2>2, <3>1 DEF Rounds
  <2>3. CASE ~Raced(t) /\ pairs[s].tag # NoTag
    BY <1>4, <2>3, RollHere
  <2> QED
    BY <2>1, <2>2, <2>3
<1> QED
  BY <1>3, <1>4

LEMMA AssignRounds ==
  ASSUME PccInv, Orderly, Coherent, NEW t \in Threads, Assign(t),
         NEW s \in Slots, Rounds(s)
  PROVE  Rounds(s)'
<1> DEFINE q == thread[t].qp
           x == thread[t].slot
           level == IF thread[t].read > 0 THEN ShareOf(thread[t].read, pairs[x].qpCount)
                                          ELSE pairs[x].level
<1>1. ~Idle(t) /\ UNCHANGED <<qpMap, sending, epochs>>
  BY DEF Assign, Idle, At
<1>2. q \in Qps /\ x \in Slots /\ thread[t].read > 0 /\ thread[t].late \in 0 .. 1
  <2>1. thread[t].read \in Granted
    BY <1>1 DEF Assign, PccInv, InHand
  <2> QED
    BY <1>1, <2>1, InHandFacts, Floors DEF Granted
<1>3. Answers(t, q, level) /\ thread'[t] = IdleThread
  BY <1>2, AnswerFacts DEF Assign
<1>4. pairs' = [pairs EXCEPT ![x].level = level]
  BY DEF Assign
<1>5. level = ShareOf(thread[t].read, pairs[x].qpCount)
  BY <1>2
<1> HIDE DEF level
<1>6. CASE s # x
  <2>1. pairs'[s] = pairs[s] /\ epochs'[s] = epochs[s]
    BY <1>1, <1>4, <1>6
  <2> QED
    BY <1>1, <1>3, <1>6, <2>1, ElsewhereRounds
<1>7. CASE s = x /\ pairs[s].tag # NoTag
  <2>1. /\ pairs'[s].tag = pairs[s].tag /\ pairs'[s].budget = pairs[s].budget
        /\ pairs'[s].level = level /\ pairs'[s].qpCount = pairs[s].qpCount
        /\ pairs'[s].age = pairs[s].age /\ pairs'[s].qpSeen = pairs[s].qpSeen
        /\ epochs'[s] = epochs[s] /\ epochs[s] \in Nat /\ pairs[s].age \in Nat
    BY <1>1, <1>4, <1>7 DEF PccInv, TypeOK, Pair, Settled
  <2>2. /\ On(t, "assign", s) /\ ~On(t, "count", s)
        /\ ~On(t, "count", s)' /\ ~On(t, "assign", s)'
        /\ \A u \in Threads : u # t => thread'[u] = thread[u]
    BY <1>3, <1>7 DEF Assign, On, At, IdleThread, Answers
  <2>3. \A u \in Threads, pc \in {"count", "assign"} :
          On(u, pc, s)' => On(u, pc, s) /\ thread'[u] = thread[u]
    BY <2>2 DEF On, At
  <2>4. Senders(s)' = Senders(s) /\ Senders(s) \subseteq sending
    BY <1>1, <2>1 DEF Senders
  <2>5. \A p : Done(p, s)' <=> Done(p, s)
    BY <1>1 DEF Done
  <2>6. epochs[s] >= 1 => CountersSend(s)' /\ AssignersAreLate(s)'
    BY <1>7, <2>1, <2>3, <2>4, <2>5 DEF Rounds, CountersSend, AssignersAreLate, Done
  <2>7. epochs[s] >= 2 => /\ pairs[s].age <= thread[t].late
                          /\ thread[t].read = pairs[s].budget
    BY <1>7, <2>2 DEF Rounds, AssignersAreNew
  <2>8. epochs[s] >= 2 => \A p : ~Since(p, s)'
    BY <1>2, <2>1, <2>7 DEF Since
  <2>9. epochs[s] >= 2 => AssignersAreNew(s)' /\ AnsweredIsDone(s)'
    BY <1>7, <2>1, <2>3, <2>8 DEF Rounds, AssignersAreNew, AnsweredIsDone
  <2>10. epochs[s] >= 3 => SendersAreKnown(s)' /\ SeenIsCounted(s)'
    <3>1. Counting(s)' = Counting(s)
      <4>1. \A u \in Threads : On(u, "count", s) => u # t /\ On(u, "count", s)'
        BY <2>2 DEF On, At
      <4> QED
        BY <2>3, <4>1 DEF Counting
    <3>2. Counted(s)' = Counted(s)
      BY <2>4, <2>5, <3>1 DEF Counted
    <3> QED
      BY <1>1, <1>7, <2>1, <2>4, <3>2 DEF Rounds, SendersAreKnown, SeenIsCounted
  <2>11. epochs[s] >= 4 => CountIsSenders(s)' /\ LevelIsShare(s)' /\ RateIsShare(s)'
    <3> SUFFICES ASSUME epochs[s] >= 4
                 PROVE  CountIsSenders(s)' /\ LevelIsShare(s)' /\ RateIsShare(s)'
      OBVIOUS
    <3>1. CountIsSenders(s)'
      BY <1>7, <2>1, <2>4 DEF Rounds, CountIsSenders
    <3>2. Share(s)' = Share(s) /\ level = Share(s)
      BY <1>5, <1>7, <2>1, <2>7 DEF Share
    <3>3. ASSUME epochs[s] >= 5, NEW p \in Senders(s)
          PROVE  rate'[p] = Share(s)
      <4>1. rate[p] = Share(s)
        BY <1>7, <3>3 DEF Rounds, RateIsShare
      <4> QED
        BY <1>3, <2>4, <3>2, <4>1 DEF Answers
    <3>4. RateIsShare(s)'
      BY <2>1, <2>4, <2>8, <3>2, <3>3 DEF RateIsShare
    <3> QED
      BY <2>1, <3>1, <3>2, <3>4 DEF LevelIsShare
  <2> QED
    BY <2>1, <2>6, <2>9, <2>10, <2>11 DEF Rounds
<1>8. CASE s = x /\ pairs[s].tag = NoTag
  <2>1. pairs'[s].tag = pairs[s].tag
    BY <1>4, <1>8 DEF PccInv, TypeOK, Pair
  <2> QED
    BY <1>8, <2>1 DEF Rounds
<1> QED
  BY <1>6, <1>7, <1>8

LEMMA TickRounds ==
  ASSUME PccInv, Epoch >= 3, Tick, NEW s \in Slots, Rounds(s)
  PROVE  Rounds(s)'
<1>1. /\ UNCHANGED <<qpMap, rate, sending, epochs>> /\ heard' = {}
      /\ sending \subseteq heard /\ epochs[s] \in Nat
  BY DEF Tick, PccInv, TypeOK, Settled
<1>2. /\ pairs'[s].tag = pairs[s].tag /\ pairs'[s].budget = pairs[s].budget
      /\ pairs'[s].level = pairs[s].level /\ pairs'[s].qpCount = pairs[s].qpCount
      /\ pairs'[s].qpSeen = pairs[s].qpSeen
      /\ pairs'[s].age = UpTo(Epoch + 1, pairs[s].age + 1) /\ pairs[s].age \in 0 .. Epoch + 1
  BY DEF Tick, PccInv, TypeOK, Pair
<1>3. /\ pairs'[s].age <= pairs[s].age + 1 /\ pairs[s].age \in Nat /\ pairs'[s].age \in Nat
      /\ pairs'[s].age >= 3 => pairs[s].age >= 2
  BY <1>2, Floors DEF UpTo
<1>4. /\ Senders(s)' = Senders(s) /\ Senders(s) \subseteq heard
      /\ \A p : Done(p, s)' <=> Done(p, s)
      /\ \A p : Since(p, s)' => pairs[s].age >= 2
      /\ Share(s)' = Share(s)
  BY <1>1, <1>2, <1>3 DEF Senders, Done, Since, Share
<1>5. ASSUME NEW u \in Threads
      PROVE  /\ Idle(u) => Idle(u)'
             /\ ~Idle(u) => /\ thread'[u].pc = thread[u].pc /\ thread'[u].qp = thread[u].qp
                            /\ thread'[u].slot = thread[u].slot
                            /\ thread'[u].read = thread[u].read
                            /\ thread[u].late = 0 /\ thread'[u].late = 1
  <2>1. CASE Idle(u)
    BY <2>1 DEF Tick, Idle, IdleThread
  <2>2. CASE ~Idle(u)
    <3>1. thread[u] \in Handling /\ thread'[u] = [thread[u] EXCEPT !.late = 1]
      BY <2>2, HandFacts DEF Tick
    <3>2. thread[u].late = 0
      BY <2>2 DEF Tick
    <3> QED
      BY <2>2, <3>1, <3>2 DEF Handling
  <2> QED
    BY <2>1, <2>2
<1>6. \A u \in Threads, pc \in {"count", "assign"} :
        /\ On(u, pc, s)' <=> On(u, pc, s)
        /\ On(u, pc, s) => /\ thread'[u].qp = thread[u].qp /\ thread'[u].read = thread[u].read
                           /\ thread[u].late = 0 /\ thread'[u].late = 1
  BY <1>5 DEF On, At, Idle
<1>7. CASE pairs[s].tag # NoTag
  <2>1. epochs[s] >= 1 => CountersSend(s)' /\ AssignersAreLate(s)'
    BY <1>1, <1>2, <1>3, <1>4, <1>6, <1>7 DEF Rounds, CountersSend, AssignersAreLate, Done
  <2>2. epochs[s] >= 2 => AssignersAreNew(s)' /\ AnsweredIsDone(s)'
    <3>1. epochs[s] >= 2 => AssignersAreNew(s)'
      BY <1>2, <1>3, <1>6, <1>7 DEF Rounds, AssignersAreNew
    <3>2. epochs[s] >= 2 => AnsweredIsDone(s)'
      BY <1>4, <1>7 DEF Rounds, AnsweredIsDone, Since
    <3> QED
      BY <3>1, <3>2
  <2>3. epochs[s] >= 3 => SendersAreKnown(s)' /\ SeenIsCounted(s)'
    <3>1. Counted(s)' = Counted(s)
      <4>1. Counting(s)' = Counting(s)
        BY <1>6 DEF Counting
      <4> QED
        BY <1>4, <4>1 DEF Counted
    <3> QED
      BY <1>1, <1>2, <1>4, <1>7, <3>1 DEF Rounds, SendersAreKnown, SeenIsCounted
  <2>4. epochs[s] >= 4 => CountIsSenders(s)' /\ LevelIsShare(s)' /\ RateIsShare(s)'
    <3>1. epochs[s] >= 4 => CountIsSenders(s)'
      BY <1>2, <1>4, <1>7 DEF Rounds, CountIsSenders
    <3>2. epochs[s] >= 4 => LevelIsShare(s)'
      BY <1>1, <1>2, <1>4, <1>6, <1>7 DEF Rounds, LevelIsShare
    <3>3. epochs[s] >= 4 => RateIsShare(s)'
      BY <1>1, <1>4, <1>7 DEF Rounds, RateIsShare, Since
    <3> QED
      BY <3>1, <3>2, <3>3
  <2> QED
    BY <1>1, <2>1, <2>2, <2>3, <2>4 DEF Rounds
<1>8. CASE pairs[s].tag = NoTag
  BY <1>2, <1>8 DEF Rounds
<1> QED
  BY <1>7, <1>8

\* The mailbox and the QPs: an entry that is not written, and whose QPs stay.
LEMMA UntouchedRounds ==
  ASSUME PccInv, NEW s \in Slots, Rounds(s), pairs'[s] = pairs[s], epochs'[s] = epochs[s],
         UNCHANGED <<qpMap, thread, rate>>, Senders(s)' = Senders(s),
         \A q \in Senders(s) : q \in heard' <=> q \in heard
  PROVE  Rounds(s)'
<1>1. CASE pairs[s].tag # NoTag
  <2>1. /\ \A u, pc : On(u, pc, s)' <=> On(u, pc, s)
        /\ \A q : Done(q, s)' <=> Done(q, s)
    BY DEF On, At, Done
  <2>2. epochs[s] >= 1 => CountersSend(s)'
    BY <1>1, <2>1 DEF Rounds, CountersSend, Done
  <2>3. Attends(s)
    BY <2>1, <2>2 DEF Attends
  <2>4. Counted(s)' = Counted(s)
    <3>1. Counting(s)' = Counting(s)
      BY <2>1 DEF Counting
    <3> QED
      BY <2>1, <3>1 DEF Counted
  <2>5. epochs[s] >= 3 => SeenIsCounted(s)'
    BY <1>1, <2>4 DEF Rounds, SeenIsCounted
  <2> QED
    BY <2>3, <2>5, AttendKeeps
<1>2. CASE pairs[s].tag = NoTag
  BY <1>2 DEF Rounds
<1> QED
  BY <1>1, <1>2

LEMMA MailboxRounds ==
  ASSUME PccInv, NEW tag \in Tags, NEW b \in Budgets, NEW batch \in BOOLEAN,
         Mailbox(tag, b, batch), NEW s \in Slots, Rounds(s)
  PROVE  Rounds(s)'
<1>1. UNCHANGED <<qpMap, thread, rate, sending, heard>>
  BY DEF Mailbox, Install, Rebudget, Delete, envVars
<1>2. ASSUME pairs'[s] = pairs[s], epochs'[s] = epochs[s]
      PROVE  Rounds(s)'
  <2>1. Senders(s)' = Senders(s)
    BY <1>1, <1>2 DEF Senders
  <2> QED
    BY <1>1, <1>2, <2>1, UntouchedRounds
<1>3. ASSUME NEW y \in Slots, Disturb(y), \A x \in Slots : x # y => pairs'[x] = pairs[x]
      PROVE  Rounds(s)'
  <2>1. CASE s = y
    <3>1. epochs'[s] = 0
      BY <1>3, <2>1 DEF Disturb, PccInv, TypeOK
    <3> QED
      BY <3>1, DisturbedRounds
  <2>2. CASE s # y
    BY <1>2, <1>3, <2>2 DEF Disturb
  <2> QED
    BY <2>1, <2>2
<1>4. CASE Install(tag, b, batch)
  <2>1. Min(SlotsOf(NoTag)) \in Slots
    BY <1>4, FirstSlot DEF Install, SlotsOf
  <2> QED
    BY <1>3, <1>4, <2>1 DEF Install
<1>5. ASSUME NEW y \in Slots, Delete(y, batch)
      PROVE  Rounds(s)'
  BY <1>3, <1>5 DEF Delete, PccInv, TypeOK
<1>6. ASSUME NEW y \in Slots, Rebudget(y, b, batch)
      PROVE  Rounds(s)'
  <2>1. CASE b # pairs[y].budget
    BY <1>3, <1>6, <2>1 DEF Rebudget, PccInv, TypeOK
  <2>2. CASE s # y
    BY <1>2, <1>6, <2>2 DEF Rebudget, Disturb, PccInv, TypeOK
  <2>3. CASE s = y /\ b = pairs[s].budget /\ pairs[s].tag # NoTag
    <3>1. /\ pairs'[s].tag = pairs[s].tag /\ pairs'[s].budget = pairs[s].budget
          /\ pairs'[s].level = Share(s) /\ pairs'[s].qpCount = pairs[s].qpCount
          /\ pairs'[s].age = pairs[s].age /\ pairs'[s].qpSeen = pairs[s].qpSeen
          /\ epochs'[s] = epochs[s]
      BY <1>6, <2>3 DEF Rebudget, PccInv, TypeOK, Pair, Share
    <3>2. /\ Senders(s)' = Senders(s) /\ Share(s)' = Share(s)
          /\ \A u, pc : On(u, pc, s)' <=> On(u, pc, s)
          /\ \A q : (Done(q, s)' <=> Done(q, s)) /\ (Since(q, s)' <=> Since(q, s))
      BY <1>1, <3>1 DEF Senders, Share, On, At, Done, Since
    <3>3. epochs[s] >= 1 => CountersSend(s)' /\ AssignersAreLate(s)'
      BY <1>1, <2>3, <3>1, <3>2 DEF Rounds, CountersSend, AssignersAreLate, Done
    <3>4. epochs[s] >= 2 => AssignersAreNew(s)' /\ AnsweredIsDone(s)'
      BY <1>1, <2>3, <3>1, <3>2 DEF Rounds, AssignersAreNew, AnsweredIsDone
    <3>5. epochs[s] >= 3 => SendersAreKnown(s)' /\ SeenIsCounted(s)'
      <4>1. Counted(s)' = Counted(s)
        <5>1. Counting(s)' = Counting(s)
          BY <1>1, <3>2 DEF Counting
        <5> QED
          BY <3>2, <5>1 DEF Counted
      <4> QED
        BY <1>1, <2>3, <3>1, <3>2, <4>1 DEF Rounds, SendersAreKnown, SeenIsCounted
    <3>6. epochs[s] >= 4 => CountIsSenders(s)' /\ LevelIsShare(s)' /\ RateIsShare(s)'
      BY <1>1, <2>3, <3>1, <3>2 DEF Rounds, CountIsSenders, LevelIsShare, RateIsShare
    <3> QED
      BY <3>1, <3>3, <3>4, <3>5, <3>6 DEF Rounds
  <2>4. CASE s = y /\ pairs[s].tag = NoTag
    <3>1. pairs'[s].tag = pairs[s].tag
      BY <1>6, <2>4 DEF Rebudget, PccInv, TypeOK, Pair
    <3> QED
      BY <2>4, <3>1 DEF Rounds
  <2> QED
    BY <2>1, <2>2, <2>3, <2>4
<1>7. \A y \in SlotsOf(tag) : y \in Slots
  BY DEF SlotsOf
<1> QED
  BY <1>4, <1>5, <1>6, <1>7 DEF Mailbox

LEMMA SwitchRounds ==
  ASSUME PccInv, NEW q \in Qps, Switch(q), NEW s \in Slots, Rounds(s)
  PROVE  Rounds(s)'
<1>1. CASE pairs[s].tag = TagOf[q]
  <2>1. epochs'[s] = 0
    BY <1>1 DEF Switch
  <2> QED
    BY <2>1, DisturbedRounds
<1>2. CASE pairs[s].tag # TagOf[q]
  <2>1. Senders(s)' = Senders(s) /\ q \notin Senders(s)
    BY <1>2 DEF Switch, Senders
  <2> QED
    BY <1>2, <2>1, UntouchedRounds DEF Switch
<1> QED
  BY <1>1, <1>2

------------------------------------------------------------------------------

LEMMA NextOrderly ==
  ASSUME PccInv, Orderly, [Next]_vars
  PROVE  Orderly'
<1> DEFINE Busy(t) == thread[t].slot \in Slots /\ thread[t].qp \in Qps
           OneEntry == \A s, x \in Slots :
                         pairs[s].tag = pairs[x].tag /\ pairs[s].tag # NoTag => s = x
           Hands == /\ \A t \in Threads : ~Idle(t) =>
                         /\ qpMap[thread[t].qp] # Unlearned
                         /\ qpMap[thread[t].qp].slot = thread[t].slot
                    /\ \A t, u \in Threads :
                         ~Idle(t) /\ ~Idle(u) /\ thread[t].qp = thread[u].qp => t = u
<1>1. \A t \in Threads : ~Idle(t) => Busy(t)
  BY HandFacts DEF Handling
<1>2. ASSUME UNCHANGED <<qpMap, thread>> PROVE Hands'
  BY <1>2 DEF Orderly, Idle
<1>3. ASSUME \A s \in Slots : pairs'[s].tag = pairs[s].tag PROVE OneEntry'
  BY <1>3 DEF Orderly
<1>4. ASSUME NEW t \in Threads, \A u \in Threads : u # t => thread'[u] = thread[u],
             Idle(t)' \/ (~Idle(t) /\ thread'[t].qp = thread[t].qp
                                   /\ thread'[t].slot = thread[t].slot),
             \A q \in Qps : qpMap[q] # Unlearned =>
               qpMap'[q] # Unlearned /\ qpMap'[q].slot = qpMap[q].slot
      PROVE  Hands'
  <2>1. \A u \in Threads : ~Idle(u)' => /\ ~Idle(u) /\ thread'[u].qp = thread[u].qp
                                        /\ thread'[u].slot = thread[u].slot
    BY <1>4 DEF Idle
  <2> QED
    BY <1>1, <1>4, <2>1 DEF Orderly
<1>5. ASSUME NEW tag \in Tags, NEW b \in Budgets, NEW batch \in BOOLEAN, Mailbox(tag, b, batch)
      PROVE  Orderly'
  <2>1. Hands'
    BY <1>2, <1>5 DEF Mailbox, Install, Rebudget, Delete
  <2>2. CASE Install(tag, b, batch) /\ SlotsOf(tag) = {}
    <3>1. Min(SlotsOf(NoTag)) \in Slots
      BY <2>2, FirstSlot DEF Install, SlotsOf
    <3>2. PICK y \in Slots : /\ pairs'[y].tag = tag
                             /\ \A s \in Slots : s # y => pairs'[s] = pairs[s]
      BY <2>2, <3>1 DEF Install, PccInv, TypeOK, Pair
    <3>3. \A s \in Slots : pairs[s].tag # tag
      BY <2>2 DEF SlotsOf
    <3>4. OneEntry'
      BY <3>2, <3>3 DEF Orderly
    <3> QED
      BY <2>1, <3>4 DEF Orderly
  <2>3. ASSUME NEW y \in Slots, Rebudget(y, b, batch)
        PROVE  Orderly'
    <3>1. \A s \in Slots : pairs'[s].tag = pairs[s].tag
      BY <2>3 DEF Rebudget, PccInv, TypeOK, Pair
    <3> QED
      BY <1>3, <2>1, <3>1 DEF Orderly
  <2>4. ASSUME NEW y \in Slots, Delete(y, batch)
        PROVE  Orderly'
    <3>1. \A s \in Slots : pairs'[s].tag = IF s = y THEN NoTag ELSE pairs[s].tag
      BY <2>4 DEF Delete, PccInv, TypeOK, Pair
    <3>2. OneEntry'
      BY <3>1 DEF Orderly
    <3> QED
      BY <2>1, <3>2 DEF Orderly
  <2>5. SlotsOf(tag) \subseteq Slots
    BY DEF SlotsOf
  <2> QED
    BY <1>5, <2>2, <2>3, <2>4, <2>5 DEF Mailbox
<1>6. ASSUME NEW t \in Threads, NEW q \in Qps, Event(t, q)
      PROVE  Orderly'
  <2>1. OneEntry'
    BY <1>3, <1>6 DEF Event, Handle
  <2>2. /\ Idle(t) /\ \A u \in Threads : ~Idle(u) => thread[u].qp # q
    BY <1>6 DEF Event, Handle
  <2>3. /\ \A u \in Threads : u # t => thread'[u] = thread[u]
        /\ \A p \in Qps : p # q => qpMap'[p] = qpMap[p]
        /\ \/ Idle(t)'
           \/ /\ thread'[t].qp = q /\ qpMap'[q] # Unlearned
              /\ thread'[t].slot = qpMap'[q].slot
    <3> DEFINE found == IF qpMap[q] # Unlearned THEN {qpMap[q].slot} ELSE SlotsOf(TagOf[q])
    <3>1. CASE Answer(t, q, MaxRate) /\ UNCHANGED qpMap
      BY <3>1 DEF Answer, Idle, IdleThread, PccInv, TypeOK
    <3>2. ASSUME NEW x \in found,
                 qpMap' = [qpMap EXCEPT ![q] = [slot |-> x, lag |-> 0]],
                 \/ thread' = [thread EXCEPT ![t] =
                                [pc |-> "count", qp |-> q, slot |-> x, late |-> 0,
                                 read |-> pairs[x].qpSeen]]
                 \/ Contend(t, q, x, 0)
          PROVE  /\ \A u \in Threads : u # t => thread'[u] = thread[u]
                 /\ \A p \in Qps : p # q => qpMap'[p] = qpMap[p]
                 /\ \/ Idle(t)'
                    \/ /\ thread'[t].qp = q /\ qpMap'[q] # Unlearned
                       /\ thread'[t].slot = qpMap'[q].slot
      <4>1. qpMap'[q] = [slot |-> x, lag |-> 0] /\ qpMap'[q] # Unlearned
        BY <3>2 DEF PccInv, TypeOK, Unlearned
      <4>2. \A p \in Qps : p # q => qpMap'[p] = qpMap[p]
        BY <3>2 DEF PccInv, TypeOK
      <4>3. /\ \A u \in Threads : u # t => thread'[u] = thread[u]
            /\ Idle(t)' \/ (thread'[t].qp = q /\ thread'[t].slot = x)
        BY <3>2 DEF Contend, Answer, Idle, IdleThread, PccInv, TypeOK
      <4> QED
        BY <4>1, <4>2, <4>3
    <3> HIDE DEF found
    <3> QED
      BY <1>6, <3>1, <3>2 DEF Event, Handle, found
  <2>4. \A u \in Threads : u # t /\ ~Idle(u)' =>
          /\ ~Idle(u) /\ thread'[u].qp # q /\ thread'[u] = thread[u]
          /\ qpMap'[thread[u].qp] = qpMap[thread[u].qp]
    BY <1>1, <2>2, <2>3 DEF Idle
  <2>5. Hands'
    BY <2>3, <2>4 DEF Orderly
  <2> QED
    BY <2>1, <2>5 DEF Orderly
<1>7. ASSUME NEW t \in Threads, CountQp(t)
      PROVE  Orderly'
  <2>1. ~Idle(t) /\ UNCHANGED qpMap
    BY <1>7 DEF CountQp, At, Idle
  <2>2. /\ \A u \in Threads : u # t => thread'[u] = thread[u]
        /\ Idle(t)' \/ (thread'[t].qp = thread[t].qp /\ thread'[t].slot = thread[t].slot)
    BY <1>7 DEF CountQp, Contend, Answer, Idle, IdleThread, PccInv, TypeOK
  <2>3. Hands'
    BY <1>4, <2>1, <2>2
  <2>4. \A s \in Slots : pairs'[s].tag = pairs[s].tag
    BY <1>7 DEF CountQp, PccInv, TypeOK, Pair
  <2> QED
    BY <1>3, <2>3, <2>4 DEF Orderly
<1>8. ASSUME NEW t \in Threads, Roll(t)
      PROVE  Orderly'
  <2>1. ~Idle(t) /\ thread[t] \in Handling
    BY <1>8, HandFacts DEF Roll, At, Idle
  <2>2. /\ \A u \in Threads : u # t => thread'[u] = thread[u]
        /\ thread'[t].qp = thread[t].qp /\ thread'[t].slot = thread[t].slot
    BY <1>8, <2>1 DEF Roll, PccInv, TypeOK, Handling
  <2>3. \A q \in Qps : qpMap[q] # Unlearned =>
          qpMap'[q] # Unlearned /\ qpMap'[q].slot = qpMap[q].slot
    <3> SUFFICES ASSUME NEW q \in Qps, qpMap[q] # Unlearned
                 PROVE  qpMap'[q] # Unlearned /\ qpMap'[q].slot = qpMap[q].slot
      OBVIOUS
    <3>1. qpMap[q] \in [slot : Slots, lag : 0 .. 2]
      BY DEF PccInv, TypeOK
    <3>2. CASE qpMap'[q] = [qpMap[q] EXCEPT !.lag = UpTo(2, @ + 1)]
      <4>1. qpMap'[q] = [slot |-> qpMap[q].slot, lag |-> UpTo(2, qpMap[q].lag + 1)]
        BY <3>1, <3>2
      <4> QED
        BY <4>1 DEF Unlearned
    <3>3. CASE qpMap'[q] = qpMap[q]
      BY <3>3
    <3> QED
      BY <1>8, <3>2, <3>3 DEF Roll
  <2>4. Hands'
    BY <1>4, <2>1, <2>2, <2>3
  <2>5. \A s \in Slots : pairs'[s].tag = pairs[s].tag
    BY <1>8 DEF Roll, TakeCount, PccInv, TypeOK, Pair
  <2> QED
    BY <1>3, <2>4, <2>5 DEF Orderly
<1>9. ASSUME NEW t \in Threads, Assign(t)
      PROVE  Orderly'
  <2>1. /\ \A u \in Threads : u # t => thread'[u] = thread[u]
        /\ Idle(t)' /\ UNCHANGED qpMap
    BY <1>9 DEF Assign, Answer, Idle, IdleThread, PccInv, TypeOK
  <2>2. Hands'
    BY <1>4, <2>1
  <2>3. \A s \in Slots : pairs'[s].tag = pairs[s].tag
    BY <1>9 DEF Assign, PccInv, TypeOK, Pair
  <2> QED
    BY <1>3, <2>2, <2>3 DEF Orderly
<1>10. CASE Tick
  <2>1. \A u \in Threads : ~Idle(u)' => /\ ~Idle(u) /\ thread'[u].qp = thread[u].qp
                                        /\ thread'[u].slot = thread[u].slot
    <3> SUFFICES ASSUME NEW u \in Threads, ~Idle(u)'
                 PROVE  /\ ~Idle(u) /\ thread'[u].qp = thread[u].qp
                        /\ thread'[u].slot = thread[u].slot
      OBVIOUS
    <3>1. ~Idle(u)
      BY <1>10 DEF Tick, Idle, IdleThread
    <3>2. thread[u] \in Handling /\ thread'[u] = [thread[u] EXCEPT !.late = 1]
      BY <1>10, <3>1, HandFacts DEF Tick
    <3> QED
      BY <3>1, <3>2 DEF Handling
  <2>2. Hands'
    BY <1>10, <2>1 DEF Orderly, Tick
  <2>3. \A s \in Slots : pairs'[s].tag = pairs[s].tag
    BY <1>10 DEF Tick, PccInv, TypeOK, Pair
  <2> QED
    BY <1>3, <2>2, <2>3 DEF Orderly
<1>11. CASE (\E q \in Qps : Switch(q)) \/ UNCHANGED vars
  BY <1>2, <1>3, <1>11 DEF Switch, vars, Orderly
<1> QED
  BY <1>5, <1>6, <1>7, <1>8, <1>9, <1>10, <1>11 DEF Next

SharingInv == Orderly /\ \A s \in Slots : Rounds(s)

LEMMA NextSharing ==
  ASSUME Epoch >= 3, PccInv, Coherent, Coherent', SharingInv, [Next]_vars
  PROVE  SharingInv'
<1>1. Orderly'
  BY NextOrderly DEF SharingInv
<1>2. ASSUME NEW s \in Slots
      PROVE  Rounds(s)'
  <2>1. Orderly /\ Rounds(s)
    BY DEF SharingInv
  <2>2. ASSUME NEW tag \in Tags, NEW b \in Budgets, NEW batch \in BOOLEAN,
               Mailbox(tag, b, batch)
        PROVE  Rounds(s)'
    BY <2>1, <2>2, MailboxRounds
  <2>3. ASSUME NEW t \in Threads, NEW q \in Qps, Event(t, q)
        PROVE  Rounds(s)'
    BY <2>1, <2>3, EventRounds
  <2>4. ASSUME NEW t \in Threads, CountQp(t) \/ Roll(t) \/ Assign(t)
        PROVE  Rounds(s)'
    BY <2>1, <2>4, CountQpRounds, RollRounds, AssignRounds
  <2>5. ASSUME NEW q \in Qps, Switch(q)
        PROVE  Rounds(s)'
    BY <2>1, <2>5, SwitchRounds
  <2>6. CASE Tick
    BY <2>1, <2>6, TickRounds
  <2>7. CASE UNCHANGED vars
    <3>1. Senders(s)' = Senders(s)
      BY <2>7 DEF vars, envVars, Senders
    <3> QED
      BY <2>1, <2>7, <3>1, UntouchedRounds DEF vars, envVars
  <2> QED
    BY <2>2, <2>3, <2>4, <2>5, <2>6, <2>7 DEF Next
<1> QED
  BY <1>1, <1>2 DEF SharingInv

\* The sum of N shares of a budget, and the least of them.
LEMMA SharesOfBudget ==
  ASSUME NEW b \in Nat, NEW n \in Nat \ {0}
  PROVE  /\ ShareOf(b, n) \in Nat /\ ShareOf(b, n) >= b \div n
         /\ ShareOf(b, n) * n <= Larger(b, MinLevel * n)
<1>1. Larger(n, 1) = n
  BY DEF Larger
<1> DEFINE d == b \div n
<1>2. d \in Nat /\ d * n <= b /\ MinLevel \in Nat /\ MinLevel * n \in Nat
  BY Floors
<1>3. ShareOf(b, n) = Larger(d, MinLevel)
  BY <1>1 DEF ShareOf
<1> HIDE DEF d
<1>4. CASE d >= MinLevel
  <2>1. ShareOf(b, n) = d
    BY <1>3, <1>4 DEF Larger
  <2> QED
    BY <1>2, <2>1 DEF Larger, d
<1>5. CASE ~(d >= MinLevel)
  <2>1. ShareOf(b, n) = MinLevel
    BY <1>3, <1>5 DEF Larger
  <2>2. MinLevel >= d
    BY <1>2, <1>5
  <2>3. MinLevel * n <= Larger(b, MinLevel * n)
    BY <1>2 DEF Larger
  <2> QED
    BY <1>2, <2>1, <2>2, <2>3 DEF d
<1> QED
  BY <1>4, <1>5

LEMMA SettledIsShared ==
  ASSUME PccInv, SharingInv, NEW s \in Slots, pairs[s].tag # NoTag, epochs[s] = Settled
  PROVE  /\ WithinBudget(s)
         /\ \A q \in Senders(s) : rate[q] >= pairs[s].budget \div Cardinality(Senders(s))
<1> DEFINE n == Cardinality(Senders(s))
           b == pairs[s].budget
<1>1. Senders(s) \subseteq DataQps /\ IsFiniteSet(Senders(s)) /\ n \in Nat
  <2>1. Senders(s) \subseteq DataQps
    BY DEF Senders, PccInv, TypeOK
  <2>2. IsFiniteSet(Senders(s))
    BY <2>1, FS_Subset, PccAssumption DEF DataQps
  <2> QED
    BY <2>1, <2>2, FS_CardinalityType
<1>2. b \in Nat
  BY DEF PccInv, TypeOK, Pair
<1>3. Senders(s) # {} => n \in Nat \ {0}
  BY <1>1, FS_EmptySet
<1>4. Senders(s) # {} => \A q \in Senders(s) : rate[q] = ShareOf(b, n)
  BY DEF SharingInv, Rounds, Settled, CountIsSenders, RateIsShare, Share
<1>5. CASE Senders(s) = {}
  <2>1. OnTheWire(s) = 0 /\ n = 0
    BY <1>5, SumOfNone, FS_EmptySet DEF OnTheWire
  <2> HIDE DEF n
  <2>2. OnTheWire(s) <= Larger(b, MinLevel * n)
    BY <1>2, <2>1, Floors DEF Larger
  <2> QED
    BY <1>5, <2>2 DEF WithinBudget, n
<1>6. CASE Senders(s) # {}
  <2>1. ShareOf(b, n) \in Nat /\ ShareOf(b, n) >= b \div n
        /\ ShareOf(b, n) * n <= Larger(b, MinLevel * n)
    <3> HIDE DEF n, b
    <3> QED
      BY <1>2, <1>3, <1>6, SharesOfBudget
  <2>2. OnTheWire(s) = ShareOf(b, n) * n
    <3>1. \A q \in Senders(s) : rate[q] = ShareOf(b, n)
      BY <1>4, <1>6
    <3>2. ShareOf(b, n) \in Int
      BY <2>1
    <3> QED
      BY <1>1, <3>1, <3>2, SumOfConstant DEF OnTheWire
  <2> QED
    BY <1>4, <1>6, <2>1, <2>2 DEF WithinBudget
<1> QED
  BY <1>5, <1>6

LEMMA SharingHolds ==
  ASSUME Epoch >= 3
  PROVE  Spec /\ []Coherent => [](PccInv /\ SharingInv)
<1>1. Init => SharingInv
  BY DEF Init, SharingInv, Orderly, Rounds, Idle, IdleThread, FreePair
<1>2. PccInv /\ Coherent /\ Coherent' /\ SharingInv /\ [Next]_vars => SharingInv'
  BY NextSharing
<1> QED
  BY <1>1, <1>2, PccHolds, PTL DEF Spec

\* Five epochs after its budget or its QPs changed, what a pair puts on the wire is
\* at most its budget: whatever events its threads handle at once, where an event
\* takes no more than a tick, a third of an epoch, and none of its QPs was learned
\* with an entry that is another pair's now.
THEOREM BudgetIsShared ==
  ASSUME Epoch >= 3
  PROVE  Spec /\ []Coherent => []SharesBudget
<1>1. PccInv /\ SharingInv => SharesBudget
  BY SettledIsShared DEF SharesBudget
<1> QED
  BY <1>1, SharingHolds, PTL

\* Nor does any of it get lost: each QP that sends has its full share then.
THEOREM BudgetIsFilled ==
  ASSUME Epoch >= 3
  PROVE  Spec /\ []Coherent => []FillsBudget
<1>1. PccInv /\ SharingInv => FillsBudget
  BY SettledIsShared DEF FillsBudget
<1> QED
  BY <1>1, SharingHolds, PTL

\* A learned QP's pair stays in the entry where no pair is deleted.
Kept == \A q \in Qps : qpMap[q] # Unlearned => pairs[qpMap[q].slot].tag = TagOf[q]

LEMMA NextKept ==
  ASSUME 0 \notin Budgets, PccInv, Orderly, Kept, [Next]_vars
  PROVE  Kept'
<1>1. \A q \in Qps : qpMap[q] # Unlearned => qpMap[q].slot \in Slots
  BY DEF PccInv, TypeOK
<1>2. ASSUME UNCHANGED qpMap,
             \A s \in Slots : pairs[s].tag # NoTag => pairs'[s].tag = pairs[s].tag
      PROVE  Kept'
  <2>1. \A q \in Qps : TagOf[q] # NoTag
    BY PccAssumption
  <2> QED
    BY <1>1, <1>2, <2>1 DEF Kept
<1>3. ASSUME NEW tag \in Tags, NEW b \in Budgets, NEW batch \in BOOLEAN, Mailbox(tag, b, batch)
      PROVE  Kept'
  <2>1. UNCHANGED qpMap
    BY <1>3 DEF Mailbox, Install, Rebudget, Delete
  <2>2. CASE Install(tag, b, batch)
    <3>1. Min(SlotsOf(NoTag)) \in SlotsOf(NoTag)
      BY <2>2, FirstSlot DEF Install, SlotsOf
    <3>2. \A s \in Slots : pairs[s].tag # NoTag => pairs'[s] = pairs[s]
      BY <2>2, <3>1 DEF Install, SlotsOf, PccInv, TypeOK
    <3> QED
      BY <1>2, <2>1, <3>2
  <2>3. ASSUME NEW y \in Slots, Rebudget(y, b, batch)
        PROVE  Kept'
    <3>1. \A s \in Slots : pairs'[s].tag = pairs[s].tag
      BY <2>3 DEF Rebudget, PccInv, TypeOK, Pair
    <3> QED
      BY <1>2, <2>1, <3>1
  <2> QED
    BY <1>3, <2>2, <2>3 DEF Mailbox, SlotsOf
<1>4. ASSUME NEW t \in Threads, NEW q \in Qps, Event(t, q)
      PROVE  Kept'
  <2>1. UNCHANGED pairs
    BY <1>4 DEF Event, Handle
  <2>2. CASE UNCHANGED qpMap
    BY <1>2, <2>1, <2>2
  <2>3. ASSUME NEW x, x \in IF qpMap[q] # Unlearned THEN {qpMap[q].slot} ELSE SlotsOf(TagOf[q]),
               qpMap' = [qpMap EXCEPT ![q] = [slot |-> x, lag |-> 0]]
        PROVE  Kept'
    <3>1. pairs[x].tag = TagOf[q]
      BY <2>3 DEF SlotsOf, Kept
    <3>2. \A p \in Qps : p # q => qpMap'[p] = qpMap[p]
      BY <2>3 DEF PccInv, TypeOK
    <3>3. qpMap'[q].slot = x
      BY <2>3 DEF PccInv, TypeOK
    <3> QED
      BY <2>1, <3>1, <3>2, <3>3 DEF Kept
  <2> QED
    BY <1>4, <2>2, <2>3 DEF Event, Handle
<1>5. ASSUME NEW t \in Threads, CountQp(t) \/ Assign(t)
      PROVE  Kept'
  <2>1. UNCHANGED qpMap /\ \A s \in Slots : pairs'[s].tag = pairs[s].tag
    BY <1>5 DEF CountQp, Assign, PccInv, TypeOK, Pair
  <2> QED
    BY <1>2, <2>1
<1>6. ASSUME NEW t \in Threads, Roll(t)
      PROVE  Kept'
  <2>1. \A s \in Slots : pairs'[s].tag = pairs[s].tag
    BY <1>6 DEF Roll, TakeCount, PccInv, TypeOK, Pair
  <2>2. ASSUME NEW q \in Qps, qpMap'[q] # Unlearned
        PROVE  qpMap[q] # Unlearned /\ qpMap'[q].slot = qpMap[q].slot
    <3>1. CASE qpMap'[q] = qpMap[q]
      BY <2>2, <3>1
    <3>2. CASE qpMap[q] # Unlearned /\ qpMap'[q] = [qpMap[q] EXCEPT !.lag = UpTo(2, @ + 1)]
      BY <3>2 DEF PccInv, TypeOK
    <3> QED
      BY <1>6, <3>1, <3>2 DEF Roll
  <2> QED
    BY <1>1, <2>1, <2>2 DEF Kept
<1>7. CASE Tick \/ (\E q \in Qps : Switch(q)) \/ UNCHANGED vars
  <2>1. UNCHANGED qpMap /\ \A s \in Slots : pairs'[s].tag = pairs[s].tag
    BY <1>7 DEF Tick, Switch, vars, PccInv, TypeOK, Pair
  <2> QED
    BY <1>2, <2>1
<1> QED
  BY <1>3, <1>4, <1>5, <1>6, <1>7 DEF Next

\* The condition holds where pairs are not deleted, and where there is only one: a
\* learned QP's pair is in the entry that it was learned with.
THEOREM KeptPairsAreCoherent ==
  ASSUME 0 \notin Budgets \/ (\E s, tag : Slots = {s} /\ Tags = {tag})
  PROVE  Spec => []Coherent
<1>1. CASE \E s, tag : Slots = {s} /\ Tags = {tag}
  <2>1. PccInv => Coherent
    <3> SUFFICES ASSUME PccInv, NEW q \in Qps, qpMap[q] # Unlearned
                 PROVE  /\ SlotsOf(TagOf[q]) \subseteq {qpMap[q].slot}
                        /\ pairs[qpMap[q].slot].tag \in {NoTag, TagOf[q]}
      BY DEF Coherent
    <3>1. qpMap[q].slot \in Slots /\ TagOf[q] \in Tags
      BY PccAssumption DEF PccInv, TypeOK
    <3>2. pairs[qpMap[q].slot].tag \in Tags \cup {NoTag}
      BY <3>1 DEF PccInv, TypeOK, Pair
    <3> QED
      BY <1>1, <3>1, <3>2 DEF SlotsOf
  <2> QED
    BY <2>1, PccHolds, PTL
<1>2. CASE 0 \notin Budgets
  <2>1. Init => Kept /\ Orderly
    BY DEF Init, Kept, Orderly, Idle, IdleThread, FreePair
  <2>2. PccInv /\ Orderly /\ Kept /\ [Next]_vars => Kept'
    BY <1>2, NextKept
  <2>3. PccInv /\ Orderly /\ Kept => Coherent
    <3> SUFFICES ASSUME PccInv, Orderly, Kept, NEW q \in Qps, qpMap[q] # Unlearned
                 PROVE  /\ SlotsOf(TagOf[q]) \subseteq {qpMap[q].slot}
                        /\ pairs[qpMap[q].slot].tag \in {NoTag, TagOf[q]}
      BY DEF Coherent
    <3>1. qpMap[q].slot \in Slots /\ TagOf[q] # NoTag /\ pairs[qpMap[q].slot].tag = TagOf[q]
      BY PccAssumption DEF PccInv, TypeOK, Kept
    <3> QED
      BY <3>1 DEF SlotsOf, Orderly
  <2>4. PccInv /\ Orderly /\ [Next]_vars => Orderly'
    BY NextOrderly
  <2> QED
    BY <2>1, <2>2, <2>3, <2>4, PccHolds, PTL DEF Spec
<1> QED
  BY <1>1, <1>2

==============================================================================
