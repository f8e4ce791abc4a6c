-------------------------------- MODULE TxPath --------------------------------
(***************************************************************************)
(* The way a pace takes from the sender agent's loop (TxAgent) to the two  *)
(* executors. A tcp pace is sent to the host's pace shim in a UDP datagram *)
(* that nobody acknowledges to the law, and the shim writes it into the    *)
(* pair_cfg map it opened when it started. An rdma pace is kept as the     *)
(* flow-set's latest budget, and all the latest budgets are written to the *)
(* PCC RP's FIFO at the mailbox rate. Datagrams may be lost and reordered; *)
(* the EDT actuator is re-applied (which recreates its maps), the RP and   *)
(* the shim are restarted.                                                 *)
(*                                                                         *)
(* The budget hysteresis (3%) and the dither of the fed rate are finer     *)
(* than the grid of levels. The RP reads its FIFO as fast as it is written *)
(* to, because the push period is the mailbox's own. Each rdma flow-set    *)
(* has a flowtag of its own: the code keeps latest_rdma per flowtag, and   *)
(* where two flow-sets have the same one the budget written last is that   *)
(* of both. The registry says never to schedule such a pair together.      *)
(***************************************************************************)
EXTENDS TxAgent

CONSTANTS
  TcpFlows,    \* the tcp flow-sets; the others are rdma
  PushTicks,   \* rdma_push_ms in ticks
  MaxRestarts  \* bound of the model: executors restarted

RdmaFlows == Flows \ TcpFlows
Unset == Top + 1  \* an executor that does not hold a rate of the agent's

ASSUME PathAssumption ==
  /\ TcpFlows \subseteq Flows
  /\ PushTicks \in Nat \ {0} /\ MaxRestarts \in Nat
  /\ 1 \in Steps

VARIABLES
  net,       \* paces in flight to the shim, per tcp flow-set
  latest,    \* latest_rdma: budget per flow-set, Missing without an entry
  pushAge,   \* now - last_rdma_push
  fifoUp,    \* the RP reads its FIFO
  shimFresh, \* the map the shim holds open is the one the classifier reads
  exec,      \* the rate each executor enforces, or Unset
  restarts,  \* executors restarted so far
  tick       \* parity of the ticks so far, for fairness

pathVars == <<net, latest, pushAge, fifoUp, shimFresh, exec, restarts, tick>>
allVars == <<vars, pathVars>>

------------------------------------------------------------------------------
(* The agent's end of the path, after the loop's two paths have run *)

\* shim.set_rate
SendTcp(d) ==
  net' = [f \in TcpFlows |->
            IF Sent(f, d) THEN net[f] \cup {st'[f].pace} ELSE net[f]]

\* The batch of the iteration replaces the entries of its flow-sets.
Coalesce(d) ==
  latest' = [f \in RdmaFlows |->
               IF Actuated(f, d) THEN st'[f].pace ELSE latest[f]]

\* Mutant: only the flow-sets still known are flushed.
FlushKnown == [f \in RdmaFlows |-> IF st'[f] # NoFlow THEN latest'[f] ELSE Missing]

Flush == latest'

\* mailbox.write_batch: a write that finds no reader is not retried before the
\* next push.
Push(d) ==
  LET age == Saturated(pushAge, d, PushTicks)
      due == age >= PushTicks /\ \E f \in RdmaFlows : latest'[f] # Missing
  IN /\ pushAge' = IF due THEN 0 ELSE age
     /\ exec' = [f \in Flows |->
                   IF due /\ fifoUp /\ f \in RdmaFlows /\ Flush[f] # Missing
                     THEN Flush[f] ELSE exec[f]]

LoopPath(d) ==
  /\ Loop(d)
  /\ SendTcp(d) /\ Coalesce(d) /\ Push(d)
  /\ tick' = (tick + d) % 2
  /\ UNCHANGED <<fifoUp, shimFresh, restarts>>

------------------------------------------------------------------------------
(* The executors *)

\* The shim takes a datagram and writes its rate into the map it holds.
Deliver(f, p) ==
  /\ p \in net[f]
  /\ net' = [net EXCEPT ![f] = @ \ {p}]
  /\ exec' = [exec EXCEPT ![f] = IF shimFresh THEN p ELSE @]
  /\ UNCHANGED <<vars, tick, latest, pushAge, fifoUp, shimFresh, restarts>>

Lose(f, p) ==
  /\ p \in net[f]
  /\ net' = [net EXCEPT ![f] = @ \ {p}]
  /\ UNCHANGED <<vars, tick, latest, pushAge, fifoUp, shimFresh, exec, restarts>>

\* tcp-shaper-apply writes what the static rules say into pair_cfg. Where the
\* pins were removed first (a full re-apply) it loads the program with new maps.
ReapplyEdt ==
  /\ restarts < MaxRestarts
  /\ restarts' = restarts + 1
  /\ shimFresh' \in {shimFresh, FALSE}
  /\ exec' = [f \in Flows |-> IF f \in TcpFlows THEN Unset ELSE exec[f]]
  /\ UNCHANGED <<vars, tick, net, latest, pushAge, fifoUp>>

\* The shim is restarted after a re-apply: it opens the pinned map. What its
\* socket held is lost.
RestartShim ==
  /\ ~shimFresh
  /\ shimFresh' = TRUE
  /\ net' = [f \in TcpFlows |-> {}]
  /\ UNCHANGED <<vars, tick, latest, pushAge, fifoUp, exec, restarts>>

\* rp_service.sh stops the RP, which takes its FIFO with it, and starts it
\* again without budgets.
StopRp ==
  /\ fifoUp /\ restarts < MaxRestarts
  /\ restarts' = restarts + 1
  /\ fifoUp' = FALSE
  /\ UNCHANGED <<vars, tick, net, latest, pushAge, shimFresh, exec>>

StartRp ==
  /\ ~fifoUp
  /\ fifoUp' = TRUE
  /\ exec' = [f \in Flows |-> IF f \in RdmaFlows THEN Unset ELSE exec[f]]
  /\ UNCHANGED <<vars, tick, net, latest, pushAge, shimFresh, restarts>>

PathInit ==
  /\ Init
  /\ net = [f \in TcpFlows |-> {}]
  /\ latest = [f \in RdmaFlows |-> Missing]
  /\ pushAge = 0
  /\ fifoUp = TRUE /\ shimFresh = TRUE
  /\ exec = [f \in Flows |-> Unset]
  /\ restarts = 0 /\ tick = 0

PathNext ==
  \/ \E d \in Steps : LoopPath(d)
  \/ \E f \in TcpFlows, p \in Paces : Deliver(f, p) \/ Lose(f, p)
  \/ ReapplyEdt \/ RestartShim \/ StopRp \/ StartRp

PathSpec == PathInit /\ [][PathNext]_allVars

\* Time passes: an iteration of the loop is always possible, and so is one that
\* begins a tick.
Ticks == tick' = 1 - tick

\* The loop never stops and time passes in it; a datagram does not stay in
\* flight for ever, and one that is sent again and again arrives; rp_service.sh
\* starts the RP it stopped.
Fairness ==
  /\ WF_tick(Ticks)
  /\ \A f \in TcpFlows, p \in Paces :
       /\ WF_allVars(Deliver(f, p) \/ Lose(f, p))
       /\ SF_allVars(Deliver(f, p))
  /\ WF_allVars(StartRp)

\* The operator does what edt_ensure.sh says: "restart the shim after a full
\* EDT re-apply".
OperatedSpec == PathSpec /\ Fairness /\ WF_allVars(RestartShim)

------------------------------------------------------------------------------
(* Properties *)

\* Every variable has its type; an executor only ever holds a pace.
PathTypeOK ==
  /\ TypeOK
  /\ net \in [TcpFlows -> SUBSET Paces]
  /\ latest \in [RdmaFlows -> Paces \cup {Missing}]
  /\ pushAge \in 0 .. PushTicks
  /\ fifoUp \in BOOLEAN /\ shimFresh \in BOOLEAN
  /\ exec \in [Flows -> Paces \cup {Unset}]
  /\ restarts \in 0 .. MaxRestarts /\ tick \in 0 .. 1

\* Whatever restarts or is lost, the executor of a flow-set that stays known is
\* given a rate again: tcp by the heartbeat, rdma by the periodic flush. The
\* shim has to be restarted with the actuator.
UnsetIsRepaced ==
  \A f \in Flows :
    (Known(f) /\ exec[f] = Unset) ~> (exec[f] # Unset \/ ~Known(f))

\* An rdma budget outlives the flow-set: once flushed, it is in the RP again
\* after every restart, even of a flow-set the agent has forgotten.
BudgetsSurviveRestart ==
  \A f \in RdmaFlows :
    (latest[f] # Missing) ~> [](exec[f] = Unset => <>(exec[f] # Unset))

\* Telemetry that stays dead ends with every known flow-set paced at exactly the
\* sender-local tree: "neither wedged nor uncontrolled", whatever was in flight
\* or down when it died.
OutageEndsAtTree ==
  <>[](anyAge >= N1) =>
    <>[](\A f \in Flows :
           Known(f) => exec[f] = Larger(TreeOf(applied, want, f), Floor))

==============================================================================
