-------------------------------- MODULE Permit --------------------------------
(***************************************************************************)
(* What the receiver promises its senders about telemetry, whatever the    *)
(* rates are: a record is the permit that keeps a sender out of fail-open. *)
(* A flow-set in the flow table has one in every report, one that has left *)
(* the table keeps it for a grace, and nobody else has one. A receiver     *)
(* that restarts starts with no permits.                                   *)
(***************************************************************************)
EXTENDS Integers

CONSTANTS
  FlowSets,
  Grace,  \* ticks a permit outlives its flow-set
  Steps   \* ticks that may pass between two reports

VARIABLES
  silence,   \* per flow-set: ticks since it was in the table, at most Grace + 1
  permitted  \* flow-sets with a record in the last report

permitVars == <<silence, permitted>>

Init ==
  /\ silence = [f \in FlowSets |-> Grace + 1]
  /\ permitted = {}

Saturated(n) == IF n > Grace + 1 THEN Grace + 1 ELSE n

Report(present, d) ==
  /\ silence' = [f \in FlowSets |-> IF f \in present THEN 0 ELSE Saturated(silence[f] + d)]
  /\ permitted' = {f \in FlowSets : silence'[f] <= Grace}

Restart ==
  /\ silence' = [f \in FlowSets |-> Grace + 1]
  /\ permitted' = {}

Next ==
  \/ \E present \in SUBSET FlowSets, d \in Steps : Report(present, d)
  \/ Restart

Spec == Init /\ [][Next]_permitVars
==============================================================================
