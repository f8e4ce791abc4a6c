------------------------------ MODULE MCTxPolicy ------------------------------
(* One VM with one flow-set on a grid of three levels.                         *)
EXTENDS TxPolicy

CONSTANTS flow, vm

MCFlows == {flow}
MCVms == {vm}
MCVmOf == [f \in MCFlows |-> vm]
MCTargets == {-2}
MCWants == {0, 2}
==============================================================================
