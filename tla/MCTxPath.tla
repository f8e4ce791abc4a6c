------------------------------- MODULE MCTxPath -------------------------------
(* A tcp and an rdma flow-set on a grid of two levels.                       *)
EXTENDS TxPath

CONSTANTS tcp, rdma

MCFlows == {tcp, rdma}
MCTcpFlows == {tcp}
MCTargets == {-2}
MCWants == {0, 1}
==============================================================================
