------------------------------ MODULE MCTxAgent ------------------------------
(* Two flow-sets on a grid of four levels.                                     *)
EXTENDS TxAgent, TLC

CONSTANTS f1, f2

MCFlows == {f1, f2}
MCTargets == {-2, -1, 1}
MCWants == {0, 3}
Symmetry == Permutations(MCFlows)
==============================================================================
