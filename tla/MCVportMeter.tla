----------------------------- MODULE MCVportMeter -----------------------------
(* The two counters whose rates must be of the same instant.                   *)
EXTENDS VportMeter, TLC

CONSTANTS ib, eth

MCCounters == {ib, eth}
Symmetry == Permutations(MCCounters)
==============================================================================
