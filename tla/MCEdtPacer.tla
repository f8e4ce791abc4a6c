----------------------------- MODULE MCEdtPacer -----------------------------
(* Two CPUs, a flow that either may handle and whose entry the kernel may drop, *)
(* so that any packet may find it idle, and two packet shapes: a small packet   *)
(* whose socket stamps nothing and a super-packet of two frames stamped one     *)
(* unit ahead.                                                                  *)
EXTENDS EdtPacer, TLC

CONSTANTS c1, c2, f1

MCCpus == {c1, c2}
MCFlows == {f1}
MCPackets == {[len |-> 1, segs |-> 1, lead |-> 0],
              [len |-> 2, segs |-> 2, lead |-> 1]}

Symmetry == Permutations(MCCpus)
==============================================================================
