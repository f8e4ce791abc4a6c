------------------------------- MODULE MCRpPcc -------------------------------
(* Two threads; two data QPs and a sparse one of the same pair.                *)
EXTENDS RpPcc, TLC

CONSTANTS t1, t2, a, q1, q2, q3

MCQps == {q1, q2, q3}
MCTagOf == [q \in MCQps |-> a]
Symmetry == Permutations({t1, t2}) \cup Permutations({q1, q2})
==============================================================================
