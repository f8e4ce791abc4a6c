----------------------------- MODULE MCRpPccRaces -----------------------------
(* Two threads, and a data QP of each of two pairs or two QPs of one pair.     *)
EXTENDS RpPcc, TLC

CONSTANTS t1, t2, a, b, q1, q2

MCQps == {q1, q2}
OnePair == [q \in MCQps |-> a]
TwoPairs == [q \in MCQps |-> IF q = q1 THEN a ELSE b]
==============================================================================
