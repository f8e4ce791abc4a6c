--------------------------- MODULE SampledRegister ---------------------------
(***************************************************************************)
(* What a reader of the vport counters is promised, whatever the writer    *)
(* does: it takes whole records only, while they are published, and each   *)
(* later than the one before. A restart of the writer may spoil the record *)
(* that is being read while it lasts, but not the order.                   *)
(***************************************************************************)
EXTENDS Integers, Sequences

CONSTANTS
  Cells,   \* the words of a record; "t" is the time of the query
  Keep     \* samples that are kept

VARIABLES
  value,       \* time of the query whose results are published, 0 if there are none
  restarting,  \* is the record being reset?
  spoilt,      \* did a reset fall into the sample being taken?
  ring         \* the samples taken: what was read for each cell

vars == <<value, restarting, spoilt, ring>>

Whole(t) == [x \in Cells |-> t]

Push(r) == LET longer == Append(ring, r)
           IN IF Len(longer) > Keep THEN Tail(longer) ELSE longer

Init == value = 0 /\ restarting = FALSE /\ spoilt = FALSE /\ ring = <<>>

\* A new record takes the old one's place, with a time in between when there is none.
Publish == /\ ~restarting /\ value' \in Nat
           /\ UNCHANGED <<restarting, spoilt, ring>>

Restart == /\ restarting' = TRUE /\ spoilt' = TRUE /\ value' = 0
           /\ UNCHANGED ring

Restarted == /\ restarting' = FALSE /\ value' = 0
             /\ UNCHANGED <<spoilt, ring>>

BeginSample == /\ spoilt' = restarting
               /\ UNCHANGED <<value, restarting, ring>>

\* The record taken is the one published, unless a restart has spoilt the sample.
Take == LET r == ring'[Len(ring')]
        IN /\ spoilt \/ (value # 0 /\ r = Whole(value))
           /\ \A i \in DOMAIN ring : ring[i]["t"] < r["t"]
           /\ ring' = Push(r)
           /\ UNCHANGED <<value, restarting, spoilt>>

Next == Publish \/ Restart \/ Restarted \/ BeginSample \/ Take

Spec == Init /\ [][Next]_vars

==============================================================================
