------------------------------ MODULE VportMeter ------------------------------
(***************************************************************************)
(* One record of the vport counters in shared memory: the helper that      *)
(* queries the firmware and publishes under a sequence lock (dpu/          *)
(* vport_meter.c), and a reader (VportMeter of dpu/rx_agent.py, which      *)
(* tries Tries times; SenderLiveness of dpu/tx_agent_e.py tries once).     *)
(* Both run without a lock; the helper may die anywhere, and the next one  *)
(* clears and reuses the same file.                                        *)
(*                                                                         *)
(* A word is stored and loaded at once and in program order. The counters  *)
(* of the n-th query are all n, its time too. A failed query changes       *)
(* nothing. That a record is older than STALE_S, and that nothing was      *)
(* fresh for a second, may be found whenever it is asked.                  *)
(***************************************************************************)
EXTENDS Integers, Sequences, Functions

CONSTANTS
  Counters,    \* rx_ib, rx_eth, tx_ib, tx_eth as far as they are read
  Tries,       \* attempts of a sample
  Keep,        \* nkeep: samples that are kept
  MaxQueries   \* a bound: queries that succeed

Cells == {"t"} \cup Counters

ASSUME MeterAssumption ==
  /\ Tries \in Nat \ {0} /\ Keep \in Nat \ {0} /\ MaxQueries \in Nat
  /\ "seq" \notin Counters /\ "header" \notin Counters

VARIABLES
  writer,   \* the helper: "down", "zero", "header", "rest" or "write"
  todo,     \* what it has still to clear or to write
  queries,  \* queries made so far
  dirty,    \* has a clearing begun that none has completed?
  header,   \* what is written of it: {}, {"magic"} or {"magic", "vports"}
  seq,      \* vpm_rec.seq
  rec,      \* the other words of vpm_rec
  reader,   \* "rest", "seq" (to read it) or "cells" (to read the others)
  mm,       \* the reader's map of the file: "closed", "empty" (no slots) or "mapped"
  tries,    \* attempts of this sample that failed
  s1,       \* seq when the attempt began, 0 outside of one
  seen,     \* words read in the attempt
  spoilt,   \* has there been a clearing since the attempt began?
  fresh,    \* is the vport in self.fresh?
  lastT,    \* self.last_t
  ring      \* self.ring

writerVars == <<writer, todo, queries, dirty, header, seq, rec>>
readerVars == <<reader, mm, tries, s1, seen, fresh, lastT, ring>>
meterVars == <<writer, todo, queries, dirty, header, seq, rec,
               reader, mm, tries, s1, seen, spoilt, fresh, lastT, ring>>

Nothing == [x \in {} |-> 0]

------------------------------------------------------------------------------
(* The helper *)

Crash ==
  /\ writer # "down"
  /\ writer' = "down" /\ todo' = {}
  /\ UNCHANGED <<queries, dirty, header, seq, rec, readerVars, spoilt>>

\* It maps the file that is there and begins to clear it, in no known order.
Start ==
  /\ writer = "down"
  /\ writer' = "zero" /\ todo' = Cells \cup {"seq", "header"}
  /\ dirty' = TRUE /\ spoilt' = TRUE
  /\ UNCHANGED <<queries, header, seq, rec, readerVars>>

Zero(x) ==
  /\ writer = "zero" /\ x \in todo
  /\ todo' = todo \ {x}
  /\ header' = IF x = "header" THEN {} ELSE header
  /\ seq' = IF x = "seq" THEN 0 ELSE seq
  /\ rec' = [y \in Cells |-> IF x = y THEN 0 ELSE rec[y]]
  /\ UNCHANGED <<writer, queries, dirty, readerVars, spoilt>>

Zeroed ==
  /\ writer = "zero" /\ todo = {}
  /\ writer' = "header" /\ dirty' = FALSE
  /\ UNCHANGED <<todo, queries, header, seq, rec, readerVars, spoilt>>

\* The magic is written before the vports are.
Header ==
  /\ writer = "header"
  /\ IF header = {} THEN header' = {"magic"} /\ writer' = writer
     ELSE header' = {"magic", "vports"} /\ writer' = "rest"
  /\ UNCHANGED <<todo, queries, dirty, seq, rec, readerVars, spoilt>>

\* A query has succeeded: the record is locked.
BeginWrite ==
  /\ writer = "rest" /\ queries < MaxQueries
  /\ writer' = "write" /\ todo' = Cells
  /\ queries' = queries + 1 /\ seq' = seq + 1
  /\ UNCHANGED <<dirty, header, rec, readerVars, spoilt>>

Write(x) ==
  /\ writer = "write" /\ x \in todo
  /\ todo' = todo \ {x}
  /\ rec' = [rec EXCEPT ![x] = queries]
  /\ UNCHANGED <<writer, queries, dirty, header, seq, readerVars, spoilt>>

\* Mutant: the fence before the second store of seq is missing.
EndWriteEarly ==
  /\ writer = "write"
  /\ writer' = "rest" /\ seq' = seq + 1
  /\ UNCHANGED <<todo, queries, dirty, header, rec, readerVars, spoilt>>

EndWrite ==
  /\ writer = "write" /\ todo = {}
  /\ writer' = "rest" /\ seq' = seq + 1
  /\ UNCHANGED <<todo, queries, dirty, header, rec, readerVars, spoilt>>

------------------------------------------------------------------------------
(* The reader *)

\* _open: without the magic it stays closed; the slots are looked up only here.
Open ==
  /\ reader = "rest" /\ mm = "closed"
  /\ mm' = CASE header = {} -> "closed"
             [] header = {"magic"} -> "empty"
             [] OTHER -> "mapped"
  /\ fresh' = FALSE
  /\ UNCHANGED <<writerVars, reader, tries, s1, seen, spoilt, lastT, ring>>

\* Nothing was fresh for a second.
Close ==
  /\ reader = "rest" /\ mm # "closed" /\ ~fresh
  /\ mm' = "closed"
  /\ UNCHANGED <<writerVars, reader, tries, s1, seen, spoilt, fresh, lastT, ring>>

Sample ==
  /\ reader = "rest" /\ mm = "mapped"
  /\ reader' = "seq" /\ tries' = 0 /\ fresh' = FALSE
  /\ UNCHANGED <<writerVars, mm, s1, seen, spoilt, lastT, ring>>

\* What an attempt has read is forgotten with it. The last that fails leaves the
\* vport not fresh.
Forget == s1' = 0 /\ seen' = Nothing

\* Mutant: one attempt too many.
FailOften == /\ tries' = tries + 1
             /\ reader' = IF tries < Tries THEN "seq" ELSE "rest"
             /\ UNCHANGED <<fresh, lastT, ring>>

Fail == /\ tries' = tries + 1
        /\ reader' = IF tries + 1 < Tries THEN "seq" ELSE "rest"
        /\ UNCHANGED <<fresh, lastT, ring>>

Odd(n) == n % 2 = 1

ReadSeq ==
  /\ reader = "seq"
  /\ IF Odd(seq) THEN Fail /\ UNCHANGED <<s1, spoilt>>
     ELSE /\ reader' = "cells" /\ s1' = seq /\ spoilt' = dirty
          /\ UNCHANGED <<tries, fresh, lastT, ring>>
  /\ UNCHANGED <<writerVars, mm, seen>>

ReadCell(x) ==
  /\ reader = "cells" /\ x \notin DOMAIN seen
  /\ seen' = [y \in DOMAIN seen \cup {x} |-> IF y = x THEN rec[x] ELSE seen[y]]
  /\ UNCHANGED <<writerVars, reader, mm, tries, s1, spoilt, fresh, lastT, ring>>

Push(r) == LET longer == Append(ring, r)
           IN IF Len(longer) > Keep THEN Tail(longer) ELSE longer

\* What was read is whole. The record is fresh unless it is empty or old; it is
\* sampled unless it was sampled before.
Ingest(old) ==
  /\ reader' = "rest"
  /\ IF seen["t"] = 0 \/ old THEN UNCHANGED <<fresh, lastT, ring>>
     ELSE /\ fresh' = TRUE
          /\ IF seen["t"] = lastT THEN UNCHANGED <<lastT, ring>>
             ELSE lastT' = seen["t"] /\ ring' = Push(seen)
  /\ UNCHANGED tries

\* Mutant: whatever is fresh is sampled, again if need be.
ResampleSame ==
  /\ reader = "cells" /\ DOMAIN seen = Cells
  /\ IF seq = s1 /\ seen["t"] # 0
     THEN /\ reader' = "rest" /\ fresh' = TRUE /\ lastT' = seen["t"] /\ ring' = Push(seen)
          /\ UNCHANGED tries
     ELSE Fail
  /\ Forget
  /\ UNCHANGED <<writerVars, mm, spoilt>>

\* seq is read again.
Check ==
  /\ reader = "cells" /\ DOMAIN seen = Cells
  /\ IF seq = s1 THEN \E old \in BOOLEAN : Ingest(old) ELSE Fail
  /\ Forget
  /\ UNCHANGED <<writerVars, mm, spoilt>>

------------------------------------------------------------------------------

Init ==
  /\ writer = "down" /\ todo = {} /\ queries = 0 /\ dirty = FALSE
  /\ header = {} /\ seq = 0 /\ rec = [x \in Cells |-> 0]
  /\ reader = "rest" /\ mm = "closed" /\ tries = 0 /\ s1 = 0 /\ seen = Nothing
  /\ spoilt = FALSE /\ fresh = FALSE /\ lastT = 0 /\ ring = <<>>

Helper == \/ Crash \/ Start \/ Zeroed \/ Header \/ BeginWrite \/ EndWrite
          \/ \E x \in Cells \cup {"seq", "header"} : Zero(x)
          \/ \E x \in Cells : Write(x)
Reader == \/ Open \/ Close \/ Sample \/ ReadSeq \/ Check
          \/ \E x \in Cells : ReadCell(x)
Next == Helper \/ Reader

Spec == Init /\ [][Next]_meterVars

------------------------------------------------------------------------------
(* Properties *)

\* Every variable has its type, and no sample takes more attempts than it may.
TypeOK ==
  /\ writer \in {"down", "zero", "header", "rest", "write"}
  /\ todo \subseteq Cells \cup {"seq", "header"}
  /\ queries \in 0 .. MaxQueries /\ dirty \in BOOLEAN
  /\ header \in {{}, {"magic"}, {"magic", "vports"}}
  /\ seq \in Nat /\ rec \in [Cells -> 0 .. MaxQueries]
  /\ reader \in {"rest", "seq", "cells"} /\ mm \in {"closed", "empty", "mapped"}
  /\ tries \in 0 .. Tries /\ (reader # "rest" => tries < Tries)
  /\ s1 \in Nat /\ DOMAIN seen \subseteq Cells /\ seen \in [DOMAIN seen -> 0 .. MaxQueries]
  /\ spoilt \in BOOLEAN /\ fresh \in BOOLEAN /\ lastT \in 0 .. MaxQueries
  /\ ring \in Seq([Cells -> 0 .. MaxQueries]) /\ Len(ring) <= Keep

\* Rates are differences over times of the writer: those of the samples always grow,
\* even over crashes, half-cleared records and samples that a restart has spoilt.
TimesGrow == \A i, j \in DOMAIN ring : i < j => ring[i]["t"] < ring[j]["t"]

\* The record as a register: nothing is published while it is written or cleared.
Published == IF dirty \/ Odd(seq) THEN 0 ELSE rec["t"]

Register == INSTANCE SampledRegister
              WITH value <- Published, restarting <- dirty

\* The sequence lock makes the record an atomic register for whoever samples it: no
\* sample mixes two queries, whatever the interleaving and wherever the helper dies,
\* unless the file is cleared while the sample is taken.
ImplementsRegister == Register!Spec

==============================================================================
