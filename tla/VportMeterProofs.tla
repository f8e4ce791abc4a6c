--------------------------- MODULE VportMeterProofs ---------------------------
(***************************************************************************)
(* The sequence lock of VportMeter, for any counters, any number of        *)
(* attempts, samples and queries: its types, that sampled times grow, and  *)
(* that the record implements the atomic register of SampledRegister.      *)
(***************************************************************************)
EXTENDS VportMeter, SequenceTheorems, TLAPS

\* Nothing read or recorded is of a later query than the last.
Bounded ==
  /\ \A x \in Cells : rec[x] <= queries
  /\ \A x \in DOMAIN seen : seen[x] <= queries
  /\ lastT <= queries

\* The helper's part of the protocol: seq is odd while the record is written, and a
\* record that is neither locked nor being cleared is whole.
WriterKeeps ==
  /\ writer = "write" => /\ Odd(seq) /\ ~dirty
                         /\ \A x \in Cells \ todo : rec[x] = queries
  /\ writer = "zero" => /\ dirty
                        /\ \A x \in Cells \ todo : rec[x] = 0
                        /\ "seq" \notin todo => seq = 0
  /\ writer \in {"rest", "header"} => ~Odd(seq) /\ ~dirty
  /\ ~Odd(seq) /\ ~dirty => \A x \in Cells : rec[x] = rec["t"]

\* The reader's part: as long as seq is what it was, the cells are what was read.
ReaderKeeps ==
  /\ reader = "cells" /\ ~spoilt =>
       /\ ~dirty /\ ~Odd(s1) /\ s1 <= seq
       /\ seq = s1 => \A x \in DOMAIN seen : seen[x] = rec[x]
  /\ reader # "cells" => seen = Nothing

\* Times go from the record to what is read to what is sampled, and never back, but
\* for the zero of a cleared cell.
TimesInOrder ==
  /\ \A i \in DOMAIN ring : ring[i]["t"] <= lastT
  /\ rec["t"] = 0 \/ lastT <= rec["t"]
  /\ "t" \in DOMAIN seen =>
       \/ seen["t"] = 0
       \/ lastT <= seen["t"] /\ (rec["t"] = 0 \/ seen["t"] <= rec["t"])

MeterInv == /\ TypeOK /\ Bounded /\ WriterKeeps /\ ReaderKeeps
            /\ TimesInOrder /\ TimesGrow

------------------------------------------------------------------------------

\* The words that are not counters are told apart by their names.
LEMMA TimeIsCell == /\ "t" \in Cells /\ "seq" \notin Cells
                    /\ Tries \in Nat \ {0} /\ Keep \in Nat \ {0} /\ MaxQueries \in Nat
BY MeterAssumption DEF Cells

\* The parity of the lock.
LEMMA Parity == ~Odd(0) /\ \A n \in Nat : Odd(n + 1) <=> ~Odd(n)
BY DEF Odd

\* A sample goes to the end of the ring; what stays of the ring keeps its order.
LEMMA PushAppends ==
  ASSUME NEW S, ring \in Seq(S), Len(ring) <= Keep, NEW r \in S
  PROVE  /\ Push(r) \in Seq(S) /\ Len(Push(r)) \in 1 .. Keep
         /\ Push(r)[Len(Push(r))] = r
         /\ \E k \in {0, 1} : /\ Len(Push(r)) = Len(ring) + 1 - k
                             /\ \A i \in 1 .. Len(Push(r)) - 1 :
                                  i + k \in DOMAIN ring /\ Push(r)[i] = ring[i + k]
<1> DEFINE longer == Append(ring, r)
<1>1. /\ longer \in Seq(S) /\ Len(longer) = Len(ring) + 1 /\ longer[Len(longer)] = r
      /\ \A i \in 1 .. Len(ring) : longer[i] = ring[i]
  OBVIOUS
<1>2. /\ Keep \in Nat \ {0} /\ Len(ring) \in Nat /\ DOMAIN ring = 1 .. Len(ring)
      /\ Len(ring) <= Keep
  BY TimeIsCell
<1> HIDE DEF longer
<1>3. CASE Len(longer) > Keep
  <2>1. Push(r) = Tail(longer)
    BY <1>3 DEF Push, longer
  <2>2. /\ Tail(longer) \in Seq(S) /\ Len(Tail(longer)) = Len(ring)
        /\ \A i \in 1 .. Len(ring) : Tail(longer)[i] = longer[i + 1]
    <3>1. longer # <<>>
      BY <1>1, <1>2
    <3> QED
      BY <1>1, <1>2, <3>1, HeadTailProperties
  <2>3. Len(ring) + 1 > Keep
    BY <1>1, <1>3
  <2>4. Len(ring) = Keep
    <3>1. \A n, k \in Nat : n <= k /\ n + 1 > k => n = k
      OBVIOUS
    <3> QED
      BY <1>2, <2>3, <3>1
  <2> QED
    BY <1>1, <1>2, <2>1, <2>2, <2>4
<1>4. CASE ~(Len(longer) > Keep)
  <2>1. Push(r) = longer
    BY <1>4 DEF Push, longer
  <2> QED
    BY <1>1, <1>2, <1>4, <2>1
<1> QED
  BY <1>3, <1>4

------------------------------------------------------------------------------
(* The helper *)

LEMMA CrashKeeps == ASSUME MeterInv, Crash PROVE MeterInv'
BY TimeIsCell DEF Crash, readerVars, MeterInv, TypeOK, Bounded, WriterKeeps, ReaderKeeps,
   TimesInOrder, TimesGrow, Odd

LEMMA StartKeeps == ASSUME MeterInv, Start PROVE MeterInv'
BY TimeIsCell DEF Start, readerVars, MeterInv, TypeOK, Bounded, WriterKeeps, ReaderKeeps,
   TimesInOrder, TimesGrow, Odd

LEMMA ZeroKeeps == ASSUME MeterInv, NEW x \in Cells \cup {"seq", "header"}, Zero(x) PROVE MeterInv'
<1>1. /\ writer = "zero" /\ dirty /\ UNCHANGED <<writer, dirty, queries, spoilt, readerVars>>
      /\ \A y \in Cells : rec'[y] = IF x = y THEN 0 ELSE rec[y]
      /\ rec' \in [Cells -> 0 .. MaxQueries]
  BY TimeIsCell DEF Zero, MeterInv, TypeOK, WriterKeeps
<1>2. TypeOK'
  <2>1. header' = {} \/ header' = header
    BY DEF Zero
  <2> QED
    BY <1>1, <2>1 DEF Zero, readerVars, MeterInv, TypeOK
<1>3. Bounded'
  <2>1. queries \in Nat
    BY TimeIsCell DEF MeterInv, TypeOK
  <2> QED
    BY <1>1, <2>1 DEF readerVars, MeterInv, Bounded
<1>4. WriterKeeps'
  BY <1>1, TimeIsCell DEF Zero, MeterInv, TypeOK, WriterKeeps
<1>5. ReaderKeeps'
  BY <1>1 DEF readerVars, MeterInv, ReaderKeeps
<1>6. TimesInOrder' /\ TimesGrow'
  BY <1>1, TimeIsCell DEF readerVars, MeterInv, TypeOK, TimesInOrder, TimesGrow
<1> QED
  BY <1>2, <1>3, <1>4, <1>5, <1>6 DEF MeterInv

LEMMA ZeroedKeeps == ASSUME MeterInv, Zeroed PROVE MeterInv'
<1>1. /\ writer = "zero" /\ writer' = "header" /\ dirty' = FALSE /\ dirty /\ todo = {}
      /\ UNCHANGED <<todo, queries, header, seq, rec, readerVars, spoilt>>
  BY DEF Zeroed, MeterInv, WriterKeeps
<1>2. seq = 0 /\ \A x \in Cells : rec[x] = 0
  BY <1>1 DEF MeterInv, WriterKeeps
<1>3. WriterKeeps'
  BY <1>1, <1>2, TimeIsCell, Parity DEF WriterKeeps
<1>4. TypeOK'
  BY <1>1 DEF readerVars, MeterInv, TypeOK
<1>5. ReaderKeeps'
  BY <1>1 DEF readerVars, MeterInv, ReaderKeeps
<1> QED
  BY <1>1, <1>3, <1>4, <1>5 DEF readerVars, MeterInv, Bounded, TimesInOrder, TimesGrow

LEMMA HeaderKeeps == ASSUME MeterInv, Header PROVE MeterInv'
<1>1. /\ header' \in {{"magic"}, {"magic", "vports"}} /\ writer' \in {"header", "rest"}
      /\ writer = "header"
      /\ UNCHANGED <<todo, queries, dirty, seq, rec, readerVars, spoilt>>
  BY DEF Header
<1> QED
  BY <1>1 DEF readerVars, MeterInv, TypeOK, Bounded, WriterKeeps, ReaderKeeps,
     TimesInOrder, TimesGrow

LEMMA BeginWriteKeeps == ASSUME MeterInv, BeginWrite PROVE MeterInv'
<1>1. /\ ~dirty /\ Odd(seq') /\ writer' = "write" /\ todo' = Cells
      /\ seq \in Nat /\ seq' = seq + 1
      /\ queries' = queries + 1 /\ queries' \in 0 .. MaxQueries /\ queries \in Nat
      /\ UNCHANGED <<dirty, header, rec, readerVars, spoilt>>
  <2>1. seq \in Nat /\ queries \in 0 .. MaxQueries /\ ~dirty /\ ~Odd(seq)
    BY DEF BeginWrite, MeterInv, TypeOK, WriterKeeps
  <2> QED
    BY <2>1, Parity, TimeIsCell DEF BeginWrite
<1>2. WriterKeeps'
  BY <1>1 DEF MeterInv, WriterKeeps
<1>3. TypeOK' /\ Bounded'
  BY <1>1, TimeIsCell DEF readerVars, MeterInv, TypeOK, Bounded
<1>4. ReaderKeeps'
  BY <1>1 DEF readerVars, MeterInv, TypeOK, ReaderKeeps
<1>5. TimesInOrder' /\ TimesGrow'
  BY <1>1 DEF readerVars, MeterInv, TimesInOrder, TimesGrow
<1> QED
  BY <1>2, <1>3, <1>4, <1>5 DEF MeterInv

LEMMA WriteKeeps == ASSUME MeterInv, NEW x \in Cells, Write(x) PROVE MeterInv'
<1>1. /\ writer = "write" /\ ~dirty /\ Odd(seq) /\ queries \in 0 .. MaxQueries
      /\ UNCHANGED <<writer, queries, dirty, header, seq, readerVars, spoilt>>
      /\ \A y \in Cells : rec'[y] = IF x = y THEN queries ELSE rec[y]
      /\ rec' \in [Cells -> 0 .. MaxQueries]
      /\ todo' = todo \ {x}
  BY DEF Write, MeterInv, TypeOK, WriterKeeps
<1>2. TypeOK'
  BY <1>1 DEF readerVars, MeterInv, TypeOK
<1>3. Bounded'
  <2>1. queries \in Nat
    BY TimeIsCell DEF MeterInv, TypeOK
  <2> QED
    BY <1>1, <2>1 DEF readerVars, MeterInv, Bounded
<1>4. WriterKeeps'
  BY <1>1 DEF MeterInv, WriterKeeps
<1>5. ReaderKeeps'
  BY <1>1 DEF readerVars, MeterInv, ReaderKeeps
<1>6. TimesInOrder' /\ TimesGrow'
  BY <1>1, TimeIsCell DEF readerVars, MeterInv, TypeOK, Bounded, TimesInOrder, TimesGrow
<1> QED
  BY <1>2, <1>3, <1>4, <1>5, <1>6 DEF MeterInv

LEMMA EndWriteKeeps == ASSUME MeterInv, EndWrite PROVE MeterInv'
<1>1. /\ ~dirty /\ ~Odd(seq') /\ writer' = "rest" /\ todo' = {}
      /\ seq \in Nat /\ seq' = seq + 1 /\ \A x \in Cells : rec[x] = queries
      /\ rec["t"] = queries
      /\ UNCHANGED <<queries, dirty, header, rec, readerVars, spoilt>>
  BY Parity, TimeIsCell DEF EndWrite, MeterInv, TypeOK, WriterKeeps
<1>2. WriterKeeps'
  BY <1>1 DEF MeterInv, WriterKeeps
<1>3. TypeOK' /\ Bounded'
  BY <1>1, TimeIsCell DEF readerVars, MeterInv, TypeOK, Bounded
<1>4. ReaderKeeps'
  BY <1>1 DEF readerVars, MeterInv, TypeOK, ReaderKeeps
<1>5. TimesInOrder' /\ TimesGrow'
  BY <1>1 DEF readerVars, MeterInv, TimesInOrder, TimesGrow
<1> QED
  BY <1>2, <1>3, <1>4, <1>5 DEF MeterInv

------------------------------------------------------------------------------
(* The reader *)

LEMMA RestKeeps == ASSUME MeterInv, Open \/ Close \/ Sample PROVE MeterInv'
<1>1. /\ UNCHANGED <<writerVars, s1, seen, spoilt, lastT, ring>>
      /\ mm' \in {"closed", "empty", "mapped"} /\ fresh' \in BOOLEAN
      /\ reader = "rest"
      /\ \/ UNCHANGED <<reader, tries>>
         \/ reader' = "seq" /\ tries' = 0
  BY DEF Open, Close, Sample, MeterInv, TypeOK
<1>2. TypeOK'
  BY <1>1, TimeIsCell DEF writerVars, MeterInv, TypeOK
<1>3. ReaderKeeps'
  BY <1>1 DEF writerVars, MeterInv, ReaderKeeps
<1> QED
  BY <1>1, <1>2, <1>3 DEF writerVars, MeterInv, Bounded, WriterKeeps, TimesInOrder, TimesGrow

\* A failed attempt leaves the next or the end of the sample.
LEMMA FailStep == ASSUME MeterInv, reader # "rest", Fail
                  PROVE  /\ tries' \in 0 .. Tries /\ reader' \in {"rest", "seq"}
                         /\ reader' # "rest" => tries' < Tries
                         /\ UNCHANGED <<fresh, lastT, ring>>
BY TimeIsCell DEF Fail, MeterInv, TypeOK

LEMMA ReadSeqKeeps == ASSUME MeterInv, ReadSeq PROVE MeterInv'
<1>1. CASE Odd(seq)
  <2>1. Fail /\ UNCHANGED <<writerVars, mm, seen, s1, spoilt>> /\ reader = "seq"
    BY <1>1 DEF ReadSeq
  <2> QED
    BY <2>1, FailStep DEF writerVars, MeterInv, TypeOK, Bounded, WriterKeeps, ReaderKeeps,
       TimesInOrder, TimesGrow
<1>2. CASE ~Odd(seq)
  <2>1. /\ UNCHANGED <<writerVars, mm, tries, seen, fresh, lastT, ring>> /\ reader = "seq"
        /\ reader' = "cells" /\ s1' = seq /\ spoilt' = dirty
    BY <1>2 DEF ReadSeq
  <2>2. seen = Nothing
    BY <2>1 DEF MeterInv, ReaderKeeps
  <2> QED
    BY <1>2, <2>1, <2>2 DEF Nothing, writerVars, MeterInv, TypeOK, Bounded, WriterKeeps, ReaderKeeps,
       TimesInOrder, TimesGrow
<1> QED
  BY <1>1, <1>2

LEMMA ReadCellKeeps == ASSUME MeterInv, NEW x \in Cells, ReadCell(x) PROVE MeterInv'
<1>1. /\ UNCHANGED <<writerVars, reader, mm, tries, s1, spoilt, fresh, lastT, ring>>
      /\ DOMAIN seen' = DOMAIN seen \cup {x} /\ reader = "cells"
      /\ \A y \in DOMAIN seen' : seen'[y] = IF y = x THEN rec[x] ELSE seen[y]
      /\ seen' \in [DOMAIN seen' -> 0 .. MaxQueries]
  BY DEF ReadCell, MeterInv, TypeOK
<1>2. TypeOK'
  BY <1>1 DEF writerVars, MeterInv, TypeOK
<1>3. Bounded'
  BY <1>1 DEF writerVars, MeterInv, TypeOK, Bounded
<1>4. WriterKeeps'
  BY <1>1 DEF writerVars, MeterInv, WriterKeeps
<1>5. ReaderKeeps'
  BY <1>1 DEF writerVars, MeterInv, ReaderKeeps
<1>6. TimesInOrder' /\ TimesGrow'
  BY <1>1, TimeIsCell DEF writerVars, MeterInv, TypeOK, TimesInOrder, TimesGrow
<1> QED
  BY <1>2, <1>3, <1>4, <1>5, <1>6 DEF MeterInv

\* What a sample adds to the ring is later than the ring.
LEMMA CheckStep ==
  ASSUME MeterInv, Check
  PROVE  \/ UNCHANGED <<ring, lastT>>
         \/ /\ seq = s1 /\ seen["t"] > lastT /\ lastT' = seen["t"]
            /\ seen \in [Cells -> 0 .. MaxQueries] /\ ring' = Push(seen)
<1>1. seen \in [Cells -> 0 .. MaxQueries] /\ lastT \in 0 .. MaxQueries /\ MaxQueries \in Nat
  BY TimeIsCell DEF Check, MeterInv, TypeOK
<1>2. seen["t"] = 0 \/ lastT <= seen["t"]
  BY <1>1, TimeIsCell DEF MeterInv, TimesInOrder
<1> QED
  BY <1>1, <1>2, TimeIsCell DEF Check, Ingest, Fail

LEMMA CheckKeeps == ASSUME MeterInv, Check PROVE MeterInv'
<1>1. /\ UNCHANGED <<writerVars, mm, spoilt>> /\ seen' = Nothing /\ s1' = 0
      /\ tries' \in 0 .. Tries /\ reader' \in {"rest", "seq"}
      /\ reader' # "rest" => tries' < Tries
      /\ fresh' \in BOOLEAN
  <2>1. /\ UNCHANGED <<writerVars, mm, spoilt>> /\ seen' = Nothing /\ s1' = 0
        /\ reader # "rest"
        /\ Fail \/ \E old \in BOOLEAN : Ingest(old)
    BY DEF Check, Forget
  <2> QED
    BY <2>1, FailStep DEF Ingest, MeterInv, TypeOK
<1>2. DOMAIN seen' = {} /\ seen' \in [DOMAIN seen' -> 0 .. MaxQueries]
  BY <1>1 DEF Nothing
<1>3. CASE UNCHANGED <<ring, lastT>>
  BY <1>1, <1>2, <1>3, TimeIsCell DEF writerVars, MeterInv, TypeOK, Bounded, WriterKeeps, ReaderKeeps,
     TimesInOrder, TimesGrow
<1>4. CASE /\ seq = s1 /\ seen["t"] > lastT /\ lastT' = seen["t"]
           /\ seen \in [Cells -> 0 .. MaxQueries] /\ ring' = Push(seen)
  <2> DEFINE S == [Cells -> 0 .. MaxQueries]
  <2>1. ring \in Seq(S) /\ Len(ring) <= Keep /\ lastT \in 0 .. MaxQueries
    BY DEF MeterInv, TypeOK
  <2>2. /\ ring' \in Seq(S) /\ Len(ring') \in 1 .. Keep
        /\ ring'[Len(ring')] = seen
        /\ \E k \in {0, 1} : /\ Len(ring') = Len(ring) + 1 - k
                            /\ \A i \in 1 .. Len(ring') - 1 :
                                 i + k \in DOMAIN ring /\ ring'[i] = ring[i + k]
    BY <1>4, <2>1, PushAppends
  <2>3. \A i \in DOMAIN ring : ring[i]["t"] <= lastT /\ ring[i]["t"] \in 0 .. MaxQueries
    BY <2>1, TimeIsCell DEF MeterInv, TimesInOrder
  <2>4. seen["t"] \in 0 .. MaxQueries
    BY <1>4, TimeIsCell
  <2>5. lastT' \in 0 .. MaxQueries /\ lastT' <= queries
    BY <1>4, <2>4, TimeIsCell DEF MeterInv, Bounded
  <2>6. DOMAIN ring' = 1 .. Len(ring') /\ Len(ring') \in Nat /\ DOMAIN ring = 1 .. Len(ring) /\ Len(ring) \in Nat
    BY <2>1, <2>2
  <2>7. \A i \in DOMAIN ring' : ring'[i]["t"] <= lastT'
    <3>1. SUFFICES ASSUME NEW i \in DOMAIN ring' PROVE ring'[i]["t"] <= lastT'
      OBVIOUS
    <3>2. PICK k \in {0, 1} : \A n \in 1 .. Len(ring') - 1 :
                                 n + k \in DOMAIN ring /\ ring'[n] = ring[n + k]
      BY <2>2
    <3>3. CASE i = Len(ring')
      BY <1>4, <2>2, <2>4, <3>3
    <3>4. CASE i # Len(ring')
      <4>1. i \in 1 .. Len(ring') - 1
        BY <2>6, <3>1, <3>4
      <4>2. i + k \in DOMAIN ring /\ ring'[i] = ring[i + k]
        BY <3>2, <4>1
      <4>3. ring[i + k]["t"] <= lastT /\ ring[i + k]["t"] \in 0 .. MaxQueries
        BY <2>3, <4>2
      <4> QED
        BY <1>4, <2>1, <2>4, <4>2, <4>3, TimeIsCell
    <3> QED
      BY <3>3, <3>4
  <2>8. TimesGrow'
    <3>1. SUFFICES ASSUME NEW i \in DOMAIN ring', NEW j \in DOMAIN ring', i < j
                   PROVE  ring'[i]["t"] < ring'[j]["t"]
      BY DEF TimesGrow
    <3>2. PICK k \in {0, 1} : \A n \in 1 .. Len(ring') - 1 :
                                 n + k \in DOMAIN ring /\ ring'[n] = ring[n + k]
      BY <2>2
    <3>3. i \in 1 .. Len(ring') - 1 /\ i \in Nat /\ j \in Nat
      BY <2>6, <3>1
    <3>4. CASE j = Len(ring')
      <4>1. i + k \in DOMAIN ring /\ ring'[i] = ring[i + k]
        BY <3>2, <3>3
      <4>2. ring[i + k]["t"] <= lastT /\ ring[i + k]["t"] \in 0 .. MaxQueries
        BY <2>3, <4>1
      <4>3. ring'[j] = seen
        BY <2>2, <3>4
      <4> QED
        BY <1>4, <2>1, <2>4, <4>1, <4>2, <4>3, TimeIsCell
    <3>5. CASE j # Len(ring')
      <4>1. j \in 1 .. Len(ring') - 1
        BY <2>6, <3>3, <3>5
      <4> QED
        BY <3>1, <3>2, <3>3, <4>1 DEF MeterInv, TimesGrow
    <3> QED
      BY <3>4, <3>5
  <2>9. rec["t"] = 0 \/ lastT' <= rec["t"]
    BY <1>4, <2>4, TimeIsCell DEF Check, MeterInv, TypeOK, TimesInOrder
  <2>10. TypeOK'
    BY <1>1, <1>2, <2>2, <2>5, TimeIsCell DEF writerVars, MeterInv, TypeOK
  <2>11. Bounded' /\ TimesInOrder'
    BY <1>1, <1>2, <2>5, <2>7, <2>9 DEF writerVars, MeterInv, Bounded, TimesInOrder
  <2>12. WriterKeeps' /\ ReaderKeeps'
    BY <1>1 DEF writerVars, MeterInv, WriterKeeps, ReaderKeeps
  <2> QED
    BY <2>8, <2>10, <2>11, <2>12 DEF MeterInv
<1> QED
  BY <1>3, <1>4, CheckStep

------------------------------------------------------------------------------
(* The invariant *)

LEMMA MeterInit == Init => MeterInv
<1> SUFFICES ASSUME Init PROVE MeterInv
  OBVIOUS
<1>1. /\ ring = <<>> /\ ring \in Seq([Cells -> 0 .. MaxQueries]) /\ Len(ring) = 0
      /\ DOMAIN ring = {}
  BY DEF Init
<1>2. seen = Nothing /\ DOMAIN seen = {} /\ seen \in [DOMAIN seen -> 0 .. MaxQueries]
  BY DEF Init, Nothing
<1>3. rec \in [Cells -> 0 .. MaxQueries] /\ \A x \in Cells : rec[x] = 0
  BY TimeIsCell DEF Init
<1>4. TypeOK
  <2>1. header \in {{}, {"magic"}, {"magic", "vports"}}
    BY DEF Init
  <2>2. Len(ring) <= Keep /\ {queries, lastT} \subseteq 0 .. MaxQueries /\ tries \in 0 .. Tries
    BY <1>1, TimeIsCell DEF Init
  <2> QED
    BY <1>1, <1>2, <1>3, <2>1, <2>2 DEF Init, TypeOK
<1>5. Bounded
  BY <1>2, <1>3 DEF Init, Bounded
<1> QED
  BY <1>1, <1>2, <1>3, <1>4, <1>5, TimeIsCell DEF Init, MeterInv, WriterKeeps, ReaderKeeps,
     TimesInOrder, TimesGrow

LEMMA MeterStep == MeterInv /\ [Next]_meterVars => MeterInv'
<1> SUFFICES ASSUME MeterInv, [Next]_meterVars PROVE MeterInv'
  OBVIOUS
<1>1. CASE Helper
  BY <1>1, CrashKeeps, StartKeeps, ZeroKeeps, ZeroedKeeps, HeaderKeeps, BeginWriteKeeps,
     WriteKeeps, EndWriteKeeps DEF Helper
<1>2. CASE Reader
  BY <1>2, RestKeeps, ReadSeqKeeps, ReadCellKeeps, CheckKeeps DEF Reader
<1>3. CASE UNCHANGED meterVars
  BY <1>3 DEF meterVars, MeterInv, TypeOK, Bounded, WriterKeeps, ReaderKeeps, TimesInOrder, TimesGrow
<1> QED
  BY <1>1, <1>2, <1>3 DEF Next

LEMMA MeterInvariant == Spec => []MeterInv
BY MeterInit, MeterStep, PTL DEF Spec

\* Every variable of the helper and of its reader keeps its type, and no sample takes
\* more than Tries attempts, however often it meets the writer.
THEOREM MeterTypes == Spec => []TypeOK
<1>1. MeterInv => TypeOK
  BY DEF MeterInv
<1> QED
  BY <1>1, MeterInvariant, PTL

\* The samples that rates are made of have growing times, even when a restart of the
\* helper spoils one: no rate is ever divided by zero or by a negative time.
THEOREM SampledTimesGrow == Spec => []TimesGrow
<1>1. MeterInv => TimesGrow
  BY DEF MeterInv
<1> QED
  BY <1>1, MeterInvariant, PTL

------------------------------------------------------------------------------
(* The refinement *)

\* What is sampled while nothing was cleared is the record published at that moment.
LEMMA SampleIsPublished ==
  ASSUME MeterInv, Check, seq = s1, ~spoilt, seen \in [Cells -> 0 .. MaxQueries]
  PROVE  Published = seen["t"] /\ seen = Register!Whole(Published)
<1>1. ~dirty /\ ~Odd(seq) /\ \A x \in Cells : seen[x] = rec[x] /\ rec[x] = rec["t"]
  BY DEF Check, MeterInv, ReaderKeeps, WriterKeeps
<1>2. Published = rec["t"] /\ seen["t"] = rec["t"]
  BY <1>1, TimeIsCell DEF Published
<1>3. seen = [x \in Cells |-> rec["t"]]
  BY <1>1
<1> QED
  BY <1>2, <1>3 DEF Register!Whole

LEMMA TakeStep ==
  ASSUME MeterInv, Check
  PROVE  Register!Take \/ UNCHANGED Register!vars
<1>1. UNCHANGED <<Published, dirty, spoilt>>
  BY DEF Check, writerVars, Published
<1>2. CASE UNCHANGED <<ring, lastT>>
  BY <1>1, <1>2 DEF Register!vars
<1>3. CASE /\ seq = s1 /\ seen["t"] > lastT /\ lastT' = seen["t"]
           /\ seen \in [Cells -> 0 .. MaxQueries] /\ ring' = Push(seen)
  <2>1. /\ ring \in Seq([Cells -> 0 .. MaxQueries]) /\ Len(ring) <= Keep
        /\ lastT \in 0 .. MaxQueries /\ seen["t"] \in 0 .. MaxQueries
    BY <1>3, TimeIsCell DEF MeterInv, TypeOK
  <2>2. ring'[Len(ring')] = seen
    BY <1>3, <2>1, PushAppends
  <2>3. ring' = Register!Push(seen)
    BY <1>3 DEF Push, Register!Push
  <2>4. \A i \in DOMAIN ring : ring[i]["t"] < seen["t"]
    <3>1. \A i \in DOMAIN ring : ring[i]["t"] <= lastT /\ ring[i]["t"] \in 0 .. MaxQueries
      BY <2>1, TimeIsCell DEF MeterInv, TimesInOrder
    <3> QED
      BY <1>3, <2>1, <3>1, TimeIsCell
  <2>5. spoilt \/ (Published # 0 /\ seen = Register!Whole(Published))
    BY <1>3, <2>1, SampleIsPublished, TimeIsCell
  <2> QED
    BY <1>1, <2>2, <2>3, <2>4, <2>5 DEF Register!Take
<1> QED
  BY <1>2, <1>3, CheckStep

LEMMA RegisterStep == MeterInv /\ [Next]_meterVars => [Register!Next]_Register!vars
<1> SUFFICES ASSUME MeterInv, [Next]_meterVars
             PROVE  Register!Next \/ UNCHANGED Register!vars
  OBVIOUS
<1> USE DEF Register!vars
<1>1. CASE Crash \/ Header
  BY <1>1 DEF Crash, Header, readerVars, Published
<1>2. CASE Start
  BY <1>2 DEF Start, readerVars, Published, Register!Next, Register!Restart
<1>3. ASSUME NEW x \in Cells \cup {"seq", "header"}, Zero(x) PROVE UNCHANGED Register!vars
  BY <1>3 DEF Zero, readerVars, Published, MeterInv, WriterKeeps
<1>4. CASE Zeroed
  <2>1. rec["t"] = 0
    BY <1>4, TimeIsCell DEF Zeroed, MeterInv, WriterKeeps
  <2> QED
    BY <1>4, <2>1 DEF Zeroed, readerVars, Published, MeterInv, WriterKeeps, Register!Next,
       Register!Restarted
<1>5. CASE BeginWrite \/ EndWrite
  <2>1. ~dirty /\ UNCHANGED <<dirty, rec, spoilt, ring>> /\ rec["t"] \in Nat
    BY <1>5, TimeIsCell DEF BeginWrite, EndWrite, readerVars, MeterInv, TypeOK, WriterKeeps
  <2> QED
    BY <2>1 DEF Published, Register!Next, Register!Publish
<1>6. ASSUME NEW x \in Cells, Write(x) PROVE UNCHANGED Register!vars
  BY <1>6 DEF Write, readerVars, Published, MeterInv, WriterKeeps
<1>7. CASE Open \/ Close \/ Sample
  BY <1>7 DEF Open, Close, Sample, writerVars, Published
<1>11. ASSUME NEW x \in Cells, ReadCell(x) PROVE UNCHANGED Register!vars
  BY <1>11 DEF ReadCell, writerVars, Published
<1>8. CASE ReadSeq
  BY <1>8 DEF ReadSeq, Fail, writerVars, Published, Register!Next, Register!BeginSample
<1>9. CASE Check
  BY <1>9, TakeStep DEF Register!Next
<1>10. CASE UNCHANGED meterVars
  BY <1>10 DEF meterVars, Published
<1> QED
  BY <1>1, <1>2, <1>3, <1>4, <1>5, <1>6, <1>7, <1>8, <1>9, <1>10, <1>11 DEF Next, Helper, Reader

\* The record of shared memory, its lock, its writers and its reader implement an
\* atomic register, for any set of counters, any number of attempts (the sender's
\* reader makes one) and any interleaving or death of the helper.
THEOREM MeterIsRegister == Spec => ImplementsRegister
<1>1. Init => Register!Init
  BY Parity, TimeIsCell DEF Init, Published, Register!Init
<1> QED
  BY <1>1, MeterInvariant, RegisterStep, PTL DEF Spec, ImplementsRegister, Register!Spec

==============================================================================
