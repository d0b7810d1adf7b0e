------------------------- MODULE Tcg2DumpLog_proofs -------------------------
(***************************************************************************)
(* The safety properties of Tcg2DumpLog, for any number of PCRs and banks, *)
(* any kinds of events and any command lines.                              *)
(***************************************************************************)
EXTENDS Tcg2DumpLog, Sublists_proofs, FiniteSetTheorems

(***************************************************************************)
(* Events and digests                                                      *)
(***************************************************************************)

(* The fields of an event are of their types.                               *)
LEMMA EventFields ==
  ASSUME NEW e \in Events
  PROVE  e.PCRIndex \in Nat /\ e.n \in Nat
<1>1. Pcrs \subseteq Nat
  BY BoundsAssumption DEF Pcrs
<1>2. CASE e = SpecIdEvent
  BY <1>2 DEF SpecIdEvent
<1>3. CASE e # SpecIdEvent
  <2> DEFINE Types == {kind.EventType : kind \in EventKinds}
  <2>1. e \in [PCRIndex : Pcrs, EventType : Types, digests : SUBSET Banks, n : Nat]
    BY <1>3 DEF Events
  <2> HIDE DEF Types
  <2> QED
    BY <1>1, <2>1
<1> QED
  BY <1>2, <1>3

(* The SpecId event is an event.                                            *)
LEMMA SpecIdIsEvent == SpecIdEvent \in Events
BY DEF Events

(* A digest is a sequence of numbers, one for each event.                   *)
LEMMA NumbersTyped ==
  ASSUME NEW events \in Seq(Events)
  PROVE  /\ Numbers(events) \in Digests
         /\ Len(Numbers(events)) = Len(events)
         /\ \A i \in 1 .. Len(events) : Numbers(events)[i] = events[i].n
<1>1. Len(events) \in Nat /\ DOMAIN events = 1 .. Len(events)
  OBVIOUS
<1>2. \A i \in 1 .. Len(events) : events[i] \in Events
  OBVIOUS
<1>3. \A i \in 1 .. Len(events) : events[i].n \in Int
  BY <1>2, EventFields
<1>4. Numbers(events) = [i \in 1 .. Len(events) |-> events[i].n]
  BY <1>1 DEF Numbers
<1>5. Numbers(events) \in [1 .. Len(events) -> Int]
  BY <1>3, <1>4
<1>6. Numbers(events) \in Seq(Int)
  BY <1>1, <1>5
<1> QED
  BY <1>1, <1>4, <1>6 DEF Digests

LEMMA ExtendingTyped ==
  ASSUME NEW events \in Seq(Events), NEW pcr, NEW bank
  PROVE  Extending(events, pcr, bank) \in Seq(Events)
BY WhereMembers DEF Extending

LEMMA SelectedTyped ==
  ASSUME NEW events \in Seq(Events), NEW pcr
  PROVE  Selected(events, pcr) \in Seq(Events)
BY WhereMembers DEF Selected

LEMMA ExtendEventTyped ==
  ASSUME NEW algorithm, NEW events \in Seq(Events)
  PROVE  ExtendEvent(algorithm, events) \in Digests
<1>1. AllOnes \in Digests
  <2>1. -1 \in Int
    OBVIOUS
  <2> QED
    BY <2>1, SingleMembers DEF AllOnes, Digests
<1> QED
  BY <1>1, NumbersTyped DEF ExtendEvent

(* The banks in a sequence: one at least, and no other.                     *)
LEMMA BanksInASequence ==
  /\ SetToSeq(Banks) \in Seq(Banks)
  /\ Len(SetToSeq(Banks)) # 0
<1> DEFINE n == Cardinality(Banks)
           s == SetToSeq(Banks)
<1>1. n \in Nat /\ n # 0
  BY TpmAssumption, FS_CardinalityType, FS_EmptySet
<1>2. PICK f : f \in Bijection(1 .. n, Banks)
  BY TpmAssumption, FS_CardinalityType DEF ExistsBijection
<1>3. f \in [1 .. n -> Banks] /\ IsInjective(f)
  BY <1>2 DEF Bijection, Injection
<1>4. s \in [1 .. n -> Banks]
  BY <1>3, SMTT(40) DEF SetToSeq
<1> HIDE DEF n, s
<1>5. s \in Seq(Banks) /\ Len(s) = n
  <2>1. s \in Seq(Banks)
    BY ONLY <1>1, <1>4, SeqDef, Zenon
  <2> DEFINE l == Len(s)
  <2>2. l \in Nat /\ DOMAIN s = 1 .. l
    BY ONLY <2>1
  <2>3. DOMAIN s = 1 .. n
    BY ONLY <1>4, Zenon
  <2> HIDE DEF l
  <2>4. \A i : i \in 1 .. l <=> i \in 1 .. n
    BY ONLY <2>2, <2>3, Zenon
  <2>5. l = n
    BY ONLY <2>2, <2>4, <1>1
  <2> QED
    BY ONLY <2>1, <2>5, Zenon DEF l
<1> QED
  BY <1>1, <1>5 DEF s

(***************************************************************************)
(* The log and the final events table together                             *)
(***************************************************************************)

(* The TCG 2 log has what the final events table has not, and so the two    *)
(* one behind the other are all measurements, in their order.               *)
LEMMA LogAndFinalEvents ==
  ASSUME TypeOK, FinalIsTheRest
  PROVE  /\ Remaining(measured, ToSet(final)) \in Seq(Events)
         /\ Remaining(measured, ToSet(final)) \o final = measured
<1> DEFINE L == Len(measured)
<1>1. measured \in Seq(Events) /\ final \in Seq(Events) /\ L \in Nat
  BY DEF TypeOK
<1>2. PICK k \in 0 .. L : final = SubSeq(measured, k + 1, L)
  BY DEF FinalIsTheRest
<1>3. \A i \in 1 .. L : measured[i] \in Events /\ measured[i].n = i
  BY <1>1 DEF FinalIsTheRest
<1>4. /\ Len(final) = L - k
      /\ \A j \in 1 .. L - k : final[j] = measured[k + j]
  <2>1. \A i \in k + 1 .. L : measured[i] \in Events
    BY <1>1, <1>3
  <2>2. k + 1 \in Int /\ L \in Int
    BY <1>1
  <2>3. /\ Len(final) = IF k + 1 <= L THEN L - (k + 1) + 1 ELSE 0
        /\ \A j \in 1 .. L - (k + 1) + 1 : final[j] = measured[k + 1 + j - 1]
    <3> HIDE DEF L
    <3> QED
      BY <1>2, <2>1, <2>2, SubSeqProperties
  <2> HIDE DEF L
  <2> QED
    BY <1>1, <2>3
<1>5. ToSet(final) = {measured[i] : i \in k + 1 .. L}
  <2>1. ToSet(final) = {final[j] : j \in 1 .. L - k}
    BY <1>1, <1>4, MembersOfSeq
  <2>2. ASSUME NEW j \in 1 .. L - k
        PROVE  final[j] = measured[k + j] /\ k + j \in k + 1 .. L
    <3> HIDE DEF L
    <3> QED
      BY <1>1, <1>4
  <2>3. ASSUME NEW i \in k + 1 .. L
        PROVE  i - k \in 1 .. L - k /\ measured[i] = final[i - k]
    <3> HIDE DEF L
    <3>1. i - k \in 1 .. L - k /\ k + (i - k) = i
      BY <1>1
    <3> QED
      BY <1>4, <3>1
  <2> HIDE DEF L
  <2> QED
    BY <2>1, <2>2, <2>3
<1> DEFINE Keep == {measured[i] : i \in DOMAIN measured} \ ToSet(final)
<1>6. \A i \in 1 .. k : measured[i] \in Keep
  <2>1. ASSUME NEW i \in 1 .. k
        PROVE  measured[i] \notin ToSet(final)
    <3>1. i \in 1 .. L /\ \A j \in k + 1 .. L : j \in 1 .. L /\ i # j
      BY <1>1
    <3> HIDE DEF L
    <3> QED
      BY <1>3, <1>5, <3>1
  <2> QED
    BY <1>1, <2>1
<1>7. \A i \in k + 1 .. L : measured[i] \notin Keep
  BY <1>5
<1>8. Remaining(measured, ToSet(final)) = SubSeq(measured, 1, k)
  <2>1. Remaining(measured, ToSet(final)) = Where(measured, Keep)
    BY DEF Remaining
  <2> HIDE DEF Keep, L
  <2> QED
    BY <1>1, <1>6, <1>7, <2>1, WhereFront DEF L
<1>9. SubSeq(measured, 1, k) \o SubSeq(measured, k + 1, L) = SubSeq(measured, 1, L)
  <2>1. 1 \in 1 .. L + 1 /\ k \in 1 - 1 .. L /\ L \in k .. L
    BY <1>1
  <2> QED
    BY <1>1, <2>1, ConcatAdjacentSubSeq
<1>10. SubSeq(measured, 1, L) = measured
  BY <1>1, SubSeqFull
<1>11. Remaining(measured, ToSet(final)) \in Seq(Events)
  BY <1>1, RemainingMembers
<1> QED
  BY <1>2, <1>8, <1>9, <1>10, <1>11, ZenonT(60)

(* What there is to log are events, and so is what the area holds of them.  *)
LEMMA HeldTyped ==
  ASSUME TypeOK, NEW format \in Range(Formats)
  PROVE  Held(format) \in Seq(Events)
<1> DEFINE l == Logged(format)
<1>1. measured \in Seq(Events) /\ room \in Nat
  BY DEF TypeOK
<1>2. format = "TCG_1_2" \/ format = "TCG_2"
  BY DEF Formats, Range
<1>3. l \in Seq(Events)
  BY <1>1, <1>2, WhereMembers, RemainingMembers DEF Logged
<1> HIDE DEF l
<1>4. CASE Truncated(format)
  <2>1. room \in 0 .. Len(l)
    BY <1>1, <1>3, <1>4 DEF Truncated, l
  <2>2. SubSeq(l, 1, room) \in Seq(Events)
    BY <1>3, <2>1, InitialStep
  <2> QED
    BY <1>4, <2>2 DEF Held, l
<1>5. CASE ~Truncated(format)
  BY <1>3, <1>5 DEF Held, l
<1> QED
  BY <1>4, <1>5

(* Either log is one of events; the TCG 2 log starts with the SpecId event. *)
LEMMA LogTyped ==
  ASSUME TypeOK, NEW format \in Range(Formats)
  PROVE  /\ Log(format) \in Seq(Events)
         /\ format = "TCG_2" => Log(format) # <<>> /\ Head(Log(format)) = SpecIdEvent
<1>2. format = "TCG_1_2" \/ format = "TCG_2"
  BY DEF Formats, Range
<1>3. CASE format = "TCG_1_2"
  BY <1>3, HeldTyped DEF Log
<1>4. CASE format = "TCG_2"
  <2> DEFINE r == Held(format)
  <2>1. Log(format) = <<SpecIdEvent>> \o r
    BY <1>4 DEF Log
  <2>2. r \in Seq(Events) /\ <<SpecIdEvent>> \in Seq(Events)
    BY HeldTyped, SpecIdIsEvent, SingleMembers
  <2> HIDE DEF r
  <2>3. /\ <<SpecIdEvent>> \o r \in Seq(Events)
        /\ Len(<<SpecIdEvent>> \o r) = 1 + Len(r)
        /\ (<<SpecIdEvent>> \o r)[1] = SpecIdEvent
    <3>1. Len(r) \in Nat /\ 1 \in 1 .. 1 + Len(r)
      BY <2>2
    <3>2. Len(<<SpecIdEvent>>) = 1 /\ <<SpecIdEvent>>[1] = SpecIdEvent
      OBVIOUS
    <3> QED
      BY <2>2, <3>1, <3>2, ConcatProperties
  <2> DEFINE g == <<SpecIdEvent>> \o r
  <2>4. g \in Seq(Events) /\ Len(g) # 0 /\ g[1] = SpecIdEvent
    BY <2>2, <2>3
  <2> HIDE DEF g
  <2>5. g # <<>> /\ Head(g) = SpecIdEvent
    BY <2>4
  <2> QED
    BY <2>1, <2>4, <2>5 DEF g
<1> QED
  BY <1>2, <1>3, <1>4

(* What the application walks over, of a TCG 2 log that was not cut: all    *)
(* measurements.                                                            *)
LEMMA ReadsAllEvents ==
  ASSUME TypeOK, FinalIsTheRest, EventLog = Log("TCG_2"), ~Truncated("TCG_2")
  PROVE  Entries("TCG_2") \o FinalEventsTable("TCG_2") = measured
<1> DEFINE r == Remaining(measured, ToSet(final))
           g == <<SpecIdEvent>> \o r
<1>1. r \in Seq(Events) /\ r \o final = measured
  BY LogAndFinalEvents
<1>2. EventLog = g
  BY DEF Log, Held, Logged
<1> HIDE DEF r
<1>3. /\ g \in Seq(Events) /\ Len(g) = 1 + Len(r) /\ Len(r) \in Nat
      /\ \A i \in 1 .. Len(r) : g[i + 1] = r[i]
  <2>1. <<SpecIdEvent>> \in Seq(Events)
    BY SpecIdIsEvent, SingleMembers
  <2>2. /\ g \in Seq(Events) /\ Len(g) = Len(<<SpecIdEvent>>) + Len(r)
        /\ \A i \in 1 .. Len(<<SpecIdEvent>>) + Len(r) :
             g[i] = IF i <= Len(<<SpecIdEvent>>) THEN <<SpecIdEvent>>[i]
                    ELSE r[i - Len(<<SpecIdEvent>>)]
    BY <1>1, <2>1, ConcatProperties
  <2>3. Len(<<SpecIdEvent>>) = 1 /\ Len(r) \in Nat
    BY <1>1
  <2> HIDE DEF g
  <2>4. ASSUME NEW i \in 1 .. Len(r)
        PROVE  g[i + 1] = r[i]
    <3>1. i + 1 \in 1 .. 1 + Len(r) /\ ~(i + 1 <= 1) /\ (i + 1) - 1 = i
      BY <2>3
    <3> QED
      BY <2>2, <2>3, <3>1
  <2> QED
    BY <2>2, <2>3, <2>4
<1> HIDE DEF g
<1> DEFINE t == SubSeq(g, 2, Len(g))
<1>4. t \in Seq(Events) /\ Len(t) = Len(r) /\ \A i \in 1 .. Len(r) : t[i] = r[i]
  <2>1. \A i \in 2 .. Len(g) : g[i] \in Events
    BY <1>3
  <2>2. 2 \in Int /\ Len(g) \in Int
    BY <1>3
  <2>3. /\ t \in Seq(Events)
        /\ Len(t) = IF 2 <= Len(g) THEN Len(g) - 2 + 1 ELSE 0
        /\ \A i \in 1 .. Len(g) - 2 + 1 : t[i] = g[2 + i - 1]
    BY <2>1, <2>2, SubSeqProperties
  <2> HIDE DEF t
  <2>4. \A i \in 1 .. Len(r) : i \in 1 .. Len(g) - 2 + 1 /\ 2 + i - 1 = i + 1
    BY <1>3
  <2> QED
    BY <1>3, <2>3, <2>4
<1>5. t = r
  <2> HIDE DEF t
  <2> QED
    BY <1>1, <1>4
<1>6. Entries("TCG_2") = t /\ FinalEventsTable("TCG_2") = final
  BY <1>2 DEF Entries, FinalEventsTable
<1> QED
  BY <1>1, <1>5, <1>6

(* Of the TCG 1.2 log: the measurements with a digest for SHA-1.            *)
LEMMA ReadsSha1Events ==
  ASSUME TypeOK, EventLog = Log("TCG_1_2"), ~Truncated("TCG_1_2")
  PROVE  Entries("TCG_1_2") \o FinalEventsTable("TCG_1_2")
           = Where(measured, {e \in ToSet(measured) : "SHA1" \in Algorithms(e)})
<1>1. EventLog \in Seq(Events)
  BY DEF TypeOK
<1>2. Entries("TCG_1_2") = EventLog /\ FinalEventsTable("TCG_1_2") = <<>>
  BY <1>1, SubSeqFull DEF Entries, FinalEventsTable
<1>3. EventLog \o <<>> = EventLog
  BY <1>1, ConcatEmptySeq
<1> QED
  BY <1>2, <1>3 DEF Log, Held, Logged

(***************************************************************************)
(* What is printed of a log                                                *)
(***************************************************************************)

(* Between GetEventLog and the end of the dump: the log is what it was.     *)
Reads(format) == TypeOK /\ FinalIsTheRest /\ format \in Range(Formats) /\ EventLog = Log(format)

LEMMA ReadTyped ==
  ASSUME NEW format, Reads(format)
  PROVE  Entries(format) \o FinalEventsTable(format) \in Seq(Events)
<1> DEFINE first == IF format = "TCG_2" THEN 2 ELSE 1
<1>1. /\ EventLog \in Seq(Events) /\ Len(EventLog) \in Nat /\ final \in Seq(Events)
      /\ \A i \in first .. Len(EventLog) : EventLog[i] \in Events
  BY DEF TypeOK, Reads
<1>2. Entries(format) = SubSeq(EventLog, first, Len(EventLog))
  BY DEF Entries
<1>3. first \in Int
  OBVIOUS
<1> HIDE DEF first
<1>4. Entries(format) \in Seq(Events)
  BY <1>1, <1>2, <1>3, SubSeqProperties
<1>5. FinalEventsTable(format) \in Seq(Events)
  BY <1>1, EmptySeq DEF FinalEventsTable
<1> QED
  BY <1>4, <1>5, ConcatMembers

(* The value computed from a log that was not cut is the one the PCR holds. *)
LEMMA ExpectedRight ==
  ASSUME NEW format, Reads(format), ~Truncated(format), NEW pcr, NEW algorithm \in mHashInfo,
         format = "TCG_1_2" => algorithm = "SHA1"
  PROVE  Expected(format, pcr, algorithm) = Pcr(pcr, algorithm)
<1> DEFINE events == Entries(format) \o FinalEventsTable(format)
<1>1. Expected(format, pcr, algorithm) = Numbers(Extending(events, pcr, algorithm))
  BY DEF Expected, ExtendEvent
<1>2. measured \in Seq(Events)
  BY DEF TypeOK, Reads
<1>3. CASE format = "TCG_2"
  <2>1. events = measured
    BY <1>3, ReadsAllEvents DEF Reads
  <2> QED
    BY <1>1, <2>1 DEF Pcr
<1>4. CASE format = "TCG_1_2"
  <2> DEFINE A == {e \in ToSet(measured) : "SHA1" \in Algorithms(e)}
             B == {e \in ToSet(events) : Extends(e, pcr) /\ "SHA1" \in Algorithms(e)}
             C == {e \in ToSet(measured) : Extends(e, pcr) /\ "SHA1" \in Algorithms(e)}
  <2>1. events = Where(measured, A)
    BY <1>4, ReadsSha1Events DEF Reads
  <2>2. ToSet(events) = ToSet(measured) \cap A
    BY <1>2, <2>1, WhereMembers
  <2>3. Extending(events, pcr, "SHA1") = Where(Where(measured, A), B)
    BY <2>1 DEF Extending
  <2>4. Where(Where(measured, A), B) = Where(measured, A \cap B)
    <3> HIDE DEF A, B
    <3> QED
      BY <1>2, WhereWhere
  <2>5. A \cap B = C
    <3> HIDE DEF events
    <3> QED
      BY <2>2
  <2> QED
    BY <1>1, <1>4, <2>3, <2>4, <2>5, ZenonT(60) DEF Extending, Pcr
<1> QED
  BY <1>3, <1>4 DEF Reads, Formats, Range

(* A line is right when an expected value in it is the one the PCR holds.   *)
Right(line) ==
  line.what = "expected" /\ line.algorithm \in mHashInfo \cap Banks /\ line.pcr \in Pcrs =>
    line.digest = Pcr(line.pcr, line.algorithm)

LEMMA PcrTyped ==
  ASSUME TypeOK, NEW pcr, NEW bank
  PROVE  Pcr(pcr, bank) \in Digests
BY ExtendingTyped, NumbersTyped DEF TypeOK, Pcr

(* A line that is right, or one of a log that was cut.                      *)
Fair(line, format) == Right(line) \/ (Truncated(format) /\ line.format = format)

(* -E: an expected value for every bank of the format, each the right one   *)
(* unless the log was cut.                                                  *)
LEMMA DumpExpectedLines ==
  ASSUME NEW format, Reads(format), NEW pcr \in Int
  PROVE  /\ DumpExpected(format, pcr) \in Seq(OutLines)
         /\ \A line \in ToSet(DumpExpected(format, pcr)) : Fair(line, format)
<1> DEFINE algorithms == IF format = "TCG_2" THEN SetToSeq(Banks) ELSE <<"SHA1">>
           line(a) == [what |-> "expected", format |-> format, pcr |-> pcr, algorithm |-> a,
                       digest |-> Expected(format, pcr, a)]
           part(a) == <<line(a)>> \o DumpPcr(pcr, a)
           n == Len(algorithms)
           parts == [i \in DOMAIN algorithms |-> part(algorithms[i])]
           All == Banks \cup {"SHA1"}
           Given(a) == format = "TCG_1_2" => a = "SHA1"
<1>1. /\ algorithms \in Seq(All) /\ n # 0 /\ n \in Nat
      /\ \A i \in 1 .. n : algorithms[i] \in All
      /\ \A i \in 1 .. n : Given(algorithms[i])
  <2>1. CASE format = "TCG_2"
    <3>1. SetToSeq(Banks) \in Seq(Banks) /\ Len(SetToSeq(Banks)) # 0
      BY BanksInASequence
    <3>2. algorithms = SetToSeq(Banks)
      BY <2>1
    <3>3. format # "TCG_1_2"
      BY <2>1
    <3>4. Banks \subseteq All
      OBVIOUS
    <3> HIDE DEF algorithms, All
    <3>5. algorithms \in Seq(All) /\ n # 0 /\ n \in Nat
      BY <3>1, <3>2, <3>4
    <3> QED
      BY <3>3, <3>5
  <2>2. CASE format # "TCG_2"
    <3>1. algorithms = <<"SHA1">>
      BY <2>2
    <3>2. "SHA1" \in All
      OBVIOUS
    <3>3. \A i \in 1 .. Len(<<"SHA1">>) : <<"SHA1">>[i] = "SHA1"
      OBVIOUS
    <3>4. Len(<<"SHA1">>) = 1 /\ <<"SHA1">> \in Seq(All)
      BY <3>2, SingleMembers
    <3>5. \A i \in 1 .. n : algorithms[i] = "SHA1"
      BY <3>1, <3>3
    <3>6. n = 1 /\ algorithms \in Seq(All)
      BY <3>1, <3>4
    <3> HIDE DEF algorithms, n, All
    <3> QED
      BY <3>2, <3>5, <3>6
  <2> QED
    BY <2>1, <2>2
<1>2. ASSUME NEW a \in All, Given(a)
      PROVE  line(a) \in ExpectedLine /\ Fair(line(a), format)
  <2> DEFINE events == Entries(format) \o FinalEventsTable(format)
  <2>1. Expected(format, pcr, a) \in Digests
    <3>1. events \in Seq(Events)
      BY ReadTyped
    <3>2. Extending(events, pcr, a) \in Seq(Events)
      BY <3>1, ExtendingTyped
    <3> QED
      BY <3>2, ExtendEventTyped DEF Expected
  <2>2. format \in Range(Formats)
    BY DEF Reads
  <2>3. line(a) \in ExpectedLine
    BY <2>1, <2>2 DEF ExpectedLine
  <2>4. a \in mHashInfo /\ ~Truncated(format) => Expected(format, pcr, a) = Pcr(pcr, a)
    BY <1>2, ExpectedRight
  <2>5. Fair(line(a), format)
    BY <2>4 DEF Fair, Right
  <2> QED
    BY <2>3, <2>5
<1>3. ASSUME NEW a \in All, Given(a)
      PROVE  /\ part(a) \in Seq(OutLines)
             /\ \A l \in ToSet(part(a)) : Fair(l, format)
  <2> DEFINE d == DumpPcr(pcr, a)
  <2>1. line(a) \in OutLines /\ Fair(line(a), format)
    BY <1>2, <1>3 DEF OutLines
  <2>2. d \in Seq(OutLines) /\ \A l \in ToSet(d) : Fair(l, format)
    <3> DEFINE p == [what |-> "pcr", pcr |-> pcr, algorithm |-> a, digest |-> Pcr(pcr, a)]
    <3>1. CASE pcr \in Pcrs /\ a \in Banks
      <4>1. d = <<p>>
        BY <3>1 DEF DumpPcr
      <4>2. Pcr(pcr, a) \in Digests
        BY PcrTyped DEF Reads
      <4>3. p \in PcrLine
        BY <3>1, <4>2 DEF PcrLine
      <4>4. p \in OutLines
        BY <4>3 DEF OutLines
      <4>5. Fair(p, format)
        BY DEF Fair, Right
      <4> HIDE DEF p
      <4>6. <<p>> \in Seq(OutLines) /\ ToSet(<<p>>) = {p}
        BY <4>4, SingleMembers
      <4> QED
        BY <4>1, <4>5, <4>6
    <3>2. CASE ~(pcr \in Pcrs /\ a \in Banks)
      <4>1. d = <<>>
        BY <3>2 DEF DumpPcr
      <4>2. <<>> \in Seq(OutLines) /\ ToSet(<<>>) = {}
        BY DEF ToSet
      <4> QED
        BY <4>1, <4>2
    <3> QED
      BY <3>1, <3>2
  <2> HIDE DEF d, line
  <2>3. <<line(a)>> \in Seq(OutLines) /\ ToSet(<<line(a)>>) = {line(a)}
    BY <2>1, SingleMembers
  <2> DEFINE h == <<line(a)>>
  <2>4. part(a) = h \o d
    BY DEF d
  <2>5. part(a) \in Seq(OutLines) /\ ToSet(part(a)) = ToSet(h) \cup ToSet(d)
    <3>1. h \in Seq(OutLines)
      BY <2>3
    <3> HIDE DEF h, part
    <3> QED
      BY <2>2, <2>4, <3>1, ConcatMembers
  <2> HIDE DEF part
  <2> QED
    BY <2>1, <2>2, <2>3, <2>5
<1>4. DumpExpected(format, pcr) = FlattenSeq(parts)
  BY DEF DumpExpected
<1>5. DOMAIN algorithms = 1 .. n
  <2> HIDE DEF algorithms
  <2> QED
    BY <1>1
<1> HIDE DEF algorithms, All
<1>6. \A i \in 1 .. n : parts[i] = part(algorithms[i])
  BY <1>5
<1>7. parts \in Seq(Seq(OutLines)) /\ Len(parts) = n
  <2>1. \A i \in 1 .. n : part(algorithms[i]) \in Seq(OutLines)
    <3> HIDE DEF part, line
    <3> QED
      BY <1>1, <1>3
  <2>2. parts \in [1 .. n -> Seq(OutLines)]
    <3> HIDE DEF part
    <3> QED
      BY <1>5, <2>1
  <2> HIDE DEF parts
  <2> QED
    BY <1>1, <2>2
<1> HIDE DEF parts, part, line
<1>8. /\ FlattenSeq(parts) \in Seq(OutLines)
      /\ ToSet(FlattenSeq(parts)) = UNION {ToSet(parts[i]) : i \in 1 .. n}
  <2>1. Len(parts) # 0
    BY <1>1, <1>7
  <2> HIDE DEF n
  <2> QED
    BY <1>7, <2>1, FlattenMembers
<1>9. \A i \in 1 .. n : \A l \in ToSet(parts[i]) : Fair(l, format)
  BY <1>1, <1>3, <1>6
<1> QED
  BY <1>4, <1>8, <1>9

(* A line of an event says where it was measured.                           *)
LEMMA DumpEventTyped ==
  ASSUME NEW e \in Events
  PROVE  DumpEvent(e) \in EventLine /\ DumpEvent(e) \in OutLines /\ DumpEvent(e).n = e.n
BY EventFields DEF DumpEvent, ParseEventData, EventLine, OutLines

LEMMA EventLinesTyped ==
  ASSUME NEW events \in Seq(Events)
  PROVE  /\ [i \in DOMAIN events |-> DumpEvent(events[i])] \in Seq(OutLines)
         /\ ToSet([i \in DOMAIN events |-> DumpEvent(events[i])]) \subseteq EventLine
<1> DEFINE lines == [i \in DOMAIN events |-> DumpEvent(events[i])]
           n == Len(events)
<1>1. n \in Nat /\ DOMAIN events = 1 .. n /\ \A i \in 1 .. n : events[i] \in Events
  OBVIOUS
<1>2. lines = [i \in 1 .. n |-> DumpEvent(events[i])]
  BY <1>1
<1>3. \A i \in 1 .. n : DumpEvent(events[i]) \in EventLine /\ DumpEvent(events[i]) \in OutLines
  BY <1>1, DumpEventTyped
<1>4. lines \in [1 .. n -> OutLines] /\ lines \in [1 .. n -> EventLine]
  BY <1>2, <1>3
<1> HIDE DEF lines, n
<1>5. lines \in Seq(OutLines) /\ lines \in Seq(EventLine)
  BY <1>1, <1>4
<1> QED
  BY <1>5, MembersOfSeq DEF lines

(* The dump of a log: lines of events, and of a TCG 2 log that was not cut  *)
(* all of them.                                                             *)
LEMMA DumpLogLines ==
  ASSUME NEW format, Reads(format), NEW pcr
  PROVE  /\ DumpLog(format, pcr) \in Seq(OutLines)
         /\ ToSet(DumpLog(format, pcr)) \subseteq EventLine
         /\ format = "TCG_2" /\ ~Truncated(format) => DumpLog(format, pcr) = AllEvents(pcr)
<1> DEFINE events == Entries(format) \o FinalEventsTable(format)
           entries == Selected(events, pcr)
           first == IF format = "TCG_2" THEN <<DumpEvent(Head(EventLog))>> ELSE <<>>
           rest == [i \in DOMAIN entries |-> DumpEvent(entries[i])]
<1>1. DumpLog(format, pcr) = first \o rest
  BY DEF DumpLog, DumpEvent2
<1>2. entries \in Seq(Events)
  BY ReadTyped, SelectedTyped
<1>3. rest \in Seq(OutLines) /\ ToSet(rest) \subseteq EventLine
  <2> HIDE DEF entries
  <2> QED
    BY <1>2, EventLinesTyped
<1>4. /\ first \in Seq(OutLines) /\ ToSet(first) \subseteq EventLine
      /\ format = "TCG_2" => first = <<DumpEvent(SpecIdEvent)>>
  <2>1. CASE format = "TCG_2"
    <3>1. Head(EventLog) = SpecIdEvent
      BY <2>1, LogTyped DEF Reads
    <3>2. DumpEvent(SpecIdEvent) \in EventLine /\ DumpEvent(SpecIdEvent) \in OutLines
      BY SpecIdIsEvent, DumpEventTyped
    <3> DEFINE d == DumpEvent(SpecIdEvent)
    <3>3. first = <<d>>
      BY <2>1, <3>1
    <3> HIDE DEF d, first
    <3>4. <<d>> \in Seq(OutLines) /\ ToSet(<<d>>) = {d}
      BY <3>2, SingleMembers DEF d
    <3> QED
      BY <3>2, <3>3, <3>4 DEF d
  <2>2. CASE format # "TCG_2"
    <3>1. first = <<>>
      BY <2>2
    <3>2. <<>> \in Seq(OutLines) /\ ToSet(<<>>) = {}
      BY DEF ToSet
    <3> HIDE DEF first
    <3> QED
      BY <2>2, <3>1, <3>2
  <2> QED
    BY <2>1, <2>2
<1>5. format = "TCG_2" /\ ~Truncated(format) => events = measured
  BY ReadsAllEvents DEF Reads
<1>6. format = "TCG_2" /\ ~Truncated(format) => first \o rest = AllEvents(pcr)
  <2> HIDE DEF events, first
  <2> QED
    BY <1>4, <1>5 DEF AllEvents
<1> HIDE DEF first, rest
<1> QED
  BY <1>1, <1>3, <1>4, <1>6, ConcatMembers

LEMMA DumpEventLogLines ==
  ASSUME NEW format, Reads(format), NEW pcr \in Int
  PROVE  /\ DumpEventLog(format, pcr) \in Seq(OutLines)
         /\ \A line \in ToSet(DumpEventLog(format, pcr)) : Fair(line, format)
         /\ ~question.E /\ format = "TCG_2" /\ ~Truncated(format) =>
              DumpEventLog(format, pcr) = AllEvents(pcr)
<1>1. CASE question.E
  BY <1>1, DumpExpectedLines DEF DumpEventLog
<1>2. CASE ~question.E
  <2>1. DumpEventLog(format, pcr) = DumpLog(format, pcr)
    BY <1>2 DEF DumpEventLog
  <2>2. \A line \in EventLine : Fair(line, format)
    BY DEF EventLine, Right, Fair
  <2> QED
    BY <1>2, <2>1, <2>2, DumpLogLines
<1> QED
  BY <1>1, <1>2

(* What holds of the lines that are out holds on as more are put out: right *)
(* ones, or ones of a log that a warning has been printed for.              *)
LEMMA OutGrows ==
  ASSUME TypeOK, ExpectedIsPcr, UNCHANGED measured,
         NEW lines \in Seq(OutLines), out' = out \o lines,
         \A line \in ToSet(lines) : Right(line) \/ Warning(line.format) \in ToSet(out)
  PROVE  /\ out' \in Seq(OutLines)
         /\ ExpectedIsPcr'
         /\ ToSet(out) \subseteq ToSet(out')
<1> DEFINE n == Len(out)
           m == Len(lines)
<1>1. out \in Seq(OutLines) /\ n \in Nat /\ m \in Nat
  BY DEF TypeOK
<1>2. out' \in Seq(OutLines) /\ ToSet(out') = ToSet(out) \cup ToSet(lines)
  BY <1>1, ConcatMembers
<1>3. /\ Len(out') = n + m
      /\ \A i \in 1 .. n + m : out'[i] = IF i <= n THEN out[i] ELSE lines[i - n]
  BY <1>1, ConcatProperties
<1>4. ToSet(out) = {out[i] : i \in 1 .. n} /\ ToSet(lines) = {lines[i] : i \in 1 .. m}
  BY <1>1, MembersOfSeq
<1>5. DOMAIN out = 1 .. n /\ DOMAIN out' = 1 .. n + m
  BY <1>1, <1>2, <1>3
<1> HIDE DEF n, m
<1> DEFINE Told(i) == \E j \in 1 .. i - 1 : out'[j] = Warning(out'[i].format)
<1>6. ASSUME NEW i \in 1 .. n + m
      PROVE  Right(out'[i]) \/ Told(i)
  <2>1. CASE i <= n
    <3>1. i \in 1 .. n /\ out'[i] = out[i]
      BY <1>1, <1>3, <2>1
    <3>2. Right(out[i]) \/ \E j \in 1 .. i - 1 : out[j] = Warning(out[i].format)
      BY <1>5, <3>1 DEF ExpectedIsPcr, Right
    <3>3. ASSUME NEW j \in 1 .. i - 1
          PROVE  out'[j] = out[j]
      <4>1. j \in 1 .. n + m /\ j <= n
        BY <1>1, <3>1
      <4> QED
        BY <1>3, <4>1
    <3> QED
      BY <3>1, <3>2, <3>3
  <2>2. CASE ~(i <= n)
    <3>1. i - n \in 1 .. m /\ out'[i] = lines[i - n]
      BY <1>1, <1>3, <2>2, SMTT(40)
    <3>2. Right(out'[i]) \/ Warning(out'[i].format) \in ToSet(out)
      BY <1>4, <3>1
    <3>3. ASSUME Warning(out'[i].format) \in ToSet(out)
          PROVE  Told(i)
      <4>1. PICK j \in 1 .. n : out[j] = Warning(out'[i].format)
        BY <1>4, <3>3
      <4>2. j \in 1 .. n + m /\ j <= n /\ j \in 1 .. i - 1
        BY <1>1, <2>2
      <4> QED
        BY <1>3, <4>1, <4>2
    <3> QED
      BY <3>2, <3>3
  <2> QED
    BY <2>1, <2>2
<1>7. ExpectedIsPcr'
  <2>1. \A i \in DOMAIN out' : Right(out'[i]) \/ Told(i)
    BY <1>5, <1>6
  <2> HIDE DEF Told
  <2> SUFFICES ASSUME NEW i \in DOMAIN out', out'[i].what = "expected",
                      out'[i].algorithm \in mHashInfo \cap Banks, out'[i].pcr \in Pcrs
               PROVE  \/ out'[i].digest
                            = Numbers(Extending(measured, out'[i].pcr, out'[i].algorithm))
                      \/ Told(i)
    BY DEF ExpectedIsPcr, Told, Pcr
  <2>2. Right(out'[i]) => out'[i].digest = Pcr(out'[i].pcr, out'[i].algorithm)
    BY DEF Right
  <2> QED
    BY <2>1, <2>2 DEF Pcr
<1> QED
  BY <1>2, <1>7

(* A warning or an error that is put out.                                   *)
LEMMA OutAppends ==
  ASSUME TypeOK, ExpectedIsPcr, UNCHANGED measured,
         NEW line \in WarningLine \cup OtherLine, out' = Append(out, line)
  PROVE  /\ out' \in Seq(OutLines)
         /\ ExpectedIsPcr'
         /\ ToSet(out) \subseteq ToSet(out') /\ line \in ToSet(out')
         /\ line.what \in {"ERROR", "WARNING"} => ~Quiet'
<1>1. line \in OutLines /\ line.what # "expected"
  BY DEF OutLines, WarningLine, OtherLine
<1>2. out \in Seq(OutLines)
  BY DEF TypeOK
<1> DEFINE one == <<line>>
<1>3. one \in Seq(OutLines) /\ ToSet(one) = {line}
  BY <1>1, SingleMembers
<1>4. out' = out \o one
  BY <1>1, <1>2, AppendIsConcat
<1>5. Right(line)
  BY <1>1 DEF Right
<1> HIDE DEF one
<1>6. out' \in Seq(OutLines) /\ ExpectedIsPcr' /\ ToSet(out) \subseteq ToSet(out')
  BY <1>3, <1>4, <1>5, OutGrows
<1>7. line \in ToSet(out')
  BY <1>1, <1>2, AppendMembers
<1>8. \E i \in DOMAIN out' : out'[i] = line
  BY <1>7 DEF ToSet
<1> QED
  BY <1>6, <1>7, <1>8 DEF Quiet

(***************************************************************************)
(* The firmware                                                            *)
(***************************************************************************)

(* What is at the end of a sequence gets one more.                          *)
LEMMA EndOfAppend ==
  ASSUME NEW S, NEW s \in Seq(S), NEW e \in S, NEW k \in 0 .. Len(s)
  PROVE  SubSeq(Append(s, e), k + 1, Len(s) + 1) = Append(SubSeq(s, k + 1, Len(s)), e)
<1> DEFINE L == Len(s)
           t == Append(s, e)
           u == SubSeq(s, k + 1, L)
           v == SubSeq(t, k + 1, L + 1)
<1>1. L \in Nat /\ k \in 0 .. L /\ \A i \in 1 .. L : s[i] \in S
  OBVIOUS
<1>2. /\ t \in Seq(S) /\ Len(t) = L + 1
      /\ \A i \in 1 .. L : t[i] = s[i]
      /\ t[L + 1] = e
  BY AppendProperties
<1>3. k + 1 \in Int /\ L \in Int /\ L + 1 \in Int
  BY <1>1
<1>4. /\ u \in Seq(S) /\ Len(u) = L - k
      /\ \A i \in 1 .. L - k : u[i] = s[k + i]
  <2>1. \A i \in k + 1 .. L : s[i] \in S
    BY <1>1
  <2>2. /\ u \in Seq(S) /\ Len(u) = IF k + 1 <= L THEN L - (k + 1) + 1 ELSE 0
        /\ \A i \in 1 .. L - (k + 1) + 1 : u[i] = s[k + 1 + i - 1]
    <3> HIDE DEF L
    <3> QED
      BY <1>3, <2>1, SubSeqProperties
  <2> HIDE DEF L, u
  <2>3. /\ L - (k + 1) + 1 = L - k /\ (~(k + 1 <= L) => L - k = 0)
        /\ \A i \in 1 .. L - k : k + 1 + i - 1 = k + i
    BY <1>1
  <2> QED
    BY <2>2, <2>3
<1>5. /\ v \in Seq(S) /\ Len(v) = L - k + 1
      /\ \A i \in 1 .. L - k + 1 : v[i] = t[k + i]
  <2> HIDE DEF L, t
  <2>1. \A i \in k + 1 .. L + 1 : t[i] \in S
    <3>1. \A i \in k + 1 .. L + 1 : i \in 1 .. Len(t)
      BY <1>1, <1>2
    <3> QED
      BY <1>2, <3>1
  <2>2. /\ v \in Seq(S) /\ Len(v) = IF k + 1 <= L + 1 THEN L + 1 - (k + 1) + 1 ELSE 0
        /\ \A i \in 1 .. L + 1 - (k + 1) + 1 : v[i] = t[k + 1 + i - 1]
    BY <1>3, <2>1, SubSeqProperties
  <2> HIDE DEF v
  <2>3. /\ L + 1 - (k + 1) + 1 = L - k + 1 /\ k + 1 <= L + 1
        /\ \A i \in 1 .. L - k + 1 : k + 1 + i - 1 = k + i
    BY <1>1
  <2> QED
    BY <2>2, <2>3
<1> DEFINE w == Append(u, e)
<1>6. /\ w \in Seq(S) /\ Len(w) = L - k + 1
      /\ \A i \in 1 .. L - k : w[i] = u[i]
      /\ w[L - k + 1] = e
  <2> HIDE DEF u, L
  <2> QED
    BY <1>4, AppendProperties
<1>7. ASSUME NEW i \in 1 .. L - k + 1
      PROVE  v[i] = w[i]
  <2> HIDE DEF L, t, u, v, w
  <2>1. CASE i = L - k + 1
    <3>1. k + i = L + 1
      BY <1>1, <2>1
    <3> QED
      BY <1>2, <1>5, <1>6, <2>1, <3>1
  <2>2. CASE i # L - k + 1
    <3>1. i \in 1 .. L - k /\ k + i \in 1 .. L
      BY <1>1, <2>2
    <3> QED
      BY <1>2, <1>4, <1>5, <1>6, <3>1
  <2> QED
    BY <2>1, <2>2
<1> HIDE DEF v, w, u, t
<1>8. v = w
  <2> DEFINE N == L - k + 1
  <2>1. Len(v) = N /\ Len(w) = N /\ \A i \in 1 .. N : v[i] = w[i]
    BY <1>5, <1>6, <1>7
  <2> HIDE DEF N
  <2> QED
    BY <1>5, <1>6, <2>1, SeqEqual
<1> QED
  BY <1>8 DEF v, w, u, t

LEMMA MeasureStep == IInv /\ Measure => IInv'
<1> SUFFICES ASSUME IInv, Measure PROVE IInv'
  OBVIOUS
<1> DEFINE L == Len(measured)
           called == installed /\ "TCG_2" \in GetEventLogCalled
<1>1. TypeOK /\ FinalIsTheRest /\ Course /\ SavedAndParsed /\ pc = "shell" /\ out = <<>>
  BY DEF IInv, Measure, Course
<1>2. PICK p \in Pcrs, kind \in EventKinds :
        LET event == [PCRIndex |-> p, EventType |-> kind.EventType, digests |-> kind.digests,
                      n |-> L + 1]
        IN  /\ measured' = Append(measured, event)
            /\ final' = IF called THEN Append(final, event) ELSE final
  BY DEF Measure
<1> DEFINE event == [PCRIndex |-> p, EventType |-> kind.EventType, digests |-> kind.digests,
                     n |-> L + 1]
<1>3. UNCHANGED <<GetEventLogCalled, installed, room, file, written, app>>
  BY DEF Measure
<1>4. measured \in Seq(Events) /\ final \in Seq(Events) /\ L \in Nat
  BY <1>1 DEF TypeOK
<1>5. event \in Events /\ event.n = L + 1
  <2> DEFINE Types == {k.EventType : k \in EventKinds}
  <2>1. kind.digests \in SUBSET Banks
    BY KindsAssumption
  <2>2. kind.EventType \in Types /\ L + 1 \in Nat
    BY <1>4
  <2> HIDE DEF Types, L
  <2>3. event \in [PCRIndex : Pcrs, EventType : Types, digests : SUBSET Banks, n : Nat]
    BY <2>1, <2>2
  <2> QED
    BY <2>3 DEF Events, Types
<1>6. measured' = Append(measured, event) /\ final' = IF called THEN Append(final, event) ELSE final
  BY <1>2
<1> HIDE DEF event, called
<1>7. /\ measured' \in Seq(Events) /\ Len(measured') = L + 1
      /\ \A i \in 1 .. L : measured'[i] = measured[i]
      /\ measured'[L + 1] = event
  BY <1>4, <1>5, <1>6, AppendProperties
<1>8. final' \in Seq(Events)
  BY <1>4, <1>5, <1>6, AppendProperties
<1>9. TypeOK'
  BY <1>1, <1>3, <1>7, <1>8 DEF TypeOK, app
<1>10. FinalIsTheRest'
  <2>1. \A i \in 1 .. Len(measured') : measured'[i].n = i
    <3>1. \A i \in 1 .. L : measured[i].n = i
      BY <1>1 DEF FinalIsTheRest
    <3>2. \A i \in 1 .. L + 1 : i \in 1 .. L \/ i = L + 1
      BY <1>4
    <3> HIDE DEF L
    <3> QED
      BY <1>5, <1>7, <3>1, <3>2
  <2>2. ~called => final' = <<>>
    BY <1>1, <1>3, <1>6 DEF FinalIsTheRest, called
  <2>3. \E k \in 0 .. Len(measured') : final' = SubSeq(measured', k + 1, Len(measured'))
    <3>1. CASE called
      <4>1. PICK k \in 0 .. L : final = SubSeq(measured, k + 1, L)
        BY <1>1 DEF FinalIsTheRest
      <4>2. SubSeq(measured', k + 1, L + 1) = final'
        BY <1>4, <1>5, <1>6, <3>1, <4>1, EndOfAppend
      <4>3. k \in 0 .. L + 1
        BY <1>4
      <4> QED
        BY <1>7, <4>2, <4>3
    <3>2. CASE ~called
      <4>1. final' = <<>>
        BY <2>2, <3>2
      <4>2. SubSeq(measured', L + 1 + 1, L + 1) = <<>>
        <5>1. L + 1 + 1 \in Int /\ L + 1 \in Int /\ L + 1 < L + 1 + 1
          BY <1>4
        <5> HIDE DEF L
        <5> QED
          BY <5>1, SubSeqEmpty
      <4>3. L + 1 \in 0 .. L + 1
        BY <1>4
      <4> QED
        BY <1>7, <4>1, <4>2, <4>3
    <3> QED
      BY <3>1, <3>2
  <2>4. ~(installed /\ "TCG_2" \in GetEventLogCalled)' => final' = <<>>
    BY <1>3, <2>2 DEF called
  <2> QED
    BY <2>1, <2>3, <2>4 DEF FinalIsTheRest
<1>11. LogIsOfItsFormat' /\ Course' /\ OutSoFar' /\ SavedAndParsed'
  BY <1>1, <1>3 DEF LogIsOfItsFormat, Course, OutSoFar, SavedAndParsed, app
<1>12. ExpectedIsPcr'
  BY <1>1, <1>3 DEF ExpectedIsPcr, app
<1> QED
  BY <1>9, <1>10, <1>11, <1>12 DEF IInv

LEMMA ResetStep == IInv /\ Reset => IInv'
<1> SUFFICES ASSUME IInv, Reset PROVE IInv'
  OBVIOUS
<1>1. /\ TypeOK /\ Course /\ SavedAndParsed /\ pc = "shell" /\ out = <<>>
      /\ UNCHANGED <<installed, room, file, written, app>>
      /\ measured' = <<>> /\ GetEventLogCalled' = {} /\ final' = <<>>
  BY DEF IInv, Reset, Course
<1>2. TypeOK'
  BY <1>1, EmptySeq DEF TypeOK, app
<1>3. FinalIsTheRest'
  <2>1. Len(measured') = 0 /\ SubSeq(measured', 1, 0) = <<>>
    BY <1>1, SubSeqEmpty
  <2>2. 0 \in 0 .. 0 /\ 0 + 1 = 1 /\ 1 .. 0 = {}
    OBVIOUS
  <2> QED
    BY <1>1, <2>1, <2>2 DEF FinalIsTheRest
<1>4. LogIsOfItsFormat' /\ Course' /\ OutSoFar' /\ SavedAndParsed'
  BY <1>1 DEF LogIsOfItsFormat, Course, OutSoFar, SavedAndParsed, app
<1>5. ExpectedIsPcr'
  BY <1>1 DEF ExpectedIsPcr, app
<1> QED
  BY <1>2, <1>3, <1>4, <1>5 DEF IInv

(***************************************************************************)
(* The application                                                         *)
(***************************************************************************)

LEMMA Tpm2LinesTyped ==
  ASSUME NEW RSDT \in Roots, NEW XSDT \in Roots
  PROVE  DumpAcpiTPM2(RSDT, XSDT) \in Seq(OutLines) /\ ToSet(DumpAcpiTPM2(RSDT, XSDT)) \subseteq OtherLine
<1> DEFINE tables == CASE XSDT # NULL -> XSDT
                       [] XSDT = NULL /\ RSDT # NULL -> RSDT
                       [] OTHER -> <<>>
           found == Where(tables, {"TPM2"})
           n == Len(found)
           lines == [i \in DOMAIN found |-> [what |-> "TPM2"]]
<1>1. PICK S : tables \in Seq(S)
  <2>1. CASE XSDT # NULL
    BY <2>1, RootsAssumption
  <2>2. CASE XSDT = NULL /\ RSDT # NULL
    BY <2>2, RootsAssumption
  <2>3. CASE XSDT = NULL /\ RSDT = NULL
    BY <2>3, EmptySeq
  <2> QED
    BY <2>1, <2>2, <2>3
<1>2. found \in Seq(S)
  <2> HIDE DEF tables
  <2> QED
    BY <1>1, WhereMembers
<1>3. DumpAcpiTPM2(RSDT, XSDT) = lines
  BY DEF DumpAcpiTPM2, Tpm2Tables
<1>4. [what |-> "TPM2"] \in OtherLine /\ [what |-> "TPM2"] \in OutLines
  BY DEF OtherLine, OutLines
<1> HIDE DEF found
<1>5. n \in Nat /\ DOMAIN found = 1 .. n
  BY <1>2
<1>6. lines \in [1 .. n -> OtherLine] /\ lines \in [1 .. n -> OutLines]
  BY <1>4, <1>5
<1> HIDE DEF lines, n
<1>7. lines \in Seq(OtherLine) /\ lines \in Seq(OutLines)
  BY <1>5, <1>6
<1> QED
  BY <1>3, <1>7, MembersOfSeq

LEMMA ParseLinesTyped ==
  ASSUME TypeOK
  PROVE  ParseLines \in Seq(OutLines) /\ ToSet(ParseLines) \subseteq EventLine \cup OtherLine
<1> DEFINE read == [i \in DOMAIN file.entries |-> DumpEvent(file.entries[i])]
           behind == IF file.cut THEN Unread ELSE <<>>
<1>1. ParseLines = read \o behind
  BY DEF ParseLines
<1>2. file.entries \in Seq(Events)
  BY DEF TypeOK
<1>3. read \in Seq(OutLines) /\ ToSet(read) \subseteq EventLine
  BY <1>2, EventLinesTyped
<1>4. behind \in Seq(OutLines) /\ ToSet(behind) \subseteq OtherLine
  <2> DEFINE u == [what |-> "unread"]
  <2>1. u \in OtherLine /\ u \in OutLines
    BY DEF OtherLine, OutLines
  <2>2. Unread = <<u>>
    BY DEF Unread
  <2>3. <<>> \in Seq(OutLines) /\ ToSet(<<>>) = {}
    BY DEF ToSet
  <2> HIDE DEF u
  <2>4. <<u>> \in Seq(OutLines) /\ ToSet(<<u>>) = {u}
    BY <2>1, SingleMembers
  <2> QED
    BY <2>1, <2>2, <2>3, <2>4
<1> HIDE DEF read, behind
<1> QED
  BY <1>1, <1>3, <1>4, ConcatMembers

(* Lines that no expected value is in, at the start of a run.               *)
LEMMA NothingExpected ==
  ASSUME NEW lines, ToSet(lines) \subseteq EventLine \cup OtherLine, out' = lines
  PROVE  ExpectedIsPcr'
<1>1. \A line \in EventLine \cup OtherLine : line.what # "expected"
  BY DEF EventLine, OtherLine
<1>2. \A i \in DOMAIN out' : out'[i].what # "expected"
  BY <1>1 DEF ToSet
<1> QED
  BY <1>2 DEF ExpectedIsPcr

(* One line that is no event's.                                             *)
LEMMA OneLine ==
  ASSUME NEW line \in OtherLine
  PROVE  <<line>> \in Seq(OutLines) /\ ToSet(<<line>>) = {line}
<1>1. line \in OutLines
  BY DEF OutLines
<1> QED
  BY <1>1, SingleMembers

LEMMA EarlyOutputsTyped ==
  ASSUME TypeOK, NEW q, NEW lines \in EarlyOutputs(q), q.A \in BOOLEAN, q.I \in Int, q.PARSE \in BOOLEAN
  PROVE  /\ lines \in Seq(OutLines) /\ ToSet(lines) \subseteq EventLine \cup OtherLine
         /\ ReadsLogs(q) => lines = <<Error>>
         /\ q.PARSE /\ ~q.A /\ q.I <= MAX_PCR_INDEX => lines = ParseLines
         /\ ~q.PARSE /\ ~q.A /\ ~q.C => lines = <<Error>>
<1>1. MAX_PCR_INDEX \in Nat
  BY BoundsAssumption
<1>2. Error \in OtherLine /\ [what |-> "capability"] \in OtherLine
  BY DEF Error, OtherLine
<1>3. /\ <<Error>> \in Seq(OutLines) /\ ToSet(<<Error>>) = {Error}
      /\ DumpTcg2Capability \in Seq(OutLines)
      /\ ToSet(DumpTcg2Capability) \subseteq OtherLine
  BY <1>2, OneLine DEF DumpTcg2Capability
<1>4. CASE q.A
  <2>1. PICK RSDT \in Roots, XSDT \in Roots : lines = DumpAcpiTPM2(RSDT, XSDT)
    BY <1>4 DEF EarlyOutputs
  <2>2. ~ReadsLogs(q)
    BY <1>4 DEF ReadsLogs
  <2> QED
    BY <1>4, <2>1, <2>2, Tpm2LinesTyped
<1>5. CASE ~q.A /\ q.I > MAX_PCR_INDEX
  <2>1. lines = <<Error>>
    BY <1>5 DEF EarlyOutputs
  <2>2. ~(q.I <= MAX_PCR_INDEX)
    BY <1>1, <1>5
  <2> QED
    BY <1>2, <1>3, <2>1, <2>2
<1>6. CASE ~q.A /\ q.I <= MAX_PCR_INDEX /\ q.PARSE
  <2>1. ~(q.I > MAX_PCR_INDEX)
    BY <1>1, <1>6
  <2>2. lines = ParseLines
    BY <1>6, <2>1 DEF EarlyOutputs
  <2>3. ~ReadsLogs(q)
    BY <1>6 DEF ReadsLogs
  <2> QED
    BY <1>6, <2>2, <2>3, ParseLinesTyped
<1>7. CASE ~q.A /\ q.I <= MAX_PCR_INDEX /\ ~q.PARSE
  <2>1. ~(q.I > MAX_PCR_INDEX)
    BY <1>1, <1>7
  <2>2. lines \in {<<Error>>} \cup (IF q.C THEN {DumpTcg2Capability} ELSE {})
    BY <1>7, <2>1 DEF EarlyOutputs
  <2>3. ReadsLogs(q) => ~q.C
    BY DEF ReadsLogs
  <2>4. lines = <<Error>> \/ (q.C /\ lines = DumpTcg2Capability)
    BY <2>2
  <2> QED
    BY <1>2, <1>3, <1>7, <2>3, <2>4
<1>8. q.I <= MAX_PCR_INDEX \/ q.I > MAX_PCR_INDEX
  BY <1>1
<1> QED
  BY <1>4, <1>5, <1>6, <1>7, <1>8

LEMMA UefiMainStep == IInv /\ UefiMain => IInv'
<1> SUFFICES ASSUME IInv, UefiMain PROVE IInv'
  OBVIOUS
<1>1. PICK q \in Questions :
       /\ question' = q
       /\ PcrIndex' = q.I
       /\ \/ pc' = "done" /\ out' \in EarlyOutputs(q)
          \/ ReadsLogs(q) /\ pc' = "format" /\ out' = <<>>
  BY DEF UefiMain
<1>2. pc = "shell" /\ UNCHANGED <<firmware, file, written, Index, EventLog, runs>>
  BY DEF UefiMain
<1>3. TypeOK /\ FinalIsTheRest /\ Course /\ SavedAndParsed /\ Index = 1 /\ Len(Formats) = 2
  BY <1>2 DEF IInv, Course, Formats
<1>4. q.I \in Int /\ q.A \in BOOLEAN /\ q.PARSE \in BOOLEAN /\ q.C \in BOOLEAN /\ q.E \in BOOLEAN
  BY QuestionsAssumption
<1>5. /\ out' \in Seq(OutLines) /\ ToSet(out') \subseteq EventLine \cup OtherLine
      /\ pc' = "done" /\ ~q.PARSE /\ ~q.A /\ ~q.C => out' = <<Error>>
      /\ pc' = "done" /\ q.PARSE /\ ~q.A /\ q.I <= MAX_PCR_INDEX => out' = ParseLines
  <2>1. CASE pc' = "done" /\ out' \in EarlyOutputs(q)
    BY <1>3, <1>4, <2>1, EarlyOutputsTyped
  <2>2. CASE ReadsLogs(q) /\ pc' = "format" /\ out' = <<>>
    <3>1. <<>> \in Seq(OutLines) /\ ToSet(<<>>) = {}
      BY DEF ToSet
    <3> QED
      BY <2>2, <3>1
  <2> QED
    BY <1>1, <2>1, <2>2
<1>6. pc' \in {"format", "done"} /\ (pc' = "format" => ReadsLogs(q) /\ out' = <<>>)
  BY <1>1
<1>7. TypeOK'
  BY <1>1, <1>2, <1>3, <1>4, <1>5, <1>6 DEF TypeOK, firmware
<1>8. FinalIsTheRest'
  BY <1>2, <1>3 DEF FinalIsTheRest, firmware
<1>9. LogIsOfItsFormat'
  BY <1>6 DEF LogIsOfItsFormat
<1>10. Ordinary' => pc' = "format" \/ ~Quiet'
  <2> SUFFICES ASSUME ~q.PARSE, ~q.A, ~q.C, pc' = "done" PROVE ~Quiet'
    BY <1>1, <1>6 DEF Ordinary
  <2>1. out' = <<Error>>
    BY <1>5
  <2>2. 1 \in DOMAIN out' /\ out'[1].what = "ERROR"
    BY <2>1 DEF Error
  <2> QED
    BY <2>2 DEF Quiet
<1>11. Course'
  <2>1. pc' = "format" => Ordinary'
    BY <1>1, <1>6 DEF ReadsLogs, Ordinary
  <2> HIDE DEF Ordinary
  <2> QED
    BY <1>1, <1>2, <1>6, <1>10, <2>1 DEF Course
<1>12. OutSoFar'
  BY <1>2, <1>3, <1>6, <1>10 DEF OutSoFar
<1>13. SavedAndParsed'
  BY <1>1, <1>2, <1>3, <1>5 DEF SavedAndParsed, ParseLines
<1>14. ExpectedIsPcr'
  BY <1>5, NothingExpected
<1> QED
  BY <1>7, <1>8, <1>9, <1>11, <1>12, <1>13, <1>14 DEF IInv

LEMMA NextFormatStep == IInv /\ NextFormat => IInv'
<1> SUFFICES ASSUME IInv, NextFormat PROVE IInv'
  OBVIOUS
<1>1. /\ pc = "format"
      /\ \/ Index <= Len(Formats) /\ Formats[Index] \notin question.L
            /\ Index' = Index + 1 /\ UNCHANGED pc
         \/ Index > Len(Formats) /\ pc' = "done" /\ UNCHANGED Index
  BY DEF NextFormat
<1>2. UNCHANGED <<firmware, file, written, question, PcrIndex, EventLog, out, runs>>
  BY DEF NextFormat
<1>3. TypeOK /\ FinalIsTheRest /\ Course /\ OutSoFar /\ SavedAndParsed /\ ExpectedIsPcr
  BY DEF IInv
<1>4. Len(Formats) = 2 /\ Formats[1] = "TCG_1_2" /\ Formats[2] = "TCG_2"
  BY DEF Formats
<1>5. Index \in 1 .. 3 /\ Index' \in 1 .. 3 /\ pc' \in {"format", "done"}
      /\ (pc' = "done" => Index' = 3) /\ Ordinary
  BY <1>1, <1>3, <1>4 DEF TypeOK, Course
<1>6. TypeOK'
  BY <1>1, <1>2, <1>3, <1>4, <1>5 DEF TypeOK, firmware
<1>7. FinalIsTheRest'
  BY <1>2, <1>3 DEF FinalIsTheRest, firmware
<1>8. LogIsOfItsFormat'
  BY <1>5 DEF LogIsOfItsFormat
<1>9. Course'
  BY <1>1, <1>2, <1>3, <1>4, <1>5 DEF Course, Ordinary, Quiet
<1>10. OutSoFar'
  <2>1. UNCHANGED <<Quiet, AllEvents(question.I)>>
    BY <1>2 DEF Quiet, AllEvents, Selected, firmware
  <2>2. CASE Index <= Len(Formats) /\ Formats[Index] \notin question.L
                /\ Index' = Index + 1 /\ UNCHANGED pc
    <3>1. question.L = {"TCG_2"} => Index' = 2
      BY <1>4, <1>5, <2>2
    <3> QED
      BY <1>1, <1>2, <1>3, <1>4, <2>1, <2>2, <3>1 DEF OutSoFar, Ordinary
  <2>3. CASE Index > Len(Formats) /\ pc' = "done" /\ UNCHANGED Index
    BY <1>1, <1>2, <1>3, <1>4, <1>5, <2>1, <2>3 DEF OutSoFar, Ordinary
  <2> QED
    BY <1>1, <2>2, <2>3
<1>11. SavedAndParsed'
  BY <1>2, <1>3, <1>5 DEF SavedAndParsed, Ordinary
<1>12. ExpectedIsPcr'
  BY <1>2, <1>3 DEF ExpectedIsPcr, Pcr, firmware
<1> QED
  BY <1>6, <1>7, <1>8, <1>9, <1>10, <1>11, <1>12 DEF IInv

LEMMA GetEventLogStep == IInv /\ GetEventLog => IInv'
<1> SUFFICES ASSUME IInv, GetEventLog PROVE IInv'
  OBVIOUS
<1> DEFINE format == Formats[Index]
<1>1. /\ pc = "format" /\ Index <= Len(Formats) /\ format \in question.L
      /\ GetEventLogCalled' = GetEventLogCalled \cup {format}
      /\ EventLog' = Log(format)
      /\ out' = IF Truncated(format) THEN Append(out, Warning(format)) ELSE out
      /\ pc' \in {"write", "dump"}
      /\ UNCHANGED <<measured, final, installed, room, file, written, question, Index, PcrIndex, runs>>
  BY DEF GetEventLog
<1>2. TypeOK /\ FinalIsTheRest /\ Course /\ OutSoFar /\ SavedAndParsed /\ ExpectedIsPcr
  BY DEF IInv
<1>3. Index \in 1 .. Len(Formats) /\ format \in Range(Formats) /\ Len(Formats) = 2
  BY <1>1, <1>2, SMTT(40) DEF TypeOK, Formats, Range
<1> HIDE DEF format
<1>4. /\ out' \in Seq(OutLines) /\ ExpectedIsPcr'
      /\ Truncated(format) => Warning(format) \in ToSet(out') /\ ~Quiet'
      /\ ~Truncated(format) => out' = out
  <2>1. CASE Truncated(format)
    <3>1. Warning(format) \in WarningLine /\ Warning(format).what = "WARNING"
      BY <1>3 DEF Warning, WarningLine
    <3> QED
      BY <1>1, <1>2, <2>1, <3>1, OutAppends
  <2>2. CASE ~Truncated(format)
    <3>1. out' = out
      BY <1>1, <2>2
    <3> QED
      BY <1>1, <1>2, <2>2, <3>1 DEF TypeOK, ExpectedIsPcr, Pcr
  <2> QED
    BY <2>1, <2>2
<1>5. TypeOK'
  <2>1. Log(format) \in Seq(Events)
    BY <1>2, <1>3, LogTyped
  <2> QED
    BY <1>1, <1>2, <1>4, <2>1 DEF TypeOK
<1>6. FinalIsTheRest'
  <2>1. ~(installed /\ "TCG_2" \in GetEventLogCalled)' => ~(installed /\ "TCG_2" \in GetEventLogCalled)
    BY <1>1
  <2> QED
    BY <1>1, <1>2, <2>1 DEF FinalIsTheRest
<1>7. LogIsOfItsFormat'
  <2>1. \A f : UNCHANGED <<Log(f), Truncated(f)>>
    BY <1>1 DEF Log, Held, Truncated, Logged
  <2> QED
    BY <1>1, <1>3, <1>4, <2>1 DEF LogIsOfItsFormat, format
<1>8. Course'
  BY <1>1, <1>2 DEF Course, Ordinary
<1>9. OutSoFar'
  <2>1. CASE Truncated(format)
    BY <1>4, <2>1 DEF OutSoFar
  <2>2. CASE ~Truncated(format)
    <3>1. out' = out /\ (Quiet' => Quiet)
      BY <1>4, <2>2 DEF Quiet
    <3> QED
      BY <1>1, <1>2, <1>3, <3>1 DEF OutSoFar, Ordinary
  <2> QED
    BY <2>1, <2>2
<1>10. SavedAndParsed'
  BY <1>1, <1>2 DEF SavedAndParsed
<1> QED
  BY <1>4, <1>5, <1>6, <1>7, <1>8, <1>9, <1>10 DEF IInv

LEMMA GetEventLogFailsStep == IInv /\ GetEventLogFails => IInv'
<1> SUFFICES ASSUME IInv, GetEventLogFails PROVE IInv'
  OBVIOUS
<1>1. /\ pc = "format" /\ Index <= Len(Formats) /\ Index' = Index + 1
      /\ out' = Append(out, Error)
      /\ UNCHANGED <<firmware, file, written, pc, question, PcrIndex, EventLog, runs>>
  BY DEF GetEventLogFails
<1>2. TypeOK /\ FinalIsTheRest /\ Course /\ SavedAndParsed /\ ExpectedIsPcr
  BY DEF IInv
<1>3. Index \in 1 .. 2 /\ Index' \in 2 .. 3 /\ Len(Formats) = 2
  BY <1>1, <1>2 DEF TypeOK, Formats
<1>4. out' \in Seq(OutLines) /\ ExpectedIsPcr' /\ ~Quiet'
  <2>1. Error \in OtherLine /\ Error.what = "ERROR"
    BY DEF Error, OtherLine
  <2> QED
    BY <1>1, <1>2, <2>1, OutAppends DEF firmware
<1>5. TypeOK'
  BY <1>1, <1>2, <1>3, <1>4 DEF TypeOK, firmware
<1>6. FinalIsTheRest'
  BY <1>1, <1>2 DEF FinalIsTheRest, firmware
<1>7. LogIsOfItsFormat' /\ OutSoFar'
  BY <1>1, <1>4 DEF LogIsOfItsFormat, OutSoFar
<1>8. Course'
  BY <1>1, <1>2 DEF Course, Ordinary
<1>9. SavedAndParsed'
  BY <1>1, <1>2 DEF SavedAndParsed
<1> QED
  BY <1>4, <1>5, <1>6, <1>7, <1>8, <1>9 DEF IInv

(* The part of a log that a file holds.                                     *)
LEMMA PartTyped ==
  ASSUME TypeOK, NEW n \in 0 .. Len(EventLog)
  PROVE  SubSeq(EventLog, 1, n) \in Seq(Events)
<1>1. EventLog \in Seq(Events) /\ Len(EventLog) \in Nat
  BY DEF TypeOK
<1>2. \A i \in 1 .. n : EventLog[i] \in Events
  BY <1>1
<1> QED
  BY <1>1, <1>2, SubSeqProperties

LEMMA WriteStep == IInv /\ WriteFileFromBuffer => IInv'
<1> SUFFICES ASSUME IInv, WriteFileFromBuffer PROVE IInv'
  OBVIOUS
<1>1. /\ pc = "write" /\ pc' = "dump"
      /\ UNCHANGED <<firmware, question, Index, PcrIndex, EventLog, out, runs>>
  BY DEF WriteFileFromBuffer
<1>2. /\ TypeOK /\ FinalIsTheRest /\ LogIsOfItsFormat /\ Course /\ OutSoFar /\ SavedAndParsed
      /\ ExpectedIsPcr
  BY DEF IInv
<1>3. EventLog \in Seq(Events) /\ Len(EventLog) \in Nat
  BY <1>2 DEF TypeOK
<1>4. /\ file' \in [entries : Seq(Events), cut : BOOLEAN]
      /\ written' # NULL => file' = [entries |-> written', cut |-> FALSE]
  <2>1. CASE file' = Whole(BufferSize) /\ written' = EventLog
    <3>1. file' = [entries |-> EventLog, cut |-> FALSE]
      BY <1>3, <2>1, SubSeqFull DEF Whole, BufferSize
    <3> QED
      BY <1>3, <2>1, <3>1
  <2>2. CASE UNCHANGED file /\ written' = NULL
    BY <1>2, <2>2 DEF TypeOK
  <2>3. CASE \E n \in 0 .. Len(EventLog) - 1 :
               file' = [Whole(n) EXCEPT !.cut = TRUE] /\ written' = NULL
    <3>1. PICK n \in 0 .. Len(EventLog) - 1 :
               file' = [Whole(n) EXCEPT !.cut = TRUE] /\ written' = NULL
      BY <2>3
    <3>2. file' = [entries |-> SubSeq(EventLog, 1, n), cut |-> TRUE]
      BY <3>1 DEF Whole
    <3>3. n \in 0 .. Len(EventLog)
      BY <1>3
    <3>4. SubSeq(EventLog, 1, n) \in Seq(Events)
      BY <1>2, <3>3, PartTyped
    <3> DEFINE part == SubSeq(EventLog, 1, n)
    <3>5. file' = [entries |-> part, cut |-> TRUE] /\ part \in Seq(Events)
      BY <3>2, <3>4
    <3> HIDE DEF part
    <3>6. file' \in [entries : Seq(Events), cut : BOOLEAN]
      BY <3>5
    <3> QED
      BY <3>1, <3>6
  <2> QED
    BY <2>1, <2>2, <2>3 DEF WriteFileFromBuffer
<1>5. TypeOK'
  BY <1>1, <1>2, <1>4 DEF TypeOK, firmware
<1>6. FinalIsTheRest'
  BY <1>1, <1>2 DEF FinalIsTheRest, firmware
<1>7. LogIsOfItsFormat'
  <2>1. \A format : UNCHANGED <<Log(format), Truncated(format)>>
    BY <1>1 DEF Log, Held, Truncated, Logged, firmware
  <2> QED
    BY <1>1, <1>2, <2>1 DEF LogIsOfItsFormat
<1>8. Course' /\ OutSoFar'
  <2>1. UNCHANGED <<Quiet, AllEvents(question.I)>>
    BY <1>1 DEF Quiet, AllEvents, Selected, firmware
  <2> QED
    BY <1>1, <1>2, <2>1, ZenonT(60) DEF Course, OutSoFar, Ordinary
<1>9. SavedAndParsed'
  BY <1>1, <1>4 DEF SavedAndParsed
<1>10. ExpectedIsPcr'
  BY <1>1, <1>2 DEF ExpectedIsPcr, Pcr, firmware
<1> QED
  BY <1>5, <1>6, <1>7, <1>8, <1>9, <1>10 DEF IInv

(* A dump puts out fair lines only, behind the warning where one is due.    *)
LEMMA DumpStep ==
  ASSUME IInv, pc \in {"dump", "all"}, UNCHANGED firmware,
         out' = out \o DumpEventLog(Formats[Index], PcrIndex)
  PROVE  /\ Index \in 1 .. 2 /\ out' \in Seq(OutLines) /\ ExpectedIsPcr'
         /\ ToSet(out) \subseteq ToSet(out')
         /\ Quiet' => Quiet
         /\ Quiet /\ out = <<>> /\ ~question.E /\ Index = 2 => out' = AllEvents(PcrIndex)
<1> DEFINE format == Formats[Index]
           lines == DumpEventLog(format, PcrIndex)
<1>1. /\ TypeOK /\ FinalIsTheRest /\ LogIsOfItsFormat /\ ExpectedIsPcr /\ PcrIndex \in Int
  BY DEF IInv, TypeOK
<1>2. /\ Index \in 1 .. 2 /\ EventLog = Log(format)
      /\ Truncated(format) => Warning(format) \in ToSet(out)
      /\ format \in Range(Formats) /\ (Index = 2 => format = "TCG_2")
  BY <1>1 DEF LogIsOfItsFormat, Formats, Range
<1> HIDE DEF format
<1>3. Reads(format)
  BY <1>1, <1>2 DEF Reads
<1>4. /\ lines \in Seq(OutLines) /\ \A line \in ToSet(lines) : Fair(line, format)
      /\ ~question.E /\ format = "TCG_2" /\ ~Truncated(format) => lines = AllEvents(PcrIndex)
  BY <1>1, <1>3, DumpEventLogLines
<1>5. out' = out \o lines
  BY DEF format
<1> HIDE DEF lines
<1>6. \A line \in ToSet(lines) : Right(line) \/ Warning(line.format) \in ToSet(out)
  BY <1>2, <1>4 DEF Fair
<1>7. out' \in Seq(OutLines) /\ ExpectedIsPcr' /\ ToSet(out) \subseteq ToSet(out')
  BY <1>1, <1>4, <1>5, <1>6, OutGrows DEF firmware
<1>8. Quiet' => Quiet
  BY <1>7 DEF Quiet, ToSet
<1>9. Quiet => ~Truncated(format)
  <2> SUFFICES ASSUME Truncated(format) PROVE ~Quiet
    OBVIOUS
  <2>1. \E i \in DOMAIN out : out[i] = Warning(format)
    BY <1>2 DEF ToSet
  <2> QED
    BY <2>1 DEF Quiet, Warning
<1>10. out = <<>> => out' = lines
  BY <1>4, <1>5, ConcatEmptySeq
<1> QED
  BY <1>2, <1>4, <1>7, <1>8, <1>9, <1>10

LEMMA DumpOneStep == IInv /\ DumpOne => IInv'
<1> SUFFICES ASSUME IInv, DumpOne PROVE IInv'
  OBVIOUS
<1>1. /\ pc = "dump"
      /\ out' = out \o DumpEventLog(Formats[Index], PcrIndex)
      /\ Index' = Index + 1 /\ pc' = "format"
      /\ UNCHANGED <<firmware, file, written, question, PcrIndex, EventLog, runs>>
  BY DEF DumpOne
<1>2. TypeOK /\ FinalIsTheRest /\ LogIsOfItsFormat /\ Course /\ OutSoFar /\ SavedAndParsed
  BY DEF IInv
<1>3. /\ Index \in 1 .. 2 /\ out' \in Seq(OutLines) /\ ExpectedIsPcr'
      /\ Quiet' => Quiet
      /\ Quiet /\ out = <<>> /\ ~question.E /\ Index = 2 => out' = AllEvents(PcrIndex)
  BY <1>1, DumpStep
<1>4. /\ Formats[1] = "TCG_1_2" /\ Formats[2] = "TCG_2" /\ Len(Formats) = 2
      /\ Formats[Index] \in question.L
  BY <1>1, <1>2 DEF LogIsOfItsFormat, Formats
<1>5. TypeOK'
  BY <1>1, <1>2, <1>3, <1>4 DEF TypeOK, firmware
<1>6. FinalIsTheRest'
  BY <1>1, <1>2 DEF FinalIsTheRest, firmware
<1>7. LogIsOfItsFormat'
  BY <1>1 DEF LogIsOfItsFormat
<1>8. Course'
  BY <1>1, <1>2, <1>3 DEF Course, Ordinary
<1>9. OutSoFar'
  <2> SUFFICES ASSUME Ordinary, question.L = {"TCG_2"}, ~question.E, Quiet
               PROVE  Index' = 3 /\ out' = AllEvents(question.I)
    <3>1. UNCHANGED <<question, AllEvents(question.I), Ordinary>>
      BY <1>1 DEF AllEvents, Selected, Ordinary, firmware
    <3> QED
      BY <1>1, <1>3, <1>4, <3>1 DEF OutSoFar
  <2>1. Index = 2
    BY <1>3, <1>4
  <2>2. out = <<>> /\ PcrIndex = question.I
    BY <1>1, <1>2, <1>4, <2>1 DEF OutSoFar, Course
  <2> QED
    BY <1>1, <1>3, <2>1, <2>2
<1>10. SavedAndParsed'
  BY <1>1, <1>2 DEF SavedAndParsed
<1> QED
  BY <1>3, <1>5, <1>6, <1>7, <1>8, <1>9, <1>10 DEF IInv

LEMMA DumpAllStep == IInv /\ DumpAll => IInv'
<1> SUFFICES ASSUME IInv, DumpAll PROVE IInv'
  OBVIOUS
<1>1. UNCHANGED <<firmware, file, written, question, EventLog, runs>> /\ pc \in {"dump", "all"}
  BY DEF DumpAll
<1>2. /\ TypeOK /\ FinalIsTheRest /\ LogIsOfItsFormat /\ Course /\ SavedAndParsed
      /\ ExpectedIsPcr
  BY DEF IInv
<1>3. /\ Index \in 1 .. 2 /\ Len(Formats) = 2 /\ PcrIndex \in Int
      /\ Formats[Index] \in question.L /\ EventLog = Log(Formats[Index])
      /\ Truncated(Formats[Index]) => Warning(Formats[Index]) \in ToSet(out)
  BY <1>1, <1>2 DEF LogIsOfItsFormat, Formats, TypeOK
<1>4. FinalIsTheRest'
  BY <1>1, <1>2 DEF FinalIsTheRest, firmware
<1>5. \A format : UNCHANGED <<Log(format), Truncated(format)>>
  BY <1>1 DEF Log, Held, Truncated, Logged, firmware
<1>6. question.E /\ Ordinary
  BY <1>1, <1>2 DEF DumpAll, Course
<1>7. Ordinary' /\ OutSoFar'
  BY <1>1, <1>6 DEF OutSoFar, Ordinary
<1>8. CASE /\ pc = "dump" /\ question.E /\ PcrIndex = PCR_INDEX_ALL
           /\ pc' = "all" /\ PcrIndex' = 0 /\ UNCHANGED <<out, Index>>
  <2>1. TypeOK'
    BY <1>1, <1>2, <1>8 DEF TypeOK, firmware
  <2>2. LogIsOfItsFormat'
    BY <1>1, <1>2, <1>5, <1>8 DEF LogIsOfItsFormat
  <2>3. Course'
    BY <1>1, <1>2, <1>7, <1>8 DEF Course, PCR_INDEX_ALL
  <2>4. SavedAndParsed'
    BY <1>1, <1>2, <1>8 DEF SavedAndParsed
  <2>5. ExpectedIsPcr'
    BY <1>1, <1>2, <1>8 DEF ExpectedIsPcr, Pcr, firmware
  <2> QED
    BY <1>4, <1>7, <2>1, <2>2, <2>3, <2>4, <2>5 DEF IInv
<1>9. CASE /\ pc = "all" /\ PcrIndex <= MAX_PCR_INDEX
           /\ out' = out \o DumpEventLog(Formats[Index], PcrIndex)
           /\ PcrIndex' = PcrIndex + 1 /\ UNCHANGED <<pc, Index>>
  <2>1. out' \in Seq(OutLines) /\ ExpectedIsPcr' /\ ToSet(out) \subseteq ToSet(out')
    BY <1>1, <1>9, DumpStep
  <2>2. TypeOK'
    BY <1>1, <1>2, <1>3, <1>9, <2>1 DEF TypeOK, firmware
  <2>3. LogIsOfItsFormat'
    BY <1>1, <1>2, <1>3, <1>5, <1>9, <2>1 DEF LogIsOfItsFormat
  <2>4. Course'
    BY <1>1, <1>2, <1>3, <1>6, <1>7, <1>9 DEF Course
  <2>5. SavedAndParsed'
    BY <1>1, <1>2, <1>9 DEF SavedAndParsed
  <2> QED
    BY <1>4, <1>7, <2>1, <2>2, <2>3, <2>4, <2>5 DEF IInv
<1>10. CASE /\ pc = "all" /\ PcrIndex > MAX_PCR_INDEX
            /\ pc' = "format" /\ Index' = Index + 1 /\ UNCHANGED <<out, PcrIndex>>
  <2>1. TypeOK'
    BY <1>1, <1>2, <1>3, <1>10 DEF TypeOK, firmware
  <2>2. LogIsOfItsFormat'
    BY <1>10 DEF LogIsOfItsFormat
  <2>3. Course'
    BY <1>1, <1>2, <1>7, <1>10 DEF Course
  <2>4. SavedAndParsed'
    BY <1>1, <1>2, <1>10 DEF SavedAndParsed
  <2>5. ExpectedIsPcr'
    BY <1>1, <1>2, <1>10 DEF ExpectedIsPcr, Pcr, firmware
  <2> QED
    BY <1>4, <1>7, <2>1, <2>2, <2>3, <2>4, <2>5 DEF IInv
<1> QED
  BY <1>8, <1>9, <1>10 DEF DumpAll

LEMMA ExitStep == IInv /\ Exit => IInv'
<1> SUFFICES ASSUME IInv, Exit PROVE IInv'
  OBVIOUS
<1>1. /\ pc' = "shell" /\ Index' = 1 /\ PcrIndex' = PCR_INDEX_ALL
      /\ EventLog' = <<>> /\ out' = <<>> /\ UNCHANGED <<firmware, file, written>>
  BY DEF Exit
<1>2. TypeOK /\ FinalIsTheRest /\ SavedAndParsed
  BY DEF IInv
<1>3. TypeOK'
  <2>1. PCR_INDEX_ALL \in Int /\ 1 \in 1 .. Len(Formats) + 1
    BY DEF PCR_INDEX_ALL, Formats
  <2> QED
    BY <1>1, <1>2, <2>1, EmptySeq DEF TypeOK, firmware
<1>4. FinalIsTheRest'
  BY <1>1, <1>2 DEF FinalIsTheRest, firmware
<1>5. LogIsOfItsFormat' /\ Course' /\ OutSoFar' /\ ExpectedIsPcr'
  BY <1>1 DEF LogIsOfItsFormat, Course, OutSoFar, ExpectedIsPcr
<1>6. SavedAndParsed'
  BY <1>1, <1>2 DEF SavedAndParsed
<1> QED
  BY <1>3, <1>4, <1>5, <1>6 DEF IInv

(***************************************************************************)
(* The invariant, and what follows from it                                 *)
(***************************************************************************)

LEMMA Initially == Init => IInv
<1> SUFFICES ASSUME Init PROVE IInv
  OBVIOUS
<1>1. TypeOK
  <2>1. PCR_INDEX_ALL \in Int /\ 1 \in 1 .. Len(Formats) + 1
    BY DEF PCR_INDEX_ALL, Formats
  <2> QED
    BY <2>1, RoomsAssumption, EmptySeq DEF Init, TypeOK, Empty
<1>2. FinalIsTheRest
  <2>1. Len(measured) = 0 /\ SubSeq(measured, 1, 0) = <<>>
    BY SubSeqEmpty DEF Init
  <2>2. 0 \in 0 .. 0 /\ 0 + 1 = 1 /\ 1 .. 0 = {}
    OBVIOUS
  <2> QED
    BY <2>1, <2>2 DEF FinalIsTheRest, Init
<1>3. LogIsOfItsFormat /\ Course /\ OutSoFar /\ SavedAndParsed /\ ExpectedIsPcr
  BY DEF Init, LogIsOfItsFormat, Course, OutSoFar, SavedAndParsed, ExpectedIsPcr
<1> QED
  BY <1>1, <1>2, <1>3 DEF IInv

LEMMA Stutter == IInv /\ UNCHANGED vars => IInv'
<1> SUFFICES ASSUME IInv, UNCHANGED vars PROVE IInv'
  OBVIOUS
<1>1. UNCHANGED <<measured, GetEventLogCalled, final, installed, room, file, written, pc, question, Index, PcrIndex,
                  EventLog, out, runs>>
  BY DEF vars, firmware, app
<1>2. /\ TypeOK /\ FinalIsTheRest /\ LogIsOfItsFormat /\ Course /\ OutSoFar /\ SavedAndParsed
      /\ ExpectedIsPcr
  BY DEF IInv
<1>3. TypeOK' /\ FinalIsTheRest' /\ SavedAndParsed'
  BY <1>1, <1>2, ZenonT(60) DEF TypeOK, FinalIsTheRest, SavedAndParsed, ParseLines
<1>4. LogIsOfItsFormat' /\ ExpectedIsPcr'
  <2>1. \A format : UNCHANGED <<Log(format), Truncated(format)>>
    BY <1>1 DEF Log, Held, Truncated, Logged
  <2> QED
    BY <1>1, <1>2, <2>1 DEF LogIsOfItsFormat, ExpectedIsPcr, Pcr
<1>5. OutSoFar' /\ Course'
  <2>1. UNCHANGED <<Quiet, AllEvents(question.I)>>
    BY <1>1 DEF Quiet, AllEvents, Selected
  <2> QED
    BY <1>1, <1>2, <2>1 DEF OutSoFar, Course, Ordinary
<1> QED
  BY <1>3, <1>4, <1>5 DEF IInv

(* IInv holds in every state.                                               *)
THEOREM Invariance == Spec => []IInv
<1>1. IInv /\ [Next]_vars => IInv'
  BY MeasureStep, ResetStep, UefiMainStep, NextFormatStep, GetEventLogStep, GetEventLogFailsStep,
     WriteStep, DumpOneStep, DumpAllStep, ExitStep, Stutter DEF Next
<1> QED
  BY Initially, <1>1, PTL DEF Spec

(* UefiMain with -E: DumpExpected computes what the TPM has in its PCRs, or  *)
(* the EventLogTruncated of GetEventLog has been told before.               *)
THEOREM ExpectedIsInThePcr == Spec => []ExpectedIsPcr
<1>1. IInv => ExpectedIsPcr
  BY DEF IInv
<1> QED
  BY <1>1, Invariance, PTL

(* The lines of a full dump of the TCG 2 log.                               *)
LEMMA AllEventsPrinted ==
  ASSUME IInv, out = AllEvents(question.I)
  PROVE  Numbers(Lines("event")) = <<0>> \o Numbers(Selected(measured, question.I))
<1> DEFINE entries == Selected(measured, question.I)
           n == Len(entries)
           rest == [i \in DOMAIN entries |-> DumpEvent(entries[i])]
           d == DumpEvent(SpecIdEvent)
           first == <<d>>
<1>1. entries \in Seq(Events) /\ n \in Nat /\ DOMAIN entries = 1 .. n
      /\ \A i \in 1 .. n : entries[i] \in Events
  <2>1. measured \in Seq(Events)
    BY DEF IInv, TypeOK
  <2>2. entries \in Seq(Events)
    BY <2>1, SelectedTyped
  <2> HIDE DEF entries
  <2> QED
    BY <2>2
<1>2. out = first \o rest /\ out \in Seq(OutLines)
  BY DEF AllEvents, IInv, TypeOK
<1> HIDE DEF entries
<1>3. rest \in Seq(OutLines) /\ ToSet(rest) \subseteq EventLine
  BY <1>1, EventLinesTyped
<1>4. Len(rest) = n /\ \A i \in 1 .. n : rest[i].n = entries[i].n
  <2>1. rest = [i \in 1 .. n |-> DumpEvent(entries[i])]
    BY <1>1
  <2>2. \A i \in 1 .. n : DumpEvent(entries[i]).n = entries[i].n
    BY <1>1, DumpEventTyped
  <2> HIDE DEF rest, n
  <2>3. \A i \in 1 .. n : rest[i] = DumpEvent(entries[i])
    BY <2>1
  <2>4. Len(rest) = n
    BY <1>1, <1>3, <2>1
  <2> QED
    BY <2>2, <2>3, <2>4
<1>5. d \in EventLine /\ d \in OutLines /\ d.n = 0
  <2>1. SpecIdEvent.n = 0
    BY DEF SpecIdEvent
  <2> QED
    BY <2>1, SpecIdIsEvent, DumpEventTyped
<1> HIDE DEF d, rest, n
<1>6. /\ first \in Seq(OutLines) /\ ToSet(first) = {d}
      /\ Len(first) = 1 /\ first[1] = d
  BY <1>5, SingleMembers
<1> HIDE DEF first
<1>7. /\ ToSet(out) \subseteq EventLine
      /\ Len(out) = 1 + n
      /\ \A i \in 1 .. 1 + n : out[i] = IF i <= 1 THEN first[i] ELSE rest[i - 1]
  <2>1. ToSet(out) = ToSet(first) \cup ToSet(rest)
    BY <1>2, <1>3, <1>6, ConcatMembers
  <2>2. /\ Len(out) = Len(first) + Len(rest)
        /\ \A i \in 1 .. Len(first) + Len(rest) :
             out[i] = IF i <= Len(first) THEN first[i] ELSE rest[i - Len(first)]
    <3>1. first \in Seq(OutLines) /\ rest \in Seq(OutLines) /\ out = first \o rest
      BY <1>2, <1>3, <1>6
    <3> QED
      BY ONLY <3>1, ConcatProperties
  <2>3. ToSet(out) \subseteq EventLine
    BY <1>3, <1>5, <1>6, <2>1
  <2> QED
    BY <1>4, <1>6, <2>2, <2>3
<1>8. Lines("event") = out
  <2> DEFINE Keep == {line \in ToSet(out) : line.what = "event"}
  <2>1. ToSet(out) = {out[i] : i \in 1 .. Len(out)}
    BY <1>2, MembersOfSeq
  <2>2. \A i \in 1 .. Len(out) : out[i] \in ToSet(out) /\ out[i] \in EventLine
    BY <1>7, <2>1
  <2>3. \A i \in 1 .. Len(out) : out[i] \in Keep
    BY <2>2 DEF EventLine
  <2> HIDE DEF Keep
  <2>4. Where(out, Keep) = out
    BY <1>2, <2>3, WhereAll
  <2> QED
    BY <2>4 DEF Lines, Keep
<1> DEFINE v == Numbers(out)
           m == Numbers(entries)
           z == <<0>>
           w == z \o m
<1>9. v = [i \in 1 .. 1 + n |-> out[i].n]
  <2>1. DOMAIN out = 1 .. Len(out)
    BY <1>2
  <2> QED
    BY <1>7, <2>1 DEF Numbers
<1>10. m \in Seq(Int) /\ Len(m) = n /\ \A i \in 1 .. n : m[i] = entries[i].n
  BY <1>1, NumbersTyped DEF Digests, n
<1> HIDE DEF v, m
<1>11. /\ w \in Seq(Int) /\ Len(w) = 1 + n
       /\ \A i \in 1 .. 1 + n : w[i] = IF i <= 1 THEN z[i] ELSE m[i - 1]
  <2>1. z \in Seq(Int) /\ Len(z) = 1
    OBVIOUS
  <2> HIDE DEF z
  <2>2. /\ w \in Seq(Int) /\ Len(w) = Len(z) + Len(m)
        /\ \A i \in 1 .. Len(z) + Len(m) : w[i] = IF i <= Len(z) THEN z[i] ELSE m[i - Len(z)]
    BY <1>10, <2>1, ConcatProperties
  <2> HIDE DEF w
  <2> QED
    BY <1>10, <2>1, <2>2
<1>12. ASSUME NEW i \in 1 .. 1 + n
       PROVE  out[i].n = w[i]
  <2>1. CASE i = 1
    <3>1. out[i] = d /\ w[i] = 0
      BY <1>1, <1>6, <1>7, <1>11, <2>1 DEF n
    <3> QED
      BY <1>5, <3>1
  <2>2. CASE i # 1
    <3>1. i - 1 \in 1 .. n /\ ~(i <= 1)
      BY <1>1, <2>2 DEF n
    <3>2. out[i] = rest[i - 1] /\ w[i] = m[i - 1]
      BY <1>7, <1>11, <3>1
    <3> QED
      BY <1>4, <1>10, <3>1, <3>2
  <2> QED
    BY <2>1, <2>2
<1> HIDE DEF w
<1>13. w = [i \in 1 .. 1 + n |-> w[i]]
  BY <1>11
<1>14. v = w
  BY <1>9, <1>12, <1>13
<1> QED
  BY <1>8, <1>14 DEF v, w, z, m, entries

(* DumpEventLog of the TCG 2 log prints every event of the PCR, once,       *)
(* unless GetEventLog failed or told of a cut log, which the user sees.     *)
THEOREM EventsArePrintedOnce == Spec => []EveryEventOnce
<1>1. IInv => EveryEventOnce
  <2> SUFFICES ASSUME IInv, pc = "done" /\ ~question.E /\ ~question.PARSE /\ ~question.A
                              /\ ~question.C /\ question.L = {"TCG_2"} /\ Quiet
               PROVE  Numbers(Lines("event")) = <<0>> \o Numbers(Selected(measured, question.I))
    BY DEF EveryEventOnce
  <2>1. Index = Len(Formats) + 1 /\ Len(Formats) = 2
    BY DEF IInv, Course, Ordinary, Formats
  <2>2. out = AllEvents(question.I)
    BY <2>1 DEF IInv, OutSoFar, Ordinary
  <2> QED
    BY <2>2, AllEventsPrinted
<1> QED
  BY <1>1, Invariance, PTL

(* -PARSE prints what a -BIN that reported success has written.             *)
THEOREM ParsePrintsTheLog == Spec => []ParsePrintsWhatWasSaved
<1>1. IInv => ParsePrintsWhatWasSaved
  <2> SUFFICES ASSUME IInv, pc = "done" /\ question.PARSE /\ ~question.A
                              /\ question.I <= MAX_PCR_INDEX /\ written # NULL
               PROVE  out = [i \in DOMAIN written |-> DumpEvent(written[i])]
    BY DEF ParsePrintsWhatWasSaved
  <2> DEFINE read == [i \in DOMAIN written |-> DumpEvent(written[i])]
  <2>1. file.entries = written /\ file.cut = FALSE /\ out = ParseLines /\ TypeOK
    BY DEF IInv, SavedAndParsed
  <2>2. out = read \o <<>>
    BY <2>1 DEF ParseLines
  <2>3. written \in Seq(Events)
    BY <2>1 DEF TypeOK
  <2>4. read \in Seq(OutLines)
    BY <2>3, EventLinesTyped
  <2> HIDE DEF read
  <2>5. read \o <<>> = read
    BY <2>4, ConcatEmptySeq
  <2> QED
    BY <2>2, <2>5 DEF read
<1> QED
  BY <1>1, Invariance, PTL
=============================================================================
