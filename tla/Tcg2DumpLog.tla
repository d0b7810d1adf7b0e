----------------------------- MODULE Tcg2DumpLog -----------------------------
(***************************************************************************)
(* Tcg2DumpLog prints the event log of the TPM, computes from it what the  *)
(* PCRs have to hold (-E), and saves it (-BIN) for a later run to print    *)
(* (-PARSE).  The firmware measures in between: an event extends its PCR   *)
(* in the banks of the digests it comes with, and is logged, for readers   *)
(* of the TCG 2 log in the final events table once the log was asked for.  *)
(* A log that is full is cut, which GetEventLog tells.                     *)
(*                                                                         *)
(* A digest is the sequence of the events that were extended, an event is  *)
(* told by its place among all events, and an entry of a log is one unit   *)
(* of the memory it lies in.                                               *)
(***************************************************************************)
EXTENDS Integers, SequencesExt, Sublists

CONSTANTS
  MAX_PCR_INDEX,
  EventKinds,  \* [EventType, digests]
  Banks,       \* the banks of the TPM, with their algorithms
  Questions,   \* the command lines
  Roots,       \* what RSDT and XSDT may be: NULL, or lists of tables
  Rooms,       \* how many events the area of a log may have room for
  NULL,
  MaxMeasured, MaxRuns   \* bounds

Formats == <<"TCG_1_2", "TCG_2">>   \* mTcg2EventInfo
mHashInfo == {"SHA1", "SHA256"}
PCR_INDEX_ALL == -1
Pcrs == 0 .. MAX_PCR_INDEX

ASSUME BoundsAssumption == MAX_PCR_INDEX \in Nat /\ MaxMeasured \in Nat /\ MaxRuns \in Nat

ASSUME TpmAssumption == IsFiniteSet(Banks) /\ Banks # {}

ASSUME KindsAssumption == \A kind \in EventKinds : kind.digests \subseteq Banks

ASSUME QuestionsAssumption ==
  Questions \subseteq [I : Int, L : SUBSET Range(Formats), E : BOOLEAN, BIN : BOOLEAN,
                      PARSE : BOOLEAN, A : BOOLEAN, C : BOOLEAN]

ASSUME RootsAssumption == \A root \in Roots : root # NULL => root \in Seq(Range(root))

ASSUME RoomsAssumption == Rooms \subseteq Nat

VARIABLES
  measured,    \* every event of this boot
  GetEventLogCalled,
  final,       \* the final events table
  installed,   \* whether the firmware has one
  room,        \* of the area of a log
  file,        \* the file of -BIN and -PARSE
  written,     \* what it was asked to write
  pc, question, Index, PcrIndex,
  EventLog,    \* what GetEventLog has returned
  out, runs

firmware == <<measured, GetEventLogCalled, final, installed, room>>
app == <<pc, question, Index, PcrIndex, EventLog, out, runs>>
vars == <<firmware, file, written, app>>

(***************************************************************************)
(* The firmware                                                            *)
(***************************************************************************)

Algorithms(event) == event.digests
Extends(event, pcr) == event.PCRIndex = pcr /\ event.EventType # "EV_NO_ACTION"

Extending(events, pcr, bank) ==
  Where(events, {e \in ToSet(events) : Extends(e, pcr) /\ bank \in Algorithms(e)})

Numbers(lines) == [i \in DOMAIN lines |-> lines[i].n]

(* What the TPM holds.                                                      *)
Pcr(pcr, bank) == Numbers(Extending(measured, pcr, bank))

(* The first entry of the TCG 2 log says what is in the others.             *)
SpecIdEvent == [PCRIndex |-> 0, EventType |-> "EV_NO_ACTION", digests |-> Banks, n |-> 0]

Logged(format) ==
  CASE format = "TCG_1_2" -> Where(measured, {e \in ToSet(measured) : "SHA1" \in Algorithms(e)})
    [] format = "TCG_2" -> Remaining(measured, ToSet(final))

(* EventLogTruncated: there were more events than the area has room for.    *)
Truncated(format) == Len(Logged(format)) > room

Held(format) == IF Truncated(format) THEN SubSeq(Logged(format), 1, room) ELSE Logged(format)

Log(format) == IF format = "TCG_2" THEN <<SpecIdEvent>> \o Held(format) ELSE Held(format)

Measure ==
  /\ pc = "shell"
  /\ Len(measured) < MaxMeasured
  /\ \E p \in Pcrs, kind \in EventKinds :
       LET event == [PCRIndex |-> p, EventType |-> kind.EventType, digests |-> kind.digests,
                     n |-> Len(measured) + 1]
       IN /\ measured' = Append(measured, event)
          /\ final' = IF installed /\ "TCG_2" \in GetEventLogCalled
                      THEN Append(final, event) ELSE final
  /\ UNCHANGED <<GetEventLogCalled, installed, room, file, written, app>>

(***************************************************************************)
(* The application: what it reads and prints                               *)
(***************************************************************************)

(* Mutant: the entry that EventLogLastEntry points at is left out.          *)
Entries_Before(format) == SubSeq(EventLog, IF format = "TCG_2" THEN 2 ELSE 1, Len(EventLog) - 1)

(* The walk up to EventLogLastEntry, behind the SpecId event.               *)
Entries(format) == SubSeq(EventLog, IF format = "TCG_2" THEN 2 ELSE 1, Len(EventLog))

(* Without a table, and in the other format, FinalEventsTable is NULL.      *)
FinalEventsTable(format) == IF format = "TCG_2" THEN final ELSE <<>>

Selected(entries, pcr) ==
  Where(entries, {e \in ToSet(entries) : pcr = PCR_INDEX_ALL \/ e.PCRIndex = pcr})

(* An entry with all its digests, and its data by its type.                 *)
ParseEventData(event) == event.n
DumpEvent(event) == [what |-> "event", pcr |-> event.PCRIndex, n |-> ParseEventData(event)]
DumpEvent2(event) == DumpEvent(event)

DumpLog(format, pcr) ==
  LET first == IF format = "TCG_2" THEN <<DumpEvent(Head(EventLog))>> ELSE <<>>
      line(e) == IF format = "TCG_2" THEN DumpEvent2(e) ELSE DumpEvent(e)
      entries == Selected(Entries(format) \o FinalEventsTable(format), pcr)
  IN first \o [i \in DOMAIN entries |-> line(entries[i])]

(* 0xFF..FF is the digest of a bank the application can not compute.        *)
AllOnes == <<-1>>

(* The digest that extending it by one event after the other leaves.        *)
ExtendEvent(algorithm, events) ==
  IF algorithm \in mHashInfo \/ events = <<>> THEN Numbers(events) ELSE AllOnes

(* Mutant: every event of the PCR counts.                                   *)
Expected_NoAction(format, pcr, algorithm) ==
  LET events == Entries(format) \o FinalEventsTable(format)
  IN  ExtendEvent(algorithm,
        Where(events, {e \in ToSet(events) : e.PCRIndex = pcr /\ algorithm \in Algorithms(e)}))

Expected(format, pcr, algorithm) ==
  ExtendEvent(algorithm, Extending(Entries(format) \o FinalEventsTable(format), pcr, algorithm))

(* A bank that the TPM does not have prints nothing.                        *)
DumpPcr(pcr, algorithm) ==
  IF pcr \in Pcrs /\ algorithm \in Banks
  THEN <<[what |-> "pcr", pcr |-> pcr, algorithm |-> algorithm, digest |-> Pcr(pcr, algorithm)]>>
  ELSE <<>>

DumpExpected(format, pcr) ==
  LET algorithms == IF format = "TCG_2" THEN SetToSeq(Banks) ELSE <<"SHA1">>
  IN FlattenSeq([i \in DOMAIN algorithms |->
       <<[what |-> "expected", format |-> format, pcr |-> pcr, algorithm |-> algorithms[i],
          digest |-> Expected(format, pcr, algorithms[i])]>> \o DumpPcr(pcr, algorithms[i])])

DumpEventLog(format, pcr) ==
  IF question.E THEN DumpExpected(format, pcr) ELSE DumpLog(format, pcr)

(* DumpAcpiTableWithSign: the XSDT, or the RSDT where there is none.        *)
Tpm2Tables(RSDT, XSDT) ==
  LET tables == CASE XSDT # NULL -> XSDT
                  [] XSDT = NULL /\ RSDT # NULL -> RSDT
                  [] OTHER -> <<>>
  IN Where(tables, {"TPM2"})

DumpAcpiTPM2(RSDT, XSDT) == [i \in DOMAIN Tpm2Tables(RSDT, XSDT) |-> [what |-> "TPM2"]]
DumpTcg2Capability == <<[what |-> "capability"]>>

(***************************************************************************)
(* The application: its run                                                *)
(***************************************************************************)

(* No file, or one with less than an entry in it: nothing will be read.     *)
Empty == [entries |-> <<>>, cut |-> TRUE]

Init ==
  /\ measured = <<>> /\ GetEventLogCalled = {} /\ final = <<>>
  /\ installed \in BOOLEAN /\ room \in Rooms
  /\ file = Empty /\ written = NULL
  /\ pc = "shell" /\ question = NULL
  /\ Index = 1 /\ PcrIndex = PCR_INDEX_ALL /\ EventLog = <<>> /\ out = <<>>
  /\ runs = 0

Error == [what |-> "ERROR"]
Warning(format) == [what |-> "WARNING", format |-> format]   \* EventLogTruncated

Unread == <<[what |-> "unread"]>>   \* the buffer that ReadFileToBuffer has not set

(* What -PARSE prints of a file: all that is in it, and what lies behind    *)
(* where an entry is cut.                                                   *)
ParseLines ==
  [i \in DOMAIN file.entries |-> DumpEvent(file.entries[i])]
    \o (IF file.cut THEN Unread ELSE <<>>)

(* What ends the run before the first log: -A, a PCR the TPM does not have, *)
(* -PARSE, no TCG 2 protocol or no answer from its GetCapability, -C.       *)
EarlyOutputs(q) ==
  IF q.A THEN {DumpAcpiTPM2(RSDT, XSDT) : RSDT \in Roots, XSDT \in Roots}
  ELSE IF q.I > MAX_PCR_INDEX THEN {<<Error>>}
  ELSE IF q.PARSE THEN {ParseLines}
  ELSE {<<Error>>} \cup (IF q.C THEN {DumpTcg2Capability} ELSE {})

ReadsLogs(q) == ~q.A /\ q.I <= MAX_PCR_INDEX /\ ~q.PARSE /\ ~q.C

UefiMain ==
  /\ pc = "shell" /\ runs < MaxRuns
  /\ \E q \in Questions :
       /\ question' = q
       /\ PcrIndex' = q.I
       /\ \/ pc' = "done" /\ out' \in EarlyOutputs(q)
          \/ ReadsLogs(q) /\ pc' = "format" /\ out' = <<>>
  /\ UNCHANGED <<firmware, file, written, Index, EventLog, runs>>

NextFormat ==
  /\ pc = "format"
  /\ \/ Index <= Len(Formats) /\ Formats[Index] \notin question.L
        /\ Index' = Index + 1 /\ UNCHANGED pc
     \/ Index > Len(Formats) /\ pc' = "done" /\ UNCHANGED Index
  /\ UNCHANGED <<firmware, file, written, question, PcrIndex, EventLog, out, runs>>

(* A log that was cut is warned of, and then taken as the others are.       *)
GetEventLog ==
  /\ pc = "format" /\ Index <= Len(Formats)
  /\ LET format == Formats[Index] IN
       /\ format \in question.L
       /\ GetEventLogCalled' = GetEventLogCalled \cup {format}
       /\ EventLog' = Log(format)
       /\ out' = IF Truncated(format) THEN Append(out, Warning(format)) ELSE out
       /\ pc' = IF question.BIN /\ format = "TCG_2" THEN "write" ELSE "dump"
  /\ UNCHANGED <<measured, final, installed, room, file, written, question, Index, PcrIndex, runs>>

(* GetEventLog may not know the format, or fail: on with the next.          *)
GetEventLogFails ==
  /\ pc = "format" /\ Index <= Len(Formats) /\ Formats[Index] \in question.L
  /\ out' = Append(out, Error)
  /\ Index' = Index + 1
  /\ UNCHANGED <<firmware, file, written, pc, question, PcrIndex, EventLog, runs>>

(* Mutant: the size of the last entry is not added.                         *)
BufferSize_Last == Len(EventLog) - 1

BufferSize == Len(EventLog)

Whole(n) == [entries |-> SubSeq(EventLog, 1, n), cut |-> FALSE]

(* The file is cut to nothing, then written; either may fail, and what was  *)
(* written before the volume was full stays.                                *)
WriteFileFromBuffer ==
  /\ pc = "write"
  /\ \/ file' = Whole(BufferSize) /\ written' = EventLog
     \/ UNCHANGED file /\ written' = NULL
     \/ \E n \in 0 .. Len(EventLog) - 1 :
          file' = [Whole(n) EXCEPT !.cut = TRUE] /\ written' = NULL
  /\ pc' = "dump"
  /\ UNCHANGED <<firmware, question, Index, PcrIndex, EventLog, out, runs>>

(* With -E and no PCR asked for, PcrIndex counts through all of them.       *)
DumpOne ==
  /\ pc = "dump" /\ ~(question.E /\ PcrIndex = PCR_INDEX_ALL)
  /\ out' = out \o DumpEventLog(Formats[Index], PcrIndex)
  /\ Index' = Index + 1 /\ pc' = "format"
  /\ UNCHANGED <<firmware, file, written, question, PcrIndex, EventLog, runs>>

DumpAll ==
  /\ \/ pc = "dump" /\ question.E /\ PcrIndex = PCR_INDEX_ALL
        /\ pc' = "all" /\ PcrIndex' = 0 /\ UNCHANGED <<out, Index>>
     \/ pc = "all" /\ PcrIndex <= MAX_PCR_INDEX
        /\ out' = out \o DumpEventLog(Formats[Index], PcrIndex)
        /\ PcrIndex' = PcrIndex + 1 /\ UNCHANGED <<pc, Index>>
     \/ pc = "all" /\ PcrIndex > MAX_PCR_INDEX
        /\ pc' = "format" /\ Index' = Index + 1 /\ UNCHANGED <<out, PcrIndex>>
  /\ UNCHANGED <<firmware, file, written, question, EventLog, runs>>

Exit ==
  /\ pc = "done"
  /\ pc' = "shell" /\ runs' = runs + 1
  /\ question' = NULL /\ Index' = 1 /\ PcrIndex' = PCR_INDEX_ALL
  /\ EventLog' = <<>> /\ out' = <<>>
  /\ UNCHANGED <<firmware, file, written>>

(* Measurements and logs begin anew; the file stays.                        *)
Reset ==
  /\ pc = "shell" /\ runs > 0 /\ runs < MaxRuns
  /\ measured' = <<>> /\ GetEventLogCalled' = {} /\ final' = <<>>
  /\ UNCHANGED <<installed, room, file, written, app>>

Next ==
  \/ Measure \/ Reset
  \/ UefiMain \/ NextFormat \/ GetEventLog \/ GetEventLogFails \/ WriteFileFromBuffer
  \/ DumpOne \/ DumpAll \/ Exit

Spec == Init /\ [][Next]_vars

(***************************************************************************)
(* Properties                                                              *)
(***************************************************************************)

Lines(what) == Where(out, {line \in ToSet(out) : line.what = what})

(* -E: wherever an expected value is printed of a bank that the TPM has and *)
(* the application can compute, the PCR holds that value, however the       *)
(* measurements are spread over log and final events table, or the warning  *)
(* has been printed that this log was cut.                                  *)
ExpectedIsPcr ==
  \A i \in DOMAIN out :
    out[i].what = "expected" /\ out[i].algorithm \in mHashInfo \cap Banks /\ out[i].pcr \in Pcrs =>
      \/ out[i].digest = Pcr(out[i].pcr, out[i].algorithm)
      \/ \E j \in 1 .. i - 1 : out[j] = Warning(out[i].format)

(* No error and no warning was printed.                                     *)
Quiet == \A i \in DOMAIN out : out[i].what \notin {"ERROR", "WARNING"}

(* Dump of the TCG 2 log: every event of the PCR asked for that was measured *)
(* in this boot is printed, once, in the order of the measurements, before   *)
(* and after the log was asked for the first time, behind the SpecId event,  *)
(* unless an error or a warning was printed.                                 *)
EveryEventOnce ==
  pc = "done" /\ ~question.E /\ ~question.PARSE /\ ~question.A /\ ~question.C
    /\ question.L = {"TCG_2"} /\ Quiet =>
      Numbers(Lines("event")) = <<0>> \o Numbers(Selected(measured, question.I))

(* -PARSE prints the log that the last -BIN has saved, in a later boot too,  *)
(* unless that -BIN has reported an error.                                   *)
ParsePrintsWhatWasSaved ==
  pc = "done" /\ question.PARSE /\ ~question.A /\ question.I <= MAX_PCR_INDEX /\ written # NULL =>
    out = [i \in DOMAIN written |-> DumpEvent(written[i])]

Answered == {<<out[i].format, out[i].pcr>> : i \in {j \in DOMAIN out : out[j].what = "expected"}}

AskedPcrs == IF question.I = PCR_INDEX_ALL THEN Pcrs ELSE {question.I}

(* What PrintUsage says of -E, "Print expected PCR value", and of -I,        *)
(* "0-23|ALL": unless an error was printed, there is an expected value for   *)
(* every PCR that was asked for, from every log that was asked for.  False   *)
(* of the code: the count of the PCRs is left behind their number for the    *)
(* next log.                                                                 *)
EveryPcrAnswered ==
  pc = "done" /\ question.E /\ ~question.PARSE /\ ~question.A /\ ~question.C
    /\ Error \notin ToSet(out) =>
      question.L \X AskedPcrs \subseteq Answered

(***************************************************************************)
(* The inductive invariant behind the first three                          *)
(***************************************************************************)

Events ==
  [PCRIndex : Pcrs, EventType : {kind.EventType : kind \in EventKinds}, digests : SUBSET Banks,
   n : Nat] \cup {SpecIdEvent}

Digests == Seq(Int)
EventLine == [what : {"event"}, pcr : Nat, n : Nat]
PcrLine == [what : {"pcr"}, pcr : Pcrs, algorithm : Banks, digest : Digests]
ExpectedLine ==
  [what : {"expected"}, format : Range(Formats), pcr : Int, algorithm : Banks \cup {"SHA1"},
   digest : Digests]
WarningLine == [what : {"WARNING"}, format : Range(Formats)]
OtherLine == [what : {"TPM2", "capability", "unread", "ERROR"}]
OutLines == EventLine \cup PcrLine \cup ExpectedLine \cup WarningLine \cup OtherLine

TypeOK ==
  /\ installed \in BOOLEAN /\ room \in Nat
  /\ measured \in Seq(Events) /\ final \in Seq(Events) /\ EventLog \in Seq(Events)
  /\ file \in [entries : Seq(Events), cut : BOOLEAN]
  /\ pc \in {"shell", "format", "write", "dump", "all", "done"}
  /\ pc # "shell" => question \in Questions
  /\ Index \in 1 .. Len(Formats) + 1 /\ PcrIndex \in Int
  /\ out \in Seq(OutLines)

(* The final events are those of the last measurements, and no measurement  *)
(* is another one.                                                          *)
FinalIsTheRest ==
  /\ \A i \in 1 .. Len(measured) : measured[i].n = i
  /\ ~(installed /\ "TCG_2" \in GetEventLogCalled) => final = <<>>
  /\ \E k \in 0 .. Len(measured) : final = SubSeq(measured, k + 1, Len(measured))

LogIsOfItsFormat ==
  pc \in {"write", "dump", "all"} =>
    /\ Index \in 1 .. Len(Formats) /\ Formats[Index] \in question.L
    /\ EventLog = Log(Formats[Index])
    /\ Truncated(Formats[Index]) => Warning(Formats[Index]) \in ToSet(out)

Ordinary == ~question.PARSE /\ ~question.A /\ ~question.C

Course ==
  /\ pc = "shell" => out = <<>> /\ Index = 1
  /\ pc \notin {"shell", "done"} => Ordinary
  /\ pc = "all" => question.E /\ question.I = PCR_INDEX_ALL /\ PcrIndex >= 0
  /\ pc # "shell" => PcrIndex = question.I \/ (question.E /\ question.I = PCR_INDEX_ALL)
  /\ pc = "done" /\ Ordinary /\ Quiet => Index = Len(Formats) + 1

AllEvents(pcr) ==
  <<DumpEvent(SpecIdEvent)>>
    \o [i \in DOMAIN Selected(measured, pcr) |-> DumpEvent(Selected(measured, pcr)[i])]

OutSoFar ==
  pc # "shell" /\ Ordinary /\ question.L = {"TCG_2"} /\ ~question.E /\ Quiet =>
    out = IF Index <= Len(Formats) THEN <<>> ELSE AllEvents(question.I)

SavedAndParsed ==
  /\ written # NULL => file = [entries |-> written, cut |-> FALSE]
  /\ pc = "done" /\ question.PARSE /\ ~question.A /\ question.I <= MAX_PCR_INDEX =>
       out = ParseLines

IInv ==
  /\ TypeOK /\ FinalIsTheRest /\ LogIsOfItsFormat /\ Course /\ OutSoFar /\ SavedAndParsed
  /\ ExpectedIsPcr
=============================================================================
