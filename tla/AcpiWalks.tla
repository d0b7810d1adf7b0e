------------------------------ MODULE AcpiWalks ------------------------------
(***************************************************************************)
(* The DumpAcpi libraries of tables with sub-structures: each library      *)
(* walks its table with a cursor and, most of them, with what is left of   *)
(* the table, and hands each structure to the function that prints its     *)
(* type.  Structures contain structures, or point at tables elsewhere.     *)
(*                                                                         *)
(* A loop of the code is a record on a stack, the innermost first.  One    *)
(* step is one iteration: it prints a structure, moves the cursor and      *)
(* starts the loops over what the structure contains.                      *)
(***************************************************************************)
EXTENDS Integers, Sequences, AcpiStructures, AcpiLayout

CONSTANTS
  Tables,   \* [sign, Length, mem, published, ...]: a table, the memory it lies in (from the
            \* addresses of structures, the table being at 0, to their fields), and what the
            \* firmware has put there, as a sequence of [by, at]
  Behind    \* what is read as a structure where the firmware has not put one

(* The libraries check nothing: the tables are well-formed.                  *)
ASSUME LayoutAssumption ==
  /\ \A t \in Tables : TableLaid(t)
  /\ ReadsAsOne(Behind)

VARIABLES
  table,
  GetAcpiDumpPropertyDumpVerb,   \* -v
  stack,     \* the loops that are running: [loop, at, rest, TableLen]
  dumped     \* the output: which function printed what is where

call == <<table, GetAcpiDumpPropertyDumpVerb>>
walkVars == <<call, stack, dumped>>

StructureAt(address) == IF address \in DOMAIN table.mem THEN table.mem[address] ELSE Behind

Loop(name, at, rest) == <<[loop |-> name, at |-> at, rest |-> rest, TableLen |-> 0]>>
NonNull(name, at) == IF at = 0 THEN <<>> ELSE Loop(name, at, 1)

(* The tables whose loop counts bytes, and those whose loop counts          *)
(* structures; in front of the first structure is a C structure of this     *)
(* size.                                                                    *)
ByLength == [APIC |-> 44, SRAT |-> 48, DMAR |-> 48, NFIT |-> 40, FPDT |-> 36,
             PMTT |-> 40, LPIT |-> 36, CPEP |-> 44, MCFG |-> 44]
ByCount  == [HEST |-> 40, WDAT |-> 68, ERST |-> 48, EINJ |-> 48, MPST |-> 44]

(* Mutant: only clients have a log.                                         *)
TcpaLog_Client(t) ==
  IF t.Lasa # 0 /\ (t.Revision < 2 \/ t.PlatformClass = "client")
  THEN Loop("TCPA", t.Lasa, t.Laml) ELSE <<>>

(* A table of revision 2 is one of a client or one of a server.             *)
TcpaLog(t) ==
  IF t.Lasa # 0 /\ (t.Revision < 2 \/ t.PlatformClass \in {"client", "server"})
  THEN Loop("TCPA", t.Lasa, t.Laml) ELSE <<>>

Start(t) ==
  CASE t.sign \in DOMAIN ByLength -> Loop(t.sign, ByLength[t.sign], t.Length - ByLength[t.sign])
    [] t.sign \in DOMAIN ByCount  -> Loop(t.sign, ByCount[t.sign], t.count)
    [] t.sign = "DBG2"            -> Loop("DBG2", t.OffsetDbgDeviceInfo, t.count)
    [] t.sign = "MSCT"            -> Loop("MSCT", t.OffsetProxDomInfo, t.Maximum + 1)
    [] t.sign = "ASF!"            -> Loop("ASF!", 36, 1)
    [] t.sign = "IBFT"            -> Loop("IBFT", 48, 1)
    [] t.sign = "TCPA"            -> TcpaLog(t)

(* The call of a library's function; without -v it prints no structure.     *)
WalkInit ==
  /\ table \in Tables
  /\ GetAcpiDumpPropertyDumpVerb \in BOOLEAN
  /\ stack = IF GetAcpiDumpPropertyDumpVerb THEN Start(table) ELSE <<>>
  /\ dumped = <<>>

In(loop) == stack # <<>> /\ Head(stack).loop = loop /\ Head(stack).rest > 0

Cursor == Head(stack).at
Here == StructureAt(Cursor)

(* One iteration: print, move the cursor on by step and what is left down   *)
(* by less, and run the loops of what was printed.                          *)
Iterate(lines, step, less, inner, TableLen) ==
  /\ dumped' = dumped \o [i \in DOMAIN lines |->
                            [by |-> lines[i].by, at |-> Cursor, reach |-> lines[i].reach]]
  /\ stack' = inner \o <<[loop |-> Head(stack).loop, at |-> Cursor + step,
                         rest |-> Head(stack).rest - less, TableLen |-> TableLen]>>
                    \o Tail(stack)
  /\ UNCHANGED call

(* The usual iterations: over structures with a Length, and over an array.  *)
ByOwnLength(lines, inner) == Iterate(lines, Here.Length, Here.Length, inner, 0)
CountOwnLength(lines, inner) == Iterate(lines, Here.Length, 1, inner, 0)
Element(lines) == Iterate(lines, lines[1].reach, 1, <<>>, 0)

GicTypes == 11 .. 14

MadtLine(s) ==
  CASE s.Type = 0 -> DumpApicProcessorLocalApic
    [] s.Type = 1 -> DumpApicIOApic
    [] s.Type = 2 -> DumpApicInterruptSourceOverride
    [] s.Type = 3 -> DumpApicNonMaskableInterruptSource
    [] s.Type = 4 -> DumpApicLocalApicNMI
    [] s.Type = 5 -> DumpApicLocalApicAddressOverride
    [] s.Type = 6 -> DumpApicIOSapic
    [] s.Type = 7 -> DumpApicProcessorLocalSapic
    [] s.Type = 8 -> DumpApicPlatformInterruptSource
    [] s.Type = 9 -> DumpApicProcessorLocalX2Apic
    [] s.Type = 10 -> DumpApicLocalX2ApicNmi
    [] s.Type = 11 -> DumpApicGic(s)
    [] s.Type = 12 -> DumpApicGicDistributor
    [] s.Type = 13 -> DumpApicGicMsiFrame
    [] s.Type = 14 -> DumpApicGicRedistributor
    [] OTHER -> <<>>

(* Of the types before the GIC, what is left goes down by the size of the C *)
(* structure; of a type that is not known, by that of the structure before. *)
DumpAcpiMADT ==
  /\ In("APIC")
  /\ LET line == MadtLine(Here)
         TableLen == CASE Here.Type \in GicTypes -> Here.Length
                       [] line = <<>> -> Head(stack).TableLen
                       [] OTHER -> line[1].reach
     IN Iterate(line, Here.Length, TableLen, <<>>, TableLen)

SratLine(s) ==
  CASE s.Type = 0 -> DumpAcpiProcessorLocalApicSapicAffinity
    [] s.Type = 1 -> DumpAcpiMemoryAffinity
    [] OTHER -> <<>>

DumpAcpiSRAT ==
  /\ In("SRAT")
  /\ LET line == SratLine(Here)
         TableLen == IF line = <<>> THEN Head(stack).TableLen ELSE line[1].reach
     IN Iterate(line, Here.Length, TableLen, <<>>, TableLen)

HestLine(s) ==
  CASE s.Type = 0 -> DumpHestIa32MachineCheckException
    [] s.Type = 1 -> DumpHestIa32CorrectedMachineCheck
    [] s.Type = 2 -> DumpHestIa32NmiError
    [] s.Type = 6 -> DumpHestPcieRootPortAer
    [] s.Type = 7 -> DumpHestPcieDeviceAer
    [] s.Type = 8 -> DumpHestPcieBridgeAer
    [] s.Type = 9 -> DumpHestGenericHardwareError
    [] OTHER -> <<>>

(* There is no Length: the banks behind a machine check are counted.  A     *)
(* type that is not known ends the walk.                                    *)
DumpAcpiHEST ==
  /\ In("HEST")
  /\ LET line == HestLine(Here)
         size == line[1].reach
         banks == IF Here.Type \in {0, 1} THEN Here.n ELSE 0
     IN IF line = <<>>
        THEN stack' = <<>> /\ UNCHANGED <<call, dumped>>
        ELSE Iterate(line, size + banks * 28, 1, Loop("Banks", Cursor + size, banks), 0)

HestBank == In("Banks") /\ Element(DumpHestMachineCheckErrorBank)

DmarLine(s) ==
  CASE s.Type = 0 -> DumpDmarDrhd
    [] s.Type = 1 -> DumpDmarRmrr
    [] s.Type = 2 -> DumpDmarAtsr
    [] s.Type = 3 -> DumpDmarRhsa
    [] s.Type = 4 -> DumpDmarAndd(s)
    [] OTHER -> <<>>

DumpAcpiDMAR ==
  /\ In("DMAR")
  /\ LET line == DmarLine(Here)
         size == line[1].reach
     IN ByOwnLength(line, IF Here.Type \in {0, 1, 2}
                          THEN Loop("Scopes", Cursor + size, Here.Length - size) ELSE <<>>)

(* The loops of DumpDmarDrhd, DumpDmarRmrr and DumpDmarAtsr.                 *)
DmarScope == In("Scopes") /\ ByOwnLength(DumpDmarDeviceScopeEntry(Here), <<>>)

NfitLine(s) ==
  CASE s.Type = 0 -> DumpNfitSystemPhysicalAddressRangeStruct
    [] s.Type = 1 -> DumpNfitMemoryDeviceToSystemPhysicalAddressRangeMappingStruct
    [] s.Type = 2 -> DumpNfitInterleaveStruct(s)
    [] s.Type = 3 -> DumpNfitSMBIOSManagementInformationStruct(s)
    [] s.Type = 4 -> DumpNfitNVDIMMControlRegionStruct
    [] s.Type = 5 -> DumpNfitNVDIMMBlockDataWindowRegionStruct
    [] s.Type = 6 -> DumpNfitFlushHintAddressStruct(s)
    [] OTHER -> <<>>

DumpAcpiNFIT == In("NFIT") /\ ByOwnLength(NfitLine(Here), <<>>)

AsfLine(s) ==
  CASE s.Type = 0 -> DumpAsfInfo
    [] s.Type = 1 -> DumpAsfAlert(s)
    [] s.Type = 2 -> DumpAsfRctl(s)
    [] s.Type = 3 -> DumpAsfRmcp
    [] s.Type = 4 -> DumpAsfAddr(s)
    [] OTHER -> <<>>

(* Nothing but a bit in the last record ends the walk.                       *)
DumpAcpiASFT ==
  /\ In("ASF!")
  /\ Iterate(AsfLine(Here), Here.Length, IF Here.IsLastRecord THEN 1 ELSE 0, <<>>, 0)

(* A pointer may be NULL.  A record of another type has only its header      *)
(* printed.                                                                  *)
DumpAcpiFPDT ==
  /\ In("FPDT")
  /\ CASE Here.Type = 0 -> ByOwnLength(DumpFpdtBootPerformanceTablePointer,
                                       NonNull("BootTable", Here.Pointer))
       [] Here.Type = 1 -> ByOwnLength(DumpFpdtS3PerformanceTablePointer,
                                       NonNull("S3Table", Here.Pointer))
       [] OTHER -> ByOwnLength(DumpFpdtRecordHeader, <<>>)

FpdtBootTable ==
  /\ In("BootTable")
  /\ CountOwnLength(DumpFpdtBasicBootTable, Loop("BootRecords", Cursor + 8, Here.Length - 8))

FpdtBootRecord ==
  /\ In("BootRecords")
  /\ ByOwnLength(IF Here.Type = 2 THEN DumpFpdtBasicBootData ELSE DumpFpdtRecordHeader, <<>>)

FpdtS3Table ==
  /\ In("S3Table")
  /\ CountOwnLength(DumpFpdtS3BootTable, Loop("S3Records", Cursor + 8, Here.Length - 8))

FpdtS3Record ==
  /\ In("S3Records")
  /\ ByOwnLength(CASE Here.Type = 0 -> DumpFpdtS3PerformanceTableS3Resume
                   [] Here.Type = 1 -> DumpFpdtS3PerformanceTableS3Suspend
                   [] OTHER -> DumpFpdtRecordHeader, <<>>)

(* The control structure has the offsets of all others.                      *)
DumpAcpiIBFT ==
  /\ In("IBFT")
  /\ CountOwnLength(DumpIbftControlStruct(Here),
                    NonNull("Initiator", Here.InitiatorOffset)
                      \o Loop("NicTarget", Cursor + 10, NicTargetCount(Here))
                      \o NonNull("Extensions", Here.Extensions))

IbftNicTarget ==
  /\ In("NicTarget")
  /\ Iterate(<<>>, 4, 1, NonNull("Nic", Here.NICOffset) \o NonNull("Target", Here.TargetOffset), 0)

IbftPointed ==
  \/ In("Initiator") /\ Element(DumpIbftInitiatorStruct)
  \/ In("Nic") /\ Element(DumpIbftNicStruct)
  \/ In("Target") /\ Element(DumpIbftTargetStruct)
  \/ In("Extensions") /\ Element(DumpIbftExtensionsStruct)

(* PMTT: a socket contains controllers, a controller DIMMs, behind the       *)
(* numbers of its proximity domains; all three may stand for themselves.     *)
Controllers(at, socket) == Loop("Controllers", at + 12, socket.Length - 12)

(* Mutant: what is left is not reduced by the proximity domains.             *)
Dimms_Left(at, controller) ==
  Loop("Domains", at + 32, controller.n)
    \o Loop("Dimms", at + 32 + 4 * controller.n, controller.Length - 32)

Dimms(at, controller) ==
  Loop("Domains", at + 32, controller.n)
    \o Loop("Dimms", at + 32 + 4 * controller.n, controller.Length - 32 - 4 * controller.n)

PmttSocketOrPart(s) ==
  CASE s.Type = 0 -> [line |-> DumpPmttSocket, inner |-> Controllers(Cursor, s)]
    [] s.Type = 1 -> [line |-> DumpPmttMemoryController, inner |-> Dimms(Cursor, s)]
    [] s.Type = 2 -> [line |-> DumpPmttDimm, inner |-> <<>>]
    [] OTHER -> [line |-> <<>>, inner |-> <<>>]

(* The cursor is moved first: what is left goes down by the Length of the    *)
(* next structure.                                                           *)
DumpAcpiPMTT ==
  /\ In("PMTT")
  /\ LET s == PmttSocketOrPart(Here) IN
       Iterate(s.line, Here.Length, StructureAt(Cursor + Here.Length).Length, s.inner, 0)

PmttController ==
  In("Controllers") /\ ByOwnLength(DumpPmttMemoryController, Dimms(Cursor, Here))

(* The pointer to the number stays where it is.                              *)
PmttProximityDomain == In("Domains") /\ Iterate(ProximityDomain, 0, 1, <<>>, 0)

PmttDimm == In("Dimms") /\ ByOwnLength(DumpPmttDimm, <<>>)

(* As in PMTT.                                                               *)
DumpAcpiLPIT ==
  /\ In("LPIT")
  /\ Iterate(IF Here.Type = 0 THEN DumpNativeCStateLpiStateStructure ELSE <<>>,
             Here.Length, StructureAt(Cursor + Here.Length).Length, <<>>, 0)

DumpAcpiDBG2 == In("DBG2") /\ CountOwnLength(DumpDbg2DeviceInfoStruct(Here), <<>>)

DumpAcpiMPST == In("MPST") /\ CountOwnLength(DumpMemoryPowerNode(Here), <<>>)

(* The second part of the table is where the walk over the nodes ends.       *)
MpstCharacteristics ==
  /\ stack # <<>> /\ Head(stack).loop = "MPST" /\ Head(stack).rest = 0
  /\ stack' = Loop("Characteristics", Cursor + 4, Here.count)
  /\ UNCHANGED <<call, dumped>>

MpstCharacteristic == In("Characteristics") /\ Element(DumpMemoryPowerStateCharacteristic)

DumpAcpiWDAT == In("WDAT") /\ Element(DumpAcpiWdatActionTable)
DumpAcpiERST == In("ERST") /\ Element(DumpErstInstructionEntry)
DumpAcpiEINJ == In("EINJ") /\ Element(DumpEinjInstructionEntry)
DumpAcpiMSCT == In("MSCT") /\ CountOwnLength(DumpAcpiMaximumProximityDomainInformation, <<>>)
DumpAcpiCPEP == In("CPEP") /\ Iterate(DumpAcpiCpepStruct, 8, 8, <<>>, 0)
DumpAcpiMCFG == In("MCFG") /\ Iterate(DumpAcpiMemoryMappedConfigurationBaseAddressAllocation, 16, 16, <<>>, 0)

(* DumpTcpaPcrEvent: an event of revision 1 has a version and a digest with  *)
(* a length; the spare space behind the last event is told by its version or *)
(* by its PCR, where that is 0xFFFFFFFF.                                     *)
IsSpare(s) == s.PCRIndex = "none" \/ (table.Revision < 2 /\ (s.major # 1 \/ s.minor = 0))

TcpaEventSize(s) ==
  IF IsSpare(s) THEN 0
  ELSE IF table.Revision < 2 THEN 12 + (4 + s.PCRValueLen) + (4 + s.EventSize)
                             ELSE 28 + (4 + s.EventSize)

TcpaEventLine(s) == Prints("TcpaPcrEvent", TcpaEventSize(s))

DumpAcpiTCPA ==
  /\ In("TCPA")
  /\ LET size == TcpaEventSize(Here) IN
       IF size = 0
       THEN stack' = Tail(stack) /\ UNCHANGED <<call, dumped>>
       ELSE Iterate(TcpaEventLine(Here), size, size, <<>>, 0)

Return ==
  /\ stack # <<>> /\ Head(stack).rest <= 0 /\ Head(stack).loop # "MPST"
  /\ stack' = Tail(stack)
  /\ UNCHANGED <<call, dumped>>

WalkNext ==
  \/ DumpAcpiMADT \/ DumpAcpiSRAT
  \/ DumpAcpiHEST \/ HestBank
  \/ DumpAcpiDMAR \/ DmarScope
  \/ DumpAcpiNFIT \/ DumpAcpiASFT
  \/ DumpAcpiFPDT \/ FpdtBootTable \/ FpdtBootRecord \/ FpdtS3Table \/ FpdtS3Record
  \/ DumpAcpiIBFT \/ IbftNicTarget \/ IbftPointed
  \/ DumpAcpiPMTT \/ PmttController \/ PmttProximityDomain \/ PmttDimm
  \/ DumpAcpiLPIT \/ DumpAcpiDBG2
  \/ DumpAcpiMPST \/ MpstCharacteristics \/ MpstCharacteristic
  \/ DumpAcpiWDAT \/ DumpAcpiERST \/ DumpAcpiEINJ
  \/ DumpAcpiMSCT \/ DumpAcpiCPEP \/ DumpAcpiMCFG
  \/ DumpAcpiTCPA
  \/ Return

(* One thread runs the tool, and nothing in a walk waits.                    *)
WalkSpec == WalkInit /\ [][WalkNext]_walkVars /\ WF_walkVars(WalkNext)

(***************************************************************************)
(* Properties                                                              *)
(***************************************************************************)

StructuresThere == IF GetAcpiDumpPropertyDumpVerb THEN table.published ELSE <<>>
StructuresPrinted == [i \in DOMAIN dumped |-> [by |-> dumped[i].by, at |-> dumped[i].at]]
Expected == WrittenFor(table, Behind)

(* DumpAcpi<sign>, for the tables that the libraries were written for: each  *)
(* structure that the firmware has put into the table, inside of others and  *)
(* behind pointers too, is printed once, in order and by the function of its *)
(* type; nothing is taken for a structure that is none, and the walk ends.   *)
Promise == INSTANCE StructureWalk WITH
  published <- IF Expected THEN StructuresThere ELSE <<>>,
  printed <- IF Expected THEN StructuresPrinted ELSE <<>>

PrintsWhatIsThere == Promise!Spec

(* No function prints fields behind the end of the structure it is given,    *)
(* which those that look at Length, counts and offsets have to see to.       *)
ReadsItsStructure ==
  Expected =>
    \A i \in DOMAIN dumped :
      dumped[i].reach <= StructureAt(dumped[i].at).extent

Inner == {"Scopes", "Controllers", "Dimms", "BootRecords", "S3Records"}

(* Cursor and rest of the loop over a table that counts bytes agree about    *)
(* where the table ends, which for MADT and SRAT is so up to a structure     *)
(* that the library does not know.  The loops that subtract the Length of    *)
(* the next structure are ahead by that of the first one and behind by that  *)
(* of the next, whatever the lengths.  The log of TCPA is elsewhere.         *)
EndsWithTable(loop, at, rest) ==
  /\ loop \in DOMAIN ByLength \ (ByType \cup Late) => at + rest = table.Length
  /\ loop \in ByType /\ (\A a \in DOMAIN table.mem : a < at => Known(loop, table.mem[a])) =>
       at + rest = table.Length
  /\ loop \in Late =>
       at + rest + StructureAt(at).Length = table.Length + StructureAt(ByLength[loop]).Length
  /\ loop = "TCPA" => at + rest = table.Lasa + table.Laml

(* Cursor and rest of every loop that counts bytes agree: together they make *)
(* the end of the table or, of an inner loop, that of the structure around   *)
(* it, which is where the cursor of the loop around it already is.           *)
InStep ==
  \A i \in DOMAIN stack :
    /\ EndsWithTable(stack[i].loop, stack[i].at, stack[i].rest)
    /\ stack[i].loop \in Inner => stack[i].at + stack[i].rest = stack[i + 1].at
=============================================================================
