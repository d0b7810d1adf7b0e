------------------------------- MODULE VtdDump -------------------------------
(***************************************************************************)
(* VtdDump: which PCI device belongs to which VT-d unit, according to the  *)
(* DMAR table and a scan of the buses, and whether each page that a unit   *)
(* lets a device reach is one that the firmware has mapped for it, in an   *)
(* RMRR, or of a device that is excepted.  "Check PASS" or "Check FAIL"    *)
(* is the verdict.                                                         *)
(*                                                                         *)
(* A PCI function is <<segment, bus, device, function>>, its source        *)
(* identifier in a segment <<bus, device, function>>; addresses count      *)
(* pages of 4 KB.                                                          *)
(***************************************************************************)
EXTENDS Integers, FiniteSets, SequencesExt, Sublists

CONSTANTS
  Platforms,   \* [acpi, pci, iommu, maps, exceptions, tables]: what the firmware has set up
  MAX_VTD_PCI_DATA_NUMBER,
  VTD_ROOT_ENTRY_NUMBER,
  NULL

VARIABLES
  platform,
  pc,
  gMaps,
  mAcpiDmarTable,        \* its structures, in order
  mVtdUnitInformation,
  VtdIndex,
  at,                    \* the structure, exception or root entry that a loop has come to
  scopes,                \* the device scopes that ProcessDhrd still has to look at
  scan,                  \* the buses that ScanPciBus is in the middle of, the innermost first
  parsed,                \* what ParseDmarAcpiTableDrhd returned
  gRmrrRecord,
  gExceptionRecord,
  mHasError,
  outOfMemory            \* history: a record, or a place for one, could not be allocated

IsSequence(s) == s \in Seq(Range(s))

(* Structures of the DMAR table; each unit has registers at its base.       *)
IsDmar(p, structures) ==
  /\ IsSequence(structures)
  /\ \A s \in Range(structures) :
       /\ s.Type = "DRHD" => s.base \in DOMAIN p.tables /\ IsSequence(s.scopes)
       /\ s.Type = "RMRR" => IsSequence(s.scopes) /\ s.Base \in Nat /\ s.Limit \in Nat

ASSUME PlatformAssumption ==
  /\ VTD_ROOT_ENTRY_NUMBER \in Nat
  /\ \A p \in Platforms :
       /\ DOMAIN p.pci \subseteq Nat \X Nat \X Nat \X Nat
       /\ \A u \in DOMAIN p.tables : \A b \in DOMAIN p.tables[u].root :
            /\ b \in 0 .. VTD_ROOT_ENTRY_NUMBER - 1
            /\ \A c \in DOMAIN p.tables[u].root[b].contexts :
                 /\ c \in Nat \X Nat
                 /\ \A page \in p.tables[u].root[b].contexts[c] : page.Address \in Nat
       /\ \A m \in p.maps : m.DeviceAddress \in Nat /\ m.NumberOfPages \in Nat
       /\ p.exceptions # NULL => IsSequence(p.exceptions)
       /\ p.acpi # NULL =>
            \A list \in {p.acpi.Xsdt, p.acpi.Rsdt} \ {NULL} : \A i \in DOMAIN list :
              /\ i \in Nat
              /\ list[i] # NULL /\ list[i].Signature = "DMAR" => IsDmar(p, list[i].structures)

(* All bits one asks for any device, all bits zero for none: an exception   *)
(* by identifiers asks for one.                                             *)
ASSUME PolicyAssumption ==
  \A p \in Platforms : p.exceptions # NULL =>
    \A k \in DOMAIN p.exceptions :
      p.exceptions[k].Type = "id" /\ (\A j \in 1 .. k : p.exceptions[j].Type # "end") =>
        /\ {p.exceptions[k].device, p.exceptions[k].subsystem} \cap {"zero", "ones"} = {}
        /\ p.exceptions[k].device # "any" \/ p.exceptions[k].subsystem # "any"

lists == <<gRmrrRecord, gExceptionRecord, outOfMemory>>
engines == <<mAcpiDmarTable, mVtdUnitInformation, parsed>>
loops == <<VtdIndex, at, scopes, scan>>
vars == <<platform, pc, gMaps, engines, loops, lists, mHasError>>

Init ==
  /\ platform \in Platforms
  /\ pc = "IoMmu"
  /\ gMaps = NULL
  /\ mAcpiDmarTable = NULL /\ mVtdUnitInformation = <<>> /\ parsed = "no"
  /\ VtdIndex = 0 /\ at = 1 /\ scopes = <<>> /\ scan = <<>>
  /\ gRmrrRecord = {} /\ gExceptionRecord = {} /\ outOfMemory = FALSE
  /\ mHasError = FALSE

(* A buffer is mapped to get at the list its mapping is put into.  Without  *)
(* the protocol, or where one of the calls fails, there is no list.         *)
DumpIoMmuMap ==
  /\ pc = "IoMmu"
  /\ gMaps' = IF platform.iommu = "works" THEN platform.maps ELSE NULL
  /\ pc' = "Acpi"
  /\ UNCHANGED <<platform, engines, loops, lists, mHasError>>

(***************************************************************************)
(* The DMAR table                                                          *)
(***************************************************************************)
ScanTable(entries) ==
  LET found == {i \in DOMAIN entries : entries[i] # NULL /\ entries[i].Signature = "DMAR"}
  IN IF found = {} THEN NULL ELSE entries[Min(found)].structures

(* XSDT where there is one, then RSDT.                                      *)
FindAcpiPtr(Rsdp) ==
  LET inXsdt == IF Rsdp.Revision >= 2 /\ Rsdp.Xsdt # NULL THEN ScanTable(Rsdp.Xsdt) ELSE NULL
  IN IF inXsdt = NULL /\ Rsdp.Rsdt # NULL THEN ScanTable(Rsdp.Rsdt) ELSE inXsdt

GetDmarAcpiTable ==
  /\ pc = "Acpi"
  /\ mAcpiDmarTable' = IF platform.acpi = NULL THEN NULL ELSE FindAcpiPtr(platform.acpi)
  /\ pc' = IF mAcpiDmarTable' = NULL THEN "Exceptions" ELSE "Engines"
  /\ UNCHANGED <<platform, gMaps, mVtdUnitInformation, parsed, loops, lists, mHasError>>

IsDrhd(structure) == structure.Type = "DRHD"
Drhds == Where(mAcpiDmarTable, {s \in Range(mAcpiDmarTable) : IsDrhd(s)})
GetVtdEngineNumber == Len(Drhds)

ZeroUnit == [base |-> NULL, Segment |-> 0, IncludeAllFlag |-> FALSE,
             PciDeviceData |-> <<>>, PciDeviceDataMaxNumber |-> 0]

(* A DMAR table without a DRHD, and a failing allocation, end in an ASSERT. *)
AllocateUnits ==
  /\ pc = "Engines"
  /\ \/ /\ pc' = "Assert"
        /\ UNCHANGED mVtdUnitInformation
     \/ /\ GetVtdEngineNumber > 0
        /\ mVtdUnitInformation' = [i \in 1 .. GetVtdEngineNumber |-> ZeroUnit]
        /\ pc' = "Drhd"
  /\ UNCHANGED <<platform, gMaps, mAcpiDmarTable, parsed, loops, lists, mHasError>>

(***************************************************************************)
(* PCI                                                                     *)
(***************************************************************************)
Exists(function) == function \in DOMAIN platform.pci

(* What is not there reads as ones.                                         *)
Secondary(function) == IF Exists(function) THEN platform.pci[function].secondary ELSE 255

IsBridge(function) == platform.pci[function].class = "bridge"

(* The other functions of a device are looked for where function 0 has the  *)
(* bit, or is not there.                                                    *)
FunctionsOn(Segment, Bus) ==
  {f \in DOMAIN platform.pci :
     /\ f[1] = Segment /\ f[2] = Bus
     /\ LET first == <<Segment, Bus, f[3], 0>>
        IN f[4] = 0 \/ ~Exists(first) \/ platform.pci[first].multiFunction}

(* The path goes from bridge to bridge; only PCI devices have one.          *)
GetPciBusDeviceFunction(Segment, scope) ==
  LET bus[i \in 1 .. Len(scope.path)] ==
        IF i = 1 THEN scope.StartBusNumber
        ELSE Secondary(<<Segment, bus[i - 1]>> \o scope.path[i - 1])
      last == IF scope.Type \in {"endpoint", "bridge"} THEN Len(scope.path) ELSE 1
  IN <<bus[last]>> \o scope.path[last]

(***************************************************************************)
(* RegisterPciDevice                                                       *)
(***************************************************************************)
GetPciDataIndex(index, Segment, source) ==
  IF Segment # mVtdUnitInformation[index].Segment THEN {}
  ELSE {i \in DOMAIN mVtdUnitInformation[index].PciDeviceData :
          mVtdUnitInformation[index].PciDeviceData[i].source = source}

(* Mutant: a unit that includes all takes the devices of the others too.    *)
OtherUnitHas_Never(index, Segment, source) == FALSE

OtherUnitHas(index, Segment, source) ==
  /\ mVtdUnitInformation[index].IncludeAllFlag
  /\ \E i \in 1 .. index - 1 : GetPciDataIndex(i, Segment, source) # {}

(* Only of PCI devices the identifiers are read, and of endpoints those of  *)
(* the subsystem.                                                           *)
PciDeviceId(function, DeviceType) ==
  IF DeviceType \notin {"endpoint", "bridge"} THEN [device |-> "zero", subsystem |-> "zero"]
  ELSE IF ~Exists(function) THEN [device |-> "ones", subsystem |-> "ones"]
  ELSE [device |-> platform.pci[function].id,
        subsystem |-> IF DeviceType = "endpoint" THEN platform.pci[function].subsystem ELSE "zero"]

Outcome(status, units) == [status |-> status, units |-> units]

(* The outcomes: more than one where the array of the unit has to grow.     *)
RegisterPciDevice(index, Segment, source, DeviceType, CheckExist) ==
  LET unit == mVtdUnitInformation[index]
      full == Len(unit.PciDeviceData) >= unit.PciDeviceDataMaxNumber
      device == [source |-> source, DeviceType |-> DeviceType,
                 id |-> PciDeviceId(<<Segment>> \o source, DeviceType)]
      grown == [unit EXCEPT !.PciDeviceData = Append(@, device),
                            !.PciDeviceDataMaxNumber = IF full THEN @ + MAX_VTD_PCI_DATA_NUMBER ELSE @]
      unchanged(status) == Outcome(status, mVtdUnitInformation)
  IN IF OtherUnitHas(index, Segment, source) THEN {unchanged("success")}
     ELSE IF GetPciDataIndex(index, Segment, source) # {}
     THEN {unchanged(IF CheckExist THEN "alreadyStarted" ELSE "success")}
     ELSE {Outcome("success", [mVtdUnitInformation EXCEPT ![index] = grown])}
            \cup (IF full THEN {unchanged("outOfResources")} ELSE {})

(***************************************************************************)
(* ParseDmarAcpiTableDrhd                                                  *)
(***************************************************************************)
Unit == mVtdUnitInformation[VtdIndex]

Frame(bus) == [Bus |-> bus, left |-> FunctionsOn(Unit.Segment, bus)]

EndOfDrhd(status) ==
  /\ parsed' = status
  /\ pc' = "Rmrr" /\ at' = 1 /\ scopes' = <<>> /\ scan' = <<>>

Abort == EndOfDrhd("error") /\ UNCHANGED <<mVtdUnitInformation, VtdIndex>>

(* The head of ProcessDhrd.                                                 *)
NextStructure ==
  /\ pc = "Drhd" /\ scan = <<>> /\ scopes = <<>> /\ at <= Len(mAcpiDmarTable)
  /\ at' = at + 1
  /\ LET s == mAcpiDmarTable[at] IN
       IF IsDrhd(s)
       THEN /\ VtdIndex' = VtdIndex + 1
            /\ mVtdUnitInformation' =
                 [mVtdUnitInformation EXCEPT ![VtdIndex'].base = s.base,
                                             ![VtdIndex'].Segment = s.Segment,
                                             ![VtdIndex'].IncludeAllFlag = s.includeAll]
            /\ scan' = IF s.includeAll
                       THEN <<[Bus |-> 0, left |-> FunctionsOn(s.Segment, 0)]>> ELSE <<>>
            /\ scopes' = s.scopes
       ELSE UNCHANGED <<VtdIndex, mVtdUnitInformation, scan, scopes>>
  /\ UNCHANGED <<platform, pc, gMaps, mAcpiDmarTable, parsed, lists, mHasError>>

(* By device, then by function.                                             *)
Before(f, g) == f[3] < g[3] \/ (f[3] = g[3] /\ f[4] < g[4])
NextOn(frame) == CHOOSE f \in frame.left : \A g \in frame.left \ {f} : Before(f, g)

(* The buses behind bridges are scanned, where they have a number.          *)
Enters(function) == IsBridge(function) /\ Secondary(function) # 0

(* One function found by ScanPciBus, and its callback.                      *)
ScanPciBus ==
  /\ pc = "Drhd" /\ scan # <<>> /\ Head(scan).left # {}
  /\ LET f == NextOn(Head(scan))
         DeviceType == IF IsBridge(f) THEN "bridge" ELSE "endpoint"
         behind == IF Enters(f) THEN <<Frame(Secondary(f))>> ELSE <<>>
     IN \E outcome \in RegisterPciDevice(VtdIndex, Unit.Segment, Tail(f), DeviceType, FALSE) :
          IF outcome.status # "success" THEN Abort
          ELSE /\ mVtdUnitInformation' = outcome.units
               /\ scan' = behind \o <<[Head(scan) EXCEPT !.left = @ \ {f}]>> \o Tail(scan)
               /\ UNCHANGED <<pc, parsed, at, scopes, VtdIndex>>
  /\ UNCHANGED <<platform, gMaps, mAcpiDmarTable, lists, mHasError>>

EndOfBus ==
  /\ pc = "Drhd" /\ scan # <<>> /\ Head(scan).left = {}
  /\ scan' = Tail(scan)
  /\ UNCHANGED <<platform, pc, gMaps, engines, VtdIndex, at, scopes, lists, mHasError>>

(* An iteration of the loop of ProcessDhrd.  Only PCI devices must not be   *)
(* there already, or without memory; behind a bridge its buses are scanned, *)
(* whatever their number.                                                   *)
ProcessScope ==
  /\ pc = "Drhd" /\ scan = <<>> /\ scopes # <<>>
  /\ LET scope == Head(scopes)
         source == GetPciBusDeviceFunction(Unit.Segment, scope)
     IN \E outcome \in RegisterPciDevice(VtdIndex, Unit.Segment, source, scope.Type, TRUE) :
       /\ outOfMemory' = (outOfMemory \/ outcome.status = "outOfResources")
       /\ IF outcome.status # "success" /\ scope.Type \in {"endpoint", "bridge"} THEN Abort
          ELSE /\ mVtdUnitInformation' = outcome.units
               /\ scopes' = Tail(scopes)
               /\ scan' = IF scope.Type = "bridge"
                          THEN <<Frame(Secondary(<<Unit.Segment>> \o source))>> ELSE <<>>
               /\ UNCHANGED <<pc, parsed, at, VtdIndex>>
  /\ UNCHANGED <<platform, gMaps, mAcpiDmarTable, gRmrrRecord, gExceptionRecord, mHasError>>

DrhdDone ==
  /\ pc = "Drhd" /\ scan = <<>> /\ scopes = <<>> /\ at > Len(mAcpiDmarTable)
  /\ EndOfDrhd("success")
  /\ UNCHANGED <<platform, gMaps, mAcpiDmarTable, mVtdUnitInformation, VtdIndex, lists, mHasError>>

(***************************************************************************)
(* RMRRs and exceptions                                                    *)
(***************************************************************************)
(* Each record is allocated, or silently left out.                          *)
InsertInto(list, found) ==
  \E kept \in SUBSET found :
    /\ list' = list \cup kept
    /\ outOfMemory' = (outOfMemory \/ kept # found)

Endpoints(s) ==
  LET others == {i \in DOMAIN s.scopes : s.scopes[i].Type # "endpoint"}
  IN IF others = {} THEN s.scopes ELSE SubSeq(s.scopes, 1, Min(others) - 1)

(* Mutant: the device of an RMRR is where its path begins.                  *)
RmrrRecords_Start(s) ==
  {[Segment |-> s.Segment, source |-> <<Endpoints(s)[i].StartBusNumber>> \o Endpoints(s)[i].path[1],
    Address |-> s.Base, Length |-> s.Limit + 1 - s.Base] : i \in DOMAIN Endpoints(s)}

RmrrRecords(s) ==
  {[Segment |-> s.Segment, source |-> GetPciBusDeviceFunction(s.Segment, Endpoints(s)[i]),
    Address |-> s.Base, Length |-> s.Limit + 1 - s.Base] : i \in DOMAIN Endpoints(s)}

(* A scope that is no endpoint ends the walk over all RMRRs.                *)
ProcessRmrr ==
  /\ pc = "Rmrr" /\ at <= Len(mAcpiDmarTable)
  /\ LET s == mAcpiDmarTable[at] IN
       IF s.Type # "RMRR"
       THEN at' = at + 1 /\ UNCHANGED <<pc, gRmrrRecord, outOfMemory>>
       ELSE /\ InsertInto(gRmrrRecord, RmrrRecords(s))
            /\ IF Endpoints(s) = s.scopes THEN at' = at + 1 /\ UNCHANGED pc
                                          ELSE at' = 1 /\ pc' = "Exceptions"
  /\ UNCHANGED <<platform, gMaps, engines, VtdIndex, scopes, scan, gExceptionRecord, mHasError>>

RmrrDone ==
  /\ pc = "Rmrr" /\ at > Len(mAcpiDmarTable)
  /\ pc' = "Exceptions" /\ at' = 1
  /\ UNCHANGED <<platform, gMaps, engines, VtdIndex, scopes, scan, lists, mHasError>>

Fits(pattern, id) == pattern = "any" \/ pattern = id

(* AddExceptionDevice: every registered device that fits.                   *)
AddExceptionDevice(entry) ==
  UNION {{[Segment |-> mVtdUnitInformation[i].Segment, source |-> mVtdUnitInformation[i].PciDeviceData[j].source]
            : j \in {j \in DOMAIN mVtdUnitInformation[i].PciDeviceData :
                       LET id == mVtdUnitInformation[i].PciDeviceData[j].id
                       IN Fits(entry.device, id.device) /\ Fits(entry.subsystem, id.subsystem)}}
         : i \in DOMAIN mVtdUnitInformation}

(* The path of an exception is taken to be one device long.                 *)
Excepts(entry) ==
  CASE entry.Type = "scope" -> {[Segment |-> entry.Segment, source |-> <<entry.StartBusNumber>> \o entry.path[1]]}
    [] entry.Type = "id" -> AddExceptionDevice(entry)
    [] OTHER -> {}

(* The policy protocol, or its list, may not be there.                      *)
ExceptionEntries == IF platform.exceptions = NULL THEN <<>> ELSE platform.exceptions
MoreExceptions == at <= Len(ExceptionEntries) /\ ExceptionEntries[at].Type # "end"

DumpExceptionRecord ==
  /\ pc = "Exceptions" /\ MoreExceptions
  /\ InsertInto(gExceptionRecord, Excepts(ExceptionEntries[at]))
  /\ at' = at + 1
  /\ UNCHANGED <<platform, pc, gMaps, engines, VtdIndex, scopes, scan, gRmrrRecord, mHasError>>

ExceptionsDone ==
  /\ pc = "Exceptions" /\ ~MoreExceptions
  /\ pc' = "Translation" /\ VtdIndex' = 1 /\ at' = 0
  /\ UNCHANGED <<platform, gMaps, engines, scopes, scan, lists, mHasError>>

(***************************************************************************)
(* DumpVtdTranslation                                                      *)
(***************************************************************************)
ExistInExceptionList(Segment, source) == [Segment |-> Segment, source |-> source] \in gExceptionRecord

(* As the code has it: no address is both.                                  *)
OutOfRange(address, base, length) == address < base /\ address >= base + length

ExistInRmrr(Segment, source, address) ==
  \E r \in gRmrrRecord :
    ~OutOfRange(address, r.Address, r.Length) /\ r.Segment = Segment /\ r.source = source

(* A handle whose location is not known stands for any device.              *)
ExistInIoMmuMap(Segment, source, address, access) ==
  \E m \in gMaps :
    /\ ~OutOfRange(address, m.DeviceAddress, m.NumberOfPages)
    /\ \E h \in m.handles :
         h.IoMmuAccess = access /\ (h.location = NULL \/ h.location = <<Segment>> \o source)

IsLive(page) == page.access # {}

(* CheckPtEntry goes on to the list of mappings.                            *)
AsksMap(Segment, source, page) ==
  /\ IsLive(page)
  /\ ~ExistInExceptionList(Segment, source)
  /\ ~ExistInRmrr(Segment, source, page.Address)

(* The end of CheckPtEntry: of a page of 2 MB an error is printed only.     *)
IsError(Segment, source, page) ==
  /\ page.Size = "4KB"
  /\ ~ExistInIoMmuMap(Segment, source, page.Address, page.access)

(* The context entries whose pages are walked; those in the upper half of   *)
(* an extended table are printed only.                                      *)
Walked(table, entry) ==
  {c \in DOMAIN entry.contexts : entry.Present /\ (table.Extended => c[1] < 16)}

(* One root entry, and all below it.                                        *)
DumpRootEntry ==
  /\ pc = "Translation" /\ VtdIndex <= Len(mVtdUnitInformation) /\ Unit.base # NULL
  /\ at < VTD_ROOT_ENTRY_NUMBER
  /\ at' = at + 1
  /\ LET table == platform.tables[Unit.base]
         contexts == IF at \in DOMAIN table.root THEN Walked(table, table.root[at]) ELSE {}
         asking == {a \in UNION {{c} \X table.root[at].contexts[c] : c \in contexts} :
                      AsksMap(Unit.Segment, <<at>> \o a[1], a[2])}
     IN IF asking # {} /\ gMaps = NULL
        THEN pc' = "Wild" /\ UNCHANGED mHasError
        ELSE /\ mHasError' = (mHasError \/ \E a \in asking : IsError(Unit.Segment, <<at>> \o a[1], a[2]))
             /\ UNCHANGED pc
  /\ UNCHANGED <<platform, gMaps, engines, VtdIndex, scopes, scan, lists>>

(* Mutant: the next table starts without error.                             *)
EndOfUnit_Clears ==
  /\ pc = "Translation" /\ VtdIndex <= Len(mVtdUnitInformation) /\ Unit.base # NULL
  /\ at = VTD_ROOT_ENTRY_NUMBER
  /\ VtdIndex' = VtdIndex + 1 /\ at' = 0
  /\ mHasError' = FALSE
  /\ UNCHANGED <<platform, pc, gMaps, engines, scopes, scan, lists>>

EndOfUnit ==
  /\ pc = "Translation" /\ VtdIndex <= Len(mVtdUnitInformation) /\ Unit.base # NULL
  /\ at = VTD_ROOT_ENTRY_NUMBER
  /\ VtdIndex' = VtdIndex + 1 /\ at' = 0
  /\ UNCHANGED <<platform, pc, gMaps, engines, scopes, scan, lists, mHasError>>

(* Units behind the one whose DRHD was given up have no address: the root   *)
(* table is read from the registers at address 0.                           *)
NoBase ==
  /\ pc = "Translation" /\ VtdIndex <= Len(mVtdUnitInformation) /\ Unit.base = NULL
  /\ pc' = "Wild"
  /\ UNCHANGED <<platform, gMaps, engines, loops, lists, mHasError>>

Verdict ==
  /\ pc = "Translation" /\ VtdIndex > Len(mVtdUnitInformation)
  /\ pc' = IF mHasError THEN "FAIL" ELSE "PASS"
  /\ UNCHANGED <<platform, gMaps, engines, loops, lists, mHasError>>

Next ==
  \/ DumpIoMmuMap \/ GetDmarAcpiTable \/ AllocateUnits
  \/ NextStructure \/ ScanPciBus \/ EndOfBus \/ ProcessScope \/ DrhdDone
  \/ ProcessRmrr \/ RmrrDone \/ DumpExceptionRecord \/ ExceptionsDone
  \/ DumpRootEntry \/ EndOfUnit \/ NoBase \/ Verdict

Spec == Init /\ [][Next]_vars

(***************************************************************************)
(* Properties                                                              *)
(***************************************************************************)

(* What is on a bus and behind its bridges: on the buses in the smallest    *)
(* set with this bus and those behind the bridges on its buses.             *)
Buses(Segment, Bus) ==
  LET numbers == {Bus} \cup {Secondary(f) : f \in DOMAIN platform.pci}
      closed == {B \in SUBSET numbers :
                   Bus \in B /\ \A b \in B : \A f \in FunctionsOn(Segment, b) :
                                  Enters(f) => Secondary(f) \in B}
  IN {b \in numbers : \A B \in closed : b \in B}

Below(Segment, Bus) == {Tail(f) : f \in UNION {FunctionsOn(Segment, b) : b \in Buses(Segment, Bus)}}

(* What the scopes of a DRHD name: devices, and all behind a bridge.        *)
Named(s) ==
  UNION {LET source == GetPciBusDeviceFunction(s.Segment, s.scopes[i])
         IN {source} \cup (IF s.scopes[i].Type = "bridge"
                           THEN Below(s.Segment, Secondary(<<s.Segment>> \o source)) ELSE {})
         : i \in DOMAIN s.scopes}

(* What a DRHD asks for, and what it gets: with INCLUDE_PCI_ALL not what one *)
(* before it asks for.                                                      *)
Given(s) == Named(s) \cup (IF s.includeAll THEN Below(s.Segment, 0) ELSE {})

Owned(i) ==
  LET earlier == {j \in 1 .. i - 1 : Drhds[j].Segment = Drhds[i].Segment}
  IN Given(Drhds[i]) \ (IF Drhds[i].includeAll THEN UNION {Given(Drhds[j]) : j \in earlier} ELSE {})

Sources(i) ==
  LET devices == mVtdUnitInformation[i].PciDeviceData
  IN {devices[j].source : j \in DOMAIN devices}

(* ParseDmarAcpiTableDrhd: once the table is parsed, and unless memory ran   *)
(* out, each unit has the devices that the table gives it, once each; a unit *)
(* with INCLUDE_PCI_ALL has all that the buses of its segment lead to and no *)
(* unit before it there has.                                                 *)
UnitsOwnTheirDevices ==
  parsed = "success" /\ ~outOfMemory =>
    \A i \in DOMAIN mVtdUnitInformation :
      /\ Sources(i) = Owned(i)
      /\ Cardinality(Sources(i)) = Len(mVtdUnitInformation[i].PciDeviceData)

(* The pages that the tables of the units let devices reach.                *)
Reach ==
  UNION {LET unit == mVtdUnitInformation[i]
             table == platform.tables[unit.base]
             of(b) == UNION {{[Segment |-> unit.Segment, source |-> <<b>> \o c, page |-> p,
                               upper |-> table.Extended /\ c[1] >= 16]
                                : p \in table.root[b].contexts[c]} : c \in DOMAIN table.root[b].contexts}
         IN UNION {of(b) : b \in {b \in DOMAIN table.root : table.root[b].Present}}
         : i \in {i \in DOMAIN mVtdUnitInformation : mVtdUnitInformation[i].base # NULL}}

SmallPages == {r \in Reach : r.page.Size = "4KB" /\ IsLive(r.page)}

(* What makes a page one that the device may reach, as the firmware means   *)
(* it, whatever VtdDump has recorded.                                       *)
Excepted(Segment, source) ==
  \E k \in DOMAIN ExceptionEntries :
    LET e == ExceptionEntries[k]
        f == <<Segment>> \o source
    IN /\ \A j \in 1 .. k : ExceptionEntries[j].Type # "end"
       /\ \/ /\ e.Type = "scope" /\ e.Segment = Segment
             /\ GetPciBusDeviceFunction(Segment, [Type |-> "endpoint", StartBusNumber |-> e.StartBusNumber,
                                                 path |-> e.path]) = source
          \/ /\ e.Type = "id" /\ Exists(f)
             /\ Fits(e.device, platform.pci[f].id) /\ Fits(e.subsystem, platform.pci[f].subsystem)

Structures == IF mAcpiDmarTable = NULL THEN <<>> ELSE mAcpiDmarTable
Reserved(Segment, source) ==
  {s \in ToSet(Structures) :
     /\ s.Type = "RMRR" /\ s.Segment = Segment
     /\ \E i \in DOMAIN s.scopes : GetPciBusDeviceFunction(Segment, s.scopes[i]) = source}

MappedFor(Segment, source) ==
  UNION {{[base |-> m.DeviceAddress, length |-> m.NumberOfPages, access |-> h.IoMmuAccess]
            : h \in {h \in m.handles : h.location \in {NULL, <<Segment>> \o source}}}
         : m \in platform.maps}

Covers(base, length, address) == base <= address /\ address < base + length

(* Of an exception only the first element of the path is read, and an RMRR  *)
(* whose scope is a bridge ends the walk over the RMRRs: the two properties *)
(* below speak of platforms without.                                        *)
Direct ==
  /\ \A k \in DOMAIN ExceptionEntries : ExceptionEntries[k].Type = "scope" => Len(ExceptionEntries[k].path) = 1
  /\ \A s \in ToSet(Structures) : s.Type = "RMRR" => Endpoints(s) = s.scopes

(* Where the policy excepts a device by its identifiers, AddExceptionDevice *)
(* has found it: some unit has it, with identifiers that fit.               *)
Found(Segment, source) ==
  LET f == <<Segment>> \o source
  IN \A k \in DOMAIN ExceptionEntries :
       LET e == ExceptionEntries[k]
       IN /\ e.Type = "id" /\ Exists(f)
          /\ Fits(e.device, platform.pci[f].id) /\ Fits(e.subsystem, platform.pci[f].subsystem)
          => \E i \in DOMAIN mVtdUnitInformation : \E j \in DOMAIN mVtdUnitInformation[i].PciDeviceData :
               LET device == mVtdUnitInformation[i].PciDeviceData[j]
               IN /\ mVtdUnitInformation[i].Segment = Segment /\ device.source = source
                  /\ Fits(e.device, device.id.device) /\ Fits(e.subsystem, device.id.subsystem)

(* "Check FAIL" (VtdDumpEntrypoint): if all records could be allocated and  *)
(* the DRHDs parsed, there is a page that a device reaches though neither a *)
(* mapping nor an RMRR allows it, and the device is not excepted; only an   *)
(* exception by the identifiers of a device that no unit has is not heeded, *)
(* as the code looks for identifiers in the units.                          *)
NoFalseAlarm ==
  pc = "FAIL" /\ Direct /\ ~outOfMemory /\ parsed = "success" =>
    \E r \in SmallPages :
      /\ ~(Excepted(r.Segment, r.source) /\ Found(r.Segment, r.source))
      /\ \A s \in Reserved(r.Segment, r.source) : ~Covers(s.Base, s.Limit + 1 - s.Base, r.page.Address)
      /\ \A m \in MappedFor(r.Segment, r.source) :
           ~(m.access = r.page.access /\ Covers(m.base, m.length, r.page.Address))

(* "Check PASS": no device for which nothing was mapped, reserved or        *)
(* excepted reaches any page of 4 KB through any unit, except through the   *)
(* upper half of an extended context table, which is not checked.            *)
StrayDeviceFails ==
  pc = "PASS" /\ Direct =>
    \A r \in SmallPages :
      \/ r.upper
      \/ Excepted(r.Segment, r.source)
      \/ Reserved(r.Segment, r.source) # {}
      \/ MappedFor(r.Segment, r.source) # {}
=============================================================================
