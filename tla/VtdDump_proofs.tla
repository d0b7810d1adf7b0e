--------------------------- MODULE VtdDump_proofs ---------------------------
(***************************************************************************)
(* Proofs for VtdDump: the units own the devices that the table gives      *)
(* them, a device for which nothing is recorded fails the check, and the   *)
(* check does not fail without a page that nothing allows.                 *)
(***************************************************************************)
EXTENDS VtdDump, Sublists_proofs, FiniteSetTheorems

(* Where the DRHDs are in the table.                                        *)
Place == CHOOSE p : Places(p, mAcpiDmarTable, {s \in Range(mAcpiDmarTable) : IsDrhd(s)})

(***************************************************************************)
(* The inductive invariant                                                 *)
(***************************************************************************)
TypeOK ==
  /\ platform \in Platforms
  /\ pc \in {"IoMmu", "Acpi", "Engines", "Drhd", "Rmrr", "Exceptions", "Translation",
             "PASS", "FAIL", "Wild", "Assert"}
  /\ at \in Nat /\ VtdIndex \in Nat
  /\ gMaps \in {NULL, platform.maps}
  /\ parsed \in {"no", "error", "success"}
  /\ outOfMemory \in BOOLEAN /\ mHasError \in BOOLEAN

TableInv ==
  /\ pc \in {"IoMmu", "Acpi"} => mAcpiDmarTable = NULL
  /\ pc \in {"Engines", "Drhd", "Rmrr"} => mAcpiDmarTable # NULL
  /\ mAcpiDmarTable # NULL => IsDmar(platform, mAcpiDmarTable)

(* What RegisterPciDevice keeps true of a unit.                             *)
IsUnit(u) ==
  /\ u = [base |-> u.base, Segment |-> u.Segment, IncludeAllFlag |-> u.IncludeAllFlag,
          PciDeviceData |-> u.PciDeviceData, PciDeviceDataMaxNumber |-> u.PciDeviceDataMaxNumber]
  /\ u.base \in {NULL} \cup DOMAIN platform.tables
  /\ IsSequence(u.PciDeviceData)
  /\ \A j \in DOMAIN u.PciDeviceData :
       u.PciDeviceData[j].id =
         PciDeviceId(<<u.Segment>> \o u.PciDeviceData[j].source, u.PciDeviceData[j].DeviceType)
  /\ \A j, k \in DOMAIN u.PciDeviceData :
       u.PciDeviceData[j].source = u.PciDeviceData[k].source => j = k

UnitsInv ==
  /\ IsSequence(mVtdUnitInformation)
  /\ \A i \in DOMAIN mVtdUnitInformation : IsUnit(mVtdUnitInformation[i])
  /\ pc \in {"IoMmu", "Acpi", "Engines"} => mVtdUnitInformation = <<>>
  /\ pc = "Drhd" => Len(mVtdUnitInformation) = Len(Drhds)

Known(i) ==
  /\ mVtdUnitInformation[i].base = Drhds[i].base
  /\ mVtdUnitInformation[i].Segment = Drhds[i].Segment
  /\ mVtdUnitInformation[i].IncludeAllFlag = Drhds[i].includeAll

(* Of the DRHD s the first d scopes have been looked at: the buses whose    *)
(* scan they have started, and what they ask for.                           *)
ScopeSource(s, j) == GetPciBusDeviceFunction(s.Segment, s.scopes[j])

Roots(s, d) ==
  (IF s.includeAll THEN {0} ELSE {})
    \cup {Secondary(<<s.Segment>> \o ScopeSource(s, j)) : j \in {j \in 1 .. d : s.scopes[j].Type = "bridge"}}

Asked(s, d) ==
  {ScopeSource(s, j) : j \in 1 .. d} \cup UNION {Below(s.Segment, r) : r \in Roots(s, d)}

(* What unit k leaves to the units before it.                               *)
Others(k) ==
  IF Drhds[k].includeAll
  THEN UNION {Sources(j) : j \in {j \in 1 .. k - 1 : Drhds[j].Segment = Drhds[k].Segment}} ELSE {}

(* On the buses in V, each function is registered, and the bus behind it in *)
(* V, or ScanPciBus has still to come to it.                                *)
Numbers == {0, 255} \cup {Secondary(f) : f \in DOMAIN platform.pci}

Scanned(V, S, frames, has) ==
  \A b \in V : \A f \in FunctionsOn(S, b) :
    \/ /\ Tail(f) \in has
       /\ Enters(f) => Secondary(f) \in V
    \/ \E frame \in frames : frame.Bus = b /\ f \in frame.left

(* Unit k has devices that have been asked for, and the others do not; what *)
(* has been asked for and is in neither lies ahead of the scan.             *)
Progress(k, s, d, frames, rest, own) ==
  /\ d \in 0 .. Len(s.scopes)
  /\ rest = [j \in 1 .. Len(s.scopes) - d |-> s.scopes[j + d]]
  /\ \A frame \in frames : \E r \in Roots(s, d) : frame.Bus \in Buses(s.Segment, r)
  /\ own \subseteq Asked(s, d) \ Others(k)
  /\ {ScopeSource(s, j) : j \in 1 .. d} \subseteq own \cup Others(k)
  /\ \E V \in SUBSET Numbers : Roots(s, d) \subseteq V /\ Scanned(V, s.Segment, frames, own \cup Others(k))

GivenTo(index) ==
  /\ \A i \in 1 .. index - 1 : Sources(i) = Owned(i)
  /\ index > 0 => \E d \in 0 .. Len(Drhds[index].scopes) :
                    Progress(index, Drhds[index], d, Range(scan), scopes, Sources(index))

(* The units up to VtdIndex are those of the DRHDs before at.               *)
DrhdInv ==
  pc = "Drhd" =>
    /\ at > 0
    /\ VtdIndex \in 0 .. Len(Drhds)
    /\ \A j \in 1 .. Len(Drhds) : Place[j] < at <=> j <= VtdIndex
    /\ \A i \in 1 .. VtdIndex : Known(i)
    /\ \A i \in VtdIndex + 1 .. Len(Drhds) : mVtdUnitInformation[i] = ZeroUnit
    /\ IsSequence(scan)
    /\ \A frame \in Range(scan) :
         frame = [Bus |-> frame.Bus, left |-> frame.left]
           /\ frame.left \subseteq FunctionsOn(Unit.Segment, frame.Bus)
    /\ VtdIndex = 0 => scan = <<>> /\ scopes = <<>>

GivenInv == pc = "Drhd" /\ ~outOfMemory => GivenTo(VtdIndex)

ParsedInv ==
  /\ pc \in {"IoMmu", "Acpi", "Engines", "Drhd"} => parsed = "no"
  /\ parsed = "success" => mAcpiDmarTable # NULL
  /\ parsed = "success" /\ ~outOfMemory =>
       \A i \in DOMAIN mVtdUnitInformation : Sources(i) = Owned(i)

StartInv ==
  pc \in {"IoMmu", "Acpi", "Engines"} =>
    ~outOfMemory /\ at = 1 /\ VtdIndex = 0 /\ scan = <<>> /\ scopes = <<>>

(* The records: from the structures and entries looked at, and if memory    *)
(* did not run out, all of them.                                            *)
InTable(r, s) ==
  /\ s.Type = "RMRR" /\ s.Segment = r.Segment
  /\ \E i \in DOMAIN s.scopes : GetPciBusDeviceFunction(s.Segment, s.scopes[i]) = r.source

RmrrInv ==
  /\ pc = "Rmrr" => at > 0
  /\ \A r \in gRmrrRecord : \E s \in Range(Structures) : InTable(r, s)
  /\ pc \in {"IoMmu", "Acpi", "Engines", "Drhd"} => gRmrrRecord = {}
  /\ pc \in {"Rmrr", "Exceptions", "Translation", "PASS", "FAIL"} /\ Direct /\ ~outOfMemory =>
       \A i \in DOMAIN Structures :
         Structures[i].Type = "RMRR" /\ (pc = "Rmrr" => i < at) => RmrrRecords(Structures[i]) \subseteq gRmrrRecord

ExceptionInv ==
  /\ pc \in {"IoMmu", "Acpi", "Engines", "Drhd", "Rmrr"} => gExceptionRecord = {}
  /\ pc = "Exceptions" => at > 0 /\ \A j \in 1 .. at - 1 : j \in DOMAIN ExceptionEntries => ExceptionEntries[j].Type # "end"
  /\ Direct => \A x \in gExceptionRecord : Excepted(x.Segment, x.source)
  /\ pc \in {"Exceptions", "Translation", "PASS", "FAIL"} /\ ~outOfMemory =>
       \A k \in DOMAIN ExceptionEntries :
         (\A j \in 1 .. k : ExceptionEntries[j].Type # "end") /\ (pc = "Exceptions" => k < at)
           => Excepts(ExceptionEntries[k]) \subseteq gExceptionRecord

(* An error has a page that raised it; without, none of the root entries    *)
(* looked at has such a page.                                               *)
Alarm(Segment, source, page) == AsksMap(Segment, source, page) /\ IsError(Segment, source, page)

Quiet(i, b) ==
  LET unit == mVtdUnitInformation[i]
      table == platform.tables[unit.base]
  IN \A c \in Walked(table, table.root[b]) : \A p \in table.root[b].contexts[c] :
       AsksMap(unit.Segment, <<b>> \o c, p) => gMaps # NULL /\ ~IsError(unit.Segment, <<b>> \o c, p)

VerdictInv ==
  /\ pc \notin {"Translation", "PASS", "FAIL", "Wild"} => ~mHasError
  /\ mHasError => gMaps # NULL /\ \E r \in SmallPages : Alarm(r.Segment, r.source, r.page)
  /\ pc = "Translation" => VtdIndex > 0
  /\ pc = "PASS" => ~mHasError /\ VtdIndex > Len(mVtdUnitInformation)
  /\ pc = "FAIL" => mHasError
  /\ pc \in {"Translation", "PASS"} /\ ~mHasError =>
       \A i \in DOMAIN mVtdUnitInformation :
         /\ i < VtdIndex => mVtdUnitInformation[i].base # NULL
         /\ mVtdUnitInformation[i].base # NULL =>
              \A b \in DOMAIN platform.tables[mVtdUnitInformation[i].base].root :
                i < VtdIndex \/ (i = VtdIndex /\ b < at) => Quiet(i, b)

(* A sequence over any set is one in the sense of IsSequence.               *)
LEMMA IsSeq ==
  ASSUME NEW S, NEW s \in Seq(S)
  PROVE  IsSequence(s) /\ Range(s) = {s[i] : i \in 1 .. Len(s)} /\ Range(s) \subseteq S
<1>1. s \in [1 .. Len(s) -> Range(s)] /\ Range(s) = {s[i] : i \in 1 .. Len(s)}
  BY DEF Range
<1> QED
  BY <1>1, SMTT(40) DEF IsSequence

(* Appending an element keeps the others in their places.                   *)
LEMMA SequenceAppend ==
  ASSUME NEW s, IsSequence(s), NEW e
  PROVE  /\ IsSequence(Append(s, e)) /\ Len(s) \in Nat
         /\ DOMAIN s = 1 .. Len(s) /\ DOMAIN Append(s, e) = 1 .. Len(s) + 1
         /\ \A j \in 1 .. Len(s) : Append(s, e)[j] = s[j]
         /\ Append(s, e)[Len(s) + 1] = e
<1> DEFINE S == Range(s) \cup {e}
<1>1. s \in Seq(Range(s))
  BY DEF IsSequence
<1>2. s \in Seq(S) /\ e \in S
  BY <1>1
<1> HIDE DEF S
<1>3. Append(s, e) \in Seq(S)
  BY <1>2
<1>4. IsSequence(Append(s, e))
  BY <1>3, IsSeq
<1> QED
  BY <1>2, <1>4

(* The operators that read the buses change with the platform only.         *)
LEMMA PlatformStays1 ==
  ASSUME platform' = platform
  PROVE  /\ \A f : Exists(f)' <=> Exists(f)
         /\ \A f : Secondary(f)' = Secondary(f)
         /\ \A f : IsBridge(f)' <=> IsBridge(f)
         /\ \A f : Enters(f)' <=> Enters(f)
         /\ \A f, t : PciDeviceId(f, t)' = PciDeviceId(f, t)
         /\ \A S, b : FunctionsOn(S, b)' = FunctionsOn(S, b)
         /\ \A S, c : GetPciBusDeviceFunction(S, c)' = GetPciBusDeviceFunction(S, c)
<1>1. /\ \A f : Exists(f)' <=> Exists(f)
      /\ \A f : Secondary(f)' = Secondary(f)
      /\ \A f : IsBridge(f)' <=> IsBridge(f)
  BY DEF Exists, Secondary, IsBridge
<1>2. \A f : Enters(f)' <=> Enters(f)
  BY <1>1 DEF Enters
<1>3. \A f, t : PciDeviceId(f, t)' = PciDeviceId(f, t)
  BY <1>1 DEF PciDeviceId
<1>4. \A S, b : FunctionsOn(S, b)' = FunctionsOn(S, b)
  BY <1>1 DEF FunctionsOn
<1>5. \A S, c : GetPciBusDeviceFunction(S, c)' = GetPciBusDeviceFunction(S, c)
  BY <1>1 DEF GetPciBusDeviceFunction, Secondary, Exists
<1> QED
  BY <1>1, <1>2, <1>3, <1>4, <1>5

LEMMA PlatformStays2 ==
  ASSUME platform' = platform
  PROVE  /\ \A S, b : Buses(S, b)' = Buses(S, b)
         /\ \A S, b : Below(S, b)' = Below(S, b)
<1>1. \A S, b : Buses(S, b)' = Buses(S, b)
  BY PlatformStays1 DEF Buses
<1>2. \A S, b : Below(S, b)' = Below(S, b)
  BY <1>1, PlatformStays1 DEF Below
<1> QED
  BY <1>1, <1>2

LEMMA PlatformStays3 ==
  ASSUME platform' = platform
  PROVE  /\ \A u : IsUnit(u)' <=> IsUnit(u)
         /\ \A s, j : ScopeSource(s, j)' = ScopeSource(s, j)
         /\ \A s, d : Roots(s, d)' = Roots(s, d)
         /\ \A s, d : Asked(s, d)' = Asked(s, d)
         /\ \A s : Named(s)' = Named(s)
         /\ \A s : Given(s)' = Given(s)
<1>1. \A u : IsUnit(u)' <=> IsUnit(u)
  BY PlatformStays1 DEF IsUnit
<1>2. \A s, j : ScopeSource(s, j)' = ScopeSource(s, j)
  BY PlatformStays1 DEF ScopeSource
<1>3. \A s, d : Roots(s, d)' = Roots(s, d)
  BY <1>2, PlatformStays1 DEF Roots
<1>4. \A s, d : Asked(s, d)' = Asked(s, d)
  BY <1>2, <1>3, PlatformStays2 DEF Asked
<1>5. \A s : Named(s)' = Named(s)
  BY PlatformStays1, PlatformStays2 DEF Named
<1>6. \A s : Given(s)' = Given(s)
  BY <1>5, PlatformStays2 DEF Given
<1> QED
  BY <1>1, <1>2, <1>3, <1>4, <1>5, <1>6

(* Of functions on one bus there is always a next one.                      *)
LEMMA NextOnFrame ==
  ASSUME TypeOK, NEW S, NEW frame, frame.left # {}, frame.left \subseteq FunctionsOn(S, frame.Bus)
  PROVE  NextOn(frame) \in frame.left
<1> DEFINE devices == {f[3] : f \in frame.left}
<1>1. /\ \A f \in frame.left : f \in Nat \X Nat \X Nat \X Nat /\ f[1] = S /\ f[2] = frame.Bus
  <2>1. DOMAIN platform.pci \subseteq Nat \X Nat \X Nat \X Nat
    BY PlatformAssumption DEF TypeOK
  <2> QED
    BY <2>1 DEF FunctionsOn
<1>2. devices \in SUBSET Nat /\ devices # {}
  BY <1>1
<1> HIDE DEF devices
<1>3. PICK d \in devices : \A e \in devices : d <= e
  BY <1>2, LeastNat
<1> DEFINE functions == {f[4] : f \in {f \in frame.left : f[3] = d}}
<1>4. functions \in SUBSET Nat /\ functions # {}
  BY <1>1, <1>3 DEF devices
<1> HIDE DEF functions
<1>5. PICK n \in functions : \A m \in functions : n <= m
  BY <1>4, LeastNat
<1>6. PICK f \in frame.left : f[3] = d /\ f[4] = n
  BY <1>5 DEF functions
<1>7. ASSUME NEW g \in frame.left \ {f} PROVE Before(f, g)
  <2>1. f[3] \in Nat /\ f[4] \in Nat /\ g[3] \in Nat /\ g[4] \in Nat
    BY <1>1
  <2>2. g[3] # f[3] \/ g[4] # f[4]
    <3>1. f = <<f[1], f[2], f[3], f[4]>> /\ g = <<g[1], g[2], g[3], g[4]>>
      BY <1>1
    <3>2. f[1] = g[1] /\ f[2] = g[2]
      BY <1>1
    <3> QED
      BY <3>1, <3>2, <1>7
  <2>3. f[3] <= g[3]
    BY <1>3, <1>6 DEF devices
  <2>4. g[3] = f[3] => f[4] <= g[4]
    BY <1>5, <1>6 DEF functions
  <2> QED
    BY <2>1, <2>2, <2>3, <2>4 DEF Before
<1> QED
  BY <1>6, <1>7 DEF NextOn

SourcesOf(u) == {u.PciDeviceData[j].source : j \in DOMAIN u.PciDeviceData}

(* GetPciDataIndex finds the devices that a unit of the segment has.        *)
LEMMA IndexOfSource ==
  \A i, S, source : GetPciDataIndex(i, S, source) # {} <=>
    mVtdUnitInformation[i].Segment = S /\ source \in SourcesOf(mVtdUnitInformation[i])
BY DEF GetPciDataIndex, SourcesOf

(* What RegisterPciDevice has done to the units.                            *)
Registers(units, k, source, status) ==
  /\ IsSequence(units) /\ Len(units) = Len(mVtdUnitInformation)
  /\ \A i \in DOMAIN units :
       /\ IsUnit(units[i])
       /\ i # k => units[i] = mVtdUnitInformation[i]
  /\ units[k].base = mVtdUnitInformation[k].base
  /\ units[k].Segment = mVtdUnitInformation[k].Segment
  /\ units[k].IncludeAllFlag = mVtdUnitInformation[k].IncludeAllFlag
  /\ status \in {"success", "alreadyStarted", "outOfResources"}
  /\ SourcesOf(units[k]) =
       SourcesOf(mVtdUnitInformation[k]) \cup
         (IF status = "outOfResources" \/ OtherUnitHas(k, mVtdUnitInformation[k].Segment, source)
          THEN {} ELSE {source})

(* Each outcome of RegisterPciDevice adds the device to one unit, or adds   *)
(* nothing.                                                                 *)
LEMMA RegisterPciDeviceDoes ==
  ASSUME IsSequence(mVtdUnitInformation),
         \A i \in DOMAIN mVtdUnitInformation : IsUnit(mVtdUnitInformation[i]),
         NEW k \in DOMAIN mVtdUnitInformation, NEW source, NEW type, NEW check,
         NEW o \in RegisterPciDevice(k, mVtdUnitInformation[k].Segment, source, type, check)
  PROVE  Registers(o.units, k, source, o.status)
<1> DEFINE unit == mVtdUnitInformation[k]
           S == unit.Segment
           full == Len(unit.PciDeviceData) >= unit.PciDeviceDataMaxNumber
           device == [source |-> source, DeviceType |-> type,
                      id |-> PciDeviceId(<<S>> \o source, type)]
           grown == [unit EXCEPT !.PciDeviceData = Append(@, device),
                                 !.PciDeviceDataMaxNumber = IF full THEN @ + MAX_VTD_PCI_DATA_NUMBER ELSE @]
           units == [mVtdUnitInformation EXCEPT ![k] = grown]
<1>0. mVtdUnitInformation \in Seq(Range(mVtdUnitInformation)) /\ DOMAIN mVtdUnitInformation = 1 .. Len(mVtdUnitInformation)
      /\ Len(mVtdUnitInformation) \in Nat
  BY DEF IsSequence
<1>1. IsUnit(unit)
  OBVIOUS
<1>2. \/ o = Outcome("success", mVtdUnitInformation) /\ OtherUnitHas(k, S, source)
      \/ /\ o = Outcome("success", mVtdUnitInformation) \/ o = Outcome("alreadyStarted", mVtdUnitInformation)
         /\ ~OtherUnitHas(k, S, source) /\ source \in SourcesOf(unit)
      \/ o = Outcome("outOfResources", mVtdUnitInformation)
      \/ o = Outcome("success", units) /\ ~OtherUnitHas(k, S, source) /\ source \notin SourcesOf(unit)
  <2>1. CASE OtherUnitHas(k, S, source)
    BY <2>1 DEF RegisterPciDevice
  <2>2. CASE ~OtherUnitHas(k, S, source) /\ GetPciDataIndex(k, S, source) # {}
    <3>1. source \in SourcesOf(unit)
      BY <2>2, IndexOfSource
    <3>2. o = Outcome(IF check THEN "alreadyStarted" ELSE "success", mVtdUnitInformation)
      BY <2>2 DEF RegisterPciDevice
    <3> QED
      BY <2>2, <3>1, <3>2
  <2>3. CASE ~OtherUnitHas(k, S, source) /\ GetPciDataIndex(k, S, source) = {}
    <3>1. source \notin SourcesOf(unit)
      BY <2>3, IndexOfSource
    <3>2. o \in {Outcome("success", units)}
                  \cup (IF full THEN {Outcome("outOfResources", mVtdUnitInformation)} ELSE {})
      BY <2>3 DEF RegisterPciDevice
    <3> QED
      BY <2>3, <3>1, <3>2
  <2> QED
    BY <2>1, <2>2, <2>3
<1>3. CASE o.units = mVtdUnitInformation /\ o.status \in {"success", "alreadyStarted", "outOfResources"}
           /\ (o.status = "outOfResources" \/ OtherUnitHas(k, S, source) \/ source \in SourcesOf(unit))
  BY <1>3, <1>0 DEF Registers
<1>4. CASE o = Outcome("success", units) /\ ~OtherUnitHas(k, S, source) /\ source \notin SourcesOf(unit)
  <2>1. o.units = units /\ o.status = "success"
    BY <1>4 DEF Outcome
  <2> DEFINE D == unit.PciDeviceData
             E == Append(D, device)
             max == IF full THEN unit.PciDeviceDataMaxNumber + MAX_VTD_PCI_DATA_NUMBER ELSE unit.PciDeviceDataMaxNumber
  <2>2. grown = [base |-> unit.base, Segment |-> S, IncludeAllFlag |-> unit.IncludeAllFlag,
                 PciDeviceData |-> E, PciDeviceDataMaxNumber |-> max]
    <3>1. unit = [base |-> unit.base, Segment |-> unit.Segment, IncludeAllFlag |-> unit.IncludeAllFlag,
          PciDeviceData |-> unit.PciDeviceData, PciDeviceDataMaxNumber |-> unit.PciDeviceDataMaxNumber]
      BY <1>1 DEF IsUnit
    <3> HIDE DEF device, full
    <3>2. PICK b, g, a, d, n : unit = [base |-> b, Segment |-> g, IncludeAllFlag |-> a,
                                       PciDeviceData |-> d, PciDeviceDataMaxNumber |-> n]
      BY <3>1
    <3>3. unit.base = b /\ unit.Segment = g /\ unit.IncludeAllFlag = a /\ unit.PciDeviceData = d
          /\ unit.PciDeviceDataMaxNumber = n
      BY <3>2
    <3>4. \A e, m : [unit EXCEPT !.PciDeviceData = e, !.PciDeviceDataMaxNumber = m]
                     = [base |-> b, Segment |-> g, IncludeAllFlag |-> a,
                        PciDeviceData |-> e, PciDeviceDataMaxNumber |-> m]
      <4> HIDE DEF unit
      <4> TAKE e, m
      <4> DEFINE r == [unit EXCEPT !.PciDeviceData = e, !.PciDeviceDataMaxNumber = m]
      <4>1. /\ DOMAIN r = {"base", "Segment", "IncludeAllFlag", "PciDeviceData", "PciDeviceDataMaxNumber"}
            /\ r.base = b /\ r.Segment = g /\ r.IncludeAllFlag = a
            /\ r.PciDeviceData = e /\ r.PciDeviceDataMaxNumber = m
        BY <3>2
      <4>2. r = [x \in DOMAIN r |-> r[x]]
        OBVIOUS
      <4> HIDE DEF r
      <4>3. r = [base |-> b, Segment |-> g, IncludeAllFlag |-> a,
                 PciDeviceData |-> e, PciDeviceDataMaxNumber |-> m]
        BY <4>1, <4>2
      <4> QED
        BY <4>3 DEF r
    <3>5. grown = [unit EXCEPT !.PciDeviceData = E, !.PciDeviceDataMaxNumber = max]
      BY <3>2
    <3> HIDE DEF grown, E, max, unit
    <3> QED
      BY <3>3, <3>4, <3>5
  <2>3. IsSequence(D)
    BY <1>1 DEF IsUnit
  <2>3a. /\ device.source = source /\ device.DeviceType = type
         /\ device.id = PciDeviceId(<<S>> \o source, type)
    OBVIOUS
  <2> HIDE DEF device
  <2>4. /\ IsSequence(E) /\ DOMAIN D = 1 .. Len(D) /\ Len(D) \in Nat
        /\ DOMAIN E = 1 .. Len(D) + 1 /\ E[Len(D) + 1] = device
        /\ \A j \in 1 .. Len(D) : E[j] = D[j]
    BY <2>3, SequenceAppend
  <2> HIDE DEF E
  <2>5. SourcesOf(grown) = SourcesOf(unit) \cup {source}
    <3>1. grown.PciDeviceData = E
      BY <2>2
    <3> HIDE DEF grown
    <3>2. SourcesOf(grown) = {E[j].source : j \in 1 .. Len(D) + 1}
      BY <3>1, <2>4 DEF SourcesOf
    <3>3. SourcesOf(unit) = {D[j].source : j \in 1 .. Len(D)}
      BY <2>4 DEF SourcesOf
    <3> HIDE DEF D
    <3>4. \A x : x \in SourcesOf(grown) => x \in SourcesOf(unit) \cup {source}
      <4> TAKE x
      <4> HAVE x \in SourcesOf(grown)
      <4>1. PICK j \in 1 .. Len(D) + 1 : x = E[j].source
        BY <3>2
      <4> QED
        BY <4>1, <3>3, <2>4, <2>3a
    <3>5. \A x : x \in SourcesOf(unit) \cup {source} => x \in SourcesOf(grown)
      <4> TAKE x
      <4> HAVE x \in SourcesOf(unit) \cup {source}
      <4>1. CASE x = source
        BY <4>1, <3>2, <2>4, <2>3a
      <4>2. CASE x \in SourcesOf(unit)
        <5>1. PICK j \in 1 .. Len(D) : x = D[j].source
          BY <4>2, <3>3
        <5> QED
          BY <5>1, <3>2, <2>4
      <4> QED
        BY <4>1, <4>2
    <3> QED
      BY <3>4, <3>5
  <2>6. IsUnit(grown)
    <3>1. \A j \in DOMAIN E : E[j].id = PciDeviceId(<<S>> \o E[j].source, E[j].DeviceType)
      <4> TAKE j \in DOMAIN E
      <4>1. CASE j \in 1 .. Len(D)
        <5>1. D[j].id = PciDeviceId(<<S>> \o D[j].source, D[j].DeviceType)
          BY <4>1, <1>1, <2>4 DEF IsUnit
        <5> QED
          BY <5>1, <4>1, <2>4
      <4>2. CASE j = Len(D) + 1
        BY <4>2, <2>4, <2>3a
      <4> QED
        BY <4>1, <4>2, <2>4
    <3>2. \A i, j \in DOMAIN E : E[i].source = E[j].source => i = j
      <4>1. \A j \in 1 .. Len(D) : D[j].source # source
        BY <1>4, <2>4 DEF SourcesOf
      <4>2. \A i, j \in 1 .. Len(D) : D[i].source = D[j].source => i = j
        BY <1>1, <2>4 DEF IsUnit
      <4> QED
        BY <4>1, <4>2, <2>4, <2>3a, SMTT(40)
    <3>3. unit.base \in {NULL} \cup DOMAIN platform.tables
      BY <1>1 DEF IsUnit
    <3> HIDE DEF D, max
    <3>4. DEFINE u == [base |-> unit.base, Segment |-> S, IncludeAllFlag |-> unit.IncludeAllFlag,
                       PciDeviceData |-> E, PciDeviceDataMaxNumber |-> max]
    <3>5. u.base = unit.base /\ u.Segment = S /\ u.IncludeAllFlag = unit.IncludeAllFlag
          /\ u.PciDeviceData = E /\ u.PciDeviceDataMaxNumber = max
      OBVIOUS
    <3>6. u = [base |-> u.base, Segment |-> u.Segment, IncludeAllFlag |-> u.IncludeAllFlag,
               PciDeviceData |-> u.PciDeviceData, PciDeviceDataMaxNumber |-> u.PciDeviceDataMaxNumber]
      BY <3>5
    <3> HIDE DEF u
    <3>7. IsUnit(u)
      BY <3>5, <3>6, <2>4, <3>1, <3>2, <3>3 DEF IsUnit
    <3> QED
      BY <2>2, <3>7 DEF u
  <2>7. units \in Seq(Range(mVtdUnitInformation) \cup {grown}) /\ DOMAIN units = DOMAIN mVtdUnitInformation
        /\ units[k] = grown /\ \A i \in DOMAIN units : i # k => units[i] = mVtdUnitInformation[i]
    <3> HIDE DEF grown
    <3>1. DOMAIN units = 1 .. Len(mVtdUnitInformation) /\ units[k] = grown
          /\ \A i \in DOMAIN units : i # k => units[i] = mVtdUnitInformation[i]
      BY <1>0
    <3>2. \A i \in 1 .. Len(mVtdUnitInformation) : units[i] \in Range(mVtdUnitInformation) \cup {grown}
      BY <3>1, <1>0 DEF Range
    <3>3. units \in [1 .. Len(mVtdUnitInformation) -> Range(mVtdUnitInformation) \cup {grown}]
      BY <3>1, <3>2
    <3> QED
      BY <3>1, <3>3, <1>0
  <2>8. IsSequence(units) /\ Len(units) = Len(mVtdUnitInformation)
    <3> HIDE DEF units, grown
    <3> QED
      BY <2>7, <1>0, IsSeq
  <2>9. /\ grown.base = unit.base /\ grown.Segment = unit.Segment /\ grown.IncludeAllFlag = unit.IncludeAllFlag
    BY <2>2
  <2> HIDE DEF units, grown
  <2> QED
    BY <2>1, <2>5, <2>6, <2>7, <2>8, <2>9, <1>4 DEF Registers
<1>5. \A status : Outcome(status, mVtdUnitInformation).status = status
                   /\ Outcome(status, mVtdUnitInformation).units = mVtdUnitInformation
  BY DEF Outcome
<1> QED
  BY <1>2, <1>3, <1>4, <1>5

(* What a function on the bus of a frame leads to.                          *)
LEMMA BusesClosed ==
  ASSUME NEW S, NEW Bus
  PROVE  /\ Bus \in Buses(S, Bus)
         /\ \A b \in Buses(S, Bus) : \A f \in FunctionsOn(S, b) : Enters(f) => Secondary(f) \in Buses(S, Bus)
         /\ \A V : Bus \in V /\ (\A b \in V : \A f \in FunctionsOn(S, b) : Enters(f) => Secondary(f) \in V)
                     => Buses(S, Bus) \subseteq V
<1> DEFINE numbers == {Bus} \cup {Secondary(f) : f \in DOMAIN platform.pci}
           closed == {B \in SUBSET numbers :
                   Bus \in B /\ \A b \in B : \A f \in FunctionsOn(S, b) : Enters(f) => Secondary(f) \in B}
<1>1. Buses(S, Bus) = {b \in numbers : \A B \in closed : b \in B}
  BY DEF Buses
<1>2. \A b : \A f \in FunctionsOn(S, b) : Secondary(f) \in numbers
  BY DEF FunctionsOn
<1>3. ASSUME NEW V, Bus \in V, \A b \in V : \A f \in FunctionsOn(S, b) : Enters(f) => Secondary(f) \in V
      PROVE  Buses(S, Bus) \subseteq V
  <2>1. V \cap numbers \in closed
    BY <1>2, <1>3
  <2> QED
    BY <1>1, <2>1
<1> QED
  BY <1>1, <1>2, <1>3

(* Every step keeps the types.                                              *)
LEMMA TypeNext == TypeOK /\ [Next]_vars => TypeOK'
<1> SUFFICES ASSUME TypeOK, [Next]_vars PROVE TypeOK'
  OBVIOUS
<1> USE DEF TypeOK, lists, engines, loops
<1>1. VTD_ROOT_ENTRY_NUMBER \in Nat
  BY PlatformAssumption
<1>2. CASE DumpIoMmuMap
  BY <1>2 DEF DumpIoMmuMap
<1>3. CASE GetDmarAcpiTable
  BY <1>3 DEF GetDmarAcpiTable
<1>4. CASE AllocateUnits
  BY <1>4 DEF AllocateUnits
<1>5. CASE NextStructure
  BY <1>5 DEF NextStructure
<1>6. CASE ScanPciBus
  <2>1. pc = "Drhd" /\ (Abort \/ UNCHANGED <<pc, parsed, at, VtdIndex>>)
    BY <1>6 DEF ScanPciBus
  <2>2. UNCHANGED <<platform, gMaps, outOfMemory, mHasError>>
    BY <1>6 DEF ScanPciBus
  <2> QED
    BY <2>1, <2>2 DEF Abort, EndOfDrhd
<1>7. CASE EndOfBus
  BY <1>7 DEF EndOfBus
<1>8. CASE ProcessScope
  <2>1. pc = "Drhd" /\ (Abort \/ UNCHANGED <<pc, parsed, at, VtdIndex>>) /\ outOfMemory' \in BOOLEAN
    BY <1>8 DEF ProcessScope
  <2>2. UNCHANGED <<platform, gMaps, mHasError>>
    BY <1>8 DEF ProcessScope
  <2> QED
    BY <2>1, <2>2 DEF Abort, EndOfDrhd
<1>9. CASE DrhdDone
  BY <1>9 DEF DrhdDone, EndOfDrhd
<1>10. CASE ProcessRmrr
  <2>1. pc = "Rmrr" /\ ((at' = at + 1 /\ pc' = pc) \/ (at' = 1 /\ pc' = "Exceptions"))
    BY <1>10 DEF ProcessRmrr
  <2>2. outOfMemory' \in BOOLEAN
    BY <1>10 DEF ProcessRmrr, InsertInto
  <2>3. UNCHANGED <<platform, gMaps, parsed, VtdIndex, mHasError>>
    BY <1>10 DEF ProcessRmrr
  <2> QED
    BY <2>1, <2>2, <2>3
<1>11. CASE RmrrDone
  BY <1>11 DEF RmrrDone
<1>12. CASE DumpExceptionRecord
  BY <1>12 DEF DumpExceptionRecord, InsertInto
<1>13. CASE ExceptionsDone
  BY <1>13 DEF ExceptionsDone
<1>14. CASE DumpRootEntry
  <2>1. pc = "Translation" /\ at' = at + 1
    BY <1>14, ZenonT(60) DEF DumpRootEntry
  <2>2. pc' \in {"Wild", pc} /\ mHasError' \in BOOLEAN
    BY <1>14, ZenonT(60) DEF DumpRootEntry
  <2>3. UNCHANGED <<platform, gMaps, parsed, VtdIndex, outOfMemory>>
    BY <1>14, ZenonT(60) DEF DumpRootEntry
  <2> QED
    BY <2>1, <2>2, <2>3, SMTT(40)
<1>15. CASE EndOfUnit
  BY <1>15 DEF EndOfUnit
<1>16. CASE NoBase
  BY <1>16 DEF NoBase
<1>17. CASE Verdict
  BY <1>17 DEF Verdict
<1>20. CASE UNCHANGED vars
  BY <1>20 DEF vars
<1> QED
  BY <1>2, <1>3, <1>4, <1>5, <1>6, <1>7, <1>8, <1>9, <1>10, <1>11, <1>12, <1>13, <1>14, <1>15, <1>16, <1>17, <1>20 DEF Next

(* Where each step leads to, and what it leaves alone.                      *)
Control(a, b) == pc = a /\ pc' \in b

(* Where each action starts, and where it leads to.                         *)
LEMMA Steps ==
  /\ DumpIoMmuMap => Control("IoMmu", {"Acpi"})
  /\ GetDmarAcpiTable => Control("Acpi", {"Exceptions", "Engines"})
  /\ AllocateUnits => Control("Engines", {"Assert", "Drhd"})
  /\ NextStructure => Control("Drhd", {"Drhd"})
  /\ ScanPciBus => Control("Drhd", {"Drhd", "Rmrr"})
  /\ EndOfBus => Control("Drhd", {"Drhd"})
  /\ ProcessScope => Control("Drhd", {"Drhd", "Rmrr"})
  /\ DrhdDone => Control("Drhd", {"Rmrr"})
  /\ ProcessRmrr => Control("Rmrr", {"Rmrr", "Exceptions"})
  /\ RmrrDone => Control("Rmrr", {"Exceptions"})
  /\ DumpExceptionRecord => Control("Exceptions", {"Exceptions"})
  /\ ExceptionsDone => Control("Exceptions", {"Translation"})
  /\ DumpRootEntry => Control("Translation", {"Translation", "Wild"})
  /\ EndOfUnit => Control("Translation", {"Translation"})
  /\ NoBase => Control("Translation", {"Wild"})
  /\ Verdict => Control("Translation", {"PASS", "FAIL"})
<1>1. DumpIoMmuMap => Control("IoMmu", {"Acpi"})
  BY DEF DumpIoMmuMap, Control, EndOfDrhd
<1>2. GetDmarAcpiTable => Control("Acpi", {"Exceptions", "Engines"})
  BY DEF GetDmarAcpiTable, Control, EndOfDrhd
<1>3. AllocateUnits => Control("Engines", {"Assert", "Drhd"})
  BY DEF AllocateUnits, Control, EndOfDrhd
<1>4. NextStructure => Control("Drhd", {"Drhd"})
  BY DEF NextStructure, Control, EndOfDrhd
<1>5. ScanPciBus => Control("Drhd", {"Drhd", "Rmrr"})
  <2>1. ScanPciBus => pc = "Drhd" /\ (Abort \/ pc' = pc)
    BY Zenon DEF ScanPciBus
  <2> QED
    BY <2>1 DEF Abort, EndOfDrhd, Control
<1>6. EndOfBus => Control("Drhd", {"Drhd"})
  BY DEF EndOfBus, Control, EndOfDrhd
<1>7. ProcessScope => Control("Drhd", {"Drhd", "Rmrr"})
  <2>1. ProcessScope => pc = "Drhd" /\ (Abort \/ pc' = pc)
    BY Zenon DEF ProcessScope
  <2> QED
    BY <2>1 DEF Abort, EndOfDrhd, Control
<1>8. DrhdDone => Control("Drhd", {"Rmrr"})
  BY DEF DrhdDone, Control, EndOfDrhd
<1>9. ProcessRmrr => Control("Rmrr", {"Rmrr", "Exceptions"})
  <2>1. ProcessRmrr => pc = "Rmrr" /\ (pc' = pc \/ pc' = "Exceptions")
    BY Zenon DEF ProcessRmrr
  <2> QED
    BY <2>1 DEF Control
<1>10. RmrrDone => Control("Rmrr", {"Exceptions"})
  BY DEF RmrrDone, Control, EndOfDrhd
<1>11. DumpExceptionRecord => Control("Exceptions", {"Exceptions"})
  BY DEF DumpExceptionRecord, Control, EndOfDrhd
<1>12. ExceptionsDone => Control("Exceptions", {"Translation"})
  BY DEF ExceptionsDone, Control, EndOfDrhd
<1>13. DumpRootEntry => Control("Translation", {"Translation", "Wild"})
  <2>1. DumpRootEntry => pc = "Translation" /\ (pc' = pc \/ pc' = "Wild")
    BY Zenon DEF DumpRootEntry
  <2> QED
    BY <2>1 DEF Control
<1>14. EndOfUnit => Control("Translation", {"Translation"})
  BY DEF EndOfUnit, Control, EndOfDrhd
<1>15. NoBase => Control("Translation", {"Wild"})
  BY DEF NoBase, Control, EndOfDrhd
<1>16. Verdict => Control("Translation", {"PASS", "FAIL"})
  BY DEF Verdict, Control, EndOfDrhd
<1> QED
  BY <1>1, <1>2, <1>3, <1>4, <1>5, <1>6, <1>7, <1>8, <1>9, <1>10, <1>11, <1>12, <1>13, <1>14, <1>15, <1>16

(* What FindAcpiPtr finds has the structures of a DMAR table.               *)
LEMMA FoundTable ==
  ASSUME TypeOK, platform.acpi # NULL, FindAcpiPtr(platform.acpi) # NULL
  PROVE  IsDmar(platform, FindAcpiPtr(platform.acpi))
<1> DEFINE p == platform.acpi
           Dmar(list) == ScanTable(list) # NULL => IsDmar(platform, ScanTable(list))
<1>1. ASSUME NEW list \in {p.Xsdt, p.Rsdt} \ {NULL} PROVE Dmar(list)
  <2> DEFINE found == {i \in DOMAIN list : list[i] # NULL /\ list[i].Signature = "DMAR"}
  <2>1. \A i \in DOMAIN list : i \in Nat /\ (list[i] # NULL /\ list[i].Signature = "DMAR" => IsDmar(platform, list[i].structures))
    BY PlatformAssumption DEF TypeOK
  <2>2. CASE found = {}
    BY <2>2 DEF ScanTable
  <2>3. CASE found # {}
    <3>1. found \in SUBSET Nat
      BY <2>1
    <3>2. Min(found) \in found
      <4> HIDE DEF found
      <4> QED
        BY <3>1, <2>3, MinOf
    <3>3. ScanTable(list) = list[Min(found)].structures
      BY <2>3 DEF ScanTable
    <3> QED
      BY <2>1, <3>2, <3>3
  <2> QED
    BY <2>2, <2>3
<1>2. FindAcpiPtr(p) # NULL => \E list \in {p.Xsdt, p.Rsdt} \ {NULL} : FindAcpiPtr(p) = ScanTable(list)
  BY DEF FindAcpiPtr
<1> QED
  BY <1>1, <1>2

(* The DMAR table is read once.                                             *)
LEMMA TableNext == TypeOK /\ TableInv /\ [Next]_vars => TableInv'
<1> SUFFICES ASSUME TypeOK, TableInv, [Next]_vars PROVE TableInv'
  OBVIOUS
<1> USE DEF TableInv, lists, engines, loops, Control
<1>2. CASE DumpIoMmuMap
  BY <1>2, Steps DEF DumpIoMmuMap
<1>3. CASE GetDmarAcpiTable
  <2>1. mAcpiDmarTable' # NULL => IsDmar(platform, mAcpiDmarTable')
    BY <1>3, FoundTable DEF GetDmarAcpiTable
  <2>2. platform' = platform
    BY <1>3 DEF GetDmarAcpiTable
  <2>3. pc' \in {"Exceptions", "Engines"} /\ (pc' = "Engines" => mAcpiDmarTable' # NULL)
    BY <1>3 DEF GetDmarAcpiTable
  <2> QED
    BY <2>1, <2>2, <2>3
<1>4. CASE AllocateUnits
  BY <1>4, Steps DEF AllocateUnits
<1>5. CASE NextStructure
  BY <1>5, Steps DEF NextStructure
<1>6. CASE ScanPciBus
  <2>1. UNCHANGED <<platform, mAcpiDmarTable>>
    BY <1>6 DEF ScanPciBus
  <2> QED
    BY <1>6, <2>1, Steps
<1>7. CASE EndOfBus
  BY <1>7, Steps DEF EndOfBus
<1>8. CASE ProcessScope
  <2>1. UNCHANGED <<platform, mAcpiDmarTable>>
    BY <1>8 DEF ProcessScope
  <2> QED
    BY <1>8, <2>1, Steps
<1>9. CASE DrhdDone
  BY <1>9, Steps DEF DrhdDone
<1>10. CASE ProcessRmrr
  <2>1. UNCHANGED <<platform, mAcpiDmarTable>>
    BY <1>10 DEF ProcessRmrr
  <2> QED
    BY <1>10, <2>1, Steps
<1>11. CASE RmrrDone
  BY <1>11, Steps DEF RmrrDone
<1>12. CASE DumpExceptionRecord
  BY <1>12, Steps DEF DumpExceptionRecord
<1>13. CASE ExceptionsDone
  BY <1>13, Steps DEF ExceptionsDone
<1>14. CASE DumpRootEntry
  <2>1. UNCHANGED <<platform, mAcpiDmarTable>>
    BY <1>14, ZenonT(60) DEF DumpRootEntry
  <2> QED
    BY <1>14, <2>1, Steps, SMTT(40)
<1>15. CASE EndOfUnit
  BY <1>15, Steps DEF EndOfUnit
<1>16. CASE NoBase
  BY <1>16, Steps DEF NoBase
<1>17. CASE Verdict
  BY <1>17, Steps DEF Verdict
<1>20. CASE UNCHANGED vars
  BY <1>20 DEF vars
<1> QED
  BY <1>2, <1>3, <1>4, <1>5, <1>6, <1>7, <1>8, <1>9, <1>10, <1>11, <1>12, <1>13, <1>14, <1>15, <1>16, <1>17, <1>20 DEF Next

(* The phases: each has its steps.                                          *)
LEMMA StepsOfPhases ==
  ASSUME [Next]_vars
  PROVE  /\ pc = "IoMmu" => DumpIoMmuMap \/ UNCHANGED vars
         /\ pc = "Acpi" => GetDmarAcpiTable \/ UNCHANGED vars
         /\ pc = "Engines" => AllocateUnits \/ UNCHANGED vars
         /\ pc = "Drhd" => NextStructure \/ ScanPciBus \/ EndOfBus \/ ProcessScope \/ DrhdDone \/ UNCHANGED vars
         /\ pc = "Rmrr" => ProcessRmrr \/ RmrrDone \/ UNCHANGED vars
         /\ pc = "Exceptions" => DumpExceptionRecord \/ ExceptionsDone \/ UNCHANGED vars
         /\ pc = "Translation" => DumpRootEntry \/ EndOfUnit \/ NoBase \/ Verdict \/ UNCHANGED vars
         /\ pc \notin {"IoMmu", "Acpi", "Engines", "Drhd", "Rmrr", "Exceptions", "Translation"} => UNCHANGED vars
<1>2. CASE DumpIoMmuMap
  BY <1>2, Steps DEF Control
<1>3. CASE GetDmarAcpiTable
  BY <1>3, Steps DEF Control
<1>4. CASE AllocateUnits
  BY <1>4, Steps DEF Control
<1>5. CASE NextStructure
  BY <1>5, Steps DEF Control
<1>6. CASE ScanPciBus
  BY <1>6, Steps DEF Control
<1>7. CASE EndOfBus
  BY <1>7, Steps DEF Control
<1>8. CASE ProcessScope
  BY <1>8, Steps DEF Control
<1>9. CASE DrhdDone
  BY <1>9, Steps DEF Control
<1>10. CASE ProcessRmrr
  BY <1>10, Steps DEF Control
<1>11. CASE RmrrDone
  BY <1>11, Steps DEF Control
<1>12. CASE DumpExceptionRecord
  BY <1>12, Steps DEF Control
<1>13. CASE ExceptionsDone
  BY <1>13, Steps DEF Control
<1>14. CASE DumpRootEntry
  BY <1>14, Steps DEF Control
<1>15. CASE EndOfUnit
  BY <1>15, Steps DEF Control
<1>16. CASE NoBase
  BY <1>16, Steps DEF Control
<1>17. CASE Verdict
  BY <1>17, Steps DEF Control
<1>20. CASE UNCHANGED vars
  BY <1>20
<1> QED
  BY <1>2, <1>3, <1>4, <1>5, <1>6, <1>7, <1>8, <1>9, <1>10, <1>11, <1>12, <1>13, <1>14, <1>15, <1>16, <1>17, <1>20 DEF Next

(* What each phase leaves alone.                                            *)
Phase ==
  /\ platform' = platform
  /\ pc # "IoMmu" => gMaps' = gMaps
  /\ pc # "Acpi" => mAcpiDmarTable' = mAcpiDmarTable
  /\ pc \notin {"Engines", "Drhd"} => mVtdUnitInformation' = mVtdUnitInformation
  /\ pc # "Drhd" => parsed' = parsed
  /\ pc # "Rmrr" => gRmrrRecord' = gRmrrRecord
  /\ pc # "Exceptions" => gExceptionRecord' = gExceptionRecord
  /\ pc \notin {"Drhd", "Rmrr", "Exceptions"} => outOfMemory' = outOfMemory
  /\ pc # "Translation" => mHasError' = mHasError

(* Every step keeps to it.                                                  *)
LEMMA Phases == [Next]_vars => Phase
<1> SUFFICES ASSUME [Next]_vars PROVE Phase
  OBVIOUS
<1> USE DEF Phase, lists, engines, loops
<1>2. CASE DumpIoMmuMap
  BY <1>2 DEF DumpIoMmuMap
<1>3. CASE GetDmarAcpiTable
  BY <1>3 DEF GetDmarAcpiTable
<1>4. CASE AllocateUnits
  BY <1>4 DEF AllocateUnits
<1>5. CASE NextStructure
  BY <1>5 DEF NextStructure
<1>6. CASE ScanPciBus
  <2>1. UNCHANGED <<platform, gMaps, mAcpiDmarTable, lists, mHasError>>
    BY <1>6, Zenon DEF ScanPciBus
  <2> QED
    BY <1>6, <2>1, Steps DEF Control
<1>7. CASE EndOfBus
  BY <1>7 DEF EndOfBus
<1>8. CASE ProcessScope
  <2>1. UNCHANGED <<platform, gMaps, mAcpiDmarTable, gRmrrRecord, gExceptionRecord, mHasError>>
    BY <1>8, Zenon DEF ProcessScope
  <2> QED
    BY <1>8, <2>1, Steps DEF Control
<1>9. CASE DrhdDone
  BY <1>9 DEF DrhdDone
<1>10. CASE ProcessRmrr
  <2>1. UNCHANGED <<platform, gMaps, engines, VtdIndex, scopes, scan, gExceptionRecord, mHasError>>
    BY <1>10, Zenon DEF ProcessRmrr
  <2> QED
    BY <1>10, <2>1, Steps DEF Control
<1>11. CASE RmrrDone
  BY <1>11 DEF RmrrDone
<1>12. CASE DumpExceptionRecord
  BY <1>12 DEF DumpExceptionRecord
<1>13. CASE ExceptionsDone
  BY <1>13 DEF ExceptionsDone
<1>14. CASE DumpRootEntry
  <2>1. UNCHANGED <<platform, gMaps, engines, VtdIndex, scopes, scan, lists>>
    BY <1>14, ZenonT(60) DEF DumpRootEntry
  <2> QED
    BY <1>14, <2>1, Steps DEF Control
<1>15. CASE EndOfUnit
  BY <1>15 DEF EndOfUnit
<1>16. CASE NoBase
  BY <1>16 DEF NoBase
<1>17. CASE Verdict
  BY <1>17 DEF Verdict
<1>20. CASE UNCHANGED vars
  BY <1>20 DEF vars
<1> QED
  BY <1>2, <1>3, <1>4, <1>5, <1>6, <1>7, <1>8, <1>9, <1>10, <1>11, <1>12, <1>13, <1>14, <1>15, <1>16, <1>17, <1>20 DEF Next

(* Where the DRHDs are in the table.                                        *)
DrhdPlaces ==
  /\ Drhds \in Seq(Range(mAcpiDmarTable)) /\ IsSequence(Drhds)
  /\ Len(mAcpiDmarTable) \in Nat /\ Len(Drhds) \in Nat /\ DOMAIN Drhds = 1 .. Len(Drhds)
  /\ Place \in [1 .. Len(Drhds) -> 1 .. Len(mAcpiDmarTable)]
  /\ \A j \in 1 .. Len(Drhds) :
       /\ Drhds[j] = mAcpiDmarTable[Place[j]] /\ IsDrhd(Drhds[j])
       /\ Drhds[j].base \in DOMAIN platform.tables /\ IsSequence(Drhds[j].scopes)
  /\ \A j, k \in 1 .. Len(Drhds) : j < k => Place[j] < Place[k]
  /\ \A i \in 1 .. Len(mAcpiDmarTable) :
       IsDrhd(mAcpiDmarTable[i]) => \E j \in 1 .. Len(Drhds) : Place[j] = i

(* The DRHDs and their places in the table are in one order.                *)
LEMMA PlacesOfDrhds ==
  ASSUME mAcpiDmarTable # NULL, TableInv
  PROVE  DrhdPlaces
<1> DEFINE Keep == {s \in Range(mAcpiDmarTable) : IsDrhd(s)}
<1>1. IsDmar(platform, mAcpiDmarTable) /\ mAcpiDmarTable \in Seq(Range(mAcpiDmarTable))
  BY DEF TableInv, IsDmar, IsSequence
<1>2. Drhds = Where(mAcpiDmarTable, Keep)
  BY DEF Drhds
<1>3. Drhds \in Seq(Range(mAcpiDmarTable)) /\ Places(Place, mAcpiDmarTable, Keep)
  <2>1. Place = CHOOSE p : Places(p, mAcpiDmarTable, Keep)
    BY DEF Place
  <2> HIDE DEF Keep
  <2>2. Where(mAcpiDmarTable, Keep) \in Seq(Range(mAcpiDmarTable)) /\ \E p : Places(p, mAcpiDmarTable, Keep)
    BY <1>1, WherePlaces
  <2> QED
    BY <2>1, <2>2, <1>2
<1>4. IsSequence(Drhds) /\ DOMAIN Drhds = 1 .. Len(Drhds) /\ Len(Drhds) \in Nat /\ Len(mAcpiDmarTable) \in Nat
  BY <1>1, <1>3, IsSeq
<1>5. \A i \in 1 .. Len(mAcpiDmarTable) : mAcpiDmarTable[i] \in Range(mAcpiDmarTable)
  BY <1>1
<1>6. /\ Place \in [1 .. Len(Drhds) -> 1 .. Len(mAcpiDmarTable)]
      /\ \A j \in 1 .. Len(Drhds) : Drhds[j] = mAcpiDmarTable[Place[j]] /\ mAcpiDmarTable[Place[j]] \in Keep
      /\ \A j, k \in 1 .. Len(Drhds) : j < k => Place[j] < Place[k]
      /\ \A i \in 1 .. Len(mAcpiDmarTable) :
           mAcpiDmarTable[i] \in Keep => \E j \in 1 .. Len(Drhds) : Place[j] = i
  <2> HIDE DEF Keep
  <2> QED
    BY <1>2, <1>3 DEF Places
<1>7. \A i \in 1 .. Len(mAcpiDmarTable) :
        IsDrhd(mAcpiDmarTable[i]) => \E j \in 1 .. Len(Drhds) : Place[j] = i
  BY <1>5, <1>6
<1>8. \A j \in 1 .. Len(Drhds) :
        /\ Drhds[j] = mAcpiDmarTable[Place[j]] /\ IsDrhd(Drhds[j])
        /\ Drhds[j].base \in DOMAIN platform.tables /\ IsSequence(Drhds[j].scopes)
  BY <1>6, <1>1 DEF IsDmar, IsDrhd
<1> QED
  BY <1>3, <1>4, <1>6, <1>7, <1>8 DEF DrhdPlaces

(* The next structure is the next DRHD, or none.                            *)
LEMMA NextDrhd ==
  ASSUME DrhdPlaces, TypeOK, DrhdInv, pc = "Drhd", at <= Len(mAcpiDmarTable)
  PROVE  /\ at \in 1 .. Len(mAcpiDmarTable)
         /\ IsDrhd(mAcpiDmarTable[at]) =>
              /\ VtdIndex + 1 \in 1 .. Len(Drhds) /\ mAcpiDmarTable[at] = Drhds[VtdIndex + 1]
              /\ \A j \in 1 .. Len(Drhds) : Place[j] < at + 1 <=> j <= VtdIndex + 1
         /\ ~IsDrhd(mAcpiDmarTable[at]) => \A j \in 1 .. Len(Drhds) : Place[j] < at + 1 <=> j <= VtdIndex
<1>1. at \in 1 .. Len(mAcpiDmarTable) /\ VtdIndex \in 0 .. Len(Drhds) /\ Len(Drhds) \in Nat /\ Len(mAcpiDmarTable) \in Nat
      /\ \A j \in 1 .. Len(Drhds) : Place[j] < at <=> j <= VtdIndex
  BY DEF TypeOK, DrhdInv, DrhdPlaces
<1>2. \A j \in 1 .. Len(Drhds) : Place[j] \in 1 .. Len(mAcpiDmarTable)
  BY DEF DrhdPlaces
<1>3. CASE IsDrhd(mAcpiDmarTable[at])
  <2>1. PICK j \in 1 .. Len(Drhds) : Place[j] = at
    BY <1>1, <1>3 DEF DrhdPlaces
  <2>2. ~(j <= VtdIndex)
    BY <1>1, <2>1
  <2>3. VtdIndex + 1 <= j /\ VtdIndex + 1 \in 1 .. Len(Drhds)
    BY <1>1, <2>1, <2>2
  <2>4. ~(VtdIndex + 1 < j)
    <3>1. ~(Place[VtdIndex + 1] < at)
      BY <1>1, <2>3
    <3> QED
      BY <3>1, <2>1, <2>3, <1>1, <1>2 DEF DrhdPlaces
  <2>5. j = VtdIndex + 1
    BY <2>3, <2>4, <1>1
  <2>6. mAcpiDmarTable[at] = Drhds[VtdIndex + 1]
    BY <2>1, <2>5 DEF DrhdPlaces
  <2>7. ASSUME NEW i \in 1 .. Len(Drhds) PROVE Place[i] < at + 1 <=> i <= VtdIndex + 1
    <3>1. CASE i <= VtdIndex
      BY <3>1, <1>1, <1>2
    <3>2. CASE i = j
      BY <3>2, <2>1, <2>5, <1>1
    <3>3. CASE i > j
      <4>1. Place[j] < Place[i]
        BY <3>3 DEF DrhdPlaces
      <4> QED
        BY <4>1, <3>3, <2>1, <2>5, <1>1, <1>2
    <3> QED
      BY <3>1, <3>2, <3>3, <2>5, <1>1
  <2> QED
    BY <1>1, <1>3, <2>3, <2>6, <2>7
<1>4. CASE ~IsDrhd(mAcpiDmarTable[at])
  <2>1. \A j \in 1 .. Len(Drhds) : Place[j] # at
    BY <1>4, <1>1 DEF DrhdPlaces
  <2> QED
    BY <1>1, <1>2, <1>4, <2>1
<1> QED
  BY <1>3, <1>4

(* The entry that NextStructure fills in for a DRHD.                        *)
Fresh(s) == [base |-> s.base, Segment |-> s.Segment, IncludeAllFlag |-> s.includeAll,
             PciDeviceData |-> <<>>, PciDeviceDataMaxNumber |-> 0]

Filled(units, k, s) ==
  units = [mVtdUnitInformation EXCEPT ![k].base = s.base,
                                      ![k].Segment = s.Segment,
                                      ![k].IncludeAllFlag = s.includeAll]

(* A function on the first n numbers is a sequence.                         *)
LEMMA SequenceOfFunction ==
  ASSUME NEW T, NEW n \in Nat, NEW s \in [1 .. n -> T]
  PROVE  IsSequence(s) /\ Len(s) = n
<1>1. s \in Seq(T) /\ Len(s) = n
  OBVIOUS
<1> QED
  BY <1>1, IsSeq

(* NextStructure fills one unit.                                            *)
LEMMA NextUnit ==
  ASSUME IsSequence(mVtdUnitInformation), NEW k \in 1 .. Len(mVtdUnitInformation),
         mVtdUnitInformation[k] = ZeroUnit, NEW s,
         NEW units, Filled(units, k, s)
  PROVE  /\ IsSequence(units) /\ Len(units) = Len(mVtdUnitInformation)
         /\ DOMAIN units = 1 .. Len(mVtdUnitInformation)
         /\ units[k] = Fresh(s)
         /\ \A i \in 1 .. Len(mVtdUnitInformation) : i # k => units[i] = mVtdUnitInformation[i]
<1> DEFINE U == mVtdUnitInformation
<1>1. U \in Seq(Range(U)) /\ DOMAIN U = 1 .. Len(U) /\ Len(U) \in Nat
  BY DEF IsSequence
<1>2. /\ DOMAIN units = 1 .. Len(U)
      /\ \A i \in 1 .. Len(U) : i # k => units[i] = U[i]
      /\ DOMAIN units[k] = DOMAIN ZeroUnit
      /\ units[k].base = s.base /\ units[k].Segment = s.Segment /\ units[k].IncludeAllFlag = s.includeAll
      /\ units[k].PciDeviceData = ZeroUnit.PciDeviceData
      /\ units[k].PciDeviceDataMaxNumber = ZeroUnit.PciDeviceDataMaxNumber
  BY <1>1 DEF ZeroUnit, Filled
<1>3. units[k] = [x \in DOMAIN units[k] |-> units[k][x]]
  <2> DEFINE V == [U EXCEPT ![k].base = s.base, ![k].Segment = s.Segment]
  <2>1. units[k] = [V[k] EXCEPT !.IncludeAllFlag = s.includeAll]
    BY <1>1 DEF Filled
  <2> HIDE DEF V
  <2> QED
    BY <2>1
<1>4. units[k] = Fresh(s)
  <2> DEFINE r == units[k]
  <2> HIDE DEF r
  <2>1. r = [x \in DOMAIN r |-> r[x]]
    BY <1>3 DEF r
  <2>2. /\ DOMAIN r = {"base", "Segment", "IncludeAllFlag", "PciDeviceData", "PciDeviceDataMaxNumber"}
        /\ r.base = s.base /\ r.Segment = s.Segment /\ r.IncludeAllFlag = s.includeAll
        /\ r.PciDeviceData = <<>> /\ r.PciDeviceDataMaxNumber = 0
    BY <1>2 DEF r, ZeroUnit
  <2>3. r = Fresh(s)
    BY <2>1, <2>2 DEF Fresh
  <2> QED
    BY <2>3 DEF r
<1> DEFINE T == Range(U) \cup {Fresh(s)}
<1>5. units \in [1 .. Len(U) -> T]
  <2>1. \A i \in 1 .. Len(U) : U[i] \in Range(U)
    BY <1>1
  <2>2. \A i \in 1 .. Len(U) : units[i] \in T
    <3> TAKE i \in 1 .. Len(U)
    <3>1. CASE i = k
      BY <3>1, <1>4
    <3>2. CASE i # k
      BY <3>2, <2>1, <1>2
    <3> QED
      BY <3>1, <3>2
  <2>3. units = [i \in 1 .. Len(U) |-> units[i]]
    BY <1>1 DEF Filled
  <2> HIDE DEF U, T
  <2> QED
    BY <2>2, <2>3
<1>6. IsSequence(units) /\ Len(units) = Len(U)
  <2> HIDE DEF T
  <2> QED
    BY <1>5, <1>1, SequenceOfFunction
<1> QED
  BY <1>2, <1>4, <1>6

(* A unit starts without devices.                                           *)
LEMMA FreshUnit ==
  ASSUME NEW s, s.base \in DOMAIN platform.tables
  PROVE  IsUnit(Fresh(s)) /\ SourcesOf(Fresh(s)) = {}
<1> DEFINE u == Fresh(s)
<1>1. /\ u.base = s.base /\ u.Segment = s.Segment /\ u.IncludeAllFlag = s.includeAll
      /\ u.PciDeviceData = <<>> /\ u.PciDeviceDataMaxNumber = 0
  BY DEF Fresh
<1>2. u = [base |-> u.base, Segment |-> u.Segment, IncludeAllFlag |-> u.IncludeAllFlag,
           PciDeviceData |-> u.PciDeviceData, PciDeviceDataMaxNumber |-> u.PciDeviceDataMaxNumber]
  BY <1>1 DEF Fresh
<1> HIDE DEF u
<1>3. IsSequence(<<>>) /\ DOMAIN <<>> = {}
  BY DEF IsSequence
<1>4. IsUnit(u) /\ SourcesOf(u) = {}
  BY <1>1, <1>2, <1>3 DEF IsUnit, SourcesOf
<1> QED
  BY <1>4 DEF u

(* The DRHDs change with the table only.                                    *)
LEMMA DrhdsStay == mAcpiDmarTable' = mAcpiDmarTable => Drhds' = Drhds /\ Place' = Place
BY DEF Drhds, Place

(* A step of ScanPciBus that does not end the DRHDs, for the function f.    *)
Scans(f) ==
  /\ f = NextOn(Head(scan)) /\ f \in Head(scan).left
  /\ Registers(mVtdUnitInformation', VtdIndex, Tail(f), "success")
  /\ scan' = (IF Enters(f) THEN <<Frame(Secondary(f))>> ELSE <<>>)
               \o <<[Head(scan) EXCEPT !.left = @ \ {f}]>> \o Tail(scan)
  /\ UNCHANGED <<pc, parsed, at, scopes, VtdIndex>>

(* ScanPciBus registers the next function of the innermost bus, or gives    *)
(* up.                                                                      *)
LEMMA ScanStep ==
  ASSUME TypeOK, UnitsInv, DrhdInv, ScanPciBus
  PROVE  /\ scan # <<>> /\ VtdIndex \in 1 .. Len(mVtdUnitInformation)
         /\ outOfMemory' = outOfMemory
         /\ Abort \/ \E f : Scans(f)
<1> DEFINE f == NextOn(Head(scan))
           DeviceType == IF IsBridge(f) THEN "bridge" ELSE "endpoint"
<1>1. pc = "Drhd" /\ scan # <<>> /\ Head(scan).left # {} /\ outOfMemory' = outOfMemory
  BY DEF ScanPciBus, lists
<1>2. /\ VtdIndex \in 1 .. Len(mVtdUnitInformation)
      /\ IsSequence(mVtdUnitInformation) /\ DOMAIN mVtdUnitInformation = 1 .. Len(mVtdUnitInformation)
      /\ \A i \in DOMAIN mVtdUnitInformation : IsUnit(mVtdUnitInformation[i])
  BY <1>1 DEF UnitsInv, DrhdInv, IsSequence, TypeOK
<1>3. Head(scan) \in Range(scan)
  BY <1>1 DEF DrhdInv, IsSequence
<1>4. f \in Head(scan).left
  <2>1. Head(scan).left \subseteq FunctionsOn(Unit.Segment, Head(scan).Bus)
    BY <1>1, <1>3 DEF DrhdInv
  <2> QED
    BY <2>1, <1>1, NextOnFrame
<1> HIDE DEF f
<1>5. PICK o \in RegisterPciDevice(VtdIndex, Unit.Segment, Tail(f), DeviceType, FALSE) :
        IF o.status # "success" THEN Abort
        ELSE /\ mVtdUnitInformation' = o.units
             /\ scan' = (IF Enters(f) THEN <<Frame(Secondary(f))>> ELSE <<>>)
                          \o <<[Head(scan) EXCEPT !.left = @ \ {f}]>> \o Tail(scan)
             /\ UNCHANGED <<pc, parsed, at, scopes, VtdIndex>>
  BY Zenon DEF ScanPciBus, f
<1>6. CASE o.status # "success"
  BY <1>1, <1>2, <1>5, <1>6
<1>7. CASE o.status = "success"
  <2>1. Registers(o.units, VtdIndex, Tail(f), o.status)
    BY <1>2, RegisterPciDeviceDoes DEF Unit
  <2>2. Scans(f)
    BY <1>4, <1>5, <1>7, <2>1 DEF Scans, f
  <2> QED
    BY <1>1, <1>2, <2>2
<1> QED
  BY <1>6, <1>7

(* A step of ProcessScope that does not end the DRHDs.                      *)
ScopeNow == GetPciBusDeviceFunction(Unit.Segment, Head(scopes))
Looks(status) ==
  /\ Registers(mVtdUnitInformation', VtdIndex, ScopeNow, status)
  /\ ~outOfMemory' => status # "outOfResources"
  /\ scopes' = Tail(scopes)
  /\ scan' = IF Head(scopes).Type = "bridge" THEN <<Frame(Secondary(<<Unit.Segment>> \o ScopeNow))>> ELSE <<>>
  /\ UNCHANGED <<pc, parsed, at, VtdIndex>>

(* ProcessScope registers the device of the next scope, or gives up.        *)
LEMMA ScopeStep ==
  ASSUME TypeOK, UnitsInv, DrhdInv, ProcessScope
  PROVE  /\ scopes # <<>> /\ scan = <<>> /\ VtdIndex \in 1 .. Len(mVtdUnitInformation)
         /\ outOfMemory => outOfMemory'
         /\ Abort \/ \E status : Looks(status)
<1> DEFINE scope == Head(scopes)
<1>1. pc = "Drhd" /\ scopes # <<>> /\ scan = <<>>
  BY Zenon DEF ProcessScope
<1>2. /\ VtdIndex \in 1 .. Len(mVtdUnitInformation)
      /\ IsSequence(mVtdUnitInformation) /\ DOMAIN mVtdUnitInformation = 1 .. Len(mVtdUnitInformation)
      /\ \A i \in DOMAIN mVtdUnitInformation : IsUnit(mVtdUnitInformation[i])
  BY <1>1 DEF UnitsInv, DrhdInv, IsSequence, TypeOK
<1>5. PICK o \in RegisterPciDevice(VtdIndex, Unit.Segment, ScopeNow, scope.Type, TRUE) :
        /\ ~outOfMemory' => ~outOfMemory /\ o.status # "outOfResources"
        /\ IF o.status # "success" /\ scope.Type \in {"endpoint", "bridge"} THEN Abort
           ELSE /\ mVtdUnitInformation' = o.units
                /\ scopes' = Tail(scopes)
                /\ scan' = IF scope.Type = "bridge"
                           THEN <<Frame(Secondary(<<Unit.Segment>> \o ScopeNow))>> ELSE <<>>
                /\ UNCHANGED <<pc, parsed, at, VtdIndex>>
  BY Zenon DEF ProcessScope, ScopeNow
<1>6. CASE o.status # "success" /\ scope.Type \in {"endpoint", "bridge"}
  <2>1. Abort /\ (outOfMemory => outOfMemory')
    BY <1>5, <1>6, Zenon
  <2> QED
    BY <1>1, <1>2, <2>1, Zenon
<1>7. CASE ~(o.status # "success" /\ scope.Type \in {"endpoint", "bridge"})
  <2>1. Registers(o.units, VtdIndex, ScopeNow, o.status)
    BY <1>2, RegisterPciDeviceDoes DEF Unit
  <2>2. Looks(o.status)
    BY <1>5, <1>7, <2>1, Zenon DEF Looks
  <2> QED
    BY <1>1, <1>2, <1>5, <2>2, Zenon
<1> QED
  BY <1>6, <1>7

(* Every step keeps the units well-formed.                                  *)
LEMMA UnitsNext == TypeOK /\ TableInv /\ UnitsInv /\ DrhdInv /\ [Next]_vars => UnitsInv'
<1> SUFFICES ASSUME TypeOK, TableInv, UnitsInv, DrhdInv, [Next]_vars PROVE UnitsInv'
  OBVIOUS
<1> DEFINE Good(units) == IsSequence(units) /\ \A i \in DOMAIN units : IsUnit(units[i])
<1>1. \A u : IsUnit(u)' <=> IsUnit(u)
  BY Phases, PlatformStays3 DEF Phase
<1>2. Good(mVtdUnitInformation)
  BY DEF UnitsInv
<1>3. CASE pc \in {"IoMmu", "Acpi"}
  <2>1. mVtdUnitInformation' = mVtdUnitInformation /\ mVtdUnitInformation = <<>> /\ pc' # "Drhd"
    <3>1. pc' # "Drhd"
      BY <1>3, StepsOfPhases, Steps DEF Control, vars
    <3> QED
      BY <1>3, <3>1, Phases DEF Phase, UnitsInv
  <2> QED
    BY <1>1, <1>2, <2>1 DEF UnitsInv
<1>4. CASE pc = "Engines"
  <2>1. CASE AllocateUnits
    <3>1. CASE mVtdUnitInformation' = mVtdUnitInformation /\ pc' = "Assert"
      BY <1>1, <1>2, <3>1 DEF UnitsInv
    <3>2. CASE mVtdUnitInformation' = [i \in 1 .. GetVtdEngineNumber |-> ZeroUnit] /\ pc' = "Drhd"
      <4>1. Drhds' = Drhds /\ Len(Drhds) \in Nat
        BY <1>4, Phases, DrhdsStay, PlacesOfDrhds DEF Phase, DrhdPlaces, TableInv
      <4> DEFINE units == [i \in 1 .. Len(Drhds) |-> ZeroUnit]
      <4>2. IsSequence(units) /\ Len(units) = Len(Drhds)
        <5>1. units \in [1 .. Len(Drhds) -> {ZeroUnit}]
          OBVIOUS
        <5> HIDE DEF units
        <5> QED
          BY <5>1, <4>1, SequenceOfFunction
      <4>3. IsUnit(ZeroUnit)
        BY DEF ZeroUnit, IsUnit, IsSequence
      <4>4. mVtdUnitInformation' = units
        BY <3>2 DEF GetVtdEngineNumber
      <4>5. \A i \in DOMAIN units : units[i] = ZeroUnit
        OBVIOUS
      <4> HIDE DEF units
      <4>6. Good(units)
        BY <4>2, <4>3, <4>5
      <4> QED
        BY <1>1, <3>2, <4>1, <4>2, <4>4, <4>6 DEF UnitsInv
    <3> QED
      BY <2>1, <3>1, <3>2 DEF AllocateUnits
  <2>2. CASE UNCHANGED vars
    BY <1>4, <1>1, <2>2 DEF vars, engines, UnitsInv
  <2> QED
    BY <1>4, <2>1, <2>2, StepsOfPhases
<1>5. CASE pc = "Drhd"
  <2>1. Drhds' = Drhds /\ Len(mVtdUnitInformation) = Len(Drhds) /\ pc' \in {"Drhd", "Rmrr"}
    <3>1. pc' \in {"Drhd", "Rmrr"}
      BY <1>5, StepsOfPhases, Steps DEF Control, vars
    <3> QED
      BY <1>5, <3>1, Phases, DrhdsStay DEF Phase, UnitsInv
  <2> SUFFICES Good(mVtdUnitInformation') /\ Len(mVtdUnitInformation') = Len(mVtdUnitInformation)
    BY <1>1, <2>1 DEF UnitsInv
  <2>2. CASE mVtdUnitInformation' = mVtdUnitInformation
    BY <2>2, <1>2
  <2>3. \A k, source, status : Registers(mVtdUnitInformation', k, source, status) =>
          Good(mVtdUnitInformation') /\ Len(mVtdUnitInformation') = Len(mVtdUnitInformation)
    BY Zenon DEF Registers
  <2>4. CASE NextStructure
    <3>1. CASE ~IsDrhd(mAcpiDmarTable[at])
      BY <2>2, <2>4, <3>1 DEF NextStructure
    <3>2. CASE IsDrhd(mAcpiDmarTable[at])
      <4> DEFINE k == VtdIndex + 1
                 s == Drhds[k]
      <4>0. DrhdPlaces
        BY <1>5, PlacesOfDrhds DEF TableInv
      <4>1. k \in 1 .. Len(Drhds) /\ mAcpiDmarTable[at] = Drhds[k]
        BY <2>4, <3>2, <4>0, NextDrhd DEF NextStructure
      <4>2. Filled(mVtdUnitInformation', k, mAcpiDmarTable[at])
        BY <2>4, <3>2 DEF NextStructure, Filled
      <4>3. mVtdUnitInformation[k] = ZeroUnit
        <5>1. k \in VtdIndex + 1 .. Len(Drhds)
          BY <4>1 DEF TypeOK
        <5> QED
          BY <1>5, <5>1 DEF DrhdInv
      <4>4. s.base \in DOMAIN platform.tables
        BY <4>0, <4>1 DEF DrhdPlaces
      <4> HIDE DEF k, s
      <4>5. Filled(mVtdUnitInformation', k, s)
        BY <4>1, <4>2 DEF s
      <4>6. IsSequence(mVtdUnitInformation) /\ k \in 1 .. Len(mVtdUnitInformation)
        BY <2>1, <4>1 DEF UnitsInv
      <4>7. /\ IsSequence(mVtdUnitInformation') /\ Len(mVtdUnitInformation') = Len(mVtdUnitInformation)
            /\ DOMAIN mVtdUnitInformation' = 1 .. Len(mVtdUnitInformation)
            /\ mVtdUnitInformation'[k] = Fresh(s)
            /\ \A i \in 1 .. Len(mVtdUnitInformation) : i # k => mVtdUnitInformation'[i] = mVtdUnitInformation[i]
        BY <4>3, <4>5, <4>6, NextUnit
      <4>8. IsUnit(Fresh(s)) /\ DOMAIN mVtdUnitInformation = 1 .. Len(mVtdUnitInformation)
        BY <4>4, <4>6, FreshUnit DEF IsSequence
      <4> QED
        BY <4>7, <4>8, <1>2
    <3> QED
      BY <3>1, <3>2
  <2>5. CASE ScanPciBus
    BY <2>5, <2>2, <2>3, ScanStep DEF Abort, Scans
  <2>6. CASE EndOfBus
    BY <2>6, <2>2 DEF EndOfBus, engines
  <2>7. CASE ProcessScope
    <3>1. Abort \/ \E status : Looks(status)
      BY <2>7, ScopeStep, Zenon
    <3>2. CASE Abort
      BY <3>2, <2>2 DEF Abort
    <3>3. CASE \E status : Looks(status)
      BY <3>3, <2>3, Zenon DEF Looks
    <3> QED
      BY <3>1, <3>2, <3>3
  <2>8. CASE DrhdDone
    BY <2>8, <2>2 DEF DrhdDone
  <2>9. CASE UNCHANGED vars
    BY <2>9, <2>2 DEF vars, engines
  <2> QED
    BY <1>5, <2>4, <2>5, <2>6, <2>7, <2>8, <2>9, StepsOfPhases
<1>6. CASE pc \notin {"IoMmu", "Acpi", "Engines", "Drhd"}
  <2>1. pc' \notin {"IoMmu", "Acpi", "Engines", "Drhd"}
    <3>1. CASE UNCHANGED vars
      BY <1>6, <3>1 DEF vars
    <3>2. CASE ~UNCHANGED vars
      BY <1>6, <3>2, StepsOfPhases, Steps DEF Control
    <3> QED
      BY <3>1, <3>2
  <2>2. mVtdUnitInformation' = mVtdUnitInformation
    BY <1>6, Phases DEF Phase
  <2> QED
    BY <1>1, <1>2, <2>1, <2>2 DEF UnitsInv
<1> QED
  BY <1>3, <1>4, <1>5, <1>6

(* The order of the phases.                                                 *)
Order ==
  /\ pc = "IoMmu" => pc' \in {"IoMmu", "Acpi"}
  /\ pc = "Acpi" => pc' \in {"Acpi", "Exceptions", "Engines"}
  /\ pc = "Engines" => pc' \in {"Engines", "Assert", "Drhd"}
  /\ pc = "Drhd" => pc' \in {"Drhd", "Rmrr"}
  /\ pc = "Rmrr" => pc' \in {"Rmrr", "Exceptions"}
  /\ pc = "Exceptions" => pc' \in {"Exceptions", "Translation"}
  /\ pc = "Translation" => pc' \in {"Translation", "PASS", "FAIL", "Wild"}
  /\ pc \in {"PASS", "FAIL", "Wild", "Assert"} => pc' = pc

(* No step leads back to a phase before.                                    *)
LEMMA Ordered == [Next]_vars => Order
<1> SUFFICES ASSUME [Next]_vars PROVE Order
  OBVIOUS
<1>1. CASE UNCHANGED vars
  BY <1>1 DEF vars, Order
<1>2. CASE Next
  <2>1. \E a, b : Control(a, b) /\ Order
    BY <1>2, Steps DEF Next, Control, Order
  <2> QED
    BY <2>1
<1> QED
  BY <1>1, <1>2

(* Before the DRHDs are parsed nothing has happened to the loops.           *)
LEMMA StartNext == TypeOK /\ StartInv /\ [Next]_vars => StartInv'
<1> SUFFICES ASSUME TypeOK, StartInv, [Next]_vars, pc' \in {"IoMmu", "Acpi", "Engines"}
             PROVE  ~outOfMemory' /\ at' = 1 /\ VtdIndex' = 0 /\ scan' = <<>> /\ scopes' = <<>>
  BY DEF StartInv
<1>1. pc \in {"IoMmu", "Acpi", "Engines"}
  BY Ordered DEF Order, TypeOK
<1>2. outOfMemory' = outOfMemory
  BY <1>1, Phases DEF Phase
<1>3. UNCHANGED loops
  BY <1>1, StepsOfPhases DEF DumpIoMmuMap, GetDmarAcpiTable, AllocateUnits, vars
<1> QED
  BY <1>1, <1>2, <1>3 DEF StartInv, loops

(* The exceptions are those of the platform, and the structures those of    *)
(* the table.                                                               *)
LEMMA WhatStays ==
  ASSUME platform' = platform
  PROVE  /\ ExceptionEntries' = ExceptionEntries
         /\ \A S, source : Excepted(S, source)' <=> Excepted(S, source)
         /\ \A S, source : MappedFor(S, source)' = MappedFor(S, source)
         /\ \A r, s : InTable(r, s)' <=> InTable(r, s)
         /\ \A s : RmrrRecords(s)' = RmrrRecords(s)
         /\ mAcpiDmarTable' = mAcpiDmarTable =>
              /\ Structures' = Structures /\ (Direct' <=> Direct)
              /\ \A S, source : Reserved(S, source)' = Reserved(S, source)
<1>1. ExceptionEntries' = ExceptionEntries
  BY DEF ExceptionEntries
<1>2. \A S, source : Excepted(S, source)' <=> Excepted(S, source)
  BY <1>1, PlatformStays1 DEF Excepted
<1>3. \A S, source : MappedFor(S, source)' = MappedFor(S, source)
  BY DEF MappedFor
<1>4. \A r, s : InTable(r, s)' <=> InTable(r, s)
  BY PlatformStays1 DEF InTable
<1>5. \A s : RmrrRecords(s)' = RmrrRecords(s)
  BY PlatformStays1 DEF RmrrRecords
<1>6. ASSUME mAcpiDmarTable' = mAcpiDmarTable
      PROVE  /\ Structures' = Structures /\ (Direct' <=> Direct)
             /\ \A S, source : Reserved(S, source)' = Reserved(S, source)
  <2>1. Structures' = Structures
    BY <1>6 DEF Structures
  <2>2. Direct' <=> Direct
    BY <1>1, <2>1 DEF Direct
  <2>3. \A S, source : Reserved(S, source)' = Reserved(S, source)
    BY <2>1, PlatformStays1 DEF Reserved
  <2> QED
    BY <2>1, <2>2, <2>3
<1> QED
  BY <1>1, <1>2, <1>3, <1>4, <1>5, <1>6

(* The endpoints of an RMRR are its scopes, up to the first other one.      *)
LEMMA EndpointsOf ==
  ASSUME NEW s, IsSequence(s.scopes)
  PROVE  \A i \in DOMAIN Endpoints(s) : i \in DOMAIN s.scopes /\ Endpoints(s)[i] = s.scopes[i]
<1> DEFINE others == {i \in DOMAIN s.scopes : s.scopes[i].Type # "endpoint"}
<1>0. s.scopes \in Seq(Range(s.scopes)) /\ DOMAIN s.scopes = 1 .. Len(s.scopes) /\ Len(s.scopes) \in Nat
  BY DEF IsSequence
<1>1. CASE others = {}
  BY <1>1 DEF Endpoints
<1>2. CASE others # {}
  <2>1. others \in SUBSET Nat /\ others \subseteq 1 .. Len(s.scopes)
    BY <1>0
  <2>2. Endpoints(s) = SubSeq(s.scopes, 1, Min(others) - 1)
    BY <1>2 DEF Endpoints
  <2> HIDE DEF others
  <2>3. Min(others) \in 1 .. Len(s.scopes)
    BY <1>2, <2>1, MinOf
  <2>4. PICK m \in 1 .. Len(s.scopes) : m = Min(others)
    BY <2>3
  <2>5. Endpoints(s) = SubSeq(s.scopes, 1, m - 1)
    BY <2>2, <2>4
  <2> QED
    BY <1>0, <2>5
<1> QED
  BY <1>1, <1>2

(* A record comes from a scope of its RMRR.                                 *)
LEMMA RecordsInTable ==
  ASSUME NEW s, s.Type = "RMRR", IsSequence(s.scopes), NEW r \in RmrrRecords(s)
  PROVE  InTable(r, s)
<1>1. PICK i \in DOMAIN Endpoints(s) :
        r = [Segment |-> s.Segment, source |-> GetPciBusDeviceFunction(s.Segment, Endpoints(s)[i]),
             Address |-> s.Base, Length |-> s.Limit + 1 - s.Base]
  BY DEF RmrrRecords
<1>2. i \in DOMAIN s.scopes /\ Endpoints(s)[i] = s.scopes[i]
  BY EndpointsOf
<1>3. r.Segment = s.Segment /\ r.source = GetPciBusDeviceFunction(s.Segment, s.scopes[i])
  BY <1>1, <1>2
<1> QED
  BY <1>2, <1>3 DEF InTable

(* The DRHDs end at the first structure again.                              *)
LEMMA DrhdEnds ==
  ASSUME TypeOK, UnitsInv, DrhdInv, [Next]_vars, pc = "Drhd", pc' = "Rmrr"
  PROVE  at' = 1
<1>1. ~UNCHANGED vars
  BY DEF vars
<1>2. CASE NextStructure
  BY <1>2 DEF NextStructure
<1>3. CASE ScanPciBus
  <2>1. Abort \/ pc' = pc
    BY <1>3, ScanStep DEF Scans
  <2> QED
    BY <2>1 DEF Abort, EndOfDrhd
<1>4. CASE EndOfBus
  BY <1>4 DEF EndOfBus
<1>5. CASE ProcessScope
  <2>1. Abort \/ pc' = pc
    BY <1>5, ScopeStep, Zenon DEF Looks
  <2> QED
    BY <2>1 DEF Abort, EndOfDrhd
<1>6. CASE DrhdDone
  BY <1>6 DEF DrhdDone, EndOfDrhd
<1> QED
  BY <1>1, <1>2, <1>3, <1>4, <1>5, <1>6, StepsOfPhases

(* What ProcessRmrr does with the structure it has come to.                 *)
Keeps(s) ==
  /\ \/ (at' = at + 1 /\ pc' = "Rmrr")
     \/ (at' = 1 /\ pc' = "Exceptions" /\ s.Type = "RMRR" /\ Endpoints(s) # s.scopes)
  /\ s.Type # "RMRR" => gRmrrRecord' = gRmrrRecord
  /\ s.Type = "RMRR" =>
       /\ gRmrrRecord \subseteq gRmrrRecord' /\ gRmrrRecord' \subseteq gRmrrRecord \cup RmrrRecords(s)
       /\ ~outOfMemory' => RmrrRecords(s) \subseteq gRmrrRecord'
  /\ ~outOfMemory' => ~outOfMemory

(* ProcessRmrr records what the structure reserves, as memory permits.      *)
LEMMA RmrrStep == ProcessRmrr => pc = "Rmrr" /\ at <= Len(mAcpiDmarTable) /\ Keeps(mAcpiDmarTable[at])
<1> SUFFICES ASSUME ProcessRmrr PROVE at <= Len(mAcpiDmarTable) /\ Keeps(mAcpiDmarTable[at])
  BY DEF ProcessRmrr
<1> DEFINE s == mAcpiDmarTable[at]
<1>1. pc = "Rmrr" /\ at <= Len(mAcpiDmarTable)
  BY DEF ProcessRmrr
<1>2. CASE s.Type # "RMRR"
  <2>1. at' = at + 1 /\ UNCHANGED <<pc, gRmrrRecord, outOfMemory>>
    BY <1>2, Zenon DEF ProcessRmrr
  <2> QED
    BY <1>1, <1>2, <2>1 DEF Keeps
<1>3. CASE s.Type = "RMRR"
  <2>1. /\ InsertInto(gRmrrRecord, RmrrRecords(s))
        /\ IF Endpoints(s) = s.scopes THEN at' = at + 1 /\ UNCHANGED pc ELSE at' = 1 /\ pc' = "Exceptions"
    BY <1>3, Zenon DEF ProcessRmrr
  <2>2. PICK kept \in SUBSET RmrrRecords(s) :
          gRmrrRecord' = gRmrrRecord \cup kept /\ outOfMemory' = (outOfMemory \/ kept # RmrrRecords(s))
    BY <2>1, Zenon DEF InsertInto
  <2>3. ~outOfMemory' => ~outOfMemory /\ kept = RmrrRecords(s)
    BY <2>2, Zenon
  <2>4. \/ (at' = at + 1 /\ pc' = "Rmrr")
        \/ (at' = 1 /\ pc' = "Exceptions" /\ s.Type = "RMRR" /\ Endpoints(s) # s.scopes)
    BY <1>1, <1>3, <2>1
  <2>5. gRmrrRecord' = gRmrrRecord \cup kept
    BY <2>2, Zenon
  <2>6. gRmrrRecord \subseteq gRmrrRecord' /\ gRmrrRecord' \subseteq gRmrrRecord \cup RmrrRecords(s)
    BY <2>5
  <2>7. ~outOfMemory' => RmrrRecords(s) \subseteq gRmrrRecord'
    BY <2>3, <2>5, Zenon
  <2> HIDE DEF s
  <2>8. Keeps(s)
    BY <1>3, <2>3, <2>4, <2>6, <2>7, Zenon DEF Keeps
  <2> QED
    BY <1>1, <2>8 DEF s
<1> QED
  BY <1>2, <1>3

(* Every step keeps the records of RMRRs true to the table.                 *)
LEMMA RmrrNext ==
  TypeOK /\ TableInv /\ UnitsInv /\ DrhdInv /\ StartInv /\ RmrrInv /\ [Next]_vars => RmrrInv'
<1> SUFFICES ASSUME TypeOK, TableInv, UnitsInv, DrhdInv, StartInv, RmrrInv, [Next]_vars PROVE RmrrInv'
  OBVIOUS
<1>0. platform' = platform /\ (\A r, s : InTable(r, s)' <=> InTable(r, s)) /\ (\A s : RmrrRecords(s)' = RmrrRecords(s))
  BY Phases, WhatStays DEF Phase
<1>6. mAcpiDmarTable' = mAcpiDmarTable => Structures' = Structures /\ (Direct' <=> Direct)
  BY <1>0, WhatStays
<1>1. CASE pc \in {"IoMmu", "Acpi"}
  <2>1. gRmrrRecord' = {} /\ pc' \in {"IoMmu", "Acpi", "Engines", "Exceptions"}
    BY <1>1, Phases, Ordered DEF Phase, Order, RmrrInv
  <2>2. pc' = "Exceptions" => mAcpiDmarTable' = NULL
    BY <1>1, StepsOfPhases DEF GetDmarAcpiTable, DumpIoMmuMap, vars
  <2>3. pc' = "Exceptions" => Structures' = <<>>
    BY <2>2 DEF Structures
  <2> QED
    BY <2>1, <2>3 DEF RmrrInv
<1>2. CASE pc = "Engines"
  <2>1. gRmrrRecord' = {} /\ pc' \in {"Engines", "Assert", "Drhd"}
    BY <1>2, Phases, Ordered DEF Phase, Order, RmrrInv
  <2> QED
    BY <2>1 DEF RmrrInv
<1>3. CASE pc = "Drhd"
  <2>1. gRmrrRecord' = {} /\ pc' \in {"Drhd", "Rmrr"} /\ (pc' = "Rmrr" => at' = 1)
    BY <1>3, Phases, Ordered, DrhdEnds DEF Phase, Order, RmrrInv
  <2>2. Structures' = Structures
    BY <1>3, <1>6, Phases DEF Phase
  <2>3. \A i \in DOMAIN Structures : i \in Nat /\ ~(i < 1)
    <3>1. DOMAIN Structures = 1 .. Len(Structures) /\ Len(Structures) \in Nat
      BY DEF Structures, TableInv, IsDmar, IsSequence
    <3> QED
      BY <3>1
  <2> QED
    BY <2>1, <2>2, <2>3 DEF RmrrInv
<1>4. CASE pc = "Rmrr"
  <2>1. Structures = mAcpiDmarTable /\ Structures' = Structures /\ (Direct' <=> Direct)
    BY <1>4, <1>6, Phases DEF Phase, Structures, TableInv
  <2>2. IsSequence(Structures) /\ DOMAIN Structures = 1 .. Len(Structures) /\ Len(Structures) \in Nat
        /\ Range(Structures) = {Structures[i] : i \in 1 .. Len(Structures)}
    BY <1>4, <2>1 DEF TableInv, IsDmar, IsSequence, Range
  <2>3. CASE UNCHANGED vars
    <3>1. gRmrrRecord' = gRmrrRecord /\ at' = at /\ pc' = pc /\ outOfMemory' = outOfMemory
      BY <2>3 DEF vars, lists, loops
    <3> QED
      BY <1>0, <2>1, <3>1, Zenon DEF RmrrInv
  <2>4. CASE RmrrDone
    <3>1. gRmrrRecord' = gRmrrRecord /\ pc' = "Exceptions" /\ outOfMemory' = outOfMemory /\ at > Len(Structures)
      BY <2>1, <2>4 DEF RmrrDone, lists
    <3>2. \A i \in DOMAIN Structures : i < at
      BY <2>2, <3>1 DEF TypeOK
    <3> QED
      BY <1>0, <1>4, <2>1, <3>1, <3>2 DEF RmrrInv
  <2>5. CASE ProcessRmrr
    <3> DEFINE s == Structures[at]
    <3>1. at \in 1 .. Len(Structures) /\ Keeps(s)
      BY <1>4, <2>1, <2>2, <2>5, RmrrStep DEF RmrrInv, TypeOK
    <3>2. s \in Range(Structures) /\ (s.Type = "RMRR" => IsSequence(s.scopes))
      BY <1>4, <2>1, <2>2, <3>1 DEF TableInv, IsDmar
    <3> HIDE DEF s
    <3>3. ASSUME NEW r \in gRmrrRecord' PROVE \E x \in Range(Structures) : InTable(r, x)
      <4>1. CASE r \in gRmrrRecord
        BY <4>1 DEF RmrrInv
      <4>2. CASE s.Type = "RMRR" /\ r \in RmrrRecords(s)
        BY <4>2, <3>2, RecordsInTable
      <4> QED
        BY <3>1, <3>3, <4>1, <4>2 DEF Keeps
    <3>4. ASSUME Direct, ~outOfMemory', NEW i \in DOMAIN Structures, Structures[i].Type = "RMRR",
                 pc' = "Rmrr" => i < at'
          PROVE  RmrrRecords(Structures[i]) \subseteq gRmrrRecord'
      <4>1. at' = at + 1 /\ pc' = "Rmrr"
        <5>1. ~(s.Type = "RMRR" /\ Endpoints(s) # s.scopes)
          BY <3>2, <3>4, <2>1, <2>2 DEF Direct, ToSet, Range
        <5> QED
          BY <3>1, <5>1 DEF Keeps
      <4>2. i < at \/ i = at
        BY <3>4, <4>1, <2>2, <3>1
      <4>3. CASE i < at
        <5>1. RmrrRecords(Structures[i]) \subseteq gRmrrRecord
          BY <1>4, <3>1, <3>4, <4>3 DEF RmrrInv, Keeps
        <5> QED
          BY <5>1, <3>1 DEF Keeps
      <4>4. CASE i = at
        BY <4>4, <3>1, <3>4 DEF Keeps, s
      <4> QED
        BY <4>2, <4>3, <4>4
    <3>5. pc' = "Rmrr" => at' > 0
      BY <3>1, <2>2 DEF Keeps, TypeOK
    <3>6. pc' \in {"Rmrr", "Exceptions"}
      BY <3>1 DEF Keeps
    <3> QED
      BY <1>0, <2>1, <3>3, <3>4, <3>5, <3>6 DEF RmrrInv
  <2> QED
    BY <1>4, <2>3, <2>4, <2>5, StepsOfPhases
<1>5. CASE pc \in {"Exceptions", "Translation", "PASS", "FAIL", "Wild", "Assert"}
  <2>1. gRmrrRecord' = gRmrrRecord /\ mAcpiDmarTable' = mAcpiDmarTable
    BY <1>5, Phases DEF Phase
  <2>2. pc' \in {"Exceptions", "Translation", "PASS", "FAIL", "Wild", "Assert"}
        /\ (pc \in {"Wild", "Assert"} => pc' = pc)
    BY <1>5, Ordered DEF Order
  <2>3. ~outOfMemory' => ~outOfMemory
    <3>1. CASE pc = "Exceptions"
      <4>1. DumpExceptionRecord => (~outOfMemory' => ~outOfMemory)
        BY Zenon DEF DumpExceptionRecord, InsertInto
      <4>2. ExceptionsDone \/ UNCHANGED vars => outOfMemory' = outOfMemory
        BY DEF ExceptionsDone, vars, lists
      <4> QED
        BY <3>1, <4>1, <4>2, StepsOfPhases, Zenon
    <3>2. CASE pc # "Exceptions"
      BY <1>5, <3>2, Phases DEF Phase
    <3> QED
      BY <3>1, <3>2
  <2> QED
    BY <1>0, <1>5, <1>6, <2>1, <2>2, <2>3 DEF RmrrInv
<1> QED
  BY <1>1, <1>2, <1>3, <1>4, <1>5 DEF TypeOK

(* A path of one element leads to it.                                       *)
LEMMA ShortPath ==
  ASSUME NEW S, NEW scope, Len(scope.path) = 1
  PROVE  GetPciBusDeviceFunction(S, scope) = <<scope.StartBusNumber>> \o scope.path[1]
<1> DEFINE Good(bus) ==
             bus = [i \in 1 .. Len(scope.path) |->
                      IF i = 1 THEN scope.StartBusNumber
                      ELSE Secondary(<<S, bus[i - 1]>> \o scope.path[i - 1])]
           bus == CHOOSE b : Good(b)
           last == IF scope.Type \in {"endpoint", "bridge"} THEN Len(scope.path) ELSE 1
<1>1. Good([i \in 1 .. 1 |-> scope.StartBusNumber])
  <2>1. \A i \in 1 .. 1 : i = 1
    OBVIOUS
  <2> QED
    BY <2>1
<1>2. Good(bus)
  BY <1>1
<1>3. last = 1
  OBVIOUS
<1>4. GetPciBusDeviceFunction(S, scope) = <<bus[last]>> \o scope.path[last]
  BY DEF GetPciBusDeviceFunction
<1>5. bus[1] = scope.StartBusNumber
  BY <1>2
<1> QED
  BY <1>3, <1>4, <1>5

(* An entry that fits what RegisterPciDevice has read fits the function     *)
(* itself: it is none that is not there (PolicyAssumption).                 *)
LEMMA IdOf ==
  ASSUME TypeOK, NEW k \in DOMAIN ExceptionEntries, ExceptionEntries[k].Type = "id",
         \A j \in 1 .. k : ExceptionEntries[j].Type # "end",
         NEW f, NEW type,
         Fits(ExceptionEntries[k].device, PciDeviceId(f, type).device),
         Fits(ExceptionEntries[k].subsystem, PciDeviceId(f, type).subsystem)
  PROVE  /\ Exists(f) /\ Fits(ExceptionEntries[k].device, platform.pci[f].id)
         /\ Fits(ExceptionEntries[k].subsystem, platform.pci[f].subsystem)
<1> DEFINE e == ExceptionEntries[k]
<1>1. /\ e.device \notin {"zero", "ones"} /\ e.subsystem \notin {"zero", "ones"}
      /\ e.device # "any" \/ e.subsystem # "any"
  <2>1. platform.exceptions # NULL /\ ExceptionEntries = platform.exceptions
    BY DEF ExceptionEntries
  <2> QED
    BY <2>1, PolicyAssumption DEF TypeOK
<1>2. CASE type \notin {"endpoint", "bridge"}
  <2>1. PciDeviceId(f, type).device = "zero" /\ PciDeviceId(f, type).subsystem = "zero"
    BY <1>2 DEF PciDeviceId
  <2> QED
    BY <1>1, <2>1 DEF Fits
<1>3. CASE type \in {"endpoint", "bridge"} /\ ~Exists(f)
  <2>1. PciDeviceId(f, type).device = "ones" /\ PciDeviceId(f, type).subsystem = "ones"
    BY <1>3 DEF PciDeviceId
  <2> QED
    BY <1>1, <2>1 DEF Fits
<1>4. CASE type = "endpoint" /\ Exists(f)
  <2>1. /\ PciDeviceId(f, type).device = platform.pci[f].id
        /\ PciDeviceId(f, type).subsystem = platform.pci[f].subsystem
    BY <1>4 DEF PciDeviceId
  <2> QED
    BY <1>4, <2>1
<1>5. CASE type = "bridge" /\ Exists(f)
  <2>1. PciDeviceId(f, type).device = platform.pci[f].id /\ PciDeviceId(f, type).subsystem = "zero"
    BY <1>5 DEF PciDeviceId
  <2> QED
    BY <1>1, <1>5, <2>1 DEF Fits
<1> QED
  BY <1>2, <1>3, <1>4, <1>5

(* What is excepted is what the policy means.                               *)
LEMMA ExceptsExcepted ==
  ASSUME TypeOK, UnitsInv, Direct, NEW k \in DOMAIN ExceptionEntries,
         \A j \in 1 .. k : ExceptionEntries[j].Type # "end",
         NEW x \in Excepts(ExceptionEntries[k])
  PROVE  Excepted(x.Segment, x.source)
<1> DEFINE e == ExceptionEntries[k]
<1>1. CASE e.Type = "scope"
  <2>1. x.Segment = e.Segment /\ x.source = <<e.StartBusNumber>> \o e.path[1]
    BY <1>1 DEF Excepts
  <2>2. Len(e.path) = 1
    BY <1>1 DEF Direct
  <2> DEFINE scope == [Type |-> "endpoint", StartBusNumber |-> e.StartBusNumber, path |-> e.path]
  <2>3. scope.path = e.path /\ scope.StartBusNumber = e.StartBusNumber
    OBVIOUS
  <2>4. GetPciBusDeviceFunction(x.Segment, scope) = x.source
    <3> HIDE DEF scope
    <3> QED
      BY <2>1, <2>2, <2>3, ShortPath
  <2> QED
    BY <1>1, <2>1, <2>4 DEF Excepted
<1>2. CASE e.Type = "id"
  <2>1. x \in AddExceptionDevice(e)
    BY <1>2 DEF Excepts
  <2>2. PICK i \in DOMAIN mVtdUnitInformation : \E j \in DOMAIN mVtdUnitInformation[i].PciDeviceData :
          /\ Fits(e.device, mVtdUnitInformation[i].PciDeviceData[j].id.device)
          /\ Fits(e.subsystem, mVtdUnitInformation[i].PciDeviceData[j].id.subsystem)
          /\ x = [Segment |-> mVtdUnitInformation[i].Segment,
                  source |-> mVtdUnitInformation[i].PciDeviceData[j].source]
    BY <2>1 DEF AddExceptionDevice
  <2> DEFINE unit == mVtdUnitInformation[i]
  <2>3. PICK j \in DOMAIN unit.PciDeviceData :
          /\ Fits(e.device, unit.PciDeviceData[j].id.device)
          /\ Fits(e.subsystem, unit.PciDeviceData[j].id.subsystem)
          /\ x.Segment = unit.Segment /\ x.source = unit.PciDeviceData[j].source
    BY <2>2
  <2>4. unit.PciDeviceData[j].id = PciDeviceId(<<x.Segment>> \o x.source, unit.PciDeviceData[j].DeviceType)
    BY <2>3 DEF UnitsInv, IsUnit
  <2> DEFINE f == <<x.Segment>> \o x.source
  <2> HIDE DEF f, e
  <2>5. /\ Fits(e.device, PciDeviceId(f, unit.PciDeviceData[j].DeviceType).device)
        /\ Fits(e.subsystem, PciDeviceId(f, unit.PciDeviceData[j].DeviceType).subsystem)
    BY <2>3, <2>4 DEF f
  <2>6. Exists(f) /\ Fits(e.device, platform.pci[f].id) /\ Fits(e.subsystem, platform.pci[f].subsystem)
    BY <1>2, <2>5, IdOf DEF e
  <2> QED
    BY <1>2, <2>6 DEF Excepted, e, f
<1>3. CASE e.Type \notin {"scope", "id"}
  BY <1>3 DEF Excepts
<1> QED
  BY <1>1, <1>2, <1>3

(* What DumpExceptionRecord does with the entry it has come to.             *)
Adds(entry) ==
  /\ MoreExceptions /\ at' = at + 1 /\ pc' = pc
  /\ gExceptionRecord \subseteq gExceptionRecord' /\ gExceptionRecord' \subseteq gExceptionRecord \cup Excepts(entry)
  /\ ~outOfMemory' => ~outOfMemory /\ Excepts(entry) \subseteq gExceptionRecord'

(* DumpExceptionRecord records what the entry excepts, as memory permits.   *)
LEMMA ExceptionStep == DumpExceptionRecord => Adds(ExceptionEntries[at])
<1> SUFFICES ASSUME DumpExceptionRecord PROVE Adds(ExceptionEntries[at])
  OBVIOUS
<1> DEFINE found == Excepts(ExceptionEntries[at])
<1>1. PICK kept \in SUBSET found :
        gExceptionRecord' = gExceptionRecord \cup kept /\ outOfMemory' = (outOfMemory \/ kept # found)
  BY Zenon DEF DumpExceptionRecord, InsertInto
<1>2. ~outOfMemory' => ~outOfMemory /\ kept = found
  BY <1>1, Zenon
<1>3. gExceptionRecord' = gExceptionRecord \cup kept
  BY <1>1, Zenon
<1> HIDE DEF found
<1>4. gExceptionRecord \subseteq gExceptionRecord' /\ gExceptionRecord' \subseteq gExceptionRecord \cup found
  BY <1>3
<1>5. ~outOfMemory' => ~outOfMemory /\ found \subseteq gExceptionRecord'
  BY <1>2, <1>3, Zenon
<1>6. MoreExceptions /\ at' = at + 1 /\ pc' = pc
  BY Zenon DEF DumpExceptionRecord
<1> QED
  BY <1>4, <1>5, <1>6, Zenon DEF Adds, found

(* The entries of the policy are a sequence.                                *)
LEMMA Entries ==
  ASSUME TypeOK
  PROVE  Len(ExceptionEntries) \in Nat /\ DOMAIN ExceptionEntries = 1 .. Len(ExceptionEntries)
<1>1. CASE platform.exceptions = NULL
  BY <1>1 DEF ExceptionEntries
<1>2. CASE platform.exceptions # NULL
  BY <1>2, PlatformAssumption DEF ExceptionEntries, TypeOK, IsSequence
<1> QED
  BY <1>1, <1>2

(* Every step keeps the records of exceptions true to the policy.           *)
LEMMA ExceptionNext ==
  TypeOK /\ TableInv /\ UnitsInv /\ DrhdInv /\ StartInv /\ ExceptionInv /\ [Next]_vars => ExceptionInv'
<1> SUFFICES ASSUME TypeOK, TableInv, UnitsInv, DrhdInv, StartInv, ExceptionInv, [Next]_vars PROVE ExceptionInv'
  OBVIOUS
<1> DEFINE E == ExceptionEntries
<1>0. /\ platform' = platform /\ E' = E /\ (\A S, source : Excepted(S, source)' <=> Excepted(S, source))
      /\ Len(E) \in Nat /\ DOMAIN E = 1 .. Len(E)
  BY Phases, WhatStays, Entries DEF Phase
<1> HIDE DEF E
<1>1. /\ mAcpiDmarTable' = mAcpiDmarTable => (Direct' <=> Direct)
      /\ mVtdUnitInformation' = mVtdUnitInformation => \A e : Excepts(e)' = Excepts(e)
  BY <1>0, WhatStays DEF Excepts, AddExceptionDevice
<1>2. ASSUME gExceptionRecord' = {}, pc' = "Exceptions" => at' = 1, pc' \notin {"Translation", "PASS", "FAIL"}
      PROVE  ExceptionInv'
  BY <1>0, <1>2 DEF ExceptionInv, E
<1>3. CASE pc \in {"IoMmu", "Acpi", "Engines", "Drhd"}
  <2>1. gExceptionRecord' = {} /\ pc' \notin {"Translation", "PASS", "FAIL"}
    BY <1>3, Phases, Ordered DEF Phase, Order, ExceptionInv
  <2>2. pc' = "Exceptions" => at' = 1
    <3>1. pc' = "Exceptions" => pc = "Acpi"
      BY <1>3, Ordered DEF Order
    <3> QED
      BY <3>1, StepsOfPhases DEF GetDmarAcpiTable, vars, StartInv, loops
  <2> QED
    BY <1>2, <2>1, <2>2
<1>4. CASE pc = "Rmrr"
  <2>1. gExceptionRecord' = {} /\ pc' \notin {"Translation", "PASS", "FAIL"}
    BY <1>4, Phases, Ordered DEF Phase, Order, ExceptionInv
  <2>2. pc' = "Exceptions" => at' = 1
    BY <1>4, StepsOfPhases, RmrrStep DEF RmrrDone, vars, Keeps
  <2> QED
    BY <1>2, <2>1, <2>2
<1>5. CASE pc = "Exceptions"
  <2>0. /\ Direct' <=> Direct
        /\ \A e : Excepts(e)' = Excepts(e)
    BY <1>1, <1>5, Phases DEF Phase
  <2>1. CASE UNCHANGED vars
    <3>1. UNCHANGED <<gExceptionRecord, at, pc, outOfMemory>>
      BY <2>1 DEF vars, lists, loops
    <3> QED
      BY <1>0, <2>0, <3>1, Zenon DEF ExceptionInv, E
  <2>2. CASE DumpExceptionRecord
    <3>1. Adds(E[at])
      BY <2>2, ExceptionStep DEF E
    <3>2. at \in 1 .. Len(E) /\ E[at].Type # "end"
      BY <1>5, <3>1, <1>0 DEF Adds, MoreExceptions, ExceptionInv, TypeOK, E
    <3>3. \A j \in 1 .. at : E[j].Type # "end"
      BY <1>5, <3>2, <1>0 DEF ExceptionInv, E
    <3>4. ASSUME Direct, NEW x \in gExceptionRecord' PROVE Excepted(x.Segment, x.source)
      <4>1. CASE x \in gExceptionRecord
        BY <3>4, <4>1 DEF ExceptionInv
      <4>2. CASE x \in Excepts(E[at])
        BY <3>3, <3>2, <3>4, <4>2, <1>0, ExceptsExcepted DEF E
      <4> QED
        BY <3>1, <3>4, <4>1, <4>2 DEF Adds
    <3>5. ASSUME ~outOfMemory', NEW k \in DOMAIN E, \A j \in 1 .. k : E[j].Type # "end", k < at + 1
          PROVE  Excepts(E[k]) \subseteq gExceptionRecord'
      <4>1. ~outOfMemory /\ Excepts(E[at]) \subseteq gExceptionRecord' /\ gExceptionRecord \subseteq gExceptionRecord'
        BY <3>1, <3>5 DEF Adds
      <4>2. CASE k < at
        <5>1. Excepts(E[k]) \subseteq gExceptionRecord
          BY <1>5, <3>5, <4>1, <4>2 DEF ExceptionInv, E
        <5> QED
          BY <4>1, <5>1
      <4>3. CASE k = at
        BY <4>1, <4>3
      <4> QED
        BY <1>0, <3>2, <3>5, <4>2, <4>3
    <3>6. at' = at + 1 /\ pc' = "Exceptions" /\ at' > 0 /\ \A j \in 1 .. at' - 1 : j \in 1 .. at
      BY <1>5, <3>1, <3>2, <1>0 DEF Adds
    <3> QED
      BY <1>0, <2>0, <3>3, <3>4, <3>5, <3>6 DEF ExceptionInv, E
  <2>3. CASE ExceptionsDone
    <3>1. /\ gExceptionRecord' = gExceptionRecord /\ outOfMemory' = outOfMemory /\ pc' = "Translation"
          /\ ~MoreExceptions
      BY <2>3 DEF ExceptionsDone, lists
    <3>2. ASSUME NEW k \in DOMAIN E, \A j \in 1 .. k : E[j].Type # "end" PROVE k < at
      BY <1>0, <1>5, <3>1, <3>2 DEF MoreExceptions, ExceptionInv, TypeOK, E
    <3> QED
      BY <1>0, <1>5, <2>0, <3>1, <3>2 DEF ExceptionInv, E
  <2> QED
    BY <1>5, <2>1, <2>2, <2>3, StepsOfPhases
<1>6. CASE pc \in {"Translation", "PASS", "FAIL", "Wild", "Assert"}
  <2>1. UNCHANGED <<gExceptionRecord, outOfMemory, mAcpiDmarTable, mVtdUnitInformation>>
    BY <1>6, Phases DEF Phase
  <2>2. pc' \in {"Translation", "PASS", "FAIL", "Wild", "Assert"} /\ (pc \in {"Wild", "Assert"} => pc' = pc)
    BY <1>6, Ordered DEF Order
  <2> QED
    BY <1>0, <1>1, <1>6, <2>1, <2>2 DEF ExceptionInv, E
<1> QED
  BY <1>3, <1>4, <1>5, <1>6 DEF TypeOK

(* What DumpRootEntry comes to.                                             *)
TableNow == platform.tables[Unit.base]
ContextsNow == IF at \in DOMAIN TableNow.root THEN Walked(TableNow, TableNow.root[at]) ELSE {}
AskingNow == {a \in UNION {{c} \X TableNow.root[at].contexts[c] : c \in ContextsNow} :
                AsksMap(Unit.Segment, <<at>> \o a[1], a[2])}
Checks ==
  /\ VtdIndex <= Len(mVtdUnitInformation) /\ Unit.base # NULL /\ at < VTD_ROOT_ENTRY_NUMBER
  /\ at' = at + 1 /\ VtdIndex' = VtdIndex
  /\ \/ pc' = "Wild" /\ mHasError' = mHasError
     \/ /\ pc' = pc /\ (AskingNow # {} => gMaps # NULL)
        /\ mHasError' <=> (mHasError \/ \E a \in AskingNow : IsError(Unit.Segment, <<at>> \o a[1], a[2]))

(* DumpRootEntry looks at the pages of one root entry.                      *)
LEMMA RootStep == DumpRootEntry => Checks
<1> SUFFICES ASSUME DumpRootEntry PROVE Checks
  OBVIOUS
<1>1. /\ VtdIndex <= Len(mVtdUnitInformation) /\ Unit.base # NULL /\ at < VTD_ROOT_ENTRY_NUMBER
      /\ at' = at + 1
  BY Zenon DEF DumpRootEntry
<1>2. VtdIndex' = VtdIndex
  BY Zenon DEF DumpRootEntry
<1>3. IF AskingNow # {} /\ gMaps = NULL
      THEN pc' = "Wild" /\ UNCHANGED mHasError
      ELSE /\ mHasError' = (mHasError \/ \E a \in AskingNow : IsError(Unit.Segment, <<at>> \o a[1], a[2]))
           /\ UNCHANGED pc
  BY Zenon DEF DumpRootEntry, AskingNow, ContextsNow, TableNow
<1> QED
  BY <1>1, <1>2, <1>3, Zenon DEF Checks

(* The pages that it asks the mappings for.                                 *)
LEMMA AskingIs ==
  ASSUME NEW a
  PROVE  a \in AskingNow <=>
           /\ at \in DOMAIN TableNow.root
           /\ \E c \in Walked(TableNow, TableNow.root[at]) : \E p \in TableNow.root[at].contexts[c] :
                a = <<c, p>> /\ AsksMap(Unit.Segment, <<at>> \o c, p)
<1>1. CASE at \in DOMAIN TableNow.root
  <2> DEFINE W == Walked(TableNow, TableNow.root[at])
             C == TableNow.root[at].contexts
             Asks(c, p) == AsksMap(Unit.Segment, <<at>> \o c, p)
  <2>1. AskingNow = {x \in UNION {{c} \X C[c] : c \in W} : Asks(x[1], x[2])}
    BY <1>1 DEF AskingNow, ContextsNow
  <2> HIDE DEF W, C, Asks
  <2>2. a \in AskingNow <=> \E c \in W : \E p \in C[c] : a = <<c, p>> /\ Asks(c, p)
    BY <2>1
  <2> QED
    BY <1>1, <2>2 DEF W, C, Asks
<1>2. CASE at \notin DOMAIN TableNow.root
  <2>1. AskingNow = {}
    BY <1>2 DEF AskingNow, ContextsNow
  <2> QED
    BY <1>2, <2>1
<1> QED
  BY <1>1, <1>2

(* The elements of Reach.                                                   *)
TableOf(i) == platform.tables[mVtdUnitInformation[i].base]
Tables == {i \in DOMAIN mVtdUnitInformation : mVtdUnitInformation[i].base # NULL}
RootsOf(i) == {b \in DOMAIN TableOf(i).root : TableOf(i).root[b].Present}
ContextsOf(i, b) == TableOf(i).root[b].contexts
Access(i, b, c, p) ==
  [Segment |-> mVtdUnitInformation[i].Segment, source |-> <<b>> \o c, page |-> p,
   upper |-> TableOf(i).Extended /\ c[1] >= 16]

(* A page that a device reaches is below an entry of a table of some unit.  *)
LEMMA Reached ==
  ASSUME NEW r
  PROVE  r \in Reach <=>
           \E i \in Tables : \E b \in RootsOf(i) : \E c \in DOMAIN ContextsOf(i, b) :
             \E p \in ContextsOf(i, b)[c] : r = Access(i, b, c, p)
<1> DEFINE S1(i, b, c) == {Access(i, b, c, p) : p \in ContextsOf(i, b)[c]}
           S2(i, b) == UNION {S1(i, b, c) : c \in DOMAIN ContextsOf(i, b)}
           S3(i) == UNION {S2(i, b) : b \in RootsOf(i)}
<1>1. Reach = UNION {S3(i) : i \in Tables}
  BY Zenon DEF Reach, Tables, RootsOf, ContextsOf, Access, TableOf
<1>2. \A i, b, c : r \in S1(i, b, c) <=> \E p \in ContextsOf(i, b)[c] : r = Access(i, b, c, p)
  OBVIOUS
<1> HIDE DEF S1
<1>3. \A i, b : r \in S2(i, b) <=> \E c \in DOMAIN ContextsOf(i, b) : r \in S1(i, b, c)
  OBVIOUS
<1> HIDE DEF S2
<1>4. \A i : r \in S3(i) <=> \E b \in RootsOf(i) : r \in S2(i, b)
  OBVIOUS
<1> HIDE DEF S3
<1>5. r \in Reach <=> \E i \in Tables : r \in S3(i)
  BY <1>1
<1> QED
  BY <1>2, <1>3, <1>4, <1>5

(* What is said of pages changes with units and records only.               *)
LEMMA PagesStay ==
  ASSUME UNCHANGED <<platform, gMaps, mVtdUnitInformation, gRmrrRecord, gExceptionRecord>>
  PROVE  /\ SmallPages' = SmallPages
         /\ \A S, source, p : Alarm(S, source, p)' <=> Alarm(S, source, p)
         /\ \A i, b : Quiet(i, b)' <=> Quiet(i, b)
<1>1. SmallPages' = SmallPages
  BY DEF SmallPages, Reach
<1>2. \A S, source, p : (AsksMap(S, source, p)' <=> AsksMap(S, source, p))
                         /\ (IsError(S, source, p)' <=> IsError(S, source, p))
  <2>1. \A S, source : ExistInExceptionList(S, source)' <=> ExistInExceptionList(S, source)
    BY DEF ExistInExceptionList
  <2>2. \A S, source, address : ExistInRmrr(S, source, address)' <=> ExistInRmrr(S, source, address)
    BY DEF ExistInRmrr
  <2>3. \A S, source, address, access :
          ExistInIoMmuMap(S, source, address, access)' <=> ExistInIoMmuMap(S, source, address, access)
    BY DEF ExistInIoMmuMap
  <2>4. \A S, source, p : AsksMap(S, source, p)' <=> AsksMap(S, source, p)
    BY <2>1, <2>2, Zenon DEF AsksMap, IsLive
  <2>5. \A S, source, p : IsError(S, source, p)' <=> IsError(S, source, p)
    BY <2>3, Zenon DEF IsError
  <2> QED
    BY <2>4, <2>5
<1>3. \A i, b : Quiet(i, b)' <=> Quiet(i, b)
  <2> TAKE i, b
  <2> DEFINE unit == mVtdUnitInformation[i]
             table == platform.tables[unit.base]
             W == Walked(table, table.root[b])
             C == table.root[b].contexts
  <2>1. unit' = unit /\ table' = table /\ gMaps' = gMaps
    OBVIOUS
  <2>2. W' = W /\ C' = C
    BY <2>1 DEF Walked
  <2>3. Quiet(i, b) <=> \A c \in W : \A p \in C[c] :
          AsksMap(unit.Segment, <<b>> \o c, p) => gMaps # NULL /\ ~IsError(unit.Segment, <<b>> \o c, p)
    BY DEF Quiet
  <2>4. Quiet(i, b)' <=> \A c \in W' : \A p \in C'[c] :
          AsksMap(unit.Segment, <<b>> \o c, p)' => gMaps' # NULL /\ ~IsError(unit.Segment, <<b>> \o c, p)'
    BY DEF Quiet
  <2> HIDE DEF unit, table, W, C
  <2> QED
    BY <1>2, <2>1, <2>2, <2>3, <2>4
<1> QED
  BY <1>1, <1>2, <1>3 DEF Alarm

(* A root entry with an error has a page that raises the alarm.             *)
LEMMA ErrorIsAlarm ==
  ASSUME VtdIndex \in DOMAIN mVtdUnitInformation, Unit.base # NULL,
         NEW a \in AskingNow, IsError(Unit.Segment, <<at>> \o a[1], a[2])
  PROVE  \E r \in SmallPages : Alarm(r.Segment, r.source, r.page)
<1>1. PICK c \in Walked(TableNow, TableNow.root[at]) : \E p \in TableNow.root[at].contexts[c] :
               at \in DOMAIN TableNow.root /\ a = <<c, p>> /\ AsksMap(Unit.Segment, <<at>> \o c, p)
  BY AskingIs
<1>2. PICK p \in TableNow.root[at].contexts[c] :
               at \in DOMAIN TableNow.root /\ a = <<c, p>> /\ AsksMap(Unit.Segment, <<at>> \o c, p)
  BY <1>1
<1>3. a[1] = c /\ a[2] = p
  BY <1>2
<1>4. IsError(Unit.Segment, <<at>> \o c, p)
  BY <1>3
<1>5. TableNow = TableOf(VtdIndex) /\ VtdIndex \in Tables
  BY DEF TableNow, TableOf, Unit, Tables
<1>6. TableNow.root[at].Present /\ c \in DOMAIN TableNow.root[at].contexts
  BY DEF Walked
<1> DEFINE r == Access(VtdIndex, at, c, p)
<1>7. r \in Reach
  BY <1>2, <1>5, <1>6, Reached DEF RootsOf, ContextsOf
<1>8. r.Segment = Unit.Segment /\ r.source = <<at>> \o c /\ r.page = p
  BY DEF Access, Unit
<1> HIDE DEF r
<1>9. p.Size = "4KB" /\ IsLive(p)
  BY <1>2, <1>4 DEF IsError, AsksMap
<1>10. r \in SmallPages
  BY <1>7, <1>8, <1>9 DEF SmallPages
<1>11. Alarm(r.Segment, r.source, r.page)
  BY <1>2, <1>4, <1>8 DEF Alarm
<1> QED
  BY <1>10, <1>11

(* The root entries of a table are those that the loop goes through.        *)
LEMMA RootNumbers ==
  ASSUME TypeOK, UnitsInv, NEW i \in DOMAIN mVtdUnitInformation, mVtdUnitInformation[i].base # NULL,
         NEW b \in DOMAIN platform.tables[mVtdUnitInformation[i].base].root
  PROVE  b \in 0 .. VTD_ROOT_ENTRY_NUMBER - 1 /\ VTD_ROOT_ENTRY_NUMBER \in Nat
<1>1. mVtdUnitInformation[i].base \in DOMAIN platform.tables
  BY DEF UnitsInv, IsUnit
<1>2. platform \in Platforms
  BY DEF TypeOK
<1> QED
  BY <1>1, <1>2, PlatformAssumption

(* Every step keeps the flag and the verdict true to the pages looked at.   *)
LEMMA VerdictNext ==
  TypeOK /\ UnitsInv /\ VerdictInv /\ [Next]_vars => VerdictInv'
<1> SUFFICES ASSUME TypeOK, UnitsInv, VerdictInv, [Next]_vars PROVE VerdictInv'
  OBVIOUS
<1> DEFINE Seen(i, b, index, entry) == i < index \/ (i = index /\ b < entry)
           Units == mVtdUnitInformation
<1>0. DOMAIN Units = 1 .. Len(Units) /\ Len(Units) \in Nat
  BY DEF UnitsInv, IsSequence
<1>1. CASE pc \in {"IoMmu", "Acpi", "Engines", "Drhd", "Rmrr", "Assert"}
  <2>1. mHasError' = mHasError /\ mHasError = FALSE
    BY <1>1, Phases DEF Phase, VerdictInv, TypeOK
  <2>2. pc' \notin {"Translation", "PASS", "FAIL", "Wild"}
    BY <1>1, Ordered DEF Order
  <2> QED
    BY <2>1, <2>2 DEF VerdictInv
<1>2. CASE pc = "Exceptions"
  <2>1. mHasError' = mHasError /\ mHasError = FALSE /\ mVtdUnitInformation' = mVtdUnitInformation
    BY <1>2, Phases DEF Phase, VerdictInv, TypeOK
  <2>2. CASE pc' = "Exceptions"
    BY <2>1, <2>2 DEF VerdictInv
  <2>3. CASE pc' = "Translation"
    <3>1. VtdIndex' = 1 /\ at' = 0
      BY <1>2, <2>3, StepsOfPhases DEF DumpExceptionRecord, ExceptionsDone, vars
    <3>2. \A i \in DOMAIN Units : ~(i < 1)
      BY <1>0
    <3>3. \A i \in DOMAIN Units : Units[i].base # NULL =>
            \A b \in DOMAIN platform.tables[Units[i].base].root : ~(b < 0)
      BY RootNumbers
    <3>4. platform' = platform
      BY Phases DEF Phase
    <3>5. \A i \in DOMAIN Units :
            /\ i < 1 => Units[i].base # NULL
            /\ Units[i].base # NULL => \A b \in DOMAIN platform.tables[Units[i].base].root :
                 i < 1 \/ (i = 1 /\ b < 0) => Quiet(i, b)'
      BY <3>2, <3>3
    <3> QED
      BY <2>1, <2>3, <3>1, <3>4, <3>5 DEF VerdictInv
  <2> QED
    BY <1>2, <2>2, <2>3, Ordered DEF Order
<1>3. CASE pc \in {"Translation", "PASS", "FAIL", "Wild"}
  <2>0. UNCHANGED <<platform, gMaps, mVtdUnitInformation, gRmrrRecord, gExceptionRecord>>
    BY <1>3, Phases DEF Phase
  <2>1. /\ SmallPages' = SmallPages
        /\ \A S, source, p : Alarm(S, source, p)' <=> Alarm(S, source, p)
        /\ \A i, b : Quiet(i, b)' <=> Quiet(i, b)
    BY <2>0, PagesStay
  <2>2. CASE UNCHANGED vars
    <3>1. UNCHANGED <<pc, at, VtdIndex, mHasError>>
      BY <2>2 DEF vars, loops
    <3> QED
      BY <2>0, <2>1, <3>1 DEF VerdictInv
  <2>3. CASE DumpRootEntry
    <3>1. Checks /\ pc = "Translation" /\ VtdIndex > 0
      BY <2>3, RootStep, Steps DEF Control, VerdictInv
    <3>2. VtdIndex \in DOMAIN Units /\ Unit = Units[VtdIndex]
      BY <3>1, <1>0 DEF Checks, TypeOK, Unit
    <3>3. CASE pc' = "Wild" /\ mHasError' = mHasError
      BY <2>0, <2>1, <3>1, <3>3 DEF VerdictInv
    <3>4. CASE pc' = pc /\ mHasError'
      <4>1. gMaps # NULL /\ \E r \in SmallPages : Alarm(r.Segment, r.source, r.page)
        <5>1. CASE mHasError
          BY <5>1 DEF VerdictInv
        <5>2. CASE \E a \in AskingNow : IsError(Unit.Segment, <<at>> \o a[1], a[2])
          <6>1. \E r \in SmallPages : Alarm(r.Segment, r.source, r.page)
            BY <3>1, <3>2, <5>2, ErrorIsAlarm DEF Checks
          <6>2. pc' = "Translation"
            BY <3>1, <3>4
          <6> QED
            BY <3>1, <5>2, <6>1, <6>2 DEF Checks
        <5> QED
          BY <3>1, <3>4, <5>1, <5>2 DEF Checks
      <4> QED
        BY <2>0, <2>1, <3>1, <3>4, <4>1 DEF VerdictInv, Checks
    <3>5. CASE pc' = pc /\ ~mHasError'
      <4>1. /\ ~mHasError /\ (AskingNow # {} => gMaps # NULL)
            /\ \A a \in AskingNow : ~IsError(Unit.Segment, <<at>> \o a[1], a[2])
            /\ at' = at + 1 /\ VtdIndex' = VtdIndex
        BY <3>1, <3>5 DEF Checks
      <4>2. at \in DOMAIN TableNow.root => Quiet(VtdIndex, at)
        <5> SUFFICES ASSUME at \in DOMAIN TableNow.root,
                            NEW c \in Walked(TableNow, TableNow.root[at]),
                            NEW p \in TableNow.root[at].contexts[c], AsksMap(Unit.Segment, <<at>> \o c, p)
                     PROVE  gMaps # NULL /\ ~IsError(Unit.Segment, <<at>> \o c, p)
          BY DEF Quiet, TableNow, Unit
        <5>1. <<c, p>> \in AskingNow
          BY AskingIs
        <5> QED
          BY <4>1, <5>1, SMTT(40)
      <4>3. \A i \in DOMAIN Units :
              /\ i < VtdIndex => Units[i].base # NULL
              /\ Units[i].base # NULL => \A b \in DOMAIN platform.tables[Units[i].base].root :
                   i < VtdIndex \/ (i = VtdIndex /\ b < at) => Quiet(i, b)
        BY <3>1, <4>1 DEF VerdictInv
      <4>4. ASSUME NEW i \in DOMAIN Units, Units[i].base # NULL,
                   NEW b \in DOMAIN platform.tables[Units[i].base].root,
                   i < VtdIndex \/ (i = VtdIndex /\ b < at + 1)
            PROVE  Quiet(i, b)
        <5>1. b \in Nat
          BY <4>4, RootNumbers
        <5>2. CASE i = VtdIndex /\ b = at
          BY <4>2, <4>4, <5>2 DEF TableNow, Unit
        <5> QED
          BY <4>3, <4>4, <5>1, <5>2 DEF TypeOK
      <4> QED
        BY <2>0, <2>1, <3>1, <3>5, <4>1, <4>3, <4>4 DEF VerdictInv
    <3> QED
      BY <3>1, <3>3, <3>4, <3>5 DEF Checks
  <2>4. CASE EndOfUnit
    <3>1. /\ pc = "Translation" /\ pc' = pc /\ at = VTD_ROOT_ENTRY_NUMBER /\ VtdIndex <= Len(Units)
          /\ VtdIndex' = VtdIndex + 1 /\ at' = 0 /\ mHasError' = mHasError /\ VtdIndex > 0
          /\ Units[VtdIndex].base # NULL
      BY <2>4 DEF EndOfUnit, VerdictInv, Unit
    <3>2. CASE mHasError
      BY <2>0, <2>1, <3>1, <3>2 DEF VerdictInv, TypeOK
    <3>3. CASE ~mHasError
      <4>1. \A i \in DOMAIN Units :
              /\ i < VtdIndex => Units[i].base # NULL
              /\ Units[i].base # NULL => \A b \in DOMAIN platform.tables[Units[i].base].root :
                   i < VtdIndex \/ (i = VtdIndex /\ b < at) => Quiet(i, b)
        BY <3>1, <3>3 DEF VerdictInv
      <4>2. \A i \in DOMAIN Units : i < VtdIndex + 1 => i < VtdIndex \/ i = VtdIndex
        BY <1>0 DEF TypeOK
      <4>3. \A i \in DOMAIN Units : Units[i].base # NULL =>
              \A b \in DOMAIN platform.tables[Units[i].base].root : b < at /\ ~(b < 0)
        BY <3>1, RootNumbers
      <4>4. \A i \in DOMAIN Units :
              /\ i < VtdIndex + 1 => Units[i].base # NULL
              /\ Units[i].base # NULL => \A b \in DOMAIN platform.tables[Units[i].base].root :
                   i < VtdIndex + 1 \/ (i = VtdIndex + 1 /\ b < 0) => Quiet(i, b)
        BY <3>1, <4>1, <4>2, <4>3
      <4> QED
        BY <2>0, <2>1, <3>1, <3>3, <4>4 DEF VerdictInv, TypeOK
    <3> QED
      BY <3>2, <3>3
  <2>5. CASE NoBase
    BY <2>0, <2>1, <2>5 DEF NoBase, VerdictInv
  <2>6. CASE Verdict
    BY <2>0, <2>1, <2>6, SMTT(40) DEF Verdict, VerdictInv, loops
  <2> QED
    BY <1>3, <2>2, <2>3, <2>4, <2>5, <2>6, StepsOfPhases
<1> QED
  BY <1>1, <1>2, <1>3 DEF TypeOK

(* Contexts and pages are numbers.                                          *)
LEMMA PageTypes ==
  ASSUME TypeOK, UnitsInv, NEW i \in Tables, NEW b \in RootsOf(i), NEW c \in DOMAIN ContextsOf(i, b),
         NEW p \in ContextsOf(i, b)[c]
  PROVE  c \in Nat \X Nat /\ p.Address \in Nat /\ b \in Nat
<1>1. mVtdUnitInformation[i].base \in DOMAIN platform.tables
  BY DEF UnitsInv, IsUnit, Tables
<1>2. platform \in Platforms
  BY DEF TypeOK
<1> QED
  BY <1>1, <1>2, PlatformAssumption DEF RootsOf, ContextsOf, TableOf

(* Behind a verdict PASS all root entries are quiet; a page of a device for *)
(* which nothing is recorded is not.                                        *)
LEMMA StrayFails ==
  ASSUME TypeOK, UnitsInv, RmrrInv, ExceptionInv, VerdictInv
  PROVE  StrayDeviceFails
<1> SUFFICES ASSUME pc = "PASS", Direct, NEW r \in SmallPages, ~r.upper
             PROVE  \/ Excepted(r.Segment, r.source)
                    \/ Reserved(r.Segment, r.source) # {}
                    \/ MappedFor(r.Segment, r.source) # {}
  BY DEF StrayDeviceFails
<1>1. PICK i \in Tables : \E b \in RootsOf(i) : \E c \in DOMAIN ContextsOf(i, b) :
             \E p \in ContextsOf(i, b)[c] : r = Access(i, b, c, p)
  BY Reached DEF SmallPages
<1>2. PICK b \in RootsOf(i) : \E c \in DOMAIN ContextsOf(i, b) :
             \E p \in ContextsOf(i, b)[c] : r = Access(i, b, c, p)
  BY <1>1
<1>3. PICK c \in DOMAIN ContextsOf(i, b) : \E p \in ContextsOf(i, b)[c] : r = Access(i, b, c, p)
  BY <1>2
<1>4. PICK p \in ContextsOf(i, b)[c] : r = Access(i, b, c, p)
  BY <1>3
<1> DEFINE S == r.Segment
           source == r.source
<1>5. /\ S = mVtdUnitInformation[i].Segment /\ source = <<b>> \o c /\ r.page = p
      /\ r.upper = (TableOf(i).Extended /\ c[1] >= 16)
  BY <1>4 DEF Access
<1>6. p.Size = "4KB" /\ IsLive(p)
  BY <1>5 DEF SmallPages
<1>7. c \in Walked(TableOf(i), TableOf(i).root[b])
  <2>1. c[1] \in Nat
    BY PageTypes
  <2>2. ~(TableOf(i).Extended /\ c[1] >= 16)
    BY <1>5
  <2>3. TableOf(i).Extended => c[1] < 16
    BY <2>1, <2>2
  <2> QED
    BY <2>3 DEF Walked, RootsOf, ContextsOf
<1>8. AsksMap(S, source, p) => gMaps # NULL /\ ~IsError(S, source, p)
  <2>1. i \in DOMAIN mVtdUnitInformation /\ mVtdUnitInformation[i].base # NULL
    BY DEF Tables
  <2>2. i < VtdIndex
    BY <2>1 DEF UnitsInv, IsSequence, VerdictInv, TypeOK
  <2>3. Quiet(i, b)
    BY <2>1, <2>2 DEF VerdictInv, RootsOf, TableOf
  <2> QED
    BY <2>3, <1>5, <1>7, ZenonT(60) DEF Quiet, TableOf, ContextsOf
<1> HIDE DEF S, source
<1>9. CASE AsksMap(S, source, p)
  <2>1. gMaps = platform.maps /\ ExistInIoMmuMap(S, source, p.Address, p.access)
    BY <1>6, <1>8, <1>9 DEF IsError, TypeOK
  <2>2. PICK m \in platform.maps : \E h \in m.handles : h.location = NULL \/ h.location = <<S>> \o source
    BY <2>1 DEF ExistInIoMmuMap
  <2>3. PICK h \in m.handles : h.location \in {NULL, <<S>> \o source}
    BY <2>2
  <2>4. [base |-> m.DeviceAddress, length |-> m.NumberOfPages, access |-> h.IoMmuAccess] \in MappedFor(S, source)
    BY <2>3, SMTT(40) DEF MappedFor
  <2> QED
    BY <2>4 DEF S, source
<1>10. CASE ExistInExceptionList(S, source)
  <2> DEFINE x == [Segment |-> S, source |-> source]
  <2>1. x \in gExceptionRecord /\ x.Segment = S /\ x.source = source
    BY <1>10 DEF ExistInExceptionList
  <2>2. Excepted(x.Segment, x.source)
    BY <2>1 DEF ExceptionInv
  <2> QED
    BY <2>1, <2>2 DEF S, source
<1>11. CASE ExistInRmrr(S, source, p.Address)
  <2>1. PICK x \in gRmrrRecord : x.Segment = S /\ x.source = source
    BY <1>11 DEF ExistInRmrr
  <2>2. PICK s \in Range(Structures) : InTable(x, s)
    BY DEF RmrrInv
  <2>3. s \in ToSet(Structures)
    BY DEF ToSet, Range
  <2>4. s \in Reserved(S, source)
    BY <2>1, <2>2, <2>3 DEF InTable, Reserved
  <2> QED
    BY <2>4 DEF S, source
<1> QED
  BY <1>6, <1>9, <1>10, <1>11 DEF AsksMap

(* Without the records that could not be allocated, all that is excepted is *)
(* on the list.                                                             *)
LEMMA ExceptedOnList ==
  ASSUME TypeOK, ExceptionInv, Direct, pc = "FAIL", ~outOfMemory,
         NEW r \in SmallPages, Excepted(r.Segment, r.source), Found(r.Segment, r.source)
  PROVE  ExistInExceptionList(r.Segment, r.source)
<1> DEFINE S == r.Segment
           source == r.source
           f == <<S>> \o source
<1>5. PICK k \in DOMAIN ExceptionEntries :
        /\ \A j \in 1 .. k : ExceptionEntries[j].Type # "end"
        /\ \/ /\ ExceptionEntries[k].Type = "scope" /\ ExceptionEntries[k].Segment = S
              /\ GetPciBusDeviceFunction(S, [Type |-> "endpoint",
                                             StartBusNumber |-> ExceptionEntries[k].StartBusNumber,
                                             path |-> ExceptionEntries[k].path]) = source
           \/ /\ ExceptionEntries[k].Type = "id" /\ Exists(f)
              /\ Fits(ExceptionEntries[k].device, platform.pci[f].id)
              /\ Fits(ExceptionEntries[k].subsystem, platform.pci[f].subsystem)
  BY Zenon DEF Excepted
<1> DEFINE e == ExceptionEntries[k]
           x == [Segment |-> S, source |-> source]
<1>6. Excepts(e) \subseteq gExceptionRecord
  BY <1>5 DEF ExceptionInv
<1>7. CASE e.Type = "scope"
  <2> DEFINE scope == [Type |-> "endpoint", StartBusNumber |-> e.StartBusNumber, path |-> e.path]
  <2>1. Len(e.path) = 1 /\ scope.path = e.path /\ scope.StartBusNumber = e.StartBusNumber
    BY <1>7 DEF Direct
  <2>2. GetPciBusDeviceFunction(S, scope) = source /\ e.Segment = S
    BY <1>5, <1>7
  <2>3. source = <<e.StartBusNumber>> \o e.path[1]
    <3> HIDE DEF scope, e
    <3> QED
      BY <2>1, <2>2, ShortPath
  <2>4. Excepts(e) = {[Segment |-> e.Segment, source |-> <<e.StartBusNumber>> \o e.path[1]]}
    BY <1>7 DEF Excepts
  <2>5. x \in Excepts(e)
    BY <2>2, <2>3, <2>4
  <2> QED
    BY <2>5, <1>6 DEF ExistInExceptionList
<1>8. CASE e.Type = "id"
  <2>1. f \in DOMAIN platform.pci /\ Fits(e.device, platform.pci[f].id) /\ Fits(e.subsystem, platform.pci[f].subsystem)
    BY <1>5, <1>8 DEF Exists
  <2>2. PICK i \in DOMAIN mVtdUnitInformation : \E j \in DOMAIN mVtdUnitInformation[i].PciDeviceData :
           /\ mVtdUnitInformation[i].Segment = S
           /\ mVtdUnitInformation[i].PciDeviceData[j].source = source
           /\ Fits(e.device, mVtdUnitInformation[i].PciDeviceData[j].id.device)
           /\ Fits(e.subsystem, mVtdUnitInformation[i].PciDeviceData[j].id.subsystem)
    BY <1>8, <2>1 DEF Found, Exists
  <2> DEFINE D == mVtdUnitInformation[i].PciDeviceData
             fits == {j \in DOMAIN D : Fits(e.device, D[j].id.device) /\ Fits(e.subsystem, D[j].id.subsystem)}
             of(n) == {[Segment |-> mVtdUnitInformation[n].Segment,
                        source |-> mVtdUnitInformation[n].PciDeviceData[j].source]
                        : j \in {j \in DOMAIN mVtdUnitInformation[n].PciDeviceData :
                       LET id == mVtdUnitInformation[n].PciDeviceData[j].id
                       IN Fits(e.device, id.device) /\ Fits(e.subsystem, id.subsystem)}}
  <2>3. PICK j \in fits : mVtdUnitInformation[i].Segment = S /\ D[j].source = source
    BY <2>2
  <2>4. x \in of(i)
    BY <2>3
  <2>5. AddExceptionDevice(e) = UNION {of(n) : n \in DOMAIN mVtdUnitInformation}
    BY Zenon DEF AddExceptionDevice
  <2>6. x \in AddExceptionDevice(e)
    <3> HIDE DEF of, x
    <3> QED
      BY <2>4, <2>5
  <2>7. x \in Excepts(e)
    BY <2>6, <1>8 DEF Excepts
  <2> QED
    BY <2>7, <1>6 DEF ExistInExceptionList
<1> QED
  BY <1>5, <1>7, <1>8

(* Behind a verdict FAIL is a page that has raised the error, and the       *)
(* records are complete.                                                    *)
LEMMA NoFalse ==
  ASSUME TypeOK, TableInv, UnitsInv, RmrrInv, ExceptionInv, VerdictInv
  PROVE  NoFalseAlarm
<1> SUFFICES ASSUME pc = "FAIL", Direct, ~outOfMemory, parsed = "success"
             PROVE  \E r \in SmallPages :
                      /\ ~(Excepted(r.Segment, r.source) /\ Found(r.Segment, r.source))
                      /\ \A s \in Reserved(r.Segment, r.source) : ~Covers(s.Base, s.Limit + 1 - s.Base, r.page.Address)
                      /\ \A m \in MappedFor(r.Segment, r.source) :
                           ~(m.access = r.page.access /\ Covers(m.base, m.length, r.page.Address))
  BY DEF NoFalseAlarm
<1>1. gMaps # NULL /\ \E r \in SmallPages : Alarm(r.Segment, r.source, r.page)
  BY DEF VerdictInv
<1>2. PICK r \in SmallPages : Alarm(r.Segment, r.source, r.page)
  BY <1>1
<1>3. PICK i \in Tables : \E b \in RootsOf(i) : \E c \in DOMAIN ContextsOf(i, b) :
             \E p \in ContextsOf(i, b)[c] : r = Access(i, b, c, p)
  BY Reached DEF SmallPages
<1>4. PICK b \in RootsOf(i) : \E c \in DOMAIN ContextsOf(i, b) :
             \E p \in ContextsOf(i, b)[c] : r = Access(i, b, c, p)
  BY <1>3
<1>5. PICK c \in DOMAIN ContextsOf(i, b) : \E p \in ContextsOf(i, b)[c] : r = Access(i, b, c, p)
  BY <1>4
<1>6. PICK p \in ContextsOf(i, b)[c] : r = Access(i, b, c, p)
  BY <1>5
<1> DEFINE S == r.Segment
           source == r.source
<1>7. source = <<b>> \o c /\ r.page = p
  BY <1>6 DEF Access
<1>8. c \in Nat \X Nat /\ p.Address \in Nat /\ b \in Nat
  BY PageTypes
<1>9. /\ ~ExistInExceptionList(S, source) /\ ~ExistInRmrr(S, source, p.Address)
      /\ ~ExistInIoMmuMap(S, source, p.Address, p.access)
  BY <1>2, <1>7 DEF Alarm, AsksMap, IsError
<1> HIDE DEF S, source
<1>10. ~(Excepted(S, source) /\ Found(S, source))
  BY <1>9, ExceptedOnList DEF S, source
<1>11. ASSUME NEW s \in Reserved(S, source), Covers(s.Base, s.Limit + 1 - s.Base, p.Address)
       PROVE  FALSE
  <2>1. /\ s \in ToSet(Structures) /\ s.Type = "RMRR" /\ s.Segment = S
        /\ \E j \in DOMAIN s.scopes : GetPciBusDeviceFunction(S, s.scopes[j]) = source
    BY DEF Reserved
  <2>2. PICK j \in DOMAIN s.scopes : GetPciBusDeviceFunction(S, s.scopes[j]) = source
    BY <2>1
  <2>3. PICK n \in DOMAIN Structures : s = Structures[n]
    BY <2>1 DEF ToSet
  <2>4. Structures = mAcpiDmarTable /\ mAcpiDmarTable # NULL
    BY <2>3 DEF Structures
  <2>5. s.Base \in Nat /\ s.Limit \in Nat
    BY <2>1, <2>3, <2>4 DEF TableInv, IsDmar, Range
  <2>6. Endpoints(s) = s.scopes
    BY <2>1 DEF Direct
  <2> DEFINE x == [Segment |-> s.Segment, source |-> GetPciBusDeviceFunction(s.Segment, Endpoints(s)[j]),
                   Address |-> s.Base, Length |-> s.Limit + 1 - s.Base]
  <2>7. x \in RmrrRecords(s)
    BY <2>2, <2>6 DEF RmrrRecords
  <2>8. x.Segment = S /\ x.source = source /\ x.Address = s.Base /\ x.Length = s.Limit + 1 - s.Base
    BY <2>1, <2>2, <2>6
  <2> HIDE DEF x
  <2>9. x \in gRmrrRecord
    BY <2>1, <2>3, <2>7 DEF RmrrInv
  <2>10. ~OutOfRange(p.Address, x.Address, x.Length)
    BY <1>8, <1>11, <2>5, <2>8 DEF Covers, OutOfRange
  <2>11. ExistInRmrr(S, source, p.Address)
    BY <2>8, <2>9, <2>10 DEF ExistInRmrr
  <2> QED
    BY <1>9, <2>11
<1>12. ASSUME NEW m \in MappedFor(S, source), m.access = p.access, Covers(m.base, m.length, p.Address)
       PROVE  FALSE
  <2>1. PICK n \in platform.maps : \E h \in n.handles :
          /\ h.location \in {NULL, <<S>> \o source}
          /\ m = [base |-> n.DeviceAddress, length |-> n.NumberOfPages, access |-> h.IoMmuAccess]
    BY DEF MappedFor
  <2>2. PICK h \in n.handles : 
          /\ h.location \in {NULL, <<S>> \o source}
          /\ m = [base |-> n.DeviceAddress, length |-> n.NumberOfPages, access |-> h.IoMmuAccess]
    BY <2>1
  <2>3. n.DeviceAddress \in Nat /\ n.NumberOfPages \in Nat
    BY PlatformAssumption DEF TypeOK
  <2>4. m.base = n.DeviceAddress /\ m.length = n.NumberOfPages /\ h.IoMmuAccess = p.access
    BY <1>12, <2>2
  <2>5. ~OutOfRange(p.Address, n.DeviceAddress, n.NumberOfPages)
    BY <1>8, <1>12, <2>3, <2>4 DEF Covers, OutOfRange
  <2>6. gMaps = platform.maps
    BY <1>1 DEF TypeOK
  <2>7. ExistInIoMmuMap(S, source, p.Address, p.access)
    BY <2>2, <2>4, <2>5, <2>6 DEF ExistInIoMmuMap
  <2> QED
    BY <1>9, <2>7
<1> QED
  BY <1>7, <1>10, <1>11, <1>12 DEF S, source

(* The frames of ScanPciBus after a step of it.                             *)
LEMMA Frames ==
  ASSUME IsSequence(scan), scan # <<>>
  PROVE  /\ Head(scan) \in Range(scan) /\ Range(scan) = {Head(scan)} \cup Range(Tail(scan))
         /\ IsSequence(Tail(scan))
<1>1. scan \in Seq(Range(scan))
  BY DEF IsSequence
<1>2. Tail(scan) \in Seq(Range(scan)) /\ ToSet(scan) = {Head(scan)} \cup ToSet(Tail(scan))
  BY <1>1, HeadTailMembers
<1>3. IsSequence(Tail(scan))
  BY <1>2, IsSeq
<1> QED
  BY <1>2, <1>3 DEF ToSet, Range

(* Replacing the innermost bus of a scan.                                   *)
LEMMA Framed ==
  ASSUME IsSequence(scan), scan # <<>>, NEW x, NEW behind, IsSequence(behind)
  PROVE  /\ IsSequence(behind \o <<x>> \o Tail(scan))
         /\ Range(behind \o <<x>> \o Tail(scan)) = Range(behind) \cup {x} \cup Range(Tail(scan))
<1> DEFINE S == Range(scan) \cup Range(behind) \cup {x}
           rest == Tail(scan)
           one == <<x>>
<1>0. scan \in Seq(Range(scan)) /\ behind \in Seq(Range(behind))
  BY DEF IsSequence
<1>1. scan \in Seq(S) /\ behind \in Seq(S) /\ x \in S
  BY <1>0
<1> HIDE DEF S
<1>2. rest \in Seq(S)
  BY <1>1
<1>3. one \in Seq(S) /\ ToSet(one) = {x}
  BY <1>1, SingleMembers
<1> HIDE DEF rest, one
<1> DEFINE front == behind \o one
<1>4. front \in Seq(S) /\ ToSet(front) = ToSet(behind) \cup {x}
  BY <1>1, <1>3, ConcatMembers
<1> HIDE DEF front
<1> DEFINE all == front \o rest
<1>5. all \in Seq(S) /\ ToSet(all) = ToSet(front) \cup ToSet(rest)
  BY <1>2, <1>4, ConcatMembers
<1> HIDE DEF all
<1>6. IsSequence(all)
  BY <1>5, IsSeq
<1>7. ToSet(all) = ToSet(behind) \cup {x} \cup ToSet(rest)
  BY <1>4, <1>5
<1> QED
  BY <1>6, <1>7 DEF ToSet, Range, one, rest, front, all

IsFrame(frame) ==
  frame = [Bus |-> frame.Bus, left |-> frame.left] /\ frame.left \subseteq FunctionsOn(Unit.Segment, frame.Bus)

(* A step of a scan takes one function from its bus and may add the bus     *)
(* behind it.                                                               *)
LEMMA ScanAfter ==
  ASSUME IsSequence(scan), scan # <<>>, IsFrame(Head(scan)), NEW f, Scans(f)
  PROVE  /\ IsSequence(scan')
         /\ Range(scan') = {[Bus |-> Head(scan).Bus, left |-> Head(scan).left \ {f}]}
                             \cup Range(Tail(scan)) \cup (IF Enters(f) THEN {Frame(Secondary(f))} ELSE {})
<1> DEFINE behind == IF Enters(f) THEN <<Frame(Secondary(f))>> ELSE <<>>
           h == Head(scan)
           x == [h EXCEPT !.left = @ \ {f}]
           y == [Bus |-> h.Bus, left |-> h.left \ {f}]
<1>1. x = y
  <2>1. PICK b, l : h = [Bus |-> b, left |-> l]
    BY DEF IsFrame
  <2>2. h.Bus = b /\ h.left = l
    BY <2>1
  <2> HIDE DEF h
  <2>3. \A m : [h EXCEPT !.left = m] = [Bus |-> b, left |-> m]
    BY <2>1
  <2> QED
    BY <2>2, <2>3
<1>2. scan' = behind \o <<x>> \o Tail(scan)
  BY DEF Scans
<1>3. IsSequence(behind) /\ Range(behind) = IF Enters(f) THEN {Frame(Secondary(f))} ELSE {}
  <2> DEFINE g == Frame(Secondary(f))
  <2> HIDE DEF g
  <2>1. <<g>> \in [1 .. 1 -> {g}] /\ Range(<<g>>) = {g}
    BY DEF Range
  <2>2. IsSequence(<<g>>)
    BY <2>1 DEF IsSequence
  <2>3. IsSequence(<<>>) /\ Range(<<>>) = {}
    BY DEF IsSequence, Range
  <2> QED
    BY <2>1, <2>2, <2>3 DEF g
<1> HIDE DEF behind, x, y, h
<1>4. IsSequence(scan') /\ Range(scan') = Range(behind) \cup {x} \cup Range(Tail(scan))
  BY <1>2, <1>3, Framed
<1>5. Range(scan') = {y} \cup Range(Tail(scan)) \cup (IF Enters(f) THEN {Frame(Secondary(f))} ELSE {})
  BY <1>1, <1>3, <1>4
<1> QED
  BY <1>4, <1>5 DEF y, h

(* What NextStructure does with a DRHD.                                     *)
Takes(k, s) ==
  /\ k = VtdIndex + 1 /\ k \in 1 .. Len(Drhds) /\ s = Drhds[k]
  /\ scan = <<>> /\ scopes = <<>>
  /\ VtdIndex' = k /\ at' = at + 1 /\ at > 0
  /\ IsSequence(mVtdUnitInformation') /\ Len(mVtdUnitInformation') = Len(mVtdUnitInformation)
  /\ mVtdUnitInformation'[k] = Fresh(s)
  /\ \A i \in 1 .. Len(mVtdUnitInformation) : i # k => mVtdUnitInformation'[i] = mVtdUnitInformation[i]
  /\ scan' = IF s.includeAll THEN <<[Bus |-> 0, left |-> FunctionsOn(s.Segment, 0)]>> ELSE <<>>
  /\ scopes' = s.scopes
  /\ \A j \in 1 .. Len(Drhds) : Place[j] < at + 1 <=> j <= k
  /\ outOfMemory' = outOfMemory

(* At a DRHD the next unit takes its address and its scopes.                *)
LEMMA UnitStep ==
  ASSUME TypeOK, TableInv, UnitsInv, DrhdInv, DrhdPlaces, NextStructure, IsDrhd(mAcpiDmarTable[at])
  PROVE  Takes(VtdIndex + 1, Drhds[VtdIndex + 1])
<1> DEFINE k == VtdIndex + 1
           s == Drhds[k]
<1>1. pc = "Drhd" /\ scan = <<>> /\ scopes = <<>> /\ at <= Len(mAcpiDmarTable) /\ at' = at + 1 /\ outOfMemory' = outOfMemory
  BY DEF NextStructure, lists
<1>2. /\ k \in 1 .. Len(Drhds) /\ mAcpiDmarTable[at] = s
      /\ \A j \in 1 .. Len(Drhds) : Place[j] < at + 1 <=> j <= k
  BY <1>1, NextDrhd
<1>3. /\ VtdIndex' = k
      /\ Filled(mVtdUnitInformation', k, mAcpiDmarTable[at])
      /\ scan' = IF mAcpiDmarTable[at].includeAll
                 THEN <<[Bus |-> 0, left |-> FunctionsOn(mAcpiDmarTable[at].Segment, 0)]>> ELSE <<>>
      /\ scopes' = mAcpiDmarTable[at].scopes
  BY DEF NextStructure, Filled
<1>4. mVtdUnitInformation[k] = ZeroUnit
  <2>1. k \in VtdIndex + 1 .. Len(Drhds)
    BY <1>2 DEF TypeOK
  <2> QED
    BY <1>1, <2>1 DEF DrhdInv
<1>5. IsSequence(mVtdUnitInformation) /\ k \in 1 .. Len(mVtdUnitInformation)
  BY <1>1, <1>2 DEF UnitsInv
<1>6. at > 0
  BY <1>1 DEF DrhdInv
<1> HIDE DEF k, s
<1>7. Filled(mVtdUnitInformation', k, s)
  BY <1>2, <1>3
<1>8. /\ IsSequence(mVtdUnitInformation') /\ Len(mVtdUnitInformation') = Len(mVtdUnitInformation)
      /\ mVtdUnitInformation'[k] = Fresh(s)
      /\ \A i \in 1 .. Len(mVtdUnitInformation) : i # k => mVtdUnitInformation'[i] = mVtdUnitInformation[i]
  BY <1>4, <1>5, <1>7, NextUnit
<1>9. k = VtdIndex + 1 /\ s = Drhds[k]
  BY DEF k, s
<1>10. Takes(k, s)
  BY <1>1, <1>2, <1>3, <1>6, <1>8, <1>9 DEF Takes
<1> QED
  BY <1>10 DEF k, s

(* A scan of one bus.                                                       *)
LEMMA OneFrame == ASSUME NEW g PROVE IsSequence(<<g>>) /\ Range(<<g>>) = {g}
<1>1. <<g>> \in [1 .. 1 -> {g}] /\ Range(<<g>>) = {g}
  BY DEF Range
<1> QED
  BY <1>1 DEF IsSequence

(* No scan.                                                                 *)
LEMMA NoFrame == IsSequence(<<>>) /\ Range(<<>>) = {}
BY DEF IsSequence, Range

(* The parts of DrhdInv, of a state or of the next.                         *)
Placed(index, place) == \A j \in 1 .. Len(Drhds) : Place[j] < place <=> j <= index
Filling(units, index) ==
  /\ \A i \in 1 .. index : /\ units[i].base = Drhds[i].base /\ units[i].Segment = Drhds[i].Segment
                           /\ units[i].IncludeAllFlag = Drhds[i].includeAll
  /\ \A i \in index + 1 .. Len(Drhds) : units[i] = ZeroUnit
Framing(frames, S) ==
  /\ IsSequence(frames)
  /\ \A frame \in Range(frames) :
       frame = [Bus |-> frame.Bus, left |-> frame.left] /\ frame.left \subseteq FunctionsOn(S, frame.Bus)

(* DrhdInv by what its parts are about.                                     *)
LEMMA DrhdInvParts ==
  ASSUME pc = "Drhd"
  PROVE  DrhdInv <=>
           /\ at > 0 /\ VtdIndex \in 0 .. Len(Drhds)
           /\ Placed(VtdIndex, at)
           /\ Filling(mVtdUnitInformation, VtdIndex)
           /\ Framing(scan, Unit.Segment)
           /\ VtdIndex = 0 => scan = <<>> /\ scopes = <<>>
BY DEF DrhdInv, Placed, Filling, Framing, Known

(* What a step that goes on with the DRHDs has to keep.                     *)
LEMMA DrhdInvNext ==
  ASSUME platform' = platform, mAcpiDmarTable' = mAcpiDmarTable, pc' = "Drhd",
         at' > 0, VtdIndex' \in 0 .. Len(Drhds),
         Placed(VtdIndex', at'), Filling(mVtdUnitInformation', VtdIndex'),
         Framing(scan', Unit.Segment'), VtdIndex' = 0 => scan' = <<>> /\ scopes' = <<>>
  PROVE  DrhdInv'
<1>1. Drhds' = Drhds /\ Place' = Place
  BY DrhdsStay
<1>2. \A S, b : FunctionsOn(S, b)' = FunctionsOn(S, b)
  BY PlatformStays1
<1> QED
  BY <1>1, <1>2 DEF DrhdInv, Placed, Filling, Framing, Known

(* Registering a device leaves the other units alone.                       *)
LEMMA SameUnits ==
  ASSUME UnitsInv, pc = "Drhd", NEW k \in 1 .. Len(Drhds), Len(Drhds) \in Nat, NEW source, NEW status,
         Registers(mVtdUnitInformation', k, source, status), Filling(mVtdUnitInformation, k)
  PROVE  /\ Filling(mVtdUnitInformation', k)
         /\ mVtdUnitInformation'[k].Segment = mVtdUnitInformation[k].Segment
<1>1. /\ DOMAIN mVtdUnitInformation' = 1 .. Len(Drhds)
      /\ \A i \in 1 .. Len(Drhds) : i # k => mVtdUnitInformation'[i] = mVtdUnitInformation[i]
      /\ mVtdUnitInformation'[k].base = mVtdUnitInformation[k].base
      /\ mVtdUnitInformation'[k].Segment = mVtdUnitInformation[k].Segment
      /\ mVtdUnitInformation'[k].IncludeAllFlag = mVtdUnitInformation[k].IncludeAllFlag
  <2>1. /\ IsSequence(mVtdUnitInformation') /\ Len(mVtdUnitInformation') = Len(mVtdUnitInformation)
        /\ \A i \in DOMAIN mVtdUnitInformation' : i # k => mVtdUnitInformation'[i] = mVtdUnitInformation[i]
        /\ mVtdUnitInformation'[k].base = mVtdUnitInformation[k].base
        /\ mVtdUnitInformation'[k].Segment = mVtdUnitInformation[k].Segment
        /\ mVtdUnitInformation'[k].IncludeAllFlag = mVtdUnitInformation[k].IncludeAllFlag
    BY Zenon DEF Registers
  <2> QED
    BY <2>1 DEF UnitsInv, IsSequence
<1>2. \A i \in k + 1 .. Len(Drhds) : i \in 1 .. Len(Drhds) /\ i # k
  OBVIOUS
<1>3. \A i \in 1 .. k : i \in 1 .. Len(Drhds)
  OBVIOUS
<1> QED
  BY <1>1, <1>2, <1>3 DEF Filling

(* Every step keeps the units in step with the DRHDs.                       *)
LEMMA DrhdNext == TypeOK /\ TableInv /\ UnitsInv /\ StartInv /\ DrhdInv /\ [Next]_vars => DrhdInv'
<1> SUFFICES ASSUME TypeOK, TableInv, UnitsInv, StartInv, DrhdInv, [Next]_vars, pc' = "Drhd"
             PROVE  DrhdInv'
  BY DEF DrhdInv
<1>0. pc \in {"Engines", "Drhd"}
  BY Ordered DEF Order, TypeOK
<1>1. platform' = platform /\ mAcpiDmarTable' = mAcpiDmarTable
  BY <1>0, Phases DEF Phase
<1>2. DrhdPlaces
  BY <1>0, PlacesOfDrhds DEF TableInv
<1>3. Len(Drhds) \in Nat /\ \A j \in 1 .. Len(Drhds) : Place[j] \in Nat /\ Place[j] > 0
  BY <1>2 DEF DrhdPlaces
<1>4. CASE pc = "Engines"
  <2>1. AllocateUnits
    BY <1>4, StepsOfPhases DEF vars
  <2>2. /\ mVtdUnitInformation' = [i \in 1 .. Len(Drhds) |-> ZeroUnit]
        /\ UNCHANGED loops
    BY <2>1 DEF AllocateUnits, GetVtdEngineNumber
  <2>3. at' = 1 /\ VtdIndex' = 0 /\ scan' = <<>> /\ scopes' = <<>>
    BY <1>4, <2>2 DEF loops, StartInv
  <2>4. Placed(0, 1)
    BY <1>3 DEF Placed
  <2>5. Filling(mVtdUnitInformation', 0)
    BY <1>3, <2>2 DEF Filling
  <2>6. Framing(<<>>, Unit.Segment')
    BY NoFrame DEF Framing
  <2> QED
    BY <1>1, <1>3, <2>3, <2>4, <2>5, <2>6, DrhdInvNext
<1>5. CASE pc = "Drhd"
  <2>0. /\ at > 0 /\ VtdIndex \in 0 .. Len(Drhds)
        /\ Placed(VtdIndex, at)
        /\ Filling(mVtdUnitInformation, VtdIndex)
        /\ Framing(scan, Unit.Segment)
        /\ VtdIndex = 0 => scan = <<>> /\ scopes = <<>>
    BY <1>5, DrhdInvParts
  <2>1. CASE UNCHANGED <<at, VtdIndex, mVtdUnitInformation, scan, scopes>>
    <3>1. Unit' = Unit
      BY <2>1 DEF Unit
    <3> QED
      BY <1>1, <2>0, <2>1, <3>1, DrhdInvNext
  <2>2. CASE NextStructure
    <3>1. CASE ~IsDrhd(mAcpiDmarTable[at])
      <4>1. UNCHANGED <<VtdIndex, mVtdUnitInformation, scan, scopes>> /\ at' = at + 1 /\ at <= Len(mAcpiDmarTable)
        BY <2>2, <3>1 DEF NextStructure
      <4>2. Placed(VtdIndex, at + 1)
        BY <1>2, <1>5, <3>1, <4>1, NextDrhd DEF Placed
      <4>3. Unit' = Unit
        BY <4>1 DEF Unit
      <4>4. at' > 0
        BY <2>0, <4>1 DEF TypeOK
      <4> QED
        BY <1>1, <2>0, <4>1, <4>2, <4>3, <4>4, DrhdInvNext
    <3>2. CASE IsDrhd(mAcpiDmarTable[at])
      <4> DEFINE k == VtdIndex + 1
                 s == Drhds[k]
      <4>1. Takes(k, s)
        BY <1>2, <2>2, <3>2, UnitStep
      <4>2. VtdIndex' = k /\ at' > 0 /\ k \in 0 .. Len(Drhds) /\ k # 0 /\ Placed(k, at')
        BY <4>1, <1>3 DEF Takes, Placed, TypeOK
      <4>3. Filling(mVtdUnitInformation', k)
        <5>1. Len(mVtdUnitInformation) = Len(Drhds) /\ k \in 1 .. Len(Drhds) /\ VtdIndex \in Nat
          BY <1>5, <4>1 DEF UnitsInv, Takes, TypeOK
        <5>2. \A i \in 1 .. Len(Drhds) : i # k => mVtdUnitInformation'[i] = mVtdUnitInformation[i]
          BY <4>1, <5>1 DEF Takes
        <5>3. mVtdUnitInformation'[k] = Fresh(Drhds[k])
          BY <4>1 DEF Takes
        <5>4. \A i \in 1 .. k : i \in 1 .. VtdIndex \/ i = k
          BY <5>1
        <5>5. \A i \in k + 1 .. Len(Drhds) : i \in VtdIndex + 1 .. Len(Drhds) /\ i # k
          BY <5>1
        <5>6. \A i \in 1 .. VtdIndex : i \in 1 .. Len(Drhds) /\ i # k
          BY <5>1
        <5>7. \A i \in k + 1 .. Len(Drhds) : i \in 1 .. Len(Drhds)
          BY <5>1
        <5> HIDE DEF k
        <5> QED
          BY <2>0, <5>2, <5>3, <5>4, <5>5, <5>6, <5>7 DEF Filling, Fresh
      <4>4. Framing(scan', Unit.Segment')
        <5>1. Unit.Segment' = s.Segment
          BY <4>1 DEF Takes, Unit, Fresh
        <5> DEFINE g == [Bus |-> 0, left |-> FunctionsOn(s.Segment, 0)]
        <5>2. scan' = IF s.includeAll THEN <<g>> ELSE <<>>
          BY <4>1 DEF Takes
        <5>3. g = [Bus |-> g.Bus, left |-> g.left] /\ g.left \subseteq FunctionsOn(s.Segment, g.Bus)
          OBVIOUS
        <5> HIDE DEF g, s, k
        <5>4. CASE scan' = <<g>>
          BY <5>1, <5>3, <5>4, OneFrame DEF Framing
        <5>5. CASE scan' = <<>>
          BY <5>1, <5>5, NoFrame DEF Framing
        <5> QED
          BY <5>2, <5>4, <5>5
      <4> HIDE DEF k, s
      <4> QED
        BY <1>1, <4>2, <4>3, <4>4, DrhdInvNext
    <3> QED
      BY <3>1, <3>2
  <2>3. CASE ScanPciBus
    <3>1. scan # <<>> /\ VtdIndex \in 1 .. Len(Drhds) /\ (Abort \/ \E f : Scans(f))
      BY <1>5, <2>3, ScanStep DEF UnitsInv
    <3>2. ~Abort
      BY DEF Abort, EndOfDrhd
    <3>3. PICK f : Scans(f)
      BY <2>3, <3>2, ScanStep
    <3>4. scan # <<>> /\ VtdIndex \in 1 .. Len(Drhds)
      BY <1>5, <2>3, ScanStep DEF UnitsInv
    <3>5. /\ Filling(mVtdUnitInformation', VtdIndex)
          /\ mVtdUnitInformation'[VtdIndex].Segment = mVtdUnitInformation[VtdIndex].Segment
          /\ UNCHANGED <<at, scopes, VtdIndex>>
      <4>1. Registers(mVtdUnitInformation', VtdIndex, Tail(f), "success") /\ UNCHANGED <<at, scopes, VtdIndex>>
        BY <3>3 DEF Scans
      <4> QED
        BY <1>3, <1>5, <2>0, <3>4, <4>1, SameUnits
    <3>6. Unit.Segment' = Unit.Segment
      BY <3>5 DEF Unit
    <3>7. Framing(scan', Unit.Segment)
      <4>1. IsSequence(scan) /\ IsFrame(Head(scan)) /\ (\A g \in Range(Tail(scan)) : IsFrame(g))
        BY <2>0, <3>4, Frames DEF Framing, IsFrame
      <4>2. /\ IsSequence(scan')
            /\ Range(scan') = {[Bus |-> Head(scan).Bus, left |-> Head(scan).left \ {f}]}
                             \cup Range(Tail(scan)) \cup (IF Enters(f) THEN {Frame(Secondary(f))} ELSE {})
        BY <3>3, <3>4, <4>1, ScanAfter
      <4>3. IsFrame([Bus |-> Head(scan).Bus, left |-> Head(scan).left \ {f}])
        BY <4>1 DEF IsFrame
      <4>4. IsFrame(Frame(Secondary(f)))
        BY DEF Frame, IsFrame
      <4>5. \A g \in Range(scan') : IsFrame(g)
        BY <4>1, <4>2, <4>3, <4>4
      <4> QED
        BY <4>2, <4>5 DEF Framing, IsFrame
    <3> QED
      BY <1>1, <2>0, <3>4, <3>5, <3>6, <3>7, DrhdInvNext
  <2>4. CASE EndOfBus
    <3>1. scan # <<>> /\ scan' = Tail(scan) /\ UNCHANGED <<at, VtdIndex, mVtdUnitInformation, scopes>>
      BY <2>4 DEF EndOfBus, engines
    <3>2. Unit' = Unit
      BY <3>1 DEF Unit
    <3>3. Framing(scan', Unit.Segment)
      BY <2>0, <3>1, Frames DEF Framing
    <3> QED
      BY <1>1, <2>0, <3>1, <3>2, <3>3, DrhdInvNext
  <2>5. CASE ProcessScope
    <3>1. scopes # <<>> /\ VtdIndex \in 1 .. Len(Drhds)
      BY <1>5, <2>5, ScopeStep DEF UnitsInv
    <3>2. ~Abort
      BY DEF Abort, EndOfDrhd
    <3>3. PICK status : Looks(status)
      BY <2>5, <3>2, ScopeStep
    <3>4. Registers(mVtdUnitInformation', VtdIndex, ScopeNow, status) /\ UNCHANGED <<at, VtdIndex>>
      BY <3>3, Zenon DEF Looks
    <3>5. /\ Filling(mVtdUnitInformation', VtdIndex)
          /\ mVtdUnitInformation'[VtdIndex].Segment = mVtdUnitInformation[VtdIndex].Segment
      BY <1>3, <1>5, <2>0, <3>1, <3>4, SameUnits
    <3>6. Unit.Segment' = Unit.Segment
      BY <3>4, <3>5 DEF Unit
    <3> DEFINE g == Frame(Secondary(<<Unit.Segment>> \o ScopeNow))
    <3>7. scan' \in {<<g>>, <<>>}
      BY <3>3, Zenon DEF Looks
    <3>8. IsFrame(g)
      BY DEF Frame, IsFrame
    <3> HIDE DEF g
    <3>9. Framing(scan', Unit.Segment)
      BY <3>7, <3>8, OneFrame, NoFrame DEF Framing, IsFrame
    <3> QED
      BY <1>1, <2>0, <3>1, <3>4, <3>5, <3>6, <3>9, DrhdInvNext
  <2>6. CASE DrhdDone
    BY <2>6, Steps DEF Control
  <2>7. CASE UNCHANGED vars
    BY <2>1, <2>7 DEF vars, loops, engines
  <2> QED
    BY <1>5, <2>2, <2>3, <2>4, <2>5, <2>6, <2>7, StepsOfPhases
<1> QED
  BY <1>0, <1>4, <1>5

(***************************************************************************)
(* The invariant                                                           *)
(***************************************************************************)
BaseInv ==
  /\ TypeOK /\ TableInv /\ UnitsInv /\ StartInv /\ DrhdInv
  /\ RmrrInv /\ ExceptionInv /\ VerdictInv

IInv == BaseInv /\ GivenInv /\ ParsedInv

(* The initial states satisfy the first part of the invariant.              *)
LEMMA InitBaseInv == Init => BaseInv
<1> SUFFICES ASSUME Init PROVE BaseInv
  OBVIOUS
<1>1. platform \in Platforms /\ pc = "IoMmu" /\ gMaps = NULL /\ mAcpiDmarTable = NULL
      /\ mVtdUnitInformation = <<>> /\ parsed = "no" /\ VtdIndex = 0 /\ at = 1 /\ scopes = <<>>
      /\ scan = <<>> /\ gRmrrRecord = {} /\ gExceptionRecord = {} /\ outOfMemory = FALSE /\ mHasError = FALSE
  BY DEF Init
<1>2. TypeOK
  BY <1>1 DEF TypeOK
<1>3. TableInv
  BY <1>1 DEF TableInv
<1>4. UnitsInv
  BY <1>1, NoFrame DEF UnitsInv
<1>5. StartInv
  BY <1>1 DEF StartInv
<1>6. DrhdInv
  BY <1>1 DEF DrhdInv
<1>7. RmrrInv
  BY <1>1 DEF RmrrInv
<1>8. ExceptionInv
  BY <1>1 DEF ExceptionInv
<1>9. VerdictInv
  BY <1>1 DEF VerdictInv
<1> QED
  BY <1>2, <1>3, <1>4, <1>5, <1>6, <1>7, <1>8, <1>9 DEF BaseInv

(* Every step preserves the first part of the invariant.                    *)
LEMMA NextBaseInv == BaseInv /\ [Next]_vars => BaseInv'
BY TypeNext, TableNext, UnitsNext, StartNext, DrhdNext, RmrrNext, ExceptionNext, VerdictNext DEF BaseInv

(***************************************************************************)
(* The devices of the units                                                *)
(***************************************************************************)
LEMMA SourcesAre == \A i : Sources(i) = SourcesOf(mVtdUnitInformation[i])
BY DEF Sources, SourcesOf

(* OtherUnitHas is about what a unit leaves to the units before it.         *)
LEMMA OthersHave ==
  ASSUME NEW k \in 1 .. Len(Drhds), Filling(mVtdUnitInformation, k), Len(Drhds) \in Nat, NEW source
  PROVE  OtherUnitHas(k, mVtdUnitInformation[k].Segment, source) <=> source \in Others(k)
<1> DEFINE U == mVtdUnitInformation
<1>1. \A i \in 1 .. k - 1 : i \in 1 .. k
  OBVIOUS
<1>2. /\ U[k].IncludeAllFlag = Drhds[k].includeAll /\ U[k].Segment = Drhds[k].Segment
      /\ \A i \in 1 .. k - 1 : U[i].Segment = Drhds[i].Segment
  BY <1>1 DEF Filling
<1>3. OtherUnitHas(k, U[k].Segment, source) <=>
        Drhds[k].includeAll /\ \E i \in 1 .. k - 1 : U[i].Segment = U[k].Segment /\ source \in Sources(i)
  <2>1. \A i \in 1 .. k - 1 : GetPciDataIndex(i, U[k].Segment, source) # {} <=>
                               U[i].Segment = U[k].Segment /\ source \in Sources(i)
    BY IndexOfSource, SourcesAre
  <2>2. OtherUnitHas(k, U[k].Segment, source) <=>
          U[k].IncludeAllFlag /\ \E i \in 1 .. k - 1 : GetPciDataIndex(i, U[k].Segment, source) # {}
    BY DEF OtherUnitHas
  <2> QED
    BY <1>2, <2>1, <2>2, Zenon
<1>4. source \in Others(k) <=>
        Drhds[k].includeAll /\ \E i \in 1 .. k - 1 : Drhds[i].Segment = Drhds[k].Segment /\ source \in Sources(i)
  BY DEF Others
<1> QED
  BY <1>2, <1>3, <1>4

(* A registration adds to the devices of its unit.                          *)
LEMMA SourcesAfter ==
  ASSUME UnitsInv, pc = "Drhd", Len(Drhds) \in Nat, NEW k \in 1 .. Len(Drhds),
         Filling(mVtdUnitInformation, k), NEW source, NEW status, status # "outOfResources",
         Registers(mVtdUnitInformation', k, source, status)
  PROVE  /\ Sources(k)' = Sources(k) \cup (IF source \in Others(k) THEN {} ELSE {source})
         /\ \A j \in 1 .. k - 1 : Sources(j)' = Sources(j)
<1> DEFINE U == mVtdUnitInformation
<1>1. /\ SourcesOf(U'[k]) = SourcesOf(U[k]) \cup
           (IF OtherUnitHas(k, U[k].Segment, source) THEN {} ELSE {source})
      /\ IsSequence(U') /\ Len(U') = Len(U) /\ \A i \in DOMAIN U' : i # k => U'[i] = U[i]
  BY DEF Registers
<1>2. DOMAIN U' = 1 .. Len(Drhds)
  BY <1>1 DEF UnitsInv, IsSequence
<1>3. \A j \in 1 .. k - 1 : j \in 1 .. Len(Drhds) /\ j # k
  OBVIOUS
<1>4. \A j \in 1 .. k - 1 : U'[j] = U[j]
  BY <1>1, <1>2, <1>3
<1>5. \A j : Sources(j)' = SourcesOf(U'[j])
  BY DEF Sources, SourcesOf
<1>6. \A j \in 1 .. k - 1 : Sources(j)' = Sources(j)
  BY <1>4, <1>5, SourcesAre
<1>7. Sources(k)' = SourcesOf(U'[k]) /\ Sources(k) = SourcesOf(U[k])
  BY <1>5, SourcesAre
<1>8. OtherUnitHas(k, U[k].Segment, source) <=> source \in Others(k)
  BY OthersHave
<1> QED
  BY <1>1, <1>6, <1>7, <1>8

(* It changes with the units before only.                                   *)
LEMMA OthersStay ==
  ASSUME mAcpiDmarTable' = mAcpiDmarTable, NEW k, \A j \in 1 .. k - 1 : Sources(j)' = Sources(j)
  PROVE  Others(k)' = Others(k)
BY DrhdsStay DEF Others

(* What the table gives to a unit changes with table and platform only.     *)
LEMMA OwnedStays ==
  ASSUME platform' = platform, mAcpiDmarTable' = mAcpiDmarTable
  PROVE  \A i : Owned(i)' = Owned(i)
BY DrhdsStay, PlatformStays3 DEF Owned

(* What a DRHD is given is what all its scopes ask for.                     *)
LEMMA GivenIsAsked ==
  ASSUME NEW s, IsSequence(s.scopes)
  PROVE  Given(s) = Asked(s, Len(s.scopes))
<1> DEFINE n == Len(s.scopes)
           bus(j) == Secondary(<<s.Segment>> \o ScopeSource(s, j))
<1>0. DOMAIN s.scopes = 1 .. n
  BY DEF IsSequence
<1>1. Named(s) = UNION {{ScopeSource(s, j)} \cup
                          (IF s.scopes[j].Type = "bridge" THEN Below(s.Segment, bus(j)) ELSE {}) : j \in 1 .. n}
  BY <1>0 DEF Named, ScopeSource
<1>2. Roots(s, n) = (IF s.includeAll THEN {0} ELSE {}) \cup {bus(j) : j \in {j \in 1 .. n : s.scopes[j].Type = "bridge"}}
  BY DEF Roots
<1>3. Asked(s, n) = {ScopeSource(s, j) : j \in 1 .. n} \cup UNION {Below(s.Segment, r) : r \in Roots(s, n)}
  BY DEF Asked
<1>4. Given(s) = Named(s) \cup (IF s.includeAll THEN Below(s.Segment, 0) ELSE {})
  BY DEF Given
<1> HIDE DEF n, bus
<1>5. ASSUME NEW x PROVE x \in Given(s) <=> x \in Asked(s, n)
  <2>1. x \in Named(s) <=> \E j \in 1 .. n :
                         x = ScopeSource(s, j) \/ (s.scopes[j].Type = "bridge" /\ x \in Below(s.Segment, bus(j)))
    BY <1>1
  <2>2. x \in Asked(s, n) <=> \/ \E j \in 1 .. n : x = ScopeSource(s, j)
                              \/ \E r \in Roots(s, n) : x \in Below(s.Segment, r)
    BY <1>3
  <2>3. \A r : r \in Roots(s, n) <=> (s.includeAll /\ r = 0)
                                     \/ (\E j \in 1 .. n : s.scopes[j].Type = "bridge" /\ r = bus(j))
    BY <1>2
  <2>4. x \in Given(s) <=> x \in Named(s) \/ (s.includeAll /\ x \in Below(s.Segment, 0))
    BY <1>4
  <2> QED
    BY <2>1, <2>2, <2>3, <2>4
<1> QED
  BY <1>5 DEF n

(* A set of buses that contains a bus and is closed has all that is below   *)
(* the bus.                                                                 *)
LEMMA AllBelow ==
  ASSUME NEW S, NEW V, NEW H, NEW r \in V,
         \A b \in V : \A f \in FunctionsOn(S, b) : Tail(f) \in H /\ (Enters(f) => Secondary(f) \in V)
  PROVE  Below(S, r) \subseteq H
<1>1. Buses(S, r) \subseteq V
  BY BusesClosed
<1> QED
  BY <1>1 DEF Below

(* What is on a bus that is reached is below.                               *)
LEMMA OnBusBelow ==
  ASSUME NEW S, NEW r, NEW b \in Buses(S, r), NEW f \in FunctionsOn(S, b)
  PROVE  Tail(f) \in Below(S, r)
BY DEF Below

(* Bus numbers are zero or those behind a bridge.                           *)
LEMMA InNumbers == 0 \in Numbers /\ \A f : Secondary(f) \in Numbers
BY DEF Numbers, Secondary, Exists

(* One more scope asks for its device, and a bridge for what is behind it.  *)
LEMMA RootsGrow ==
  ASSUME NEW s, NEW d \in Nat
  PROVE  /\ Roots(s, d + 1) = Roots(s, d) \cup
              (IF s.scopes[d + 1].Type = "bridge" THEN {Secondary(<<s.Segment>> \o ScopeSource(s, d + 1))} ELSE {})
         /\ Asked(s, d) \subseteq Asked(s, d + 1)
         /\ ScopeSource(s, d + 1) \in Asked(s, d + 1)
<1> DEFINE bus(j) == Secondary(<<s.Segment>> \o ScopeSource(s, j))
           isBridge(j) == s.scopes[j].Type = "bridge"
<1>1. \A e : Roots(s, e) = (IF s.includeAll THEN {0} ELSE {}) \cup {bus(j) : j \in {j \in 1 .. e : isBridge(j)}}
  BY DEF Roots
<1>2. 1 .. d + 1 = (1 .. d) \cup {d + 1}
  OBVIOUS
<1> HIDE DEF bus, isBridge
<1>3. Roots(s, d + 1) = Roots(s, d) \cup (IF isBridge(d + 1) THEN {bus(d + 1)} ELSE {})
  BY <1>1, <1>2
<1>4. \A e : Asked(s, e) = {ScopeSource(s, j) : j \in 1 .. e} \cup UNION {Below(s.Segment, r) : r \in Roots(s, e)}
  BY DEF Asked
<1>5. {ScopeSource(s, j) : j \in 1 .. d} \subseteq {ScopeSource(s, j) : j \in 1 .. d + 1}
  BY <1>2
<1>6. ScopeSource(s, d + 1) \in {ScopeSource(s, j) : j \in 1 .. d + 1}
  BY <1>2
<1>7. Roots(s, d) \subseteq Roots(s, d + 1)
  BY <1>3
<1>8. UNION {Below(s.Segment, r) : r \in Roots(s, d)} \subseteq UNION {Below(s.Segment, r) : r \in Roots(s, d + 1)}
  BY <1>7
<1> QED
  BY <1>3, <1>4, <1>5, <1>6, <1>8 DEF bus, isBridge

(* A function that ScanPciBus has found, and the bus behind it.             *)
LEMMA FunctionScanned ==
  ASSUME NEW k, NEW s, NEW d, NEW rest, NEW own, NEW h, NEW T,
         Progress(k, s, d, {h} \cup T, rest, own),
         NEW f \in h.left, h.left \subseteq FunctionsOn(s.Segment, h.Bus),
         NEW h2, h2.Bus = h.Bus, h2.left = h.left \ {f},
         NEW g, g.Bus = Secondary(f), g.left = FunctionsOn(s.Segment, Secondary(f)),
         NEW own2, own2 = own \cup (IF Tail(f) \in Others(k) THEN {} ELSE {Tail(f)})
  PROVE  Progress(k, s, d, {h2} \cup T \cup (IF Enters(f) THEN {g} ELSE {}), rest, own2)
<1> DEFINE S == s.Segment
           H == own \cup Others(k)
           R2 == {h2} \cup T \cup (IF Enters(f) THEN {g} ELSE {})
<1>1. /\ d \in 0 .. Len(s.scopes) /\ rest = [j \in 1 .. Len(s.scopes) - d |-> s.scopes[j + d]]
      /\ \A frame \in {h} \cup T : \E r \in Roots(s, d) : frame.Bus \in Buses(S, r)
      /\ own \subseteq Asked(s, d) \ Others(k)
      /\ {ScopeSource(s, j) : j \in 1 .. d} \subseteq H
  BY DEF Progress
<1>2. PICK V \in SUBSET Numbers : Roots(s, d) \subseteq V /\ Scanned(V, S, {h} \cup T, H)
  BY DEF Progress
<1>3. PICK r \in Roots(s, d) : h.Bus \in Buses(S, r)
  BY <1>1
<1>4. f \in FunctionsOn(S, h.Bus)
  OBVIOUS
<1>5. Tail(f) \in Asked(s, d)
  BY <1>3, <1>4, OnBusBelow DEF Asked
<1>6. Enters(f) => Secondary(f) \in Buses(S, r)
  BY <1>3, <1>4, BusesClosed
<1>7. \A frame \in R2 : \E q \in Roots(s, d) : frame.Bus \in Buses(S, q)
  BY <1>1, <1>3, <1>6
<1>8. own2 \subseteq Asked(s, d) \ Others(k)
  BY <1>1, <1>5
<1>9. Tail(f) \in own2 \cup Others(k) /\ H \subseteq own2 \cup Others(k)
  OBVIOUS
<1> DEFINE W == V \cup (IF Enters(f) THEN {Secondary(f)} ELSE {})
<1>10. W \in SUBSET Numbers /\ Roots(s, d) \subseteq W
  BY <1>2, InNumbers
<1>11. Scanned(W, S, R2, own2 \cup Others(k))
  <2> SUFFICES ASSUME NEW b \in W, NEW e \in FunctionsOn(S, b)
               PROVE  \/ /\ Tail(e) \in own2 \cup Others(k)
                         /\ Enters(e) => Secondary(e) \in W
                      \/ \E frame \in R2 : frame.Bus = b /\ e \in frame.left
    BY DEF Scanned
  <2>1. CASE b \in V
    <3>1. \/ Tail(e) \in H /\ (Enters(e) => Secondary(e) \in V)
          \/ (\E frame \in {h} \cup T : frame.Bus = b /\ e \in frame.left)
      BY <1>2, <2>1 DEF Scanned
    <3>2. CASE \E frame \in {h} \cup T : frame.Bus = b /\ e \in frame.left
      <4>1. PICK frame \in {h} \cup T : frame.Bus = b /\ e \in frame.left
        BY <3>2
      <4>2. CASE frame \in T
        BY <4>1, <4>2
      <4>3. CASE frame = h /\ e # f
        BY <4>1, <4>3
      <4>4. CASE e = f
        BY <4>4, <1>9
      <4> QED
        BY <4>1, <4>2, <4>3, <4>4
    <3> QED
      BY <3>1, <3>2, <1>9
  <2>2. CASE Enters(f) /\ b = Secondary(f)
    BY <2>2
  <2> QED
    BY <2>1, <2>2
<1> HIDE DEF W, R2
<1>12. Progress(k, s, d, R2, rest, own2)
  BY <1>1, <1>7, <1>8, <1>9, <1>10, <1>11 DEF Progress
<1> QED
  BY <1>12 DEF R2

(* A bus of which nothing is left has been scanned.                         *)
LEMMA BusScanned ==
  ASSUME NEW k, NEW s, NEW d, NEW rest, NEW own, NEW h, NEW T,
         Progress(k, s, d, {h} \cup T, rest, own), h.left = {}
  PROVE  Progress(k, s, d, T, rest, own)
<1>1. PICK V \in SUBSET Numbers : Roots(s, d) \subseteq V /\ Scanned(V, s.Segment, {h} \cup T, own \cup Others(k))
  BY DEF Progress
<1>2. Scanned(V, s.Segment, T, own \cup Others(k))
  BY <1>1 DEF Scanned
<1> QED
  BY <1>1, <1>2 DEF Progress

(* The scopes that are left are those of the DRHD from some on.             *)
LEMMA ScopesLeft ==
  ASSUME NEW s, IsSequence(s.scopes), NEW d \in 0 .. Len(s.scopes), NEW rest,
         rest = [j \in 1 .. Len(s.scopes) - d |-> s.scopes[j + d]], rest # <<>>
  PROVE  /\ d < Len(s.scopes) /\ Head(rest) = s.scopes[d + 1]
         /\ Tail(rest) = [j \in 1 .. Len(s.scopes) - (d + 1) |-> s.scopes[j + (d + 1)]]
<1> DEFINE n == Len(s.scopes)
<1>1. d \in 0 .. n /\ rest = [j \in 1 .. n - d |-> s.scopes[j + d]]
  OBVIOUS
<1>3. n \in Nat /\ d \in Nat
  BY <1>1 DEF IsSequence
<1>4. d < n
  <2>1. CASE d = n
    <3>1. rest = [j \in 1 .. 0 |-> s.scopes[j + d]]
      BY <1>1, <1>3, <2>1
    <3>2. rest = <<>>
      BY <3>1
    <3> QED
      BY <3>2
  <2> QED
    BY <1>1, <1>3, <2>1
<1>5. Head(rest) = s.scopes[d + 1] /\ Tail(rest) = [j \in 1 .. n - (d + 1) |-> s.scopes[j + (d + 1)]]
  <2> DEFINE all == [j \in 1 .. n - d |-> s.scopes[j + d]]
  <2>1. \A j \in 1 .. n - d : s.scopes[j + d] \in Range(s.scopes)
    <3>1. \A j \in 1 .. n - d : j + d \in 1 .. n
      BY <1>3
    <3> QED
      BY <3>1 DEF IsSequence
  <2>2. all \in [1 .. n - d -> Range(s.scopes)]
    BY <2>1
  <2>2a. n - d \in Nat
    BY <1>3, <1>4
  <2>3. all \in Seq(Range(s.scopes)) /\ Len(all) = n - d
    <3> DEFINE m == n - d
    <3>1. m \in Nat
      BY <2>2a
    <3> HIDE DEF all, m
    <3>2. all \in [1 .. m -> Range(s.scopes)]
      BY <2>2 DEF m
    <3>3. all \in Seq(Range(s.scopes)) /\ Len(all) = m
      BY <3>1, <3>2
    <3> QED
      BY <3>3 DEF m
  <2>4. Tail(all) = [j \in 1 .. Len(all) - 1 |-> all[j + 1]] /\ Head(all) = all[1]
    BY <2>3, <1>3, <1>4
  <2>5. all[1] = s.scopes[d + 1]
    BY <1>3, <1>4
  <2>6. n - d - 1 = n - (d + 1) /\ \A j \in 1 .. n - (d + 1) : all[j + 1] = s.scopes[j + (d + 1)]
    <3>1. \A j \in 1 .. n - (d + 1) : j + 1 \in 1 .. n - d /\ (j + 1) + d = j + (d + 1)
      BY <1>3, <1>4
    <3> QED
      BY <3>1, <1>3
  <2> HIDE DEF all
  <2>7. Tail(all) = [j \in 1 .. n - (d + 1) |-> s.scopes[j + (d + 1)]]
    BY <2>3, <2>4, <2>6
  <2> QED
    BY <1>1, <2>4, <2>5, <2>7 DEF all
<1> QED
  BY <1>4, <1>5

(* A scope that ProcessDhrd has looked at, and the bus behind it.           *)
With(k, own, source) == own \cup (IF source \in Others(k) THEN {} ELSE {source})
BusBehind(s, j) ==
  LET bus == Secondary(<<s.Segment>> \o ScopeSource(s, j))
  IN IF s.scopes[j].Type = "bridge" THEN {[Bus |-> bus, left |-> FunctionsOn(s.Segment, bus)]} ELSE {}

(* The next scope: its device is registered and the scan of the bus behind  *)
(* a bridge begins.                                                         *)
LEMMA ScopeLookedAt ==
  ASSUME NEW k, NEW s, NEW d, NEW rest, NEW own, IsSequence(s.scopes),
         Progress(k, s, d, {}, rest, own), rest # <<>>
  PROVE  /\ d + 1 \in 0 .. Len(s.scopes)
         /\ Progress(k, s, d + 1, BusBehind(s, d + 1), Tail(rest), With(k, own, ScopeSource(s, d + 1)))
<1> DEFINE source == ScopeSource(s, d + 1)
           own2 == With(k, own, source)
           bus == Secondary(<<s.Segment>> \o source)
           g == [Bus |-> bus, left |-> FunctionsOn(s.Segment, bus)]
<1>a. own2 = own \cup (IF source \in Others(k) THEN {} ELSE {source})
  BY DEF With
<1>b. g.Bus = bus /\ g.left = FunctionsOn(s.Segment, g.Bus)
  OBVIOUS
<1>c. BusBehind(s, d + 1) = IF s.scopes[d + 1].Type = "bridge" THEN {g} ELSE {}
  BY DEF BusBehind
<1>d. source = ScopeSource(s, d + 1) /\ bus = Secondary(<<s.Segment>> \o source)
  OBVIOUS
<1> HIDE DEF source, own2, bus, g
<1> DEFINE S == s.Segment
           n == Len(s.scopes)
           H == own \cup Others(k)
           R2 == IF s.scopes[d + 1].Type = "bridge" THEN {g} ELSE {}
<1>1. /\ d \in 0 .. n /\ rest = [j \in 1 .. n - d |-> s.scopes[j + d]]
      /\ own \subseteq Asked(s, d) \ Others(k)
      /\ {ScopeSource(s, j) : j \in 1 .. d} \subseteq H
  BY DEF Progress
<1>2. PICK V \in SUBSET Numbers : Roots(s, d) \subseteq V /\ Scanned(V, S, {}, H)
  BY DEF Progress
<1>3. n \in Nat /\ d \in Nat
  BY <1>1 DEF IsSequence
<1>4. d < n /\ Head(rest) = s.scopes[d + 1] /\ Tail(rest) = [j \in 1 .. n - (d + 1) |-> s.scopes[j + (d + 1)]]
  BY <1>1, ScopesLeft, SMTT(40)
<1>6. /\ Roots(s, d + 1) = Roots(s, d) \cup
            (IF s.scopes[d + 1].Type = "bridge" THEN {Secondary(<<S>> \o source)} ELSE {})
      /\ Asked(s, d) \subseteq Asked(s, d + 1) /\ source \in Asked(s, d + 1)
  BY <1>3, <1>d, RootsGrow
<1>7. own2 \subseteq Asked(s, d + 1) \ Others(k) /\ source \in own2 \cup Others(k) /\ H \subseteq own2 \cup Others(k)
  BY <1>1, <1>6, <1>a
<1>8. {ScopeSource(s, j) : j \in 1 .. d + 1} \subseteq own2 \cup Others(k)
  <2>1. \A j \in 1 .. d + 1 : j \in 1 .. d \/ j = d + 1
    BY <1>3
  <2> QED
    BY <2>1, <1>1, <1>7, <1>d
<1>9. \A frame \in R2 : \E r \in Roots(s, d + 1) : frame.Bus \in Buses(S, r)
  BY <1>6, <1>b, <1>d, BusesClosed
<1> DEFINE W == V \cup (IF s.scopes[d + 1].Type = "bridge" THEN {g.Bus} ELSE {})
<1>10. W \in SUBSET Numbers /\ Roots(s, d + 1) \subseteq W
  BY <1>2, <1>6, <1>b, <1>d, InNumbers
<1>11. Scanned(W, S, R2, own2 \cup Others(k))
  <2> SUFFICES ASSUME NEW b \in W, NEW e \in FunctionsOn(S, b)
               PROVE  \/ /\ Tail(e) \in own2 \cup Others(k)
                         /\ Enters(e) => Secondary(e) \in W
                      \/ \E frame \in R2 : frame.Bus = b /\ e \in frame.left
    BY DEF Scanned
  <2>1. CASE b \in V
    <3>1. Tail(e) \in H /\ (Enters(e) => Secondary(e) \in V)
      BY <1>2, <2>1 DEF Scanned
    <3> QED
      BY <3>1, <1>7
  <2>2. CASE s.scopes[d + 1].Type = "bridge" /\ b = g.Bus
    BY <2>2, <1>b
  <2> QED
    BY <2>1, <2>2
<1>12. d + 1 \in 0 .. n
  BY <1>3, <1>4
<1> HIDE DEF W, R2
<1>13. Progress(k, s, d + 1, R2, Tail(rest), own2)
  BY <1>4, <1>7, <1>8, <1>9, <1>10, <1>11, <1>12 DEF Progress
<1> QED
  BY <1>12, <1>13, <1>c DEF R2, own2, source

(* What comes out of it.                                                    *)
LEMMA Completed ==
  ASSUME NEW k, NEW s, NEW d, NEW own, IsSequence(s.scopes), Progress(k, s, d, {}, <<>>, own)
  PROVE  own = Given(s) \ Others(k)
<1> DEFINE S == s.Segment
           n == Len(s.scopes)
           H == own \cup Others(k)
<1>1. /\ d \in 0 .. n /\ <<>> = [j \in 1 .. n - d |-> s.scopes[j + d]]
      /\ own \subseteq Asked(s, d) \ Others(k)
      /\ {ScopeSource(s, j) : j \in 1 .. d} \subseteq H
  BY DEF Progress
<1>2. PICK V \in SUBSET Numbers : Roots(s, d) \subseteq V /\ Scanned(V, S, {}, H)
  BY DEF Progress
<1>3. d = n
  <2>1. n \in Nat
    BY DEF IsSequence
  <2>2. DOMAIN <<>> = 1 .. n - d
    BY <1>1
  <2>3. 1 .. n - d = {}
    BY <2>2
  <2>4. ~(n - d >= 1)
    <3>1. n - d >= 1 => 1 \in 1 .. n - d
      BY <2>1, <1>1
    <3> QED
      BY <2>3, <3>1
  <2> QED
    BY <2>1, <2>4, <1>1
<1>4. \A b \in V : \A f \in FunctionsOn(S, b) : Tail(f) \in H /\ (Enters(f) => Secondary(f) \in V)
  BY <1>2 DEF Scanned
<1>5. \A r \in Roots(s, d) : Below(S, r) \subseteq H
  BY <1>2, <1>4, AllBelow
<1>6. Asked(s, d) \subseteq H
  <2>1. Asked(s, d) = {ScopeSource(s, j) : j \in 1 .. d} \cup UNION {Below(S, r) : r \in Roots(s, d)}
    BY DEF Asked
  <2>2. UNION {Below(S, r) : r \in Roots(s, d)} \subseteq H
    BY <1>5
  <2> QED
    BY <1>1, <2>1, <2>2
<1>7. Given(s) = Asked(s, d)
  BY <1>3, GivenIsAsked
<1> QED
  BY <1>1, <1>6, <1>7

(* What the units before it were given is what they have.                   *)
LEMMA OwnsTheRest ==
  ASSUME NEW k \in 1 .. Len(Drhds), Len(Drhds) \in Nat, \A j \in 1 .. k - 1 : Sources(j) = Owned(j)
  PROVE  Given(Drhds[k]) \ Others(k) = Owned(k)
<1> DEFINE earlier(i) == {j \in 1 .. i - 1 : Drhds[j].Segment = Drhds[i].Segment}
           taken(i) == UNION {Given(Drhds[j]) : j \in earlier(i)}
<1>1. \A i : Owned(i) = Given(Drhds[i]) \ (IF Drhds[i].includeAll THEN taken(i) ELSE {})
  BY DEF Owned
<1>2. CASE ~Drhds[k].includeAll
  BY <1>1, <1>2 DEF Others
<1>3. CASE Drhds[k].includeAll
  <2>1. Others(k) = UNION {Sources(j) : j \in earlier(k)}
    BY <1>3 DEF Others
  <2>2. \A j \in earlier(k) : Sources(j) = Owned(j)
    OBVIOUS
  <2>3. \A x : x \in Others(k) => x \in taken(k)
    <3> TAKE x
    <3> HAVE x \in Others(k)
    <3>1. PICK j \in earlier(k) : x \in Sources(j)
      BY <2>1
    <3>2. x \in Given(Drhds[j])
      BY <1>1, <2>2, <3>1
    <3> QED
      BY <3>1, <3>2
  <2>4. \A x : x \in taken(k) => x \in Others(k)
    <3> TAKE x
    <3> HAVE x \in taken(k)
    <3> DEFINE having == {j \in earlier(k) : x \in Given(Drhds[j])}
    <3>1. having \in SUBSET Nat /\ having # {}
      OBVIOUS
    <3> HIDE DEF having
    <3>2. PICK j \in having : \A i \in having : j <= i
      BY <3>1, LeastNat
    <3>3. j \in earlier(k) /\ x \in Given(Drhds[j])
      BY <3>2 DEF having
    <3>4. x \notin taken(j)
      <4> SUFFICES ASSUME NEW i \in earlier(j), x \in Given(Drhds[i]) PROVE FALSE
        OBVIOUS
      <4>1. i \in 1 .. j - 1 /\ j \in 1 .. k - 1 /\ k \in Nat /\ Drhds[i].Segment = Drhds[k].Segment
        BY <3>3
      <4>2. i \in 1 .. k - 1 /\ i < j
        BY <4>1
      <4>3. i \in having
        BY <4>1, <4>2 DEF having
      <4> QED
        BY <3>2, <4>1, <4>2, <4>3
    <3> HIDE DEF taken, earlier
    <3>5. x \in Owned(j)
      BY <1>1, <3>3, <3>4
    <3>6. x \in Sources(j)
      BY <2>2, <3>3, <3>5
    <3> QED
      BY <2>1, <3>3, <3>6
  <2> HIDE DEF taken
  <2>5. Others(k) = taken(k)
    BY <2>3, <2>4
  <2> QED
    BY <1>1, <1>3, <2>5
<1> QED
  BY <1>2, <1>3

(* Progress changes with the platform, the table and the units before only. *)
LEMMA ProgressStays ==
  ASSUME platform' = platform, mAcpiDmarTable' = mAcpiDmarTable, NEW k,
         \A j \in 1 .. k - 1 : Sources(j)' = Sources(j)
  PROVE  \A s, d, frames, rest, own : Progress(k, s, d, frames, rest, own)' <=> Progress(k, s, d, frames, rest, own)
<1>1. Others(k)' = Others(k)
  BY OthersStay
<1>2. /\ \A S, b : FunctionsOn(S, b)' = FunctionsOn(S, b)
      /\ \A f : Enters(f)' <=> Enters(f)
      /\ \A f : Secondary(f)' = Secondary(f)
  BY PlatformStays1
<1>3. /\ \A s, j : ScopeSource(s, j)' = ScopeSource(s, j)
      /\ \A s, d : Roots(s, d)' = Roots(s, d)
      /\ \A s, d : Asked(s, d)' = Asked(s, d)
  BY PlatformStays3
<1>4. \A S, b : Buses(S, b)' = Buses(S, b)
  BY PlatformStays2
<1>5. Numbers' = Numbers
  BY <1>2 DEF Numbers
<1>6. \A V, S, frames, has : Scanned(V, S, frames, has)' <=> Scanned(V, S, frames, has)
  BY <1>2 DEF Scanned
<1> TAKE s, d, frames, rest, own
<1> DEFINE A == \A frame \in frames : \E r \in Roots(s, d) : frame.Bus \in Buses(s.Segment, r)
           B == own \subseteq Asked(s, d) \ Others(k)
           C == {ScopeSource(s, j) : j \in 1 .. d} \subseteq own \cup Others(k)
           D == \E V \in SUBSET Numbers : Roots(s, d) \subseteq V /\ Scanned(V, s.Segment, frames, own \cup Others(k))
           E == d \in 0 .. Len(s.scopes) /\ rest = [j \in 1 .. Len(s.scopes) - d |-> s.scopes[j + d]]
<1>7. A' <=> A
  BY <1>3, <1>4
<1>8. B' <=> B
  BY <1>1, <1>3
<1>9. {ScopeSource(s, j) : j \in 1 .. d}' = {ScopeSource(s, j) : j \in 1 .. d}
  BY <1>3
<1>10. C' <=> C
  BY <1>1, <1>9
<1>11. D' <=> D
  BY <1>1, <1>3, <1>5, <1>6
<1>12. E' <=> E
  OBVIOUS
<1>13. Progress(k, s, d, frames, rest, own) <=> E /\ A /\ B /\ C /\ D
  BY DEF Progress
<1>14. Progress(k, s, d, frames, rest, own)' <=> E' /\ A' /\ B' /\ C' /\ D'
  BY DEF Progress
<1> HIDE DEF A, B, C, D, E
<1> QED
  BY <1>7, <1>8, <1>10, <1>11, <1>12, <1>13, <1>14

(* What is left to show of GivenInv, with the unit of the next state.       *)
LEMMA GivenInvNext ==
  ASSUME platform' = platform, mAcpiDmarTable' = mAcpiDmarTable,
         NEW k, VtdIndex' = k, k > 0,
         \A j \in 1 .. k - 1 : Sources(j)' = Sources(j) /\ Sources(j) = Owned(j),
         NEW d, d \in 0 .. Len(Drhds[k].scopes),
         Progress(k, Drhds[k], d, Range(scan'), scopes', Sources(k)')
  PROVE  GivenInv'
<1>1. Drhds' = Drhds
  BY DrhdsStay
<1>2. \A j \in 1 .. k - 1 : Sources(j)' = Owned(j)'
  BY OwnedStays
<1>3. Progress(k, Drhds[k], d, Range(scan), scopes, Sources(k))'
  BY <1>1, ProgressStays
<1>4. GivenTo(k)'
  BY <1>1, <1>2, <1>3 DEF GivenTo
<1> QED
  BY <1>4 DEF GivenInv

(* Nothing has been asked for yet of a DRHD that NextStructure takes.       *)
LEMMA ProgressBegins ==
  ASSUME NEW k, NEW s, IsSequence(s.scopes), NEW g, g.Bus = 0, g.left = FunctionsOn(s.Segment, 0)
  PROVE  0 \in 0 .. Len(s.scopes) /\ Progress(k, s, 0, IF s.includeAll THEN {g} ELSE {}, s.scopes, {})
<1> DEFINE R == IF s.includeAll THEN {g} ELSE {}
           V == Roots(s, 0)
<1>1. s.scopes \in Seq(Range(s.scopes)) /\ Len(s.scopes) \in Nat
  BY DEF IsSequence
<1>2. s.scopes = [j \in 1 .. Len(s.scopes) - 0 |-> s.scopes[j + 0]]
  <2>1. s.scopes = [j \in 1 .. Len(s.scopes) |-> s.scopes[j]]
    BY <1>1
  <2>2. \A j \in 1 .. Len(s.scopes) : j + 0 = j
    BY <1>1
  <2>3. Len(s.scopes) - 0 = Len(s.scopes)
    BY <1>1
  <2>4. [j \in 1 .. Len(s.scopes) |-> s.scopes[j]] = [j \in 1 .. Len(s.scopes) |-> s.scopes[j + 0]]
    BY <2>2
  <2> QED
    BY <2>1, <2>3, <2>4
<1>3. V = IF s.includeAll THEN {0} ELSE {}
  BY DEF Roots
<1>4. \A frame \in R : \E r \in Roots(s, 0) : frame.Bus \in Buses(s.Segment, r)
  BY <1>3, BusesClosed
<1>5. V \in SUBSET Numbers /\ Roots(s, 0) \subseteq V
  BY <1>3, InNumbers
<1>6. Scanned(V, s.Segment, R, {} \cup Others(k))
  BY <1>3 DEF Scanned
<1>7. 0 \in 0 .. Len(s.scopes) /\ {ScopeSource(s, j) : j \in 1 .. 0} \subseteq {} \cup Others(k)
      /\ {} \subseteq Asked(s, 0) \ Others(k)
  BY <1>1
<1> HIDE DEF V, R
<1>8. Progress(k, s, 0, R, s.scopes, {})
  BY <1>2, <1>4, <1>5, <1>6, <1>7 DEF Progress
<1> QED
  BY <1>7, <1>8 DEF R

(* When a DRHD is done, its unit has what it is given.                      *)
LEMMA UnitDone ==
  ASSUME DrhdPlaces, pc = "Drhd", ~outOfMemory, GivenInv, VtdIndex \in 0 .. Len(Drhds), scan = <<>>, scopes = <<>>
  PROVE  \A j \in 1 .. VtdIndex : Sources(j) = Owned(j)
<1>0. Len(Drhds) \in Nat
  BY DEF DrhdPlaces
<1>1. GivenTo(VtdIndex)
  BY DEF GivenInv
<1>2. \A j \in 1 .. VtdIndex - 1 : Sources(j) = Owned(j)
  BY <1>1 DEF GivenTo
<1>3. CASE VtdIndex > 0
  <2> DEFINE k == VtdIndex
  <2>1. k \in 1 .. Len(Drhds)
    BY <1>0, <1>3
  <2>2. PICK d \in 0 .. Len(Drhds[k].scopes) : Progress(k, Drhds[k], d, Range(scan), scopes, Sources(k))
    BY <1>1, <1>3 DEF GivenTo
  <2>3. Range(scan) = {}
    BY NoFrame
  <2>4. IsSequence(Drhds[k].scopes)
    BY <2>1 DEF DrhdPlaces
  <2>5. Progress(k, Drhds[k], d, {}, <<>>, Sources(k))
    BY <2>2, <2>3
  <2>6. Sources(k) = Given(Drhds[k]) \ Others(k)
    BY <2>4, <2>5, Completed
  <2>7. Sources(k) = Owned(k)
    BY <1>0, <1>2, <2>1, <2>6, OwnsTheRest
  <2>8. \A j \in 1 .. k : j \in 1 .. k - 1 \/ j = k
    BY <2>1, <1>0
  <2> QED
    BY <1>2, <2>7, <2>8
<1>4. CASE VtdIndex = 0
  BY <1>4
<1> QED
  BY <1>0, <1>3, <1>4

(* Every step keeps the present unit on its way to what the table gives it. *)
LEMMA GivenNext == BaseInv /\ GivenInv /\ [Next]_vars => GivenInv'
<1> SUFFICES ASSUME BaseInv, GivenInv, [Next]_vars, pc' = "Drhd", ~outOfMemory'
             PROVE  GivenInv'
  BY DEF GivenInv
<1> USE DEF BaseInv
<1>0. pc \in {"Engines", "Drhd"}
  BY Ordered DEF Order, TypeOK
<1>1. platform' = platform /\ mAcpiDmarTable' = mAcpiDmarTable
  BY <1>0, Phases DEF Phase
<1>2. DrhdPlaces
  BY <1>0, PlacesOfDrhds DEF TableInv
<1>3. Len(Drhds) \in Nat /\ \A j \in 1 .. Len(Drhds) : IsSequence(Drhds[j].scopes) /\ Drhds[j].base \in DOMAIN platform.tables
  BY <1>2 DEF DrhdPlaces
<1>4. CASE pc = "Engines"
  <2>1. AllocateUnits
    BY <1>4, StepsOfPhases DEF vars
  <2>2. VtdIndex' = 0
    BY <1>4, <2>1 DEF AllocateUnits, loops, StartInv
  <2>3. GivenTo(0)'
    BY DEF GivenTo
  <2> QED
    BY <2>2, <2>3 DEF GivenInv
<1>5. CASE pc = "Drhd"
  <2>a. PICK k : k = VtdIndex
    OBVIOUS
  <2> DEFINE s == Drhds[k]
  <2>0. /\ k \in 0 .. Len(Drhds)
        /\ Filling(mVtdUnitInformation, k)
        /\ Framing(scan, Unit.Segment)
        /\ k = 0 => scan = <<>> /\ scopes = <<>>
    BY <1>5, <2>a, DrhdInvParts
  <2>1. CASE UNCHANGED <<pc, at, VtdIndex, mVtdUnitInformation, scan, scopes, outOfMemory>>
    <3>1. GivenTo(k)
      BY <1>5, <2>a, <2>1 DEF GivenInv
    <3>2. \A i : Sources(i)' = Sources(i)
      BY <2>1 DEF Sources
    <3>3. CASE k > 0
      <4>1. PICK d \in 0 .. Len(s.scopes) : Progress(k, s, d, Range(scan), scopes, Sources(k))
        BY <3>1, <3>3 DEF GivenTo
      <4>2. \A j \in 1 .. k - 1 : Sources(j)' = Sources(j) /\ Sources(j) = Owned(j)
        BY <3>1, <3>2 DEF GivenTo
      <4>3. Progress(k, s, d, Range(scan'), scopes', Sources(k))
        BY <4>1, <2>1
      <4> QED
        BY <1>1, <2>a, <2>1, <3>2, <3>3, <4>2, <4>3, GivenInvNext
    <3>4. CASE k = 0
      <4>1. GivenTo(0)'
        BY DEF GivenTo
      <4> QED
        BY <2>a, <2>1, <3>4, <4>1 DEF GivenInv
    <3> QED
      BY <2>0, <1>3, <3>3, <3>4
  <2>2. CASE NextStructure
    <3>0. scan = <<>> /\ scopes = <<>> /\ outOfMemory' = outOfMemory
      BY <2>2 DEF NextStructure, lists
    <3>1. CASE ~IsDrhd(mAcpiDmarTable[at])
      <4>1. UNCHANGED <<pc, VtdIndex, mVtdUnitInformation, scan, scopes>>
        BY <2>2, <3>1 DEF NextStructure
      <4>2. GivenTo(k)
        BY <1>5, <2>a, <2>2, <3>0 DEF GivenInv
      <4>3. \A i : Sources(i)' = Sources(i)
        BY <4>1 DEF Sources
      <4>4. CASE k > 0
        <5>1. PICK d \in 0 .. Len(s.scopes) : Progress(k, s, d, Range(scan), scopes, Sources(k))
          BY <4>2, <4>4 DEF GivenTo
        <5>2. \A j \in 1 .. k - 1 : Sources(j)' = Sources(j) /\ Sources(j) = Owned(j)
          BY <4>2, <4>3 DEF GivenTo
        <5>3. Progress(k, s, d, Range(scan'), scopes', Sources(k)')
          BY <5>1, <4>1, <4>3
        <5> QED
          BY <1>1, <2>a, <4>1, <4>4, <5>2, <5>3, GivenInvNext
      <4>5. CASE k = 0
        <5>1. GivenTo(0)'
          BY DEF GivenTo
        <5> QED
          BY <2>a, <4>1, <4>5, <5>1 DEF GivenInv
      <4> QED
        BY <2>0, <1>3, <4>4, <4>5
    <3>2. CASE IsDrhd(mAcpiDmarTable[at])
      <4> DEFINE n == k + 1
                 t == Drhds[n]
      <4>1. Takes(n, t)
        BY <1>2, <2>a, <2>2, <3>2, UnitStep
      <4>2. \A j \in 1 .. k : Sources(j) = Owned(j)
        BY <1>2, <1>5, <2>a, <2>0, <3>0, UnitDone
      <4>3. n \in 1 .. Len(Drhds) /\ n - 1 = k /\ n > 0
        BY <4>1, <2>0, <1>3 DEF Takes
      <4>4. \A j \in 1 .. n - 1 : Sources(j)' = Sources(j)
        <5>1. \A j \in 1 .. n - 1 : j \in 1 .. Len(mVtdUnitInformation) /\ j # n
          BY <1>3, <1>5, <4>3 DEF UnitsInv
        <5>2. \A j \in 1 .. n - 1 : mVtdUnitInformation'[j] = mVtdUnitInformation[j]
          BY <4>1, <5>1 DEF Takes
        <5> HIDE DEF n
        <5> QED
          BY <5>2 DEF Sources
      <4>5. Sources(n)' = {}
        <5> HIDE DEF n, t
        <5>1. mVtdUnitInformation'[n] = Fresh(t)
          BY <4>1 DEF Takes
        <5>2. SourcesOf(Fresh(t)) = {}
          BY DEF SourcesOf, Fresh
        <5>3. Sources(n)' = SourcesOf(mVtdUnitInformation'[n])
          BY DEF Sources, SourcesOf
        <5> QED
          BY <5>1, <5>2, <5>3
      <4> DEFINE g == [Bus |-> 0, left |-> FunctionsOn(t.Segment, 0)]
      <4>6. scan' = (IF t.includeAll THEN <<g>> ELSE <<>>) /\ scopes' = t.scopes /\ VtdIndex' = n
        BY <4>1 DEF Takes
      <4>7. g.Bus = 0 /\ g.left = FunctionsOn(t.Segment, 0)
        OBVIOUS
      <4>8. IsSequence(t.scopes)
        BY <1>3, <4>3
      <4> HIDE DEF g, n, t
      <4>9. Range(scan') = IF t.includeAll THEN {g} ELSE {}
        BY <4>6, OneFrame, NoFrame
      <4>10. 0 \in 0 .. Len(t.scopes) /\ Progress(n, t, 0, Range(scan'), scopes', Sources(n)')
        BY <4>5, <4>6, <4>7, <4>8, <4>9, ProgressBegins
      <4>11. t = Drhds[n]
        BY DEF t
      <4>12. \A j \in 1 .. n - 1 : Sources(j)' = Sources(j) /\ Sources(j) = Owned(j)
        BY <4>2, <4>3, <4>4
      <4> QED
        BY <1>1, <4>3, <4>6, <4>10, <4>11, <4>12, GivenInvNext
    <3> QED
      BY <3>1, <3>2
  <2>3. ASSUME NEW source, NEW status, status # "outOfResources", k \in 1 .. Len(Drhds),
               Registers(mVtdUnitInformation', k, source, status), ~outOfMemory
        PROVE  /\ Sources(k)' = Sources(k) \cup (IF source \in Others(k) THEN {} ELSE {source})
               /\ \A j \in 1 .. k - 1 : Sources(j)' = Sources(j) /\ Sources(j) = Owned(j)
               /\ Unit.Segment = s.Segment
               /\ \E d \in 0 .. Len(s.scopes) : Progress(k, s, d, Range(scan), scopes, Sources(k))
    <3>1. k > 0 /\ k \in 1 .. k
      BY <2>3, <1>3
    <3>2. GivenTo(k)
      BY <1>5, <2>a, <2>3 DEF GivenInv
    <3>3. Unit.Segment = s.Segment
      BY <2>a, <2>0, <3>1 DEF Filling, Unit
    <3>4. /\ Sources(k)' = Sources(k) \cup (IF source \in Others(k) THEN {} ELSE {source})
          /\ \A j \in 1 .. k - 1 : Sources(j)' = Sources(j)
      BY <1>3, <1>5, <2>0, <2>3, SourcesAfter
    <3> QED
      BY <3>1, <3>2, <3>3, <3>4 DEF GivenTo
  <2>4. CASE ScanPciBus
    <3>1. ~Abort
      BY DEF Abort, EndOfDrhd
    <3>2. scan # <<>> /\ k \in 1 .. Len(Drhds) /\ outOfMemory' = outOfMemory
      BY <1>5, <2>a, <2>4, ScanStep DEF UnitsInv
    <3>3. PICK f : Scans(f)
      BY <2>4, <3>1, ScanStep
    <3>4. Registers(mVtdUnitInformation', k, Tail(f), "success") /\ UNCHANGED <<scopes, VtdIndex>>
          /\ f \in Head(scan).left
      BY <2>a, <3>3 DEF Scans
    <3>5. /\ Sources(k)' = Sources(k) \cup (IF Tail(f) \in Others(k) THEN {} ELSE {Tail(f)})
          /\ \A j \in 1 .. k - 1 : Sources(j)' = Sources(j) /\ Sources(j) = Owned(j)
          /\ Unit.Segment = s.Segment
          /\ \E d \in 0 .. Len(s.scopes) : Progress(k, s, d, Range(scan), scopes, Sources(k))
      BY <2>3, <3>2, <3>4
    <3>6. PICK d \in 0 .. Len(s.scopes) : Progress(k, s, d, Range(scan), scopes, Sources(k))
      BY <3>5
    <3> DEFINE h == Head(scan)
               T == Range(Tail(scan))
               h2 == [Bus |-> h.Bus, left |-> h.left \ {f}]
               g == Frame(Secondary(f))
    <3>7. IsFrame(h) /\ Range(scan) = {h} \cup T
      BY <2>0, <3>2, Frames DEF Framing, IsFrame
    <3>8. Range(scan') = {h2} \cup T \cup (IF Enters(f) THEN {g} ELSE {})
      BY <2>0, <3>2, <3>3, <3>7, ScanAfter DEF Framing
    <3>9. /\ h.left \subseteq FunctionsOn(s.Segment, h.Bus) /\ h2.Bus = h.Bus /\ h2.left = h.left \ {f}
          /\ g.Bus = Secondary(f) /\ g.left = FunctionsOn(s.Segment, Secondary(f))
      BY <3>5, <3>7 DEF IsFrame, Frame
    <3> HIDE DEF s, h, T, h2, g
    <3>10. f \in h.left
      BY <3>4 DEF h
    <3> DEFINE own == Sources(k)
               rest == scopes
               own2 == own \cup (IF Tail(f) \in Others(k) THEN {} ELSE {Tail(f)})
    <3>11. Progress(k, s, d, {h} \cup T, rest, own)
      BY <3>6, <3>7
    <3> HIDE DEF own, rest
    <3>12. Progress(k, s, d, {h2} \cup T \cup (IF Enters(f) THEN {g} ELSE {}), rest, own2)
      BY <3>9, <3>10, <3>11, FunctionScanned
    <3>13. Sources(k)' = own2 /\ scopes' = rest
      BY <3>4, <3>5 DEF own, rest
    <3>14. Progress(k, s, d, Range(scan'), scopes', Sources(k)')
      BY <3>8, <3>12, <3>13
    <3>15. VtdIndex' = k /\ k > 0
      BY <1>3, <2>a, <3>2, <3>4
    <3> QED
      BY <1>1, <3>5, <3>14, <3>15, GivenInvNext DEF s
  <2>5. CASE EndOfBus
    <3>1. /\ scan # <<>> /\ Head(scan).left = {} /\ scan' = Tail(scan)
          /\ UNCHANGED <<VtdIndex, mVtdUnitInformation, scopes, outOfMemory>>
      BY <2>5 DEF EndOfBus, engines, lists
    <3>2. GivenTo(k) /\ k > 0
      BY <1>3, <1>5, <2>a, <2>0, <3>1 DEF GivenInv
    <3>3. \A i : Sources(i)' = Sources(i)
      BY <3>1 DEF Sources
    <3>4. PICK d \in 0 .. Len(s.scopes) : Progress(k, s, d, Range(scan), scopes, Sources(k))
      BY <3>2 DEF GivenTo
    <3>5. Range(scan) = {Head(scan)} \cup Range(Tail(scan))
      BY <2>0, <3>1, Frames DEF Framing
    <3>6. Progress(k, s, d, Range(Tail(scan)), scopes, Sources(k))
      <4> DEFINE h == Head(scan)
                 T == Range(Tail(scan))
                 own == Sources(k)
      <4>1. Progress(k, s, d, {h} \cup T, scopes, own) /\ h.left = {}
        BY <3>1, <3>4, <3>5
      <4> HIDE DEF h, T, own, s
      <4>2. Progress(k, s, d, T, scopes, own)
        BY <4>1, BusScanned
      <4> QED
        BY <4>2 DEF T, own
    <3>7. Progress(k, s, d, Range(scan'), scopes', Sources(k)')
      BY <3>1, <3>3, <3>6
    <3>8. \A j \in 1 .. k - 1 : Sources(j)' = Sources(j) /\ Sources(j) = Owned(j)
      BY <3>2, <3>3 DEF GivenTo
    <3> QED
      BY <1>1, <2>a, <3>1, <3>2, <3>7, <3>8, GivenInvNext
  <2>6. CASE ProcessScope
    <3>1. ~Abort
      BY DEF Abort, EndOfDrhd
    <3>2. scopes # <<>> /\ scan = <<>> /\ k \in 1 .. Len(Drhds) /\ ~outOfMemory
      BY <1>5, <2>a, <2>6, ScopeStep DEF UnitsInv
    <3>3. PICK status : Looks(status)
      BY <2>6, <3>1, ScopeStep
    <3>4. /\ Registers(mVtdUnitInformation', k, ScopeNow, status) /\ status # "outOfResources"
          /\ scopes' = Tail(scopes) /\ VtdIndex' = VtdIndex
          /\ scan' = IF Head(scopes).Type = "bridge" THEN <<Frame(Secondary(<<Unit.Segment>> \o ScopeNow))>> ELSE <<>>
      BY <2>a, <3>3, Zenon DEF Looks
    <3>5. /\ Sources(k)' = Sources(k) \cup (IF ScopeNow \in Others(k) THEN {} ELSE {ScopeNow})
          /\ \A j \in 1 .. k - 1 : Sources(j)' = Sources(j) /\ Sources(j) = Owned(j)
          /\ Unit.Segment = s.Segment
          /\ \E d \in 0 .. Len(s.scopes) : Progress(k, s, d, Range(scan), scopes, Sources(k))
      BY <2>3, <3>2, <3>4
    <3>6. PICK d \in 0 .. Len(s.scopes) : Progress(k, s, d, Range(scan), scopes, Sources(k))
      BY <3>5
    <3> DEFINE g == Frame(Secondary(<<Unit.Segment>> \o ScopeNow))
    <3>8. IsSequence(s.scopes)
      BY <1>3, <3>2
    <3>9. ScopeNow = ScopeSource(s, d + 1) /\ Head(scopes) = s.scopes[d + 1]
      <4>1. d \in 0 .. Len(s.scopes) /\ scopes = [j \in 1 .. Len(s.scopes) - d |-> s.scopes[j + d]]
        BY <3>6 DEF Progress
      <4> HIDE DEF s
      <4>2. Head(scopes) = s.scopes[d + 1]
        BY <3>2, <3>8, <4>1, ScopesLeft
      <4> QED
        BY <3>5, <4>2 DEF ScopeNow, ScopeSource
    <3>10. Range(scan') = BusBehind(s, d + 1)
      <4>1. g = [Bus |-> Secondary(<<s.Segment>> \o ScopeNow),
                 left |-> FunctionsOn(s.Segment, Secondary(<<s.Segment>> \o ScopeNow))]
        BY <3>5 DEF Frame
      <4>2. BusBehind(s, d + 1) = IF s.scopes[d + 1].Type = "bridge" THEN {g} ELSE {}
        BY <3>9, <4>1 DEF BusBehind
      <4>3. scan' = IF s.scopes[d + 1].Type = "bridge" THEN <<g>> ELSE <<>>
        BY <3>4, <3>9
      <4> HIDE DEF g, s
      <4> QED
        BY <4>2, <4>3, OneFrame, NoFrame
    <3>11. Sources(k)' = With(k, Sources(k), ScopeSource(s, d + 1))
      BY <3>5, <3>9 DEF With
    <3>12. Progress(k, s, d, {}, scopes, Sources(k))
      BY <3>2, <3>6, NoFrame
    <3>13. /\ d + 1 \in 0 .. Len(s.scopes)
           /\ Progress(k, s, d + 1, BusBehind(s, d + 1), Tail(scopes), With(k, Sources(k), ScopeSource(s, d + 1)))
      <4> DEFINE own == Sources(k)
      <4>1. Progress(k, s, d, {}, scopes, own)
        BY <3>12
      <4> HIDE DEF own, s
      <4>2. /\ d + 1 \in 0 .. Len(s.scopes)
            /\ Progress(k, s, d + 1, BusBehind(s, d + 1), Tail(scopes), With(k, own, ScopeSource(s, d + 1)))
        BY <3>2, <3>8, <4>1, ScopeLookedAt
      <4> QED
        BY <4>2 DEF own
    <3>14. Progress(k, s, d + 1, Range(scan'), scopes', Sources(k)')
      BY <3>4, <3>10, <3>11, <3>13
    <3>15. VtdIndex' = k /\ k > 0
      BY <1>3, <2>a, <3>2, <3>4
    <3> QED
      BY <1>1, <3>5, <3>13, <3>14, <3>15, GivenInvNext
  <2>7. CASE DrhdDone
    BY <2>7, Steps DEF Control
  <2>8. CASE UNCHANGED vars
    BY <2>1, <2>8 DEF vars, loops, engines, lists
  <2> QED
    BY <1>5, <2>2, <2>4, <2>5, <2>6, <2>7, <2>8, StepsOfPhases
<1> QED
  BY <1>0, <1>4, <1>5

(* When the parse has come to its end every unit has what the table gives   *)
(* it.                                                                      *)
LEMMA ParsedNext == BaseInv /\ GivenInv /\ ParsedInv /\ [Next]_vars => ParsedInv'
<1> SUFFICES ASSUME BaseInv, GivenInv, ParsedInv, [Next]_vars PROVE ParsedInv'
  OBVIOUS
<1>0. TypeOK /\ TableInv /\ UnitsInv /\ StartInv /\ DrhdInv /\ RmrrInv /\ ExceptionInv
  BY DEF BaseInv
<1>1. platform' = platform
  BY Phases DEF Phase
<1>2. CASE pc \in {"IoMmu", "Acpi", "Engines"}
  <2>1. parsed' = "no"
    BY <1>2, Phases DEF Phase, ParsedInv
  <2> QED
    BY <2>1 DEF ParsedInv
<1>3. CASE pc \notin {"IoMmu", "Acpi", "Engines", "Drhd"}
  <2>1. /\ pc' \notin {"IoMmu", "Acpi", "Engines", "Drhd"}
        /\ parsed' = parsed /\ mAcpiDmarTable' = mAcpiDmarTable /\ mVtdUnitInformation' = mVtdUnitInformation
    BY <1>0, <1>3, Phases, Ordered DEF Phase, Order, TypeOK
  <2>2. outOfMemory => outOfMemory'
    <3>1. CASE pc = "Rmrr"
      <4>1. CASE ProcessRmrr
        BY <4>1, RmrrStep DEF Keeps
      <4>2. CASE RmrrDone \/ UNCHANGED vars
        BY <4>2 DEF RmrrDone, vars, lists
      <4> QED
        BY <3>1, <4>1, <4>2, StepsOfPhases
    <3>2. CASE pc = "Exceptions"
      <4>1. CASE DumpExceptionRecord
        BY <4>1, ExceptionStep DEF Adds
      <4>2. CASE ExceptionsDone \/ UNCHANGED vars
        BY <4>2 DEF ExceptionsDone, vars, lists
      <4> QED
        BY <3>2, <4>1, <4>2, StepsOfPhases
    <3>3. CASE pc \notin {"Drhd", "Rmrr", "Exceptions"}
      BY <3>3, Phases, ZenonT(60) DEF Phase
    <3> QED
      BY <1>3, <3>1, <3>2, <3>3
  <2>3. \A i : Sources(i)' = Sources(i) /\ Owned(i)' = Owned(i)
    BY <1>1, <2>1, OwnedStays DEF Sources
  <2>4. ParsedInv <=>
          /\ parsed = "success" => mAcpiDmarTable # NULL
          /\ parsed = "success" /\ ~outOfMemory => \A i \in DOMAIN mVtdUnitInformation : Sources(i) = Owned(i)
    BY <1>3 DEF ParsedInv
  <2> QED
    BY <2>1, <2>2, <2>3, <2>4 DEF ParsedInv
<1>4. CASE pc = "Drhd"
  <2>0. parsed = "no" /\ mAcpiDmarTable # NULL /\ mAcpiDmarTable' = mAcpiDmarTable
    BY <1>0, <1>4, Phases DEF ParsedInv, TableInv, Phase
  <2>1. CASE UNCHANGED parsed
    BY <2>0, <2>1 DEF ParsedInv
  <2>2. CASE parsed' = "error" /\ pc' = "Rmrr"
    BY <2>2 DEF ParsedInv
  <2>3. CASE NextStructure \/ EndOfBus \/ UNCHANGED vars
    <3>1. UNCHANGED parsed
      BY <2>3 DEF NextStructure, EndOfBus, engines, vars
    <3> QED
      BY <2>1, <3>1
  <2>4. CASE ScanPciBus
    <3>1. UNCHANGED parsed \/ (parsed' = "error" /\ pc' = "Rmrr")
      BY <1>0, <2>4, ScanStep DEF Abort, EndOfDrhd, Scans
    <3> QED
      BY <2>1, <2>2, <3>1
  <2>5. CASE ProcessScope
    <3>1. Abort \/ \E status : Looks(status)
      BY <1>0, <2>5, ScopeStep
    <3>2. UNCHANGED parsed \/ (parsed' = "error" /\ pc' = "Rmrr")
      BY <3>1, Zenon DEF Abort, EndOfDrhd, Looks
    <3> QED
      BY <2>1, <2>2, <3>2
  <2>6. CASE DrhdDone
    <3>1. /\ scan = <<>> /\ scopes = <<>> /\ at > Len(mAcpiDmarTable) /\ pc' = "Rmrr"
          /\ UNCHANGED <<mVtdUnitInformation, outOfMemory>>
      BY <2>6 DEF DrhdDone, EndOfDrhd, lists
    <3>2. DrhdPlaces
      BY <1>0, <2>0, PlacesOfDrhds
    <3>3. VtdIndex = Len(Drhds)
      <4>1. VtdIndex \in 0 .. Len(Drhds) /\ Placed(VtdIndex, at) /\ at \in Nat
        BY <1>0, <1>4, DrhdInvParts DEF TypeOK
      <4>2. Len(Drhds) \in Nat /\ Len(mAcpiDmarTable) \in Nat
        BY <3>2 DEF DrhdPlaces
      <4>3. CASE Len(Drhds) > 0
        <5>1. Len(Drhds) \in 1 .. Len(Drhds)
          BY <4>2, <4>3
        <5>2. Place[Len(Drhds)] \in 1 .. Len(mAcpiDmarTable)
          BY <3>2, <5>1 DEF DrhdPlaces
        <5>3. Place[Len(Drhds)] < at
          BY <3>1, <4>1, <4>2, <5>2
        <5>4. Len(Drhds) <= VtdIndex
          BY <4>1, <5>1, <5>3 DEF Placed
        <5> QED
          BY <4>1, <4>2, <5>4
      <4>4. CASE Len(Drhds) = 0
        BY <4>1, <4>4
      <4> QED
        BY <4>2, <4>3, <4>4
    <3>4. DOMAIN mVtdUnitInformation = 1 .. VtdIndex /\ VtdIndex \in 0 .. Len(Drhds)
      BY <1>0, <1>4, <3>2, <3>3 DEF UnitsInv, IsSequence, DrhdPlaces
    <3>5. ~outOfMemory => \A i \in DOMAIN mVtdUnitInformation : Sources(i) = Owned(i)
      BY <1>4, <3>1, <3>2, <3>4, UnitDone
    <3>6. \A i : Sources(i)' = Sources(i) /\ Owned(i)' = Owned(i)
      BY <1>1, <2>0, <3>1, OwnedStays DEF Sources
    <3> QED
      BY <2>0, <3>1, <3>5, <3>6 DEF ParsedInv
  <2> QED
    BY <1>4, <2>3, <2>4, <2>5, <2>6, StepsOfPhases
<1> QED
  BY <1>2, <1>3, <1>4

(* The initial states satisfy the second part of the invariant.             *)
LEMMA InitGiven == Init => GivenInv /\ ParsedInv
BY DEF Init, GivenInv, ParsedInv

(* Sources of a unit are those of its devices, once each.                   *)
LEMMA OnceEach ==
  ASSUME NEW u, IsUnit(u)
  PROVE  Cardinality(SourcesOf(u)) = Len(u.PciDeviceData)
<1> DEFINE D == u.PciDeviceData
           n == Len(D)
           f == [j \in 1 .. n |-> D[j].source]
<1>1. IsSequence(D) /\ \A j, k \in DOMAIN D : D[j].source = D[k].source => j = k
  BY DEF IsUnit
<1>2. n \in Nat /\ DOMAIN D = 1 .. n
  BY <1>1 DEF IsSequence
<1>3. SourcesOf(u) = {D[j].source : j \in 1 .. n}
  BY <1>2 DEF SourcesOf
<1> HIDE DEF D, n
<1>4. f \in [1 .. n -> SourcesOf(u)]
  BY <1>3
<1>5. \A j, k \in 1 .. n : f[j] = f[k] => j = k
  BY <1>1, <1>2
<1>6. \A x \in SourcesOf(u) : \E j \in 1 .. n : f[j] = x
  BY <1>3
<1> HIDE DEF f
<1>7. f \in Bijection(1 .. n, SourcesOf(u))
  BY <1>4, <1>5, <1>6 DEF Bijection, Injection, Surjection, IsInjective
<1>8. ExistsBijection(1 .. n, SourcesOf(u))
  BY <1>7 DEF ExistsBijection
<1>9. IsFiniteSet(1 .. n) /\ Cardinality(1 .. n) = n
  BY <1>2, FS_Interval
<1>10. Cardinality(SourcesOf(u)) = n
  BY <1>8, <1>9, FS_Bijection
<1> QED
  BY <1>10 DEF n, D

(* The initial states satisfy the invariant.                                *)
LEMMA InitIInv == Init => IInv
BY InitBaseInv, InitGiven DEF IInv

(* Every step preserves the invariant.                                      *)
LEMMA NextIInv == IInv /\ [Next]_vars => IInv'
BY NextBaseInv, GivenNext, ParsedNext DEF IInv

(* The phases follow each other with what they need; while the DRHDs are    *)
(* parsed the units before the present one have what the table gives them,  *)
(* and the present one what has been asked for; the records and the verdict *)
(* say what has been looked at (VtdDumpEntrypoint).                         *)
THEOREM Invariance == Spec => []IInv
BY InitIInv, NextIInv, PTL DEF Spec

(* ParseDmarAcpiTableDrhd: once the table is parsed, and unless memory ran  *)
(* out, each unit has the devices the table gives it, once each.            *)
THEOREM DevicesAreOwned == Spec => []UnitsOwnTheirDevices
<1>1. IInv => UnitsOwnTheirDevices
  <2> SUFFICES ASSUME IInv, parsed = "success", ~outOfMemory, NEW i \in DOMAIN mVtdUnitInformation
               PROVE  /\ Sources(i) = Owned(i)
                      /\ Cardinality(Sources(i)) = Len(mVtdUnitInformation[i].PciDeviceData)
    BY DEF UnitsOwnTheirDevices
  <2>1. Sources(i) = Owned(i)
    BY DEF IInv, ParsedInv
  <2>2. IsUnit(mVtdUnitInformation[i])
    BY DEF IInv, BaseInv, UnitsInv
  <2> QED
    BY <2>1, <2>2, OnceEach, SourcesAre
<1> QED
  BY <1>1, Invariance, PTL

(* "Check PASS": no device for which nothing was mapped, reserved or        *)
(* excepted reaches a page of 4 KB through any unit (CheckPtEntry).         *)
THEOREM NoStrayDevicePasses == Spec => []StrayDeviceFails
<1>1. IInv => StrayDeviceFails
  BY StrayFails DEF IInv, BaseInv
<1> QED
  BY <1>1, Invariance, PTL

(* "Check FAIL": some device reaches a page that nothing allows, unless an  *)
(* exception by identifiers does and no unit has the device.                *)
THEOREM FailHasItsPage == Spec => []NoFalseAlarm
<1>1. IInv => NoFalseAlarm
  BY NoFalse DEF IInv, BaseInv
<1> QED
  BY <1>1, Invariance, PTL
=============================================================================
