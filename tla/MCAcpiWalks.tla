----------------------------- MODULE MCAcpiWalks -----------------------------
(***************************************************************************)
(* Tables as the ACPI specifications describe them, laid out in memory     *)
(* from trees: a node has the fields that the code looks at, the size of   *)
(* its fixed part, and what it contains.  Each walk is run on every table  *)
(* with a few structures of the types it knows, and where it steps over    *)
(* others, of one it does not.                                             *)
(***************************************************************************)
EXTENDS AcpiWalks, TLC, SequencesExt

Node(by, fields, size, inner) == [by |-> by, f |-> fields, size |-> size, inner |-> inner]
Leaf(by, type, size) == Node(by, [Type |-> type], size, <<>>)
Many(node, n) == [i \in 1 .. n |-> node]
UpTo(S, n) == UNION {[1 .. k -> S] : k \in 0 .. n}
NotKnown == "not known"   \* a structure that the library steps over

RECURSIVE SizeOf(_), SizeOfAll(_)
SizeOf(node) == node.size + SizeOfAll(node.inner)
SizeOfAll(nodes) == IF nodes = <<>> THEN 0 ELSE SizeOf(Head(nodes)) + SizeOfAll(Tail(nodes))

(* The list that a structure is in, inside of another one, and what of it   *)
(* begins with the first of these structures.                               *)
ListIn(node) ==
  CASE node.by \in {"Drhd", "Rmrr", "Atsr"} -> "Scopes"
    [] node.by \in {"Ia32MachineCheckException", "Ia32CorrectedMachineCheck"} -> "Banks"
    [] node.by = "BasicBootTable" -> "BootRecords"
    [] node.by = "S3BootTable" -> "S3Records"
    [] node.by = "Socket" -> "Controllers"
    [] node.by = "MemoryController" -> "Dimms"
    [] node.by = NotKnown -> "Characteristics"
    [] OTHER -> "none"
Left(list, nodes) ==
  CASE list \in DOMAIN ByLength \cup {"Scopes", "BootRecords", "S3Records", "Controllers", "Dimms", "TCPA"} ->
         SizeOfAll(nodes)
    [] list = "MPST" -> Len(nodes) - 1
    [] list = "ASF!" -> 1
    [] OTHER -> Len(nodes)

RECURSIVE Memory(_, _, _), Listing(_, _)
Memory(list, nodes, at) ==
  IF nodes = <<>> THEN << >>
  ELSE LET node == Head(nodes)
           fields == node.f @@ [Length |-> SizeOf(node), extent |-> node.size, left |-> Left(list, nodes),
                                list |-> IF node.by = "ProximityDomain" THEN "Domains" ELSE list]
       IN (at :> fields) @@ Memory(ListIn(node), node.inner, at + node.size)
                         @@ Memory(list, Tail(nodes), at + SizeOf(node))
Listing(nodes, at) ==
  IF nodes = <<>> THEN <<>>
  ELSE LET node == Head(nodes)
       IN (IF node.by = NotKnown THEN <<>> ELSE <<[by |-> node.by, at |-> at]>>)
            \o Listing(node.inner, at + node.size)
            \o Listing(Tail(nodes), at + SizeOf(node))

(* A table with nothing but the structures behind its header.               *)
Table(sign, header, nodes) ==
  [sign |-> sign, Length |-> header + SizeOfAll(nodes),
   mem |-> Memory(sign, nodes, header), published |-> Listing(nodes, header)]

Counted(sign, header, nodes) == Table(sign, header, nodes) @@ [count |-> Len(nodes)]

MadtNodes ==
  {Leaf("ProcessorLocalApic", 0, 8), Leaf("IOApic", 1, 12), Leaf("InterruptSourceOverride", 2, 10),
   Leaf("NonMaskableInterruptSource", 3, 8), Leaf("LocalApicNMI", 4, 6),
   Leaf("LocalApicAddressOverride", 5, 12), Leaf("IOSapic", 6, 16),
   Leaf("ProcessorLocalSapic", 7, 12), Leaf("PlatformInterruptSource", 8, 16),
   Leaf("ProcessorLocalX2Apic", 9, 16), Leaf("LocalX2ApicNmi", 10, 12),
   Leaf("Gic", 11, 40), Leaf("Gic", 11, 76), Leaf("GicDistributor", 12, 24),
   Leaf("GicMsiFrame", 13, 24), Leaf("GicRedistributor", 14, 16)}
Madts == {Table("APIC", 44, l) : l \in UpTo(MadtNodes, 2)}

SratNodes == {Leaf("ProcessorLocalApicSapicAffinity", 0, 16), Leaf("MemoryAffinity", 1, 40)}
Srats == {Table("SRAT", 48, l) : l \in UpTo(SratNodes, 3)}

(* One structure that is not known, of the platform or of ACPI 4.0, before  *)
(* or behind those that are: by itself it would never end a walk.           *)
PlatformInterrupt == Leaf(NotKnown, 128, 10)
MadtsOfPlatform ==
  {Table("APIC", 44, l \o <<PlatformInterrupt, m>>) : l \in UpTo(MadtNodes, 1), m \in MadtNodes}
ProcessorLocalX2ApicAffinity == Leaf(NotKnown, 2, 24)
SratsOf4 ==
  {Table("SRAT", 48, l \o <<ProcessorLocalX2ApicAffinity>> \o m) :
     l \in UpTo(SratNodes, 1), m \in UpTo(SratNodes, 2)}
    \ {Table("SRAT", 48, <<ProcessorLocalX2ApicAffinity>>)}

Bank == Leaf("MachineCheckErrorBank", 0, 28)
HestNodes ==
  {Node("Ia32MachineCheckException", [Type |-> 0, n |-> n], 40, Many(Bank, n)) : n \in 0 .. 2}
    \cup {Node("Ia32CorrectedMachineCheck", [Type |-> 1, n |-> n], 48, Many(Bank, n)) : n \in 0 .. 2}
    \cup {Leaf("Ia32NmiError", 2, 20), Leaf("PcieRootPortAer", 6, 48), Leaf("PcieDeviceAer", 7, 44),
          Leaf("PcieBridgeAer", 8, 56), Leaf("GenericHardwareError", 9, 64)}
Hests == {Counted("HEST", 40, l) : l \in UpTo(HestNodes, 2)}

(* The walk ends at a source of a type it does not know.                    *)
HestsCut == {LET known == Counted("HEST", 40, <<s>>)
                 all == Counted("HEST", 40, <<s, Leaf(NotKnown, 10, 92), s>>)
             IN [all EXCEPT !.published = known.published] : s \in HestNodes}

Scopes == UpTo({Leaf("DeviceScopeEntry", 1, 8), Leaf("DeviceScopeEntry", 2, 10)}, 2)
DmarNodes ==
  {Node("Drhd", [Type |-> 0], 16, l) : l \in Scopes}
    \cup {Node("Rmrr", [Type |-> 1], 24, l) : l \in Scopes}
    \cup {Node("Atsr", [Type |-> 2], 8, l) : l \in Scopes}
    \cup {Leaf("Rhsa", 3, 20), Leaf("Andd", 4, 14), Leaf(NotKnown, 5, 16)}
Dmars == {Table("DMAR", 48, l) : l \in UpTo(DmarNodes, 2)}

NfitNodes ==
  {Leaf("SystemPhysicalAddressRange", 0, 56), Leaf("MemoryDeviceToSystemPhysicalAddress", 1, 48),
   Leaf("SMBIOSManagementInformation", 3, 12), Leaf("ControlRegion", 4, 80),
   Leaf("BlockDataWindowRegion", 5, 40), Leaf(NotKnown, 7, 16)}
    \cup {Node("Interleave", [Type |-> 2, n |-> n], 16 + 4 * n, <<>>) : n \in 0 .. 2}
    \cup {Node("FlushHintAddress", [Type |-> 6, n |-> n], 16 + 8 * n, <<>>) : n \in 0 .. 2}
Nfits == {Table("NFIT", 40, l) : l \in UpTo(NfitNodes, 2)}

AsfNodes ==
  {[by |-> "AsfInfo", type |-> 0, n |-> 0, size |-> 16], [by |-> "AsfRmcp", type |-> 3, n |-> 0, size |-> 23]}
    \cup {[by |-> "AsfAlert", type |-> 1, n |-> n, size |-> 8 + 12 * n] : n \in {0, 2}}
    \cup {[by |-> "AsfRctl", type |-> 2, n |-> n, size |-> 8 + 4 * n] : n \in {0, 2}}
    \cup {[by |-> "AsfAddr", type |-> 4, n |-> n, size |-> 6 + n] : n \in {0, 2}}
Asfs ==
  {Table("ASF!", 36, [i \in DOMAIN l |->
      Node(l[i].by, [Type |-> l[i].type, n |-> l[i].n, IsLastRecord |-> i = Len(l)], l[i].size, <<>>)])
     : l \in UpTo(AsfNodes, 3) \ {<<>>}}

(* FPDT: up to two tables far behind, each with up to two records.          *)
Pointed(list, at, by, nodes) ==
  IF at = 0 THEN [mem |-> << >>, published |-> <<>>]
  ELSE LET tree == <<Node(by, << >>, 8, nodes)>>
       IN [mem |-> Memory(list, tree, at), published |-> Listing(tree, at)]
PointerNode(by, type, at) == Node(by, [Type |-> type, Pointer |-> at], 16, <<>>)
BootRecords == UpTo({Leaf("BasicBootData", 2, 48), Leaf("RecordHeader", 99, 12)}, 2)
S3Records == UpTo({Leaf("S3Resume", 0, 24), Leaf("S3Suspend", 1, 20), Leaf("RecordHeader", 99, 12)}, 2)
Fpdts ==
  {LET boot == Pointed("BootTable", b, "BasicBootTable", r)
       s3 == Pointed("S3Table", p, "S3BootTable", q)
       first == PointerNode("BootPerformanceTablePointer", 0, b)
       second == PointerNode("S3PerformanceTablePointer", 1, p)
       table0 == Table("FPDT", 36, <<first, second, Leaf("RecordHeader", 4096, 8)>>)
   IN [table0 EXCEPT !.mem = @ @@ boot.mem @@ s3.mem,
                     !.published = <<@[1]>> \o boot.published \o <<@[2]>> \o s3.published \o <<@[3]>>]
     : b \in {0, 1000}, r \in BootRecords, p \in {0, 2000}, q \in S3Records}

(* iBFT: a structure is there or not; two adapters, or three.               *)
IbftTable(initiator, extensions, slots) ==
  LET there(at, here) == IF here THEN at ELSE 0
      structures == (IF initiator THEN <<[by |-> "Initiator", at |-> 500]>> ELSE <<>>)
        \o FlattenSeq([i \in DOMAIN slots |->
             (IF slots[i][1] THEN <<[by |-> "Nic", at |-> 1000 * i]>> ELSE <<>>)
               \o (IF slots[i][2] THEN <<[by |-> "Target", at |-> 1000 * i + 500]>> ELSE <<>>)])
        \o (IF extensions THEN <<[by |-> "Extensions", at |-> 600]>> ELSE <<>>)
      length == 10 + 4 * Len(slots)
  IN [sign |-> "IBFT", Length |-> 5000,
      published |-> <<[by |-> "Control", at |-> 48]>> \o structures,
      mem |-> (48 :> [list |-> "IBFT", left |-> 1, Length |-> length, extent |-> length, InitiatorOffset |-> there(500, initiator),
                      Extensions |-> there(600, extensions)])
              @@ [a \in {58 + 4 * (i - 1) : i \in DOMAIN slots} |->
                    LET i == (a - 58) \div 4 + 1
                    IN [list |-> "NicTarget", left |-> Len(slots) + 1 - i,
                        NICOffset |-> there(1000 * i, slots[i][1]), TargetOffset |-> there(1000 * i + 500, slots[i][2])]]
              @@ [a \in {structures[i].at : i \in DOMAIN structures} |->
                    [list |-> (CHOOSE s \in ToSet(structures) : s.at = a).by, left |-> 1, extent |-> 102]]]
Ibfts == {IbftTable(a, b, l) : a \in BOOLEAN, b \in BOOLEAN,
                               l \in UNION {[1 .. n -> BOOLEAN \X BOOLEAN] : n \in 2 .. 3}}

(* PMTT and LPIT: structures of any lengths next to each other.             *)
Dimm == Leaf("Dimm", 2, 16)
Controller(domains, dimms) ==
  Node("MemoryController", [Type |-> 1, n |-> domains], 32,
       Many(Node("ProximityDomain", [Type |-> 0], 4, <<>>), domains) \o Many(Dimm, dimms))
Socket(controllers) == Node("Socket", [Type |-> 0], 12, controllers)
PmttNodes ==
  {Dimm} \cup {Controller(d, m) : d \in 0 .. 1, m \in 0 .. 2}
    \cup {Socket(l) : l \in UpTo({Controller(d, m) : d \in 0 .. 1, m \in 0 .. 1}, 2)}
Pmtts == {Table("PMTT", 40, l) : l \in UpTo(PmttNodes, 2) \cup UpTo({Dimm, Controller(1, 2), Leaf(NotKnown, 3, 20)}, 3)}
Lpits == {Table("LPIT", 36, l) : l \in UpTo({Leaf("NativeCStateLpiState", 0, 56), Leaf(NotKnown, 1, 24)}, 3)}

(* DBG2: registers and their sizes, then a name and OEM data, or none.      *)
Dbg2Node(n, name, oem) ==
  LET end == 22 + 16 * n
  IN Node("DeviceInfo",
          [n |-> n, BaseAddressRegisterOffset |-> 22, AddressSizeOffset |-> 22 + 12 * n,
           NameSpaceStringOffset |-> IF name = 0 THEN 0 ELSE end, NameLength |-> name,
           OemDataOffset |-> IF oem = 0 THEN 0 ELSE end + name, OemDataLength |-> oem],
          end + name + oem, <<>>)
Dbg2s == {Counted("DBG2", 44, l) @@ [OffsetDbgDeviceInfo |-> 44]
            : l \in UpTo({Dbg2Node(n, a, o) : n \in 0 .. 2, a \in {0, 5}, o \in {0, 7}}, 2)}

MpstTable(nodes, n) ==
  LET middle == Node(NotKnown, [count |-> n], 4, Many(Leaf("MemoryPowerStateCharacteristic", 0, 28), n))
  IN Table("MPST", 44, nodes \o <<middle>>) @@ [count |-> Len(nodes)]
PowerNode(n, k) == Node("MemoryPowerNode", [n |-> n, m |-> k], 32 + 2 * n + 2 * k, <<>>)
Mpsts == {MpstTable(l, n) : l \in UpTo({PowerNode(a, b) : a \in {0, 2}, b \in {0, 3}}, 2), n \in 0 .. 2}

Arrays ==
  {Counted("WDAT", 68, Many(Leaf("WdatAction", 0, 24), n)) : n \in 0 .. 3}
    \cup {Counted("ERST", 48, Many(Leaf("ErstInstruction", 0, 32), n)) : n \in 0 .. 3}
    \cup {Counted("EINJ", 48, Many(Leaf("EinjInstruction", 0, 32), n)) : n \in 0 .. 3}
    \cup {Table("CPEP", 44, Many(Leaf("CpepStruct", 0, 8), n)) : n \in 0 .. 3}
    \cup {Table("MCFG", 44, Many(Leaf("BaseAddressAllocation", 0, 16), n)) : n \in 0 .. 3}
    \cup {Table("MSCT", 56, Many(Leaf("MaximumProximityDomain", 0, 22), n + 1))
            @@ [OffsetProxDomInfo |-> 56, Maximum |-> n] : n \in 0 .. 2}

(* TCPA: the log is full, or the rest of it is 0 (revision 1) or 0xFF.       *)
Event1(d, n) == Node("TcpaPcrEvent", [PCRIndex |-> "0", major |-> 1, minor |-> 1,
                                      PCRValueLen |-> d, EventSize |-> n], 20 + d + n, <<>>)
Event2(n) == Node("TcpaPcrEvent", [PCRIndex |-> "0", EventSize |-> n], 32 + n, <<>>)
Spare(fields) == fields @@ [list |-> "TCPA", left |-> 64, extent |-> 0]
Zeros == Spare([PCRIndex |-> "0", major |-> 0, minor |-> 0, PCRValueLen |-> 0, EventSize |-> 0])
Ones == Spare([PCRIndex |-> "none", major |-> 1, minor |-> 1, PCRValueLen |-> 0, EventSize |-> 0])
TcpaTable(revision, class, events, rest) ==
  LET end == 5000 + SizeOfAll(events)
      spare == IF rest = <<>> THEN 0 ELSE 64
      log == Memory("TCPA", events, 5000)
  IN [sign |-> "TCPA", Length |-> 50, Revision |-> revision, PlatformClass |-> class,
      Lasa |-> 5000, Laml |-> SizeOfAll(events) + spare,
      published |-> Listing(events, 5000),
      mem |-> [a \in DOMAIN log |-> [log[a] EXCEPT !.left = @ + spare]] @@ (IF rest = <<>> THEN << >> ELSE end :> rest[1])]
NoLog == [sign |-> "TCPA", Length |-> 50, Revision |-> 1, PlatformClass |-> "client",
          Lasa |-> 0, Laml |-> 0, published |-> <<>>, mem |-> << >>]
Tcpas ==
  {TcpaTable(1, "client", l, r) : l \in UpTo({Event1(20, 0), Event1(20, 4)}, 2), r \in {<<>>, <<Zeros>>, <<Ones>>}}
    \cup {TcpaTable(2, c, l, r) : c \in {"client", "server"}, l \in UpTo({Event2(0), Event2(4)}, 2), r \in {<<>>, <<Ones>>}}
    \cup {NoLog}

MCTables ==
  Madts \cup MadtsOfPlatform \cup Srats \cup SratsOf4 \cup Hests \cup HestsCut \cup Dmars \cup Nfits \cup Asfs \cup Fpdts \cup Ibfts
    \cup Pmtts \cup Lpits \cup Dbg2s \cup Mpsts \cup Arrays \cup Tcpas

(* The memory behind a table is all ones.                                   *)
MCBehind == [Type |-> 255, Length |-> 65535, extent |-> 0, n |-> 0]
=============================================================================
