----------------------------- MODULE AcpiLayout -----------------------------
(***************************************************************************)
(* The tables with sub-structures as the specifications lay them out which *)
(* the DumpAcpi libraries are written for, ACPI and those it refers to.    *)
(*                                                                         *)
(* A structure is part of a list; besides its fields it has                *)
(*   list     the list, under the name of the loop that walks it,          *)
(*   left     how much of the list begins with it: in bytes where the      *)
(*            table has a length, in structures where it has a count,      *)
(*   extent   its own size, without the lists inside of it.                *)
(***************************************************************************)
EXTENDS Integers

ByType == {"APIC", "SRAT"}   \* what is left goes down by a size that the type tells
Late == {"PMTT", "LPIT"}     \* or by the Length of the next structure

(* At this address begins this much of a list.                              *)
Begins(t, list, a, left) ==
  left > 0 => /\ a \in DOMAIN t.mem
              /\ t.mem[a].list = list /\ t.mem[a].left = left

(* The list goes on behind the structure at a, or ends there.               *)
Goes(t, a, size, less) == Begins(t, t.mem[a].list, a + size, t.mem[a].left - less)
GoesByBytes(t, a) == t.mem[a].Length \in Nat /\ Goes(t, a, t.mem[a].Length, t.mem[a].Length)
GoesByCount(t, a) == t.mem[a].Length \in Nat /\ Goes(t, a, t.mem[a].Length, 1)
IsArray(t, a, size) == t.mem[a].extent >= size /\ Goes(t, a, size, 1)

(* The structures of MADT and SRAT that the libraries know.  Of MADT, those *)
(* of types 0 to 10 have one size each.                                     *)
MadtSize == <<8, 12, 10, 8, 6, 12, 16, 12, 16, 16, 12>>
MadtKnown(s) ==
  \/ s.Type \in 0 .. 10 /\ s.Length = MadtSize[s.Type + 1]
  \/ s.Type = 11 /\ s.Length >= 40
  \/ s.Type \in {12, 13} /\ s.Length >= 24
  \/ s.Type = 14 /\ s.Length >= 16
SratKnown(s) == <<s.Type, s.Length>> \in {<<0, 16>>, <<1, 40>>}
Known(list, s) == IF list = "APIC" THEN MadtKnown(s) ELSE SratKnown(s)

(* Others may be among them: ACPI 4.0 has a third in SRAT, and MADT has      *)
(* types for those who build the machine.                                    *)
TypedLaid(t, a, s) == s.extent = s.Length /\ s.Length >= 2 /\ GoesByBytes(t, a)

(* Banks of 28 bytes are behind an error source of type 0 or 1.              *)
HestSize == {<<0, 40>>, <<1, 48>>, <<2, 20>>, <<6, 48>>, <<7, 44>>, <<8, 56>>, <<9, 64>>}
HestLaid(t, a, s) ==
  s.Type \in {0, 1, 2, 6, 7, 8, 9} =>
    /\ <<s.Type, s.extent>> \in HestSize
    /\ IF s.Type \in {0, 1}
       THEN s.n \in Nat /\ Begins(t, "Banks", a + s.extent, s.n) /\ Goes(t, a, s.extent + 28 * s.n, 1)
       ELSE Goes(t, a, s.extent, 1)

DmarLaid(t, a, s) ==
  /\ GoesByBytes(t, a)
  /\ s.Type \in {0, 1, 2} => /\ <<s.Type, s.extent>> \in {<<0, 16>>, <<1, 24>>, <<2, 8>>}
                             /\ Begins(t, "Scopes", a + s.extent, s.Length - s.extent)
  /\ s.Type = 3 => s.extent >= 20
  /\ s.Type = 4 => s.extent = s.Length

ScopeLaid(t, a, s) == s.extent = s.Length /\ s.Length >= 6 /\ GoesByBytes(t, a)

NfitLaid(t, a, s) ==
  /\ GoesByBytes(t, a)
  /\ s.Type \in {2, 6} => s.n \in Nat
  /\ s.extent >= CASE s.Type = 0 -> 56
                   [] s.Type = 1 -> 48
                   [] s.Type = 2 -> 16 + 4 * s.n
                   [] s.Type = 3 -> s.Length
                   [] s.Type = 4 -> 80
                   [] s.Type = 5 -> 40
                   [] s.Type = 6 -> 16 + 8 * s.n
                   [] OTHER -> 0

(* ASF!: a bit in the last record tells where the list ends.                 *)
AsfLaid(t, a, s) ==
  /\ s.Length \in Nat /\ s.left = 1
  /\ s.IsLastRecord \in BOOLEAN
  /\ ~s.IsLastRecord => Goes(t, a, s.Length, 0)
  /\ s.Type \in {1, 2, 4} => s.n \in Nat
  /\ s.extent >= CASE s.Type = 0 -> 16
                   [] s.Type = 1 -> 8 + 12 * s.n
                   [] s.Type = 2 -> 8 + 4 * s.n
                   [] s.Type = 3 -> 23
                   [] s.Type = 4 -> 6 + s.n
                   [] OTHER -> 0

(* FPDT: a pointer is NULL or points at a table of performance records.      *)
PointsAt(t, list, a) == a \in Nat /\ (a # 0 => Begins(t, list, a, 1))
FpdtLaid(t, a, s) ==
  /\ GoesByBytes(t, a)
  /\ s.extent >= IF s.Type \in {0, 1} THEN 16 ELSE 4
  /\ s.Type = 0 => PointsAt(t, "BootTable", s.Pointer)
  /\ s.Type = 1 => PointsAt(t, "S3Table", s.Pointer)

PerformanceTableLaid(t, a, s, records) ==
  /\ s.extent >= 8 /\ GoesByCount(t, a)
  /\ Begins(t, records, a + 8, s.Length - 8)

BootRecordLaid(t, a, s) ==
  /\ s.extent >= (IF s.Type = 2 THEN 48 ELSE 4)
  /\ GoesByBytes(t, a)

S3RecordLaid(t, a, s) ==
  /\ s.extent >= CASE s.Type = 0 -> 24 [] s.Type = 1 -> 20 [] OTHER -> 4
  /\ GoesByBytes(t, a)

(* iBFT: behind 10 bytes, the control structure has pairs of offsets.        *)
IbftLaid(t, a, s) ==
  /\ s.extent = s.Length /\ s.Length >= 18 /\ GoesByCount(t, a)
  /\ PointsAt(t, "Initiator", s.InitiatorOffset)
  /\ Begins(t, "NicTarget", a + 10, (s.Length - 10) \div 4)
  /\ PointsAt(t, "Extensions", s.Extensions)

NicTargetLaid(t, a, s) ==
  /\ PointsAt(t, "Nic", s.NICOffset)
  /\ PointsAt(t, "Target", s.TargetOffset)
  /\ Goes(t, a, 4, 1)

IbftSize == [Initiator |-> 74, Nic |-> 102, Target |-> 54, Extensions |-> 6]

(* PMTT: sockets, controllers and DIMMs.                                     *)
ControllerLaid(t, a, s) ==
  /\ s.extent >= 32 /\ s.n \in Nat
  /\ s.n > 0 => a + 32 \in DOMAIN t.mem /\ t.mem[a + 32].extent >= 4   \* proximity domains
  /\ Begins(t, "Dimms", a + 32 + 4 * s.n, s.Length - 32 - 4 * s.n)

PmttLaid(t, a, s) ==
  /\ GoesByBytes(t, a)
  /\ s.Type = 0 => s.extent >= 12 /\ Begins(t, "Controllers", a + 12, s.Length - 12)
  /\ s.Type = 1 => ControllerLaid(t, a, s)
  /\ s.Type = 2 => s.extent >= 16

LpitLaid(t, a, s) == GoesByBytes(t, a) /\ (s.Type = 0 => s.extent >= 56)

(* DBG2: name, OEM data, registers and their sizes lie inside of it.         *)
Dbg2Laid(t, a, s) ==
  LET within(offset, size) == offset \in Nat /\ size \in Nat /\ offset + size <= s.extent IN
    /\ GoesByCount(t, a)
    /\ s.n \in Nat /\ s.extent \in Nat /\ s.extent >= 22
    /\ within(s.BaseAddressRegisterOffset, 12 * s.n)
    /\ within(s.AddressSizeOffset, 4 * s.n)
    /\ s.OemDataOffset # 0 => within(s.OemDataOffset, s.OemDataLength)
    /\ s.NameSpaceStringOffset # 0 => within(s.NameSpaceStringOffset, s.NameLength)

(* MPST: behind the nodes is a count, and behind that the characteristics.   *)
MpstLaid(t, a, s) ==
  IF s.left = 0
  THEN s.count \in Nat /\ Begins(t, "Characteristics", a + 4, s.count)
  ELSE /\ s.n \in Nat /\ s.m \in Nat /\ s.extent >= 32 + 2 * s.n + 2 * s.m
       /\ s.Length \in Nat
       /\ a + s.Length \in DOMAIN t.mem
       /\ t.mem[a + s.Length].list = "MPST" /\ t.mem[a + s.Length].left = s.left - 1

(* TCPA: a log of events, whose rest may be all zeros or all ones.           *)
TcpaLaid(t, a, s) ==
  LET spare == s.PCRIndex = "none" \/ (t.Revision < 2 /\ (s.major # 1 \/ s.minor = 0)) IN
    \/ spare
    \/ /\ s.extent = IF t.Revision < 2 THEN 20 + s.PCRValueLen + s.EventSize ELSE 32 + s.EventSize
       /\ s.EventSize \in Nat /\ (t.Revision < 2 => s.PCRValueLen \in Nat)
       /\ Goes(t, a, s.extent, s.extent)

Laid(t, a) ==
  LET s == t.mem[a] IN
    /\ s.left \in Nat
    /\ s.list \in ByType => TypedLaid(t, a, s)
    /\ s.list = "HEST" => HestLaid(t, a, s)
    /\ s.list = "Banks" => IsArray(t, a, 28)
    /\ s.list = "DMAR" => DmarLaid(t, a, s)
    /\ s.list = "Scopes" => ScopeLaid(t, a, s)
    /\ s.list = "NFIT" => NfitLaid(t, a, s)
    /\ s.list = "ASF!" => AsfLaid(t, a, s)
    /\ s.list = "FPDT" => FpdtLaid(t, a, s)
    /\ s.list = "BootTable" => PerformanceTableLaid(t, a, s, "BootRecords")
    /\ s.list = "S3Table" => PerformanceTableLaid(t, a, s, "S3Records")
    /\ s.list = "BootRecords" => BootRecordLaid(t, a, s)
    /\ s.list = "S3Records" => S3RecordLaid(t, a, s)
    /\ s.list = "IBFT" => IbftLaid(t, a, s)
    /\ s.list = "NicTarget" => NicTargetLaid(t, a, s)
    /\ s.list \in DOMAIN IbftSize => s.extent >= IbftSize[s.list] /\ s.left = 1
    /\ s.list = "PMTT" => PmttLaid(t, a, s)
    /\ s.list = "Controllers" => ControllerLaid(t, a, s) /\ GoesByBytes(t, a)
    /\ s.list = "Dimms" => s.extent >= 16 /\ GoesByBytes(t, a)
    /\ s.list = "LPIT" => LpitLaid(t, a, s)
    /\ s.list = "DBG2" => Dbg2Laid(t, a, s)
    /\ s.list = "MPST" => MpstLaid(t, a, s)
    /\ s.list = "Characteristics" => IsArray(t, a, 28)
    /\ s.list = "WDAT" => IsArray(t, a, 24)
    /\ s.list \in {"ERST", "EINJ"} => IsArray(t, a, 32)
    /\ s.list = "MSCT" => s.extent >= 22 /\ GoesByCount(t, a)
    /\ s.list = "CPEP" => s.extent >= 8 /\ Goes(t, a, 8, 8)
    /\ s.list = "MCFG" => s.extent >= 16 /\ Goes(t, a, 16, 16)
    /\ s.list = "TCPA" => TcpaLaid(t, a, s)

(* Where the first list of a table is, and how long.                        *)
HeaderSize ==
  [APIC |-> 44, SRAT |-> 48, DMAR |-> 48, NFIT |-> 40, FPDT |-> 36, PMTT |-> 40, LPIT |-> 36,
   CPEP |-> 44, MCFG |-> 44, HEST |-> 40, WDAT |-> 68, ERST |-> 48, EINJ |-> 48, MPST |-> 44]
ByteLists == {"APIC", "SRAT", "DMAR", "NFIT", "FPDT", "PMTT", "LPIT", "CPEP", "MCFG"}
CountLists == {"HEST", "WDAT", "ERST", "EINJ"}
ListBegins(t) ==
  /\ t.sign \in ByteLists \cup CountLists \cup {"MPST", "DBG2", "MSCT", "ASF!", "IBFT", "TCPA"}
  /\ t.sign \in ByteLists => Begins(t, t.sign, HeaderSize[t.sign], t.Length - HeaderSize[t.sign])
  /\ t.sign \in CountLists => t.count \in Nat /\ Begins(t, t.sign, HeaderSize[t.sign], t.count)
  /\ t.sign = "MPST" =>
       LET a == HeaderSize["MPST"] IN
         t.count \in Nat /\ a \in DOMAIN t.mem /\ t.mem[a].list = "MPST" /\ t.mem[a].left = t.count
  /\ t.sign = "DBG2" =>
       /\ t.OffsetDbgDeviceInfo \in Nat /\ t.count \in Nat
       /\ Begins(t, "DBG2", t.OffsetDbgDeviceInfo, t.count)
  /\ t.sign = "MSCT" =>
       /\ t.OffsetProxDomInfo \in Nat /\ t.Maximum \in Nat
       /\ Begins(t, "MSCT", t.OffsetProxDomInfo, t.Maximum + 1)
  /\ t.sign = "ASF!" => Begins(t, "ASF!", 36, 1)
  /\ t.sign = "IBFT" => Begins(t, "IBFT", 48, 1)
  /\ t.sign = "TCPA" =>
       t.Lasa \in Nat /\ t.Laml \in Nat /\ (t.Lasa # 0 => Begins(t, "TCPA", t.Lasa, t.Laml))

TableLaid(t) ==
  /\ t.Length \in Nat
  /\ DOMAIN t.mem \subseteq Nat
  /\ t.sign \in ByType \cup Late => DOMAIN t.mem \subseteq 0 .. t.Length - 1
  /\ ListBegins(t)
  /\ \A a \in DOMAIN t.mem : Laid(t, a)

(* Memory in which the firmware has not put a structure is read as one too.  *)
ReadsAsOne(behind) == behind.Length \in Nat /\ behind.n \in Nat

(* The tables that the libraries were written for.  The loops of MADT and    *)
(* SRAT need structures that they know; those of PMTT and LPIT need behind   *)
(* the table what is taken for a Length, not less than that of the first     *)
(* structure.                                                                *)
WrittenFor(t, behind) ==
  /\ t.sign \in ByType => \A a \in DOMAIN t.mem : Known(t.sign, t.mem[a])
  /\ t.sign \in Late /\ HeaderSize[t.sign] \in DOMAIN t.mem =>
       t.mem[HeaderSize[t.sign]].Length <= behind.Length
=============================================================================
