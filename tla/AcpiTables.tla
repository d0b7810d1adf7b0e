----------------------------- MODULE AcpiTables -----------------------------
(***************************************************************************)
(* The DumpACPI application (DumpACPI.c): it finds the root tables through *)
(* the system table and hands each table they list to the library that is  *)
(* registered for its signature, all of them or, with -s, those of one     *)
(* signature.  With -d, tables of AML code are also written to files.      *)
(*                                                                         *)
(* What a library prints of a table (raw bytes with -d, fields with -v) is *)
(* layout; here it is the fact that this library printed this table.       *)
(***************************************************************************)
EXTENDS Naturals, FiniteSets, SequencesExt, Sublists

CONSTANTS
  NULL,        \* the null pointer
  NoSign,      \* there is no -s
  Table,       \* memory: a function from addresses to tables
  Firmwares,   \* what the system table may have under the two ACPI GUIDs: [v10, v20]; each
               \* NULL, or an RSDP [Revision, rsdt, xsdt] with two lists of addresses, or NULL
  Linked,      \* the signatures whose libraries are linked in, in the order of construction
  MaxFuncs,    \* DUMP_ACPI_TABLE_FUNC_MAX_NUMBER
  Signs,       \* the values of -s
  OldLengths,  \* the lengths of files that earlier runs have left
  MaxFiles     \* of one kind; more than a list of tables needs

EntryPointSigns == <<"FACP", "FACS", "DSDT", "SSDT", "PSDT">>
AmlSigns == {"DSDT", "SSDT", "PSDT"}
RootSigns == {"RSDP", "RSDT", "XSDT"}
Old == "old"   \* a byte that an earlier run has written

Pointers == DOMAIN Table \cup {NULL}
Fadts == {p \in DOMAIN Table : Table[p].Signature = "FACP"}

ASSUME AcpiAssumption ==
  /\ NULL \notin DOMAIN Table /\ Old \notin DOMAIN Table
  /\ NoSign \notin Signs \cup RootSigns \cup ToSet(EntryPointSigns)
  /\ OldLengths \subseteq Nat /\ MaxFiles \in Nat \ {0}

(* The registry has room for what is linked in, which leaves the root       *)
(* tables to DumpACPI.c.                                                    *)
ASSUME RegistryAssumption ==
  /\ Linked \in Seq(STRING)
  /\ ToSet(Linked) \cap RootSigns = {}
  /\ MaxFuncs \in Nat /\ Len(Linked) + Len(EntryPointSigns) <= MaxFuncs

(* Tables and lists of tables are as the ACPI specification has them.       *)
ASSUME TableAssumption ==
  /\ \A p \in DOMAIN Table : Table[p].Length \in Nat /\ Table[p].Signature \notin RootSigns
  /\ \A p \in Fadts :
       LET Facses == {Table[p].FirmwareCtrl, Table[p].XFirmwareCtrl}
           Dsdts == {Table[p].Dsdt, Table[p].XDsdt}
       IN /\ Table[p].Extended \in BOOLEAN
          /\ \A q \in Facses : q = NULL \/ (q \in DOMAIN Table /\ Table[q].Signature = "FACS")
          /\ \A q \in Dsdts : q = NULL \/ (q \in DOMAIN Table /\ Table[q].Signature = "DSDT")

ASSUME FirmwareAssumption ==
  \A f \in Firmwares : \A rsdp \in {f.v10, f.v20} \ {NULL} :
    /\ rsdp.Revision \in Nat
    /\ \A entries \in {rsdp.rsdt, rsdp.xsdt} \ {NULL} :
         /\ entries \in Seq(Pointers) /\ Len(entries) < MaxFiles
         /\ \A i, j \in DOMAIN entries : entries[i] \in Fadts /\ entries[j] \in Fadts => i = j

VARIABLES
  firmware,
  files,       \* the volume: from names such as <<"SSDT", 1>> to what the files hold
  registry,    \* mDumpAcpiTableFuncStruct, as the sequence of its signatures
  mIsDumpData,
  mTableSign,
  pc,
  list,        \* the entries of the RSDT or XSDT that are walked
  Index,
  Facs, Dsdt,  \* SubTable1, SubTable2
  FileIndex,   \* the static of DumpAcpiDSDT, DumpAcpiSSDT and DumpAcpiPSDT
  printed      \* the output: which library printed which table

walk == <<list, Index, Facs, Dsdt>>
output == <<FileIndex, files, printed>>
options == <<registry, mIsDumpData, mTableSign>>
vars == <<firmware, options, pc, walk, output>>

Names == AmlSigns \X (1 .. MaxFiles)

(* A signature that is registered already, or one too many, is refused.     *)
RegisterDumpAcpiTable(funcs, Signature) ==
  IF Contains(funcs, Signature) \/ Len(funcs) >= MaxFuncs THEN funcs ELSE Append(funcs, Signature)

Registered(signs) ==
  LET funcs[n \in 0 .. Len(signs)] ==
        IF n = 0 THEN <<>> ELSE RegisterDumpAcpiTable(funcs[n - 1], signs[n])
  IN  funcs[Len(signs)]

(* A function is named by its signature; "any" is DumpAcpiTables.           *)
GetDumpAcpiTableFunc(Signature) == IF Contains(registry, Signature) THEN Signature ELSE "any"

Init ==
  /\ firmware \in Firmwares
  /\ \E n \in OldLengths :
       files = [name \in Names |-> IF name[2] = 1 THEN [i \in 1 .. n |-> Old] ELSE <<>>]
  /\ registry = <<>> /\ mIsDumpData = FALSE /\ mTableSign = NoSign
  /\ pc = "Shell"
  /\ list = <<>> /\ Index = 1 /\ Facs = NULL /\ Dsdt = NULL
  /\ FileIndex = [sign \in AmlSigns |-> 0]
  /\ printed = <<>>

(* The constructors of the libraries, then DumpACPIEntryPoint.  A new image *)
(* starts from the initial values of its static variables.  -? and a wrong  *)
(* command line only print.                                                 *)
DumpACPIEntryPoint ==
  /\ pc \in {"Shell", "Done"}
  /\ registry' = Registered(Linked \o EntryPointSigns)
  /\ mIsDumpData' \in BOOLEAN
  /\ mTableSign' \in Signs \cup {NoSign}
  /\ pc' = "ScanRoots"
  /\ list' = <<>> /\ Index' = 1 /\ Facs' = NULL /\ Dsdt' = NULL
  /\ FileIndex' = [sign \in AmlSigns |-> 0]
  /\ printed' = <<>>
  /\ UNCHANGED <<firmware, files>>

(* The one of ACPI 2.0 is preferred, whatever its revision.                 *)
ScanAcpiRSDP == IF firmware.v20 # NULL THEN firmware.v20 ELSE firmware.v10

(* mIsAcpi20: without it the RSDP has no XSDT.                              *)
mIsAcpi20 == firmware.v20 # NULL /\ firmware.v20.Revision >= 2

Rsdt == ScanAcpiRSDP.rsdt
Xsdt == IF mIsAcpi20 THEN ScanAcpiRSDP.xsdt ELSE NULL

Entries == CASE Xsdt # NULL -> Xsdt [] Xsdt = NULL /\ Rsdt # NULL -> Rsdt [] OTHER -> <<>>

RootTables == <<"RSDP">> \o (IF Rsdt = NULL THEN <<>> ELSE <<"RSDT">>)
                         \o (IF Xsdt = NULL THEN <<>> ELSE <<"XSDT">>)

Line(function, table) == [by |-> function, table |-> table]

NoRoots ==
  /\ pc = "ScanRoots" /\ ScanAcpiRSDP = NULL
  /\ pc' = "Done"
  /\ UNCHANGED <<firmware, options, walk, output>>

(* DumpAcpiAllTable, up to its two loops.                                   *)
DumpRoots ==
  /\ pc = "ScanRoots" /\ ScanAcpiRSDP # NULL /\ mTableSign = NoSign
  /\ printed' = [i \in DOMAIN RootTables |-> Line(RootTables[i], RootTables[i])]
  /\ list' = Entries
  /\ pc' = "Entries"
  /\ UNCHANGED <<firmware, options, Index, Facs, Dsdt, FileIndex, files>>

(* DumpAcpiTableWithSign, up to its two loops.                              *)
SelectRoot ==
  /\ pc = "ScanRoots" /\ ScanAcpiRSDP # NULL /\ mTableSign # NoSign
  /\ printed' = IF Contains(RootTables, mTableSign) THEN <<Line(mTableSign, mTableSign)>> ELSE <<>>
  /\ list' = Entries
  /\ pc' = IF mTableSign \in RootSigns THEN "Done" ELSE "Entries"
  /\ UNCHANGED <<firmware, options, Index, Facs, Dsdt, FileIndex, files>>

(* Mutant: a table is written behind what the file holds.                   *)
Write_Behind(file, table, n) == file \o [i \in 1 .. n |-> table]

(* A file that exists is opened as it is, and written from its start.       *)
Write(file, table, n) ==
  [i \in 1 .. (IF n > Len(file) THEN n ELSE Len(file)) |-> IF i <= n THEN table ELSE file[i]]

FileName(sign) == <<sign, FileIndex'[sign]>>

(* DumpAcpiDSDT, DumpAcpiSSDT and DumpAcpiPSDT with -d.  Each call of the   *)
(* file system may fail, the last one when part of the table is written;    *)
(* every such path frees FileName, an array on the stack, and FreePool      *)
(* stops the machine with an ASSERT.                                        *)
WriteAml(sign, table, next) ==
  /\ FileIndex' = [FileIndex EXCEPT ![sign] = @ + 1]
  /\ \/ /\ files' = [files EXCEPT ![FileName(sign)] = Write(@, table, Table[table].Length)]
        /\ pc' = next
     \/ /\ \E n \in 0 .. Table[table].Length - 1 :
             files' = [files EXCEPT ![FileName(sign)] = Write(@, table, n)]
        /\ pc' = "Assert"

(* One call of a library's function.                                        *)
Dump(function, table, next) ==
  /\ printed' = Append(printed, Line(function, table))
  /\ IF mIsDumpData /\ function \in AmlSigns
     THEN WriteAml(function, table, next)
     ELSE pc' = next /\ UNCHANGED <<FileIndex, files>>

DumpOrNothing(function, table, next) ==
  IF table = NULL THEN pc' = next /\ UNCHANGED output ELSE Dump(function, table, next)

(* Mutant: only the pointers of 64 bits are looked at.                      *)
ScanAcpiFADT_Wide(fadt) == /\ Facs' = Table[fadt].XFirmwareCtrl
                           /\ Dsdt' = Table[fadt].XDsdt

(* A FADT from ACPI 2.0 on has a wide pointer too, which may be NULL.       *)
ScanAcpiFADT(fadt) ==
  LET Pick(wide, narrow) == IF Table[fadt].Extended /\ wide # NULL THEN wide ELSE narrow
  IN /\ Facs' = Pick(Table[fadt].XFirmwareCtrl, Table[fadt].FirmwareCtrl)
     /\ Dsdt' = Pick(Table[fadt].XDsdt, Table[fadt].Dsdt)

At(p) == pc = "Entries" /\ Index <= Len(list) /\ list[Index] = p

(* The loops of DumpAcpiAllTable.                                           *)
SkipNull ==
  /\ mTableSign = NoSign /\ At(NULL)
  /\ Index' = Index + 1
  /\ UNCHANGED <<firmware, options, pc, list, Facs, Dsdt, output>>

DumpEntry ==
  /\ mTableSign = NoSign
  /\ \E p \in DOMAIN Table :
       /\ At(p)
       /\ IF Table[p].Signature = "FACP"
          THEN /\ Dump(GetDumpAcpiTableFunc("FACP"), p, "Facs")
               /\ ScanAcpiFADT(p)
          ELSE /\ Dump(GetDumpAcpiTableFunc(Table[p].Signature), p, "Entries")
               /\ UNCHANGED <<Facs, Dsdt>>
  /\ Index' = Index + 1
  /\ UNCHANGED <<firmware, options, list>>

(* DumpAcpiFACS and DumpAcpiDSDT are called without a look at what they     *)
(* print.                                                                   *)
DumpFacs ==
  /\ pc = "Facs"
  /\ DumpOrNothing("FACS", Facs, "Dsdt")
  /\ UNCHANGED <<firmware, options, walk>>

DumpDsdt ==
  /\ pc = "Dsdt"
  /\ DumpOrNothing("DSDT", Dsdt, "Entries")
  /\ UNCHANGED <<firmware, options, walk>>

(* The loops of DumpAcpiTableWithSign.  They read the signature of whatever *)
(* an entry points to, at address 0 also.  The processor stops there if no  *)
(* memory is mapped; otherwise what it reads is taken to be no signature.   *)
ReadNull ==
  /\ mTableSign # NoSign /\ At(NULL)
  /\ \/ pc' = "Fault" /\ UNCHANGED Index
     \/ Index' = Index + 1 /\ UNCHANGED pc
  /\ UNCHANGED <<firmware, options, list, Facs, Dsdt, output>>

(* Mutant: the loop ends with the first table that has the signature.       *)
SelectEntry_First ==
  /\ mTableSign # NoSign
  /\ \E p \in DOMAIN Table :
       /\ At(p)
       /\ DumpOrNothing(GetDumpAcpiTableFunc(Table[p].Signature),
                        IF Table[p].Signature = mTableSign THEN p ELSE NULL, "Entries")
       /\ IF Table[p].Signature = "FACP" THEN ScanAcpiFADT(p) ELSE UNCHANGED <<Facs, Dsdt>>
       /\ Index' = IF Table[p].Signature = mTableSign THEN Len(list) + 1 ELSE Index + 1
  /\ UNCHANGED <<firmware, options, list>>

SelectEntry ==
  /\ mTableSign # NoSign
  /\ \E p \in DOMAIN Table :
       /\ At(p)
       /\ DumpOrNothing(GetDumpAcpiTableFunc(Table[p].Signature),
                        IF Table[p].Signature = mTableSign THEN p ELSE NULL, "Entries")
       /\ IF Table[p].Signature = "FACP" THEN ScanAcpiFADT(p) ELSE UNCHANGED <<Facs, Dsdt>>
  /\ Index' = Index + 1
  /\ UNCHANGED <<firmware, options, list>>

(* Behind the loops, the tables that only a FADT points to.                 *)
EndOfEntries ==
  /\ pc = "Entries" /\ Index > Len(list)
  /\ CASE mTableSign = "FACS" -> DumpOrNothing("FACS", Facs, "Done")
       [] mTableSign = "DSDT" -> DumpOrNothing("DSDT", Dsdt, "Done")
       [] OTHER -> pc' = "Done" /\ UNCHANGED output
  /\ UNCHANGED <<firmware, options, walk>>

(* The user resets a machine that has stopped.                              *)
Reset ==
  /\ pc \in {"Assert", "Fault"}
  /\ pc' = "Shell"
  /\ UNCHANGED <<firmware, options, walk, output>>

Next ==
  \/ DumpACPIEntryPoint \/ NoRoots \/ DumpRoots \/ SelectRoot
  \/ SkipNull \/ DumpEntry \/ DumpFacs \/ DumpDsdt
  \/ ReadNull \/ SelectEntry \/ EndOfEntries
  \/ Reset

Spec == Init /\ [][Next]_vars
-----------------------------------------------------------------------------
(* What the firmware has published, as the ACPI specification reads it: the *)
(* tables of the list in force, and those a FADT points to behind it.       *)
InForce ==
  LET Rsdp == IF firmware.v20 = NULL THEN firmware.v10 ELSE firmware.v20
      Lists == IF firmware.v20 # NULL /\ Rsdp.Revision >= 2
               THEN <<Rsdp.xsdt, Rsdp.rsdt>>
               ELSE <<Rsdp.rsdt>>
      present == {i \in DOMAIN Lists : Lists[i] # NULL}
  IN IF Rsdp = NULL THEN <<>> ELSE IF present = {} THEN <<>> ELSE Lists[Min(present)]

Libraries == ToSet(Linked \o EntryPointSigns) \cup {"any"}
LibraryFor(sign) == IF sign \in ToSet(Linked \o EntryPointSigns) THEN sign ELSE "any"

PointedTo(function, pointers) ==
  LET present == {i \in DOMAIN pointers : pointers[i] # NULL}
  IN IF present = {} THEN <<>> ELSE <<Line(function, pointers[Min(present)])>>

PublishedBy(p) ==
  LET Wide(q) == IF Table[p].Extended THEN <<q>> ELSE <<>>
  IN IF p = NULL THEN <<>>
     ELSE IF Table[p].Signature # "FACP" THEN <<Line(LibraryFor(Table[p].Signature), p)>>
     ELSE <<Line("FACP", p)>>
            \o (PointedTo("FACS", Wide(Table[p].XFirmwareCtrl) \o <<Table[p].FirmwareCtrl>>)
            \o PointedTo("DSDT", Wide(Table[p].XDsdt) \o <<Table[p].Dsdt>>))

PublishedUpTo(n) == FlattenSeq([i \in 1 .. n |-> PublishedBy(InForce[i])])
Published == PublishedUpTo(Len(InForce))

LinesBy(functions) == [by : functions, table : DOMAIN Table]
PrintedTables == Where(printed, LinesBy(Libraries))

(* DumpACPI without -s prints every published table once for each time it   *)
(* is published, in order and by the library for its signature, also when a *)
(* file error stops it half way.                                            *)
FullDumpIsComplete ==
  mTableSign = NoSign =>
    /\ PrintedTables # <<>> => IsPrefix(PrintedTables, Published)
    /\ pc = "Done" => PrintedTables = Published

Times(seq, e) == Cardinality({i \in DOMAIN seq : seq[i] = e})

OfSign(sign) ==
  [by : Libraries, table : {p \in DOMAIN Table : Table[p].Signature = sign}]

SignPrintsItsTables ==
  LET Selected == Where(Published, OfSign(mTableSign))
  IN \A line \in ToSet(Selected) \cup ToSet(PrintedTables) :
       Times(PrintedTables, line) = Times(Selected, line)

(* The two pairs of loops agree: with -s a dump that reaches its end has    *)
(* printed what it prints without, of tables that have the signature.       *)
SignFiltersDump == pc = "Done" /\ mTableSign # NoSign => SignPrintsItsTables

(* After a dump with -d the n-th file of a kind begins with the n-th table  *)
(* of that kind in the output, whatever earlier runs have left there.       *)
FilesHoldTables ==
  pc = "Done" /\ mIsDumpData =>
    \A sign \in AmlSigns :
      LET tables == Where(printed, LinesBy({sign}))
      IN \A n \in DOMAIN tables :
           LET p == tables[n].table
           IN IsPrefix([i \in 1 .. Table[p].Length |-> p], files[<<sign, n>>])
=============================================================================
