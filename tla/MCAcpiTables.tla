---------------------------- MODULE MCAcpiTables ----------------------------
(* Three FADTs (of ACPI 1.0; with a narrow FACS and two DSDTs; without a    *)
(* FACS), tables of AML code of one and two bytes, a table with a library   *)
(* and one without.  A list has at most one FADT.                           *)
EXTENDS AcpiTables

Plain(sign, n) == [Signature |-> sign, Length |-> n]

FADT(extended, facs, xfacs, dsdt, xdsdt) ==
  [Signature |-> "FACP", Length |-> 1, Extended |-> extended,
   FirmwareCtrl |-> facs, XFirmwareCtrl |-> xfacs, Dsdt |-> dsdt, XDsdt |-> xdsdt]

MCTable ==
  [fadt1 |-> FADT(FALSE, "facs1", "facs2", "dsdt1", NULL),
   fadt2 |-> FADT(TRUE, "facs1", NULL, "dsdt1", "dsdt2"),
   fadt3 |-> FADT(TRUE, NULL, NULL, NULL, "dsdt1"),
   facs1 |-> Plain("FACS", 1), facs2 |-> Plain("FACS", 1),
   dsdt1 |-> Plain("DSDT", 2), dsdt2 |-> Plain("DSDT", 1),
   ssdt1 |-> Plain("SSDT", 1), ssdt2 |-> Plain("SSDT", 2),
   psdt1 |-> Plain("PSDT", 1), apic1 |-> Plain("APIC", 1), oem1 |-> Plain("OEMx", 1)]

Listed == Fadts \cup {NULL, "dsdt1", "ssdt1", "ssdt2", "psdt1", "apic1", "oem1"}

ListsOf(n) ==
  {l \in UNION {[1 .. k -> Listed] : k \in 0 .. n} :
     Cardinality({i \in DOMAIN l : l[i] \in Fadts}) <= 1}

RSDP(revision, rsdt, xsdt) == [Revision |-> revision, rsdt |-> rsdt, xsdt |-> xsdt]

MCFirmwares ==
  {[v10 |-> NULL, v20 |-> RSDP(2, <<"apic1">>, l)] : l \in ListsOf(3)}
    \cup UNION {{[v10 |-> RSDP(0, l, NULL), v20 |-> NULL],
                 [v10 |-> RSDP(0, <<"oem1">>, NULL), v20 |-> RSDP(2, l, NULL)],
                 [v10 |-> NULL, v20 |-> RSDP(0, l, <<"apic1">>)]} : l \in ListsOf(2)}
    \cup {[v10 |-> NULL, v20 |-> NULL], [v10 |-> RSDP(0, NULL, NULL), v20 |-> NULL]}

MCLinked == <<"APIC", "SRAT">>
MCSigns == RootSigns \cup AmlSigns \cup {"FACP", "FACS", "APIC", "OEMx"}
=============================================================================
