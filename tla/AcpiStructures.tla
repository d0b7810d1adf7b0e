--------------------------- MODULE AcpiStructures ---------------------------
(***************************************************************************)
(* The functions of the DumpAcpi libraries that print one structure of a   *)
(* table.  What such a function does is abstracted to its name and to how  *)
(* far it reads, in bytes from the start of the structure: a constant is   *)
(* the size of the C structure whose fields it prints, an operator is one  *)
(* that also looks at Length, at a count or at offsets in the structure.   *)
(* Wording, flags and the names of values are left out.                    *)
(***************************************************************************)
EXTENDS Naturals, FiniteSetsExt

Prints(function, n) == <<[by |-> function, reach |-> n]>>

(* MADT *)
DumpApicProcessorLocalApic         == Prints("ProcessorLocalApic", 8)
DumpApicIOApic                     == Prints("IOApic", 12)
DumpApicInterruptSourceOverride    == Prints("InterruptSourceOverride", 10)
DumpApicNonMaskableInterruptSource == Prints("NonMaskableInterruptSource", 8)
DumpApicLocalApicNMI               == Prints("LocalApicNMI", 6)
DumpApicLocalApicAddressOverride   == Prints("LocalApicAddressOverride", 12)
DumpApicIOSapic                    == Prints("IOSapic", 16)
DumpApicProcessorLocalSapic        == Prints("ProcessorLocalSapic", 12)
DumpApicPlatformInterruptSource    == Prints("PlatformInterruptSource", 16)
DumpApicProcessorLocalX2Apic       == Prints("ProcessorLocalX2Apic", 16)
DumpApicLocalX2ApicNmi             == Prints("LocalX2ApicNmi", 12)

(* Mutant: the fields of ACPI 5.1 are printed of a structure of 5.0 too.    *)
DumpApicGic_Wide(s) == Prints("Gic", 76)

(* The structure has grown from ACPI 5.0 to 5.1.                            *)
DumpApicGic(s) == Prints("Gic", IF s.Length >= 76 THEN 76 ELSE 40)

DumpApicGicDistributor   == Prints("GicDistributor", 24)
DumpApicGicMsiFrame      == Prints("GicMsiFrame", 24)
DumpApicGicRedistributor == Prints("GicRedistributor", 16)

(* SRAT *)
DumpAcpiProcessorLocalApicSapicAffinity == Prints("ProcessorLocalApicSapicAffinity", 16)
DumpAcpiMemoryAffinity                  == Prints("MemoryAffinity", 40)

(* HEST.  A notification structure of 28 bytes is part of three of them.    *)
DumpHestMachineCheckErrorBank         == Prints("MachineCheckErrorBank", 28)
DumpHestHardwareNotificationStructure == 28
DumpHestIa32MachineCheckException     == Prints("Ia32MachineCheckException", 40)
DumpHestIa32CorrectedMachineCheck     == Prints("Ia32CorrectedMachineCheck",
                                              20 + DumpHestHardwareNotificationStructure)
DumpHestIa32NmiError                  == Prints("Ia32NmiError", 20)
DumpHestPcieRootPortAer               == Prints("PcieRootPortAer", 48)
DumpHestPcieDeviceAer                 == Prints("PcieDeviceAer", 44)
DumpHestPcieBridgeAer                 == Prints("PcieBridgeAer", 56)
DumpHestGenericHardwareError          == Prints("GenericHardwareError",
                                              36 + DumpHestHardwareNotificationStructure)

(* DMAR.  As many pairs of device and function as fit into the scope.       *)
DumpDmarDeviceScopeEntry(s) == Prints("DeviceScopeEntry", 6 + 2 * ((s.Length - 6) \div 2))
DumpDmarAndd(s)             == Prints("Andd", s.Length)   \* with the name behind it
DumpDmarRhsa                == Prints("Rhsa", 20)
DumpDmarAtsr                == Prints("Atsr", 8)
DumpDmarRmrr                == Prints("Rmrr", 24)
DumpDmarDrhd                == Prints("Drhd", 16)

(* NFIT *)
DumpNfitFlushHintAddressStruct(s)            == Prints("FlushHintAddress", 16 + 8 * s.n)
DumpNfitNVDIMMBlockDataWindowRegionStruct    == Prints("BlockDataWindowRegion", 40)
DumpNfitNVDIMMControlRegionStruct            == Prints("ControlRegion", 80)
DumpNfitSMBIOSManagementInformationStruct(s) == Prints("SMBIOSManagementInformation", s.Length)
DumpNfitInterleaveStruct(s)                  == Prints("Interleave", 16 + 4 * s.n)
DumpNfitMemoryDeviceToSystemPhysicalAddressRangeMappingStruct ==
                                                Prints("MemoryDeviceToSystemPhysicalAddress", 48)
DumpNfitSystemPhysicalAddressRangeStruct     == Prints("SystemPhysicalAddressRange", 56)

(* ASF! *)
DumpAsfInfo     == Prints("AsfInfo", 16)
DumpAsfAlert(s) == Prints("AsfAlert", 8 + 12 * s.n)
DumpAsfRctl(s)  == Prints("AsfRctl", 8 + 4 * s.n)
DumpAsfRmcp     == Prints("AsfRmcp", 23)
DumpAsfAddr(s)  == Prints("AsfAddr", 6 + s.n)

(* FPDT, and the two tables it points at *)
DumpFpdtRecordHeader                == Prints("RecordHeader", 4)
DumpFpdtBasicBootData               == Prints("BasicBootData", 48)
DumpFpdtBasicBootTable              == Prints("BasicBootTable", 8)
DumpFpdtBootPerformanceTablePointer == Prints("BootPerformanceTablePointer", 16)
DumpFpdtS3PerformanceTableS3Resume  == Prints("S3Resume", 24)
DumpFpdtS3PerformanceTableS3Suspend == Prints("S3Suspend", 20)
DumpFpdtS3BootTable                 == Prints("S3BootTable", 8)
DumpFpdtS3PerformanceTablePointer   == Prints("S3PerformanceTablePointer", 16)

(* iBFT.  The heap of names and secrets at the end of the table is not part *)
(* of a structure; the control structure has two pairs of offsets or more.  *)
NicTargetCount(s)        == (s.Length - 18) \div 4 + 2
DumpIbftControlStruct(s) == Prints("Control", 10 + 4 * NicTargetCount(s))
DumpIbftInitiatorStruct  == Prints("Initiator", 74)
DumpIbftNicStruct        == Prints("Nic", 102)
DumpIbftTargetStruct     == Prints("Target", 54)
DumpIbftExtensionsStruct == Prints("Extensions", 6)

(* PMTT.  Each of them begins with what DumpPmttDevice prints.              *)
DumpPmttDevice           == 8
DumpPmttDimm             == Prints("Dimm", DumpPmttDevice + 8)
DumpPmttMemoryController == Prints("MemoryController", DumpPmttDevice + 24)
DumpPmttSocket           == Prints("Socket", DumpPmttDevice + 4)
ProximityDomain          == Prints("ProximityDomain", 4)

(* Tables whose structures are all of one kind, and the two of MPST         *)
DumpNativeCStateLpiStateStructure  == Prints("NativeCStateLpiState", 56)
DumpMemoryPowerNode(s)             == Prints("MemoryPowerNode", 32 + 2 * s.n + 2 * s.m)
DumpMemoryPowerStateCharacteristic == Prints("MemoryPowerStateCharacteristic", 28)
DumpAcpiWdatActionTable            == Prints("WdatAction", 24)
DumpErstInstructionEntry           == Prints("ErstInstruction", 32)
DumpEinjInstructionEntry           == Prints("EinjInstruction", 32)
DumpAcpiCpepStruct                 == Prints("CpepStruct", 8)
DumpAcpiMaximumProximityDomainInformation == Prints("MaximumProximityDomain", 22)
DumpAcpiMemoryMappedConfigurationBaseAddressAllocation == Prints("BaseAddressAllocation", 16)

(* DBG2: a name, OEM data, registers and their sizes at offsets of its own.  *)
DumpDbg2DeviceInfoStruct(s) ==
  Prints("DeviceInfo", Max({22, s.BaseAddressRegisterOffset + 12 * s.n, s.AddressSizeOffset + 4 * s.n}
    \cup (IF s.OemDataOffset = 0 THEN {} ELSE {s.OemDataOffset + s.OemDataLength})
    \cup (IF s.NameSpaceStringOffset = 0 THEN {} ELSE {s.NameSpaceStringOffset + s.NameLength})))
=============================================================================
