# AppEfiPkg in TLA+

AppEfiPkg is a package of UEFI shell applications (and a few SMM and PEI
drivers behind them) that inspect and change a running firmware: they dump the
databases of the PEI, DXE and SMM cores, ACPI tables, PCDs, TPM event logs and
device data, and they write boot options, counters, microcode and flash.
`AppEfiPkg.dsc` builds them, as `AcpiToolPkg.dsc` does DumpACPI, though many, among them the SMM and PEI dumps, Tcg2DumpLog,
VtdDump and BootOption, are commented out in its list of components. `PcdDebugPropertyMask` is 0x2f or 0x23 in the one, a loop
for ever, and 0x1f in the other, a breakpoint: `ASSERT` is compiled in and stops the machine, in every build.

This directory holds the specifications of the parts whose behaviour is more
than formatting, the TLC configurations that check them, and the proofs.
`PROJECT.json` maps every definition to the source lines it stands for.

1. [Inventory](#1-inventory): the system, part by part
2. [The modules](#2-the-modules), and how they correspond to the code
3. [The runs](#3-the-runs): what TLC checks, with which bounds
4. [Fairness](#4-fairness)
5. [The proofs](#5-the-proofs)
6. [Where code and comments disagree](#6-where-code-and-comments-disagree)
7. [What is not modelled](#7-what-is-not-modelled)
8. [The plan](#8-the-plan)

## 1. Inventory

### SMM core dump (`AppSrc/EdkiiCoreDatabaseDump/SmmCoreDump`)

Three programs that meet in shared memory:

```
  SMM core (external)          SmmCoreDump driver, in SMRAM           SmmCoreDumpApp, shell
  gHandleList, ...   --lists-->  SmmCoreDump.c  --BuildSmmCore-->       GetSmmCoreDatabase
  dispatcher's list  --list--->  SmmChildDumpLib   Database             |            ^
                                      |                                 | block      | block, data
                                 SmmCoreDumpHandler  <---- Communicate()/SMI -----> region
```

| part | state | operations | hard because | correct when |
|---|---|---|---|---|
| driver lifecycle (`SmmCoreDump.c`, `SmmChildDumpLib.c`) | the image table, five list heads found by probing | entry point; end-of-DXE and ready-to-lock notifications | it installs dummies into the lists it is about to dump, each step may fail, and two functions fill one table | the database shows the lists as they were locked, and nothing of the probing stays |
| database (`SmmCoreDumpHandler.c`, `SmmChildDumpLibHandler.c`, walks in `SmmCoreDumpApp.c`, `SmmChildDumpLibApp.c`) | a byte array of variable-length structures | size pass, data pass, walks | two passes and a reader, written separately, must agree to the byte; no count ends a walk | sizes agree, structures tile the array, the walks print exactly the lists |
| handler (`SmmCoreDumpHandler.c`) | database, its size | GET_INFO, GET_DATA_BY_OFFSET | every field of a request is the caller's; it runs as an SMI between any two instructions of the application | a reply is the slice that was asked for |
| transfer (`SmmCoreDumpApp.c`) | offset, size and status live in the shared block | locate, ask, copy, loop | it reads back from the block what the handler, or nobody, wrote; `Communicate()` may fail at every piece | what is dumped is the database, whole, or nothing |

### Applications that keep state across boots

| part | state | operations | hard because | correct when |
|---|---|---|---|---|
| BootOption (`AppSrc/BootOption`) | `BootOrder`, `Boot####`, shared with the firmware's boot manager | `-add`, `-dump` | two variables are written, one after the other; power fails in between; the boot manager deletes options meanwhile | an addition loses no other option |
| ResetCountApp (`AppSrc/ResetCountApp`) | the variable `ResetCountApp`, a timer, the key buffer | `-run`, `-setcount`, `-clean`, `-info` | it counts resets by resetting: the count must survive what it causes | no reset is lost, the script stops in time, the prompt ends |

### DumpACPI (`AcpiToolPkg`)

The largest program of the package. A table registry that some fifty libraries
fill from their constructors, a scan from RSDP over RSDT and XSDT to the tables,
and one dump function for each table. State: the registry, the list of tables
found, and in each walk a cursor and the length that is left.

| part | operations | hard because | correct when |
|---|---|---|---|
| the tool (`DumpACPI.c`, `DumpAcpiFADT.c` ... `DumpAcpiPSDT.c`) | all tables, or those with one signature; AML tables to files with `-d` | four loops over the tables, written separately (RSDT or XSDT, with `-s` or without); tables that only a FADT points to are collected on the way; files may exist already | every published table is printed once, `-s` prints those of its signature, a file holds the table that was printed |
| tables with sub-structures (nineteen `DumpAcpi*Lib`) | one walk for each format, some nested, some over pointers | each library keeps cursor and remaining length in step in a way of its own | each structure is printed once, in order, by the function of its type, none beyond its end, and the walk ends |
| tables of fixed layout | print | | |

### PeiCoreDump, DxeCoreDump (`AppSrc/EdkiiCoreDatabaseDump`)

PeiCoreDump: a PEIM asks to be called at the end of PEI, and collects the images
of the PEI core, its three lists of PPIs and notifications and its memory
into a GUIDed HOB in two passes; an application in the shell prints the HOB. Hard, because the callback
runs among others that still install PPIs, allocations may fail, the HOB has a length of 16 bits, and the
structures are counted, written and walked by three pieces of code. Correct when the application
prints what the core held when the callback ran.

DxeCoreDump finds the private lists of the DXE core by following the links of nodes it owns, its image handle and two
dummy events, and prints them in place, at `TPL_APPLICATION`. Hard, because callbacks of drivers run during each
`Print` and change the lists under the cursor: nodes are put in, taken out, moved, freed, and put in again in the same memory. Correct when what stays in its place is printed
once, with the name of the image it belongs to, and the dummies are gone.

### Readers of firmware data

Tcg2DumpLog prints the event log of the TPM, in two formats; with `-E` it computes what the PCRs have to hold,
with `-BIN` it saves the log, with `-PARSE` it prints a saved one. State: what the firmware logs, before the log is
asked for in the log, afterwards in the final events table; the file. Hard, because a log may be cut, or not be had at all, and
events lie in two places. Correct when the expected values are those of the TPM, every event is printed once, what is missing is told of, and a saved log is printed as it was.

VtdDump checks what PCI devices can reach through the VT-d units. From the DMAR table and a scan of the buses it finds which unit each device
belongs to; then it walks the translation tables of each unit and asks of every page whether the firmware has mapped it for that device, reserved it (RMRR)
or excepted the device, and says "Check PASS" or "Check FAIL". State: the units with their devices, the records of RMRRs and exceptions, one flag. Hard, because a
unit may take all that the units before it have left, paths are resolved in the bridges, a scan recurs over buses, arrays grow, and each of four sources decides on the verdict. Correct when
each unit has the devices that the table gives it, and the verdict follows from what devices reach.

HobList, GetPciOprom, tpmevlogdump: a cursor over the HOB list, a PCI ROM with several images, an
event log. PcdDump enumerates token
spaces. AtaInfo, ScsiInfo, UsbInfo, EsrtFmpDump, HstiWsmtDump, SmmProfileDump,
MemoryAttributesDump, DumpVirtioPciDev, Gcd read once and print. Correct when
each element is visited once and the walk ends.

### Programs that change something

MemoryTypeInfo predicts and writes the memory types of the next boot; StackUsage
fills the free stack and scans it later; PatchMicrocode loads microcode on one
processor after the other; GcdSet, InitSerial, DbxEnroll, GetVariablePerf and SmiPerf pass one
call on to a service; LsEfiApp holds the register and flash commands of
Loongson platforms (`spi` erases and writes).

### Examples and support code

`AppEfiFromOsPkg` holds tutorial programs, each a straight line of boot service
calls; `Support*.c` and `Utils.c` are helpers for strings, files and GUIDs that
most applications carry a copy of.

### Hazards

What can go wrong that a test would hardly reach is listed in `PROJECT.json`
under `hazards`, each at its line, with the properties that watch it, or the reason
why none does. The properties of section 3 were chosen from that list.

## 2. The modules

Conventions. Actions and variables carry the names of the functions and
variables they stand for. An SMI is one action: while the handler runs no
processor executes anything else. A failing service is a disjunct of the action
that calls it. A failed `ASSERT` is a state of its own, because the package is
built with ASSERTs; `assertsEnabled` of the transfer covers a build without them too. Operators named `X_Variant` are deliberately wrong variants of
`X`, kept beside it: each property fails when `X` is replaced by one of them, which
is how we know that the property looks at the code.

### SMM core dump

`SmmCoreDumpHandler` -- the handler as an action over the block (`comm`: the
header and the GET_DATA fields that follow it) and the data buffer. The early
returns are `Refused` (a buffer too small or inside SMRAM) and `Malformed` (a length
that does not fit the command, an unknown command). `DatabaseBuilt` is what `BuildSmmCoreDatabase`
leaves: a size, with or without a database, as allocation and data pass can fail
after the size pass. A byte is a member of the constant `Byte`.

`SmmCoreDumpServer` -- the handler with any caller: any block that its data
buffer can take, or the block of the last reply again.

`SmmCoreDumpApp` -- `GetSmmCoreDatabase` with the handler, one action per
stretch of code between two `Communicate()` calls, `Smi` and `CommunicateFails`
as the two things a call may do. The variables of the application that are not in the shared
block are `chunk` (`Size`), `Offset`, `appDatabase` and `appDatabaseSize`;
everything else the loop decides upon it reads back from `comm`, as the code does.

`DumpTransfer` -- the abstract specification: the application has a growing
prefix of the database, and ends with all of it or with nothing. `SmmCoreDumpApp`
implements it under the mapping `Copy`, `Outcome`; the mapping reads the progress from
the block, except while a piece is under way, where the block may already hold the
offset of the next one.

`SmmCoreDatabase` -- the memory of the database, as a function from offsets to the structures and array
items written there, with the sizes of the packed structures of `SmmCoreDumpComm.h` and `SmmChildDumpComm.h` (X64): size pass,
data pass with every bound check, image references, and the seven walks of the
application that resolve them. `Write` puts a structure into the memory over what was there, `Array` the items of one list as
far as they fit, `Record` a header with up to two arrays behind it, `Records` one record for each entry of a list. `Memory` gives what a walk reads at
an offset: where no structure begins it is `Garbage`, with a length of zero. `AllocateDatabase` is the first half of `BuildSmmCoreDatabase`. Its specification is called `LayoutSpec`, because
its theorems are in one module with those of `SmmCoreDumpApp`.

`SmmCoreDumpDriver` -- the driver from its entry point to the registration of
the handler, with the SMM core's services (install, uninstall, notify, SMI
register) as external operators over the lists of the core, and other drivers that
change the lists until the lock. Its specification is called `DriverSpec`, and its null pointer `NullPointer`, because one module of proofs extends it beside
`SmmCoreDumpApp`.

### Sequences

`Sublists` -- `Where` and `Remaining`: SelectSeq with a set for the test, gathered as a loop of the code does it, used by the modules that are proved about; `Total`: a sum added up in the same way.

### Applications

`BootOption` -- `-add`, split where power may fail: `GetNewBootIndex` chooses the number, `SetBootOrder` or, where `BootOrder` was not read, `SetFirstBootOrder` writes the
order, `AddBootOption` writes the option; `Delete` is the boot manager, `Reset` the power button. A read of `BootOrder` may fail
although the variable is there, which the code takes for its absence (`BootOption.c:140`); a failing `SetVariable` ends in the ASSERT that follows it. `DumpAllBootOption` is `-dump`, whose reads may fail too
and end in a NULL pointer. `gap`, `interrupted` and `forgotten` (the numbers that a failing read has taken out of the order) are
history: they say which behaviours a property is about and no action that models the program reads them.

`ResetCountApp` -- one boot is `CountAgain` or `CountAnew`, `Prompt`, the loop `CheckTimeout`/`ReadKey`,
`ResetSystem`. `CountAnew` is what any error of `GetVariable` leads to, the variable being there or not: the count goes on from whatever
`Count` is (`ResetCountApp.c:268` to 278). The timer, a key and a power failure may come between any two of them.
The startup script of the shell, which is outside the repository, is taken to run the application
with the same arguments at every boot. `StrHexToUintn` reads an argument digit by digit and stays at the largest value once it is exceeded. The uninitialised `Count` is a choice over all
values. `start`, `runs` and `resets` are history, of the time since the count started last.

### DumpACPI

`AcpiTables` -- the application from its command line to the last table: `NoRoots`, `DumpRoots` and `SelectRoot` find the root tables,
`SkipNull`, `DumpEntry`, `DumpFacs` and `DumpDsdt` are the two loops of `DumpAcpiAllTable` (one loop, since
RSDT and XSDT differ in the width of an entry only), `ReadNull`, `SelectEntry` and `EndOfEntries` those of
`DumpAcpiTableWithSign`. `printed` is the output, as pairs of the registered function and the table it got.
`WriteAml` is the end of the dump functions of DSDT, SSDT and PSDT: every error path frees an array on the stack,
and the ASSERT of `FreePool` stops the machine (`"Assert"`). A file is a sequence of bytes that remember which table they
come from. `-v`, the hex dump and the fields are layout. `Published` reads the tables a second time, as the ACPI specification has it, and is what the output is compared with.

`StructureWalk` -- the abstract specification of a walk: the structures that the firmware has published are printed one after the
other, and the walk comes to the end of them.

`AcpiStructures` -- for each structure of nineteen tables the function that prints it, and how far it reads (`reach`), which for
many depends on a count, an offset or a version in the structure.

`AcpiWalks` -- the loops. A loop that is running is a record on `stack` with its cursor `at` and what is left, `rest`, in bytes
or structures as the code counts; each action is one iteration of one loop (`DumpAcpiMADT`, `HestBank`, `PmttDimm`, ...), all of
them through `Iterate`, which prints a structure, moves `at` by one amount and `rest` by another, and starts the inner loops. The two amounts are
where the libraries differ. `dumped` is the output, with how far each structure was read. Structures of types that a library does not know, and structures of different lengths, are among the tables; where the firmware has put no structure
the constant `Behind` is read. `Expected` says whether a table is one that the libraries were written for (`WrittenFor`): for those `AcpiWalks` implements `StructureWalk` (`PrintsWhatIsThere`); what the others come to is in section 6. Its `WalkInit`, `WalkNext` and `WalkSpec` carry names of their own beside those of `AcpiTables`, as their proofs are in one module.

`AcpiLayout` -- the tables with sub-structures as the ACPI specification and those it refers to lay them out; it holds what `AcpiWalks` assumes of its tables (`TableLaid`), and what of them some libraries were not written for (`WrittenFor`), and models no code.

### PEI and DXE core dump

`PeiCoreDump` -- the PEI core (`FindFv`, `Peim`, `EndOfPeiSignal`, `OtherCallback`), the callback with its size pass and data pass
(`PeiCoreDumpEndOfPeiCallback`), and the three passes of the application over the HOB (`Walk`, `NextPass`). The HOB is a function from
offsets to structures, with the sizes of `PeiCoreDumpComm.h`; its length is counted modulo `HobLengths`, 2^16 in the code. A HOB that is written beyond its end is the state `"overrun"`. The padding of a
HOB to 8 bytes is taken not to look like a signature of the application's. The images are entered with an `ImageSize` of 0, so that no
PPI is ever found to be in an image, and every one is printed with the name `???`, and so it is in the model.

`DxeCoreDump` -- the four dumps (`handles`, `protocols`, `signals`, `timers`), one action for each node printed (`DumpOuter`, and
`DumpInner` for what hangs on it), and between any two of them the callbacks: devices plugged and unplugged (`InstallProtocol`, `UninstallProtocol`), an image loaded, interfaces reinstalled, which moves them to the end of the
list of their protocol, notifications registered, events created and closed, timers set, set again, cancelled and expiring. A callback comes during a `Print`, that is while a list is walked; the search for a list head prints nothing and is one step.

A node is memory. One that was freed keeps its link until something else gets its memory. That may be a node of the same kind: `CreateEvent` may take an event that was closed and put it at the head of the queue, a device that was unplugged may be
plugged again, both under a cursor that still stands on them (`Allocate`). What else gets the memory, a node of another kind, of a list that is not dumped, or nothing that is a node, overwrites the link (`LinkOverwritten`, after which the walk is `"lost"`); an interface is
installed again in the memory it had or in other memory, of which the model has the first. `carried` remembers that a walk has lost its bearings in a way that `EveryNodeOnce` and `StillTimersPrinted` except: freed memory was used
again while a cursor stood on a node that is in its list no longer (`Adrift`), the interface under the cursor was moved, the timer under the cursor was set again, or a timer was set or cancelled while the cursor was adrift. It is set in a few cases more than those in
which a node is skipped: also when the memory is that of another node than the one under the cursor, since that one's link may lead there.

The dummy event is made in steps, as each of them may fail: `CreateSignalEvent` (which puts it into its queue) and `NoSignalEvent`, `CreateTimerEvent` and `NoTimerEvent`, `SetDummyTimer` and `TimerNotSet`, `FindEventList`, and `DumpEventList`, which closes it before the walk begins.
`created` says that it exists. Images are not unloaded during a dump, and a reinstalled interface lies in the same image as before. `left` has the link of each node that was taken out,
by list and node, since one node may have been in two lists. `there`, `again`, `carried` and `named` are history.

### Tcg2DumpLog

`Tcg2DumpLog` -- the firmware (`Measure`, `Reset`) and the application from its command line to the last value printed, one action for each stretch of
`UefiMain` (`NextFormat`, `GetEventLog`, `GetEventLogFails`, `WriteFileFromBuffer`, `DumpOne`, `DumpAll`). `EarlyOutputs` are the ways to end before the first log, a protocol that is not there and a `GetCapability` that fails among them. `GetEventLogFails` is the `continue` for
either format; a log that has more events than its area has room for (`room`) is cut, which `GetEventLog` tells (`EventLogTruncated`), and the application warns of it and goes on (lines 1694 to 1700). The firmware may have no final events table (`installed`): then all events go to the log. A digest is the sequence of the events that were
extended, so that two digests are equal just when the same events in the same order made them. Final events table and log
are disjoint, as the firmware keeps them, and the final events are recorded also when the log was cut. SHA384, SHA512 and SM3 are printed as 0xFF by the code and left out of `ExpectedIsPcr`, which asks for the banks of
`mHashInfo`. A file that is absent and one too short for an entry are one value, `Empty`. Left out: `StartupLocality`, which `-E` does not look at; a failing `AllocatePool` while an event is replayed; an empty log with `-BIN`.

### VtdDump

`VtdDump` -- the program from `DumpIoMmuMap` to the verdict. `NextStructure`, `ScanPciBus`, `EndOfBus` and `ProcessScope` are `ProcessDhrd`: `scan` is the call stack of
`ScanPciBus`, one action is one function of a device with its callback, `scopes` what the loop over the device scopes has left. `RegisterPciDevice` gives the outcomes of one registration,
two where the array of the unit has to grow. `ProcessRmrr` and `DumpExceptionRecord` fill the lists; each record may fail to be allocated, and the code says nothing of it (`outOfMemory` is history).
`DumpRootEntry` is a root entry of a translation table with all below it, where no order matters. A function is `<<segment, bus, device, function>>`; configuration space is a constant of the platform, and
what is not there reads as ones. `DumpRootEntry` takes the walk over four levels of page tables together: a context entry has the set of the pages that its leaf entries map, with the rights of the leaf entry. A page is its address, in units of 4 KB, with its rights, of 4 KB or of 2 MB; vendor, device and revision are one identifier, the two of the subsystem another.
`"Wild"` is what reading registers at address 0, or a list through NULL, leads to. Left out: the dump of the DMAR table and of the lists, pages of 1 GB, rights that an entry of a higher level withholds (the code looks at those of the leaf), and contexts that pass requests through untranslated.

## 3. The runs

| run | module, cfg | asks |
|---|---|---|
| `server` | MCSmmCoreDumpServer | `ReplyIsSlice`: whatever requests follow each other, the bytes between the offset asked for and the offset returned are those of the database, inside the data buffer, and short only at the end |
| `app` | MCSmmCoreDumpApp | the transfer, with and without ASSERTs: `IInv` (the inductive invariant of the proofs), `DumpIsExact`, `CopyStaysInside`, `Terminates`, `StartedIsCompleted`, `ImplementsTransfer` |
| `database_layout` | MCSmmCoreDatabase | for every list: `Tiled` (size pass and data pass agree, no byte is written twice or not at all), `WalkAligned` (a walk is always at a header), `DumpComplete` (exactly the lists are printed, with the right image names) |
| `driver` | MCSmmCoreDumpDriver | `ListsAreThoseLocked`, `NothingLeftBehind`, `EveryImageIsKnown`, whichever call fails |
| `variable_apps` | MCVariableApps | `BootOption`: `NoDuplicate`, `OnlyInterruptedDangle`, `AddLosesNothing` (an option is overwritten only where a failing read has forgotten it, or where its number is in the order twice); `ResetCountApp`: `EveryResetIsCounted`, `StopsInTime`, `ComesToRest` |
| `acpi_tables` | MCAcpiTables | `FullDumpIsComplete`, `SignFiltersDump` (the loops with and without `-s` agree), `FilesHoldTables` (after aborted and earlier runs too) |
| `acpi_walks` | MCAcpiWalks | `PrintsWhatIsThere` (refinement of `StructureWalk`, with its liveness) and `ReadsItsStructure`, for the tables that the libraries were written for; `InStep`, for all: how cursor and rest of each loop that counts bytes agree, or how far they are apart |
| `pei_core` | MCPeiCoreDump | `DumpIsCore` (what the application prints is what the core held when the callback ran), `HobHoldsAll`, `WalkEnds` |
| `dxe_core` | MCDxeCoreDump | `EveryNodeOnce`, `StillTimersPrinted`, `NothingLeftBehind`, `NamesAreOwners`, `EverythingDumped`, with callbacks anywhere |
| `tcg2_log` | MCTcg2DumpLog | `ExpectedIsPcr` and `EveryEventOnce`, unless an error or a warning says that a log is missing or was cut; `ParsePrintsWhatWasSaved` |
| `tcg2_answers` | MCTcg2DumpLog, MCTcg2DumpLog_answers | `EveryPcrAnswered`: `-E` prints a value for every PCR asked for, from every log asked for. Violated (section 6) |
| `vtd_dump` | MCVtdDump | `UnitsOwnTheirDevices` (the parsed units have the devices the DMAR table gives them), `NoFalseAlarm` ("Check FAIL" only with a page that nothing allows, or of a device that the policy excepts by its identifiers and no unit has), `StrayDeviceFails` ("Check PASS" only if no device reaches anything without any grant) |

Bounds, and why they are enough:

- `server`: databases of 1 and 3 bytes, data buffers of 1 and 2, bytes 0 and 1, offsets up to one past the end. A
  request lies before, across, at and past the end; a second one starts from what the first left.
- `app`: databases of 1, 2, 3 and 5 bytes, data buffers of 1, 2 and 3 (page size 4 with 3 bytes of header
  stands for 4096 with the real header). A transfer takes one to five pieces; the size is a multiple of the
  buffer, or one more, or one less. Region tables where the first entry, a later one or none can be used. The proofs
  remove these bounds.
- `database_layout`: up to two protocol installations over two handles, two protocols and five
  kinds of interface (in either image, in none, NULL, data whose function is in an image), no image, one or
two, three combinations of notifications, SMI handlers, root handlers and children. Every array occurs
empty and filled. Handle and protocol names are interchangeable; the first
  installation is for `h1`, `p1`.
- `driver`: two drivers in SMRAM, three calls of other drivers among all that change a list, in any
  order with the notifications; every allocation and every service may fail.
- `variable_apps`: a machine has one of the two applications, chosen at the start, and none of the other's variables: they share nothing but the shell. For `BootOption`, `MaxIndex` 4 stands for 0xFFFF, the number that is not given away; `MaxAdds` 3 bounds the
  additions, deletions, failing reads and resets are not bounded. Lists start with up to four options in any order, so
  that the limit is reached, and a gap opens in front, in the middle and at the end; any read of `BootOrder` may fail, so that an order is forgotten, and an order of one is begun, at any time.
  For `ResetCountApp`, a UINTN of 8 values (`Values`), the arguments 1, 3 and hexadecimal 10, so that an
  argument is at once reached, reached later, and too large, where it becomes the largest value; an overflow of the count happens, and any read of the variable may fail.
  The histories stop at the largest value, and the properties that use them say so.
- `acpi_tables`: every list of up to three tables (two under the less usual roots) out of three FADTs, four AML
  tables, a table with a library, one without and NULL, with at most one FADT; a DSDT may be listed and pointed to. Files of no and
  of three bytes exist at first, longer than any table. The registry has seven slots for the seven signatures that
  are registered, as 0x100 bounds the fifty of the program. `MaxFiles` 4 is one more than the tables of a list. The application is run any number of times, with
  different options. What a NULL entry makes the processor read is taken not to be the signature asked for.
- `acpi_walks`: every list of up to two structures of the sixteen kinds of a MADT, of up to three of the formats with fewer kinds, with up
  to two structures inside each or behind each pointer. An error in one iteration shows in the next, and nothing that a walk keeps reaches further. A PMTT and an LPIT hold structures of several lengths,
  followed by ones (0xFFFF as a Length ends their loops). A MADT and an SRAT also come with one structure of a type that the library does not know, before and behind those that it knows: these tables are for `InStep` alone
  (`Expected`); a table of unknown structures only has a walk without end, as nothing has been stored to subtract, and so has the run. A memory controller has at most one proximity domain.
- `pei_core`: up to three volumes of one or three files, three PPIs and notifications. `HobLengths` 1024 stands for the 65536 lengths
  of a HOB: five images leave room for five PPIs, six for none, so that the length is met, and exceeded, from both.
- `dxe_core`: two devices plugged from the start, one with two interfaces, a driver that may be loaded, three events, all of which are there from the start and two of them in each event list, and three calls of callbacks (`MaxCalls`) at
  any point of the walks. Two calls are what it takes to take out the node under the cursor and put something in its place, or the same memory in again at another place; the third one makes
  each pair happen in front of, at and behind the cursor. No liveness is claimed: a timer that expires fast enough can keep the walk of the timers from its end.
- `tcg2_log`, `tcg2_answers`: two PCRs, three banks, of which one cannot be computed, two measurements of three kinds, before, between and after
  three runs (`-BIN`, another one, `-PARSE`), resets between them. The log is asked for after none, one or two of them, has room for none, one or both (`Rooms`), and the firmware has a final events table or none.
- `vtd_dump`: a machine with two levels of bridges, devices with one function, several, and several that their first one does not announce, a bridge with nothing behind it, and a second segment. Eight DMAR tables give
  the devices to up to three units by name, by path, by bridge and by INCLUDE_PCI_ALL, two of them with a device that is there already, one without INCLUDE_PCI_ALL, so that a device the policy excepts is in no unit. Against them stand four sets of RMRRs, four lists
  of exceptions, three of mappings and seven translation tables of two root entries (`VTD_ROOT_ENTRY_NUMBER`, 256 in the code): a page that is granted, one that is granted to another device, one that nothing grants, seen from the first unit,
  from the second, from below a bridge, and from the upper half of an extended table. An array grows by 4 (`MAX_VTD_PCI_DATA_NUMBER`, 0x100 in the code), so that units grow up to twice.

Deadlock is checked, except in `database_layout`, `driver`, `pei_core`, `dxe_core`, `vtd_dump`, `acpi_walks` and the two runs of `Tcg2DumpLog`, where the
program comes to its end or to a bound.

## 4. Fairness

- `SmmCoreDumpApp`: weak fairness of the application, the SMI and the error return together: a shell
  application runs on, and every call returns. With ASSERTs, as the package is built, nothing more is needed, since an
  error ends the dump. Strong fairness of `Smi` is about a build without them: its loop repeats a refused
  `Communicate()` for ever, and ends only if one of the calls succeeds in the end. That is a condition on the platform;
  where ASSERTs are compiled in it adds nothing, since no behaviour has a second try.
- `SmmCoreDatabase`, `SmmCoreDumpDriver`: weak fairness of the passes and walks, of the boot phases and of the driver, a straight line of code; no property depends on it.
- `AcpiWalks`: weak fairness of the next iteration. One thread runs the tool and waits for nothing.
- `PeiCoreDump`: weak fairness of the application's walk, for the same reason. Nothing is asked of PEI.
- `ResetCountApp`: weak fairness of the application's own steps and of the timer; of the two outcomes of a read together, as it has one or the other. Nothing is asked of
  the user, nor of the power supply; `ComesToRest` speaks of behaviours in which power failures come to an end, and reads of a variable that is there fail no more.

## 5. The proofs

A component and its inductive invariant, `IInv`, are in one module, its theorems in the module of the same name with `_proofs` behind it; `SmmCoreDump_proofs` has those of `SmmCoreDumpApp`, `SmmCoreDumpServer`, `SmmCoreDumpDriver` and `SmmCoreDatabase` (with the invariants `IInv`, `ServerIInv`, `DriverIInv`, and `LayoutInv` and `DumpInv`),
`VariableApps_proofs` those of `BootOption` and `ResetCountApp` (whose `IInv` is called `ResetCountInv`, beside the other). The invariants of `VtdDump`, `AcpiTables`, `AcpiWalks` and `SmmCoreDatabase`, which nothing but the proofs needs, are in `VtdDump_proofs`, `AcpiTables_proofs` (that has the theorems about `AcpiWalks` too) and `SmmCoreDump_proofs`.
Each proof has the same course: `Init => IInv`, one lemma for each action, `NextIInv`, `Invariance` (`Spec => []IInv`), and then the properties of the runs
from `IInv`. TLC has checked every `IInv` that is in the module of its component, and both invariants called `WalkInv`, of the DXE dump and of `AcpiWalks`, on the instance of the run as well. The theorems hold for all values of the constants that the named assumptions
admit; TLC evaluates the assumptions in each run that extends the module.

| module | theorem | property of the run | says |
|---|---|---|---|
| `SmmCoreDump_proofs` | `PrefixCorrect` | | what has been received is a prefix of the database |
| | `DumpCorrect` | `DumpIsExact` | what is printed is the database |
| | `CopyInside` | `CopyStaysInside` | no copy leaves the data buffer or the allocated database |
| | `Refinement` | safety part of `ImplementsTransfer` | the transfer implements `DumpTransfer` |
| | `ReplyCorrect` | `ReplyIsSlice` | a reply is a piece of the database, whatever the caller asked before |
| | `DatabaseIsOfTheLock` | `ListsAreThoseLocked` | the database shows the lists as they were at the lock |
| | `ProbesAreTakenBack` | `NothingLeftBehind` | what the driver installs to find the lists is taken back |
| | `ImagesAreKnown` | `EveryImageIsKnown` | every image in SMRAM is in the table of images |
| | `DatabaseIsTiled` | `Tiled` | size pass and data pass agree, and the database has no gap and no overlap |
| | `WalksAreAligned` | `WalkAligned` | a walk stands on a header or at the end, at each of its steps |
| | `DatabaseIsDumped` | `DumpComplete` | the walks print what the lists hold, with the right names |
| `VariableApps_proofs` | `NoNumberTwice` | `NoDuplicate` | the boot order names no option twice |
| | `OnlyInterruptionsDangle` | `OnlyInterruptedDangle` | an option without a variable was being added when the power failed, or the write |
| | `AdditionsKeepOptions` | `AddLosesNothing` | `-add` changes no other option, unless a failing read made the order forget it or its number is there twice (an action property) |
| | `ResetsAreCounted` | `EveryResetIsCounted` | no reset since the last read that failed is missing from the variable |
| | `CountIsRespected` | `StopsInTime` | since then a script with `-setcount` has reset fewer times than asked for |
| `DxeCoreDump_proofs` | `DummyIsGone` | `NothingLeftBehind` | the dummy events are closed on every way out, whichever call fails, and never printed |
| | `NamesAreTheOwners` | `NamesAreOwners` | a name printed is that of the image the address lies in |
| | `NothingCutsShort` | `EverythingDumped` | only a node that was taken out under the cursor cuts a walk short |
| | `NodesArePrintedOnce` | `EveryNodeOnce` | what stays in its place during a dump is printed in it, once, unless the walk is carried off |
| | `TimersThatStayArePrinted` | `StillTimersPrinted` | a timer that neither expires nor is set meanwhile is printed, unless the walk is carried off |
| `Tcg2DumpLog_proofs` | `ExpectedIsInThePcr` | `ExpectedIsPcr` | the computed value is what the PCR holds, or a warning was printed that the log was cut |
| | `EventsArePrintedOnce` | `EveryEventOnce` | each event of the PCR is printed once, in order, unless an error or a warning is |
| | `ParsePrintsTheLog` | `ParsePrintsWhatWasSaved` | `-PARSE` prints the log that `-BIN` saved, boots later |
| `PeiCoreDump_proofs` | `DumpPrintsCore` | `DumpIsCore` | the application prints what the PEI core held |
| | `HobIsLargeEnough` | `HobHoldsAll` | the HOB is overrun only if its length does not fit |
| `VtdDump_proofs` | `DevicesAreOwned` | `UnitsOwnTheirDevices` | each unit has the devices that the DMAR table gives it, once each |
| | `NoStrayDevicePasses` | `StrayDeviceFails` | behind "Check PASS" no device reaches a page if nothing is recorded for it |
| | `FailHasItsPage` | `NoFalseAlarm` | behind "Check FAIL" there is a page that nothing allows, or of a device that the policy excepts and no unit has |
| `AcpiTables_proofs` | `FullDumps` | `FullDumpIsComplete` | a dump without `-s` prints what is published, in order, each table by its library |
| | `SelectiveDumps` | `SignFiltersDump` | a dump with `-s` prints the tables of the signature as often as one without |
| | `FilesAreTables` | `FilesHoldTables` | each file of `-d` begins with the table it stands for |
| | `LoopsAreInStep` | `InStep` | cursor and rest of each loop that counts bytes agree about where its list ends, or are apart by the lengths they are said to be |
| | `StructuresAreRead` | `ReadsItsStructure` | no function reads behind the end of the structure it prints, of the tables the libraries were written for |

### SmmCoreDumpApp, SmmCoreDumpServer

Assumed: sizes and capacities are positive numbers and `NULL` is not a database (`SizesAssumption`, `CapacitiesAssumption`, `NullAssumption`),
the fill byte is a byte (`ZeroAssumption`), a page is larger than the header (`RegionAssumption`).

`PrefixReceived` is what one wants of the application, and it is not inductive: it says nothing of the block
while a request is under way, and the application trusts the block. `IInv` adds what is in the block between
the application's write and its read: for GET_INFO that only a success carries a size (`InfoInv`); for GET_DATA that
the request stays inside the database and the buffer (`RequestInv`), and that a reply
has either not come, and the block asks for the same piece still, or has come, and then the piece is in the data buffer and
the offset is behind it (`ReplyInv`). The first alternative of `ReplyInv` is the failed `Communicate()` of a build
without ASSERTs: `ReturnStatus` still says success from the piece before, stale bytes are copied to where the next
piece will go, and the offset has not moved, so that they are overwritten. `HandlerExits` sums the handler up as
five ways to leave it, and `PieceInside` bounds what it copies.

With any caller, a reply can be compared with the request because the block is the caller's own until the SMI (`BlockIsAsAsked`). What is not
evident is that a caller who goes on with the block of the last reply asks for no more than its buffer takes (`BufferHoldsRequest`): GET_DATA leaves a `DumpSize` no
larger than it found, and GET_INFO, which leaves the size of the whole database there, leaves a command that is not GET_DATA.

### SmmCoreDumpDriver

Assumed: drivers, images and calls are sequences of names, the SMM core is not one of the drivers, and no other driver uses the dummy's name (`NamesAssumption`). There
may be any number of drivers and of calls before the lock.

`LeftInLists` says, for each step from the lock on, what the lists of the core are, in terms of what they were at the lock (`locked`): `locked` itself, `locked` with the dummy
handle, protocol and interface at their ends, `Probed(locked)` when the probe is gone again. Two facts carry it. Taking the dummy out restores the lists to what they were but for the entry of `CallerId` in the list of
SMI entries, which stays and is empty (`DummyUninstalled`, `SmiProbed`, `RootProbed`); and such an entry is not seen in what is dumped (`DumpedUntouched`, `DumpedProbed`).
The second table of images is reached only if the first has a place for every image (`ImagesInTable`).

### SmmCoreDatabase

Assumed: what the types of the SMM core say of its lists, that images lie side by side in memory, and that the entry of the driver's own protocol, which is installed last, has none behind it (`SmmListsAssumption`). Lists may have any length, and
the name table of the application may fail to be allocated.

The proof goes by what the sections have in common. `Structures` are the headers with up to two arrays that a list is turned into (`HandleStructures`, `ProtocolStructures`, ...), `LenOf` is the length of one. `Covers(m, hi)` says that a memory is
tiled up to `hi`, `Holds(m, a, r)` that `r` stands at `a` with its items behind it, and `Built(m, P, hi)` that the structures `P` stand one behind the other from 0 to `hi`. A structure more keeps this (`BuiltAppend`): nothing before `hi` is
overwritten (`Keeps`). `RecordStep` is the code: with enough room left both arrays fit, the counts are those of the lists, and what is added is `LenOf`; `RecordsStep` repeats it over a list, with the room known from
`TotalGrows`, as the expected size is the sum that the size pass added up. `SectionWritten` puts the six sections together, so that in `LayoutInv` a data pass before section `n` has `Built` the sections before it (`Ahead`, `OffsetOf`), and no comparison with the
size pass can fail. A walk from `at[k]` by `Header.Length` comes to `at[k + 1]` (`WalkStep`), which gives `WalkAligned`.

`DumpInv` says how far each walk is: `Progress` has the lines as those of the walks before and the first `Past` of this one, where `Past` counts the structures of the walk's own section before the cursor. That a walk takes just these for its own
is `OnlyItsSection` (the two sections with the signature of SMIs are told apart by `IsRootHandler`, a type that no entry of the list has). `LineIsRead` compares what is read behind a header with the entry of the list, item by item (`FunctionsRead`,
`InterfacesRead`, `HandleProtocolsRead`). The names are the step from an index to a table of another program: `ImageRefOf` says what index the driver wrote, `ContainingOne` that it is the one image with the address, which needs the images to be side by
side, and `ImageProgress` that the application has remembered the images in the same order; so `RefNamed` gets the same name, or none anywhere, when the table could not be allocated (`Known`).

### BootOption

Assumed: the limit of the numbers is positive (`BootOptionAssumption`), and the absence of a variable is not a value of one (`NoVariableAssumption`).

`NoDuplicate` rests on `FirstNumbers`: where there is no gap, the numbers in the order are 0 to its length less 1, each once, in any order. Only so is the position that
`GetNewBootIndex` finds a number that nobody has (`NewIndexIsFree`), and that must last over the write of `BootOrder` to that of `Boot####`, between which the power may fail.
With the converse, that what has a variable is named in the order or was forgotten by a failing read (`OptionsAreNamed`), this says of any addition, gap or no gap: if its option is there already, it is forgotten, or its number has just been put in front of an order that names it (`Twice`).
`AddLosesNothing` is that, read at the second write. For `OnlyInterruptedDangle` each number in the order without a variable was being added when the power, or a write, failed, or is being added now. An order that is begun anew has the number 0 alone, which is the first number, so that `FirstNumbers` holds of
it whatever was forgotten. `PermutationHasAll` is the fact behind it: a sequence without duplicates has as many elements as its range.

### ResetCountApp

Assumed: a UINTN has at least two values (`ResetCountAssumption`), an argument is a sequence of digits (`ArgumentsAssumption`).

`RunsAreCounted`: before an overflow the variable holds what it started from and every run since; a run is counted before its reset, so that there are no more resets than runs, and fewer while a run is under way. Where it started is a value of the variable, zero after `-clean`, or, after a read that
failed, whatever `Count` was, from which the histories begin anew with this run as the first (`CountAnewStep`).
`BelowSetCount` keeps what the check of `-setcount` found until the reset it permits. `StrHexToUintnType` is about the parser of the argument, for
arguments of any length.

### DxeCoreDump

Assumed: the application and the core have a handle, and their images are installed from the start (`HandlesAssumption`, `ListsAssumption`); no node is linked twice into a list, and a protocol whose installation somebody waits for has an entry in the
database (`ListsAssumption`), as the core sees to when it registers them; a list head is none of the nodes, and handles, protocols, interfaces, notifications and events are different memory (`NodesAssumption`). The number of devices, events and callbacks is free.

The walks read lists that callbacks change under them. `HasLink` names the memory that a link can be read from: the head, a node in the list, a node that has left it and
keeps the link it had. `LinksGoOn`: from each node that has left one comes to such memory again, or to a link that was zeroed when its memory became another event; `CursorsHaveLinks`: the cursors of both loops stand on it. Taking a node out of a list leaves both true (`AfterType`, `LinksStay`), and
so does putting one in, in new memory or in memory that a cursor still stands on. A walk fails only where its cursor stands on a node that is in its list no longer (`EverythingDumped`, proved with the second invariant). The dummy event exists just from its creation to `DumpEventList`, and stands in its list while the head is sought (`DummyIsThere`),
so that whichever of the three calls fails there is none left (`NothingLeftBehind`). That the head of the protocol list is found from one of its own protocols
is `HeadIsFound` and `DatabaseIsFound`. The names are those of images that stay (`ImagesStay`), so that a name once printed is right for ever (`NamesAreFixed`).

That each node is printed, and once, needs a second invariant, `WalkInv`, proved with the help of the first. `Due` is what the cursors will still come to: what is ahead of the outer one, what hangs on those nodes,
what is ahead of the inner one, and the inner lists after it. `StillDue` says that a node that has been there since the dump began is due exactly as long as it is not printed, unless the link of a cursor leads to
freed memory (`Doomed`), where the walk ends before its `"end"`, or the walk has been carried off (`carried`). At the head all is due (`AllAhead`); at the end nothing is, and so all of it is printed. A step of a cursor takes just the node it prints out of `Due` (`DumpOuterDue`, `HangsOnce`). A callback changes
nothing in `Due` for nodes that stay (`StillDueKept`), which is a fact about order: putting nodes in and taking nodes out leaves the others in the order they were in (`SameOrder`,
from `WhereOrder`, `ReverseOrder` and `ConcatOrder`; `Unmoved` for an interface that is reinstalled, which leaves the others in order), and the link of a node that was taken off with the cursor on it goes to the node that was next (`LinksOfGone`, `CursorKept`). Where that node comes back, in the
same memory and elsewhere in the list, its link is a new one, and nothing can be said any more: that is `carried`, and why `FreedIsGone` and `LinkIsOf` are needed, which say that up to then a cursor that is adrift stands on freed memory and that its link goes to a node of the list, to its head or to freed memory.

The timers are the exception: one that expires is put in again elsewhere, and one that is set may be put anywhere. The walk goes from the latest timer to the earliest, and the earliest is the one that expires: a cursor on it had nothing left to come to (`NothingBehind`), and a cursor before it keeps ahead of it all the others
(`TimersAhead`). It may be printed twice, and `StillTimersPrinted` does not say it is not. A timer that is set or cancelled in front of the cursor or behind it leaves the others in their order (`MovedWithin`, `TimerMoves`). A dummy event that came and went leaves a list as it was, in its order too (`BeginWalk`).

### Tcg2DumpLog

Assumed: the TPM has a bank, and finitely many (`TpmAssumption`); an event has digests of banks only (`KindsAssumption`); the options are of their types (`QuestionsAssumption`); a table of roots is a sequence or absent (`RootsAssumption`); the area of a log has room for some number of events (`RoomsAssumption`).
Number of PCRs, of measurements and of runs are free (`BoundsAssumption`).

`ExpectedIsPcr` compares a digest computed by replaying log and final events with one that the TPM accumulated. `FinalIsTheRest` is what makes them equal: the final events are the
last ones of all that was measured, so that the log, which lacks them, followed by them is all of it (`LogAndFinalEvents`), unless the log was cut. Without a final events table the log has all. `LogIsOfItsFormat` says which of it the log holds in the format that was asked for, and that the warning has been printed if it was cut; `Course` where the
application is in its options, `OutSoFar` what has been printed, and `SavedAndParsed` what the file holds. The longest part is `ReadsAllEvents` and `ReadsSha1Events`: that replaying the list, PCR by PCR and bank by bank,
extends each digest by just the events that the firmware extended it by.

### PeiCoreDump

Assumed: a HOB has at least one length (`WidthAssumption`); a volume is a sequence of files, none of which is named by the zero GUID (`VolumesAssumption`), as
the application takes that name for a structure without an image. Volumes, files, PPIs and notifications may be any number.

`HobIsBuilt` says that the HOB is what was built from the core's instance when the callback ran, and that a build that did not overrun it left all of it inside. So the walk is over a function
that `HobData` knows: structures of images at multiples of their size, then that of the PPIs, then that of the memory. `WalkSoFar` has one disjunction for each pass: where the cursor stands, and
what has been printed by then. The first pass alone goes past the end, over the padding (`WalkFacts`); a pass that has ended was at no structure (`NextPassStep`), so that none is left out. That every PPI is
found at its place is `PpisFound`: the lists lie one behind the other, and what the application counts before a list is the sum of the lengths of the lists before it (`FlattenThree`, `TotalUpToThree`).
`ImagesFit` is why the structures of images that are counted are enough for those that are dumped, whose loops end at a file without a handle.

### VtdDump

Assumed: what the types of the code say of tables, lists and registers (`PlatformAssumption`: addresses are numbers, a DRHD has registers, a root table has no more entries than the loop goes through), and that
an entry of the policy that excepts by identifiers asks for at least one, and not for the all-ones of a device that is not there (`PolicyAssumption`). Tables, buses, bridges, units and lists may be any number; bridges may
lead back to a bus that was scanned already, where `ScanPciBus` recurs for ever and none of the statements is affected. Memory may run out at any record.

`IInv` has three parts. `BaseInv` holds whatever happens: the units are filled in the order of the DRHDs (`DrhdInv`, with `Place`, where a DRHD is in the table), each has a device at most once (`IsUnit`),
records come from structures and entries that were looked at, and unless memory ran out all of those are recorded (`RmrrInv`, `ExceptionInv`), and the flag stands for a page that raised it, or for none so far (`VerdictInv`).

`UnitsOwnTheirDevices` needs more, because it speaks of what bridges lead to while the code recurs over buses, and `INCLUDE_PCI_ALL` makes one unit depend on those before it. `GivenInv` says, while the
DRHDs are parsed: the units before the present one have what they are given (`Owned`), and the present one is on its way (`Progress`): what it has was asked for by the scopes looked at so far (`Asked`), and
for some set `V` of buses that holds the roots of all scans begun, each function on a bus of `V` is registered here or in a unit before, and the bus behind it is in `V`, or the function is still ahead in one of the frames of
`scan` (`Scanned`). When a function is registered the bus behind it joins `V`, all of it ahead in the new frame (`FunctionScanned`); a frame with nothing left can go (`BusScanned`); the next scope adds its device and
its root (`ScopeLookedAt`). When no frame and no scope is left `V` is closed, and so contains all that the roots lead to: `Below` is the least such set (`BusesClosed`, `AllBelow`, `Completed`). What the unit
lacks then is what earlier units have (`OthersHave`), and that is what they were given, by an argument on the first of them that asks for the device (`OwnsTheRest`). `ParsedInv` carries the result to the end.

`StrayDeviceFails` follows from the records alone, as a record of an RMRR is one of a structure in the table, and an exception found by identifiers is of a function that exists (`ExceptsExcepted`, `IdOf`: this is where
`PolicyAssumption` is used). `NoFalseAlarm` needs the converse, that all there is was recorded, which for exceptions by identifiers is true only of devices that some unit has: `AddExceptionDevice` looks for
them among the registered devices (lines 353 to 377). `Found` says whether it was so, and `NoFalseAlarm` lets "Check FAIL" stand for a page of a device that is excepted and not `Found`: a device that is behind no unit's scope but in a unit's root table
makes the check fail, although the policy excepts it. On the instance of `vtd_dump` this happens, under the table without INCLUDE_PCI_ALL.

### AcpiTables

Assumed: the registry has room for the libraries that are linked in, and none of them is for a root table (`RegistryAssumption`); a table has a length, the pointers of a FADT lead to a FACS and a DSDT or are NULL
(`TableAssumption`); a list has NULL or addresses of tables in it, and at most one FADT (`FirmwareAssumption`), as the ACPI specification has it: of two, a dump with `-s` prints the FACS of the last one only. The names of the model
differ where they have to (`AcpiAssumption`). Memory, firmware, libraries, signatures, and the number and order of the tables are free. `MaxFiles` bounds the files of one kind, and is larger than any list.

`Walking` says that the list that is walked is the one in force, which the code chooses while it looks for the roots and `InForce` defines from what the firmware published (`EntriesInForce`). `Ready`: each library that is linked in is
registered when a dump begins (`AllRegistered`, from what one registration does), so that a lookup finds the library of a signature, or the general function (`Lookup`).

`Complete` is about the loops without `-s`: at `Entries` the output, without the roots, is what the entries before the cursor publish; at `Facs` and `Dsdt`, between two entries, it is so together with what the FADT owes still
(`Pending`); and always what is published begins with it, which is all one can say once an ASSERT has stopped the run. `Filtered` is about the loops with `-s`, where order is lost: the FACS or DSDT of the FADT comes at the end and not behind it. So each
line is counted. The output together with what comes behind the loops (`Later`) has each line as often as the published tables of the signature up to the cursor have it (`SameTimes`); and before the FADT nothing
comes later, which is where the assumption of one FADT is used. `TimesConcat` and `WhereConcat` (counting and filtering go through concatenation) and `PublishedSteps` (one entry more) carry both.

`Filed` relates the static indices of the three dump functions, which each image starts at 0, to the output: as many files of a kind have been written as tables of it were printed, and each begins with its table (`WrittenFile`), whatever was in it. For that
the index must stay among the files there are: `Enough` bounds it by the entries behind the cursor, less one while the DSDT of the FADT is to come.

### AcpiWalks

The libraries check nothing they read, so that what holds of them holds for tables that are well-formed. `LayoutAssumption` is what that means: every table in `Tables` is as `AcpiLayout` says. `AcpiLayout` has for each of the lists what its specification
says of a structure in it: how large it is, which lists it contains or points at, where they begin and how long they are, and that behind it stands the next one if there is more of the list (`Goes`). For this a structure has two fields that no code looks at: the `list`
it is part of, and how much of the list begins with it, `left`. Tables of any length, with any number of structures in any order and depth, satisfy it, and so do those of types that no library knows and of mixed lengths; all the tables of `acpi_walks` do, which TLC evaluates. What is read where the firmware has put nothing, `Behind`,
has numbers for its Length and count (`ReadsAsOne`). `StructuresAreRead` is about the tables that the libraries were written for (`WrittenFor`): a MADT and a SRAT have no types that the library does not know, nor a Local SAPIC with a string, and behind a PMTT or LPIT stands a number that is not smaller than the Length of its first structure. `LoopsAreInStep` is about all.

`InStep` has three ways for a loop over bytes to agree with its table (`EndsWithTable`): exactly; up to the first structure that the library does not know (MADT, SRAT); and but for the Length of the first structure and of the next (PMTT, LPIT). It alone is not inductive: that a loop stays in step depends on what it finds at its cursor. `WalkInv` adds `AllOnLists`, that every loop on the stack, not the innermost only, stands at a structure of its own list with as much left as the loop has, or has nothing left (of the four tables, whose loops lose count of what is left, at a structure from which the list goes on to the end of the table; or, in a PMTT, behind that end, `Astray`); and
`InnerInside`, that a loop over scopes, controllers or DIMMs has another one around it. `HereIsLaid` takes from it what `AcpiLayout` says of the structure under the cursor. `IterateStep` then does for any iteration what happens on the stack: if the lines fit the structure, the cursor and
the rest go on as the list does, and the inner loops begin at lists, in step with each other and with where the cursor goes (`Nested`; `Free` for loops of which `InStep` says nothing), `WalkInv` holds again; `TypedStep` does it for MADT and SRAT. So what is to be proved of a library is only that its two amounts, by which the cursor is
moved and the rest is reduced, are those of the structure it has, and that its inner loops begin where their lists do: one lemma for each action or for a few alike (`MadtStep`, `PmttStep`, `RecordSteps`, ...). `MaxAtMost` is for the structure of DBG2, which
is read as far as the furthest of four offsets leads.

### Sublists

`Sublists_proofs` has what the other proofs need about sequences. `Where(s, Keep)` gathers the elements of a sequence that lie in a set as a loop does; its facts (`WhereMembers`,
`WherePlaces`, `WhereAppend`, `WhereWhere`, `RemainingFront`, ...) rest on induction over the length. An induction theorem with an operator for a parameter cannot be used
here, and `UpTo` stands in for it: a set of numbers that contains 0 and with n also n + 1 contains every number up to a bound, proved from a least counterexample (`LeastNat`). `Iteration` is the same step for what a recursive function computes:
from its value at n - 1 to its value at n. `FlattenDef` and `TotalDef` are that step for FlattenSeq and for a sum.

### What is only model-checked

- Everything under fairness: `Terminates`, `StartedIsCompleted`, `ComesToRest`, `WalkEnds`, and the liveness of `ImplementsTransfer` and
  `PrintsWhatIsThere`. Liveness from fairness needs ENABLED, which is out of the prover's reach.
- The refinement of `StructureWalk` by `AcpiWalks` (`PrintsWhatIsThere`), its safety part too: that the structures are printed in the order of the table, those of nested lists between them, is a statement about a traversal, which is induction over the table. The run checks it for each library on its tables.

## 6. Where code and comments disagree

One disagreement is a run that TLC refutes (`findings` in `PROJECT.json`), `tcg2_answers`: `-E` is "Print expected PCR value" (`Tcg2DumpLog.c:1352`), for all PCRs if none is given (line 1350), but the loop over them counts in `PcrIndex`, where the option is (line 1738).
With both log formats, which is the default, the second one gets the expected value of a PCR that does not exist.

Three walks lose step on tables that `DumpACPI.c:839` announces ("Dumps ACPI1.0~ACPI5.0 Table"). The last structures are lost, or what is behind the table is printed as structures; `Expected` has the tables on which it does not happen, and `InStep` says of all how far the walks are out of step.

| code | disagreement |
|---|---|
| `DumpAcpiPMTTLib.c:305`, `DumpAcpiLPITLib.c:167` | the cursor moves before the Length of the structure is subtracted, so that it is the Length of the next one; with a small number behind the table and a last structure shorter than the first the walk goes on there |
| `DumpAcpiSRATLib.c:242` | for a type it does not know the size of the structure before is subtracted, which an x2APIC affinity (ACPI 4.0) meets; as long as no known one has come nothing is subtracted, and if none comes the walk has no end |
| `DumpAcpiMADTLib.c:1215` | the same for a MADT, and for a Local SAPIC that has its UID as a string (ACPI 3.0) the size of the fixed part |

The models contain the following too, as the code has them; the properties say what holds nevertheless.

- `ResetCountApp.c:278`: `-setcount` is "run ResetCount to count stop" (`ResetCountApp.c:192`), but after any error of `GetVariable` the count goes on from a local that nothing has set (`-info` sets it to 0, line 242), so that one read that fails
  lets the script reset the machine more often than asked for. The first run, when there is no variable yet, also starts from any value. `StopsInTime` and `EveryResetIsCounted` say what holds from the last such read on.
- `SmmChildDumpLibHandler.c:115`: without a child dispatcher the size pass follows a NULL list, which `SmmChildDump`
  tests for ("SmmChild CallbackDatabase is not found!", `SmmChildDumpLib.c:355`). `SmmCoreDumpDriver` ends in `"NULL list"`.
- `SmmCoreDump.c:551`: the second table of images is filled from the count of the first, and may run out of slots, which
  line 333 asserts it does not. `EveryImageIsKnown` is about the tables that do not.
- `BootOption.c:163`: the new number is compared with positions instead of numbers, so that with a gap in the numbers an existing
  option is overwritten by `-add` (line 253). `NoDuplicate` speaks of behaviours without a gap, and `AddLosesNothing` lets an option be overwritten when its number stands in the order twice.
- `BootOption.c:140`: any error of the read of `BootOrder` is taken for a variable that is not there. The order is replaced by the number 0, all other options are in it no more, and `Boot0000` is overwritten. The numbers that were lost so are `forgotten`: `AddLosesNothing` says that only they, and those that are named
  twice, can be overwritten, then and later.
- `DumpACPI.c:205`: with `-s` a NULL entry of the list is read through, where the full dump skips it (line 305). `SignFiltersDump` speaks of the dumps
  that come to their end, where the read did not fault.
- `Tcg2DumpLog.c:1698`: of a log that was cut a warning is printed, and `-E` computes an expected value from what there is, which is not the PCR's; when a log cannot be had (line 1694) the run goes on with the next format. `ExpectedIsPcr` and `EveryEventOnce` ask for the warning, or the error.
- `DxeCoreDump.c:567` and `604` assert that each link leads to a node. A callback that unplugs the device being printed frees the
  node the next link is read from; `EverythingDumped` says that nothing but a node taken out under the cursor cuts a walk short.
- `DxeCoreDump.c:849`: when the event under the cursor is closed and another one is created in its memory, the cursor is at the head of the queue and the walk by `BackLink`s ends, or it reads a link that was zeroed; line 704: when the interface under the cursor is reinstalled the cursor is at the end of the list; line 886:
  when the timer under the cursor is set again the cursor goes with it. What lies between is skipped. `EveryNodeOnce` and `StillTimersPrinted` except these walks (`carried`), and say that no other order of callbacks loses a node.
- `PeiCoreDump.c:405` enters every image with an `ImageSize` of 0, so that `AddressToImageRef` never finds one, and `PeiCoreDumpApp.c:93` compares with a count that is never set: no PPI is printed with the name of its image.
- `VtdDump.c:306` and `568` skip an entry whose range an address is below *and* above, which none is, so that one mapping, or one RMRR, of a device grants it every address. `StrayDeviceFails` is about devices that have
  none. For a page of 2 MB an error is printed ("-- ERROR", line 645) and the verdict stays "Check PASS"; the upper half of an extended context table is printed and not walked (lines 838 to 852).
- `VtdDump.c:353` to 377: `AddExceptionDevice` looks for a device that is excepted by its identifiers among those of the units. One that is in no unit, but in a root table, makes the check fail, although the policy excepts it. `NoFalseAlarm` lets it (`Found`).
- `VtdDump.c:427` takes the first element of an exception's path for the device, and line 2285 ends the walk over all RMRRs at a scope that is not an endpoint; `NoFalseAlarm` and `StrayDeviceFails` speak of tables without.
- `VtdDump.c:2413` does not look at the status of the parse: a DRHD that is given up (a device that is there already, line 1935) leaves the units behind it at address 0, whose registers `DumpVtdTranslation` then reads. Without
  the IOMMU protocol `ExistInIoMmuMap` (line 300) follows a NULL list. Both end in `"Wild"`. When memory runs out an IOAPIC or HPET is missing in its unit without a word (line 2233).
- A request at or past the end of the database is answered with success and the `DumpSize` of
  the caller (`SmmCoreDumpHandler.c:690`), where `SmmCoreDumpComm.h:132` says it is the size copied; the application never
  asks past the end.
- A file of `-d` that was longer keeps its tail (`DumpAcpiSSDT.c:152` opens without truncating), so
  that `FilesHoldTables` speaks of its beginning.
- The prompt of ResetCountApp offers "any other key to continue" (`ResetCountApp.c:65`) and
  the loop takes no notice of other keys (line 119).

## 7. What is not modelled

Of what is modelled: formatting and the text of a dump (a name is a model value), GUID and version
formatting, the debug output of the lists, the context of a child SMI, and other users
of the communication region, who are not in the repository: the model gives the application the region for itself.
SMIs from other sources do not touch the region. Addresses of images and interfaces are small numbers. And, part by part:

- BootOption: the attributes and the contents of an option, but for its path. The boot manager only deletes options; it adds none while the application is in use.
- ResetCountApp: `-run` and `-setcount` in one command line, and arguments that change between boots.
- Tcg2DumpLog: `StartupLocality`, an `AllocatePool` that fails during a replay, an empty log with `-BIN`, an event that is larger than what is left of a log.
- DxeCoreDump: images that are unloaded during a dump, an interface that is reinstalled with one of another image, an interface installed again in other memory than it had, registrations of notifications that are closed without their event.
- AcpiWalks: a table with nothing but structures its library does not know (the walk would not end), in the run; structures of a known type and another size than those in `MadtSize`, in the run. The proofs have both.
- VtdDump: the levels of the page tables above the leaf, pages of 1 GB, contexts that pass requests through.

Parts left out for good: the tables of fixed layout, and the programs that read once and print, which are formatting; the
examples; the support code. Left for later: section 8.

## 8. The plan

Modules, in order:

1. `Walks`: HOB list, PCI ROM images and the log of tpmevlogdump, against `StructureWalk`. In `GetPciOprom.c:335` an EFI image prints
   its signature through the header of the legacy image before it.
2. `MemoryTypeInfo`, `StackUsage`, `PatchMicrocode`: what a second run (`MemoryTypeInfo.c:134`: the prediction is written into what it was computed from),
   an interrupt (`StackUsage.c:144`), and a busy processor (`PatchMicrocode.c:421`) do.
3. `LsEfiSpi`: erase, write and update of the flash (`Spi.c:199`: one loop reads three arguments by the number of its iteration).

Theorems: the safety part of `PrintsWhatIsThere`, by a position in the published list that a table gives each of its structures, as `AcpiLayout` does with `left`.
