-------------------------- MODULE SmmCoreDumpDriver --------------------------
(***************************************************************************)
(* The life of the SmmCoreDump driver (SmmCoreDump.c): its entry point,    *)
(* the end-of-DXE and ready-to-lock notifications, and SmmCoreDump(),      *)
(* which finds the private lists of the SMM core by installing and         *)
(* registering dummies and following the links from them, builds the       *)
(* database from the lists, and registers the SMI handler.                 *)
(*                                                                         *)
(* The SMM core is not in this repository: its services are modelled as    *)
(* this driver uses them, its lists as sequences.  Other drivers use the   *)
(* same services until the core is locked.  Everything that allocates may  *)
(* fail.  The ASSERTs are compiled in, as AppEfiPkg.dsc has them.          *)
(***************************************************************************)
EXTENDS Naturals, SequencesExt, Sublists

CONSTANTS
  ChildLib,       \* the SmmChildDumpLib linked in, "Null" or "Nt32"
  SmmDrivers,     \* the drivers loaded into SMRAM, a sequence of names
  DxeImages,      \* the images that are not in SMRAM, a sequence of names
  Calls,          \* the calls of other drivers, a sequence of names: a bound
  NullPointer

VARIABLES
  core,           \* the lists of the SMM core
  smmImages,      \* the handles with a loaded image in the SMM database
  dispatcher,     \* the callback list of the child dispatcher, or NullPointer
  others,         \* the calls of other drivers so far
  locked,         \* history: the core's lists when ready-to-lock was signalled
  phase,
  coreFound,      \* mSmmCoreLoadedImage # NULL
  imageStruct,    \* mImageStruct: NullPointer, also when freed, or the names in its slots
  countMax,       \* mImageStructCountMax
  count,          \* mImageStructCount
  found,          \* which of the lists of the core the driver has found
  database        \* mSmmCoreDatabase: NullPointer, or what it was built from

env == <<smmImages, dispatcher, others>>
driverVars ==
  <<core, smmImages, dispatcher, others, locked, phase, coreFound, imageStruct, countMax,
    count, found, database>>

CallerId == "gEfiCallerIdGuid"
ReadyToLock == "gEfiSmmReadyToLockProtocolGuid"
EndOfDxe == "gEfiSmmEndOfDxeProtocolGuid"
SmmCore == "SmmCore"
Dummy == "DummyHandler"
Own == "SmmCoreDumpHandler"
None == "None"

ASSUME NamesAssumption ==
  /\ SmmDrivers \in Seq(STRING) /\ DxeImages \in Seq(STRING) /\ Calls \in Seq(STRING)
  /\ SmmCore \notin ToSet(SmmDrivers) /\ Dummy \notin ToSet(Calls)
-----------------------------------------------------------------------------
(* The services of the SMM core.                                            *)
EntryOf(c, p) == SelectInSeq(c.entries, LAMBDA e : e.ProtocolID = p)

WithEntry(c, p) ==
  IF EntryOf(c, p) # 0 THEN c
  ELSE [c EXCEPT !.entries = Append(@, [ProtocolID |-> p, Handles |-> <<>>, Notify |-> <<>>])]

(* A new handle with one protocol on it.                                    *)
InstallProtocol(c, h, p) ==
  LET d == WithEntry(c, p)
  IN  [d EXCEPT !.handles = Append(@, h),
                !.entries[EntryOf(d, p)].Handles = Append(@, h)]

(* The handle goes with its only protocol; the entry of the protocol stays. *)
UninstallProtocol(c, h, p) ==
  [c EXCEPT !.handles = Remaining(@, {h}), !.entries[EntryOf(c, p)].Handles = Remaining(@, {h})]

RegisterProtocolNotify(c, p, fn) ==
  LET d == WithEntry(c, p) IN [d EXCEPT !.entries[EntryOf(d, p)].Notify = Append(@, fn)]

SmiEntryOf(c, type) == SelectInSeq(c.smis, LAMBDA e : e.HandlerType = type)

SmiHandlerRegister(c, type, handler) ==
  IF type = None THEN [c EXCEPT !.roots = Append(@, handler)]
  ELSE IF SmiEntryOf(c, type) # 0
  THEN [c EXCEPT !.smis[SmiEntryOf(c, type)].SmiHandlers = Append(@, handler)]
  ELSE [c EXCEPT !.smis = Append(@, [HandlerType |-> type, SmiHandlers |-> <<handler>>])]

(* The last handler of an entry takes the entry with it.                    *)
SmiHandlerUnRegister(c, type, handler) ==
  IF type = None THEN [c EXCEPT !.roots = Remaining(@, {handler})]
  ELSE LET i == SmiEntryOf(c, type)
       IN  IF c.smis[i].SmiHandlers = <<handler>> THEN [c EXCEPT !.smis = RemoveAt(@, i)]
           ELSE [c EXCEPT !.smis[i].SmiHandlers = Remaining(@, {handler})]

EmptyCore == [handles |-> <<>>, entries |-> <<>>, smis |-> <<>>, roots |-> <<>>]
-----------------------------------------------------------------------------
(* An SMM core lists its own image and the drivers' in the SMM database, or *)
(* only the drivers', or none; all of them are in the DXE database.         *)
InSmram == <<SmmCore>> \o SmmDrivers

DriverInit ==
  /\ core = EmptyCore
  /\ smmImages \in {<<>>, SmmDrivers, InSmram}
  /\ dispatcher \in {NullPointer, <<>>}
  /\ others = 0
  /\ locked = EmptyCore
  /\ phase = "Loading"
  /\ coreFound = FALSE
  /\ imageStruct = NullPointer /\ countMax = 0 /\ count = 0
  /\ found = {}
  /\ database = NullPointer

(* Other drivers, while DXE is under way.                                   *)
DxePhase == phase \in {"Loading", "Loaded", "EndOfDxe"}

OtherDriver ==
  /\ DxePhase /\ others < Len(Calls)
  /\ others' = others + 1
  /\ \/ /\ core' \in {InstallProtocol(core, Calls[others'], p) : p \in {"P", "Q"}}
                     \cup {SmiHandlerRegister(core, t, Calls[others']) : t \in {"T", None}}
        /\ UNCHANGED dispatcher
     \/ /\ dispatcher # NullPointer
        /\ dispatcher' = Append(dispatcher, Calls[others'])
        /\ UNCHANGED core
  /\ UNCHANGED <<smmImages, locked, phase, coreFound, imageStruct, countMax, count, found,
                 database>>

driver == <<coreFound, imageStruct, countMax, count, found, database>>

(* SmmCoreDumpEntrypoint; SmmChildInit of the Null library does nothing.    *)
SmmCoreDumpEntrypoint ==
  /\ phase = "Loading"
  /\ phase' = "Loaded"
  /\ LET notified == RegisterProtocolNotify(core, ReadyToLock, "SmmReadyToLockInSmmCoreDump")
     IN  core' = IF ChildLib = "Null" THEN notified
                 ELSE RegisterProtocolNotify(notified, EndOfDxe, "SmmEndOfDxeInSmmChildDump")
  /\ UNCHANGED <<env, locked, driver>>

(* End of DXE, with SmmChildDumpInit of the Nt32 library: without the       *)
(* dispatcher, or when it does not take the dummy, its list is not found.   *)
SmmEndOfDxeInSmmChildDump ==
  /\ phase = "Loaded"
  /\ phase' = "EndOfDxe"
  /\ core' = InstallProtocol(core, EndOfDxe, EndOfDxe)
  /\ \/ ChildLib = "Nt32" /\ dispatcher # NullPointer /\ found' = found \cup {"Child"}
     \/ UNCHANGED found
  /\ UNCHANGED <<env, locked, coreFound, imageStruct, countMax, count, database>>
-----------------------------------------------------------------------------
(* The SMM core installs the ready-to-lock protocol and then calls the      *)
(* driver, in SMM: nobody else runs until it returns.  A platform of before *)
(* PI 1.2 does not signal the end of DXE.                                   *)
SmmReadyToLockInSmmCoreDump ==
  /\ phase \in {"Loaded", "EndOfDxe"}
  /\ core' = InstallProtocol(core, ReadyToLock, ReadyToLock)
  /\ locked' = core'
  /\ phase' = "GetSmmLoadedImage"
  /\ UNCHANGED <<env, driver>>

(* Mutant: the count starts again, the slot to fill does not.               *)
AddImageStructs_CountReset(names) ==
  /\ count' = Len(names)
  /\ imageStruct' = [i \in 1 .. countMax' |->
                       IF i \in count + 1 .. count + Len(names) THEN names[i - count] ELSE ""]
  /\ coreFound' = (coreFound \/ SmmCore \in Range(names))

(* A table of mImageStructCountMax zeroed slots, and AddImageStruct for     *)
(* every name, from slot mImageStructCount on, which nothing resets.        *)
AddImageStructs(names) ==
  /\ count' = IF count + Len(names) <= countMax' THEN count + Len(names) ELSE countMax'
  /\ imageStruct' = [i \in 1 .. countMax' |->
                       IF i \in count + 1 .. count' THEN names[i - count] ELSE ""]
  /\ coreFound' = (coreFound \/ SmmCore \in Range(names))

Overflow(names, max) == count + Len(names) > max

(* No image, and no memory for the handles: it returns.  No memory for the  *)
(* table: only mImageStructCountMax is set.                                 *)
GetSmmLoadedImage ==
  /\ phase = "GetSmmLoadedImage"
  /\ \/ UNCHANGED <<imageStruct, countMax, count, coreFound>> /\ phase' = "GetLoadedImage"
     \/ /\ smmImages # <<>>
        /\ countMax' = Len(smmImages)
        /\ UNCHANGED <<imageStruct, count, coreFound>> /\ phase' = "GetLoadedImage"
     \/ /\ smmImages # <<>>
        /\ countMax' = Len(smmImages)
        /\ AddImageStructs(smmImages)
        /\ phase' = IF Overflow(smmImages, countMax') THEN "ASSERT image"
                 ELSE IF coreFound' THEN "Install" ELSE "GetLoadedImage"
  /\ UNCHANGED <<core, env, locked, found, database>>

(* The images of the DXE database, those in SMRAM of them; every SMM image  *)
(* is there too.                                                            *)
GetLoadedImage ==
  /\ phase = "GetLoadedImage"
  /\ \/ UNCHANGED <<imageStruct, countMax, count, coreFound>> /\ phase' = "Done"
     \/ /\ countMax' = Len(DxeImages) + Len(InSmram)
        /\ imageStruct' = NullPointer /\ UNCHANGED <<count, coreFound>> /\ phase' = "Done"
     \/ /\ countMax' = Len(DxeImages) + Len(InSmram)
        /\ AddImageStructs(InSmram)
        /\ phase' = IF Overflow(InSmram, countMax') THEN "ASSERT image" ELSE "Install"
  /\ UNCHANGED <<core, env, locked, found, database>>

(* The dummy protocol, installed on a handle of its own.                    *)
InstallDummyProtocol ==
  /\ phase = "Install"
  /\ \/ core' = InstallProtocol(core, Dummy, CallerId) /\ phase' = "FindLists"
     \/ UNCHANGED core /\ phase' = "Done"
  /\ UNCHANGED <<env, locked, driver>>

(* GetSmmCoreProtocolDatabase takes the first protocol of a handle that is  *)
(* not the dummy's.                                                         *)
ProtocolDatabaseFound == \E h \in Range(core.handles) : h # Dummy

(* GetSmmCoreHandleList and GetSmmCoreProtocolDatabase follow the links     *)
(* from the dummy to the first node without a signature, which is the head  *)
(* of the list; then the dummy is uninstalled, leaving its entry.           *)
GetSmmCoreLists ==
  /\ phase = "FindLists"
  /\ found' = found \cup {"Handle"} \cup (IF ProtocolDatabaseFound THEN {"Protocol"} ELSE {})
  /\ core' = UninstallProtocol(core, Dummy, CallerId)
  /\ phase' = IF "Protocol" \in found' THEN "GuidSmi" ELSE "NULL list"
  /\ UNCHANGED <<env, locked, coreFound, imageStruct, countMax, count, database>>

(* The dummy handler is registered and unregistered in between; when it can *)
(* not be, the list stays unknown and SmmCoreDump goes on.                  *)
GetSmmCoreSmiEntryList ==
  /\ phase = "GuidSmi"
  /\ phase' = "RootSmi"
  /\ \/ /\ found' = found \cup {"Smi"}
        /\ core' = SmiHandlerUnRegister(SmiHandlerRegister(core, CallerId, Dummy), CallerId, Dummy)
     \/ UNCHANGED <<found, core>>
  /\ UNCHANGED <<env, locked, coreFound, imageStruct, countMax, count, database>>

(* Mutant: the root handler is not unregistered.                            *)
GetSmmCoreRootSmiHandlerList_Left ==
  /\ phase = "RootSmi"
  /\ phase' = "Build"
  /\ \/ /\ found' = found \cup {"RootSmi"}
        /\ core' = SmiHandlerRegister(core, None, Dummy)
     \/ UNCHANGED <<found, core>>
  /\ UNCHANGED <<env, locked, coreFound, imageStruct, countMax, count, database>>

GetSmmCoreRootSmiHandlerList ==
  /\ phase = "RootSmi"
  /\ phase' = "Build"
  /\ \/ /\ found' = found \cup {"RootSmi"}
        /\ core' = SmiHandlerUnRegister(SmiHandlerRegister(core, None, Dummy), None, Dummy)
     \/ UNCHANGED <<found, core>>
  /\ UNCHANGED <<env, locked, coreFound, imageStruct, countMax, count, database>>

(* Mutant: the dummy's entry is only looked for with interfaces on it.      *)
Dumped_Empty(c) == c

(* What the two passes see: both stop at the entry of the dummy protocol.   *)
Dumped(c) ==
  [c EXCEPT !.entries = IF EntryOf(c, CallerId) = 0 THEN @
                        ELSE SubSeq(@, 1, EntryOf(c, CallerId) - 1)]

Walked ==
  {"Handle", "Protocol", "Smi", "RootSmi"} \cup (IF ChildLib = "Nt32" THEN {"Child"} ELSE {})

(* BuildSmmCoreDatabase walks every list, the ones that were not found from *)
(* address NULL.  Its allocation may fail.                                  *)
BuildSmmCoreDatabase ==
  /\ phase = "Build"
  /\ IF Walked \subseteq found
     THEN /\ phase' = "Register"
          /\ \/ database' = [ lists |-> Dumped(core),
                              images |-> SubSeq(imageStruct, 1, count),
                              children |-> IF ChildLib = "Nt32" THEN dispatcher ELSE <<>> ]
             \/ UNCHANGED database
     ELSE phase' = "NULL list" /\ UNCHANGED database
  /\ UNCHANGED <<core, env, locked, coreFound, imageStruct, countMax, count, found>>

(* RegisterSmmCoreDumpHandler asserts that there is room for the handler.   *)
RegisterSmmCoreDumpHandler ==
  /\ phase = "Register"
  /\ \/ core' = SmiHandlerRegister(core, "mSmmCoreDumpGuid", Own) /\ phase' = "Done"
     \/ UNCHANGED core /\ phase' = "ASSERT handler"
  /\ UNCHANGED <<env, locked, driver>>

Done ==
  /\ phase = "Done"
  /\ phase' = "Returned"
  /\ imageStruct' = NullPointer
  /\ UNCHANGED <<core, env, locked, coreFound, countMax, count, found, database>>

SmmCoreDump ==
  \/ GetSmmLoadedImage \/ GetLoadedImage
  \/ InstallDummyProtocol \/ GetSmmCoreLists
  \/ GetSmmCoreSmiEntryList \/ GetSmmCoreRootSmiHandlerList
  \/ BuildSmmCoreDatabase \/ RegisterSmmCoreDumpHandler \/ Done

Boot == SmmCoreDumpEntrypoint \/ SmmEndOfDxeInSmmChildDump \/ SmmReadyToLockInSmmCoreDump

DriverNext == OtherDriver \/ Boot \/ SmmCoreDump

(* The platform loads the driver and comes to ready-to-lock, and the CPU    *)
(* runs the driver until it returns; other drivers need do nothing.         *)
DriverSpec ==
  /\ DriverInit /\ [][DriverNext]_driverVars
  /\ WF_driverVars(Boot) /\ WF_driverVars(SmmCoreDump)
-----------------------------------------------------------------------------
(* The database shows the lists as they were when ready-to-lock was         *)
(* signalled: none of the dummies by which SmmCoreDump found them is in it, *)
(* and nothing behind the entry of the dummy protocol is missing.           *)
ListsAreThoseLocked == database # NullPointer => database.lists = locked

(* The empty protocol entry and the handler for the application are all     *)
(* that SmmCoreDump leaves behind in the SMM core, whichever call failed.   *)
NothingLeftBehind ==
  phase = "Returned" =>
    Dumped([core EXCEPT !.smis = Where(@, {e \in ToSet(@) : e.HandlerType # "mSmmCoreDumpGuid"})])
      = locked

(* AddressToImageRef knows every image in SMRAM when the database is built, *)
(* whichever of the two tables of images it was and whatever the first one  *)
(* left in the globals.                                                     *)
EveryImageIsKnown ==
  database # NullPointer => Range(InSmram) \subseteq Range(database.images)
-----------------------------------------------------------------------------
(* The inductive invariant behind the three: what SmmCoreDump has left in   *)
(* the lists at each of its steps, and which images fill the table.         *)
(* (A prover does not see that a literal is in STRING.)                    *)
Names ==
  STRING \cup {CallerId, ReadyToLock, EndOfDxe, SmmCore, Dummy, Own, None, "P", "Q", "T", "",
                "mSmmCoreDumpGuid", "SmmReadyToLockInSmmCoreDump", "SmmEndOfDxeInSmmChildDump"}
ProtocolEntry == [ProtocolID : Names, Handles : Seq(Names), Notify : Seq(Names)]
SmiEntry == [HandlerType : Names, SmiHandlers : Seq(Names)]
Lists ==
  [handles : Seq(Names), entries : Seq(ProtocolEntry), smis : Seq(SmiEntry), roots : Seq(Names)]

DriverTypeOK ==
  /\ core \in Lists /\ locked \in Lists
  /\ smmImages \in {<<>>, SmmDrivers, InSmram}
  /\ others \in 0 .. Len(Calls)
  /\ coreFound \in BOOLEAN /\ countMax \in Nat /\ count \in Nat
  /\ imageStruct = NullPointer \/ imageStruct \in Seq(Names)

(* Nothing of SmmCoreDump is in the lists.                                  *)
NotProbed(c) ==
  /\ Dummy \notin ToSet(c.handles) \cup ToSet(c.roots)
  /\ \A e \in ToSet(c.entries) : e.ProtocolID # CallerId
  /\ \A e \in ToSet(c.smis) : e.HandlerType \notin {CallerId, "mSmmCoreDumpGuid"}

Probed(c) == WithEntry(c, CallerId)

LeftInLists ==
  /\ NotProbed(IF DxePhase THEN core ELSE locked)
  /\ DxePhase => database = NullPointer
  /\ phase \in {"GetSmmLoadedImage", "GetLoadedImage", "Install"} => core = locked
  /\ phase = "FindLists" => core = InstallProtocol(locked, Dummy, CallerId)
  /\ phase \in {"GuidSmi", "RootSmi", "Build", "Register"} => core = Probed(locked)
  /\ phase \in {"Done", "Returned"} =>
       core \in {locked, SmiHandlerRegister(Probed(locked), "mSmmCoreDumpGuid", Own)}

ImagesInTable ==
  /\ DxePhase \/ phase = "GetSmmLoadedImage" => count = 0 /\ ~coreFound
  /\ phase \in {"Install", "FindLists", "GuidSmi", "RootSmi", "Build"} =>
       /\ imageStruct \in Seq(Names) /\ count <= Len(imageStruct)
       /\ ToSet(InSmram) \subseteq {imageStruct[i] : i \in 1 .. count}

DriverIInv ==
  DriverTypeOK /\ LeftInLists /\ ImagesInTable /\ ListsAreThoseLocked /\ EveryImageIsKnown
=============================================================================
