---------------------------- MODULE SmmCoreDumpApp ----------------------------
(***************************************************************************)
(* The shell application that fetches the SMM core database                *)
(* (AppSrc/EdkiiCoreDatabaseDump/SmmCoreDump/SmmCoreDumpApp.c), composed   *)
(* with the handler of SmmCoreDumpHandler.                                 *)
(*                                                                         *)
(* The application asks for the size of the database, allocates that much, *)
(* and then fetches it in pieces as large as the communication region      *)
(* allows.  Every Communicate() is one SMI: the processor leaves the       *)
(* application, the handler runs to completion, and the application goes   *)
(* on.  Communicate() may also fail without an SMI being taken, or because *)
(* no handler is registered; what the application then does depends on     *)
(* whether its ASSERTs are compiled in.                                    *)
(***************************************************************************)
EXTENDS SmmCoreDumpHandler, Sequences

CONSTANTS
  Zero,            \* the byte that AllocateZeroPool fills memory with
  PageSize,        \* MinimalSizeNeeded, EFI_PAGE_SIZE
  CommSize,        \* the communicate header and one GET_DATA block
  RegionTables     \* the communication region tables of the platforms

ASSUME ZeroAssumption == Zero \in Byte
ASSUME RegionAssumption ==
  /\ PageSize \in Nat
  /\ CommSize \in Nat
  /\ CommSize < PageSize
  /\ \A t \in RegionTables : \A i \in DOMAIN t : t[i].Size \in Nat

VARIABLES
  pc,              \* where GetSmmCoreDatabase, or its caller, stands
  assertsEnabled,  \* the build: PcdDebugPropertyMask lets ASSERT stop the machine
  registered,      \* the driver has registered its SMI handler
  commInSmram,     \* what SmmIsBufferOutsideSmmValid finds of the block ...
  dataInSmram,     \* ... and of the buffer behind it
  chunk,           \* Size: the room for data in the communication region
  Offset,          \* Offset: where the piece under way starts
  appDatabase,     \* mSmmCoreDatabase of the application
  appDatabaseSize  \* mSmmCoreDatabaseSize of the application

platformVars == <<assertsEnabled, registered, commInSmram, dataInSmram>>
appVars == <<chunk, Offset, appDatabase, appDatabaseSize>>
vars == <<mSmmCoreDatabase, mSmmCoreDatabaseSize, comm, data, pc, assertsEnabled,
          registered, commInSmram, dataInSmram, chunk, Offset, appDatabase,
          appDatabaseSize>>

(* Done: back at the shell with nothing dumped.  Dumped: back at the shell  *)
(* after the whole database was printed.  Halted: a failed ASSERT.          *)
(* Undefined: past a condition that only an ASSERT checks.                  *)
Ended == {"Done", "Dumped", "Halted", "Undefined"}
PC == {"Locate", "GetInfo", "InfoSmi", "GotInfo", "Start", "Loop", "DataSmi",
       "GotData", "Dump"} \cup Ended

-----------------------------------------------------------------------------
(* SmmCoreDumpAppEntrypoint runs after the driver's SmmReadyToLock: either  *)
(* RegisterSmmCoreDumpHandler has built what it could and registered, or    *)
(* SmmCoreDump gave up before.                                              *)
Init ==
  /\ DatabaseBuilt
  /\ comm = [ Command |-> NoCommand, MessageLength |-> 0,
              ReturnStatus |-> Untouched, DumpSize |-> 0, DumpOffset |-> 0,
              inSmram |-> FALSE, dataInSmram |-> FALSE ]
  /\ data = <<>>
  /\ pc = "Locate"
  /\ assertsEnabled \in BOOLEAN
  /\ registered \in BOOLEAN
  /\ commInSmram \in BOOLEAN
  /\ dataInSmram \in BOOLEAN
  /\ chunk = 0
  /\ Offset = 0
  /\ appDatabase = NULL
  /\ appDatabaseSize = 0

(* No communication protocol, or no region table: nothing to do.            *)
LocateFails ==
  /\ pc = "Locate"
  /\ pc' = "Done"
  /\ UNCHANGED <<serverVars, commVars, platformVars, appVars>>

(* A region that can be used: conventional memory of at least a page.       *)
Usable(t, i) == t[i].Type = "EfiConventionalMemory" /\ t[i].Size >= PageSize

(* The application takes the first usable region; what the memory held      *)
(* before is anything.                                                      *)
ChooseRegion ==
  /\ pc = "Locate"
  /\ \E t \in RegionTables : \E i \in DOMAIN t :
       /\ Usable(t, i)
       /\ \A j \in 1 .. i - 1 : ~ Usable(t, j)
       /\ chunk' = t[i].Size - CommSize
  /\ \E b \in Byte : data' = [i \in 0 .. chunk' - 1 |-> b]
  /\ pc' = "GetInfo"
  /\ UNCHANGED <<serverVars, comm, platformVars, Offset, appDatabase, appDatabaseSize>>

(* ASSERT (Index < PiSmmCommunicationRegionTable->NumberOfEntries).         *)
NoUsableRegion ==
  /\ pc = "Locate"
  /\ \E t \in RegionTables : \A i \in DOMAIN t : ~ Usable(t, i)
  /\ pc' = IF assertsEnabled THEN "Halted" ELSE "Undefined"
  /\ UNCHANGED <<serverVars, commVars, platformVars, appVars>>

AskForInfo ==
  /\ pc = "GetInfo"
  /\ comm' = [comm EXCEPT !.Command = GetInfo,
                          !.MessageLength = SizeOfGetInfo,
                          !.ReturnStatus = Untouched,
                          !.DumpSize = 0,
                          !.inSmram = commInSmram]
  /\ pc' = "InfoSmi"
  /\ UNCHANGED <<serverVars, data, platformVars, appVars>>

(* A non-zero ReturnStatus ends the dump.                                   *)
InfoRefused ==
  /\ pc = "GotInfo"
  /\ comm.ReturnStatus # Success
  /\ pc' = "Done"
  /\ UNCHANGED <<serverVars, commVars, platformVars, appVars>>

(* Mutant: the ReturnStatus of GET_INFO is not looked at.                   *)
TakeInfo_Unchecked ==
  /\ pc = "GotInfo"
  /\ appDatabaseSize' = comm.DumpSize
  /\ appDatabase' = [i \in 0 .. comm.DumpSize - 1 |-> Zero]
  /\ pc' = "Start"
  /\ UNCHANGED <<serverVars, commVars, platformVars, chunk, Offset>>

TakeInfo ==
  /\ pc = "GotInfo"
  /\ comm.ReturnStatus = Success
  /\ appDatabaseSize' = comm.DumpSize
  /\ \/ /\ appDatabase' = [i \in 0 .. comm.DumpSize - 1 |-> Zero]
        /\ pc' = "Start"
     \/ UNCHANGED appDatabase /\ pc' = "Done"   \* AllocateZeroPool fails
  /\ UNCHANGED <<serverVars, commVars, platformVars, chunk, Offset>>

(* The block for the whole transfer.  ReturnStatus is preset here, once.    *)
StartTransfer ==
  /\ pc = "Start"
  /\ comm' = [comm EXCEPT !.Command = GetData,
                          !.MessageLength = SizeOfGetData,
                          !.ReturnStatus = Untouched,
                          !.DumpOffset = 0,
                          !.dataInSmram = dataInSmram]
  /\ pc' = "Loop"
  /\ UNCHANGED <<serverVars, data, platformVars, appVars>>

(* Mutants: the application counts the offset itself; ReturnStatus is preset *)
(* before every piece.                                                      *)
AskForData_OwnOffset ==
  /\ pc = "Loop"
  /\ comm.DumpOffset < appDatabaseSize
  /\ Offset' = IF comm.DumpOffset = 0 THEN 0 ELSE Offset + chunk
  /\ comm' = [comm EXCEPT
                !.DumpSize = Smaller(chunk, appDatabaseSize - comm.DumpOffset)]
  /\ pc' = "DataSmi"
  /\ UNCHANGED <<serverVars, data, platformVars, chunk, appDatabase, appDatabaseSize>>
AskForData_PresetAgain ==
  /\ pc = "Loop"
  /\ comm.DumpOffset < appDatabaseSize
  /\ Offset' = comm.DumpOffset
  /\ comm' = [comm EXCEPT
                !.ReturnStatus = Untouched,
                !.DumpSize = Smaller(chunk, appDatabaseSize - comm.DumpOffset)]
  /\ pc' = "DataSmi"
  /\ UNCHANGED <<serverVars, data, platformVars, chunk, appDatabase, appDatabaseSize>>

AskForData ==
  /\ pc = "Loop"
  /\ comm.DumpOffset < appDatabaseSize
  /\ Offset' = comm.DumpOffset
  /\ comm' = [comm EXCEPT
                !.DumpSize = Smaller(chunk, appDatabaseSize - comm.DumpOffset)]
  /\ pc' = "DataSmi"
  /\ UNCHANGED <<serverVars, data, platformVars, chunk, appDatabase, appDatabaseSize>>

(* A non-zero ReturnStatus: FreePool, and nothing is dumped.                *)
DataRefused ==
  /\ pc = "GotData"
  /\ comm.ReturnStatus # Success
  /\ appDatabase' = NULL
  /\ pc' = "Done"
  /\ UNCHANGED <<serverVars, commVars, platformVars, chunk, Offset, appDatabaseSize>>

(* Mutant: every piece is copied to the start of the database.              *)
CopyPiece_AtStart(off, n) ==
  [i \in DOMAIN appDatabase |-> IF i \in 0 .. n - 1
                                THEN data[i] ELSE appDatabase[i]]

(* CopyMem of what the reply says was copied, to where the request started. *)
CopyPiece(off, n) ==
  [i \in DOMAIN appDatabase |-> IF i \in off .. off + n - 1
                                THEN data[i - off] ELSE appDatabase[i]]

TakeData ==
  /\ pc = "GotData"
  /\ comm.ReturnStatus = Success
  /\ appDatabase' = CopyPiece(Offset, comm.DumpSize)
  /\ pc' = "Loop"
  /\ UNCHANGED <<serverVars, commVars, platformVars, chunk, Offset, appDatabaseSize>>

TransferDone ==
  /\ pc = "Loop"
  /\ comm.DumpOffset >= appDatabaseSize
  /\ pc' = "Dump"
  /\ UNCHANGED <<serverVars, commVars, platformVars, appVars>>

(* SmmCoreDumpAppEntrypoint prints the database and frees it.               *)
Dump ==
  /\ pc = "Dump"
  /\ pc' = "Dumped"
  /\ UNCHANGED <<serverVars, commVars, platformVars, appVars>>
-----------------------------------------------------------------------------
(* Communicate(): the SMI, when a handler is registered for the GUID.       *)
Smi ==
  /\ pc \in {"InfoSmi", "DataSmi"}
  /\ registered
  /\ SmmCoreDumpHandler
  /\ pc' = IF pc = "InfoSmi" THEN "GotInfo" ELSE "GotData"
  /\ UNCHANGED <<platformVars, appVars>>

(* Communicate() returns an error and the block is as it was: the first     *)
(* time the application gives up, later it has only an ASSERT for it.       *)
CommunicateFails ==
  /\ pc \in {"InfoSmi", "DataSmi"}
  /\ pc' = IF pc = "InfoSmi" THEN "Done"
           ELSE IF assertsEnabled THEN "Halted" ELSE "GotData"
  /\ UNCHANGED <<serverVars, commVars, platformVars, appVars>>

Terminated == pc \in Ended /\ UNCHANGED vars

AppNext ==
  \/ LocateFails \/ ChooseRegion \/ NoUsableRegion
  \/ AskForInfo \/ InfoRefused \/ TakeInfo
  \/ StartTransfer \/ AskForData \/ DataRefused \/ TakeData \/ TransferDone
  \/ Dump
Next == AppNext \/ Smi \/ CommunicateFails \/ Terminated

(* The application runs on, and an SMI, or an error, answers every call.    *)
(* A Communicate() that is tried again and again succeeds in the end: only  *)
(* a build without ASSERTs tries again, and to one with them the strong     *)
(* fairness adds nothing.                                                   *)
Spec == Init /\ [][Next]_vars /\ WF_vars(AppNext \/ Smi \/ CommunicateFails)
             /\ SF_vars(Smi)
-----------------------------------------------------------------------------
TypeOK ==
  /\ mSmmCoreDatabaseSize \in Sizes
  /\ mSmmCoreDatabase \in {NULL} \cup [0 .. mSmmCoreDatabaseSize - 1 -> Byte]
  /\ comm \in CommRecord
  /\ chunk \in Nat
  /\ data \in [0 .. chunk - 1 -> Byte]
  /\ pc \in PC
  /\ assertsEnabled \in BOOLEAN
  /\ registered \in BOOLEAN
  /\ commInSmram \in BOOLEAN
  /\ dataInSmram \in BOOLEAN
  /\ Offset \in Nat
  /\ appDatabaseSize \in Nat
  /\ appDatabase \in {NULL} \cup [0 .. appDatabaseSize - 1 -> Byte]

Transferring == pc \in {"Loop", "DataSmi", "GotData", "Dump", "Dumped"}

(* How far the transfer has got: while a piece is under way the offset in   *)
(* the block may already be that of the next one.                           *)
Received == IF pc \in {"DataSmi", "GotData"} THEN Offset ELSE comm.DumpOffset

(* What has been received so far is what the driver built, byte for byte    *)
(* and in place: also when Communicate() failed in between, with the ASSERT *)
(* compiled out and ReturnStatus still that of the previous piece (lines    *)
(* 166-183).                                                                *)
PrefixReceived ==
  Transferring => /\ appDatabase # NULL
                  /\ mSmmCoreDatabase # NULL
                  /\ Received <= appDatabaseSize
                  /\ \A i \in 0 .. Received - 1 : appDatabase[i] = mSmmCoreDatabase[i]

(* What is dumped is the whole database, never a part of it, never the      *)
(* zeros of AllocateZeroPool.                                               *)
DumpIsExact ==
  pc \in {"Dump", "Dumped"} => appDatabase = mSmmCoreDatabase

(* CopyMem neither leaves the data buffer nor the allocated database: the   *)
(* DumpSize it goes by is the handler's, read back from the block.          *)
CopyStaysInside ==
  pc = "GotData" /\ comm.ReturnStatus = Success =>
    /\ comm.DumpSize <= chunk
    /\ Offset + comm.DumpSize <= appDatabaseSize

(* The application comes back to the shell, or stops at an ASSERT.          *)
Terminates == <>(pc \in Ended)

(* Once the first piece has arrived the dump is completed, unless an ASSERT *)
(* stops the machine: a failed Communicate() is in effect a retry, because  *)
(* ReturnStatus is not preset again and the offset has not moved.           *)
StartedIsCompleted ==
  (pc = "Loop" /\ comm.DumpOffset > 0) ~> (pc \in {"Dumped", "Halted"})

-----------------------------------------------------------------------------
(* The strengthening of PrefixReceived that every step preserves: what is   *)
(* in the block between the application's write and its read.               *)
InfoInv ==
  /\ pc \in {"Locate", "GetInfo", "InfoSmi", "GotInfo"} => appDatabase = NULL
  /\ pc \in {"GetInfo", "InfoSmi", "GotInfo", "Start"} => chunk > 0
  /\ pc = "InfoSmi" =>
       comm.Command = GetInfo /\ comm.ReturnStatus = Untouched
  /\ pc = "GotInfo" /\ comm.ReturnStatus = Success =>
       mSmmCoreDatabase # NULL /\ comm.DumpSize = mSmmCoreDatabaseSize
  /\ pc = "Start" =>
       /\ mSmmCoreDatabase # NULL
       /\ appDatabase # NULL
       /\ appDatabaseSize = mSmmCoreDatabaseSize

RequestInv ==
  pc \in {"DataSmi", "GotData"} =>
    /\ Offset < appDatabaseSize
    /\ Offset + comm.DumpSize <= appDatabaseSize
    /\ comm.DumpSize <= chunk
    /\ pc = "DataSmi" => comm.DumpOffset = Offset

(* A reply has either not come, and the block asks for the same piece still, *)
(* or the piece is in the data buffer and the offset is behind it.          *)
ReplyInv ==
  pc = "GotData" /\ comm.ReturnStatus = Success =>
    \/ comm.DumpOffset = Offset
    \/ /\ comm.DumpOffset = Offset + comm.DumpSize
       /\ \A i \in 0 .. comm.DumpSize - 1 : data[i] = mSmmCoreDatabase[Offset + i]

TransferInv ==
  Transferring =>
    /\ chunk > 0
    /\ appDatabaseSize = mSmmCoreDatabaseSize
    /\ comm.Command = GetData
    /\ pc \in {"Dump", "Dumped"} => comm.DumpOffset >= appDatabaseSize

IInv ==
  /\ TypeOK
  /\ InfoInv
  /\ TransferInv
  /\ RequestInv
  /\ ReplyInv
  /\ PrefixReceived

-----------------------------------------------------------------------------
(* The application and the handler implement DumpTransfer.                  *)
Copy == IF Transferring THEN [i \in 0 .. Received - 1 |-> appDatabase[i]]
        ELSE [i \in 0 .. -1 |-> Zero]
Outcome == IF pc \in {"Dump", "Dumped"} THEN "delivered"
           ELSE IF pc \in Ended THEN "failed" ELSE "pending"

Transfer == INSTANCE DumpTransfer
              WITH source <- mSmmCoreDatabase, size <- mSmmCoreDatabaseSize,
                   copy <- Copy, outcome <- Outcome

(* Every behaviour of the transfer is one of DumpTransfer.                  *)
ImplementsTransfer == Transfer!Spec
=============================================================================
