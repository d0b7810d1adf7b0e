------------------------- MODULE SmmCoreDumpHandler -------------------------
(***************************************************************************)
(* The SMI handler of the SMM core dump driver                             *)
(* (AppSrc/EdkiiCoreDatabaseDump/SmmCoreDump/SmmCoreDumpHandler.c): the    *)
(* server side of the protocol declared in SmmCoreDumpComm.h.              *)
(*                                                                         *)
(* The driver builds one database, once, before SMM is locked; from then   *)
(* on the handler only reads it.  A caller places a parameter block in the *)
(* communication buffer (the record comm) and a data buffer behind it      *)
(* (the function data), raises an SMI, and reads both when it returns.     *)
(*                                                                         *)
(* Bytes are members of Byte, sizes and offsets naturals: no arithmetic of *)
(* the handler can wrap, for it subtracts only after the comparison that   *)
(* makes the difference non-negative.                                      *)
(***************************************************************************)
EXTENDS Integers

CONSTANTS
  Byte,        \* what one byte of the database, or of a buffer, can hold
  Sizes,       \* the database sizes a build can produce
  Capacities,  \* how large the data part of a communication buffer can be
  NULL         \* the NULL pointer

ASSUME SizesAssumption == Sizes \subseteq Nat \ {0}
ASSUME CapacitiesAssumption == Capacities \subseteq Nat \ {0}
ASSUME NullAssumption == \A n \in Sizes : NULL \notin [0 .. n - 1 -> Byte]

VARIABLES
  mSmmCoreDatabase,      \* NULL, or the bytes of the database
  mSmmCoreDatabaseSize,  \* its size; BuildSmmCoreDatabase leaves it set on failure
  comm,                  \* the parameter block of the communication buffer
  data                   \* the bytes of the communication buffer behind it

serverVars == <<mSmmCoreDatabase, mSmmCoreDatabaseSize>>
commVars   == <<comm, data>>

-----------------------------------------------------------------------------
(* SmmCoreDumpComm.h: commands, block sizes and the values of ReturnStatus. *)

GetInfo == "SMM_CORE_DUMP_COMMAND_GET_INFO"
GetData == "SMM_CORE_DUMP_COMMAND_GET_DATA_BY_OFFSET"
NoCommand == "unknown"

SizeOfHeader  == 16
SizeOfGetInfo == 24
SizeOfGetData == 40

Untouched    == "MINUS_ONE"     \* (UINT64)-1, which the caller presets
Success      == "SUCCESS"
AccessDenied == "ACCESS_DENIED"

(* MessageLength stands for the size of the block that the SMI dispatcher   *)
(* hands over; inSmram and dataInSmram for the answer that                  *)
(* SmmIsBufferOutsideSmmValid gives on the block and on the data buffer.    *)
CommRecord ==
  [ Command       : {GetInfo, GetData, NoCommand},
    MessageLength : Nat,
    ReturnStatus  : {Untouched, Success, AccessDenied},
    DumpSize      : Nat,
    DumpOffset    : Nat,
    inSmram       : BOOLEAN,
    dataInSmram   : BOOLEAN ]

Smaller(m, n) == IF m <= n THEN m ELSE n

-----------------------------------------------------------------------------
(* BuildSmmCoreDatabase: when the allocation or the data pass fails, the    *)
(* database stays NULL and its size keeps the value of the size pass.       *)
DatabaseBuilt ==
  /\ mSmmCoreDatabaseSize \in Sizes
  /\ mSmmCoreDatabase \in {NULL} \cup [0 .. mSmmCoreDatabaseSize - 1 -> Byte]

(* SmmCoreDumpCopyData: the bytes that a request for n bytes at offset off  *)
(* moves, and what it leaves in DumpSize and DumpOffset.  An offset at or   *)
(* past the end moves nothing and leaves DumpSize alone.                    *)
PastEnd(off) == off >= mSmmCoreDatabaseSize
CopyLength(off, n) ==
  IF PastEnd(off) THEN 0 ELSE Smaller(n, mSmmCoreDatabaseSize - off)
(* Mutants: DumpSize tells what is left, not what was copied; the offset    *)
(* does not move.                                                           *)
ReplySize_Remaining(off, n) == IF PastEnd(off) THEN n ELSE mSmmCoreDatabaseSize - off
ReplyOffset_Unmoved(off, n) == IF PastEnd(off) THEN mSmmCoreDatabaseSize ELSE off

ReplySize(off, n) == IF PastEnd(off) THEN n ELSE CopyLength(off, n)
ReplyOffset(off, n) ==
  IF PastEnd(off) THEN mSmmCoreDatabaseSize ELSE off + CopyLength(off, n)

(* Mutant: every request is served from the start of the database.          *)
SmmCoreDumpCopyData_FromStart(off, n) ==
  data' = [i \in DOMAIN data |-> IF i < CopyLength(off, n)
                                 THEN mSmmCoreDatabase[i] ELSE data[i]]

SmmCoreDumpCopyData(off, n) ==
  data' = [i \in DOMAIN data |-> IF i < CopyLength(off, n)
                                 THEN mSmmCoreDatabase[off + i] ELSE data[i]]

SmmCoreDumpHandlerGetInfo ==
  /\ comm' = [comm EXCEPT !.DumpSize = mSmmCoreDatabaseSize,
                          !.ReturnStatus = Success]
  /\ UNCHANGED data

SmmCoreDumpHandlerGetDataByOffset ==
  \/ /\ comm.dataInSmram
     /\ comm' = [comm EXCEPT !.ReturnStatus = AccessDenied]
     /\ UNCHANGED data
  \/ /\ ~ comm.dataInSmram
     /\ SmmCoreDumpCopyData(comm.DumpOffset, comm.DumpSize)
     /\ comm' = [comm EXCEPT
                   !.DumpSize = ReplySize(comm.DumpOffset, comm.DumpSize),
                   !.DumpOffset = ReplyOffset(comm.DumpOffset, comm.DumpSize),
                   !.ReturnStatus = Success]

(* The early returns of SmmCoreDumpHandler that leave the block as it is    *)
(* (a missing block, which only an SMI without a caller has, among them).   *)
Refused ==
  \/ mSmmCoreDatabase = NULL
  \/ comm.MessageLength < SizeOfHeader
  \/ comm.inSmram

(* The exits that leave only ReturnStatus = -1: an unknown command, or a    *)
(* block that has not exactly the size of the command's parameters.         *)
Malformed ==
  \/ comm.Command = GetInfo /\ comm.MessageLength # SizeOfGetInfo
  \/ comm.Command = GetData /\ comm.MessageLength # SizeOfGetData
  \/ comm.Command \notin {GetInfo, GetData}

(* One SMI: the handler runs to completion, in SMM, before anything else.   *)
SmmCoreDumpHandler ==
  /\ UNCHANGED serverVars
  /\ \/ Refused /\ UNCHANGED commVars
     \/ /\ ~ Refused
        /\ Malformed
        /\ comm' = [comm EXCEPT !.ReturnStatus = Untouched]
        /\ UNCHANGED data
     \/ /\ ~ Refused
        /\ ~ Malformed
        /\ comm.Command = GetInfo
        /\ SmmCoreDumpHandlerGetInfo
     \/ /\ ~ Refused
        /\ ~ Malformed
        /\ comm.Command = GetData
        /\ SmmCoreDumpHandlerGetDataByOffset
=============================================================================
