-------------------------- MODULE SmmCoreDumpServer --------------------------
(***************************************************************************)
(* The handler of SmmCoreDumpHandler with any caller: one that writes a    *)
(* parameter block of its choice (any command, length, offset and size     *)
(* that its data buffer can take), raises the SMI, reads the reply and     *)
(* asks again, with a new block or with the one the handler left.          *)
(***************************************************************************)
EXTENDS SmmCoreDumpHandler

VARIABLES
  calling,   \* the caller has raised the SMI and waits for it to return
  asked      \* the block as the caller wrote it for the latest SMI

callerVars == <<mSmmCoreDatabase, mSmmCoreDatabaseSize, comm, data, calling, asked>>

Lengths == {8, SizeOfHeader, SizeOfGetInfo, SizeOfGetData}

(* What a caller may write in front of a data buffer of n bytes.  Offsets   *)
(* reach one past the largest database.                                     *)
BlocksFor(n) ==
  [ Command : {GetInfo, GetData, NoCommand}, MessageLength : Lengths,
    ReturnStatus : {Untouched}, DumpSize : 0 .. n,
    DumpOffset : 0 .. 1 + mSmmCoreDatabaseSize,
    inSmram : BOOLEAN, dataInSmram : BOOLEAN ]

ServerInit ==
  /\ DatabaseBuilt
  /\ \E n \in Capacities : \E b \in Byte : data = [i \in 0 .. n - 1 |-> b]
  /\ comm = [ Command |-> GetInfo, MessageLength |-> SizeOfGetInfo,
              ReturnStatus |-> Untouched, DumpSize |-> 0, DumpOffset |-> 0,
              inSmram |-> FALSE, dataInSmram |-> FALSE ]
  /\ calling = FALSE
  /\ asked = comm

(* A caller writes a block and raises the SMI.                              *)
Ask ==
  /\ ~ calling
  /\ \E n \in Capacities : DOMAIN data = 0 .. n - 1 /\ comm' \in BlocksFor(n)
  /\ asked' = comm'
  /\ calling' = TRUE
  /\ UNCHANGED <<mSmmCoreDatabase, mSmmCoreDatabaseSize, data>>

(* A caller goes on with the block the handler left, as SmmCoreDumpApp does. *)
AskOn ==
  /\ ~ calling
  /\ comm' = [comm EXCEPT !.ReturnStatus = Untouched]
  /\ asked' = comm'
  /\ calling' = TRUE
  /\ UNCHANGED <<mSmmCoreDatabase, mSmmCoreDatabaseSize, data>>

Serve ==
  /\ calling
  /\ SmmCoreDumpHandler
  /\ calling' = FALSE
  /\ UNCHANGED asked

ServerNext == Ask \/ AskOn \/ Serve
ServerSpec == ServerInit /\ [][ServerNext]_callerVars

-----------------------------------------------------------------------------
DataServed ==
  ~ calling /\ asked.Command = GetData /\ comm.ReturnStatus = Success

(* However requests of any size and offset follow each other, the bytes     *)
(* between the offset asked for and the offset returned are those of the    *)
(* database, in front of the data buffer; no byte is moved past what the    *)
(* caller made room for, and a reply that is shorter than asked for has     *)
(* reached the end (SmmCoreDumpCopyData).                                   *)
ReplyIsSlice ==
  DataServed =>
    LET moved == comm.DumpOffset - asked.DumpOffset
    IN  /\ moved <= asked.DumpSize
        /\ \A i \in 0 .. moved - 1 : data[i] = mSmmCoreDatabase[asked.DumpOffset + i]
        /\ moved < asked.DumpSize => comm.DumpOffset = mSmmCoreDatabaseSize
-----------------------------------------------------------------------------
(* The inductive invariant behind ReplyIsSlice.  A reply can be compared    *)
(* with the block asked because the handler is the only one to write the    *)
(* block while the caller waits, and presets nothing that the comparison    *)
(* reads; a request for data never asks for more than the data buffer       *)
(* takes, also when the caller goes on with what an earlier reply left in   *)
(* DumpSize: after GET_DATA that is at most what was asked, and after       *)
(* GET_INFO, which may leave more, the command is not GET_DATA.             *)
BlocksOK ==
  /\ mSmmCoreDatabaseSize \in Sizes
  /\ comm \in CommRecord
  /\ asked \in CommRecord
  /\ calling \in BOOLEAN
  /\ \E n \in Capacities : DOMAIN data = 0 .. n - 1

BufferHoldsRequest ==
  comm.Command = GetData =>
    \E n \in Capacities : DOMAIN data = 0 .. n - 1 /\ comm.DumpSize <= n

BlockIsAsAsked == calling => comm = asked /\ comm.ReturnStatus = Untouched

ServerIInv == BlocksOK /\ BufferHoldsRequest /\ BlockIsAsAsked /\ ReplyIsSlice
=============================================================================
