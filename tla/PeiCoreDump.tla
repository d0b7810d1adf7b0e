----------------------------- MODULE PeiCoreDump -----------------------------
(***************************************************************************)
(* PeiCoreDump is called back at the end of PEI, when the memory of the    *)
(* PEI core is about to go, and puts what the core knows into a HOB: the   *)
(* PEIMs of its volumes, its three lists of PPIs and notifications, and    *)
(* its memory.  PeiCoreDumpApp walks over that HOB in the shell, from one  *)
(* structure to the next by their Length.                                  *)
(*                                                                         *)
(* The data of the HOB is a function from offsets to the structures there. *)
(***************************************************************************)
EXTENDS Integers, FiniteSets, SequencesExt, Sublists

CONSTANTS
  Volumes,     \* firmware volumes: sequences of files, NULL for no handle
  Entries,     \* PPIs and notifications that PEIMs install
  Provider,    \* the file that each of them is of
  mNotifyList, EndOfPei,   \* our notification and the PPI it waits for
  ZeroGuid, NULL,
  HobLengths,  \* how many values a HOB's length has: 2 ^ 16
  MaxFvCount   \* bound

ASSUME WidthAssumption == HobLengths \in Nat \ {0}

(* A structure without an image has the zero GUID for a name.               *)
ASSUME VolumesAssumption ==
  \A volume \in Volumes : volume \in Seq(ToSet(volume)) /\ ZeroGuid \notin ToSet(volume)

Lists == <<"PpiList", "CallbackNotifyList", "DispatchNotifyList">>

VARIABLES
  Fv, PpiData,     \* the PEI core's
  atDump,          \* Fv and PpiData when our callback ran
  allocated,       \* it had memory for the images
  next, last,      \* callbacks still to run
  hob,             \* [size, data]
  pc,
  pass, offset,    \* the application's walk
  printed          \* [images, ppis, memory]

pei == <<Fv, PpiData>>
dump == <<atDump, allocated, hob>>
app == <<pass, offset, printed>>
vars == <<pei, dump, next, last, pc, app>>

(***************************************************************************)
(* The PEI core                                                            *)
(***************************************************************************)

Known == UNION {ToSet(PpiData[l]) : l \in ToSet(Lists)}

Init ==
  /\ Fv = <<>> /\ PpiData = [l \in ToSet(Lists) |-> <<>>]
  /\ atDump = NULL /\ allocated = FALSE /\ hob = NULL
  /\ next = 1 /\ last = 0 /\ pc = "pei"
  /\ pass = 1 /\ offset = 0
  /\ printed = [images |-> <<>>, ppis |-> {}, memory |-> 0]

FindFv ==
  /\ pc = "pei" /\ Len(Fv) < MaxFvCount
  /\ \E volume \in Volumes : Fv' = Append(Fv, volume)
  /\ UNCHANGED <<PpiData, dump, next, last, pc, app>>

Add(l, e) == [PpiData EXCEPT ![l] = Append(@, e)]

(* InstallPpi or NotifyPpi, ReInstallPpi, or neither.                       *)
Changes ==
  {Add(l, e) : l \in ToSet(Lists), e \in Entries \ Known}
    \cup {[PpiData EXCEPT !["PpiList"][i] = e] :
             i \in {j \in DOMAIN PpiData["PpiList"] : PpiData["PpiList"][j] \in Entries},
             e \in Entries \ Known}

Peim ==
  /\ pc = "pei"
  /\ PpiData' \in Changes
  /\ UNCHANGED <<Fv, dump, next, last, pc, app>>

PeiCoreDumpEntrypoint ==
  /\ pc = "pei" /\ mNotifyList \notin Known
  /\ PpiData' = Add("CallbackNotifyList", mNotifyList)
  /\ UNCHANGED <<Fv, dump, next, last, pc, app>>

(* The callbacks that are registered by now run in their order.             *)
EndOfPeiSignal ==
  /\ pc = "pei"
  /\ PpiData' = Add("PpiList", EndOfPei)
  /\ last' = Len(PpiData["CallbackNotifyList"])
  /\ pc' = "callbacks"
  /\ UNCHANGED <<Fv, dump, next, app>>

OtherCallback ==
  /\ pc = "callbacks" /\ next <= last
  /\ PpiData["CallbackNotifyList"][next] # mNotifyList
  /\ PpiData' \in Changes \cup {PpiData}
  /\ next' = next + 1
  /\ UNCHANGED <<Fv, dump, last, pc, app>>

(***************************************************************************)
(* The callback                                                            *)
(***************************************************************************)

sizeof == [EFI_HOB_GUID_TYPE |-> 24, IMAGE |-> 132, PPI_DATABASE |-> 76, PPI |-> 40,
           MEMORY_INFO |-> 36]

(* PEI_CORE_INSTANCE                                                        *)
Instance == [Fv |-> Fv, PpiData |-> PpiData]

CalcTotalPeimCount(PrivateData) ==
  Total([i \in 1 .. Len(PrivateData.Fv) |-> Len(PrivateData.Fv[i])])
CalcTotalPpiDataCount(PrivateData) ==
  Total([k \in 1 .. Len(Lists) |-> Len(PrivateData.PpiData[Lists[k]])])

(* Files up to the first that has no handle.                                *)
Peims(files) ==
  LET missing == {i \in 1 .. Len(files) : files[i] = NULL}
  IN IF missing = {} THEN files ELSE SubSeq(files, 1, Min(missing) - 1)

(* A file is told by the GUID that is its name.                             *)
DumpImageData(PrivateData, memory) ==
  IF memory
  THEN FlattenSeq([i \in 1 .. Len(PrivateData.Fv) |-> Peims(PrivateData.Fv[i])])
  ELSE <<>>

(* Images are added with the size 0: no address lies in one.                *)
ImageSize == 0
AddressToImageRef(mImageStruct, e) ==
  LET hits == {i \in DOMAIN mImageStruct : ImageSize > 0 /\ mImageStruct[i] = Provider[e]}
  IN IF hits = {} THEN -1 ELSE CHOOSE i \in hits : \A j \in hits : i <= j

(* Mutant: only the structures of known images get a header.                *)
BuildImageDatabaseData_Known(PrivateData, mImageStruct) ==
  [i \in 1 .. CalcTotalPeimCount(PrivateData) |->
     IF i <= Len(mImageStruct)
     THEN [Signature |-> "PCID", Length |-> sizeof.IMAGE, FileGuid |-> mImageStruct[i]]
     ELSE [Signature |-> "none", Length |-> 0, FileGuid |-> ZeroGuid]]

BuildImageDatabaseData(PrivateData, mImageStruct) ==
  [i \in 1 .. CalcTotalPeimCount(PrivateData) |->
     [Signature |-> "PCID", Length |-> sizeof.IMAGE,
      FileGuid |-> IF i <= Len(mImageStruct) THEN mImageStruct[i] ELSE ZeroGuid]]

BuildPpiData(PpiList, mImageStruct) ==
  [i \in 1 .. Len(PpiList) |->
     [Ppi |-> PpiList[i], ImageRef |-> AddressToImageRef(mImageStruct, PpiList[i])]]

(* Mutant: the lists are put one behind the other in another order.         *)
PpiStructures_Order(PrivateData, mImageStruct) ==
  FlattenSeq([k \in 1 .. Len(Lists) |->
                BuildPpiData(PrivateData.PpiData[Reverse(Lists)[k]], mImageStruct)])

PpiStructures(PrivateData, mImageStruct) ==
  FlattenSeq([k \in 1 .. Len(Lists) |->
                BuildPpiData(PrivateData.PpiData[Lists[k]], mImageStruct)])

ImageDatabaseSize(PrivateData) == CalcTotalPeimCount(PrivateData) * sizeof.IMAGE
PpiDatabaseSize(PrivateData) ==
  sizeof.PPI_DATABASE + CalcTotalPpiDataCount(PrivateData) * sizeof.PPI
DatabaseSize(PrivateData) ==
  ImageDatabaseSize(PrivateData) + PpiDatabaseSize(PrivateData) + sizeof.MEMORY_INFO

BuildPpiDatabaseData(PrivateData, mImageStruct) ==
  [Signature |-> "PCPD", Length |-> PpiDatabaseSize(PrivateData),
   Count |-> [l \in ToSet(Lists) |-> Len(PrivateData.PpiData[l])],
   PpiStructure |-> PpiStructures(PrivateData, mImageStruct)]

BuildMemoryInfoData == [Signature |-> "PCMI", Length |-> sizeof.MEMORY_INFO]

(* Mutant: the header of the HOB is not counted.                            *)
HobLength_Data(PrivateData) == DatabaseSize(PrivateData) % HobLengths

HobLength(PrivateData) ==
  (sizeof.EFI_HOB_GUID_TYPE + DatabaseSize(PrivateData)) % HobLengths

(* The PEI core rounds lengths up to 8; what it returns has room for this   *)
(* much data.                                                               *)
DataSize(length) == ((length + 7) \div 8) * 8 - sizeof.EFI_HOB_GUID_TYPE

BuildPeiCoreDatabase(PrivateData, mImageStruct) ==
  LET ppis == ImageDatabaseSize(PrivateData)
      memory == ppis + PpiDatabaseSize(PrivateData)
      images == BuildImageDatabaseData(PrivateData, mImageStruct)
      at(o) == CASE o < ppis -> images[o \div sizeof.IMAGE + 1]
                 [] o = ppis -> BuildPpiDatabaseData(PrivateData, mImageStruct)
                 [] OTHER -> BuildMemoryInfoData
  IN [size |-> DataSize(HobLength(PrivateData)),
      data |-> [o \in {(i - 1) * sizeof.IMAGE : i \in 1 .. CalcTotalPeimCount(PrivateData)}
                        \cup {ppis, memory} |-> at(o)]]

(* Neither the images nor the HOB need to find memory.  Data behind the end *)
(* of the HOB overwrites what is there.                                     *)
PeiCoreDumpEndOfPeiCallback ==
  /\ pc = "callbacks" /\ next <= last
  /\ PpiData["CallbackNotifyList"][next] = mNotifyList
  /\ \E memory \in BOOLEAN :
       /\ allocated' = memory
       /\ hob' \in {NULL, BuildPeiCoreDatabase(Instance, DumpImageData(Instance, memory))}
  /\ atDump' = Instance
  /\ pc' = IF hob' # NULL /\ hob'.size < DatabaseSize(Instance) THEN "overrun" ELSE pc
  /\ next' = next + 1
  /\ UNCHANGED <<pei, last, app>>

Boot ==
  /\ pc = "callbacks" /\ next > last
  /\ pc' = "shell"
  /\ UNCHANGED <<pei, dump, next, last, app>>

(***************************************************************************)
(* The application                                                         *)
(***************************************************************************)

Passes == <<"images", "ppis", "memory">>

(* It knows no images, whatever a reference says.                           *)
mImageStructCountMax == 0
GetImageRefName(ref) == IF ref \in 0 .. mImageStructCountMax - 1 THEN ref ELSE "???"

(* The last structure may be followed by padding; the word read as Length   *)
(* is then the start of the next HOB, which is not zero.                    *)
HeaderOfNextHob == 65535
StructureAt(o) ==
  IF o \in DOMAIN hob.data THEN hob.data[o]
  ELSE [Signature |-> "none", Length |-> HeaderOfNextHob]

PeiCoreDumpAppEntrypoint ==
  /\ pc = "shell"
  /\ pc' = IF hob = NULL THEN "done" ELSE "walk"
  /\ UNCHANGED <<pei, dump, next, last, app>>

DumpPeiLoadedImage(structure) ==
  IF structure.Signature = "PCID" /\ structure.FileGuid # ZeroGuid
  THEN [printed EXCEPT !.images = Append(@, structure.FileGuid)] ELSE printed

Before(structure, k) ==
  Total([j \in 1 .. k - 1 |-> structure.Count[Lists[j]]])

DumpPpiPtrsOnPpiDatabaseStruct(structure, k) ==
  {[list |-> Lists[k], index |-> i - 1,
    ppi |-> structure.PpiStructure[Before(structure, k) + i].Ppi,
    name |-> GetImageRefName(structure.PpiStructure[Before(structure, k) + i].ImageRef)] :
     i \in 1 .. structure.Count[Lists[k]]}

DumpPpiOnPpiDatabaseStruct(structure) ==
  [printed EXCEPT !.ppis =
     UNION {DumpPpiPtrsOnPpiDatabaseStruct(structure, k) : k \in DOMAIN Lists}]

(* The passes for PPIs and memory end with the first structure of theirs.   *)
Found(structure) ==
  \/ Passes[pass] = "ppis" /\ structure.Signature = "PCPD"
  \/ Passes[pass] = "memory" /\ structure.Signature = "PCMI"

Walk ==
  /\ pc = "walk" /\ offset < hob.size
  /\ LET structure == StructureAt(offset) IN
       /\ printed' = CASE Passes[pass] = "images" -> DumpPeiLoadedImage(structure)
                       [] Passes[pass] = "ppis" /\ Found(structure) ->
                            DumpPpiOnPpiDatabaseStruct(structure)
                       [] Passes[pass] = "memory" /\ Found(structure) ->
                            [printed EXCEPT !.memory = @ + 1]
                       [] OTHER -> printed
       /\ offset' = IF Found(structure) THEN hob.size ELSE offset + structure.Length
  /\ UNCHANGED <<pei, dump, next, last, pc, pass>>

NextPass ==
  /\ pc = "walk" /\ offset >= hob.size
  /\ IF pass < Len(Passes) THEN pass' = pass + 1 /\ offset' = 0 /\ UNCHANGED pc
     ELSE pc' = "done" /\ UNCHANGED <<pass, offset>>
  /\ UNCHANGED <<pei, dump, next, last, printed>>

Next ==
  \/ FindFv \/ Peim \/ PeiCoreDumpEntrypoint \/ EndOfPeiSignal \/ OtherCallback
  \/ PeiCoreDumpEndOfPeiCallback \/ Boot
  \/ PeiCoreDumpAppEntrypoint \/ Walk \/ NextPass

(* The application is one thread that waits for nothing.                    *)
Spec == Init /\ [][Next]_vars /\ WF_vars(Walk \/ NextPass)

(***************************************************************************)
(* Properties                                                              *)
(***************************************************************************)

Printed(l, i, e) == [list |-> l, index |-> i - 1, ppi |-> e, name |-> "???"]

Images == DumpImageData(atDump, allocated)
Ppis ==
  UNION {{Printed(l, i, atDump.PpiData[l][i]) : i \in 1 .. Len(atDump.PpiData[l])} :
           l \in ToSet(Lists)}

(* The application prints what the core held when the callback ran: the     *)
(* images in the order of their volumes, or none where there was no memory  *)
(* for them, each PPI and notification at its place in its own list, and    *)
(* the memory once.                                                         *)
DumpIsCore ==
  pc = "done" /\ hob # NULL => printed = [images |-> Images, ppis |-> Ppis, memory |-> 1]

(* The HOB has room for all that is written, unless its length with the     *)
(* header needs more bits than the core has for it (BuildPeiCoreDatabase,   *)
(* the cast to UINT16).                                                     *)
HobHoldsAll ==
  pc = "overrun" => sizeof.EFI_HOB_GUID_TYPE + DatabaseSize(atDump) >= HobLengths

(* The walks of the application end: no structure has the Length 0.         *)
WalkEnds == pc = "walk" ~> pc = "done"

(***************************************************************************)
(* The inductive invariant behind the first two.  The HOB stays what was   *)
(* built from the core's instance at that moment; in each pass the cursor  *)
(* stands on a structure, or behind the last one, and what is printed is   *)
(* told by where it stands.                                                *)
(***************************************************************************)

PpiEntries == Entries \cup {mNotifyList, EndOfPei}
Instances == [Fv : Seq(Volumes), PpiData : [ToSet(Lists) -> Seq(PpiEntries)]]

TypeOK ==
  /\ Instance \in Instances
  /\ allocated \in BOOLEAN
  /\ pc \in {"pei", "callbacks", "overrun", "shell", "walk", "done"}
  /\ pass \in 1 .. Len(Passes)

HobIsBuilt ==
  /\ hob # NULL =>
       /\ atDump \in Instances
       /\ hob = BuildPeiCoreDatabase(atDump, Images)
  /\ pc = "overrun" => hob # NULL /\ hob.size < DatabaseSize(atDump)
  /\ pc # "overrun" /\ hob # NULL => hob.size >= DatabaseSize(atDump)

NothingYet ==
  pc \in {"pei", "callbacks", "shell"} =>
    pass = 1 /\ offset = 0 /\ printed = [images |-> <<>>, ppis |-> {}, memory |-> 0]

(* Where the structures of images begin, and behind them that of the PPIs.  *)
Place(i) == i * sizeof.IMAGE
HeaderPlaces == {Place(i) : i \in 0 .. CalcTotalPeimCount(atDump)}

MemoryPlace == ImageDatabaseSize(atDump) + PpiDatabaseSize(atDump)

(* The images that a walk has printed when it comes to Place(i).            *)
ImagesBefore(i) == SubSeq(Images, 1, IF i <= Len(Images) THEN i ELSE Len(Images))

Report(images, ppis, memory) == [images |-> images, ppis |-> ppis, memory |-> memory]

ImagesSoFar ==
  \/ \E i \in 0 .. CalcTotalPeimCount(atDump) :
       offset = Place(i) /\ printed = Report(ImagesBefore(i), {}, 0)
  \/ /\ offset \in {MemoryPlace, DatabaseSize(atDump), DatabaseSize(atDump) + HeaderOfNextHob}
     /\ printed = Report(Images, {}, 0)

PpisSoFar ==
  \/ offset \in HeaderPlaces /\ printed = Report(Images, {}, 0)
  \/ offset = hob.size /\ printed = Report(Images, Ppis, 0)

MemorySoFar ==
  \/ offset \in HeaderPlaces \cup {MemoryPlace} /\ printed = Report(Images, Ppis, 0)
  \/ offset = hob.size /\ printed = Report(Images, Ppis, 1)

WalkSoFar ==
  pc = "walk" =>
    /\ hob # NULL
    /\ Passes[pass] = "images" => ImagesSoFar
    /\ Passes[pass] = "ppis" => PpisSoFar
    /\ Passes[pass] = "memory" => MemorySoFar

IInv == TypeOK /\ HobIsBuilt /\ NothingYet /\ WalkSoFar /\ DumpIsCore
=============================================================================
