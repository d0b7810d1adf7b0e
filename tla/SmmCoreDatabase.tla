--------------------------- MODULE SmmCoreDatabase ---------------------------
(***************************************************************************)
(* The layout of the SMM core database: the size pass and the data pass of *)
(* SmmCoreDumpHandler.c, which write it, and the seven walks of            *)
(* SmmCoreDumpApp.c and SmmChildDumpLibApp.c, which read it.               *)
(*                                                                         *)
(* The writer computes the size from the lists of the SMM core, allocates  *)
(* once, and fills the allocation from the same lists.  The reader has no  *)
(* count of records: it steps from the start by Header.Length until it is  *)
(* at or past the end, and looks at the signatures.                        *)
(*                                                                         *)
(* A memory is a function from the offsets at which a structure was        *)
(* written to that structure; lists are sequences.  SmmCoreDumpApp moves   *)
(* the database unchanged, so writer and reader share one memory here.     *)
(***************************************************************************)
EXTENDS Integers, SequencesExt, Sublists

CONSTANTS
  SmmLists,     \* what the lists of the SMM core can hold when they are dumped
  OwnProtocol   \* gEfiCallerIdGuid, the protocol of the driver itself

VARIABLES
  lists,     \* the lists of the SMM core and of the child dispatcher
  sizes,     \* the sizes that the size pass found, section by section
  mem,       \* mSmmCoreDatabase
  stage,
  pass,      \* which walk of the application is under way
  ptr,       \* where it stands
  structCountMax,  \* mImageStructCountMax of the application
  images,    \* mImageStruct of the application, the names only
  printed    \* what the application has printed

layoutVars == <<lists, sizes, mem, stage, pass, ptr, structCountMax, images, printed>>

Unknown == "Unknown"   \* UNKNOWN_NAME
Root == "Root"         \* the HandlerType of the structure with IsRootHandler

SmmImage == [Name : STRING, ImageBase : Nat, ImageSize : Nat]
(* An interface, in the lists of its handle and of its protocol; via is the *)
(* function it points to, where it is data of a well-known protocol.        *)
SmmInterface == [Handle : STRING, ProtocolID : STRING, Interface : Nat, via : Nat]

(* Images lie side by side in memory.  The entry of the driver's own         *)
(* protocol, which it made last of all, has no entry behind it.             *)
ASSUME SmmListsAssumption ==
  \A L \in SmmLists :
    /\ L \in [ images   : Seq(SmmImage),
               handles  : Seq([Handle : STRING, Protocols : Seq(SmmInterface)]),
               entries  : Seq([ ProtocolID : STRING, Protocols : Seq(SmmInterface),
                                Notify : Seq(Nat) ]),
               smis     : Seq([HandlerType : STRING \ {Root}, SmiHandlers : Seq(Nat)]),
               roots    : Seq(Nat),
               childLib : {"Null", "Nt32"},
               children : Seq(Nat) ]
    /\ \A i, j \in 1 .. Len(L.images) :
         i < j => \/ L.images[i].ImageBase + L.images[i].ImageSize <= L.images[j].ImageBase
                  \/ L.images[j].ImageBase + L.images[j].ImageSize <= L.images[i].ImageBase
    /\ \A i \in 1 .. Len(L.entries) - 1 : L.entries[i].ProtocolID # OwnProtocol
-----------------------------------------------------------------------------
(* The packed structures of SmmCoreDumpComm.h and SmmChildDumpComm.h (X64). *)
SizeOf(signature) ==
  CASE signature = "SCID" -> 132
    [] signature = "SCHD" -> 28
    [] signature = "SCPD" -> 44
    [] signature = "SCSD" -> 40
    [] signature = "CDSD" -> 36
SizeOfHandleProtocol == 32
SizeOfInterface == 16
SizeOfNotify == 16
SizeOfSmiHandler == 24
SizeOfSwSmiHandler == 32

SumOf(sizeOf(_), seq) == Total([i \in DOMAIN seq |-> sizeOf(seq[i])])

(* The protocol entries up to the driver's own, which UninstallProtocol     *)
(* leaves behind empty: both passes stop there.                             *)
EntriesDumped(L) ==
  LET own == SelectInSeq(L.entries, LAMBDA e : e.ProtocolID = OwnProtocol)
  IN  IF own = 0 THEN L.entries ELSE SubSeq(L.entries, 1, own - 1)
-----------------------------------------------------------------------------
(* The size pass.                                                           *)
GetSmmImageDatabaseSize(L) == SizeOf("SCID") * Len(L.images)

GetSmmHandlerDatabaseSize(L) ==
  SumOf(LAMBDA h : SizeOf("SCHD") + SizeOfHandleProtocol * Len(h.Protocols), L.handles)

GetSmmProtocolDatabaseSize(L) ==
  SumOf(LAMBDA e : SizeOf("SCPD") + SizeOfInterface * Len(e.Protocols)
                                  + SizeOfNotify * Len(e.Notify), EntriesDumped(L))

GetSmmSmiDatabaseSize(L) ==
  SumOf(LAMBDA s : SizeOf("SCSD") + SizeOfSmiHandler * Len(s.SmiHandlers), L.smis)

GetSmmRootSmiDatabaseSize(L) == SizeOf("SCSD") + SizeOfSmiHandler * Len(L.roots)

(* The Null library has nothing; the Nt32 library counts every record of    *)
(* the child dispatcher as one of a software SMI.                           *)
SmmChildGetDataSize(L) ==
  IF L.childLib = "Null" THEN 0
  ELSE SizeOf("CDSD") + SizeOfSwSmiHandler * Len(L.children)

Sections == <<"Image", "Handler", "Protocol", "Smi", "RootSmi", "Child">>

GetSmmCoreDatabaseSize(L) ==
  [ Image    |-> GetSmmImageDatabaseSize(L),
    Handler  |-> GetSmmHandlerDatabaseSize(L),
    Protocol |-> GetSmmProtocolDatabaseSize(L),
    Smi      |-> GetSmmSmiDatabaseSize(L),
    RootSmi  |-> GetSmmRootSmiDatabaseSize(L),
    Child    |-> SmmChildGetDataSize(L) ]

DatabaseSize(s) == s.Image + s.Handler + s.Protocol + s.Smi + s.RootSmi + s.Child
-----------------------------------------------------------------------------
(* Which image an address belongs to: the first that contains it, counted   *)
(* from 0, or -1.  For the interface of a well-known protocol that is data  *)
(* the driver looks at the function it points to (via).                     *)
AddressToImageRef(L, address) ==
  SelectInSeq(L.images, LAMBDA i : address >= i.ImageBase
                                   /\ address < i.ImageBase + i.ImageSize) - 1

AddressToImageRefEx(L, p) ==
  IF AddressToImageRef(L, p.Interface) # -1 \/ p.via = 0
  THEN AddressToImageRef(L, p.Interface) ELSE AddressToImageRef(L, p.via)
-----------------------------------------------------------------------------
(* The data pass.  A section is written into the memory m from offset base; *)
(* it is good when it comes out at the size expected of it.  The extent of  *)
(* a structure is what it takes without what follows it.                    *)
Section(m, base) == [mem |-> m, base |-> base, Size |-> 0, ok |-> TRUE]

Write(cells, m) ==
  [a \in DOMAIN cells \cup DOMAIN m |-> IF a \in DOMAIN cells THEN cells[a] ELSE m[a]]
WriteAt(at, cell, m) == Write([a \in {at} |-> cell], m)

(* The two guards before every structure.                                   *)
Fits(n, Size, max) == Size < max /\ n <= max - Size

(* The structures of one list behind each other, from offset at: they are   *)
(* written as long as they fit, and counted only when all of them do.       *)
Array(at, width, items, max) ==
  LET written == {i \in DOMAIN items : Fits(width, width * (i - 1), max)}
  IN  [ count |-> IF written = DOMAIN items THEN Len(items) ELSE 0,
        mem   |-> [a \in {at + width * (i - 1) : i \in written} |->
                     items[1 + (a - at) \div width]] ]

(* A record: a header, and behind it up to two arrays; Header.Length and    *)
(* the counts are those of what was written.                                *)
(* Mutant: the second array is put where the first begins.                  *)
Record_Overlay(section, expected, signature, width, r) ==
  LET at    == section.base + section.Size
      head  == SizeOf(signature)
      room  == expected - section.Size - head
      one   == Array(at + head, width, r.first, room)
      len1  == width * one.count
      two   == Array(at + head, width, r.second, room - len1)
      len   == head + len1 + width * two.count
      cell  == [Signature |-> signature, Length |-> len, Id |-> r.Id,
                Counts |-> <<one.count, two.count>>, extent |-> head]
  IN  IF section.ok /\ Fits(head, section.Size, expected)
      THEN [section EXCEPT !.Size = @ + len,
                           !.mem = Write(two.mem, Write(one.mem, WriteAt(at, cell, @)))]
      ELSE [section EXCEPT !.ok = FALSE]

Record(section, expected, signature, width, r) ==
  LET at    == section.base + section.Size
      head  == SizeOf(signature)
      room  == expected - section.Size - head
      one   == Array(at + head, width, r.first, room)
      len1  == width * one.count
      two   == Array(at + head + len1, width, r.second, room - len1)
      len   == head + len1 + width * two.count
      cell  == [Signature |-> signature, Length |-> len, Id |-> r.Id,
                Counts |-> <<one.count, two.count>>, extent |-> head]
  IN  IF section.ok /\ Fits(head, section.Size, expected)
      THEN [section EXCEPT !.Size = @ + len,
                           !.mem = Write(two.mem, Write(one.mem, WriteAt(at, cell, @)))]
      ELSE [section EXCEPT !.ok = FALSE]

(* The records of a list one after the other; the comprehension has TLC     *)
(* compute each section once.                                               *)
Records(section, expected, signature, width, list) ==
  LET after[n \in 0 .. Len(list)] ==
        IF n = 0 THEN section
        ELSE CHOOSE s \in {Record(before, expected, signature, width, list[n]) :
                             before \in {after[n - 1]}} : TRUE
  IN  after[Len(list)]

(* What stands in an array: an interface with its protocol or without, and  *)
(* a function, of a notification or of a handler of SMIs.                   *)
HandleProtocols(L, h) ==
  [i \in DOMAIN h.Protocols |->
     [ Guid |-> h.Protocols[i].ProtocolID, Value |-> h.Protocols[i].Interface,
       ImageRef |-> AddressToImageRefEx(L, h.Protocols[i]), extent |-> SizeOfHandleProtocol ]]
Interfaces(L, e) ==
  [i \in DOMAIN e.Protocols |->
     [ Value |-> e.Protocols[i].Interface,
       ImageRef |-> AddressToImageRefEx(L, e.Protocols[i]), extent |-> SizeOfInterface ]]
Functions(L, addresses, width) ==
  [i \in DOMAIN addresses |->
     [ Value |-> addresses[i], ImageRef |-> AddressToImageRef(L, addresses[i]),
       extent |-> width ]]

ImageCells(L) ==
  [i \in DOMAIN L.images |->
     [ Signature |-> "SCID", Length |-> SizeOf("SCID"), Id |-> L.images[i].Name,
       extent |-> SizeOf("SCID") ]]
HandleRecords(L) ==
  [n \in DOMAIN L.handles |->
     [ Id |-> L.handles[n].Handle, first |-> HandleProtocols(L, L.handles[n]), second |-> <<>> ]]
ProtocolRecords(L) ==
  [n \in DOMAIN EntriesDumped(L) |->
     LET e == EntriesDumped(L)[n]
     IN  [ Id |-> e.ProtocolID, first |-> Interfaces(L, e),
           second |-> Functions(L, e.Notify, SizeOfNotify) ]]
SmiRecords(L) ==
  [n \in DOMAIN L.smis |->
     [ Id |-> L.smis[n].HandlerType, second |-> <<>>,
       first |-> Functions(L, L.smis[n].SmiHandlers, SizeOfSmiHandler) ]]

(* The images one behind the other; there must be as many of them as the    *)
(* expected size was computed from.                                         *)
GetSmmImageDatabaseData(L, section, expected) ==
  LET width == SizeOf("SCID")
  IN  IF expected \div width # Len(L.images) THEN section
      ELSE [section EXCEPT !.Size = width * Len(L.images),
                           !.mem = Write(Array(section.base, width, ImageCells(L), expected).mem, @)]

GetSmmHandlerDatabaseData(L, section, expected) ==
  Records(section, expected, "SCHD", SizeOfHandleProtocol, HandleRecords(L))

GetSmmProtocolDatabaseData(L, section, expected) ==
  Records(section, expected, "SCPD", SizeOfInterface, ProtocolRecords(L))

GetSmmSmiDatabaseData(L, section, expected) ==
  Records(section, expected, "SCSD", SizeOfSmiHandler, SmiRecords(L))

RootSmiCell(n, length) ==
  [ Signature |-> "SCSD", Length |-> length, Id |-> Root, Counts |-> <<n, 0>>,
    extent |-> SizeOf("SCSD") ]

(* The root handlers share one structure, which is there even without any.  *)
(* Its header is written before the first guard.                            *)
GetSmmRootSmiDatabaseData(L, section, expected) ==
  LET head     == SizeOf("SCSD")
      handlers == Array(section.base + head, SizeOfSmiHandler, Functions(L, L.roots, SizeOfSmiHandler),
                        expected - head)
      length   == head + SizeOfSmiHandler * handlers.count
      cell     == RootSmiCell(handlers.count, length)
  IN  [section EXCEPT !.Size = length, !.ok = handlers.count = Len(L.roots),
                      !.mem = Write(handlers.mem, WriteAt(section.base, cell, @))]

ChildCell(n, length) ==
  [ Signature |-> "CDSD", Length |-> length, Id |-> "SwDispatch2",
    Counts |-> <<n, 0>>, extent |-> SizeOf("CDSD") ]

(* Mutant: Header.Length is that of the header.                             *)
SmmChildGetData_HeaderLength(L, section, expected) ==
  LET head     == SizeOf("CDSD")
      handlers == Array(section.base + head, SizeOfSwSmiHandler, Functions(L, L.children, SizeOfSwSmiHandler),
                        expected - head)
      length   == head + SizeOfSwSmiHandler * handlers.count
      cell     == ChildCell(handlers.count, head)
  IN  IF expected < head THEN [section EXCEPT !.ok = FALSE]
      ELSE [section EXCEPT !.Size = length, !.ok = handlers.count = Len(L.children),
                           !.mem = Write(handlers.mem, WriteAt(section.base, cell, @))]

(* GetSmmChildCallbackDatabaseData for the software SMIs, the only type the *)
(* Nt32 library has.                                                        *)
SmmChildGetData(L, section, expected) ==
  LET head     == SizeOf("CDSD")
      handlers == Array(section.base + head, SizeOfSwSmiHandler, Functions(L, L.children, SizeOfSwSmiHandler),
                        expected - head)
      length   == head + SizeOfSwSmiHandler * handlers.count
      cell     == ChildCell(handlers.count, length)
  IN  IF expected < head THEN [section EXCEPT !.ok = FALSE]
      ELSE [section EXCEPT !.Size = length, !.ok = handlers.count = Len(L.children),
                           !.mem = Write(handlers.mem, WriteAt(section.base, cell, @))]

SectionData(name, L, section, expected) ==
  CASE name = "Image"    -> GetSmmImageDatabaseData(L, section, expected)
    [] name = "Handler"  -> GetSmmHandlerDatabaseData(L, section, expected)
    [] name = "Protocol" -> GetSmmProtocolDatabaseData(L, section, expected)
    [] name = "Smi"      -> GetSmmSmiDatabaseData(L, section, expected)
    [] name = "RootSmi"  -> GetSmmRootSmiDatabaseData(L, section, expected)
    [] name = "Child"    -> IF expected = 0 THEN section
                            ELSE SmmChildGetData(L, section, expected)

-----------------------------------------------------------------------------
(* The reader.  Garbage stands for memory in which nothing begins that has  *)
(* the field looked at.                                                     *)
Garbage == [ Signature |-> "Garbage", Length |-> 0, Guid |-> "Garbage", Value |-> 1,
             ImageRef |-> -1 ]

Memory(a, field) ==
  IF a \in DOMAIN mem THEN IF field \in DOMAIN mem[a] THEN mem[a] ELSE Garbage ELSE Garbage

Header == Memory(ptr, "Signature")

(* Mutant: the index of the last image is taken for no image.               *)
GetImageRefName_OffByOne(ref) ==
  IF ref < 0 \/ ref + 1 >= structCountMax THEN Unknown ELSE images[ref + 1]

(* An ImageRef of -1 is the largest UINTN.                                  *)
GetImageRefName(ref) == IF ref < 0 \/ ref >= structCountMax THEN Unknown ELSE images[ref + 1]

Name(item) == IF item.Value = 0 THEN Unknown ELSE GetImageRefName(item.ImageRef)

(* The items of an array: each is printed with the name of its image.       *)
Items(at, width, n) ==
  [i \in 1 .. n |->
     LET item == Memory(at + width * (i - 1), "Value") IN <<item.Value, Name(item)>>]

ProtocolItems(at, n) ==
  [i \in 1 .. n |->
     LET item == Memory(at + SizeOfHandleProtocol * (i - 1), "Guid")
     IN  <<item.Guid, item.Value, Name(item)>>]

Walking(p) == stage = "Walk" /\ pass = p /\ ptr < DatabaseSize(sizes)

(* A step of a walk that prints line when the structure is one of its own.  *)
Walk(p, mine, line) ==
  /\ Walking(p)
  /\ printed' = IF mine THEN Append(printed, line) ELSE printed
  /\ ptr' = ptr + Header.Length
  /\ UNCHANGED <<lists, sizes, mem, stage, pass, structCountMax, images>>
-----------------------------------------------------------------------------
LayoutInit ==
  /\ lists \in SmmLists
  /\ sizes = [name \in Range(Sections) |-> 0]
  /\ mem = <<>>
  /\ stage = "Build"
  /\ pass = "Count" /\ ptr = 0 /\ structCountMax = 0
  /\ images = <<>> /\ printed = <<>>

(* BuildSmmCoreDatabase: without memory there is no database.               *)
AllocateDatabase ==
  /\ stage = "Build"
  /\ sizes' = GetSmmCoreDatabaseSize(lists)
  /\ stage' \in {"Data", "OutOfResources"}
  /\ pass' = Sections[1]
  /\ UNCHANGED <<lists, mem, ptr, structCountMax, images, printed>>

After(name, names) == names[SelectInSeq(names, LAMBDA n : n = name) + 1]

(* GetSmmCoreDatabaseData: the sections one behind the other.  The first    *)
(* that does not come out at the size the size pass found ends it, and the  *)
(* database is freed; what SmmChildGetData returns is not looked at.        *)
GetSmmCoreDatabaseData ==
  /\ stage = "Data"
  /\ LET this == SectionData(pass, lists, Section(mem, ptr), sizes[pass])
     IN  /\ mem' = this.mem
         /\ IF pass = "Child"
            THEN stage' = "Walk" /\ pass' = "Count" /\ ptr' = 0
            ELSE IF this.ok /\ this.Size = sizes[pass]
            THEN pass' = After(pass, Sections) /\ ptr' = ptr + sizes[pass] /\ UNCHANGED stage
            ELSE stage' = "Mismatch" /\ UNCHANGED <<pass, ptr>>
  /\ UNCHANGED <<lists, sizes, structCountMax, images, printed>>

(* DumpSmmLoadedImage: the images are counted, room for them is allocated,  *)
(* or not, and they are printed and remembered.                             *)
CountImages ==
  /\ Walking("Count")
  /\ structCountMax' = structCountMax + (IF Header.Signature = "SCID" THEN 1 ELSE 0)
  /\ ptr' = ptr + Header.Length
  /\ UNCHANGED <<lists, sizes, mem, stage, pass, images, printed>>

AllocateImageStruct ==
  /\ stage = "Walk" /\ pass = "Count" /\ ptr >= DatabaseSize(sizes)
  /\ ptr' = 0
  /\ \/ pass' = "Image" /\ UNCHANGED structCountMax
     \/ pass' = "Handle" /\ structCountMax' = 0
  /\ UNCHANGED <<lists, sizes, mem, stage, images, printed>>

(* AddImageStruct asserts when there are more images than were counted.     *)
DumpSmmLoadedImage ==
  /\ Walking("Image")
  /\ LET mine == Header.Signature = "SCID"
     IN  /\ printed' = IF mine THEN Append(printed, [line |-> "Image", Id |-> Header.Id])
                       ELSE printed
         /\ images' = IF mine /\ Len(images) < structCountMax THEN Append(images, Header.Id)
                      ELSE images
         /\ stage' = IF mine /\ Len(images) >= structCountMax THEN "ASSERT" ELSE stage
  /\ ptr' = ptr + Header.Length
  /\ UNCHANGED <<lists, sizes, mem, pass, structCountMax>>

DumpHandleDatabase ==
  Walk("Handle", Header.Signature = "SCHD",
       [ line |-> "Handle", Id |-> Header.Id,
         Items |-> ProtocolItems(ptr + SizeOf("SCHD"), Header.Counts[1]) ])

DumpProtocolDatabase ==
  LET interfaces == ptr + SizeOf("SCPD")
  IN  Walk("Protocol", Header.Signature = "SCPD",
           [ line |-> "Protocol", Id |-> Header.Id,
             Items |-> Items(interfaces, SizeOfInterface, Header.Counts[1]),
             Notify |-> Items(interfaces + Header.Counts[1] * SizeOfInterface,
                              SizeOfNotify, Header.Counts[2]) ])

DumpSmiHandler ==
  Walk("Smi", Header.Signature = "SCSD" /\ Header.Id # Root,
       [ line |-> "Smi", Id |-> Header.Id,
         Items |-> Items(ptr + SizeOf("SCSD"), SizeOfSmiHandler, Header.Counts[1]) ])

DumpRootSmiHandler ==
  Walk("RootSmi", Header.Signature = "SCSD" /\ Header.Id = Root,
       [ line |-> "RootSmi", Id |-> Root,
         Items |-> Items(ptr + SizeOf("SCSD"), SizeOfSmiHandler, Header.Counts[1]) ])

DumpSmmChildHandler ==
  Walk("Child", Header.Signature = "CDSD",
       [ line |-> "Child", Id |-> Header.Id,
         Items |-> Items(ptr + SizeOf("CDSD"), SizeOfSwSmiHandler, Header.Counts[1]) ])

(* SmmCoreDumpAppEntrypoint: one walk after the other.                      *)
Passes == <<"Image", "Handle", "Protocol", "Smi", "RootSmi", "Child">>

NextPass ==
  /\ stage = "Walk" /\ pass \in Range(Passes) /\ ptr >= DatabaseSize(sizes)
  /\ IF pass = "Child" THEN stage' = "Done" /\ UNCHANGED <<pass, ptr>>
     ELSE /\ pass' = After(pass, Passes)
          /\ ptr' = 0
          /\ UNCHANGED stage
  /\ UNCHANGED <<lists, sizes, mem, structCountMax, images, printed>>

App ==
  \/ CountImages \/ AllocateImageStruct \/ DumpSmmLoadedImage
  \/ DumpHandleDatabase \/ DumpProtocolDatabase
  \/ DumpSmiHandler \/ DumpRootSmiHandler \/ DumpSmmChildHandler
  \/ NextPass

LayoutNext == AllocateDatabase \/ GetSmmCoreDatabaseData \/ App

(* One CPU runs the driver, and then the application, until each returns.   *)
LayoutSpec == LayoutInit /\ [][LayoutNext]_layoutVars /\ WF_layoutVars(LayoutNext)
-----------------------------------------------------------------------------
(* What GetSmmCoreDatabaseData checks after every section can not fail: the *)
(* data pass writes the sizes that the size pass found, whatever the lists. *)
(* The structures lie inside the allocation, whether or not the data pass   *)
(* succeeds, and none on another; when it succeeds they leave no byte of    *)
(* the allocation unwritten, so that the application is shown nothing else. *)
Tiled ==
  LET end(a)  == a + mem[a].extent
      total   == DatabaseSize(sizes)
  IN  /\ stage # "Mismatch"
      /\ \A a \in DOMAIN mem : end(a) <= total
      /\ \A a, b \in DOMAIN mem : a < b => end(a) <= b
      /\ stage \in {"Walk", "Done"} =>
           /\ 0 \in DOMAIN mem \cup {total}
           /\ \A a \in DOMAIN mem : end(a) \in DOMAIN mem \cup {total}

(* Each of the walks stands on a header until it stands exactly at the end: *)
(* stepping by Header.Length never takes an item for a header, and never    *)
(* reads behind the database.                                               *)
WalkAligned ==
  stage \in {"Walk", "Done"} =>
    \/ ptr = DatabaseSize(sizes)
    \/ ptr \in DOMAIN mem /\ "Signature" \in DOMAIN mem[ptr]

(* What the application is to print, taken from the lists of the SMM core:  *)
(* the name of the image that contains an address, where there is one.      *)
Containing(L, address) ==
  {i \in ToSet(L.images) : address \in i.ImageBase .. i.ImageBase + i.ImageSize - 1}

NameOf(L, named, address) ==
  IF named /\ address # 0 /\ Containing(L, address) # {}
  THEN (CHOOSE i \in Containing(L, address) : TRUE).Name ELSE Unknown

InterfaceName(L, named, p) ==
  IF p.Interface # 0 /\ Containing(L, p.Interface) = {}
  THEN NameOf(L, named, p.via) ELSE NameOf(L, named, p.Interface)

Expected(L, named) ==
  LET Map(line(_), seq) == [i \in DOMAIN seq |-> line(seq[i])]
      Handlers(seq)     == Map(LAMBDA a : <<a, NameOf(L, named, a)>>, seq)
      Others == Where(L.entries, {e \in ToSet(L.entries) : e.ProtocolID # OwnProtocol})
  IN  (IF named THEN Map(LAMBDA i : [line |-> "Image", Id |-> i.Name], L.images) ELSE <<>>)
      \o Map(LAMBDA h : [ line |-> "Handle", Id |-> h.Handle,
                          Items |-> Map(LAMBDA p : <<p.ProtocolID, p.Interface,
                                                     InterfaceName(L, named, p)>>,
                                        h.Protocols) ], L.handles)
      \o Map(LAMBDA e : [ line |-> "Protocol", Id |-> e.ProtocolID,
                          Items |-> Map(LAMBDA p : <<p.Interface,
                                                     InterfaceName(L, named, p)>>,
                                        e.Protocols),
                          Notify |-> Handlers(e.Notify) ], Others)
      \o Map(LAMBDA e : [ line |-> "Smi", Id |-> e.HandlerType,
                          Items |-> Handlers(e.SmiHandlers) ], L.smis)
      \o <<[line |-> "RootSmi", Id |-> Root, Items |-> Handlers(L.roots)]>>
      \o (IF L.childLib = "Null" THEN <<>>
          ELSE <<[line |-> "Child", Id |-> "SwDispatch2", Items |-> Handlers(L.children)]>>)

(* At the end every image, handle, protocol, notification and SMI handler   *)
(* of the lists has been printed once, in the order of the lists, and each  *)
(* address with the name of the image it is in: an index the driver took    *)
(* into its images means the same image of the application.                 *)
DumpComplete ==
  stage = "Done" => printed = Expected(lists, structCountMax = Len(lists.images))
=============================================================================
