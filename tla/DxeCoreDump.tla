----------------------------- MODULE DxeCoreDump -----------------------------
(***************************************************************************)
(* DxeCoreDump prints lists that the DXE core keeps to itself: it takes a  *)
(* node it owns (its image handle, a dummy event), follows the links to    *)
(* the one element without a signature, which must be the head, and walks  *)
(* the list from there, a Print at each node.  It runs at TPL_APPLICATION: *)
(* during a Print timer callbacks run, and drivers in them plug and unplug *)
(* devices, reinstall interfaces, create and close events and set, cancel  *)
(* and set again timers.                                                   *)
(*                                                                         *)
(* A list is the sequence of its nodes in the direction of the walk, its   *)
(* head is ListHead.  A node is memory: what leaves a list keeps the link  *)
(* it had, and what is freed may be a node again, in another place.        *)
(***************************************************************************)
EXTENDS Integers, SequencesExt, Sublists

CONSTANTS
  Handles, OwnHandle, CoreHandle,
  Devices,        \* handles that drivers plug and unplug
  Protocols, LoadedImage,
  Pooled,         \* protocols whose interfaces lie in pool, not in an image
  mProtocolFuncStruct,  \* protocols of which a function's place is known
  Events, Dummy,  \* what events are made of, and the own event
  Image,          \* the image handle behind each handle and event
  NameOf,         \* the name of each image, which others may share
  Plugged,        \* the interfaces there from the start, in their order
  Notified, Signals, Timers,   \* and the notifications and events
  ListHead, NULL,
  MaxCalls        \* bound on what callbacks do

ASSUME HandlesAssumption ==
  /\ {OwnHandle, CoreHandle} \subseteq Handles \ Devices /\ Devices \subseteq Handles
  /\ LoadedImage \in Protocols /\ Pooled \subseteq Protocols
  /\ mProtocolFuncStruct \subseteq Protocols
  /\ Image \in [Handles \cup Events -> Handles \ Devices]
  /\ DOMAIN NameOf = Handles \ Devices
  /\ OwnHandle # CoreHandle

(* a comes before b in s.                                                   *)
Precedes(s, a, b) == \E i, j \in DOMAIN s : i < j /\ s[i] = a /\ s[j] = b

NoneTwice(s) == \A n \in ToSet(s) : ~ Precedes(s, n, n)

(* The core and the application are loaded images when the dump begins; a   *)
(* node is linked once, and what is notified has an entry.                  *)
ASSUME ListsAssumption ==
  /\ Plugged \in Seq(Handles \X Protocols)
  /\ {<<OwnHandle, LoadedImage>>, <<CoreHandle, LoadedImage>>} \subseteq ToSet(Plugged)
  /\ Notified \in Seq(Protocols \X Events)
  /\ Signals \in Seq(Events) /\ Timers \in Seq(Events)
  /\ NoneTwice(Plugged) /\ NoneTwice(Notified) /\ NoneTwice(Signals) /\ NoneTwice(Timers)
  /\ \A n \in ToSet(Notified) : \E i \in ToSet(Plugged) : i[2] = n[1]

ListedNodes == Handles \cup Protocols \cup Events
                 \cup (Handles \X Protocols) \cup (Protocols \X Events)

(* Neither heads nor the dummy event are something else, and nodes of       *)
(* different kinds are different memory.                                    *)
ASSUME NodesAssumption ==
  /\ ListHead # NULL /\ Dummy \notin {ListHead, NULL} /\ {ListHead, Dummy, NULL} \cap ListedNodes = {}
  /\ Handles \cap Events = {} /\ (Handles \cup Events) \cap (Handles \X Protocols) = {}
  /\ Protocols \cap (Handles \cup Events \cup (Handles \X Protocols)) = {}
  /\ (Protocols \X Events) \cap (Handles \cup Protocols \cup Events) = {}
  /\ (Protocols \X Events) \cap (Handles \X Protocols) = {}

VARIABLES
  handles, protocols,   \* gHandleList, mProtocolDatabase
  ifaces,      \* <<handle, protocol>>, in the order they were installed
  byProtocol,  \* and in that of the lists of their protocols
  notifies,    \* <<protocol, event>>, in the order they were registered
  events,      \* the events of drivers
  signals,     \* gEventSignalQueue, newest first
  timers,      \* mEfiTimerList, earliest first
  freed,       \* nodes whose memory is free again
  left,        \* the link of nodes that have left a list
  calls,
  pc, phase,
  created,     \* DummyEvent exists
  heads,       \* the heads found
  mImageStruct,
  at, inner, sub,        \* the cursors: outer node, inner lists, inner node
  printed, again,        \* nodes printed in this walk, and more than once
  there,       \* nodes that have been in their place since the walk began
  carried,     \* the walk may have been carried off by a node put in again
  named,       \* the image names printed
  failed       \* an allocation or a creation has failed

core == <<handles, protocols, ifaces, byProtocol, notifies, events, signals, timers,
          freed, left, calls>>
report == <<printed, again, there, carried, named>>
cursor == <<at, inner, sub>>
vars == <<core, pc, phase, created, heads, mImageStruct, cursor, report, failed>>

Phases == {"handles", "protocols", "signals", "timers"}

(***************************************************************************)
(* The lists                                                               *)
(***************************************************************************)

(* Mutant: the event lists are walked by their ForwardLinks.                *)
ByBackLink_Forward(s) == s

ByBackLink(s) == Reverse(s)

(* An interface is put first on its handle and last on its protocol, where *)
(* it may be moved; the event lists are walked by their BackLinks.         *)
List(l) ==
  CASE l[1] = "handles" -> handles
    [] l[1] = "on" -> Reverse(Where(ifaces, {l[2]} \X Protocols))
    [] l[1] = "protocols" -> protocols
    [] l[1] = "by" -> Where(byProtocol, Handles \X {l[2]})
    [] l[1] = "notify" -> Where(notifies, {l[2]} \X Events)
    [] l[1] = "signals" -> ByBackLink(signals)
    [] l[1] = "timers" -> ByBackLink(timers)

After(s, n) ==
  LET i == IF n = ListHead THEN 0 ELSE CHOOSE j \in DOMAIN s : s[j] = n
  IN IF i = Len(s) THEN ListHead ELSE s[i + 1]

OnList(l, n) == n = ListHead \/ n \in ToSet(List(l))

NextOf(l, n) == IF OnList(l, n) THEN After(List(l), n) ELSE left[<<l, n>>]

(* The links that nodes keep when they are taken off a list: off is a set   *)
(* of lists with a node of each.                                            *)
Links(off) ==
  [k \in off \cup DOMAIN left |-> IF k \in off THEN After(List(k[1]), k[2]) ELSE left[k]]

(***************************************************************************)
(* Callbacks: what the core does on behalf of drivers                      *)
(***************************************************************************)

Walking == pc = "walk"

(* A cursor stands on a node that is in its list no longer.                 *)
Adrift == ~ OnList(<<phase>>, at) \/ (inner # <<>> /\ ~ OnList(Head(inner), sub))

Callback ==
  /\ Walking /\ calls < MaxCalls /\ calls' = calls + 1
  /\ UNCHANGED <<pc, phase, created, heads, mImageStruct, cursor, printed, again, named, failed>>

AppendNew(s, n) == IF n \in ToSet(s) THEN s ELSE Append(s, n)

(* Memory that was freed may be what a cursor adrift comes to next.         *)
Allocate(nodes) ==
  /\ freed' = freed \ nodes
  /\ carried' = (carried \/ (Adrift /\ nodes \cap freed # {}))

InstallProtocol ==
  /\ Callback
  /\ \E h \in Handles, p \in Protocols :
       /\ <<h, p>> \notin ToSet(ifaces)
       /\ h \in Devices \/ p = LoadedImage
       /\ handles' = AppendNew(handles, h)
       /\ protocols' = AppendNew(protocols, p)
       /\ ifaces' = Append(ifaces, <<h, p>>) /\ byProtocol' = Append(byProtocol, <<h, p>>)
       /\ Allocate({h, <<h, p>>})
  /\ UNCHANGED <<notifies, events, signals, timers, left, there>>

(* The interface goes last on its protocol and stays where it is on its     *)
(* handle; it lies in the same image as before.                             *)
ReinstallProtocol ==
  /\ Callback
  /\ \E i \in ToSet(ifaces) :
       /\ byProtocol' = Append(Remaining(byProtocol, {i}), i)
       /\ there' = (IF phase = "protocols" THEN there \ {i} ELSE there)
       /\ carried' = (carried \/ (phase = "protocols" /\ (sub = i \/ Adrift)))
  /\ UNCHANGED <<handles, protocols, ifaces, notifies, events, signals, timers, freed, left>>

(* The last interface takes its handle along.                               *)
UninstallProtocol ==
  /\ Callback
  /\ \E i \in ToSet(ifaces) :
       LET h == i[1]
           last == \A j \in ToSet(ifaces) : j[1] = h => j = i
           gone == IF last THEN {i, h} ELSE {i}
           off == {<<<<"on", h>>, i>>, <<<<"by", i[2]>>, i>>}
                    \cup (IF last THEN {<<<<"handles">>, h>>} ELSE {})
       IN /\ h \in Devices
          /\ ifaces' = Remaining(ifaces, {i}) /\ byProtocol' = Remaining(byProtocol, {i})
          /\ handles' = Remaining(handles, gone)
          /\ left' = Links(off)
          /\ freed' = freed \cup gone
          /\ there' = there \ gone
  /\ UNCHANGED <<protocols, notifies, events, signals, timers, carried>>

RegisterProtocolNotify ==
  /\ Callback
  /\ \E p \in Protocols, e \in events :
       /\ <<p, e>> \notin ToSet(notifies)
       /\ protocols' = AppendNew(protocols, p)
       /\ notifies' = Append(notifies, <<p, e>>)
       /\ Allocate({<<p, e>>})
  /\ UNCHANGED <<handles, ifaces, byProtocol, events, signals, timers, left, there>>

(* An event is zeroed memory, which goes first in the queue if its type     *)
(* says so.                                                                 *)
CreateEvent ==
  /\ Callback
  /\ \E e \in Events \ events :
       /\ events' = events \cup {e}
       /\ signals' \in {signals, <<e>> \o signals}
       /\ left' = [k \in DOMAIN left |-> IF k[2] = e THEN NULL ELSE left[k]]
       /\ Allocate({e})
  /\ UNCHANGED <<handles, protocols, ifaces, byProtocol, notifies, timers, there>>

Insertions(s, e) == {InsertAt(s, i, e) : i \in 1 .. Len(s) + 1}

(* A timer expires: it leaves the list, and is put in again, by its next   *)
(* time, if it is periodic.                                                *)
TimerExpires ==
  /\ Callback
  /\ timers # <<>>
  /\ LET e == Head(timers) IN
       /\ timers' \in Insertions(Tail(timers), e) \cup {Tail(timers)}
       /\ left' = Links({<<<<"timers">>, e>>})
       /\ there' = (IF phase = "timers" THEN there \ {e} ELSE there)
  /\ UNCHANGED <<handles, protocols, ifaces, byProtocol, notifies, events, signals, freed, carried>>

Armed(e) == {<<"timers">>} \X (ToSet(timers) \cap {e})

(* A timer that is set already is taken off the list first.                 *)
SetTimer ==
  /\ Callback
  /\ \E e \in events :
       /\ timers' \in Insertions(Remaining(timers, {e}), e)
       /\ left' = Links(Armed(e))
       /\ there' = (IF phase = "timers" THEN there \ {e} ELSE there)
       /\ carried' = (carried \/ (phase = "timers" /\ (at = e \/ Adrift)))
  /\ UNCHANGED <<handles, protocols, ifaces, byProtocol, notifies, events, signals, freed>>

CancelTimer ==
  /\ Callback
  /\ \E e \in ToSet(timers) :
       /\ timers' = Remaining(timers, {e})
       /\ left' = Links(Armed(e))
       /\ there' = (IF phase = "timers" THEN there \ {e} ELSE there)
       /\ carried' = (carried \/ (phase = "timers" /\ Adrift))
  /\ UNCHANGED <<handles, protocols, ifaces, byProtocol, notifies, events, signals, freed>>

CloseEvent ==
  /\ Callback
  /\ \E e \in events :
       LET off == {n \in ToSet(notifies) : n[2] = e}
           onlists == ({<<"signals">>} \X (ToSet(signals) \cap {e})) \cup Armed(e)
       IN /\ events' = events \ {e}
          /\ notifies' = Remaining(notifies, off)
          /\ signals' = Remaining(signals, {e})
          /\ timers' = Remaining(timers, {e})
          /\ left' = Links(onlists \cup {<<<<"notify", n[1]>>, n>> : n \in off})
          /\ freed' = freed \cup off \cup {e}
          /\ there' = there \ (off \cup {e})
  /\ UNCHANGED <<handles, protocols, ifaces, byProtocol, carried>>

(***************************************************************************)
(* The application: heads and names                                        *)
(***************************************************************************)

(* The handles, or the protocols, of Plugged by their first interfaces.     *)
InOrder(column) ==
  LET first == {i \in DOMAIN Plugged :
                  \A j \in 1 .. i - 1 : Plugged[j][column] # Plugged[i][column]}
      places == Where([i \in 1 .. Len(Plugged) |-> i], first)
  IN [k \in 1 .. Len(places) |-> Plugged[places[k]][column]]

Init ==
  /\ ifaces = Plugged /\ byProtocol = Plugged
  /\ handles = InOrder(1) /\ protocols = InOrder(2)
  /\ notifies = Notified /\ signals = Signals /\ timers = Timers
  /\ events = {n[2] : n \in ToSet(Notified)} \cup ToSet(Signals) \cup ToSet(Timers)
  /\ freed = {} /\ left = <<>> /\ calls = 0
  /\ pc = "start" /\ phase = "handles" /\ created = FALSE
  /\ heads = [p \in Phases |-> NULL] /\ mImageStruct = {}
  /\ at = ListHead /\ inner = <<>> /\ sub = ListHead
  /\ printed = {} /\ again = {} /\ there = {} /\ carried = FALSE /\ named = {}
  /\ failed = FALSE

LoadedImages == {h \in ToSet(handles) : <<h, LoadedImage>> \in ToSet(ifaces)}

(* Without memory for the images the DXE core's is not found either.        *)
GetLoadedImage ==
  /\ pc = "start"
  /\ \/ mImageStruct' = LoadedImages
        /\ pc' = (IF CoreHandle \in LoadedImages THEN "lists" ELSE "done")
        /\ UNCHANGED failed
     \/ pc' = "done" /\ failed' = TRUE /\ UNCHANGED mImageStruct
  /\ UNCHANGED <<core, phase, created, heads, cursor, report>>

(* A table, a section or the file name of the image tells its name.         *)
GetDriverNameString(image) == NameOf[image]

(* The protocols in the table have a function at a known place.             *)
HasFunction(p) == p \in mProtocolFuncStruct

(* Mutant: images loaded since count as well.                               *)
AddressToImageName_Live(x) ==
  IF Image[x] \in LoadedImages THEN GetDriverNameString(Image[x]) ELSE NULL

AddressToImageName(x) ==
  IF Image[x] \in mImageStruct THEN GetDriverNameString(Image[x]) ELSE NULL

(* An interface in pool is told by one of its functions.                    *)
AddressToImageNameEx(i) ==
  IF i[2] \in Pooled /\ ~HasFunction(i[2]) THEN NULL ELSE AddressToImageName(i[1])

(* The nodes that the links from own lead to before they come back to it.   *)
Ring(s, own) ==
  LET i == CHOOSE j \in DOMAIN s : s[j] = own
  IN SubSeq(s, i + 1, Len(s)) \o <<ListHead>> \o SubSeq(s, 1, i - 1)

HasSignature(n) == n # ListHead

(* Mutant: only the next node is looked at.                                 *)
SearchHead_Next(s, own) == IF HasSignature(Ring(s, own)[1]) THEN NULL ELSE Ring(s, own)[1]

SearchHead(s, own) ==
  LET found == Where(Ring(s, own), {n \in ToSet(Ring(s, own)) : ~HasSignature(n)})
  IN IF found = <<>> THEN NULL ELSE found[1]

GetDxeCoreHandleList == SearchHead(handles, OwnHandle)

(* From the first interface on a handle behind the own one.                 *)
GetDxeCoreProtocolDatabase ==
  LET plugged == Where(Ring(handles, OwnHandle),
                   {h \in ToSet(handles) : HasSignature(h) /\ List(<<"on", h>>) # <<>>})
  IN IF plugged = <<>> THEN NULL
     ELSE SearchHead(protocols, List(<<"on", plugged[1]>>)[1][2])

GetDxeCoreEventSignalQueue == SearchHead(signals, Dummy)
GetDxeCoreTimerList == SearchHead(timers, Dummy)

(***************************************************************************)
(* The application: walks                                                  *)
(***************************************************************************)

(* Mutant: the notifications of a protocol are not looked at.               *)
InnerLists_Interfaces(n) ==
  CASE phase = "handles" -> <<<<"on", n>>>>
    [] phase = "protocols" -> <<<<"by", n>>>>
    [] OTHER -> <<>>

InnerLists(n) ==
  CASE phase = "handles" -> <<<<"on", n>>>>
    [] phase = "protocols" -> <<<<"by", n>>, <<"notify", n>>>>
    [] OTHER -> <<>>

Nodes(p) ==
  CASE p = "handles" -> ToSet(handles) \cup ToSet(ifaces)
    [] p = "protocols" -> ToSet(protocols) \cup ToSet(ifaces) \cup ToSet(notifies)
    [] p = "signals" -> ToSet(signals)
    [] p = "timers" -> ToSet(timers)

Begin(p) ==
  /\ phase' = p
  /\ pc' = IF heads'[p] = NULL THEN "lost" ELSE "walk"
  /\ at' = ListHead /\ inner' = <<>> /\ sub' = ListHead
  /\ printed' = {} /\ again' = {} /\ there' = Nodes(p) \ {Dummy} /\ carried' = FALSE
  /\ left' = <<>>
  /\ UNCHANGED <<handles, protocols, ifaces, byProtocol, notifies, events, freed, calls,
                 mImageStruct, named>>

(* A list without a head ends the program.                                  *)
GiveUp ==
  /\ pc' = "done"
  /\ UNCHANGED <<handles, protocols, ifaces, byProtocol, notifies, events, freed, left, calls,
                 phase, mImageStruct, cursor, report>>

Names(l, n) ==
  CASE l[1] \in {"on", "by"} -> {<<n, AddressToImageNameEx(n)>>}
    [] l[1] = "notify" -> {<<n[2], AddressToImageName(n[2])>>}
    [] l[1] \in {"signals", "timers"} -> {<<n, AddressToImageName(n)>>}
    [] OTHER -> {}

(* CR asserts the signature of what a link leads to.                        *)
NotANode(n) ==
  /\ n \in freed \cup {NULL}
  /\ pc' = "lost"
  /\ UNCHANGED <<cursor, printed, again, named>>

Arrive(l, n) ==
  /\ n \notin freed \cup {ListHead, NULL}
  /\ printed' = printed \cup {n}
  /\ again' = again \cup (printed \cap {n})
  /\ named' = named \cup Names(l, n)
  /\ UNCHANGED pc

DumpHandleList ==
  /\ pc = "lists"
  /\ heads' = [heads EXCEPT !["handles"] = GetDxeCoreHandleList,
                            !["protocols"] = GetDxeCoreProtocolDatabase]
  /\ IF heads'["handles"] # NULL THEN Begin("handles") ELSE GiveUp
  /\ UNCHANGED <<signals, timers, created, failed>>

DumpProtocolDatabase ==
  /\ pc = "end" /\ phase = "handles"
  /\ UNCHANGED <<heads, signals, timers, created, failed>>
  /\ Begin("protocols")

CreateSignalEvent ==
  /\ pc = "end" /\ phase = "protocols"
  /\ pc' = "created" /\ phase' = "signals" /\ created' = TRUE
  /\ signals' = <<Dummy>> \o signals
  /\ UNCHANGED <<handles, protocols, ifaces, byProtocol, notifies, events, timers, freed, left,
                 calls, heads, mImageStruct, cursor, report, failed>>

(* Without the dummy event the queue is left out.                           *)
NoSignalEvent ==
  /\ pc = "end" /\ phase = "protocols"
  /\ phase' = "signals" /\ failed' = TRUE
  /\ printed' = {} /\ again' = {} /\ there' = {}
  /\ UNCHANGED <<core, pc, created, heads, mImageStruct, cursor, carried, named>>

(* The event of the timers is in no list before it is set.                  *)
CreateTimerEvent ==
  /\ pc = "end" /\ phase = "signals"
  /\ pc' = "unset" /\ phase' = "timers" /\ created' = TRUE
  /\ UNCHANGED <<core, heads, mImageStruct, cursor, report, failed>>

NoTimerEvent ==
  /\ pc = "end" /\ phase = "signals"
  /\ pc' = "done" /\ failed' = TRUE
  /\ UNCHANGED <<core, phase, created, heads, mImageStruct, cursor, report>>

SetDummyTimer ==
  /\ pc = "unset"
  /\ timers' \in Insertions(timers, Dummy)
  /\ pc' = "created"
  /\ UNCHANGED <<handles, protocols, ifaces, byProtocol, notifies, events, signals, freed, left,
                 calls, phase, created, heads, mImageStruct, cursor, report, failed>>

(* Mutant: an event that cannot be set is forgotten.                        *)
TimerNotSet_Forgotten ==
  /\ pc = "unset"
  /\ pc' = "done" /\ failed' = TRUE
  /\ UNCHANGED <<core, phase, created, heads, mImageStruct, cursor, report>>

(* The event is closed although it could not be set.                        *)
TimerNotSet ==
  /\ pc = "unset"
  /\ pc' = "found" /\ failed' = TRUE
  /\ UNCHANGED <<core, phase, created, heads, mImageStruct, cursor, report>>

FindEventList ==
  /\ pc = "created"
  /\ heads' = [heads EXCEPT ![phase] =
                 IF phase = "signals" THEN GetDxeCoreEventSignalQueue ELSE GetDxeCoreTimerList]
  /\ pc' = "found"
  /\ UNCHANGED <<core, phase, created, mImageStruct, cursor, report, failed>>

(* The dummy event leaves its list before that is dumped.                   *)
DumpEventList ==
  /\ pc = "found"
  /\ created' = FALSE
  /\ signals' = Remaining(signals, {Dummy}) /\ timers' = Remaining(timers, {Dummy})
  /\ UNCHANGED <<heads, failed>>
  /\ IF heads[phase] # NULL THEN Begin(phase) ELSE GiveUp

(* The inner loops print what hangs on the node the outer loop is at.       *)
DumpInner ==
  /\ Walking /\ inner # <<>>
  /\ LET l == Head(inner)
         n == NextOf(l, sub)
     IN \/ /\ n = ListHead
           /\ inner' = Tail(inner) /\ sub' = ListHead
           /\ UNCHANGED <<pc, at, printed, again, named>>
        \/ Arrive(l, n) /\ sub' = n /\ UNCHANGED <<at, inner>>
        \/ NotANode(n)
  /\ UNCHANGED <<core, phase, created, heads, mImageStruct, there, carried, failed>>

DumpOuter ==
  /\ Walking /\ inner = <<>>
  /\ LET l == <<phase>>
         n == NextOf(l, at)
     IN \/ n = ListHead /\ pc' = "end" /\ UNCHANGED <<cursor, printed, again, named>>
        \/ Arrive(l, n) /\ at' = n /\ inner' = InnerLists(n) /\ UNCHANGED sub
        \/ NotANode(n)
  /\ UNCHANGED <<core, phase, created, heads, mImageStruct, there, carried, failed>>

(* The memory of the node under a cursor may be used for something else.    *)
LinkOverwritten ==
  /\ Walking
  /\ IF inner # <<>> THEN sub \in freed ELSE at \in freed
  /\ pc' = "lost"
  /\ UNCHANGED <<core, phase, created, heads, mImageStruct, cursor, report, failed>>

Exit ==
  /\ pc = "end" /\ phase = "timers"
  /\ pc' = "done"
  /\ UNCHANGED <<core, phase, created, heads, mImageStruct, cursor, report, failed>>

Next ==
  \/ InstallProtocol \/ ReinstallProtocol \/ UninstallProtocol \/ RegisterProtocolNotify
  \/ CreateEvent \/ SetTimer \/ CancelTimer \/ TimerExpires \/ CloseEvent
  \/ GetLoadedImage \/ DumpHandleList \/ DumpProtocolDatabase
  \/ CreateSignalEvent \/ NoSignalEvent \/ CreateTimerEvent \/ NoTimerEvent
  \/ SetDummyTimer \/ TimerNotSet \/ FindEventList \/ DumpEventList
  \/ DumpInner \/ DumpOuter \/ LinkOverwritten \/ Exit

Spec == Init /\ [][Next]_vars

(***************************************************************************)
(* Properties                                                              *)
(***************************************************************************)

(* Every handle, interface, protocol, notification and signal event that is *)
(* in its place from the start of a dump to its end is printed in it, once, *)
(* whatever callbacks put in, take out, free and use again around it.  The  *)
(* exception is a walk whose own node has been taken from under it and that *)
(* goes on by its link to memory that is a node again, or whose interface   *)
(* has been moved: it skips what it jumps over (DumpHandleList,             *)
(* DumpProtocolDatabase, DumpEventSignalQueue).                             *)
EveryNodeOnce ==
  pc = "end" /\ phase # "timers" /\ ~carried => there \subseteq printed /\ there \cap again = {}

(* A timer that neither expires nor is set while the timers are dumped is   *)
(* printed, however often others jump over it, unless the timer the walk is *)
(* at is set again, or after it has been taken out others are set or        *)
(* cancelled (DumpEventTimerList).                                          *)
StillTimersPrinted ==
  pc = "end" /\ phase = "timers" /\ ~carried => there \subseteq printed

(* The dummy events are closed, whichever of the calls fail, before a walk  *)
(* begins and before the program ends, and none is printed                  *)
(* (DxeCoreDumpEntrypoint).                                                 *)
NothingLeftBehind ==
  pc \in {"walk", "end", "lost", "done"} =>
    ~created /\ Dummy \notin ToSet(signals) \cup ToSet(timers) \cup printed

Owner(n) == IF n \in Handles \X Protocols THEN Image[n[1]] ELSE Image[n]

(* What is printed with the name of an image is that image's, and the dumps *)
(* by handle and by protocol agree, whatever is loaded in between.          *)
NamesAreOwners ==
  /\ \A name \in named : name[2] \in {NULL, GetDriverNameString(Owner(name[1]))}
  /\ \A one, other \in named : one[1] = other[1] => one = other

(* With all allocations and events at hand every list is dumped: its head   *)
(* is found from the own node wherever that stands, and only a walk whose   *)
(* node has been taken out of its list under it can be cut short.           *)
EverythingDumped ==
  /\ pc = "done" /\ ~failed => phase = "timers" /\ \A p \in Phases : heads[p] = ListHead
  /\ pc = "lost" => Adrift

(***************************************************************************)
(* The inductive invariant behind the last three.  What a cursor stands on *)
(* has a link to go on by, in its list or left when it was taken off, and  *)
(* every link leads to a node of that list; the handles of the images stay.*)
(***************************************************************************)

ListNames ==
  {<<p>> : p \in Phases} \cup ({"on"} \X Handles) \cup ({"by", "notify"} \X Protocols)

NodesIn(l) ==
  CASE l[1] = "handles" -> Handles
    [] l[1] = "protocols" -> Protocols
    [] l[1] \in {"on", "by"} -> Handles \X Protocols
    [] l[1] = "notify" -> Protocols \X Events
    [] OTHER -> Events

LinksLead ==
  /\ DOMAIN left \subseteq ListNames \X ListedNodes
  /\ \A k \in DOMAIN left : left[k] \in NodesIn(k[1]) \cup {ListHead, NULL}

EventsIn(p) == IF pc \in {"created", "found"} /\ phase = p THEN Events \cup {Dummy} ELSE Events

TypeOK ==
  /\ handles \in Seq(Handles) /\ protocols \in Seq(Protocols)
  /\ ifaces \in Seq(Handles \X Protocols) /\ byProtocol \in Seq(Handles \X Protocols)
  /\ notifies \in Seq(Protocols \X Events) /\ events \subseteq Events
  /\ signals \in Seq(EventsIn("signals")) /\ timers \in Seq(EventsIn("timers"))
  /\ LinksLead
  /\ pc \in {"start", "lists", "walk", "end", "created", "unset", "found", "lost", "done"}
  /\ phase \in Phases
  /\ created \in BOOLEAN /\ heads \in [Phases -> {ListHead, NULL}]
  /\ inner \in Seq(ListNames)
  /\ printed \subseteq ListedNodes

HasLink(l, n) == OnList(l, n) \/ <<l, n>> \in DOMAIN left

LinksGoOn == pc = "walk" => \A k \in DOMAIN left : left[k] # NULL => HasLink(k[1], left[k])

CursorsHaveLinks ==
  pc = "walk" =>
    /\ HasLink(<<phase>>, at)
    /\ IF inner = <<>> THEN sub = ListHead ELSE HasLink(Head(inner), sub)

ImagesStay ==
  /\ {<<OwnHandle, LoadedImage>>, <<CoreHandle, LoadedImage>>} \subseteq ToSet(ifaces)
  /\ {OwnHandle, CoreHandle} \subseteq ToSet(handles)
  /\ \A i \in ToSet(ifaces) : i[1] \in ToSet(handles) /\ i[2] \in ToSet(protocols)
  /\ ToSet(byProtocol) = ToSet(ifaces)

(* The dummy event exists, and stands in its list, while its head is sought.*)
DummyIsThere ==
  /\ created <=> pc \in {"created", "unset", "found"}
  /\ created => phase \in {"signals", "timers"}
  /\ pc = "unset" => phase = "timers"
  /\ pc = "created" => Dummy \in ToSet(IF phase = "signals" THEN signals ELSE timers)

HeadsFound ==
  /\ pc \notin {"start", "lists", "done"} => heads["handles"] = ListHead /\ heads["protocols"] = ListHead
  /\ ~failed =>
       /\ phase = "timers" => heads["signals"] = ListHead
       /\ pc \in {"walk", "end", "found"} => heads[phase] = ListHead
       /\ pc = "done" => phase = "timers" /\ \A p \in Phases : heads[p] = ListHead

NamesAreFixed ==
  /\ pc = "start" => named = {}
  /\ named \subseteq {<<i, AddressToImageNameEx(i)>> : i \in Handles \X Protocols}
                       \cup {<<e, AddressToImageName(e)>> : e \in Events}

IInv ==
  TypeOK /\ LinksGoOn /\ CursorsHaveLinks /\ ImagesStay /\ DummyIsThere /\ HeadsFound
    /\ NamesAreFixed

(***************************************************************************)
(* The inductive invariant behind the first two.  A node that is there and *)
(* not printed is still ahead of a cursor, unless the cursor's link leads  *)
(* to freed memory, where the walk ends, or the walk has been carried off. *)
(***************************************************************************)

ListsAreOrders ==
  /\ NoneTwice(handles) /\ NoneTwice(protocols) /\ NoneTwice(ifaces) /\ NoneTwice(byProtocol)
  /\ NoneTwice(notifies) /\ NoneTwice(signals) /\ NoneTwice(timers)

Listed ==
  ToSet(handles) \cup ToSet(protocols) \cup ToSet(ifaces) \cup ToSet(notifies)
    \cup ToSet(signals) \cup ToSet(timers)

(* Closed events are not among the events, which all listed ones are.       *)
FreedIsGone ==
  /\ freed \subseteq Handles \cup Events \cup (Handles \X Protocols) \cup (Protocols \X Events)
  /\ freed \cap (Listed \cup events) = {}
  /\ (ToSet(signals) \cup ToSet(timers)) \ {Dummy} \subseteq events
  /\ \A n \in ToSet(notifies) : n[2] \in events

(* Where a cursor that is adrift in the list l goes on.                     *)
LinkIsOf(l, n) ==
  ~ OnList(l, n) =>
    n \in freed /\ left[<<l, n>>] \in ToSet(List(l)) \cup {ListHead, NULL} \cup freed

LinksOfGone ==
  pc = "walk" /\ phase # "timers" /\ ~carried =>
    /\ LinkIsOf(<<phase>>, at)
    /\ inner # <<>> => LinkIsOf(Head(inner), sub)

NotifiesHaveEntries == \A n \in ToSet(notifies) : n[1] \in ToSet(protocols)

InnerIsOfAt ==
  pc = "walk" /\ inner # <<>> =>
    /\ at \in NodesIn(<<phase>>)
    /\ \/ phase = "handles" /\ inner = <<<<"on", at>>>>
       \/ phase = "protocols" /\ inner \in {<<<<"by", at>>, <<"notify", at>>>>, <<<<"notify", at>>>>}

ThereIsListed == pc = "walk" => there \subseteq Nodes(phase)

(* What comes behind n in its list, and what a cursor at n will come to.    *)
Behind(l, n) ==
  IF n = ListHead THEN ToSet(List(l)) ELSE {m \in ToSet(List(l)) : Precedes(List(l), n, m)}

Ahead(l, n) ==
  IF OnList(l, n) THEN Behind(l, n)
  ELSE IF left[<<l, n>>] \in ToSet(List(l))
       THEN {left[<<l, n>>]} \cup Behind(l, left[<<l, n>>]) ELSE {}

Doomed(l, n) == ~ OnList(l, n) /\ left[<<l, n>>] \in freed \cup {NULL}

Hanging(n) == UNION {ToSet(List(l)) : l \in ToSet(InnerLists(n))}

Due ==
  Ahead(<<phase>>, at) \cup (UNION {Hanging(n) : n \in Ahead(<<phase>>, at)})
    \cup (IF inner = <<>> THEN {}
          ELSE Ahead(Head(inner), sub) \cup (UNION {ToSet(List(l)) : l \in ToSet(Tail(inner))}))

StillDue ==
  pc = "walk" =>
    \/ carried
    \/ Doomed(<<phase>>, at)
    \/ inner # <<>> /\ Doomed(Head(inner), sub)
    \/ /\ there \ printed \subseteq Due
       /\ phase # "timers" => there \cap printed \cap Due = {} /\ there \cap again = {}

WalkInv ==
  /\ ListsAreOrders /\ FreedIsGone /\ LinksOfGone /\ NotifiesHaveEntries /\ InnerIsOfAt
  /\ ThereIsListed /\ StillDue /\ EveryNodeOnce /\ StillTimersPrinted /\ EverythingDumped
=============================================================================
