-------------------------- MODULE SmmCoreDump_proofs --------------------------
(***************************************************************************)
(* Theorems about the SMM core dump: the driver's life up to the lock, for *)
(* either library, any drivers in SMRAM and any calls of other drivers     *)
(* (SmmCoreDumpDriver); the application, for databases and regions of      *)
(* every size, every content, and both kinds of build (ASSERTs in or out)  *)
(* (SmmCoreDumpApp); the handler with any caller (SmmCoreDumpServer); and  *)
(* the layout of the database, for lists of any length (SmmCoreDatabase).  *)
(***************************************************************************)
EXTENDS SmmCoreDumpApp, SmmCoreDumpServer, SmmCoreDumpDriver, SmmCoreDatabase,
        Sublists_proofs

(***************************************************************************)
(* The services of the SMM core                                            *)
(***************************************************************************)

LEMMA ListsFields ==
  ASSUME NEW c \in Lists
  PROVE  /\ c.handles \in Seq(Names) /\ c.entries \in Seq(ProtocolEntry)
         /\ c.smis \in Seq(SmiEntry) /\ c.roots \in Seq(Names)
         /\ c = [handles |-> c.handles, entries |-> c.entries, smis |-> c.smis,
                 roots |-> c.roots]
BY DEF Lists

(* EntryOf is the place of an entry of the protocol, or 0.                  *)
LEMMA EntryOfPlace ==
  ASSUME NEW c \in Lists, NEW p
  PROVE  /\ EntryOf(c, p) \in 0 .. Len(c.entries)
         /\ EntryOf(c, p) # 0 => c.entries[EntryOf(c, p)].ProtocolID = p
         /\ EntryOf(c, p) = 0 => \A i \in 1 .. Len(c.entries) : c.entries[i].ProtocolID # p
<1> DEFINE I == {i \in 1 .. Len(c.entries) : c.entries[i].ProtocolID = p}
<1>1. EntryOf(c, p) = IF I # {} THEN Min(I) ELSE 0
  BY DEF EntryOf, SelectInSeq
<1>2. Len(c.entries) \in Nat /\ I \subseteq Nat
  BY ListsFields
<1>3. I # {} => Min(I) \in I
  <2> HIDE DEF I
  <2> QED
    BY <1>2, MinOf
<1> QED
  BY <1>1, <1>2, <1>3, SMTT(40)

LEMMA SmiEntryOfPlace ==
  ASSUME NEW c \in Lists, NEW type
  PROVE  /\ SmiEntryOf(c, type) \in 0 .. Len(c.smis)
         /\ SmiEntryOf(c, type) # 0 => c.smis[SmiEntryOf(c, type)].HandlerType = type
         /\ SmiEntryOf(c, type) = 0 => \A i \in 1 .. Len(c.smis) : c.smis[i].HandlerType # type
<1> DEFINE I == {i \in 1 .. Len(c.smis) : c.smis[i].HandlerType = type}
<1>1. SmiEntryOf(c, type) = IF I # {} THEN Min(I) ELSE 0
  BY DEF SmiEntryOf, SelectInSeq
<1>2. Len(c.smis) \in Nat /\ I \subseteq Nat
  BY ListsFields
<1>3. I # {} => Min(I) \in I
  <2> HIDE DEF I
  <2> QED
    BY <1>2, MinOf
<1> QED
  BY <1>1, <1>2, <1>3, SMTT(40)

(* A new entry comes last.                                                  *)
LEMMA NewEntry ==
  ASSUME NEW c \in Lists, NEW p \in Names, EntryOf(c, p) = 0
  PROVE  LET e == [ProtocolID |-> p, Handles |-> <<>>, Notify |-> <<>>]
             d == WithEntry(c, p)
         IN  /\ d = [handles |-> c.handles, entries |-> Append(c.entries, e),
                     smis |-> c.smis, roots |-> c.roots]
             /\ d \in Lists /\ e \in ProtocolEntry
             /\ EntryOf(d, p) = Len(c.entries) + 1
<1> DEFINE e == [ProtocolID |-> p, Handles |-> <<>>, Notify |-> <<>>]
           d == WithEntry(c, p)
           s == c.entries
           t == Append(s, e)
<1>1. s \in Seq(ProtocolEntry) /\ Len(s) \in Nat
  BY ListsFields
<1>2. e \in ProtocolEntry
  BY EmptySeq DEF ProtocolEntry
<1>3. d = [c EXCEPT !.entries = t]
  BY DEF WithEntry
<1>4. d = [handles |-> c.handles, entries |-> t, smis |-> c.smis, roots |-> c.roots]
  BY <1>3 DEF Lists
<1> HIDE DEF e
<1>5. /\ t \in Seq(ProtocolEntry) /\ Len(t) = Len(s) + 1
      /\ \A i \in 1 .. Len(s) : t[i] = s[i]
      /\ t[Len(s) + 1] = e
  BY <1>1, <1>2, AppendProperties
<1>6. d \in Lists
  BY <1>4, <1>5, ListsFields DEF Lists
<1>7. EntryOf(d, p) = Len(s) + 1
  <2>1. d.entries = t
    BY <1>4
  <2>2. e.ProtocolID = p
    BY DEF e
  <2>3. \A i \in 1 .. Len(s) : t[i].ProtocolID # p
    BY <1>5, EntryOfPlace
  <2>4. EntryOf(d, p) # 0
    <3>1. Len(s) + 1 \in 1 .. Len(d.entries) /\ d.entries[Len(s) + 1].ProtocolID = p
      BY <1>1, <1>5, <2>1, <2>2
    <3> QED
      BY <1>6, <3>1, EntryOfPlace
  <2>5. EntryOf(d, p) \in 1 .. Len(s) + 1 /\ t[EntryOf(d, p)].ProtocolID = p
    BY <1>1, <1>5, <1>6, <2>1, <2>4, EntryOfPlace
  <2> QED
    BY <1>1, <2>3, <2>5
<1> QED
  BY <1>2, <1>4, <1>6, <1>7 DEF e

LEMMA WithEntryKeeps ==
  ASSUME NEW c \in Lists, NEW p \in Names
  PROVE  LET d == WithEntry(c, p)
         IN  /\ d \in Lists /\ EntryOf(d, p) \in 1 .. Len(d.entries)
             /\ p # CallerId /\ NotProbed(c) => NotProbed(d)
<1> DEFINE d == WithEntry(c, p)
<1>1. CASE EntryOf(c, p) # 0
  <2>1. d = c
    BY <1>1 DEF WithEntry
  <2>2. EntryOf(c, p) \in 1 .. Len(c.entries)
    BY <1>1, EntryOfPlace, ListsFields
  <2> QED
    BY <2>1, <2>2
<1>2. CASE EntryOf(c, p) = 0
  <2> DEFINE e == [ProtocolID |-> p, Handles |-> <<>>, Notify |-> <<>>]
             t == Append(c.entries, e)
  <2>1. /\ d = [handles |-> c.handles, entries |-> t, smis |-> c.smis, roots |-> c.roots]
        /\ d \in Lists /\ e \in ProtocolEntry /\ EntryOf(d, p) = Len(c.entries) + 1
    BY <1>2, NewEntry
  <2>2. c.entries \in Seq(ProtocolEntry) /\ Len(c.entries) \in Nat
    BY ListsFields
  <2>3. e.ProtocolID = p
    OBVIOUS
  <2> HIDE DEF e
  <2>4. Len(t) = Len(c.entries) + 1 /\ ToSet(t) = ToSet(c.entries) \cup {e}
    BY <2>1, <2>2, AppendProperties, AppendMembers
  <2> HIDE DEF t
  <2>5. d.handles = c.handles /\ d.entries = t /\ d.smis = c.smis /\ d.roots = c.roots
    BY <2>1
  <2> HIDE DEF d
  <2>6. EntryOf(d, p) \in 1 .. Len(d.entries)
    BY <2>1, <2>2, <2>4, <2>5
  <2>7. p # CallerId /\ NotProbed(c) => NotProbed(d)
    BY <2>3, <2>4, <2>5 DEF NotProbed
  <2> QED
    BY <2>1, <2>6, <2>7 DEF d
<1> QED
  BY <1>1, <1>2

(* An entry keeps its protocol when its lists change.                       *)
LEMMA EntryReplaced ==
  ASSUME NEW s \in Seq(ProtocolEntry), NEW k \in 1 .. Len(s), NEW e \in ProtocolEntry,
         e.ProtocolID = s[k].ProtocolID
  PROVE  LET t == [s EXCEPT ![k] = e]
         IN  /\ t \in Seq(ProtocolEntry) /\ Len(t) = Len(s)
             /\ \A x \in ToSet(t) : \E y \in ToSet(s) : y.ProtocolID = x.ProtocolID
<1> DEFINE t == [s EXCEPT ![k] = e]
<1>1. /\ t \in Seq(ProtocolEntry) /\ Len(t) = Len(s)
      /\ \A j \in 1 .. Len(s) : t[j] = IF j = k THEN e ELSE s[j]
  BY ExceptSeq
<1> HIDE DEF t
<1>2. ToSet(t) = {t[j] : j \in 1 .. Len(t)} /\ ToSet(s) = {s[j] : j \in 1 .. Len(s)}
  BY <1>1, MembersOfSeq
<1>3. \A j \in 1 .. Len(s) : t[j].ProtocolID = s[j].ProtocolID
  BY <1>1
<1> QED
  BY <1>1, <1>2, <1>3, ZenonT(60) DEF t

LEMMA InstallKeeps ==
  ASSUME NEW c \in Lists, NEW h \in Names, NEW p \in Names, NotProbed(c),
         h # Dummy, p # CallerId
  PROVE  InstallProtocol(c, h, p) \in Lists /\ NotProbed(InstallProtocol(c, h, p))
<1> DEFINE d == WithEntry(c, p)
           k == EntryOf(d, p)
           s == d.entries
           e == [s[k] EXCEPT !.Handles = Append(@, h)]
           t == [s EXCEPT ![k] = e]
           hs == Append(d.handles, h)
           r == InstallProtocol(c, h, p)
<1>1. d \in Lists /\ k \in 1 .. Len(s) /\ NotProbed(d)
  BY WithEntryKeeps
<1>2. r = [d EXCEPT !.handles = hs, !.entries[k].Handles = Append(@, h)]
  BY DEF InstallProtocol
<1> HIDE DEF d, k
<1>3. d.handles \in Seq(Names) /\ s \in Seq(ProtocolEntry)
  BY <1>1, ListsFields
<1>4. s[k] \in ProtocolEntry
  BY <1>1, <1>3
<1>5. e \in ProtocolEntry /\ e.ProtocolID = s[k].ProtocolID
  <2>1. Append(s[k].Handles, h) \in Seq(Names)
    BY <1>4, AppendProperties DEF ProtocolEntry
  <2> QED
    BY <1>4, <2>1 DEF ProtocolEntry
<1>6. r = [handles |-> hs, entries |-> t, smis |-> d.smis, roots |-> d.roots]
  BY <1>1, <1>2 DEF Lists
<1> HIDE DEF e, r
<1>7. t \in Seq(ProtocolEntry) /\ \A x \in ToSet(t) : \E y \in ToSet(s) : y.ProtocolID = x.ProtocolID
  BY <1>1, <1>3, <1>5, EntryReplaced
<1>8. hs \in Seq(Names) /\ ToSet(hs) = ToSet(d.handles) \cup {h}
  BY <1>3, AppendMembers
<1> HIDE DEF hs, t
<1>9. r \in Lists
  BY <1>1, <1>6, <1>7, <1>8, ListsFields DEF Lists
<1>10. NotProbed(r)
  BY <1>1, <1>6, <1>7, <1>8 DEF NotProbed
<1> QED
  BY <1>9, <1>10 DEF r

LEMMA NotifyKeeps ==
  ASSUME NEW c \in Lists, NEW p \in Names, NEW fn \in Names, NotProbed(c), p # CallerId
  PROVE  /\ RegisterProtocolNotify(c, p, fn) \in Lists
         /\ NotProbed(RegisterProtocolNotify(c, p, fn))
<1> DEFINE d == WithEntry(c, p)
           k == EntryOf(d, p)
           s == d.entries
           e == [s[k] EXCEPT !.Notify = Append(@, fn)]
           t == [s EXCEPT ![k] = e]
           r == RegisterProtocolNotify(c, p, fn)
<1>1. d \in Lists /\ k \in 1 .. Len(s) /\ NotProbed(d)
  BY WithEntryKeeps
<1>2. r = [d EXCEPT !.entries[k].Notify = Append(@, fn)]
  BY DEF RegisterProtocolNotify
<1> HIDE DEF d, k
<1>3. s \in Seq(ProtocolEntry)
  BY <1>1, ListsFields
<1>4. s[k] \in ProtocolEntry
  BY <1>1, <1>3
<1>5. e \in ProtocolEntry /\ e.ProtocolID = s[k].ProtocolID
  <2>1. Append(s[k].Notify, fn) \in Seq(Names)
    BY <1>4, AppendProperties DEF ProtocolEntry
  <2> QED
    BY <1>4, <2>1 DEF ProtocolEntry
<1>6. r = [handles |-> d.handles, entries |-> t, smis |-> d.smis, roots |-> d.roots]
  BY <1>1, <1>2 DEF Lists
<1> HIDE DEF e, r
<1>7. t \in Seq(ProtocolEntry) /\ \A x \in ToSet(t) : \E y \in ToSet(s) : y.ProtocolID = x.ProtocolID
  BY <1>1, <1>3, <1>5, EntryReplaced
<1> HIDE DEF t
<1>8. r \in Lists
  BY <1>1, <1>6, <1>7, ListsFields DEF Lists
<1>9. NotProbed(r)
  BY <1>1, <1>6, <1>7 DEF NotProbed
<1> QED
  BY <1>8, <1>9 DEF r

LEMMA SmiRegisterType ==
  ASSUME NEW c \in Lists, NEW type \in Names, NEW handler \in Names
  PROVE  SmiHandlerRegister(c, type, handler) \in Lists
<1> DEFINE r == SmiHandlerRegister(c, type, handler)
           i == SmiEntryOf(c, type)
<1>1. c.smis \in Seq(SmiEntry) /\ c.roots \in Seq(Names)
  BY ListsFields
<1>2. CASE type = None
  <2>1. r = [c EXCEPT !.roots = Append(@, handler)]
    BY <1>2 DEF SmiHandlerRegister
  <2>2. Append(c.roots, handler) \in Seq(Names)
    BY <1>1, AppendProperties
  <2> QED
    BY <2>1, <2>2, ListsFields DEF Lists
<1>3. CASE type # None /\ i # 0
  <2> DEFINE e == [c.smis[i] EXCEPT !.SmiHandlers = Append(@, handler)]
             t == [c.smis EXCEPT ![i] = e]
  <2>1. r = [c EXCEPT !.smis[i].SmiHandlers = Append(@, handler)]
    BY <1>3 DEF SmiHandlerRegister
  <2>2. i \in 1 .. Len(c.smis)
    BY <1>1, <1>3, SmiEntryOfPlace
  <2> HIDE DEF i
  <2>3. c.smis[i] \in SmiEntry
    BY <1>1, <2>2
  <2>4. e \in SmiEntry
    <3>1. Append(c.smis[i].SmiHandlers, handler) \in Seq(Names)
      BY <2>3, AppendProperties DEF SmiEntry
    <3> QED
      BY <2>3, <3>1 DEF SmiEntry
  <2>5. r = [handles |-> c.handles, entries |-> c.entries, smis |-> t, roots |-> c.roots]
    BY <2>1 DEF Lists
  <2> HIDE DEF e, r
  <2>6. t \in Seq(SmiEntry)
    BY <1>1, <2>2, <2>4, ExceptSeq
  <2> HIDE DEF t
  <2> QED
    BY <2>5, <2>6, ListsFields DEF Lists, r
<1>4. CASE type # None /\ i = 0
  <2> DEFINE e == [HandlerType |-> type, SmiHandlers |-> <<handler>>]
             t == Append(c.smis, e)
  <2>1. r = [c EXCEPT !.smis = t]
    BY <1>4 DEF SmiHandlerRegister
  <2>2. e \in SmiEntry
    BY SingleMembers DEF SmiEntry
  <2> HIDE DEF e
  <2>3. t \in Seq(SmiEntry)
    BY <1>1, <2>2, AppendProperties
  <2> QED
    BY <2>1, <2>3, ListsFields DEF Lists
<1> QED
  BY <1>2, <1>3, <1>4

LEMMA SmiRegisterKeeps ==
  ASSUME NEW c \in Lists, NEW type \in Names, NEW handler \in Names, NotProbed(c),
         handler # Dummy, type \notin {CallerId, "mSmmCoreDumpGuid"}
  PROVE  NotProbed(SmiHandlerRegister(c, type, handler))
<1> DEFINE r == SmiHandlerRegister(c, type, handler)
           i == SmiEntryOf(c, type)
<1>1. c.smis \in Seq(SmiEntry) /\ c.roots \in Seq(Names) /\ c.handles \in Seq(Names)
  BY ListsFields
<1>2. CASE type = None
  <2> DEFINE t == Append(c.roots, handler)
  <2>1. r = [c EXCEPT !.roots = t]
    BY <1>2 DEF SmiHandlerRegister
  <2>2. ToSet(t) = ToSet(c.roots) \cup {handler}
    BY <1>1, AppendMembers
  <2>3. r = [handles |-> c.handles, entries |-> c.entries, smis |-> c.smis, roots |-> t]
    BY <2>1 DEF Lists
  <2> HIDE DEF t, r
  <2> QED
    BY <2>2, <2>3 DEF NotProbed, r
<1>3. CASE type # None /\ i # 0
  <2> DEFINE e == [c.smis[i] EXCEPT !.SmiHandlers = Append(@, handler)]
             t == [c.smis EXCEPT ![i] = e]
  <2>1. r = [c EXCEPT !.smis[i].SmiHandlers = Append(@, handler)]
    BY <1>3 DEF SmiHandlerRegister
  <2>2. i \in 1 .. Len(c.smis) /\ c.smis[i].HandlerType = type
    BY <1>1, <1>3, SmiEntryOfPlace
  <2> HIDE DEF i
  <2>3. c.smis[i] \in SmiEntry
    BY <1>1, <2>2
  <2>4. e \in SmiEntry /\ e.HandlerType = type
    <3>1. Append(c.smis[i].SmiHandlers, handler) \in Seq(Names)
      BY <2>3, AppendProperties DEF SmiEntry
    <3> QED
      BY <2>2, <2>3, <3>1 DEF SmiEntry
  <2>5. r = [handles |-> c.handles, entries |-> c.entries, smis |-> t, roots |-> c.roots]
    BY <2>1 DEF Lists
  <2> HIDE DEF e, r
  <2>6. /\ t \in Seq(SmiEntry) /\ Len(t) = Len(c.smis)
        /\ \A j \in 1 .. Len(c.smis) : t[j] = IF j = i THEN e ELSE c.smis[j]
    BY <1>1, <2>2, <2>4, ExceptSeq
  <2> HIDE DEF t
  <2>7. ToSet(t) \subseteq ToSet(c.smis) \cup {e}
    <3>1. ToSet(t) = {t[j] : j \in 1 .. Len(t)} /\ ToSet(c.smis) = {c.smis[j] : j \in 1 .. Len(c.smis)}
      BY <1>1, <2>6, MembersOfSeq, ZenonT(60)
    <3> QED
      BY <2>6, <3>1
  <2> QED
    BY <2>4, <2>5, <2>7 DEF NotProbed, r
<1>4. CASE type # None /\ i = 0
  <2> DEFINE e == [HandlerType |-> type, SmiHandlers |-> <<handler>>]
             t == Append(c.smis, e)
  <2>1. r = [c EXCEPT !.smis = t]
    BY <1>4 DEF SmiHandlerRegister
  <2>2. e \in SmiEntry /\ e.HandlerType = type
    BY SingleMembers DEF SmiEntry
  <2>3. r = [handles |-> c.handles, entries |-> c.entries, smis |-> t, roots |-> c.roots]
    BY <2>1 DEF Lists
  <2> HIDE DEF e, r
  <2>4. ToSet(t) = ToSet(c.smis) \cup {e}
    BY <1>1, <2>2, AppendMembers
  <2> HIDE DEF t
  <2> QED
    BY <2>2, <2>3, <2>4 DEF NotProbed, r
<1> QED
  BY <1>2, <1>3, <1>4

(***************************************************************************)
(* What SmmCoreDump puts into the lists, and takes out again               *)
(***************************************************************************)

DummyEntry(handles) == [ProtocolID |-> CallerId, Handles |-> handles, Notify |-> <<>>]

LEMMA NotInLists ==
  ASSUME NEW c \in Lists, NotProbed(c)
  PROVE  /\ EntryOf(c, CallerId) = 0 /\ SmiEntryOf(c, CallerId) = 0
         /\ SmiEntryOf(c, "mSmmCoreDumpGuid") = 0
         /\ Dummy \notin ToSet(c.handles) /\ Dummy \notin ToSet(c.roots)
<1>1. \A i \in 1 .. Len(c.entries) : c.entries[i] \in ToSet(c.entries)
  BY ListsFields DEF ToSet
<1>2. \A i \in 1 .. Len(c.smis) : c.smis[i] \in ToSet(c.smis)
  BY ListsFields DEF ToSet
<1>3. EntryOf(c, CallerId) \in 1 .. Len(c.entries) \/ EntryOf(c, CallerId) = 0
  BY EntryOfPlace, ListsFields
<1>4. \A type : SmiEntryOf(c, type) \in 1 .. Len(c.smis) \/ SmiEntryOf(c, type) = 0
  BY SmiEntryOfPlace, ListsFields
<1>5. EntryOf(c, CallerId) = 0
  BY <1>1, <1>3, EntryOfPlace DEF NotProbed
<1>6. SmiEntryOf(c, CallerId) = 0
  BY <1>2, <1>4, SmiEntryOfPlace DEF NotProbed
<1>7. SmiEntryOf(c, "mSmmCoreDumpGuid") = 0
  BY <1>2, <1>4, SmiEntryOfPlace DEF NotProbed
<1> QED
  BY <1>5, <1>6, <1>7 DEF NotProbed

(* The entry of the dummy protocol stays, and it is the last one.           *)
LEMMA ProbedForm ==
  ASSUME NEW c \in Lists, NotProbed(c)
  PROVE  /\ Probed(c) = [handles |-> c.handles,
                         entries |-> Append(c.entries, DummyEntry(<<>>)),
                         smis |-> c.smis, roots |-> c.roots]
         /\ Probed(c) \in Lists /\ DummyEntry(<<>>) \in ProtocolEntry
         /\ EntryOf(Probed(c), CallerId) = Len(c.entries) + 1
<1>1. CallerId \in Names
  BY DEF Names
<1> QED
  BY <1>1, NotInLists, NewEntry DEF Probed, DummyEntry

LEMMA DummyInstalled ==
  ASSUME NEW c \in Lists, NotProbed(c)
  PROVE  /\ InstallProtocol(c, Dummy, CallerId) =
              [handles |-> Append(c.handles, Dummy),
               entries |-> Append(c.entries, DummyEntry(<<Dummy>>)),
               smis |-> c.smis, roots |-> c.roots]
         /\ InstallProtocol(c, Dummy, CallerId) \in Lists
         /\ DummyEntry(<<Dummy>>) \in ProtocolEntry
<1> DEFINE d == Probed(c)
           k == EntryOf(d, CallerId)
           hs == Append(c.handles, Dummy)
           e == DummyEntry(<<>>)
           f == DummyEntry(<<Dummy>>)
           s == Append(c.entries, e)
           r == InstallProtocol(c, Dummy, CallerId)
<1>1. /\ d = [handles |-> c.handles, entries |-> s, smis |-> c.smis, roots |-> c.roots]
      /\ d \in Lists /\ e \in ProtocolEntry /\ k = Len(c.entries) + 1
  BY ProbedForm
<1>2. r = [d EXCEPT !.handles = Append(@, Dummy), !.entries[k].Handles = Append(@, Dummy)]
  BY DEF InstallProtocol, Probed
<1>3. Dummy \in Names
  BY DEF Names
<1>4. Append(<<>>, Dummy) = <<Dummy>> /\ <<Dummy>> \in Seq(Names)
  BY <1>3
<1>5. f \in ProtocolEntry
  BY <1>4, EmptySeq DEF DummyEntry, ProtocolEntry, Names
<1>6. c.entries \in Seq(ProtocolEntry)
  BY ListsFields
<1>7. s[k] = e
  <2> HIDE DEF e
  <2> QED
    BY <1>1, <1>6, AppendProperties
<1>8. [e EXCEPT !.Handles = Append(@, Dummy)] = f
  BY <1>4 DEF DummyEntry
<1>9. [s EXCEPT ![k] = f] = Append(c.entries, f)
  <2> HIDE DEF e, f
  <2>1. /\ s \in Seq(ProtocolEntry) /\ Len(s) = k /\ Len(c.entries) = k - 1 /\ k \in 1 .. Len(s)
        /\ \A i \in 1 .. k - 1 : s[i] = c.entries[i]
    <3>1. /\ s \in Seq(ProtocolEntry) /\ Len(s) = Len(c.entries) + 1
          /\ \A i \in 1 .. Len(c.entries) : s[i] = c.entries[i]
      BY <1>1, <1>6, AppendProperties
    <3>2. Len(c.entries) \in Nat /\ k = Len(c.entries) + 1
      BY <1>1, <1>6
    <3> HIDE DEF s, k
    <3> QED
      BY <3>1, <3>2
  <2> HIDE DEF s, k
  <2> QED
    BY <1>5, <1>6, <2>1, LastReplaced
<1>10. [s EXCEPT ![k].Handles = Append(@, Dummy)] = [s EXCEPT ![k] = f]
  <2>1. [s EXCEPT ![k].Handles = Append(@, Dummy)]
          = [s EXCEPT ![k] = [s[k] EXCEPT !.Handles = Append(@, Dummy)]]
    OBVIOUS
  <2> QED
    BY <1>7, <1>8, <2>1
<1> HIDE DEF k, e, f
<1>11. r = [handles |-> hs, entries |-> [s EXCEPT ![k].Handles = Append(@, Dummy)],
            smis |-> c.smis, roots |-> c.roots]
  <2>1. d.handles = c.handles /\ d.entries = s /\ d.smis = c.smis /\ d.roots = c.roots
    BY <1>1
  <2> HIDE DEF d, s
  <2> QED
    BY <1>1, <1>2, <2>1 DEF Lists
<1>12. r = [handles |-> hs, entries |-> Append(c.entries, f), smis |-> c.smis, roots |-> c.roots]
  BY <1>9, <1>10, <1>11
<1>13. hs \in Seq(Names)
  BY <1>3, ListsFields, AppendProperties
<1>14. Append(c.entries, f) \in Seq(ProtocolEntry)
  BY <1>5, <1>6, AppendProperties
<1> HIDE DEF r, hs
<1>15. r \in Lists
  BY <1>12, <1>13, <1>14, ListsFields DEF Lists
<1> QED
  BY <1>5, <1>12, <1>15 DEF r, f, hs

(* The dummy on its handle, uninstalled: only its empty entry remains.      *)
LEMMA DummyUninstalled ==
  ASSUME NEW c \in Lists, NotProbed(c)
  PROVE  UninstallProtocol(InstallProtocol(c, Dummy, CallerId), Dummy, CallerId) = Probed(c)
<1> DEFINE d == InstallProtocol(c, Dummy, CallerId)
           k == EntryOf(d, CallerId)
           e == DummyEntry(<<>>)
           f == DummyEntry(<<Dummy>>)
           hs == Append(c.handles, Dummy)
           s == Append(c.entries, f)
           r == UninstallProtocol(d, Dummy, CallerId)
<1>1. /\ d = [handles |-> hs, entries |-> s, smis |-> c.smis, roots |-> c.roots]
      /\ d \in Lists /\ f \in ProtocolEntry
  BY DummyInstalled
<1>2. e \in ProtocolEntry
  BY ProbedForm
<1>3. c.entries \in Seq(ProtocolEntry) /\ Len(c.entries) \in Nat /\ c.handles \in Seq(Names)
  BY ListsFields
<1>4. Dummy \in Names
  BY DEF Names
<1>5. f.ProtocolID = CallerId /\ f.Handles = <<Dummy>>
  BY DEF DummyEntry
<1> HIDE DEF e, f
<1>6. /\ Len(s) = Len(c.entries) + 1 /\ s[Len(c.entries) + 1] = f
      /\ \A i \in 1 .. Len(c.entries) : s[i] = c.entries[i]
  BY <1>1, <1>3, AppendProperties
<1>7. k = Len(c.entries) + 1
  <2>1. d.entries = s
    BY <1>1
  <2>2. k # 0
    <3>1. Len(c.entries) + 1 \in 1 .. Len(d.entries)
          /\ d.entries[Len(c.entries) + 1].ProtocolID = CallerId
      BY <1>3, <1>5, <1>6, <2>1
    <3> QED
      BY <1>1, <3>1, EntryOfPlace
  <2>3. k \in 1 .. Len(c.entries) + 1 /\ s[k].ProtocolID = CallerId
    <3>1. k \in 0 .. Len(d.entries) /\ d.entries[k].ProtocolID = CallerId
      BY <1>1, <2>2, EntryOfPlace
    <3> HIDE DEF s, d, k
    <3> QED
      BY <1>3, <1>6, <2>1, <2>2, <3>1
  <2>4. \A i \in 1 .. Len(c.entries) : s[i].ProtocolID # CallerId
    BY <1>3, <1>6 DEF NotProbed, ToSet
  <2> QED
    BY <1>3, <2>3, <2>4
<1>8. Remaining(hs, {Dummy}) = c.handles
  BY <1>3, <1>4, NotInLists, RemainingFront
<1>9. Remaining(<<Dummy>>, {Dummy}) = <<>>
  <2> DEFINE none == <<>>
  <2>1. none \in Seq(Names) /\ Dummy \notin ToSet(none) /\ Append(none, Dummy) = <<Dummy>>
    BY <1>4 DEF ToSet
  <2> HIDE DEF none
  <2>2. Remaining(Append(none, Dummy), {Dummy}) = none
    BY <1>4, <2>1, RemainingFront
  <2> QED
    BY <2>1, <2>2 DEF none
<1>10. [f EXCEPT !.Handles = Remaining(@, {Dummy})] = e
  BY <1>9 DEF e, f, DummyEntry
<1>11. [s EXCEPT ![k].Handles = Remaining(@, {Dummy})] = Append(c.entries, e)
  <2>1. [s EXCEPT ![k].Handles = Remaining(@, {Dummy})]
          = [s EXCEPT ![k] = [s[k] EXCEPT !.Handles = Remaining(@, {Dummy})]]
    OBVIOUS
  <2>2. [s EXCEPT ![k] = e] = Append(c.entries, e)
    <3>1. s \in Seq(ProtocolEntry)
      BY <1>1, <1>3, AppendProperties
    <3>2. /\ Len(s) = k /\ Len(c.entries) = k - 1 /\ k \in 1 .. Len(s)
          /\ \A i \in 1 .. k - 1 : s[i] = c.entries[i]
      BY <1>3, <1>6, <1>7
    <3> HIDE DEF s, k
    <3> QED
      BY <1>2, <1>3, <3>1, <3>2, LastReplaced
  <2> QED
    BY <1>6, <1>7, <1>10, <2>1, <2>2
<1>12. r = [d EXCEPT !.handles = Remaining(@, {Dummy}),
                     !.entries[k].Handles = Remaining(@, {Dummy})]
  BY DEF UninstallProtocol
<1> HIDE DEF k
<1>13. r = [handles |-> Remaining(hs, {Dummy}),
            entries |-> [s EXCEPT ![k].Handles = Remaining(@, {Dummy})],
            smis |-> c.smis, roots |-> c.roots]
  <2>1. d.handles = hs /\ d.entries = s /\ d.smis = c.smis /\ d.roots = c.roots
    BY <1>1
  <2> HIDE DEF d, s, hs
  <2> QED
    BY <1>1, <1>12, <2>1 DEF Lists
<1> QED
  BY <1>8, <1>11, <1>13, ProbedForm DEF e

(* The dummy handler of a new SMI entry, unregistered: the entry goes too.  *)
LEMMA SmiProbed ==
  ASSUME NEW c \in Lists, SmiEntryOf(c, CallerId) = 0
  PROVE  SmiHandlerUnRegister(SmiHandlerRegister(c, CallerId, Dummy), CallerId, Dummy) = c
<1> DEFINE e == [HandlerType |-> CallerId, SmiHandlers |-> <<Dummy>>]
           s == Append(c.smis, e)
           d == SmiHandlerRegister(c, CallerId, Dummy)
           i == SmiEntryOf(d, CallerId)
           L == Len(c.smis)
<1>1. CallerId # None
  BY DEF CallerId, None
<1>2. d = [handles |-> c.handles, entries |-> c.entries, smis |-> s, roots |-> c.roots]
  BY <1>1 DEF SmiHandlerRegister, Lists
<1>3. c.smis \in Seq(SmiEntry) /\ L \in Nat
  BY ListsFields
<1>4. e \in SmiEntry /\ e.HandlerType = CallerId /\ e.SmiHandlers = <<Dummy>>
  <2>1. Dummy \in Names /\ CallerId \in Names
    BY DEF Names
  <2> QED
    BY <2>1, SingleMembers DEF SmiEntry
<1> HIDE DEF e
<1>5. /\ s \in Seq(SmiEntry) /\ Len(s) = L + 1 /\ s[L + 1] = e
      /\ \A j \in 1 .. L : s[j] = c.smis[j]
  BY <1>3, <1>4, AppendProperties
<1>6. SubSeq(s, 1, L) = c.smis
  BY <1>3, <1>4, FrontOfAppend
<1> HIDE DEF s, L
<1>7. d \in Lists /\ d.smis = s
  BY <1>2, <1>5, ListsFields DEF Lists
<1>8. i = L + 1
  <2>1. i # 0
    <3>1. L + 1 \in 1 .. Len(d.smis) /\ d.smis[L + 1].HandlerType = CallerId
      BY <1>3, <1>4, <1>5, <1>7
    <3> QED
      BY <1>7, <3>1, SmiEntryOfPlace
  <2>2. i \in 0 .. Len(d.smis) /\ d.smis[i].HandlerType = CallerId
    BY <1>7, <2>1, SmiEntryOfPlace
  <2>3. \A j \in 1 .. L : c.smis[j].HandlerType # CallerId
    BY SmiEntryOfPlace DEF L
  <2> HIDE DEF i, d
  <2> QED
    BY <1>3, <1>5, <1>7, <2>1, <2>2, <2>3
<1>9. SmiHandlerUnRegister(d, CallerId, Dummy) = [d EXCEPT !.smis = RemoveAt(@, i)]
  <2>1. d.smis[i].SmiHandlers = <<Dummy>>
    BY <1>4, <1>5, <1>7, <1>8
  <2> QED
    BY <1>1, <2>1 DEF SmiHandlerUnRegister
<1> HIDE DEF i
<1>10. RemoveAt(s, i) = c.smis
  <2>1. RemoveAt(s, i) = SubSeq(s, 1, i - 1) \o SubSeq(s, i + 1, Len(s))
    BY DEF RemoveAt
  <2>2. i - 1 = L /\ i + 1 \in Int /\ Len(s) \in Int /\ Len(s) < i + 1
    BY <1>3, <1>5, <1>8
  <2>3. SubSeq(s, i + 1, Len(s)) = <<>>
    BY <2>2, SubSeqEmpty
  <2> QED
    BY <1>3, <1>6, <2>1, <2>2, <2>3, ConcatEmptySeq
<1>11. [d EXCEPT !.smis = RemoveAt(@, i)] = [d EXCEPT !.smis = c.smis]
  BY <1>7, <1>10
<1>12. [d EXCEPT !.smis = c.smis] = c
  BY <1>2, ListsFields
<1> QED
  BY <1>9, <1>11, <1>12

LEMMA RootProbed ==
  ASSUME NEW c \in Lists, Dummy \notin ToSet(c.roots)
  PROVE  SmiHandlerUnRegister(SmiHandlerRegister(c, None, Dummy), None, Dummy) = c
<1> DEFINE s == Append(c.roots, Dummy)
           d == SmiHandlerRegister(c, None, Dummy)
<1>1. d = [handles |-> c.handles, entries |-> c.entries, smis |-> c.smis, roots |-> s]
  BY DEF SmiHandlerRegister, Lists
<1>2. Remaining(s, {Dummy}) = c.roots
  <2>1. Dummy \in Names /\ c.roots \in Seq(Names)
    BY ListsFields DEF Names
  <2> QED
    BY <2>1, RemainingFront
<1>3. SmiHandlerUnRegister(d, None, Dummy) = [d EXCEPT !.roots = Remaining(@, {Dummy})]
  BY DEF SmiHandlerUnRegister
<1>4. [d EXCEPT !.roots = Remaining(@, {Dummy})] = [d EXCEPT !.roots = c.roots]
  BY <1>1, <1>2
<1>5. [d EXCEPT !.roots = c.roots] = c
  <2> HIDE DEF s
  <2> QED
    BY <1>1, ListsFields
<1> QED
  BY <1>3, <1>4, <1>5

(***************************************************************************)
(* What a dump shows                                                       *)
(***************************************************************************)

LEMMA DumpedUntouched ==
  ASSUME NEW c \in Lists, NotProbed(c)
  PROVE  Dumped(c) = c
BY NotInLists, ListsFields DEF Dumped

(* The dump stops at the entry of the dummy, which is behind all others.    *)
LEMMA DumpedProbed ==
  ASSUME NEW c \in Lists, NotProbed(c)
  PROVE  Dumped(Probed(c)) = c
<1> DEFINE d == Probed(c)
           e == DummyEntry(<<>>)
           s == Append(c.entries, e)
           k == EntryOf(d, CallerId)
<1>1. /\ d = [handles |-> c.handles, entries |-> s, smis |-> c.smis, roots |-> c.roots]
      /\ d \in Lists /\ e \in ProtocolEntry /\ k = Len(c.entries) + 1
  BY ProbedForm
<1>2. c.entries \in Seq(ProtocolEntry) /\ Len(c.entries) \in Nat
  BY ListsFields
<1> HIDE DEF e
<1>3. SubSeq(s, 1, Len(c.entries)) = c.entries
  BY <1>1, <1>2, FrontOfAppend
<1> HIDE DEF s, k
<1>4. k # 0 /\ k - 1 = Len(c.entries)
  BY <1>1, <1>2
<1>5. Dumped(d) = [d EXCEPT !.entries = SubSeq(@, 1, k - 1)]
  BY <1>4 DEF Dumped, k
<1>6. [d EXCEPT !.entries = SubSeq(@, 1, k - 1)] = [d EXCEPT !.entries = c.entries]
  BY <1>1, <1>3, <1>4, SMTT(40)
<1> QED
  BY <1>1, <1>5, <1>6, ListsFields

(* Without the handler for the application.                                 *)
Shown(c) ==
  Dumped([c EXCEPT !.smis = Where(@, {e \in ToSet(@) : e.HandlerType # "mSmmCoreDumpGuid"})])

LEMMA ShownUntouched ==
  ASSUME NEW c \in Lists, NotProbed(c)
  PROVE  Shown(c) = c
<1> DEFINE Keep == {e \in ToSet(c.smis) : e.HandlerType # "mSmmCoreDumpGuid"}
<1>1. c.smis \in Seq(SmiEntry) /\ Len(c.smis) \in Nat
  BY ListsFields
<1>2. \A i \in 1 .. Len(c.smis) : c.smis[i] \in Keep
  BY <1>1 DEF NotProbed, ToSet
<1> HIDE DEF Keep
<1>3. Where(c.smis, Keep) = c.smis
  <2> DEFINE s == c.smis
             L == Len(s)
  <2>1. L \in 0 .. L /\ (\A i \in 1 .. L : s[i] \in Keep) /\ \A i \in L + 1 .. Len(s) : s[i] \notin Keep
    BY <1>1, <1>2
  <2>2. s \in Seq(SmiEntry)
    BY <1>1
  <2> HIDE DEF s
  <2>3. Where(s, Keep) = SubSeq(s, 1, L)
    BY <2>1, <2>2, WhereFront
  <2>4. SubSeq(s, 1, Len(s)) = s
    BY <2>2, SubSeqFull
  <2> QED
    BY <2>3, <2>4 DEF s
<1>4. [c EXCEPT !.smis = Where(@, Keep)] = c
  BY <1>3, ListsFields
<1> QED
  BY <1>4, DumpedUntouched DEF Shown, Keep

LEMMA ShownRegistered ==
  ASSUME NEW c \in Lists, NotProbed(c)
  PROVE  LET d == SmiHandlerRegister(Probed(c), "mSmmCoreDumpGuid", Own)
         IN  d \in Lists /\ Shown(d) = c
<1> DEFINE p == Probed(c)
           d == SmiHandlerRegister(p, "mSmmCoreDumpGuid", Own)
           e == [HandlerType |-> "mSmmCoreDumpGuid", SmiHandlers |-> <<Own>>]
           s == Append(c.smis, e)
           L == Len(c.smis)
           Keep == {x \in ToSet(s) : x.HandlerType # "mSmmCoreDumpGuid"}
<1>1. /\ p = [handles |-> c.handles, entries |-> Append(c.entries, DummyEntry(<<>>)),
              smis |-> c.smis, roots |-> c.roots]
      /\ p \in Lists
  BY ProbedForm
<1>2. "mSmmCoreDumpGuid" \in Names /\ Own \in Names
  BY DEF Names
<1>3. d \in Lists
  BY <1>1, <1>2, SmiRegisterType
<1>4. SmiEntryOf(p, "mSmmCoreDumpGuid") = 0
  <2>1. p.smis = c.smis
    BY <1>1
  <2> HIDE DEF p
  <2>2. SmiEntryOf(p, "mSmmCoreDumpGuid") = SmiEntryOf(c, "mSmmCoreDumpGuid")
    BY <2>1 DEF SmiEntryOf
  <2> QED
    BY <2>2, NotInLists
<1>5. d = [p EXCEPT !.smis = s]
  <2>1. "mSmmCoreDumpGuid" # None
    BY DEF None
  <2>2. d = [p EXCEPT !.smis = Append(@, e)]
    BY <1>4, <2>1 DEF SmiHandlerRegister
  <2>3. p.smis = c.smis
    BY <1>1
  <2> HIDE DEF p
  <2> QED
    BY <2>2, <2>3
<1>6. c.smis \in Seq(SmiEntry) /\ L \in Nat
  BY ListsFields
<1>7. e \in SmiEntry /\ e.HandlerType = "mSmmCoreDumpGuid"
  BY <1>2, SingleMembers DEF SmiEntry
<1> HIDE DEF e
<1>8. /\ s \in Seq(SmiEntry) /\ Len(s) = L + 1 /\ s[L + 1] = e
      /\ \A i \in 1 .. L : s[i] = c.smis[i]
  BY <1>6, <1>7, AppendProperties
<1>9. SubSeq(s, 1, L) = c.smis
  BY <1>6, <1>7, FrontOfAppend
<1>10. \A i \in 1 .. L : c.smis[i].HandlerType # "mSmmCoreDumpGuid"
  BY <1>6 DEF NotProbed, ToSet
<1>11. (\A i \in 1 .. L : s[i] \in Keep) /\ \A i \in L + 1 .. Len(s) : s[i] \notin Keep
  <2> HIDE DEF s, L
  <2>1. ToSet(s) = {s[i] : i \in 1 .. Len(s)}
    BY <1>8, MembersOfSeq
  <2> QED
    BY <1>6, <1>7, <1>8, <1>10, <2>1
<1> HIDE DEF s, L, Keep
<1>12. Where(s, Keep) = SubSeq(s, 1, L)
  <2>1. L \in 0 .. Len(s)
    BY <1>6, <1>8
  <2> QED
    BY <1>8, <1>11, <2>1, WhereFront
<1>13. d.smis = s
  BY <1>1, <1>5
<1>14. [d EXCEPT !.smis = Where(@, Keep)] = p
  <2>1. p.smis = c.smis /\ Where(d.smis, Keep) = p.smis
    <3>1. p.smis = c.smis
      BY <1>1
    <3>2. Where(d.smis, Keep) = Where(s, Keep)
      BY <1>13
    <3> QED
      BY <1>9, <1>12, <3>1, <3>2
  <2>2. p = [handles |-> p.handles, entries |-> p.entries, smis |-> p.smis, roots |-> p.roots]
    BY <1>1, ListsFields
  <2> HIDE DEF p, d
  <2> QED
    BY <1>5, <2>1, <2>2
<1> HIDE DEF d
<1>15. Shown(d) = Dumped(p)
  BY <1>13, <1>14 DEF Shown, Keep
<1> QED
  BY <1>3, <1>15, DumpedProbed DEF d

(***************************************************************************)
(* The table of the images                                                 *)
(***************************************************************************)

LEMMA TypesOfConstants ==
  /\ SmmDrivers \in Seq(Names) /\ InSmram \in Seq(Names) /\ Len(DxeImages) \in Nat
  /\ ToSet(InSmram) = {SmmCore} \cup ToSet(SmmDrivers) /\ SmmCore \notin ToSet(SmmDrivers)
  /\ Len(Calls) \in Nat /\ \A i \in 1 .. Len(Calls) : Calls[i] \in Names /\ Calls[i] # Dummy
<1>1. STRING \subseteq Names /\ SmmCore \in Names
  BY DEF Names
<1>2. SmmDrivers \in Seq(Names) /\ DxeImages \in Seq(Names) /\ Calls \in Seq(Names)
  BY <1>1, NamesAssumption, SeqMonotonic
<1>3. <<SmmCore>> \in Seq(Names) /\ ToSet(<<SmmCore>>) = {SmmCore}
  BY <1>1, SingleMembers
<1>4. InSmram \in Seq(Names) /\ ToSet(InSmram) = {SmmCore} \cup ToSet(SmmDrivers)
  <2> DEFINE one == <<SmmCore>>
  <2>1. one \in Seq(Names) /\ ToSet(one) = {SmmCore}
    BY <1>3
  <2> HIDE DEF one
  <2>2. /\ one \o SmmDrivers \in Seq(Names)
        /\ ToSet(one \o SmmDrivers) = ToSet(one) \cup ToSet(SmmDrivers)
    BY <1>2, <2>1, ConcatMembers
  <2> QED
    BY <2>1, <2>2 DEF InSmram, one
<1>5. Len(Calls) \in Nat /\ Len(DxeImages) \in Nat /\ ToSet(Calls) = {Calls[i] : i \in 1 .. Len(Calls)}
  BY <1>2, MembersOfSeq
<1>6. \A i \in 1 .. Len(Calls) : Calls[i] \in Names /\ Calls[i] # Dummy
  BY <1>2, <1>5, NamesAssumption
<1> QED
  BY <1>2, <1>4, <1>5, <1>6, NamesAssumption

(* The names from slot n on, in a table that may be too small for them.     *)
LEMMA TableFilled ==
  ASSUME NEW names \in Seq(Names), NEW n \in Nat, NEW max \in Nat
  PROVE  LET m == IF n + Len(names) <= max THEN n + Len(names) ELSE max
             t == [i \in 1 .. max |-> IF i \in n + 1 .. m THEN names[i - n] ELSE ""]
         IN  /\ m \in Nat /\ t \in Seq(Names)
             /\ n + Len(names) <= max =>
                  m <= Len(t) /\ ToSet(names) \subseteq {t[i] : i \in 1 .. m}
<1> DEFINE L == Len(names)
           m == IF n + L <= max THEN n + L ELSE max
           t == [i \in 1 .. max |-> IF i \in n + 1 .. m THEN names[i - n] ELSE ""]
<1>1. L \in Nat /\ \A j \in 1 .. L : names[j] \in Names
  OBVIOUS
<1>2. ToSet(names) = {names[j] : j \in 1 .. L}
  BY MembersOfSeq
<1>3. "" \in Names
  BY DEF Names
<1> HIDE DEF L
<1>4. m \in Nat /\ m <= max /\ m <= n + L
  BY <1>1
<1>5. n + L <= max => m = n + L
  OBVIOUS
<1> HIDE DEF m
<1>6. \A i \in 1 .. max : (IF i \in n + 1 .. m THEN names[i - n] ELSE "") \in Names
  <2> SUFFICES ASSUME NEW i \in 1 .. max
               PROVE  (IF i \in n + 1 .. m THEN names[i - n] ELSE "") \in Names
    OBVIOUS
  <2>1. i \in n + 1 .. m => i - n \in 1 .. L
    BY <1>1, <1>4
  <2> QED
    BY <1>1, <1>3, <2>1
<1>7. t \in Seq(Names) /\ Len(t) = max
  <2>1. t \in [1 .. max -> Names]
    BY <1>6
  <2> HIDE DEF t
  <2> QED
    BY <2>1
<1>8. ASSUME n + L <= max
      PROVE  m <= Len(t) /\ ToSet(names) \subseteq {t[i] : i \in 1 .. m}
  <2>1. m = n + L /\ m <= max
    BY <1>4, <1>5, <1>8
  <2>2. ASSUME NEW j \in 1 .. L
        PROVE  n + j \in 1 .. m /\ t[n + j] = names[j]
    <3>1. n + j \in n + 1 .. m /\ n + j \in 1 .. max /\ (n + j) - n = j
      BY <1>1, <2>1
    <3>2. t[n + j] = names[(n + j) - n]
      BY <3>1
    <3> QED
      BY <1>1, <2>1, <3>1, <3>2
  <2> HIDE DEF t
  <2>3. \A j \in 1 .. L : names[j] \in {t[i] : i \in 1 .. m}
    BY <2>2
  <2> QED
    BY <1>2, <1>4, <1>7, <2>1, <2>3
<1> QED
  BY <1>4, <1>7, <1>8 DEF L, m

(***************************************************************************)
(* The inductive invariant                                                 *)
(***************************************************************************)

LEMMA DriverInitIInv == DriverInit => DriverIInv
<1> SUFFICES ASSUME DriverInit PROVE DriverIInv
  OBVIOUS
<1> USE DEF DriverInit
<1>1. ToSet(<<>>) = {}
  BY DEF ToSet
<1>2. EmptyCore \in Lists
  BY DEF EmptyCore, Lists
<1>3. NotProbed(EmptyCore)
  BY <1>1 DEF EmptyCore, NotProbed
<1>4. DriverTypeOK
  <2>1. core \in Lists /\ locked \in Lists
    BY <1>2
  <2>2. others \in 0 .. Len(Calls) /\ countMax \in Nat /\ count \in Nat
    BY TypesOfConstants
  <2>3. smmImages \in {<<>>, SmmDrivers, InSmram} /\ coreFound \in BOOLEAN /\ imageStruct = NullPointer
    OBVIOUS
  <2> QED
    BY <2>1, <2>2, <2>3 DEF DriverTypeOK
<1>5. LeftInLists
  BY <1>3 DEF LeftInLists, DxePhase
<1>6. ImagesInTable
  BY DEF ImagesInTable
<1> QED
  BY <1>4, <1>5, <1>6 DEF DriverIInv, ListsAreThoseLocked, EveryImageIsKnown

(* The properties that only speak of what a step leaves alone.              *)
LEMMA DatabaseKept ==
  ASSUME DriverIInv, database' = database, locked' = locked \/ database = NullPointer
  PROVE  ListsAreThoseLocked' /\ EveryImageIsKnown'
BY DEF DriverIInv, ListsAreThoseLocked, EveryImageIsKnown

LEMMA OtherDriverStep ==
  ASSUME DriverIInv, OtherDriver
  PROVE  DriverIInv'
<1> USE DEF DriverIInv, OtherDriver
<1>1. core \in Lists /\ NotProbed(core) /\ others' \in 0 .. Len(Calls)
  BY TypesOfConstants DEF DriverTypeOK, LeftInLists
<1>2. Calls[others'] \in Names /\ Calls[others'] # Dummy
  <2>1. others' \in 1 .. Len(Calls)
    BY TypesOfConstants DEF DriverTypeOK
  <2> QED
    BY <2>1, TypesOfConstants
<1>3. core' \in Lists /\ NotProbed(core')
  <2>1. ASSUME NEW p \in {"P", "Q"}, core' = InstallProtocol(core, Calls[others'], p)
        PROVE  core' \in Lists /\ NotProbed(core')
    <3>1. p \in Names /\ p # CallerId
      BY DEF Names, CallerId
    <3> QED
      BY <1>1, <1>2, <2>1, <3>1, InstallKeeps
  <2>2. ASSUME NEW t \in {"T", None}, core' = SmiHandlerRegister(core, t, Calls[others'])
        PROVE  core' \in Lists /\ NotProbed(core')
    <3>1. t \in Names /\ t \notin {CallerId, "mSmmCoreDumpGuid"}
      BY DEF Names, CallerId, None
    <3> QED
      BY <1>1, <1>2, <2>2, <3>1, SmiRegisterType, SmiRegisterKeeps
  <2> QED
    BY <1>1, <2>1, <2>2
<1>4. DriverTypeOK'
  BY <1>1, <1>3 DEF DriverTypeOK
<1>5. LeftInLists'
  BY <1>3 DEF LeftInLists, DxePhase
<1>6. ImagesInTable'
  BY DEF ImagesInTable, DxePhase
<1> QED
  BY <1>4, <1>5, <1>6, DatabaseKept

LEMMA EntrypointStep ==
  ASSUME DriverIInv, SmmCoreDumpEntrypoint
  PROVE  DriverIInv'
<1> USE DEF DriverIInv, SmmCoreDumpEntrypoint
<1> DEFINE one == RegisterProtocolNotify(core, ReadyToLock, "SmmReadyToLockInSmmCoreDump")
           two == RegisterProtocolNotify(one, EndOfDxe, "SmmEndOfDxeInSmmChildDump")
<1>1. core \in Lists /\ NotProbed(core)
  BY DEF DriverTypeOK, LeftInLists, DxePhase
<1>2. one \in Lists /\ NotProbed(one)
  <2>1. /\ ReadyToLock \in Names /\ "SmmReadyToLockInSmmCoreDump" \in Names
        /\ ReadyToLock # CallerId
    BY DEF Names, ReadyToLock, CallerId
  <2> QED
    BY <1>1, <2>1, NotifyKeeps
<1>3. two \in Lists /\ NotProbed(two)
  <2>1. /\ EndOfDxe \in Names /\ "SmmEndOfDxeInSmmChildDump" \in Names
        /\ EndOfDxe # CallerId
    BY DEF Names, EndOfDxe, CallerId
  <2> HIDE DEF one
  <2> QED
    BY <1>2, <2>1, NotifyKeeps
<1>4. core' \in Lists /\ NotProbed(core')
  <2>1. core' = one \/ core' = two
    OBVIOUS
  <2> HIDE DEF one, two
  <2> QED
    BY <1>2, <1>3, <2>1
<1>5. DriverTypeOK'
  BY <1>4 DEF DriverTypeOK, env, driver
<1>6. LeftInLists'
  BY <1>4 DEF LeftInLists, DxePhase, driver
<1>7. ImagesInTable'
  BY DEF ImagesInTable, DxePhase, driver
<1> QED
  BY <1>5, <1>6, <1>7, DatabaseKept DEF driver

LEMMA EndOfDxeStep ==
  ASSUME DriverIInv, SmmEndOfDxeInSmmChildDump
  PROVE  DriverIInv'
<1> USE DEF DriverIInv, SmmEndOfDxeInSmmChildDump
<1>1. core' \in Lists /\ NotProbed(core')
  <2>1. core \in Lists /\ NotProbed(core)
    BY DEF DriverTypeOK, LeftInLists, DxePhase
  <2>2. EndOfDxe \in Names /\ EndOfDxe # CallerId /\ EndOfDxe # Dummy
    BY DEF Names, EndOfDxe, CallerId, Dummy
  <2> QED
    BY <2>1, <2>2, InstallKeeps
<1>2. DriverTypeOK'
  BY <1>1 DEF DriverTypeOK, env
<1>3. LeftInLists'
  BY <1>1 DEF LeftInLists, DxePhase
<1>4. ImagesInTable'
  BY DEF ImagesInTable, DxePhase
<1> QED
  BY <1>2, <1>3, <1>4, DatabaseKept

LEMMA ReadyToLockStep ==
  ASSUME DriverIInv, SmmReadyToLockInSmmCoreDump
  PROVE  DriverIInv'
<1> USE DEF DriverIInv, SmmReadyToLockInSmmCoreDump
<1>1. core' \in Lists /\ NotProbed(core')
  <2>1. core \in Lists /\ NotProbed(core)
    BY DEF DriverTypeOK, LeftInLists, DxePhase
  <2>2. ReadyToLock \in Names /\ ReadyToLock # CallerId /\ ReadyToLock # Dummy
    BY DEF Names, ReadyToLock, CallerId, Dummy
  <2> QED
    BY <2>1, <2>2, InstallKeeps
<1>2. DriverTypeOK'
  BY <1>1 DEF DriverTypeOK, env, driver
<1>3. LeftInLists'
  BY <1>1 DEF LeftInLists, DxePhase
<1>4. ImagesInTable'
  BY DEF ImagesInTable, DxePhase, driver
<1>5. database = NullPointer
  BY DEF LeftInLists, DxePhase
<1> QED
  BY <1>2, <1>3, <1>4, <1>5, DatabaseKept DEF driver

LEMMA ImagesAdded ==
  ASSUME NEW names \in Seq(Names), count \in Nat, coreFound \in BOOLEAN, countMax' \in Nat,
         AddImageStructs(names)
  PROVE  /\ count' \in Nat /\ imageStruct' \in Seq(Names)
         /\ coreFound' = (coreFound \/ SmmCore \in ToSet(names))
         /\ ~ Overflow(names, countMax') =>
              /\ count' <= Len(imageStruct')
              /\ ToSet(names) \subseteq {imageStruct'[i] : i \in 1 .. count'}
<1> DEFINE L == Len(names)
           m == IF count + L <= countMax' THEN count + L ELSE countMax'
           t == [i \in 1 .. countMax' |-> IF i \in count + 1 .. m THEN names[i - count] ELSE ""]
<1>1. L \in Nat
  OBVIOUS
<1>2. count' = m /\ coreFound' = (coreFound \/ SmmCore \in Range(names))
  BY DEF AddImageStructs
<1>3. imageStruct' = t
  BY <1>2 DEF AddImageStructs
<1>4. /\ m \in Nat /\ t \in Seq(Names)
      /\ count + L <= countMax' => m <= Len(t) /\ ToSet(names) \subseteq {t[i] : i \in 1 .. m}
  BY TableFilled
<1>5. ~ Overflow(names, countMax') => count + L <= countMax'
  BY <1>1 DEF Overflow
<1>6. Range(names) = ToSet(names)
  BY DEF Range, ToSet
<1> HIDE DEF m, t
<1> QED
  BY <1>2, <1>3, <1>4, <1>5, <1>6

LEMMA GetSmmLoadedImageStep ==
  ASSUME DriverIInv, GetSmmLoadedImage
  PROVE  DriverIInv'
<1> DEFINE Filled == smmImages # <<>> /\ countMax' = Len(smmImages) /\ AddImageStructs(smmImages)
<1>1. /\ count = 0 /\ coreFound = FALSE /\ coreFound \in BOOLEAN
      /\ smmImages \in {<<>>, SmmDrivers, InSmram}
  BY DEF DriverIInv, GetSmmLoadedImage, ImagesInTable, DriverTypeOK
<1>2. smmImages \in Seq(Names)
  <2>1. SmmDrivers \in Seq(Names) /\ InSmram \in Seq(Names) /\ <<>> \in Seq(Names)
    BY TypesOfConstants
  <2> QED
    BY <1>1, <2>1
<1>3. Len(smmImages) \in Nat
  BY <1>2
<1>4. ASSUME Filled
      PROVE  /\ count' \in Nat /\ imageStruct' \in Seq(Names) /\ coreFound' \in BOOLEAN
             /\ countMax' \in Nat
             /\ coreFound' => /\ count' <= Len(imageStruct')
                              /\ ToSet(InSmram) \subseteq {imageStruct'[i] : i \in 1 .. count'}
  <2>1. /\ count' \in Nat /\ imageStruct' \in Seq(Names)
        /\ coreFound' = (coreFound \/ SmmCore \in ToSet(smmImages))
        /\ ~ Overflow(smmImages, countMax') =>
             /\ count' <= Len(imageStruct')
             /\ ToSet(smmImages) \subseteq {imageStruct'[i] : i \in 1 .. count'}
    BY <1>1, <1>2, <1>3, <1>4, ImagesAdded
  <2>2. ~ Overflow(smmImages, countMax')
    BY <1>1, <1>3, <1>4 DEF Overflow
  <2>3. SmmCore \in ToSet(smmImages) => smmImages = InSmram
    <3>1. ToSet(<<>>) = {}
      BY DEF ToSet
    <3>2. CASE smmImages = <<>>
      BY <3>1, <3>2
    <3>3. CASE smmImages = SmmDrivers
      BY <3>3, TypesOfConstants
    <3> QED
      BY <1>1, <3>2, <3>3
  <2> QED
    BY <1>1, <1>3, <1>4, <2>1, <2>2, <2>3
<1>5. /\ \/ /\ UNCHANGED <<imageStruct, count, coreFound>>
            /\ countMax' \in {countMax, Len(smmImages)}
            /\ phase' = "GetLoadedImage"
         \/ Filled /\ phase' = "Install" /\ coreFound'
         \/ Filled /\ phase' \in {"GetLoadedImage", "ASSERT image"}
      /\ UNCHANGED <<core, smmImages, others, locked, database>> /\ phase = "GetSmmLoadedImage"
  BY DEF GetSmmLoadedImage, env
<1> HIDE DEF Filled
<1>6. DriverTypeOK'
  <2>1. core' \in Lists /\ locked' \in Lists /\ others' \in 0 .. Len(Calls)
        /\ smmImages' \in {<<>>, SmmDrivers, InSmram}
    BY <1>5 DEF DriverIInv, DriverTypeOK
  <2>2. CASE Filled
    BY <1>4, <2>1, <2>2 DEF DriverTypeOK
  <2>3. CASE UNCHANGED <<imageStruct, count, coreFound>> /\ countMax' \in {countMax, Len(smmImages)}
    <3>1. countMax' \in Nat
      BY <1>3, <2>3 DEF DriverIInv, DriverTypeOK
    <3> QED
      BY <2>1, <2>3, <3>1 DEF DriverIInv, DriverTypeOK
  <2> QED
    BY <1>5, <2>2, <2>3
<1>7. LeftInLists'
  BY <1>5 DEF DriverIInv, LeftInLists, DxePhase
<1>8. ImagesInTable'
  <2>1. CASE phase' \in {"GetLoadedImage", "ASSERT image"}
    BY <2>1 DEF ImagesInTable, DxePhase
  <2>2. CASE Filled /\ phase' = "Install" /\ coreFound'
    <3>1. /\ imageStruct' \in Seq(Names) /\ count' <= Len(imageStruct')
          /\ ToSet(InSmram) \subseteq {imageStruct'[i] : i \in 1 .. count'}
      BY <1>4, <2>2
    <3> QED
      BY <2>2, <3>1 DEF ImagesInTable, DxePhase, InSmram
  <2> QED
    BY <1>5, <2>1, <2>2
<1> QED
  BY <1>5, <1>6, <1>7, <1>8, DatabaseKept DEF DriverIInv

LEMMA GetLoadedImageStep ==
  ASSUME DriverIInv, GetLoadedImage
  PROVE  DriverIInv'
<1> DEFINE max == Len(DxeImages) + Len(InSmram)
           Filled == countMax' = max /\ AddImageStructs(InSmram)
<1>1. InSmram \in Seq(Names) /\ Len(DxeImages) \in Nat
  BY TypesOfConstants
<1>2. max \in Nat /\ count \in Nat /\ coreFound \in BOOLEAN
  <2>1. Len(InSmram) \in Nat
    BY <1>1
  <2> QED
    BY <1>1, <2>1 DEF DriverIInv, DriverTypeOK
<1> HIDE DEF max
<1>3. ASSUME Filled
      PROVE  /\ count' \in Nat /\ imageStruct' \in Seq(Names) /\ coreFound' \in BOOLEAN
             /\ countMax' \in Nat
             /\ ~ Overflow(InSmram, countMax') =>
                  /\ count' <= Len(imageStruct')
                  /\ ToSet(InSmram) \subseteq {imageStruct'[i] : i \in 1 .. count'}
  BY <1>1, <1>2, <1>3, ImagesAdded
<1>4. /\ \/ /\ UNCHANGED <<count, coreFound>> /\ imageStruct' \in {imageStruct, NullPointer}
            /\ countMax' \in {countMax, max}
            /\ phase' = "Done"
         \/ Filled /\ phase' = "Install" /\ ~ Overflow(InSmram, countMax')
         \/ Filled /\ phase' = "ASSERT image"
      /\ UNCHANGED <<core, smmImages, others, locked, database>> /\ phase = "GetLoadedImage"
  BY DEF GetLoadedImage, env, max
<1> HIDE DEF Filled
<1>5. DriverTypeOK'
  <2>1. core' \in Lists /\ locked' \in Lists /\ others' \in 0 .. Len(Calls)
        /\ smmImages' \in {<<>>, SmmDrivers, InSmram}
    BY <1>4 DEF DriverIInv, DriverTypeOK
  <2>2. CASE Filled
    BY <1>3, <2>1, <2>2 DEF DriverTypeOK
  <2>3. CASE /\ UNCHANGED <<count, coreFound>> /\ imageStruct' \in {imageStruct, NullPointer}
             /\ countMax' \in {countMax, max}
    <3>1. countMax' \in Nat
      BY <1>2, <2>3 DEF DriverIInv, DriverTypeOK
    <3> QED
      BY <2>1, <2>3, <3>1 DEF DriverIInv, DriverTypeOK
  <2> QED
    BY <1>4, <2>2, <2>3
<1>6. LeftInLists'
  BY <1>4 DEF DriverIInv, LeftInLists, DxePhase
<1>7. ImagesInTable'
  <2>1. CASE phase' \in {"Done", "ASSERT image"}
    BY <2>1 DEF ImagesInTable, DxePhase
  <2>2. CASE Filled /\ phase' = "Install" /\ ~ Overflow(InSmram, countMax')
    <3>1. /\ imageStruct' \in Seq(Names) /\ count' <= Len(imageStruct')
          /\ ToSet(InSmram) \subseteq {imageStruct'[i] : i \in 1 .. count'}
      BY <1>3, <2>2
    <3> QED
      BY <2>2, <3>1 DEF ImagesInTable, DxePhase, InSmram
  <2> QED
    BY <1>4, <2>1, <2>2
<1> QED
  BY <1>4, <1>5, <1>6, <1>7, DatabaseKept DEF DriverIInv

(* The steps that leave the images, and the lists as they were locked.      *)
LEMMA ProbingStep ==
  ASSUME DriverIInv, ~ DxePhase,
         phase' \in {"FindLists", "GuidSmi", "RootSmi", "Build", "Register", "Done",
                     "NULL list", "ASSERT handler"},
         \/ phase \in {"Install", "FindLists", "GuidSmi", "RootSmi", "Build"}
         \/ phase' \in {"Done", "ASSERT handler"},
         UNCHANGED <<smmImages, others, locked, coreFound, imageStruct, countMax, count>>,
         core' \in Lists,
         phase' = "FindLists" => core' = InstallProtocol(locked, Dummy, CallerId),
         phase' \in {"GuidSmi", "RootSmi", "Build", "Register"} => core' = Probed(locked),
         phase' = "Done" =>
           core' \in {locked, SmiHandlerRegister(Probed(locked), "mSmmCoreDumpGuid", Own)}
  PROVE  DriverTypeOK' /\ LeftInLists' /\ ImagesInTable'
<1>1. DriverTypeOK'
  BY DEF DriverIInv, DriverTypeOK
<1>2. ~ DxePhase'
  BY DEF DxePhase
<1>3. NotProbed(locked')
  BY DEF DriverIInv, LeftInLists
<1>4. LeftInLists'
  BY <1>2, <1>3 DEF LeftInLists
<1>5. ImagesInTable'
  BY <1>2 DEF DriverIInv, ImagesInTable
<1> QED
  BY <1>1, <1>4, <1>5

(* What is known of the locked lists.                                       *)
LEMMA LockedLists ==
  ASSUME DriverIInv, ~ DxePhase
  PROVE  /\ locked \in Lists /\ NotProbed(locked) /\ Probed(locked) \in Lists
         /\ InstallProtocol(locked, Dummy, CallerId) \in Lists
         /\ SmiEntryOf(Probed(locked), CallerId) = 0 /\ Dummy \notin ToSet(Probed(locked).roots)
<1>1. locked \in Lists /\ NotProbed(locked)
  BY DEF DriverIInv, DriverTypeOK, LeftInLists
<1>2. /\ Probed(locked) = [handles |-> locked.handles,
                           entries |-> Append(locked.entries, DummyEntry(<<>>)),
                           smis |-> locked.smis, roots |-> locked.roots]
      /\ Probed(locked) \in Lists
  BY <1>1, ProbedForm
<1>3. Probed(locked).smis = locked.smis /\ Probed(locked).roots = locked.roots
  BY <1>2
<1>4. SmiEntryOf(Probed(locked), CallerId) = SmiEntryOf(locked, CallerId)
  BY <1>3 DEF SmiEntryOf
<1> QED
  BY <1>1, <1>2, <1>3, <1>4, NotInLists, DummyInstalled

LEMMA InstallDummyStep ==
  ASSUME DriverIInv, InstallDummyProtocol
  PROVE  DriverIInv'
<1>1. ~ DxePhase /\ core = locked /\ core \in Lists
  BY DEF DriverIInv, InstallDummyProtocol, DxePhase, LeftInLists, DriverTypeOK
<1>2. /\ \/ core' = InstallProtocol(locked, Dummy, CallerId) /\ phase' = "FindLists"
         \/ core' = locked /\ phase' = "Done"
      /\ phase = "Install" /\ database' = database
      /\ UNCHANGED <<smmImages, others, locked, coreFound, imageStruct, countMax, count>>
  BY <1>1 DEF InstallDummyProtocol, env, driver
<1>3. core' \in Lists
  BY <1>1, <1>2, LockedLists
<1>4. DriverTypeOK' /\ LeftInLists' /\ ImagesInTable'
  BY <1>1, <1>2, <1>3, ProbingStep
<1> QED
  BY <1>2, <1>4, DatabaseKept DEF DriverIInv

LEMMA GetSmmCoreListsStep ==
  ASSUME DriverIInv, GetSmmCoreLists
  PROVE  DriverIInv'
<1>1. ~ DxePhase /\ core = InstallProtocol(locked, Dummy, CallerId)
  BY DEF DriverIInv, GetSmmCoreLists, DxePhase, LeftInLists
<1>2. core' = UninstallProtocol(core, Dummy, CallerId)
  BY DEF GetSmmCoreLists
<1>3. core' = Probed(locked) /\ core' \in Lists
  BY <1>1, <1>2, LockedLists, DummyUninstalled
<1>4. /\ phase' \in {"GuidSmi", "NULL list"} /\ phase = "FindLists" /\ database' = database
      /\ UNCHANGED <<smmImages, others, locked, coreFound, imageStruct, countMax, count>>
  BY DEF GetSmmCoreLists, env
<1>5. DriverTypeOK' /\ LeftInLists' /\ ImagesInTable'
  BY <1>1, <1>3, <1>4, ProbingStep
<1> QED
  BY <1>4, <1>5, DatabaseKept DEF DriverIInv

LEMMA SmiListStep ==
  ASSUME DriverIInv, GetSmmCoreSmiEntryList \/ GetSmmCoreRootSmiHandlerList
  PROVE  DriverIInv'
<1>1. ~ DxePhase /\ core = Probed(locked) /\ core \in Lists
  BY DEF DriverIInv, GetSmmCoreSmiEntryList, GetSmmCoreRootSmiHandlerList, DxePhase, LeftInLists,
         DriverTypeOK
<1>2. core' = core
  <2>1. SmiHandlerUnRegister(SmiHandlerRegister(core, CallerId, Dummy), CallerId, Dummy) = core
    BY <1>1, LockedLists, SmiProbed
  <2>2. SmiHandlerUnRegister(SmiHandlerRegister(core, None, Dummy), None, Dummy) = core
    BY <1>1, LockedLists, RootProbed
  <2> QED
    BY <2>1, <2>2 DEF GetSmmCoreSmiEntryList, GetSmmCoreRootSmiHandlerList
<1>3. /\ phase' \in {"RootSmi", "Build"} /\ phase \in {"GuidSmi", "RootSmi"} /\ database' = database
      /\ UNCHANGED <<smmImages, others, locked, coreFound, imageStruct, countMax, count>>
  BY DEF GetSmmCoreSmiEntryList, GetSmmCoreRootSmiHandlerList, env
<1>4. DriverTypeOK' /\ LeftInLists' /\ ImagesInTable'
  BY <1>1, <1>2, <1>3, ProbingStep
<1> QED
  BY <1>3, <1>4, DatabaseKept DEF DriverIInv

LEMMA BuildStep ==
  ASSUME DriverIInv, BuildSmmCoreDatabase
  PROVE  DriverIInv'
<1>1. ~ DxePhase /\ core = Probed(locked) /\ core \in Lists
  BY DEF DriverIInv, BuildSmmCoreDatabase, DxePhase, LeftInLists, DriverTypeOK
<1>2. /\ phase' \in {"Register", "NULL list"} /\ phase = "Build" /\ core' = core
      /\ UNCHANGED <<smmImages, others, locked, coreFound, imageStruct, countMax, count>>
  BY DEF BuildSmmCoreDatabase, env
<1>3. DriverTypeOK' /\ LeftInLists' /\ ImagesInTable'
  BY <1>1, <1>2, ProbingStep
<1>4. CASE database' = database
  BY <1>2, <1>3, <1>4, DatabaseKept DEF DriverIInv
<1>5. CASE database' # database
  <2> DEFINE dumped == SubSeq(imageStruct, 1, count)
  <2>1. /\ database' = [lists |-> Dumped(core), images |-> dumped,
                        children |-> IF ChildLib = "Nt32" THEN dispatcher ELSE <<>>]
    BY <1>5 DEF BuildSmmCoreDatabase
  <2>2. Dumped(core) = locked
    BY <1>1, LockedLists, DumpedProbed
  <2>3. /\ imageStruct \in Seq(Names) /\ count \in Nat /\ count <= Len(imageStruct)
        /\ ToSet(InSmram) \subseteq {imageStruct[i] : i \in 1 .. count}
    BY <1>2 DEF DriverIInv, ImagesInTable, DriverTypeOK
  <2>4. /\ dumped \in Seq(Names) /\ Len(dumped) = count
        /\ \A i \in 1 .. count : dumped[i] = imageStruct[i]
    <3>1. \A i \in 1 .. count : imageStruct[i] \in Names
      BY <2>3
    <3>2. /\ dumped \in Seq(Names) /\ Len(dumped) = IF 1 <= count THEN count - 1 + 1 ELSE 0
          /\ \A i \in 1 .. count - 1 + 1 : dumped[i] = imageStruct[1 + i - 1]
      BY <2>3, <3>1, SubSeqProperties
    <3> HIDE DEF dumped
    <3> QED
      BY <2>3, <3>2
  <2>5. Range(InSmram) \subseteq Range(dumped)
    <3>1. Range(InSmram) = ToSet(InSmram) /\ Range(dumped) = ToSet(dumped)
      BY DEF Range, ToSet
    <3> HIDE DEF dumped
    <3>2. ToSet(dumped) = {dumped[i] : i \in 1 .. Len(dumped)}
      BY <2>4, MembersOfSeq
    <3> QED
      BY <2>3, <2>4, <3>1, <3>2
  <2> HIDE DEF dumped
  <2>6. database'.lists = locked' /\ database'.images = dumped
    BY <1>2, <2>1, <2>2
  <2>7. ListsAreThoseLocked' /\ EveryImageIsKnown'
    BY <2>5, <2>6 DEF ListsAreThoseLocked, EveryImageIsKnown, InSmram
  <2> QED
    BY <1>3, <2>7 DEF DriverIInv
<1> QED
  BY <1>4, <1>5

LEMMA RegisterStep ==
  ASSUME DriverIInv, RegisterSmmCoreDumpHandler
  PROVE  DriverIInv'
<1>1. ~ DxePhase /\ core = Probed(locked) /\ core \in Lists
  BY DEF DriverIInv, RegisterSmmCoreDumpHandler, DxePhase, LeftInLists, DriverTypeOK
<1>2. \/ /\ core' = SmiHandlerRegister(Probed(locked), "mSmmCoreDumpGuid", Own)
         /\ phase' = "Done"
      \/ core' = core /\ phase' = "ASSERT handler"
  BY <1>1 DEF RegisterSmmCoreDumpHandler
<1>3. core' \in Lists
  BY <1>1, <1>2, LockedLists, ShownRegistered
<1>4. /\ database' = database
      /\ UNCHANGED <<smmImages, others, locked, coreFound, imageStruct, countMax, count>>
  BY DEF RegisterSmmCoreDumpHandler, env, driver
<1>5. DriverTypeOK' /\ LeftInLists' /\ ImagesInTable'
  BY <1>1, <1>2, <1>3, <1>4, ProbingStep
<1> QED
  BY <1>4, <1>5, DatabaseKept DEF DriverIInv

LEMMA DoneStep ==
  ASSUME DriverIInv, Done
  PROVE  DriverIInv'
<1>1. /\ phase = "Done" /\ phase' = "Returned" /\ imageStruct' = NullPointer
      /\ UNCHANGED <<core, smmImages, others, locked, coreFound, countMax, count, database>>
  BY DEF Done, env
<1>2. DriverTypeOK'
  BY <1>1 DEF DriverIInv, DriverTypeOK
<1>3. LeftInLists'
  BY <1>1 DEF DriverIInv, LeftInLists, DxePhase
<1>4. ImagesInTable'
  BY <1>1 DEF ImagesInTable, DxePhase
<1> QED
  BY <1>1, <1>2, <1>3, <1>4, DatabaseKept DEF DriverIInv

LEMMA DriverNextIInv == DriverIInv /\ [DriverNext]_driverVars => DriverIInv'
<1> SUFFICES ASSUME DriverIInv, [DriverNext]_driverVars PROVE DriverIInv'
  OBVIOUS
<1>1. CASE OtherDriver
  BY <1>1, OtherDriverStep
<1>2. CASE Boot
  BY <1>2, EntrypointStep, EndOfDxeStep, ReadyToLockStep DEF Boot
<1>3. CASE SmmCoreDump
  BY <1>3, GetSmmLoadedImageStep, GetLoadedImageStep, InstallDummyStep, GetSmmCoreListsStep,
     SmiListStep, BuildStep, RegisterStep, DoneStep DEF SmmCoreDump
<1>4. CASE UNCHANGED driverVars
  <2>1. UNCHANGED <<core, smmImages, others, locked, phase, coreFound, imageStruct, countMax,
                    count, database>>
    BY <1>4 DEF driverVars
  <2> QED
    BY <2>1 DEF DriverIInv, DriverTypeOK, LeftInLists, ImagesInTable, DxePhase, ListsAreThoseLocked,
                EveryImageIsKnown
<1> QED
  BY <1>1, <1>2, <1>3, <1>4 DEF DriverNext

(* The inductive invariant holds in every state of every behaviour.         *)
THEOREM DriverInvariance == DriverSpec => []DriverIInv
BY DriverInitIInv, DriverNextIInv, PTL DEF DriverSpec

(***************************************************************************)
(* The properties                                                          *)
(***************************************************************************)

(* Whatever drivers did before the lock, the database that SmmCoreDump      *)
(* builds holds the lists of the SMM core as they were at the lock.         *)
THEOREM DatabaseIsOfTheLock == DriverSpec => []ListsAreThoseLocked
<1>1. DriverIInv => ListsAreThoseLocked
  BY DEF DriverIInv
<1> QED
  BY <1>1, DriverInvariance, PTL

(* When SmmCoreDump has returned, whichever of its calls failed, the lists  *)
(* of the SMM core are those of the lock but for the empty entry of the     *)
(* dummy protocol and the handler for the application.                      *)
THEOREM ProbesAreTakenBack == DriverSpec => []NothingLeftBehind
<1>1. DriverIInv => NothingLeftBehind
  <2> SUFFICES ASSUME DriverIInv, phase = "Returned" PROVE Shown(core) = locked
    BY DEF NothingLeftBehind, Shown
  <2>1. ~ DxePhase
    BY DEF DxePhase
  <2>2. core \in {locked, SmiHandlerRegister(Probed(locked), "mSmmCoreDumpGuid", Own)}
    BY DEF DriverIInv, LeftInLists
  <2> QED
    BY <2>1, <2>2, LockedLists, ShownUntouched, ShownRegistered
<1> QED
  BY <1>1, DriverInvariance, PTL

(* The table of the images holds every image in SMRAM when the database is  *)
(* built, whichever of the two sources filled it.                           *)
THEOREM ImagesAreKnown == DriverSpec => []EveryImageIsKnown
<1>1. DriverIInv => EveryImageIsKnown
  BY DEF DriverIInv
<1> QED
  BY <1>1, DriverInvariance, PTL

(***************************************************************************)
(* The layout of the database: memories in which structures stand          *)
(***************************************************************************)

Widths == {16, 24, 32, 132}

LEMMA WidthFacts ==
  ASSUME NEW w \in Widths
  PROVE  /\ w \in Nat \ {0} /\ w * 0 = 0
         /\ \A k \in Nat : w * k \in Nat /\ (w * k) \div w = k
                           /\ w * (k + 1) = w * k + w
         /\ \A j, k \in Nat : j < k => w * j + w <= w * k
         /\ \A j, k \in Nat : w * (j + k) = w * j + w * k
BY DEF Widths

(* A memory in which structures lie one behind the other, from 0 to hi.     *)
Covers(m, hi) ==
  /\ \A a \in DOMAIN m : a \in Nat /\ m[a].extent \in Nat \ {0}
  /\ \A a \in DOMAIN m : a + m[a].extent <= hi
  /\ \A a, b \in DOMAIN m : a < b => a + m[a].extent <= b
  /\ 0 \in DOMAIN m \cup {hi}
  /\ \A a \in DOMAIN m : a + m[a].extent \in DOMAIN m \cup {hi}

(* What stands in m still stands in n.                                      *)
Keeps(n, m) == \A a \in DOMAIN m : a \in DOMAIN n /\ n[a] = m[a]

LEMMA KeepsTwice ==
  ASSUME NEW m, NEW n, NEW q, Keeps(n, m), Keeps(q, n)
  PROVE  Keeps(q, m)
BY DEF Keeps

LEMMA WriteFacts ==
  ASSUME NEW cells, NEW m
  PROVE  /\ DOMAIN Write(cells, m) = DOMAIN cells \cup DOMAIN m
         /\ \A a \in DOMAIN cells : Write(cells, m)[a] = cells[a]
         /\ \A a \in DOMAIN m \ DOMAIN cells : Write(cells, m)[a] = m[a]
BY DEF Write

LEMMA CoverCell ==
  ASSUME NEW m, NEW hi \in Nat, Covers(m, hi), NEW cell, cell.extent \in Nat \ {0}
  PROVE  LET n == WriteAt(hi, cell, m)
         IN  /\ Covers(n, hi + cell.extent) /\ Keeps(n, m)
             /\ hi \in DOMAIN n /\ n[hi] = cell
<1> DEFINE n == WriteAt(hi, cell, m)
<1>1. hi \notin DOMAIN m
  BY DEF Covers
<1>2. /\ DOMAIN n = {hi} \cup DOMAIN m /\ n[hi] = cell
      /\ \A a \in DOMAIN m : n[a] = m[a]
  <2> DEFINE cells == [a \in {hi} |-> cell]
  <2>1. DOMAIN cells = {hi} /\ cells[hi] = cell
    OBVIOUS
  <2>2. n = Write(cells, m)
    BY DEF WriteAt
  <2> HIDE DEF cells, n
  <2>3. /\ DOMAIN n = DOMAIN cells \cup DOMAIN m
        /\ \A a \in DOMAIN cells : n[a] = cells[a]
        /\ \A a \in DOMAIN m \ DOMAIN cells : n[a] = m[a]
    <3> DEFINE q == Write(cells, m)
    <3>1. /\ DOMAIN q = DOMAIN cells \cup DOMAIN m
          /\ \A a \in DOMAIN cells : q[a] = cells[a]
          /\ \A a \in DOMAIN m \ DOMAIN cells : q[a] = m[a]
      BY WriteFacts
    <3> HIDE DEF q
    <3>2. n = q
      BY <2>2 DEF q
    <3> QED
      BY <3>1, <3>2
  <2> QED
    BY <1>1, <2>1, <2>3
<1> HIDE DEF n
<1>3. Keeps(n, m)
  BY <1>2 DEF Keeps
<1>4. Covers(n, hi + cell.extent)
  BY <1>1, <1>2 DEF Covers
<1> QED
  BY <1>2, <1>3, <1>4 DEF n

(* All the elements of an array fit when there is room for them.            *)
LEMMA ArrayFits ==
  ASSUME NEW w \in Widths, NEW S, NEW items \in Seq(S), NEW max \in Int, NEW hi \in Nat,
         w * Len(items) <= max
  PROVE  LET array == Array(hi, w, items, max)
         IN  /\ array.count = Len(items)
             /\ DOMAIN array.mem = {hi + w * (i - 1) : i \in 1 .. Len(items)}
             /\ \A i \in 1 .. Len(items) : array.mem[hi + w * (i - 1)] = items[i]
<1> DEFINE L == Len(items)
           written == {i \in DOMAIN items : Fits(w, w * (i - 1), max)}
           place(i) == hi + w * (i - 1)
<1>1. L \in Nat /\ DOMAIN items = 1 .. L
  OBVIOUS
<1>2. ASSUME NEW i \in 1 .. L
      PROVE  /\ place(i) \in Nat /\ (place(i) - hi) \div w = i - 1
             /\ Fits(w, w * (i - 1), max)
  <2>1. i - 1 \in Nat /\ i - 1 < L
    BY <1>1
  <2> DEFINE k == i - 1
  <2>2. /\ w \in Nat \ {0} /\ w * k \in Nat /\ (w * k) \div w = k /\ w * k + w <= w * L
        /\ w * L \in Nat
    <3> HIDE DEF k
    <3> QED
      BY <1>1, <2>1, WidthFacts DEF k
  <2>3. (place(i) - hi) = w * k
    BY <2>2
  <2> QED
    BY <2>2, <2>3 DEF Fits
<1>3. written = DOMAIN items
  BY <1>1, <1>2
<1>4. Array(hi, w, items, max) =
        [count |-> L, mem |-> [a \in {place(i) : i \in 1 .. L} |-> items[1 + (a - hi) \div w]]]
  BY <1>1, <1>3 DEF Array
<1>5. \A i \in 1 .. L : items[1 + (place(i) - hi) \div w] = items[i]
  BY <1>1, <1>2
<1> HIDE DEF written
<1> QED
  BY <1>4, <1>5

(* The cells of an array stand from place on, behind what m holds.          *)
ArrayWritten(array, place, w, items, m) ==
  LET n == Write(array.mem, m) IN
    /\ array.count = Len(items)
    /\ Covers(n, place + w * Len(items)) /\ Keeps(n, m)
    /\ \A i \in 1 .. Len(items) : /\ place + w * (i - 1) \in DOMAIN n
                                  /\ n[place + w * (i - 1)] = items[i]

LEMMA CoverArray ==
  ASSUME NEW w \in Widths, NEW S, NEW items \in Seq(S), NEW max \in Int, NEW hi \in Nat,
         w * Len(items) <= max, \A i \in 1 .. Len(items) : items[i].extent = w,
         NEW m, Covers(m, hi)
  PROVE  ArrayWritten(Array(hi, w, items, max), hi, w, items, m)
<1> DEFINE L == Len(items)
           array == Array(hi, w, items, max)
           n == Write(array.mem, m)
           place(i) == hi + w * (i - 1)
           end == hi + w * L
<1>1. L \in Nat
  OBVIOUS
<1>2. /\ array.count = L
      /\ DOMAIN array.mem = {place(i) : i \in 1 .. L}
      /\ \A i \in 1 .. L : array.mem[place(i)] = items[i]
  BY ArrayFits
<1> HIDE DEF array
<1>3. /\ w \in Nat \ {0} /\ end \in Nat /\ end >= hi
      /\ L = 0 => end = hi
      /\ L # 0 => place(1) = hi
      /\ \A i \in 1 .. L : place(i) \in Nat /\ place(i) >= hi /\ place(i) + w <= end
      /\ \A i, j \in 1 .. L : i < j => place(i) + w <= place(j)
      /\ \A i \in 1 .. L : IF i = L THEN place(i) + w = end ELSE place(i) + w = place(i + 1)
  <2>1. /\ w \in Nat \ {0} /\ w * 0 = 0 /\ w * L \in Nat
    BY <1>1, WidthFacts
  <2>2. ASSUME NEW i \in 1 .. L
        PROVE  /\ w * (i - 1) \in Nat /\ w * (i - 1) + w <= w * L
               /\ w * ((i + 1) - 1) = w * (i - 1) + w
    <3>1. i - 1 \in Nat /\ i - 1 < L /\ (i - 1) + 1 = i /\ (i + 1) - 1 = i
      OBVIOUS
    <3> QED
      BY <3>1, <1>1, WidthFacts
  <2>3. ASSUME NEW i \in 1 .. L, NEW j \in 1 .. L, i < j
        PROVE  w * (i - 1) + w <= w * (j - 1)
    <3>1. i - 1 \in Nat /\ j - 1 \in Nat /\ i - 1 < j - 1
      BY <2>3
    <3> QED
      BY <3>1, WidthFacts
  <2>4. ASSUME NEW i \in 1 .. L
        PROVE  place(i) \in Nat /\ place(i) >= hi /\ place(i) + w <= end
    <3> DEFINE v == w * (i - 1)
               u == w * L
    <3>1. v \in Nat /\ u \in Nat /\ w \in Nat /\ v + w <= u
      BY <2>1, <2>2
    <3>2. place(i) = hi + v /\ end = hi + u
      OBVIOUS
    <3> HIDE DEF v, u, place, end
    <3> QED
      BY ONLY <3>1, <3>2, hi \in Nat
  <2>5. \A i, j \in 1 .. L : i < j => place(i) + w <= place(j)
    BY <2>1, <2>2, <2>3
  <2>6. \A i \in 1 .. L : IF i = L THEN place(i) + w = end ELSE place(i) + w = place(i + 1)
    <3> SUFFICES ASSUME NEW i \in 1 .. L
                 PROVE  place(i) + w = hi + w * i /\ place(i + 1) = hi + w * i
      OBVIOUS
    <3>1. (i + 1) - 1 = i /\ i \in Nat
      OBVIOUS
    <3>2. w * ((i + 1) - 1) = w * i
      BY <3>1
    <3> DEFINE v == w * (i - 1)
    <3>3. v \in Nat /\ w * i = v + w
      BY <2>2, <3>2
    <3>4. place(i) + w = hi + (v + w)
      <4>1. place(i) = hi + v
        OBVIOUS
      <4> HIDE DEF v, place
      <4> QED
        BY <2>1, <3>3, <4>1
    <3> QED
      BY <3>2, <3>3, <3>4
  <2>7. (L = 0 => end = hi) /\ (L # 0 => place(1) = hi)
    BY <2>1
  <2>8. end \in Nat /\ end >= hi
    BY <2>1
  <2> HIDE DEF place, end, L
  <2> QED
    BY ONLY <2>1, <2>4, <2>5, <2>6, <2>7, <2>8
<1>4. /\ DOMAIN n = {place(i) : i \in 1 .. L} \cup DOMAIN m
      /\ \A i \in 1 .. L : n[place(i)] = items[i]
      /\ \A a \in DOMAIN m : n[a] = m[a] /\ a \in Nat /\ a < hi
  <2>1. \A a \in DOMAIN m : a \in Nat /\ a < hi
    BY DEF Covers
  <2> DEFINE cells == array.mem
  <2> HIDE DEF place, cells, n
  <2>2. \A a \in DOMAIN m : a \notin DOMAIN cells
    BY <1>2, <1>3, <2>1 DEF cells
  <2>3. /\ DOMAIN n = DOMAIN cells \cup DOMAIN m
        /\ \A a \in DOMAIN cells : n[a] = cells[a]
        /\ \A a \in DOMAIN m \ DOMAIN cells : n[a] = m[a]
    BY WriteFacts, ZenonT(60) DEF n, cells
  <2>4. \A i \in 1 .. L : place(i) \in DOMAIN cells /\ cells[place(i)] = items[i]
    BY <1>2 DEF cells
  <2>5. DOMAIN cells = {place(i) : i \in 1 .. L}
    BY <1>2 DEF cells
  <2> QED
    BY <2>1, <2>2, <2>3, <2>4, <2>5
<1> HIDE DEF n, place, end
<1>5. \A i \in 1 .. L : n[place(i)].extent = w
  BY <1>4
<1>6. Keeps(n, m)
  BY <1>4 DEF Keeps
<1>7. Covers(n, end)
  <2>1. \A a \in DOMAIN n : a \in Nat /\ n[a].extent \in Nat \ {0} /\ a + n[a].extent <= end
    BY <1>3, <1>4, <1>5, SMTT(40) DEF Covers
  <2>2. \A a, b \in DOMAIN n : a < b => a + n[a].extent <= b
    <3> SUFFICES ASSUME NEW a \in DOMAIN n, NEW b \in DOMAIN n, a < b
                 PROVE  a + n[a].extent <= b
      OBVIOUS
    <3>1. CASE a \in DOMAIN m /\ b \in DOMAIN m
      BY <3>1, <1>4 DEF Covers
    <3>2. CASE a \in DOMAIN m /\ b \notin DOMAIN m
      BY <3>2, <1>3, <1>4, SMTT(40) DEF Covers
    <3>3. CASE a \notin DOMAIN m /\ b \in DOMAIN m
      BY <3>3, <1>3, <1>4 DEF Covers
    <3>4. CASE a \notin DOMAIN m /\ b \notin DOMAIN m
      <4>1. PICK i \in 1 .. L : a = place(i)
        BY <3>4, <1>4
      <4>2. PICK j \in 1 .. L : b = place(j)
        BY <3>4, <1>4
      <4>3. i < j
        BY <4>1, <4>2, <1>3, SMTT(40)
      <4> QED
        BY <4>1, <4>2, <4>3, <1>3, <1>5
    <3> QED
      BY <3>1, <3>2, <3>3, <3>4
  <2>3. hi \in DOMAIN n \cup {end}
    BY <1>1, <1>3, <1>4
  <2>4. 0 \in DOMAIN n \cup {end}
    BY <2>3, <1>4 DEF Covers
  <2>5. \A a \in DOMAIN n : a + n[a].extent \in DOMAIN n \cup {end}
    <3> SUFFICES ASSUME NEW a \in DOMAIN n
                 PROVE  a + n[a].extent \in DOMAIN n \cup {end}
      OBVIOUS
    <3>1. CASE a \in DOMAIN m
      BY <3>1, <2>3, <1>4 DEF Covers
    <3>2. CASE a \notin DOMAIN m
      <4>1. PICK i \in 1 .. L : a = place(i)
        BY <3>2, <1>4
      <4>2. i # L => place(i + 1) \in DOMAIN n
        BY <1>1, <1>4
      <4> QED
        BY <4>1, <4>2, <1>3, <1>5
    <3> QED
      BY <3>1, <3>2
  <2> QED
    BY <2>1, <2>2, <2>4, <2>5 DEF Covers
<1> QED
  BY <1>2, <1>4, <1>6, <1>7 DEF n, place, end, array, ArrayWritten

(* A structure of the database, with the arrays behind its header.          *)
Cells == [Guid : STRING, Value : Nat, ImageRef : Int, extent : Widths]
           \cup [Value : Nat, ImageRef : Int, extent : Widths]
Signatures == {"SCID", "SCHD", "SCPD", "SCSD", "CDSD"}
Ids == STRING \cup {Root, "SwDispatch2"}
Structures ==
  {r \in [Signature : Signatures, Id : Ids, width : Widths,
          first : Seq(Cells), second : Seq(Cells)] :
     /\ \A i \in 1 .. Len(r.first) : r.first[i].extent = r.width
     /\ \A i \in 1 .. Len(r.second) : r.second[i].extent = r.width}

LenOf(r) == SizeOf(r.Signature) + r.width * Len(r.first) + r.width * Len(r.second)

(* r stands at a.                                                           *)
Holds(m, a, r) ==
  /\ a \in DOMAIN m /\ "Signature" \in DOMAIN m[a]
  /\ m[a].Signature = r.Signature /\ m[a].Length = LenOf(r) /\ m[a].Id = r.Id
  /\ r.Signature # "SCID" => m[a].Counts = <<Len(r.first), Len(r.second)>>
  /\ \A i \in 1 .. Len(r.first) :
       LET b == a + SizeOf(r.Signature) + r.width * (i - 1)
       IN  b \in DOMAIN m /\ m[b] = r.first[i]
  /\ \A i \in 1 .. Len(r.second) :
       LET b == a + SizeOf(r.Signature) + r.width * Len(r.first) + r.width * (i - 1)
       IN  b \in DOMAIN m /\ m[b] = r.second[i]

LEMMA StructureFacts ==
  ASSUME NEW r \in Structures
  PROVE  /\ SizeOf(r.Signature) \in Nat \ {0} /\ r.width \in Widths /\ r.Id \in Ids
         /\ r.first \in Seq(Cells) /\ r.second \in Seq(Cells)
         /\ Len(r.first) \in Nat /\ Len(r.second) \in Nat
         /\ r.width * Len(r.first) \in Nat /\ r.width * Len(r.second) \in Nat
         /\ LenOf(r) \in Nat \ {0}
<1>1. /\ r.width \in Widths /\ r.Id \in Ids /\ r.first \in Seq(Cells) /\ r.second \in Seq(Cells)
      /\ r.Signature \in Signatures
  BY DEF Structures
<1>2. SizeOf(r.Signature) \in Nat \ {0}
  BY <1>1 DEF Signatures, SizeOf
<1>3. Len(r.first) \in Nat /\ Len(r.second) \in Nat
  BY <1>1
<1>4. r.width * Len(r.first) \in Nat /\ r.width * Len(r.second) \in Nat
  BY <1>1, <1>3, WidthFacts
<1> QED
  BY <1>1, <1>2, <1>3, <1>4 DEF LenOf

LEMMA HoldsKept ==
  ASSUME NEW m, NEW n, Keeps(n, m), NEW a, NEW r, Holds(m, a, r)
  PROVE  Holds(n, a, r)
BY DEF Keeps, Holds

(* q is the record r, n the memory with it behind what m holds.              *)
RecordWritten(n, m, base, size, expected, r, q) ==
  /\ Record([mem |-> m, base |-> base, Size |-> size, ok |-> TRUE],
            expected, r.Signature, r.width, q)
       = [mem |-> n, base |-> base, Size |-> size + LenOf(r), ok |-> TRUE]
  /\ Keeps(n, m) /\ Covers(n, base + size + LenOf(r)) /\ Holds(n, base + size, r)

(* A record that fits is written whole.                                     *)
LEMMA RecordStep ==
  ASSUME NEW m, NEW base \in Nat, NEW size \in Nat, NEW expected \in Nat,
         NEW r \in Structures, NEW q, q.Id = r.Id, q.first = r.first, q.second = r.second,
         Covers(m, base + size), size + LenOf(r) <= expected
  PROVE  \E n : RecordWritten(n, m, base, size, expected, r, q)
<1> DEFINE section == [mem |-> m, base |-> base, Size |-> size, ok |-> TRUE]
           w    == r.width
           at   == base + size
           head == SizeOf(r.Signature)
           room == expected - size - head
           len1 == w * Len(r.first)
           len2 == w * Len(r.second)
           one  == Array(at + head, w, r.first, room)
           two  == Array(at + head + len1, w, r.second, room - len1)
           cell == [Signature |-> r.Signature, Length |-> head + len1 + len2, Id |-> r.Id,
                    Counts |-> <<Len(r.first), Len(r.second)>>, extent |-> head]
           m1   == WriteAt(at, cell, m)
           m2   == Write(one.mem, m1)
           m3   == Write(two.mem, m2)
<1>1. /\ head \in Nat \ {0} /\ w \in Widths /\ len1 \in Nat /\ len2 \in Nat /\ at \in Nat
      /\ r.first \in Seq(Cells) /\ r.second \in Seq(Cells)
      /\ LenOf(r) = head + len1 + len2
      /\ \A i \in 1 .. Len(r.first) : r.first[i].extent = w
      /\ \A i \in 1 .. Len(r.second) : r.second[i].extent = w
  BY StructureFacts, SMTT(40) DEF LenOf, Structures
<1>2. cell.extent = head
  OBVIOUS
<1> HIDE DEF w, head, cell
<1>3. room \in Int /\ len1 <= room /\ len2 <= room - len1 /\ Fits(head, size, expected)
  <2>1. size + (head + len1 + len2) <= expected
    BY <1>1
  <2> HIDE DEF len1, len2
  <2> QED
    BY ONLY <1>1, <2>1, size \in Nat, expected \in Nat DEF Fits, room
<1> HIDE DEF room, len1, len2, at
<1>4. /\ Covers(m1, at + head) /\ Keeps(m1, m) /\ at \in DOMAIN m1 /\ m1[at] = cell
  BY <1>1, <1>2, CoverCell DEF at
<1> HIDE DEF m1
<1>5. /\ one.count = Len(r.first)
      /\ Covers(m2, at + head + len1) /\ Keeps(m2, m1)
      /\ \A i \in 1 .. Len(r.first) :
           at + head + w * (i - 1) \in DOMAIN m2 /\ m2[at + head + w * (i - 1)] = r.first[i]
  <2> DEFINE place == at + head
             items == r.first
  <2>1. /\ place \in Nat /\ items \in Seq(Cells) /\ w * Len(items) <= room
        /\ \A i \in 1 .. Len(items) : items[i].extent = w
        /\ Covers(m1, place) /\ w \in Widths /\ room \in Int
    <3>1. place \in Nat
      <4>1. at \in Nat /\ head \in Nat
        BY <1>1
      <4> QED
        BY ONLY <4>1
    <3>2. w * Len(items) <= room /\ room \in Int /\ items \in Seq(Cells) /\ w \in Widths
      BY <1>1, <1>3 DEF len1
    <3>3. \A i \in 1 .. Len(items) : items[i].extent = w
      BY <1>1
    <3>4. Covers(m1, place)
      BY <1>4
    <3> QED
      BY <3>1, <3>2, <3>3, <3>4
  <2> HIDE DEF place, items
  <2>2. ArrayWritten(Array(place, w, items, room), place, w, items, m1)
    BY ONLY <2>1, CoverArray
  <2> QED
    BY ONLY <2>2 DEF ArrayWritten, one, m2, place, items, len1
<1> HIDE DEF m2
<1>6. /\ two.count = Len(r.second)
      /\ Covers(m3, at + head + len1 + len2) /\ Keeps(m3, m2)
      /\ \A i \in 1 .. Len(r.second) :
           /\ at + head + len1 + w * (i - 1) \in DOMAIN m3
           /\ m3[at + head + len1 + w * (i - 1)] = r.second[i]
  <2> DEFINE place == at + head + len1
             items == r.second
             left  == room - len1
  <2>1. /\ place \in Nat /\ items \in Seq(Cells) /\ w * Len(items) <= left
        /\ \A i \in 1 .. Len(items) : items[i].extent = w
        /\ Covers(m2, place) /\ w \in Widths /\ left \in Int
    <3>1. place \in Nat /\ left \in Int
      <4>1. at \in Nat /\ head \in Nat /\ len1 \in Nat /\ room \in Int
        BY <1>1, <1>3
      <4> QED
        BY ONLY <4>1
    <3>2. w * Len(items) <= left /\ items \in Seq(Cells) /\ w \in Widths
      BY ONLY <1>1, <1>3 DEF len2, items, left
    <3>3. \A i \in 1 .. Len(items) : items[i].extent = w
      BY <1>1
    <3>4. Covers(m2, place)
      BY <1>5
    <3> QED
      BY <3>1, <3>2, <3>3, <3>4
  <2> HIDE DEF place, items, left
  <2>2. ArrayWritten(Array(place, w, items, left), place, w, items, m2)
    BY ONLY <2>1, CoverArray
  <2> QED
    BY ONLY <2>2 DEF ArrayWritten, two, m3, place, items, left, len2
<1>7. Record(section, expected, r.Signature, w, q)
        = [mem |-> m3, base |-> base, Size |-> size + LenOf(r), ok |-> TRUE]
  <2>1. Record(section, expected, r.Signature, w, q)
          = [section EXCEPT !.Size = @ + (head + len1 + len2), !.mem = m3]
    <3>1. section.ok /\ section.base = base /\ section.Size = size /\ section.mem = m
      OBVIOUS
    <3> HIDE DEF section
    <3>2. /\ len1 = w * one.count /\ len2 = w * two.count
          /\ cell = [Signature |-> r.Signature, Length |-> head + len1 + len2, Id |-> q.Id,
                     Counts |-> <<one.count, two.count>>, extent |-> head]
      BY <1>5, <1>6 DEF len1, len2, cell
    <3>3. /\ one = Array(at + head, w, q.first, room)
          /\ two = Array(at + head + len1, w, q.second, room - len1)
      OBVIOUS
    <3> HIDE DEF one, two
    <3> QED
      BY <3>1, <3>2, <3>3, <1>3 DEF Record, at, head, room, m1, m2
  <2> HIDE DEF m3
  <2> QED
    BY <2>1, <1>1
<1> HIDE DEF m3
<1>8. Keeps(m3, m1) /\ Keeps(m3, m)
  BY <1>4, <1>5, <1>6, KeepsTwice
<1>9. Holds(m3, at, r)
  <2>1. at \in DOMAIN m3 /\ m3[at] = cell
    BY <1>4, <1>8 DEF Keeps
  <2>2. /\ "Signature" \in DOMAIN cell /\ cell.Signature = r.Signature
        /\ cell.Length = LenOf(r) /\ cell.Id = r.Id
        /\ cell.Counts = <<Len(r.first), Len(r.second)>>
    BY <1>1 DEF cell
  <2>3. \A i \in 1 .. Len(r.first) :
          at + head + w * (i - 1) \in DOMAIN m3 /\ m3[at + head + w * (i - 1)] = r.first[i]
    BY <1>5, <1>6 DEF Keeps
  <2> QED
    BY <2>1, <2>2, <2>3, <1>6 DEF Holds, head, w, len1
<1>10. Covers(m3, at + LenOf(r))
  <2>1. at + head + len1 + len2 = at + LenOf(r)
    BY <1>1
  <2> QED
    BY <2>1, <1>6
<1>11. RecordWritten(m3, m, base, size, expected, r, q)
  BY ONLY <1>7, <1>8, <1>9, <1>10 DEF RecordWritten, section, w, at
<1> QED
  BY <1>11

(* The structures of P lie one behind the other, and nothing else.          *)
Starts(at, m, P, hi) ==
  /\ at \in [1 .. Len(P) + 1 -> Nat]
  /\ at[1] = 0 /\ at[Len(P) + 1] = hi
  /\ \A k \in 1 .. Len(P) : at[k + 1] = at[k] + LenOf(P[k]) /\ Holds(m, at[k], P[k])
Built(m, P, hi) == Covers(m, hi) /\ \E at : Starts(at, m, P, hi)

LEMMA BuiltAppend ==
  ASSUME NEW m, NEW n, NEW P \in Seq(Structures), NEW r \in Structures, NEW hi \in Nat,
         Built(m, P, hi), Keeps(n, m), Covers(n, hi + LenOf(r)), Holds(n, hi, r)
  PROVE  Built(n, Append(P, r), hi + LenOf(r))
<1> DEFINE L == Len(P)
           Q == Append(P, r)
<1>1. PICK at : Starts(at, m, P, hi)
  BY DEF Built
<1> DEFINE more == [k \in 1 .. L + 2 |-> IF k <= L + 1 THEN at[k] ELSE hi + LenOf(r)]
<1>2. /\ L \in Nat /\ Len(Q) = L + 1 /\ Q[L + 1] = r /\ \A k \in 1 .. L : Q[k] = P[k]
      /\ Q \in Seq(Structures)
  BY AppendProperties
<1>3. LenOf(r) \in Nat
  BY StructureFacts
<1> HIDE DEF L, Q
<1>4. /\ at \in [1 .. L + 1 -> Nat] /\ at[1] = 0 /\ at[L + 1] = hi
      /\ \A k \in 1 .. L : at[k + 1] = at[k] + LenOf(P[k]) /\ Holds(m, at[k], P[k])
  BY <1>1 DEF Starts, L
<1>5. /\ more \in [1 .. (L + 1) + 1 -> Nat] /\ more[1] = 0 /\ more[(L + 1) + 1] = hi + LenOf(r)
      /\ more[L + 1] = hi /\ \A k \in 1 .. L + 1 : more[k] = at[k]
  BY <1>2, <1>3, <1>4
<1> HIDE DEF more
<1>6. ASSUME NEW k \in 1 .. L + 1
      PROVE  more[k + 1] = more[k] + LenOf(Q[k]) /\ Holds(n, more[k], Q[k])
  <2>1. CASE k = L + 1
    BY <2>1, <1>2, <1>5
  <2>2. CASE k # L + 1
    <3>1. k \in 1 .. L /\ k + 1 \in 1 .. L + 1
      BY <2>2, <1>2
    <3>2. Holds(n, at[k], P[k])
      BY <3>1, <1>4, HoldsKept
    <3> QED
      BY <3>1, <3>2, <1>2, <1>4, <1>5
  <2> QED
    BY <2>1, <2>2
<1>7. Starts(more, n, Q, hi + LenOf(r))
  BY <1>2, <1>5, <1>6 DEF Starts
<1> QED
  BY <1>7 DEF Built, Q

(* The recursion of Records, element by element.                            *)
Recorded(after, section, expected, signature, w, list) ==
  /\ after[0] = section
  /\ \A n \in 1 .. Len(list) :
       after[n] = Record(after[n - 1], expected, signature, w, list[n])
  /\ Records(section, expected, signature, w, list) = after[Len(list)]

LEMMA RecordsAre ==
  ASSUME NEW section, NEW expected, NEW signature, NEW w, NEW list, Len(list) \in Nat
  PROVE  \E after : Recorded(after, section, expected, signature, w, list)
<1> DEFINE L == Len(list)
           F(s, n) == CHOOSE x \in {Record(before, expected, signature, w, list[n]) :
                                       before \in {s}} : TRUE
           Is(f) == f = [n \in 0 .. L |-> IF n = 0 THEN section ELSE F(f[n - 1], n)]
           Good == {k \in 0 .. L :
                      \E f : f = [n \in 0 .. k |-> IF n = 0 THEN section ELSE F(f[n - 1], n)]}
<1>1. \A s, n : F(s, n) = Record(s, expected, signature, w, list[n])
  <2> SUFFICES ASSUME NEW s, NEW n
               PROVE  F(s, n) = Record(s, expected, signature, w, list[n])
    OBVIOUS
  <2> DEFINE y == Record(s, expected, signature, w, list[n])
  <2>1. {Record(before, expected, signature, w, list[n]) : before \in {s}} = {y}
    OBVIOUS
  <2> HIDE DEF y
  <2>2. (CHOOSE x \in {y} : TRUE) = y
    OBVIOUS
  <2> QED
    BY <2>1, <2>2 DEF y
<1> HIDE DEF F
<1>2. L \in Nat
  OBVIOUS
<1> HIDE DEF L
<1>3. 0 \in Good
  <2> DEFINE f == [n \in 0 .. 0 |-> section]
  <2>1. f = [n \in 0 .. 0 |-> IF n = 0 THEN section ELSE F(f[n - 1], n)]
    OBVIOUS
  <2> HIDE DEF f
  <2>2. \E g : g = [n \in 0 .. 0 |-> IF n = 0 THEN section ELSE F(g[n - 1], n)]
    BY <2>1
  <2> QED
    BY <2>2, <1>2
<1>4. ASSUME NEW k \in 1 .. L, k - 1 \in Good
      PROVE  k \in Good
  <2>1. PICK f : f = [n \in 0 .. k - 1 |-> IF n = 0 THEN section ELSE F(f[n - 1], n)]
    BY <1>4
  <2> DEFINE g == [n \in 0 .. k |-> IF n = k THEN F(f[k - 1], k) ELSE f[n]]
  <2>2. g = [n \in 0 .. k |-> IF n = 0 THEN section ELSE F(g[n - 1], n)]
    <3>1. \A n \in 0 .. k :
            n # k => g[n] = f[n] /\ f[n] = IF n = 0 THEN section ELSE F(f[n - 1], n)
      BY <2>1, <1>2
    <3>2. g[k] = F(f[k - 1], k) /\ k # 0 /\ k \in Nat
      BY <1>2
    <3>3. g[k - 1] = f[k - 1]
      BY <1>2
    <3>4. \A n \in 0 .. k : n # k /\ n # 0 => g[n - 1] = f[n - 1]
      BY <1>2
    <3> HIDE DEF g
    <3>5. \A n \in 0 .. k : g[n] = IF n = 0 THEN section ELSE F(g[n - 1], n)
      BY <3>1, <3>2, <3>3, <3>4
    <3>6. g = [n \in 0 .. k |-> g[n]]
      BY DEF g
    <3> QED
      BY <3>5, <3>6, Zenon
  <2> HIDE DEF g
  <2> QED
    BY <2>2, <1>2
<1>5. L \in Good
  <2> HIDE DEF Good
  <2>1. 0 .. L \subseteq Good
    BY <1>2, <1>3, <1>4, UpTo
  <2> QED
    BY <2>1, <1>2
<1> DEFINE after == CHOOSE f : Is(f)
<1>6. Is(after)
  BY <1>5
<1>7. Records(section, expected, signature, w, list) = after[L]
  BY DEF Records, L, F
<1> HIDE DEF after
<1>8. after[0] = section /\ \A n \in 1 .. L : after[n] = F(after[n - 1], n)
  BY <1>2, <1>6
<1> QED
  BY <1>1, <1>7, <1>8 DEF L, Recorded

(* A sum, term by term.                                                     *)
LEMMA TotalGrows ==
  ASSUME NEW s, s \in Seq(Nat)
  PROVE  \E sum \in [0 .. Len(s) -> Nat] :
           /\ sum[0] = 0 /\ sum[Len(s)] = Total(s) /\ Total(s) \in Nat
           /\ \A i \in 1 .. Len(s) : sum[i] = sum[i - 1] + s[i]
           /\ \A i \in 0 .. Len(s) : sum[i] <= Total(s)
<1> DEFINE L == Len(s)
<1>1. L \in Nat /\ \A i \in 1 .. L : s[i] \in Nat
  OBVIOUS
<1>2. PICK sum \in [0 .. Len(s) -> Nat] :
        /\ sum[0] = 0 /\ \A i \in 1 .. Len(s) : sum[i] = sum[i - 1] + s[i]
        /\ Total(s) = sum[Len(s)]
  BY TotalDef
<1> DEFINE Good == {m \in 0 .. L : sum[L - m] <= sum[L]}
<1>3. 0 \in Good
  BY <1>1, <1>2
<1>4. ASSUME NEW m \in 1 .. L, m - 1 \in Good
      PROVE  m \in Good
  <2> DEFINE i == (L - m) + 1
  <2>1. i \in 1 .. L /\ i - 1 = L - m /\ i = L - (m - 1) /\ i - 1 \in 0 .. L /\ i \in 0 .. L
    BY <1>1
  <2> HIDE DEF i
  <2>2. sum[i] = sum[i - 1] + s[i] /\ sum[i] \in Nat /\ sum[i - 1] \in Nat /\ s[i] \in Nat
    BY <1>1, <1>2, <2>1
  <2>3. sum[i] <= sum[L]
    BY <1>4, <2>1
  <2>4. sum[i - 1] <= sum[L]
    <3>1. sum[L] \in Nat
      BY <1>1, <1>2
    <3> QED
      BY <2>2, <2>3, <3>1, SMTT(40)
  <2> QED
    BY <1>1, <2>1, <2>4
<1>5. 0 .. L \subseteq Good
  <2> HIDE DEF Good, L
  <2> QED
    BY <1>1, <1>3, <1>4, UpTo
<1>6. \A i \in 0 .. L : sum[i] <= Total(s)
  <2> SUFFICES ASSUME NEW i \in 0 .. L
               PROVE  sum[i] <= sum[L]
    BY <1>2
  <2>1. L - i \in 0 .. L /\ L - (L - i) = i
    BY <1>1
  <2> QED
    BY <2>1, <1>5
<1> QED
  BY <1>1, <1>2, <1>6, SMTT(40)

SizesOf(R) == [k \in 1 .. Len(R) |-> LenOf(R[k])]

(* The structures of a section have been written behind those of P.         *)
Written(this, expected, P, R, base) ==
  /\ this.ok = TRUE /\ this.Size = expected /\ expected \in Nat
  /\ Built(this.mem, P \o R, base + expected)

(* As the expected size is what the records need, they are all written.     *)
LEMMA RecordsStep ==
  ASSUME NEW m, NEW P \in Seq(Structures), NEW base \in Nat, Built(m, P, base),
         NEW R \in Seq(Structures), NEW list, Len(list) = Len(R),
         NEW signature, NEW w,
         \A k \in 1 .. Len(R) :
           /\ R[k].Signature = signature /\ R[k].width = w
           /\ list[k].Id = R[k].Id /\ list[k].first = R[k].first
           /\ list[k].second = R[k].second,
         NEW expected, expected = Total(SizesOf(R))
  PROVE  Written(Records(Section(m, base), expected, signature, w, list), expected, P, R, base)
<1> DEFINE L == Len(R)
           section == [mem |-> m, base |-> base, Size |-> 0, ok |-> TRUE]
           lengths == [k \in 1 .. L |-> LenOf(R[k])]
           To(k) == P \o SubSeq(R, 1, k)
<1>1. L \in Nat /\ \A k \in 1 .. L : R[k] \in Structures
  OBVIOUS
<1>2. lengths \in Seq(Nat) /\ Len(lengths) = L /\ \A k \in 1 .. L : lengths[k] = LenOf(R[k])
  BY <1>1, StructureFacts, SMTT(40)
<1> HIDE DEF lengths
<1>3. PICK sum \in [0 .. L -> Nat] :
        /\ sum[0] = 0 /\ sum[L] = expected /\ expected \in Nat
        /\ \A k \in 1 .. L : sum[k] = sum[k - 1] + LenOf(R[k])
        /\ \A k \in 0 .. L : sum[k] <= expected
  BY <1>2, TotalGrows DEF lengths, SizesOf
<1>4. PICK after :
        /\ after[0] = section
        /\ \A k \in 1 .. L : after[k] = Record(after[k - 1], expected, signature, w, list[k])
        /\ Records(section, expected, signature, w, list) = after[L]
  <2> HIDE DEF section
  <2>1. Len(list) \in Nat
    BY <1>1
  <2>2. \E after : Recorded(after, section, expected, signature, w, list)
    BY <2>1, RecordsAre, Zenon
  <2> QED
    BY <2>2 DEF Recorded
<1>5. /\ To(0) = P /\ To(L) = P \o R
      /\ \A k \in 0 .. L : To(k) \in Seq(Structures)
      /\ \A k \in 1 .. L : To(k) = Append(To(k - 1), R[k])
  <2>1. /\ SubSeq(R, 1, 0) = <<>> /\ SubSeq(R, 1, L) = R
        /\ \A k \in 0 .. L : SubSeq(R, 1, k) \in Seq(Structures)
        /\ \A k \in 1 .. L : SubSeq(R, 1, k) = Append(SubSeq(R, 1, k - 1), R[k])
    BY InitialStep
  <2>2. P \o <<>> = P
    BY ConcatEmptySeq
  <2>3. \A k \in 0 .. L : To(k) \in Seq(Structures)
    BY <2>1, ConcatProperties
  <2>4. ASSUME NEW k \in 1 .. L PROVE To(k) = Append(To(k - 1), R[k])
    <3>1. k - 1 \in 0 .. L
      BY <1>1
    <3> DEFINE front == SubSeq(R, 1, k - 1)
    <3>2. front \in Seq(Structures) /\ SubSeq(R, 1, k) = Append(front, R[k])
      BY <2>1, <3>1
    <3> HIDE DEF front
    <3>3. P \o Append(front, R[k]) = Append(P \o front, R[k])
      BY <1>1, <3>2, AppendToConcat
    <3> QED
      BY <3>2, <3>3 DEF front
  <2> QED
    BY <2>1, <2>2, <2>3, <2>4
<1> HIDE DEF To
<1> DEFINE Good == {k \in 0 .. L :
                      \E n :
                        /\ after[k] = [mem |-> n, base |-> base, Size |-> sum[k], ok |-> TRUE]
                        /\ Built(n, To(k), base + sum[k])}
<1>6. 0 \in Good
  <2>1. base + 0 = base
    OBVIOUS
  <2>2. /\ after[0] = [mem |-> m, base |-> base, Size |-> sum[0], ok |-> TRUE]
        /\ Built(m, To(0), base + sum[0])
    BY <2>1, <1>3, <1>4, <1>5
  <2>3. \E n : /\ after[0] = [mem |-> n, base |-> base, Size |-> sum[0], ok |-> TRUE]
               /\ Built(n, To(0), base + sum[0])
    BY <2>2
  <2>4. 0 \in 0 .. L
    BY <1>1
  <2> QED
    BY <2>3, <2>4, Zenon
<1>7. ASSUME NEW k \in 1 .. L, k - 1 \in Good
      PROVE  k \in Good
  <2> DEFINE size == sum[k - 1]
             r == R[k]
             Q == To(k - 1)
             hi == base + size
  <2>1. PICK n : /\ after[k - 1] = [mem |-> n, base |-> base, Size |-> size, ok |-> TRUE]
                 /\ Built(n, Q, hi)
    BY <1>7
  <2>2. /\ size \in Nat /\ r \in Structures /\ sum[k] = size + LenOf(r) /\ sum[k] <= expected
        /\ LenOf(r) \in Nat /\ hi \in Nat /\ Q \in Seq(Structures) /\ To(k) = Append(Q, r)
        /\ k \in 0 .. L
    <3>1. k - 1 \in 0 .. L /\ k \in 0 .. L
      BY <1>1
    <3>2. size \in Nat /\ r \in Structures /\ sum[k] = size + LenOf(r) /\ sum[k] <= expected
      BY <3>1, <1>1, <1>3
    <3>3. LenOf(r) \in Nat
      BY <3>2, StructureFacts
    <3>4. Q \in Seq(Structures) /\ To(k) = Append(Q, r)
      BY <3>1, <1>5
    <3> HIDE DEF size, r, Q, To
    <3> QED
      BY ONLY <3>1, <3>2, <3>3, <3>4, base \in Nat DEF hi
  <2>3. after[k] = Record(after[k - 1], expected, r.Signature, r.width, list[k])
    BY <1>4
  <2>4. list[k].Id = r.Id /\ list[k].first = r.first /\ list[k].second = r.second
    OBVIOUS
  <2>5. Covers(n, hi)
    BY <2>1 DEF Built
  <2> HIDE DEF size, r, Q
  <2>6. PICK n2 : RecordWritten(n2, n, base, size, expected, r, list[k])
    <3> DEFINE q == list[k]
    <3>1. q.Id = r.Id /\ q.first = r.first /\ q.second = r.second
      BY <2>4
    <3> HIDE DEF q
    <3>2. size + LenOf(r) <= expected /\ expected \in Nat
      BY <2>2, <1>3
    <3>3. Covers(n, base + size) /\ base \in Nat /\ size \in Nat /\ r \in Structures
      BY <2>2, <2>5
    <3>4. \E n2 : RecordWritten(n2, n, base, size, expected, r, q)
      BY ONLY <3>1, <3>2, <3>3, RecordStep
    <3> QED
      BY <3>4 DEF q
  <2>7. Built(n2, Append(Q, r), hi + LenOf(r))
    <3> HIDE DEF hi
    <3> QED
      BY <2>1, <2>2, <2>6, BuiltAppend DEF hi, RecordWritten
  <2>8. hi + LenOf(r) = base + sum[k]
    BY <2>2
  <2>9. /\ after[k] = [mem |-> n2, base |-> base, Size |-> sum[k], ok |-> TRUE]
        /\ Built(n2, To(k), base + sum[k])
    BY <2>1, <2>2, <2>3, <2>6, <2>7, <2>8 DEF RecordWritten
  <2> QED
    BY <2>2, <2>9
<1>8. L \in Good
  <2> HIDE DEF Good, L
  <2>1. 0 .. L \subseteq Good
    BY <1>1, <1>6, <1>7, UpTo
  <2> QED
    BY <2>1, <1>1
<1>9. PICK n : /\ after[L] = [mem |-> n, base |-> base, Size |-> expected, ok |-> TRUE]
               /\ Built(n, P \o R, base + expected)
  BY <1>3, <1>5, <1>8
<1> DEFINE this == Records(Section(m, base), expected, signature, w, list)
<1>10. this = [mem |-> n, base |-> base, Size |-> expected, ok |-> TRUE]
  BY <1>4, <1>9 DEF Section
<1> HIDE DEF this
<1>11. Written(this, expected, P, R, base)
  BY <1>3, <1>9, <1>10 DEF Written
<1> QED
  BY <1>11 DEF this

(***************************************************************************)
(* What the lists make of it                                               *)
(***************************************************************************)

LEMMA ListsTyped ==
  ASSUME NEW L \in SmmLists
  PROVE  /\ L.images \in Seq(SmmImage)
         /\ L.handles \in Seq([Handle : STRING, Protocols : Seq(SmmInterface)])
         /\ L.entries \in Seq([ ProtocolID : STRING, Protocols : Seq(SmmInterface),
                                Notify : Seq(Nat) ])
         /\ L.smis \in Seq([HandlerType : STRING \ {Root}, SmiHandlers : Seq(Nat)])
         /\ L.roots \in Seq(Nat) /\ L.childLib \in {"Null", "Nt32"} /\ L.children \in Seq(Nat)
BY SmmListsAssumption

Within(i, address) == address >= i.ImageBase /\ address < i.ImageBase + i.ImageSize

(* The image that an address belongs to, if there is one.                   *)
LEMMA ImageRefOf ==
  ASSUME NEW L \in SmmLists, NEW address \in Nat
  PROVE  LET ref == AddressToImageRef(L, address)
         IN  /\ ref \in -1 .. Len(L.images) - 1
             /\ ref # -1 => Within(L.images[ref + 1], address)
             /\ ref = -1 => \A i \in 1 .. Len(L.images) : ~ Within(L.images[i], address)
<1> DEFINE T == {i \in 1 .. Len(L.images) : Within(L.images[i], address)}
<1>1. AddressToImageRef(L, address) = (IF T # {} THEN Min(T) ELSE 0) - 1
  BY DEF AddressToImageRef, SelectInSeq, Within
<1>2. Len(L.images) \in Nat /\ T \subseteq Nat
  BY ListsTyped
<1>3. T # {} => Min(T) \in T
  <2> HIDE DEF T
  <2> QED
    BY <1>2, MinOf
<1> DEFINE k == IF T # {} THEN Min(T) ELSE 0
<1>4. /\ k \in 0 .. Len(L.images)
      /\ k # 0 => Within(L.images[k], address)
      /\ k = 0 => \A i \in 1 .. Len(L.images) : ~ Within(L.images[i], address)
  BY <1>2, <1>3
<1> HIDE DEF k
<1>5. /\ k - 1 \in -1 .. Len(L.images) - 1 /\ (k - 1) + 1 = k /\ (k - 1 = -1 <=> k = 0)
  BY <1>2, <1>4
<1>6. AddressToImageRef(L, address) = k - 1
  BY <1>1 DEF k
<1> DEFINE ref == AddressToImageRef(L, address)
<1> HIDE DEF ref
<1>7. ref \in -1 .. Len(L.images) - 1 /\ ref + 1 = k /\ (ref = -1 <=> k = 0)
  BY <1>5, <1>6 DEF ref
<1> QED
  BY <1>4, <1>7 DEF ref

LEMMA ImageRefIsInt ==
  ASSUME NEW L \in SmmLists
  PROVE  /\ \A address \in Nat : AddressToImageRef(L, address) \in Int
         /\ \A p \in SmmInterface : AddressToImageRefEx(L, p) \in Int
<1>1. \A address \in Nat : AddressToImageRef(L, address) \in Int
  BY ImageRefOf
<1>2. \A p \in SmmInterface : p.Interface \in Nat /\ p.via \in Nat
  BY DEF SmmInterface
<1> QED
  BY <1>1, <1>2 DEF AddressToImageRefEx

LEMMA ArraysTyped ==
  ASSUME NEW L \in SmmLists
  PROVE  /\ \A h : h.Protocols \in Seq(SmmInterface) =>
              /\ HandleProtocols(L, h) \in Seq(Cells)
              /\ Len(HandleProtocols(L, h)) = Len(h.Protocols)
              /\ \A i \in 1 .. Len(h.Protocols) : HandleProtocols(L, h)[i].extent = 32
         /\ \A e : e.Protocols \in Seq(SmmInterface) =>
              /\ Interfaces(L, e) \in Seq(Cells)
              /\ Len(Interfaces(L, e)) = Len(e.Protocols)
              /\ \A i \in 1 .. Len(e.Protocols) : Interfaces(L, e)[i].extent = 16
         /\ \A addresses \in Seq(Nat), w \in Widths :
              /\ Functions(L, addresses, w) \in Seq(Cells)
              /\ Len(Functions(L, addresses, w)) = Len(addresses)
              /\ \A i \in 1 .. Len(addresses) : Functions(L, addresses, w)[i].extent = w
<1>1. ASSUME NEW h, h.Protocols \in Seq(SmmInterface)
      PROVE  /\ HandleProtocols(L, h) \in Seq(Cells)
             /\ Len(HandleProtocols(L, h)) = Len(h.Protocols)
             /\ \A i \in 1 .. Len(h.Protocols) : HandleProtocols(L, h)[i].extent = 32
  <2> DEFINE s == h.Protocols
             cell(i) == [ Guid |-> s[i].ProtocolID, Value |-> s[i].Interface,
                          ImageRef |-> AddressToImageRefEx(L, s[i]), extent |-> 32 ]
  <2>1. Len(s) \in Nat /\ DOMAIN s = 1 .. Len(s) /\ \A i \in 1 .. Len(s) : s[i] \in SmmInterface
    BY <1>1
  <2>2. HandleProtocols(L, h) = [i \in 1 .. Len(s) |-> cell(i)]
    BY <2>1 DEF HandleProtocols, SizeOfHandleProtocol
  <2>3. \A i \in 1 .. Len(s) : cell(i) \in Cells /\ cell(i).extent = 32
    BY <2>1, ImageRefIsInt DEF Cells, Widths, SmmInterface
  <2> HIDE DEF s, cell
  <2> QED
    BY <2>1, <2>2, <2>3 DEF s
<1>2. ASSUME NEW e, e.Protocols \in Seq(SmmInterface)
      PROVE  /\ Interfaces(L, e) \in Seq(Cells)
             /\ Len(Interfaces(L, e)) = Len(e.Protocols)
             /\ \A i \in 1 .. Len(e.Protocols) : Interfaces(L, e)[i].extent = 16
  <2> DEFINE s == e.Protocols
             cell(i) == [ Value |-> s[i].Interface,
                          ImageRef |-> AddressToImageRefEx(L, s[i]), extent |-> 16 ]
  <2>1. Len(s) \in Nat /\ DOMAIN s = 1 .. Len(s) /\ \A i \in 1 .. Len(s) : s[i] \in SmmInterface
    BY <1>2
  <2>2. Interfaces(L, e) = [i \in 1 .. Len(s) |-> cell(i)]
    BY <2>1 DEF Interfaces, SizeOfInterface
  <2>3. \A i \in 1 .. Len(s) : cell(i) \in Cells /\ cell(i).extent = 16
    BY <2>1, ImageRefIsInt DEF Cells, Widths, SmmInterface
  <2> HIDE DEF s, cell
  <2> QED
    BY <2>1, <2>2, <2>3 DEF s
<1>3. ASSUME NEW s \in Seq(Nat), NEW w \in Widths
      PROVE  /\ Functions(L, s, w) \in Seq(Cells)
             /\ Len(Functions(L, s, w)) = Len(s)
             /\ \A i \in 1 .. Len(s) : Functions(L, s, w)[i].extent = w
  <2> DEFINE cell(i) == [ Value |-> s[i], ImageRef |-> AddressToImageRef(L, s[i]), extent |-> w ]
  <2>1. Len(s) \in Nat /\ DOMAIN s = 1 .. Len(s) /\ \A i \in 1 .. Len(s) : s[i] \in Nat
    OBVIOUS
  <2>2. Functions(L, s, w) = [i \in 1 .. Len(s) |-> cell(i)]
    BY <2>1 DEF Functions
  <2>3. \A i \in 1 .. Len(s) : cell(i) \in Cells /\ cell(i).extent = w
    BY <2>1, ImageRefIsInt DEF Cells
  <2> HIDE DEF cell
  <2> QED
    BY <2>1, <2>2, <2>3
<1> QED
  BY <1>1, <1>2, <1>3

(* The structures that stand for the lists, section by section.             *)
Structure(signature, w, q) ==
  [Signature |-> signature, Id |-> q.Id, width |-> w, first |-> q.first, second |-> q.second]
StructuresOf(signature, w, list) ==
  [k \in 1 .. Len(list) |-> Structure(signature, w, list[k])]

ImageStructures(L) ==
  [k \in 1 .. Len(L.images) |->
     [ Signature |-> "SCID", Id |-> L.images[k].Name, width |-> 132,
      first |-> <<>>, second |-> <<>> ]]
HandleStructures(L) == StructuresOf("SCHD", SizeOfHandleProtocol, HandleRecords(L))
ProtocolStructures(L) == StructuresOf("SCPD", SizeOfInterface, ProtocolRecords(L))
SmiStructures(L) == StructuresOf("SCSD", SizeOfSmiHandler, SmiRecords(L))
RootStructure(L) ==
  [Signature |-> "SCSD", Id |-> Root, width |-> 24, first |-> Functions(L, L.roots, 24),
   second |-> <<>>]
ChildStructure(L) ==
  [Signature |-> "CDSD", Id |-> "SwDispatch2", width |-> 32,
   first |-> Functions(L, L.children, 32), second |-> <<>>]
ChildStructures(L) == IF L.childLib = "Null" THEN <<>> ELSE <<ChildStructure(L)>>

(* Both passes stop at the entry of the driver's own protocol, the last.    *)
LEMMA EntriesDumpedAre ==
  ASSUME NEW L \in SmmLists
  PROVE  /\ EntriesDumped(L) \in Seq([ ProtocolID : STRING, Protocols : Seq(SmmInterface),
                                       Notify : Seq(Nat) ])
         /\ EntriesDumped(L) =
              Where(L.entries, {e \in ToSet(L.entries) : e.ProtocolID # OwnProtocol})
<1> DEFINE E == [ProtocolID : STRING, Protocols : Seq(SmmInterface), Notify : Seq(Nat)]
           s == L.entries
           N == Len(s)
           Keep == {e \in ToSet(s) : e.ProtocolID # OwnProtocol}
           T == {i \in 1 .. N : s[i].ProtocolID = OwnProtocol}
           own == IF T # {} THEN Min(T) ELSE 0
<1>1. s \in Seq(E) /\ N \in Nat
  <2>1. s \in Seq(E)
    BY ListsTyped, Zenon
  <2> HIDE DEF E, s
  <2> QED
    BY <2>1
<1> HIDE DEF E
<1>2. EntriesDumped(L) = IF own = 0 THEN s ELSE SubSeq(s, 1, own - 1)
  BY DEF EntriesDumped, SelectInSeq
<1>3. \A i \in 1 .. N : i # N => s[i].ProtocolID # OwnProtocol
  BY SmmListsAssumption, <1>1
<1>4. \A i \in 1 .. N : s[i] \in Keep <=> s[i].ProtocolID # OwnProtocol
  BY <1>1, MembersOfSeq
<1>5. CASE T = {}
  <2>1. EntriesDumped(L) = s
    BY <1>2, <1>5
  <2>2. \A i \in 1 .. N : s[i] \in Keep
    BY <1>4, <1>5
  <2> HIDE DEF Keep
  <2>3. Where(s, Keep) = s
    BY <1>1, <2>2, WhereAll
  <2> QED
    BY <2>1, <2>3, <1>1 DEF Keep, E
<1>6. CASE T # {}
  <2>1. T = {N} /\ N \in 1 .. N
    BY <1>1, <1>3, <1>6
  <2>2. own = N
    <3>1. T \in SUBSET Nat /\ T # {}
      BY <2>1, <1>1
    <3> HIDE DEF T
    <3>2. Min(T) \in T
      BY <3>1, MinOf
    <3> QED
      BY <2>1, <3>1, <3>2
  <2> HIDE DEF T, own
  <2>3. EntriesDumped(L) = SubSeq(s, 1, N - 1)
    BY <1>2, <2>1, <2>2
  <2>4. /\ N - 1 \in 0 .. Len(s) /\ \A i \in 1 .. N - 1 : s[i] \in Keep
        /\ \A i \in (N - 1) + 1 .. Len(s) : s[i] \notin Keep
    BY <1>1, <1>3, <1>4, <2>1 DEF T
  <2> HIDE DEF Keep
  <2>5. Where(s, Keep) = SubSeq(s, 1, N - 1)
    BY <1>1, <2>4, WhereFront
  <2>6. SubSeq(s, 1, N - 1) \in Seq(E)
    BY <1>1, <2>4, InitialStep
  <2> QED
    BY <2>3, <2>5, <2>6 DEF Keep, E
<1> QED
  BY <1>5, <1>6

LEMMA HandlesPlanned ==
  ASSUME NEW L \in SmmLists
  PROVE  LET R == HandleStructures(L)
             list == HandleRecords(L)
         IN  /\ R \in Seq(Structures) /\ Len(R) = Len(L.handles) /\ Len(list) = Len(R)
             /\ \A k \in 1 .. Len(R) :
                  /\ R[k].Signature = "SCHD" /\ R[k].width = SizeOfHandleProtocol
                  /\ list[k].Id = R[k].Id /\ list[k].first = R[k].first
                  /\ list[k].second = R[k].second
             /\ GetSmmHandlerDatabaseSize(L) = Total(SizesOf(R))
<1> DEFINE s == L.handles
           R == HandleStructures(L)
           list == HandleRecords(L)
           N == Len(s)
           entry(k) == [ Id |-> s[k].Handle, first |-> HandleProtocols(L, s[k]), second |-> <<>> ]
           cell(k) == [ Signature |-> "SCHD", Id |-> s[k].Handle, width |-> 32,
                        first |-> HandleProtocols(L, s[k]), second |-> <<>> ]
<1>1. /\ N \in Nat /\ DOMAIN s = 1 .. N
      /\ \A k \in 1 .. N : s[k].Handle \in STRING /\ s[k].Protocols \in Seq(SmmInterface)
  <2> DEFINE E == [Handle : STRING, Protocols : Seq(SmmInterface)]
  <2>1. s \in Seq(E)
    BY ListsTyped, Zenon
  <2> HIDE DEF s, E
  <2>2. N \in Nat /\ DOMAIN s = 1 .. N /\ \A k \in 1 .. N : s[k] \in E
    BY <2>1
  <2> QED
    BY <2>2 DEF E
<1>2. list = [k \in 1 .. N |-> entry(k)] /\ Len(list) = N /\ \A k \in 1 .. N : list[k] = entry(k)
  <2>1. list = [k \in 1 .. N |-> entry(k)]
    BY <1>1 DEF HandleRecords
  <2> HIDE DEF list, entry, s, N
  <2> QED
    BY <2>1, <1>1
<1>3. R = [k \in 1 .. N |-> cell(k)] /\ \A k \in 1 .. N : R[k] = cell(k)
  <2>1. \A k \in 1 .. N : Structure("SCHD", SizeOfHandleProtocol, list[k]) = cell(k)
    BY <1>2 DEF Structure, SizeOfHandleProtocol
  <2>2. R = [k \in 1 .. N |-> Structure("SCHD", SizeOfHandleProtocol, list[k])]
    BY <1>2 DEF HandleStructures, StructuresOf
  <2> HIDE DEF R, list, cell, s, N
  <2> QED
    BY <2>1, <2>2
<1>4. ASSUME NEW k \in 1 .. N
      PROVE  /\ cell(k) \in Structures
             /\ LenOf(cell(k)) = SizeOf("SCHD") + SizeOfHandleProtocol * Len(s[k].Protocols)
  <2> DEFINE first == HandleProtocols(L, s[k])
  <2>1. /\ first \in Seq(Cells) /\ Len(first) = Len(s[k].Protocols)
        /\ \A i \in 1 .. Len(first) : first[i].extent = 32
    BY <1>1, ArraysTyped
  <2>2. cell(k) \in [Signature : Signatures, Id : Ids, width : Widths,
                     first : Seq(Cells), second : Seq(Cells)]
    BY <1>1, <2>1 DEF Signatures, Widths, Ids
  <2>3. LenOf(cell(k)) = SizeOf("SCHD") + 32 * Len(first) + 32 * 0
    BY DEF LenOf
  <2> QED
    BY <2>1, <2>2, <2>3 DEF Structures, SizeOf, SizeOfHandleProtocol
<1>5. R \in Seq(Structures) /\ Len(R) = N
  <2> HIDE DEF R, cell, N
  <2> QED
    BY <1>1, <1>3, <1>4
<1>6. SizesOf(R) = [k \in 1 .. N |-> SizeOf("SCHD") + SizeOfHandleProtocol * Len(s[k].Protocols)]
  <2>1. \A k \in 1 .. N :
          LenOf(R[k]) = SizeOf("SCHD") + SizeOfHandleProtocol * Len(s[k].Protocols)
    BY <1>3, <1>4
  <2> HIDE DEF R, N, s
  <2> QED
    BY <1>5, <2>1 DEF SizesOf
<1>7. GetSmmHandlerDatabaseSize(L)
        = Total([k \in 1 .. N |-> SizeOf("SCHD") + SizeOfHandleProtocol * Len(s[k].Protocols)])
  BY <1>1 DEF GetSmmHandlerDatabaseSize, SumOf
<1>8. \A k \in 1 .. N :
        /\ R[k].Signature = "SCHD" /\ R[k].width = SizeOfHandleProtocol
        /\ list[k].Id = R[k].Id /\ list[k].first = R[k].first /\ list[k].second = R[k].second
  BY <1>2, <1>3 DEF SizeOfHandleProtocol
<1> QED
  BY <1>2, <1>5, <1>6, <1>7, <1>8

LEMMA ProtocolsPlanned ==
  ASSUME NEW L \in SmmLists
  PROVE  LET R == ProtocolStructures(L)
             list == ProtocolRecords(L)
         IN  /\ R \in Seq(Structures) /\ Len(R) = Len(EntriesDumped(L)) /\ Len(list) = Len(R)
             /\ \A k \in 1 .. Len(R) :
                  /\ R[k].Signature = "SCPD" /\ R[k].width = SizeOfInterface
                  /\ list[k].Id = R[k].Id /\ list[k].first = R[k].first
                  /\ list[k].second = R[k].second
             /\ GetSmmProtocolDatabaseSize(L) = Total(SizesOf(R))
<1> DEFINE s == EntriesDumped(L)
           R == ProtocolStructures(L)
           list == ProtocolRecords(L)
           N == Len(s)
           entry(k) == [ Id |-> s[k].ProtocolID, first |-> Interfaces(L, s[k]),
                         second |-> Functions(L, s[k].Notify, SizeOfNotify) ]
           cell(k) == [ Signature |-> "SCPD", Id |-> s[k].ProtocolID, width |-> 16,
                        first |-> Interfaces(L, s[k]),
                        second |-> Functions(L, s[k].Notify, SizeOfNotify) ]
           size(k) == SizeOf("SCPD") + SizeOfInterface * Len(s[k].Protocols)
                                     + SizeOfNotify * Len(s[k].Notify)
<1>1. /\ N \in Nat /\ DOMAIN s = 1 .. N
      /\ \A k \in 1 .. N : /\ s[k].ProtocolID \in STRING /\ s[k].Protocols \in Seq(SmmInterface)
                           /\ s[k].Notify \in Seq(Nat)
  <2> DEFINE E == [ProtocolID : STRING, Protocols : Seq(SmmInterface), Notify : Seq(Nat)]
  <2>1. s \in Seq(E)
    BY EntriesDumpedAre, Zenon
  <2> HIDE DEF s, E
  <2>2. N \in Nat /\ DOMAIN s = 1 .. N /\ \A k \in 1 .. N : s[k] \in E
    BY <2>1
  <2> QED
    BY <2>2 DEF E
<1>2. list = [k \in 1 .. N |-> entry(k)] /\ Len(list) = N /\ \A k \in 1 .. N : list[k] = entry(k)
  <2>1. list = [k \in 1 .. N |-> entry(k)]
    BY <1>1 DEF ProtocolRecords
  <2> HIDE DEF list, entry, s, N
  <2> QED
    BY <2>1, <1>1
<1>3. R = [k \in 1 .. N |-> cell(k)] /\ \A k \in 1 .. N : R[k] = cell(k)
  <2>1. \A k \in 1 .. N : Structure("SCPD", SizeOfInterface, list[k]) = cell(k)
    BY <1>2 DEF Structure, SizeOfInterface
  <2>2. R = [k \in 1 .. N |-> Structure("SCPD", SizeOfInterface, list[k])]
    BY <1>2 DEF ProtocolStructures, StructuresOf
  <2> HIDE DEF R, list, cell, s, N
  <2> QED
    BY <2>1, <2>2
<1>4. ASSUME NEW k \in 1 .. N
      PROVE  cell(k) \in Structures /\ LenOf(cell(k)) = size(k)
  <2> DEFINE first == Interfaces(L, s[k])
             second == Functions(L, s[k].Notify, SizeOfNotify)
  <2>1. /\ first \in Seq(Cells) /\ Len(first) = Len(s[k].Protocols)
        /\ \A i \in 1 .. Len(first) : first[i].extent = 16
    BY <1>1, ArraysTyped
  <2>2. /\ second \in Seq(Cells) /\ Len(second) = Len(s[k].Notify)
        /\ \A i \in 1 .. Len(second) : second[i].extent = 16
    BY <1>1, ArraysTyped DEF SizeOfNotify, Widths
  <2>3. cell(k) \in [Signature : Signatures, Id : Ids, width : Widths,
                     first : Seq(Cells), second : Seq(Cells)]
    BY <1>1, <2>1, <2>2 DEF Signatures, Widths, Ids
  <2>4. LenOf(cell(k)) = SizeOf("SCPD") + 16 * Len(first) + 16 * Len(second)
    BY DEF LenOf
  <2> QED
    BY <2>1, <2>2, <2>3, <2>4 DEF Structures, SizeOfInterface, SizeOfNotify
<1>5. R \in Seq(Structures) /\ Len(R) = N
  <2> HIDE DEF R, cell, N
  <2> QED
    BY <1>1, <1>3, <1>4
<1>6. SizesOf(R) = [k \in 1 .. N |-> size(k)]
  <2>1. \A k \in 1 .. N : LenOf(R[k]) = size(k)
    BY <1>3, <1>4
  <2> HIDE DEF R, N, size
  <2> QED
    BY <1>5, <2>1 DEF SizesOf
<1>7. GetSmmProtocolDatabaseSize(L) = Total([k \in 1 .. N |-> size(k)])
  BY <1>1 DEF GetSmmProtocolDatabaseSize, SumOf
<1>8. \A k \in 1 .. N :
        /\ R[k].Signature = "SCPD" /\ R[k].width = SizeOfInterface
        /\ list[k].Id = R[k].Id /\ list[k].first = R[k].first /\ list[k].second = R[k].second
  BY <1>2, <1>3 DEF SizeOfInterface
<1> QED
  BY <1>2, <1>5, <1>6, <1>7, <1>8

LEMMA SmisPlanned ==
  ASSUME NEW L \in SmmLists
  PROVE  LET R == SmiStructures(L)
             list == SmiRecords(L)
         IN  /\ R \in Seq(Structures) /\ Len(R) = Len(L.smis) /\ Len(list) = Len(R)
             /\ \A k \in 1 .. Len(R) :
                  /\ R[k].Signature = "SCSD" /\ R[k].width = SizeOfSmiHandler
                  /\ list[k].Id = R[k].Id /\ list[k].first = R[k].first
                  /\ list[k].second = R[k].second /\ R[k].Id # Root
             /\ GetSmmSmiDatabaseSize(L) = Total(SizesOf(R))
<1> DEFINE s == L.smis
           R == SmiStructures(L)
           list == SmiRecords(L)
           N == Len(s)
           entry(k) == [ Id |-> s[k].HandlerType, second |-> <<>>,
                         first |-> Functions(L, s[k].SmiHandlers, SizeOfSmiHandler) ]
           cell(k) == [ Signature |-> "SCSD", Id |-> s[k].HandlerType, width |-> 24,
                        first |-> Functions(L, s[k].SmiHandlers, SizeOfSmiHandler),
                        second |-> <<>> ]
           size(k) == SizeOf("SCSD") + SizeOfSmiHandler * Len(s[k].SmiHandlers)
<1>1. /\ N \in Nat /\ DOMAIN s = 1 .. N
      /\ \A k \in 1 .. N : /\ s[k].HandlerType \in STRING \ {Root}
                           /\ s[k].SmiHandlers \in Seq(Nat)
  <2> DEFINE E == [HandlerType : STRING \ {Root}, SmiHandlers : Seq(Nat)]
  <2>1. s \in Seq(E)
    BY ListsTyped, Zenon
  <2> HIDE DEF s, E
  <2>2. N \in Nat /\ DOMAIN s = 1 .. N /\ \A k \in 1 .. N : s[k] \in E
    BY <2>1
  <2> QED
    BY <2>2 DEF E
<1>2. list = [k \in 1 .. N |-> entry(k)] /\ Len(list) = N /\ \A k \in 1 .. N : list[k] = entry(k)
  <2>1. list = [k \in 1 .. N |-> entry(k)]
    BY <1>1 DEF SmiRecords
  <2> HIDE DEF list, entry, s, N
  <2> QED
    BY <2>1, <1>1
<1>3. R = [k \in 1 .. N |-> cell(k)] /\ \A k \in 1 .. N : R[k] = cell(k)
  <2>1. \A k \in 1 .. N : Structure("SCSD", SizeOfSmiHandler, list[k]) = cell(k)
    BY <1>2 DEF Structure, SizeOfSmiHandler
  <2>2. R = [k \in 1 .. N |-> Structure("SCSD", SizeOfSmiHandler, list[k])]
    BY <1>2 DEF SmiStructures, StructuresOf
  <2> HIDE DEF R, list, cell, s, N
  <2> QED
    BY <2>1, <2>2
<1>4. ASSUME NEW k \in 1 .. N
      PROVE  cell(k) \in Structures /\ LenOf(cell(k)) = size(k)
  <2> DEFINE first == Functions(L, s[k].SmiHandlers, SizeOfSmiHandler)
  <2>1. /\ first \in Seq(Cells) /\ Len(first) = Len(s[k].SmiHandlers)
        /\ \A i \in 1 .. Len(first) : first[i].extent = 24
    <3> DEFINE addresses == s[k].SmiHandlers
    <3>1. addresses \in Seq(Nat) /\ SizeOfSmiHandler \in Widths /\ SizeOfSmiHandler = 24
      BY <1>1 DEF SizeOfSmiHandler, Widths
    <3> HIDE DEF addresses
    <3>2. /\ Functions(L, addresses, SizeOfSmiHandler) \in Seq(Cells)
          /\ Len(Functions(L, addresses, SizeOfSmiHandler)) = Len(addresses)
          /\ \A i \in 1 .. Len(addresses) :
               Functions(L, addresses, SizeOfSmiHandler)[i].extent = SizeOfSmiHandler
      BY <3>1, ArraysTyped
    <3> QED
      BY <3>1, <3>2 DEF addresses
  <2>2. cell(k) \in [Signature : Signatures, Id : Ids, width : Widths,
                     first : Seq(Cells), second : Seq(Cells)]
    BY <1>1, <2>1 DEF Signatures, Widths, Ids
  <2>3. LenOf(cell(k)) = SizeOf("SCSD") + 24 * Len(first) + 24 * 0
    BY DEF LenOf
  <2>4. cell(k).first = first /\ cell(k).second = <<>> /\ cell(k).width = 24
    OBVIOUS
  <2>5. size(k) = 40 + 24 * Len(first) /\ LenOf(cell(k)) = 40 + 24 * Len(first)
    <3> DEFINE n == Len(first)
    <3>1. n \in Nat /\ n = Len(s[k].SmiHandlers)
      BY <2>1
    <3>2. SizeOf("SCSD") = 40 /\ SizeOfSmiHandler = 24
      BY DEF SizeOf, SizeOfSmiHandler
    <3> HIDE DEF n, cell
    <3> QED
      BY <2>3, <3>1, <3>2 DEF n
  <2> HIDE DEF cell, size, first
  <2> QED
    BY <2>1, <2>2, <2>4, <2>5 DEF Structures
<1>5. R \in Seq(Structures) /\ Len(R) = N
  <2> HIDE DEF R, cell, N
  <2> QED
    BY <1>1, <1>3, <1>4
<1>6. SizesOf(R) = [k \in 1 .. N |-> size(k)]
  <2>1. \A k \in 1 .. N : LenOf(R[k]) = size(k)
    BY <1>3, <1>4
  <2> HIDE DEF R, N, size
  <2> QED
    BY <1>5, <2>1 DEF SizesOf
<1>7. GetSmmSmiDatabaseSize(L) = Total([k \in 1 .. N |-> size(k)])
  BY <1>1 DEF GetSmmSmiDatabaseSize, SumOf
<1>8. \A k \in 1 .. N :
        /\ R[k].Signature = "SCSD" /\ R[k].width = SizeOfSmiHandler
        /\ list[k].Id = R[k].Id /\ list[k].first = R[k].first /\ list[k].second = R[k].second
        /\ R[k].Id # Root
  BY <1>1, <1>2, <1>3 DEF SizeOfSmiHandler
<1> QED
  BY <1>2, <1>5, <1>6, <1>7, <1>8

LEMMA ImagesPlanned ==
  ASSUME NEW L \in SmmLists
  PROVE  LET R == ImageStructures(L)
         IN  /\ R \in Seq(Structures) /\ Len(R) = Len(L.images) /\ Len(R) \in Nat
             /\ \A k \in 1 .. Len(R) :
                  /\ R[k].Signature = "SCID" /\ R[k].Id = L.images[k].Name
                  /\ R[k].first = <<>> /\ R[k].second = <<>> /\ LenOf(R[k]) = 132
             /\ GetSmmImageDatabaseSize(L) = 132 * Len(R)
<1> DEFINE s == L.images
           R == ImageStructures(L)
           N == Len(s)
           cell(k) == [ Signature |-> "SCID", Id |-> s[k].Name, width |-> 132,
                        first |-> <<>>, second |-> <<>> ]
<1>1. N \in Nat /\ DOMAIN s = 1 .. N /\ \A k \in 1 .. N : s[k].Name \in STRING
  <2>1. s \in Seq(SmmImage)
    BY ListsTyped, Zenon
  <2> HIDE DEF s
  <2>2. N \in Nat /\ DOMAIN s = 1 .. N /\ \A k \in 1 .. N : s[k] \in SmmImage
    BY <2>1
  <2> QED
    BY <2>2 DEF SmmImage
<1>2. R = [k \in 1 .. N |-> cell(k)]
  BY <1>1 DEF ImageStructures
<1>3. ASSUME NEW k \in 1 .. N
      PROVE  cell(k) \in Structures /\ LenOf(cell(k)) = 132
  <2>1. cell(k) \in [Signature : Signatures, Id : Ids, width : Widths,
                     first : Seq(Cells), second : Seq(Cells)]
    BY <1>1 DEF Signatures, Widths, Ids
  <2>2. LenOf(cell(k)) = SizeOf("SCID") + 132 * 0 + 132 * 0
    BY DEF LenOf
  <2> QED
    BY <2>1, <2>2 DEF Structures, SizeOf
<1>4. R \in Seq(Structures) /\ Len(R) = N /\ \A k \in 1 .. N : R[k] = cell(k)
  <2> HIDE DEF R, cell, N
  <2> QED
    BY <1>1, <1>2, <1>3
<1>5. GetSmmImageDatabaseSize(L) = 132 * N
  BY DEF GetSmmImageDatabaseSize, SizeOf
<1>6. \A k \in 1 .. N :
        /\ R[k].Signature = "SCID" /\ R[k].Id = s[k].Name
        /\ R[k].first = <<>> /\ R[k].second = <<>> /\ LenOf(R[k]) = 132
  <2> HIDE DEF R
  <2>1. \A k \in 1 .. N : R[k] = cell(k) /\ LenOf(R[k]) = LenOf(cell(k))
    BY <1>4
  <2>2. \A k \in 1 .. N : /\ cell(k).Signature = "SCID" /\ cell(k).Id = s[k].Name
                          /\ cell(k).first = <<>> /\ cell(k).second = <<>>
    OBVIOUS
  <2> HIDE DEF cell, N
  <2> QED
    BY <1>3, <2>1, <2>2
<1> HIDE DEF R
<1> QED
  BY <1>1, <1>4, <1>5, <1>6 DEF R

LEMMA SinglesPlanned ==
  ASSUME NEW L \in SmmLists
  PROVE  /\ RootStructure(L) \in Structures
         /\ LenOf(RootStructure(L)) = GetSmmRootSmiDatabaseSize(L)
         /\ ChildStructure(L) \in Structures
         /\ SmmChildGetDataSize(L)
              = IF L.childLib = "Null" THEN 0 ELSE LenOf(ChildStructure(L))
         /\ Len(RootStructure(L).first) = Len(L.roots)
         /\ Len(ChildStructure(L).first) = Len(L.children)
<1> DEFINE roots == Functions(L, L.roots, 24)
           children == Functions(L, L.children, 32)
<1>1. /\ roots \in Seq(Cells) /\ Len(roots) = Len(L.roots)
      /\ \A i \in 1 .. Len(roots) : roots[i].extent = 24
  BY ListsTyped, ArraysTyped DEF Widths
<1>2. /\ children \in Seq(Cells) /\ Len(children) = Len(L.children)
      /\ \A i \in 1 .. Len(children) : children[i].extent = 32
  BY ListsTyped, ArraysTyped DEF Widths
<1> HIDE DEF roots, children
<1>3. /\ RootStructure(L) = [Signature |-> "SCSD", Id |-> Root, width |-> 24, first |-> roots,
                             second |-> <<>>]
      /\ ChildStructure(L) = [Signature |-> "CDSD", Id |-> "SwDispatch2", width |-> 32,
                              first |-> children, second |-> <<>>]
  BY DEF RootStructure, ChildStructure, roots, children
<1>4. RootStructure(L) \in Structures /\ ChildStructure(L) \in Structures
  <2>1. RootStructure(L) \in Structures
    BY <1>1, <1>3 DEF Structures, Signatures, Widths, Ids
  <2>2. ChildStructure(L) \in Structures
    BY <1>2, <1>3 DEF Structures, Signatures, Widths, Ids
  <2> QED
    BY <2>1, <2>2
<1>5. /\ LenOf(RootStructure(L)) = SizeOf("SCSD") + 24 * Len(roots) + 24 * 0
      /\ LenOf(ChildStructure(L)) = SizeOf("CDSD") + 32 * Len(children) + 32 * 0
  BY <1>3 DEF LenOf
<1> QED
  BY <1>1, <1>2, <1>3, <1>4, <1>5
     DEF GetSmmRootSmiDatabaseSize, SmmChildGetDataSize, SizeOf, SizeOfSmiHandler,
         SizeOfSwSmiHandler

(* A header and its array have been written behind the structures of P.     *)
HeadWritten(array, cell, m, P, base, r) ==
  /\ array.count = Len(r.first)
  /\ Built(Write(array.mem, WriteAt(base, cell, m)), Append(P, r), base + LenOf(r))

(* A structure that is a header and one array, the last of its section.     *)
LEMMA HeadStep ==
  ASSUME NEW m, NEW P \in Seq(Structures), NEW base \in Nat, Built(m, P, base),
         NEW r \in Structures, r.second = <<>>, NEW cell, "Signature" \in DOMAIN cell,
         cell.Signature = r.Signature, cell.Length = LenOf(r), cell.Id = r.Id,
         cell.Counts = <<Len(r.first), 0>>, cell.extent = SizeOf(r.Signature),
         NEW max, max = r.width * Len(r.first),
         NEW place, place = base + SizeOf(r.Signature)
  PROVE  HeadWritten(Array(place, r.width, r.first, max), cell, m, P, base, r)
<1> DEFINE w == r.width
           items == r.first
           head == SizeOf(r.Signature)
           m1 == WriteAt(base, cell, m)
           array == Array(place, w, items, max)
           m2 == Write(array.mem, m1)
<1>1. /\ head \in Nat \ {0} /\ w \in Widths /\ items \in Seq(Cells) /\ Len(items) \in Nat
      /\ w * Len(items) \in Nat /\ LenOf(r) = head + w * Len(items) /\ LenOf(r) \in Nat
      /\ \A i \in 1 .. Len(items) : items[i].extent = w
  <2>1. /\ head \in Nat \ {0} /\ w \in Widths /\ items \in Seq(Cells) /\ Len(items) \in Nat
        /\ w * Len(items) \in Nat /\ LenOf(r) \in Nat
    BY StructureFacts
  <2>2. LenOf(r) = head + w * Len(items) + w * 0 /\ w * 0 = 0
    BY <2>1, WidthFacts DEF LenOf
  <2>3. \A i \in 1 .. Len(items) : items[i].extent = w
    BY DEF Structures
  <2> HIDE DEF head, w, items
  <2> QED
    BY <2>1, <2>2, <2>3
<1> HIDE DEF head, w, items
<1>2. Covers(m, base) /\ cell.extent = head /\ place = base + head /\ place \in Nat
  BY <1>1 DEF Built, head
<1>3. Covers(m1, place) /\ Keeps(m1, m) /\ base \in DOMAIN m1 /\ m1[base] = cell
  BY <1>1, <1>2, CoverCell
<1> HIDE DEF m1
<1>4. /\ array.count = Len(items)
      /\ Covers(m2, place + w * Len(items)) /\ Keeps(m2, m1)
      /\ \A i \in 1 .. Len(items) :
           place + w * (i - 1) \in DOMAIN m2 /\ m2[place + w * (i - 1)] = items[i]
  <2>1. max \in Int /\ w * Len(items) <= max
    BY <1>1 DEF w, items
  <2> QED
    <3>1. ArrayWritten(Array(place, w, items, max), place, w, items, m1)
      BY ONLY <1>1, <1>2, <1>3, <2>1, CoverArray
    <3> QED
      BY ONLY <3>1 DEF ArrayWritten, array, m2
<1> HIDE DEF m2
<1>5. Holds(m2, base, r)
  <2>1. base \in DOMAIN m2 /\ m2[base] = cell
    BY <1>3, <1>4 DEF Keeps
  <2>2. r.second = <<>> /\ Len(r.second) = 0
    OBVIOUS
  <2>3. \A i \in 1 .. Len(r.first) :
          /\ base + SizeOf(r.Signature) + r.width * (i - 1) \in DOMAIN m2
          /\ m2[base + SizeOf(r.Signature) + r.width * (i - 1)] = r.first[i]
    BY <1>2, <1>4 DEF head, w, items
  <2>4. cell.Counts = <<Len(r.first), Len(r.second)>>
    BY <2>2
  <2> QED
    BY <2>1, <2>2, <2>3, <2>4 DEF Holds
<1>6. Covers(m2, base + LenOf(r))
  <2>1. place + w * Len(items) = base + LenOf(r)
    BY <1>1, <1>2
  <2> QED
    BY <2>1, <1>4
<1>7. Keeps(m2, m)
  BY <1>3, <1>4, KeepsTwice
<1>8. Built(m2, Append(P, r), base + LenOf(r))
  BY <1>5, <1>6, <1>7, BuiltAppend
<1> QED
  BY ONLY <1>4, <1>8 DEF HeadWritten, array, w, items, m1, m2

(* The images are the first section, an array of structures.                *)
LEMMA ImagesWritten ==
  ASSUME NEW L \in SmmLists, NEW expected, expected = GetSmmImageDatabaseSize(L)
  PROVE  LET this == GetSmmImageDatabaseData(L, Section(<<>>, 0), expected)
         IN  /\ this.ok = TRUE /\ this.Size = expected /\ expected \in Nat
             /\ Built(this.mem, ImageStructures(L), expected)
<1> DEFINE R == ImageStructures(L)
           items == ImageCells(L)
           N == Len(L.images)
           S == [Signature : {"SCID"}, Length : {132}, Id : STRING, extent : {132}]
           m == Array(0, 132, items, expected).mem
           n == Write(m, <<>>)
           this == GetSmmImageDatabaseData(L, Section(<<>>, 0), expected)
<1>1. /\ R \in Seq(Structures) /\ Len(R) = N /\ N \in Nat
      /\ \A k \in 1 .. N : /\ R[k].Signature = "SCID" /\ R[k].Id = L.images[k].Name
                           /\ R[k].first = <<>> /\ R[k].second = <<>> /\ LenOf(R[k]) = 132
      /\ expected = 132 * N
  <2>1. /\ R \in Seq(Structures) /\ Len(R) = N /\ Len(R) \in Nat
        /\ \A k \in 1 .. Len(R) :
             /\ R[k].Signature = "SCID" /\ R[k].Id = L.images[k].Name
             /\ R[k].first = <<>> /\ R[k].second = <<>> /\ LenOf(R[k]) = 132
        /\ GetSmmImageDatabaseSize(L) = 132 * Len(R)
    BY ONLY ImagesPlanned, L \in SmmLists, Zenon
  <2> HIDE DEF R, N
  <2> QED
    BY <2>1
<1>2. /\ DOMAIN L.images = 1 .. N /\ \A k \in 1 .. N : L.images[k].Name \in STRING
  <2> DEFINE s == L.images
  <2>1. s \in Seq(SmmImage)
    BY ListsTyped, Zenon
  <2> HIDE DEF s
  <2>2. DOMAIN s = 1 .. Len(s) /\ \A k \in 1 .. Len(s) : s[k] \in SmmImage
    BY <2>1
  <2> QED
    BY <2>2 DEF SmmImage, s
<1>3. /\ items = [k \in 1 .. N |-> [Signature |-> "SCID", Length |-> 132,
                                    Id |-> L.images[k].Name, extent |-> 132]]
      /\ items \in Seq(S) /\ Len(items) = N
  <2> DEFINE cell(k) == [Signature |-> "SCID", Length |-> 132, Id |-> L.images[k].Name,
                         extent |-> 132]
  <2>1. items = [k \in 1 .. N |-> cell(k)]
    BY <1>2 DEF ImageCells, SizeOf
  <2>2. \A k \in 1 .. N : cell(k) \in S
    BY <1>2
  <2> HIDE DEF items, S, N, cell
  <2>3. items \in Seq(S) /\ Len(items) = N
    BY <1>1, <2>1, <2>2
  <2> QED
    BY <2>1, <2>3 DEF cell
<1>4. /\ 132 \in Widths /\ (132 * N) \div 132 = N /\ expected \in Nat
      /\ 132 * N \in Nat /\ \A k \in Nat : 132 * k \in Nat
      /\ \A k \in 1 .. N : 132 * ((k + 1) - 1) = 132 * (k - 1) + 132
  <2>1. N \in Nat /\ expected = 132 * N
    BY <1>1
  <2> HIDE DEF N
  <2>2. 132 \in Widths /\ (132 * N) \div 132 = N
    BY <2>1 DEF Widths
  <2>3. 132 * N \in Nat /\ \A k \in Nat : 132 * k \in Nat
    BY <2>1
  <2>4. \A k \in 1 .. N : 132 * ((k + 1) - 1) = 132 * (k - 1) + 132
    BY <2>1
  <2> QED
    BY <2>1, <2>2, <2>3, <2>4
<1>5. Covers(<<>>, 0)
  BY DEF Covers
<1>6. /\ Covers(n, 132 * N)
      /\ \A k \in 1 .. N : 132 * (k - 1) \in DOMAIN n /\ n[132 * (k - 1)] = items[k]
  <2>1. \A k \in 1 .. Len(items) : items[k].extent = 132
    BY <1>3
  <2> HIDE DEF items, S, N
  <2> DEFINE z == 0
             w == 132
             e == <<>>
             written == Array(z, w, items, expected)
             q == Write(written.mem, e)
  <2>2. z = 0 /\ w = 132 /\ q = n
    OBVIOUS
  <2>3. z \in Nat /\ Covers(e, z) /\ w \in Widths
    BY <1>4, <1>5
  <2>4. items \in Seq(S)
    BY <1>3
  <2>5. w * Len(items) <= expected /\ expected \in Int
    BY <1>1, <1>3, <1>4
  <2>6. \A k \in 1 .. Len(items) : items[k].extent = w
    BY <2>1
  <2> HIDE DEF z, w, e, n
  <2>7. /\ Covers(q, z + w * Len(items))
        /\ \A i \in 1 .. Len(items) :
             z + w * (i - 1) \in DOMAIN q /\ q[z + w * (i - 1)] = items[i]
    <3>1. ArrayWritten(written, z, w, items, e)
      BY ONLY <2>5, <2>6, <2>3, <2>4, CoverArray
    <3> QED
      BY ONLY <3>1 DEF ArrayWritten, q
  <2> HIDE DEF q
  <2>8. z + w * N = 132 * N /\ \A i \in 1 .. N : z + w * (i - 1) = 132 * (i - 1)
    <3>1. 132 * N \in Nat /\ \A i \in 1 .. N : 132 * (i - 1) \in Nat
      BY <1>1, <1>4
    <3> QED
      BY ONLY <3>1 DEF z, w
  <2>9. Len(items) = N
    BY <1>3
  <2>10. /\ Covers(n, 132 * Len(items))
         /\ \A i \in 1 .. N : 132 * (i - 1) \in DOMAIN n /\ n[132 * (i - 1)] = items[i]
    <3>1. z + w * Len(items) = 132 * Len(items)
      BY ONLY <2>8, <2>9, Zenon
    <3>2. Covers(n, 132 * Len(items))
      BY ONLY <3>1, <2>2, <2>7, Zenon
    <3>3. \A i \in 1 .. N : 132 * (i - 1) \in DOMAIN n /\ n[132 * (i - 1)] = items[i]
      <4>1. \A i \in 1 .. N : /\ z + w * (i - 1) \in DOMAIN n
                             /\ n[z + w * (i - 1)] = items[i]
        BY ONLY <2>2, <2>7, <2>9, Zenon
      <4> QED
        BY ONLY <4>1, <2>8, ZenonT(60)
    <3> QED
      BY ONLY <3>2, <3>3, Zenon
  <2> QED
    BY ONLY <2>9, <2>10, Zenon
<1>7. this = [mem |-> n, base |-> 0, Size |-> 132 * N, ok |-> TRUE]
  <2>1. expected \div 132 = N
    BY <1>1, <1>4
  <2> HIDE DEF n, N
  <2> QED
    BY <2>1, ZenonT(60) DEF GetSmmImageDatabaseData, Section, SizeOf, n, N
<1> DEFINE at == [k \in 1 .. N + 1 |-> 132 * (k - 1)]
<1>8. Starts(at, n, R, 132 * N)
  <2>1. \A k \in 1 .. N : items[k] = [Signature |-> "SCID", Length |-> 132,
                                      Id |-> L.images[k].Name, extent |-> 132]
    BY <1>3
  <2> HIDE DEF items, n, N
  <2>2. ASSUME NEW k \in 1 .. N PROVE Holds(n, 132 * (k - 1), R[k])
    <3> DEFINE a == 132 * (k - 1)
               r == R[k]
               name == L.images[k].Name
    <3>1. a \in DOMAIN n /\ n[a] = [Signature |-> "SCID", Length |-> 132, Id |-> name,
                                     extent |-> 132]
      BY <1>6, <2>1
    <3>2. /\ r.Signature = "SCID" /\ r.Id = name /\ r.first = <<>> /\ r.second = <<>>
          /\ LenOf(r) = 132
      BY <1>1 DEF N
    <3> HIDE DEF a, r, name, R
    <3>3. Len(r.first) = 0 /\ Len(r.second) = 0
      BY <3>2
    <3>4. /\ "Signature" \in DOMAIN n[a] /\ n[a].Signature = r.Signature
          /\ n[a].Length = LenOf(r) /\ n[a].Id = r.Id
      BY <3>1, <3>2
    <3>5. Holds(n, a, r)
      BY <3>1, <3>2, <3>3, <3>4 DEF Holds
    <3> QED
      BY <3>5 DEF a, r
  <2>3. /\ at \in [1 .. N + 1 -> Nat] /\ at[1] = 0 /\ at[N + 1] = 132 * N
        /\ \A k \in 1 .. N : at[k] = 132 * (k - 1) /\ at[k + 1] = 132 * (k - 1) + 132
    BY <1>1, <1>4
  <2> HIDE DEF at, R
  <2> QED
    BY <1>1, <2>2, <2>3 DEF Starts
<1> HIDE DEF at, n, R, N
<1>9. Built(n, R, 132 * N)
  BY <1>6, <1>8 DEF Built
<1> QED
  BY <1>1, <1>4, <1>7, <1>9 DEF N, R

LEMMA RootWritten ==
  ASSUME NEW L \in SmmLists, NEW m, NEW P \in Seq(Structures), NEW base \in Nat,
         Built(m, P, base), NEW expected, expected = GetSmmRootSmiDatabaseSize(L)
  PROVE  Written(GetSmmRootSmiDatabaseData(L, Section(m, base), expected), expected, P,
                 <<RootStructure(L)>>, base)
<1> DEFINE r == RootStructure(L)
           items == Functions(L, L.roots, 24)
           N == Len(items)
           array == Array(base + 40, 24, items, expected - 40)
           cell == RootSmiCell(N, LenOf(r))
           n == Write(array.mem, WriteAt(base, cell, m))
           this == GetSmmRootSmiDatabaseData(L, Section(m, base), expected)
<1>1. /\ r \in Structures /\ LenOf(r) = expected /\ N = Len(L.roots)
      /\ r.first = items /\ r.second = <<>> /\ r.width = 24 /\ r.Signature = "SCSD"
      /\ r.Id = Root
  <2>1. r.first = items /\ r.second = <<>> /\ r.width = 24 /\ r.Signature = "SCSD" /\ r.Id = Root
    BY DEF RootStructure
  <2> HIDE DEF r
  <2> QED
    BY <2>1, SinglesPlanned DEF r
<1>2. expected \in Nat /\ N \in Nat /\ expected - 40 = 24 * N
  <2>1. expected \in Nat
    BY <1>1, StructureFacts
  <2>2. N \in Nat
    BY <1>1, ListsTyped
  <2>3. expected = 40 + 24 * N
    BY <1>1 DEF GetSmmRootSmiDatabaseSize, SizeOf, SizeOfSmiHandler
  <2> HIDE DEF N
  <2> QED
    BY <2>1, <2>2, <2>3
<1>3. array.count = N /\ Built(n, Append(P, r), base + expected)
  <2>1. SizeOf(r.Signature) = 40
    BY <1>1 DEF SizeOf
  <2>2. /\ "Signature" \in DOMAIN cell /\ cell.Signature = "SCSD" /\ cell.Length = LenOf(r)
        /\ cell.Id = Root /\ cell.Counts = <<N, 0>> /\ cell.extent = 40
    BY DEF RootSmiCell, SizeOf
  <2> DEFINE max == expected - 40
             place == base + 40
  <2>3. max = r.width * Len(r.first) /\ place = base + SizeOf(r.Signature)
    BY <1>1, <1>2, <2>1
  <2>4. /\ "Signature" \in DOMAIN cell /\ cell.Signature = r.Signature /\ cell.Length = LenOf(r)
        /\ cell.Id = r.Id /\ cell.Counts = <<Len(r.first), 0>>
        /\ cell.extent = SizeOf(r.Signature)
    BY <1>1, <2>1, <2>2
  <2> HIDE DEF r, cell, max, place, items
  <2>5. r \in Structures /\ r.second = <<>> /\ Built(m, P, base)
    BY <1>1
  <2>6. HeadWritten(Array(place, r.width, r.first, max), cell, m, P, base, r)
    BY ONLY <2>3, <2>4, <2>5, HeadStep
  <2> QED
    BY <1>1, <2>6 DEF place, max, HeadWritten
<1>4. this = [mem |-> n, base |-> base, Size |-> expected, ok |-> TRUE]
  <2>1. 40 + 24 * array.count = expected
    BY <1>2, <1>3, SMTT(40)
  <2>2. /\ SizeOf("SCSD") = 40 /\ SizeOfSmiHandler = 24
        /\ Section(m, base).base = base /\ Section(m, base).mem = m
        /\ Section(m, base) = [mem |-> m, base |-> base, Size |-> 0, ok |-> TRUE]
    BY DEF SizeOf, SizeOfSmiHandler, Section
  <2>3. array.count = Len(L.roots) /\ array.count = N /\ LenOf(r) = expected
    BY <1>1, <1>3
  <2> HIDE DEF array, r
  <2>4. this = [Section(m, base) EXCEPT !.Size = expected, !.ok = TRUE, !.mem = n]
    BY <2>1, <2>2, <2>3, ZenonT(60) DEF GetSmmRootSmiDatabaseData, array
  <2> HIDE DEF n, this
  <2> QED
    BY <2>2, <2>4
<1>5. P \o <<r>> = Append(P, r)
  <2> HIDE DEF r
  <2> QED
    BY <1>1, AppendIsConcat
<1> HIDE DEF this, n, r
<1>6. Written(this, expected, P, <<r>>, base)
  BY <1>2, <1>3, <1>4, <1>5 DEF Written
<1> QED
  BY <1>6 DEF this, r

LEMMA ChildWritten ==
  ASSUME NEW L \in SmmLists, NEW m, NEW P \in Seq(Structures), NEW base \in Nat,
         Built(m, P, base), NEW expected, expected = SmmChildGetDataSize(L)
  PROVE  Written(IF expected = 0 THEN Section(m, base)
                 ELSE SmmChildGetData(L, Section(m, base), expected), expected, P,
                 ChildStructures(L), base)
<1> DEFINE r == ChildStructure(L)
           items == Functions(L, L.children, 32)
           N == Len(items)
           array == Array(base + 36, 32, items, expected - 36)
           cell == ChildCell(N, LenOf(r))
           n == Write(array.mem, WriteAt(base, cell, m))
           this == SmmChildGetData(L, Section(m, base), expected)
<1>1. /\ r \in Structures /\ N = Len(L.children)
      /\ expected = IF L.childLib = "Null" THEN 0 ELSE LenOf(r)
      /\ r.first = items /\ r.second = <<>> /\ r.width = 32 /\ r.Signature = "CDSD"
      /\ r.Id = "SwDispatch2" /\ LenOf(r) \in Nat \ {0}
  <2>1. /\ r.first = items /\ r.second = <<>> /\ r.width = 32 /\ r.Signature = "CDSD"
        /\ r.Id = "SwDispatch2"
    BY DEF ChildStructure
  <2> HIDE DEF r
  <2>2. r \in Structures
    BY SinglesPlanned DEF r
  <2>3. LenOf(r) \in Nat \ {0}
    BY <2>2, StructureFacts
  <2> QED
    BY <2>1, <2>2, <2>3, SinglesPlanned DEF r
<1>2. CASE L.childLib = "Null"
  <2>1. expected = 0 /\ ChildStructures(L) = <<>>
    BY <1>1, <1>2 DEF ChildStructures
  <2>2. P \o <<>> = P /\ base + 0 = base
    BY ConcatEmptySeq
  <2>3. Written(Section(m, base), 0, P, <<>>, base)
    BY <2>2 DEF Written, Section
  <2> QED
    BY <2>1, <2>3
<1>3. CASE L.childLib # "Null"
  <2>1. expected = LenOf(r) /\ expected # 0 /\ ChildStructures(L) = <<r>> /\ expected \in Nat
    BY <1>1, <1>3 DEF ChildStructures
  <2>2. N \in Nat /\ expected - 36 = 32 * N /\ expected >= 36
    <3>1. N \in Nat
      BY <1>1, ListsTyped
    <3>2. expected = 36 + 32 * N
      BY <1>1, <1>3 DEF SmmChildGetDataSize, SizeOf, SizeOfSwSmiHandler
    <3> HIDE DEF N
    <3> QED
      BY <2>1, <3>1, <3>2
  <2>3. array.count = N /\ Built(n, Append(P, r), base + expected)
    <3>1. SizeOf(r.Signature) = 36
      BY <1>1 DEF SizeOf
    <3>2. /\ "Signature" \in DOMAIN cell /\ cell.Signature = "CDSD" /\ cell.Length = LenOf(r)
          /\ cell.Id = "SwDispatch2" /\ cell.Counts = <<N, 0>> /\ cell.extent = 36
      BY DEF ChildCell, SizeOf
    <3> DEFINE max == expected - 36
               place == base + 36
    <3>3. max = r.width * Len(r.first) /\ place = base + SizeOf(r.Signature)
      BY <1>1, <2>2, <3>1
    <3>4. /\ "Signature" \in DOMAIN cell /\ cell.Signature = r.Signature
          /\ cell.Length = LenOf(r) /\ cell.Id = r.Id /\ cell.Counts = <<Len(r.first), 0>>
          /\ cell.extent = SizeOf(r.Signature)
      BY <1>1, <3>1, <3>2
    <3>5. r \in Structures /\ r.second = <<>> /\ Built(m, P, base)
      BY <1>1
    <3> HIDE DEF r, cell, max, place, items
    <3>6. HeadWritten(Array(place, r.width, r.first, max), cell, m, P, base, r)
      BY ONLY <3>3, <3>4, <3>5, HeadStep
    <3> QED
      BY <1>1, <2>1, <3>6 DEF place, max, HeadWritten
  <2>4. this = [mem |-> n, base |-> base, Size |-> expected, ok |-> TRUE]
    <3>1. 36 + 32 * array.count = expected
      BY <2>1, <2>2, <2>3, SMTT(40)
    <3>2. /\ SizeOf("CDSD") = 36 /\ SizeOfSwSmiHandler = 32
          /\ Section(m, base).base = base /\ Section(m, base).mem = m
          /\ Section(m, base) = [mem |-> m, base |-> base, Size |-> 0, ok |-> TRUE]
      BY DEF SizeOf, SizeOfSwSmiHandler, Section
    <3>3. array.count = Len(L.children) /\ array.count = N /\ LenOf(r) = expected
      BY <1>1, <2>1, <2>3
    <3>4. ~(expected < 36)
      BY <2>1, <2>2
    <3> HIDE DEF array, r
    <3>5. this = [Section(m, base) EXCEPT !.Size = expected, !.ok = TRUE, !.mem = n]
      BY <3>1, <3>2, <3>3, <3>4, ZenonT(60) DEF SmmChildGetData, array
    <3> HIDE DEF n, this
    <3> QED
      BY <3>2, <3>5
  <2>5. P \o <<r>> = Append(P, r)
    <3> HIDE DEF r
    <3> QED
      BY <1>1, AppendIsConcat
  <2> HIDE DEF this, n, r
  <2>6. Written(this, expected, P, <<r>>, base)
    BY <2>1, <2>3, <2>4, <2>5 DEF Written
  <2> QED
    BY <2>1, <2>6 DEF this, r
<1> QED
  BY <1>2, <1>3

(***************************************************************************)
(* The sections behind each other                                          *)
(***************************************************************************)

SectionNames == {"Image", "Handler", "Protocol", "Smi", "RootSmi", "Child"}

Part(L) ==
  [ Image    |-> ImageStructures(L),
    Handler  |-> HandleStructures(L),
    Protocol |-> ProtocolStructures(L),
    Smi      |-> SmiStructures(L),
    RootSmi  |-> <<RootStructure(L)>>,
    Child    |-> ChildStructures(L) ]

(* What stands in front of a section, and where the section begins.         *)
Ahead(L) ==
  LET two   == ImageStructures(L) \o HandleStructures(L)
      three == two \o ProtocolStructures(L)
      four  == three \o SmiStructures(L)
  IN  [ Image    |-> <<>>,
        Handler  |-> ImageStructures(L),
        Protocol |-> two,
        Smi      |-> three,
        RootSmi  |-> four,
        Child    |-> four \o <<RootStructure(L)>> ]
OffsetOf(s) ==
  [ Image    |-> 0,
    Handler  |-> s.Image,
    Protocol |-> s.Image + s.Handler,
    Smi      |-> s.Image + s.Handler + s.Protocol,
    RootSmi  |-> s.Image + s.Handler + s.Protocol + s.Smi,
    Child    |-> s.Image + s.Handler + s.Protocol + s.Smi + s.RootSmi ]

Everything(L) == Ahead(L).Child \o ChildStructures(L)

LEMMA PartsTyped ==
  ASSUME NEW L \in SmmLists
  PROVE  /\ \A name \in SectionNames : Part(L)[name] \in Seq(Structures)
         /\ \A name \in SectionNames : Ahead(L)[name] \in Seq(Structures)
         /\ Everything(L) \in Seq(Structures)
<1> DEFINE image == ImageStructures(L)
           handler == HandleStructures(L)
           protocol == ProtocolStructures(L)
           smi == SmiStructures(L)
           root == <<RootStructure(L)>>
           child == ChildStructures(L)
           S == Seq(Structures)
<1>1. image \in S /\ handler \in S /\ protocol \in S /\ smi \in S
  BY ImagesPlanned, HandlesPlanned, ProtocolsPlanned, SmisPlanned
<1>2. root \in S /\ child \in S
  BY SinglesPlanned DEF ChildStructures
<1>3. \A p, q \in S : p \o q \in S
  BY ConcatProperties
<1>4. /\ Part(L) = [Image |-> image, Handler |-> handler, Protocol |-> protocol, Smi |-> smi,
                    RootSmi |-> root, Child |-> child]
      /\ Ahead(L) = [Image |-> <<>>, Handler |-> image, Protocol |-> image \o handler,
                     Smi |-> (image \o handler) \o protocol,
                     RootSmi |-> ((image \o handler) \o protocol) \o smi,
                     Child |-> (((image \o handler) \o protocol) \o smi) \o root]
      /\ Everything(L) = Ahead(L).Child \o child
  BY DEF Part, Ahead, Everything
<1>5. <<>> \in S
  OBVIOUS
<1> HIDE DEF image, handler, protocol, smi, root, child, S
<1>6. /\ \A name \in SectionNames : Part(L)[name] \in S
      /\ \A name \in SectionNames : Ahead(L)[name] \in S
      /\ Everything(L) \in S
  BY <1>1, <1>2, <1>3, <1>4, <1>5 DEF SectionNames
<1> QED
  BY <1>6 DEF S

(* Every section comes out at the size that the size pass found for it.     *)
LEMMA SectionWritten ==
  ASSUME NEW L \in SmmLists, NEW name \in SectionNames, NEW m, NEW P \in Seq(Structures),
         NEW base \in Nat, Built(m, P, base),
         name = "Image" => m = <<>> /\ base = 0 /\ P = <<>>,
         NEW expected, expected = GetSmmCoreDatabaseSize(L)[name]
  PROVE  Written(SectionData(name, L, Section(m, base), expected), expected, P,
                 Part(L)[name], base)
<1> DEFINE this == SectionData(name, L, Section(m, base), expected)
<1>1. CASE name = "Image"
  <2>1. /\ expected = GetSmmImageDatabaseSize(L) /\ Part(L)[name] = ImageStructures(L)
        /\ this = GetSmmImageDatabaseData(L, Section(<<>>, 0), expected)
        /\ base = 0 /\ P = <<>>
    BY <1>1 DEF GetSmmCoreDatabaseSize, Part, SectionData
  <2> HIDE DEF this
  <2>2. /\ this.ok = TRUE /\ this.Size = expected /\ expected \in Nat
        /\ Built(this.mem, ImageStructures(L), expected)
    BY <2>1, ImagesWritten
  <2>3. <<>> \o ImageStructures(L) = ImageStructures(L)
    BY ImagesPlanned, ConcatEmptySeq
  <2>4. 0 + expected = expected
    BY <2>2
  <2>5. Written(this, expected, P, ImageStructures(L), base)
    BY <2>1, <2>2, <2>3, <2>4 DEF Written
  <2> QED
    BY <2>1, <2>5 DEF this
<1>2. CASE name = "Handler"
  <2>1. /\ expected = GetSmmHandlerDatabaseSize(L) /\ Part(L)[name] = HandleStructures(L)
        /\ this = Records(Section(m, base), expected, "SCHD", SizeOfHandleProtocol,
                          HandleRecords(L))
    BY <1>2 DEF GetSmmCoreDatabaseSize, Part, SectionData, GetSmmHandlerDatabaseData
  <2> DEFINE R == HandleStructures(L)
             list == HandleRecords(L)
  <2>2. /\ R \in Seq(Structures) /\ Len(list) = Len(R)
        /\ \A k \in 1 .. Len(R) :
             /\ R[k].Signature = "SCHD" /\ R[k].width = SizeOfHandleProtocol
             /\ list[k].Id = R[k].Id /\ list[k].first = R[k].first
             /\ list[k].second = R[k].second
        /\ expected = Total(SizesOf(R))
    BY <2>1, HandlesPlanned
  <2> HIDE DEF R, list, this
  <2>3. Written(Records(Section(m, base), expected, "SCHD", SizeOfHandleProtocol, list),
                expected, P, R, base)
    BY <2>2, RecordsStep
  <2> QED
    BY <2>1, <2>3 DEF R, list, this
<1>3. CASE name = "Protocol"
  <2>1. /\ expected = GetSmmProtocolDatabaseSize(L) /\ Part(L)[name] = ProtocolStructures(L)
        /\ this = Records(Section(m, base), expected, "SCPD", SizeOfInterface,
                          ProtocolRecords(L))
    BY <1>3 DEF GetSmmCoreDatabaseSize, Part, SectionData, GetSmmProtocolDatabaseData
  <2> DEFINE R == ProtocolStructures(L)
             list == ProtocolRecords(L)
  <2>2. /\ R \in Seq(Structures) /\ Len(list) = Len(R)
        /\ \A k \in 1 .. Len(R) :
             /\ R[k].Signature = "SCPD" /\ R[k].width = SizeOfInterface
             /\ list[k].Id = R[k].Id /\ list[k].first = R[k].first
             /\ list[k].second = R[k].second
        /\ expected = Total(SizesOf(R))
    BY <2>1, ProtocolsPlanned
  <2> HIDE DEF R, list, this
  <2>3. Written(Records(Section(m, base), expected, "SCPD", SizeOfInterface, list),
                expected, P, R, base)
    BY <2>2, RecordsStep
  <2> QED
    BY <2>1, <2>3 DEF R, list, this
<1>4. CASE name = "Smi"
  <2>1. /\ expected = GetSmmSmiDatabaseSize(L) /\ Part(L)[name] = SmiStructures(L)
        /\ this = Records(Section(m, base), expected, "SCSD", SizeOfSmiHandler, SmiRecords(L))
    BY <1>4 DEF GetSmmCoreDatabaseSize, Part, SectionData, GetSmmSmiDatabaseData
  <2> DEFINE R == SmiStructures(L)
             list == SmiRecords(L)
  <2>2. /\ R \in Seq(Structures) /\ Len(list) = Len(R)
        /\ \A k \in 1 .. Len(R) :
             /\ R[k].Signature = "SCSD" /\ R[k].width = SizeOfSmiHandler
             /\ list[k].Id = R[k].Id /\ list[k].first = R[k].first
             /\ list[k].second = R[k].second
        /\ expected = Total(SizesOf(R))
    BY <2>1, SmisPlanned
  <2> HIDE DEF R, list, this
  <2>3. Written(Records(Section(m, base), expected, "SCSD", SizeOfSmiHandler, list),
                expected, P, R, base)
    BY <2>2, RecordsStep
  <2> QED
    BY <2>1, <2>3 DEF R, list, this
<1>5. CASE name = "RootSmi"
  <2>1. /\ expected = GetSmmRootSmiDatabaseSize(L) /\ Part(L)[name] = <<RootStructure(L)>>
        /\ this = GetSmmRootSmiDatabaseData(L, Section(m, base), expected)
    BY <1>5 DEF GetSmmCoreDatabaseSize, Part, SectionData
  <2> HIDE DEF this
  <2> QED
    BY <2>1, RootWritten DEF this
<1>6. CASE name = "Child"
  <2>1. /\ expected = SmmChildGetDataSize(L) /\ Part(L)[name] = ChildStructures(L)
        /\ this = IF expected = 0 THEN Section(m, base)
                  ELSE SmmChildGetData(L, Section(m, base), expected)
    BY <1>6 DEF GetSmmCoreDatabaseSize, Part, SectionData
  <2> HIDE DEF this
  <2> QED
    BY <2>1, ChildWritten DEF this
<1> QED
  BY <1>1, <1>2, <1>3, <1>4, <1>5, <1>6 DEF SectionNames

LEMMA AfterThe ==
  ASSUME NEW names, NEW N \in Nat, Len(names) = N, NEW k \in 1 .. N, NEW name,
         \A i \in 1 .. N : names[i] = name <=> i = k
  PROVE  After(name, names) = names[k + 1]
<1> DEFINE T == {i \in 1 .. Len(names) : names[i] = name}
<1>1. T = {k}
  OBVIOUS
<1>2. Min({k}) = k
  <2> DEFINE U == {k}
  <2>1. U \in SUBSET Nat /\ U # {}
    OBVIOUS
  <2> HIDE DEF U
  <2>2. Min(U) \in U
    BY <2>1, MinOf
  <2> QED
    BY <2>2 DEF U
<1>3. SelectInSeq(names, LAMBDA n : n = name) = IF T # {} THEN Min(T) ELSE 0
  BY DEF SelectInSeq
<1> HIDE DEF T
<1> QED
  BY <1>1, <1>2, <1>3 DEF After

LEMMA Orders ==
  /\ After("Image", Sections) = "Handler" /\ After("Handler", Sections) = "Protocol"
  /\ After("Protocol", Sections) = "Smi" /\ After("Smi", Sections) = "RootSmi"
  /\ After("RootSmi", Sections) = "Child"
  /\ After("Image", Passes) = "Handle" /\ After("Handle", Passes) = "Protocol"
  /\ After("Protocol", Passes) = "Smi" /\ After("Smi", Passes) = "RootSmi"
  /\ After("RootSmi", Passes) = "Child"
  /\ Range(Passes) = {"Image", "Handle", "Protocol", "Smi", "RootSmi", "Child"}
<1> DEFINE names == Sections
<1>1. /\ Len(names) = 6 /\ names[1] = "Image" /\ names[2] = "Handler" /\ names[3] = "Protocol"
      /\ names[4] = "Smi" /\ names[5] = "RootSmi" /\ names[6] = "Child"
  BY DEF Sections
<1> DEFINE those == Passes
<1>2. /\ Len(those) = 6 /\ those[1] = "Image" /\ those[2] = "Handle" /\ those[3] = "Protocol"
      /\ those[4] = "Smi" /\ those[5] = "RootSmi" /\ those[6] = "Child"
      /\ DOMAIN those = 1 .. 6
  BY DEF Passes
<1> HIDE DEF names, those
<1>3. /\ After("Image", names) = "Handler" /\ After("Handler", names) = "Protocol"
      /\ After("Protocol", names) = "Smi" /\ After("Smi", names) = "RootSmi"
      /\ After("RootSmi", names) = "Child"
  <2>1. ASSUME NEW k \in 1 .. 5 PROVE After(names[k], names) = names[k + 1]
    <3> DEFINE N == 6
    <3>1. N \in Nat /\ k \in 1 .. N /\ Len(names) = N
      BY <1>1
    <3>2. \A i \in 1 .. N : names[i] = names[k] <=> i = k
      BY <1>1
    <3> HIDE DEF N
    <3> QED
      BY <3>1, <3>2, AfterThe
  <2> QED
    BY <1>1, <2>1
<1>4. /\ After("Image", those) = "Handle" /\ After("Handle", those) = "Protocol"
      /\ After("Protocol", those) = "Smi" /\ After("Smi", those) = "RootSmi"
      /\ After("RootSmi", those) = "Child"
  <2>1. ASSUME NEW k \in 1 .. 5 PROVE After(those[k], those) = those[k + 1]
    <3> DEFINE N == 6
    <3>1. N \in Nat /\ k \in 1 .. N /\ Len(those) = N
      BY <1>2
    <3>2. \A i \in 1 .. N : those[i] = those[k] <=> i = k
      BY <1>2
    <3> HIDE DEF N
    <3> QED
      BY <3>1, <3>2, AfterThe
  <2> QED
    BY <1>2, <2>1
<1>5. Range(those) = {"Image", "Handle", "Protocol", "Smi", "RootSmi", "Child"}
  <2>1. Range(those) = {those[i] : i \in 1 .. 6}
    BY <1>2 DEF Range
  <2> QED
    BY <2>1, <1>2
<1> QED
  BY <1>3, <1>4, <1>5 DEF names, those

LEMMA NothingBuilt == Built(<<>>, <<>>, 0)
<1> DEFINE at == [k \in 1 .. 1 |-> 0]
           P == <<>>
<1>1. Covers(<<>>, 0)
  BY DEF Covers
<1>2. Len(P) = 0 /\ at \in [1 .. Len(P) + 1 -> Nat] /\ at[1] = 0 /\ at[Len(P) + 1] = 0
  OBVIOUS
<1> HIDE DEF at, P
<1>3. Starts(at, <<>>, P, 0)
  BY <1>2 DEF Starts
<1> QED
  BY <1>1, <1>3 DEF Built, P

LEMMA SizesAreNumbers ==
  ASSUME NEW L \in SmmLists, NEW name \in SectionNames
  PROVE  GetSmmCoreDatabaseSize(L)[name] \in Nat
<1> DEFINE expected == GetSmmCoreDatabaseSize(L)[name]
           m == <<>>
           P == <<>>
           base == 0
<1>1. /\ P \in Seq(Structures) /\ base \in Nat /\ Built(m, P, base)
      /\ name = "Image" => m = <<>> /\ base = 0 /\ P = <<>>
  BY NothingBuilt
<1> HIDE DEF expected, m, P, base
<1>2. Written(SectionData(name, L, Section(m, base), expected), expected, P,
              Part(L)[name], base)
  BY <1>1, SectionWritten DEF expected
<1>3. expected \in Nat
  BY <1>2, SMTT(40) DEF Written
<1> QED
  BY <1>3 DEF expected

LEMMA OffsetsAdd ==
  ASSUME NEW L \in SmmLists
  PROVE  LET s == GetSmmCoreDatabaseSize(L)
         IN  /\ \A name \in SectionNames : OffsetOf(s)[name] \in Nat /\ s[name] \in Nat
             /\ \A name \in SectionNames : OffsetOf(s)[name] + s[name] <= DatabaseSize(s)
             /\ DatabaseSize(s) \in Nat
             /\ OffsetOf(s).Image = 0 /\ Ahead(L).Image = <<>>
             /\ \A name \in SectionNames \ {"Child"} :
                  LET next == After(name, Sections)
                  IN  /\ next \in SectionNames \ {"Image"}
                      /\ OffsetOf(s)[next] = OffsetOf(s)[name] + s[name]
                      /\ Ahead(L)[next] = Ahead(L)[name] \o Part(L)[name]
             /\ DatabaseSize(s) = OffsetOf(s).Child + s.Child
             /\ Everything(L) = Ahead(L).Child \o Part(L).Child
<1> DEFINE s == GetSmmCoreDatabaseSize(L)
           F == Ahead(L)
           O == OffsetOf(s)
           T == Part(L)
<1>1. /\ s.Image \in Nat /\ s.Handler \in Nat /\ s.Protocol \in Nat /\ s.Smi \in Nat
      /\ s.RootSmi \in Nat /\ s.Child \in Nat
  <2>1. \A name \in SectionNames : s[name] \in Nat
    BY SizesAreNumbers
  <2> HIDE DEF s
  <2> QED
    BY <2>1 DEF SectionNames
<1> HIDE DEF s
<1>2. /\ O.Image = 0 /\ O.Handler = O.Image + s.Image /\ O.Protocol = O.Handler + s.Handler
      /\ O.Smi = O.Protocol + s.Protocol /\ O.RootSmi = O.Smi + s.Smi
      /\ O.Child = O.RootSmi + s.RootSmi /\ DatabaseSize(s) = O.Child + s.Child
      /\ O.Image \in Nat /\ O.Handler \in Nat /\ O.Protocol \in Nat /\ O.Smi \in Nat
      /\ O.RootSmi \in Nat /\ O.Child \in Nat /\ DatabaseSize(s) \in Nat
  BY <1>1 DEF OffsetOf, DatabaseSize
<1>3. /\ F.Image = <<>> /\ F.Handler = F.Image \o T.Image /\ F.Protocol = F.Handler \o T.Handler
      /\ F.Smi = F.Protocol \o T.Protocol /\ F.RootSmi = F.Smi \o T.Smi
      /\ F.Child = F.RootSmi \o T.RootSmi
  <2>1. <<>> \o ImageStructures(L) = ImageStructures(L)
    BY ImagesPlanned, ConcatEmptySeq
  <2> QED
    BY <2>1 DEF Ahead, Part
<1>4. Everything(L) = F.Child \o T.Child
  BY DEF Everything, Part
<1> HIDE DEF O, F, T
<1>5. /\ \A name \in SectionNames : O[name] \in Nat /\ s[name] \in Nat
      /\ \A name \in SectionNames : O[name] + s[name] <= DatabaseSize(s)
  BY <1>1, <1>2 DEF SectionNames
<1>6. ASSUME NEW name \in SectionNames \ {"Child"}
      PROVE  LET next == After(name, Sections)
             IN  /\ next \in SectionNames \ {"Image"}
                 /\ O[next] = O[name] + s[name] /\ F[next] = F[name] \o T[name]
  BY <1>2, <1>3, Orders DEF SectionNames
<1> QED
  BY <1>2, <1>3, <1>4, <1>5, <1>6 DEF s, O, F, T

(***************************************************************************)
(* The inductive invariant                                                 *)
(***************************************************************************)

PassNames == {"Count", "Image", "Handle", "Protocol", "Smi", "RootSmi", "Child"}

(* Every walk stands on a structure, or at the end.                         *)
Stands(m, P, hi, p) ==
  \E at : Starts(at, m, P, hi) /\ \E k \in 1 .. Len(P) + 1 : p = at[k]

LayoutInv ==
  /\ lists \in SmmLists
  /\ stage \in {"Build", "OutOfResources", "Data", "Walk", "Done", "ASSERT"}
  /\ stage = "Build" => mem = <<>> /\ ptr = 0 /\ DatabaseSize(sizes) = 0
  /\ stage # "Build" => sizes = GetSmmCoreDatabaseSize(lists)
  /\ stage = "OutOfResources" => mem = <<>>
  /\ stage = "Data" =>
       /\ pass \in SectionNames /\ ptr = OffsetOf(sizes)[pass]
       /\ Built(mem, Ahead(lists)[pass], ptr) /\ (pass = "Image" => mem = <<>>)
  /\ stage \in {"Walk", "Done", "ASSERT"} =>
       /\ Built(mem, Everything(lists), DatabaseSize(sizes))
       /\ Stands(mem, Everything(lists), DatabaseSize(sizes), ptr)

(* Before the end a walk steps from a structure to the next.                *)
LEMMA WalkStep ==
  ASSUME NEW m, NEW P \in Seq(Structures), NEW hi \in Nat, Covers(m, hi),
         NEW at, Starts(at, m, P, hi), NEW k \in 1 .. Len(P) + 1
  PROVE  /\ at[k] \in Nat /\ at[k] <= hi
         /\ k # Len(P) + 1 <=> at[k] < hi
         /\ k = Len(P) + 1 <=> at[k] = hi
         /\ k # Len(P) + 1 =>
              /\ k \in 1 .. Len(P) /\ k + 1 \in 1 .. Len(P) + 1 /\ P[k] \in Structures
              /\ Holds(m, at[k], P[k]) /\ at[k + 1] = at[k] + m[at[k]].Length
<1>1. /\ Len(P) \in Nat /\ at[k] \in Nat
      /\ k # Len(P) + 1 => k \in 1 .. Len(P) /\ k + 1 \in 1 .. Len(P) + 1 /\ P[k] \in Structures
      /\ k = Len(P) + 1 => at[k] = hi
  BY DEF Starts
<1>2. CASE k # Len(P) + 1
  <2>1. Holds(m, at[k], P[k]) /\ at[k + 1] = at[k] + LenOf(P[k])
    BY <1>1, <1>2 DEF Starts
  <2>2. at[k] \in DOMAIN m /\ m[at[k]].Length = LenOf(P[k])
    BY <2>1 DEF Holds
  <2>3. at[k] < hi
    BY <1>1, <2>2 DEF Covers
  <2> QED
    BY <1>1, <1>2, <2>1, <2>2, <2>3
<1>3. CASE k = Len(P) + 1
  BY <1>1, <1>3
<1> QED
  BY <1>2, <1>3

LEMMA HeaderIsThere ==
  ASSUME NEW P, NEW k, NEW at, Holds(mem, at[k], P[k]), ptr = at[k]
  PROVE  /\ Header = mem[ptr] /\ ptr \in DOMAIN mem /\ "Signature" \in DOMAIN mem[ptr]
         /\ Header.Signature = P[k].Signature /\ Header.Length = LenOf(P[k])
         /\ Header.Id = P[k].Id
BY DEF Header, Memory, Holds

LEMMA StandsStep ==
  ASSUME NEW P \in Seq(Structures), NEW hi \in Nat, Covers(mem, hi),
         Stands(mem, P, hi, ptr), ptr < hi
  PROVE  Stands(mem, P, hi, ptr + Header.Length)
<1>1. PICK at : Starts(at, mem, P, hi) /\ \E k \in 1 .. Len(P) + 1 : ptr = at[k]
  BY DEF Stands
<1>2. PICK k \in 1 .. Len(P) + 1 : ptr = at[k]
  BY <1>1
<1>3. /\ k + 1 \in 1 .. Len(P) + 1 /\ Holds(mem, at[k], P[k])
      /\ at[k + 1] = at[k] + mem[at[k]].Length
  BY <1>1, <1>2, WalkStep
<1>4. Header = mem[ptr]
  BY <1>2, <1>3, HeaderIsThere
<1>5. ptr + Header.Length = at[k + 1]
  BY <1>2, <1>3, <1>4
<1> QED
  BY <1>1, <1>3, <1>5 DEF Stands

LEMMA StandsAtStart ==
  ASSUME NEW m, NEW P \in Seq(Structures), NEW hi, Built(m, P, hi)
  PROVE  Stands(m, P, hi, 0)
<1>1. PICK at : Starts(at, m, P, hi)
  BY DEF Built
<1>2. at[1] = 0 /\ 1 \in 1 .. Len(P) + 1
  BY <1>1 DEF Starts
<1> QED
  BY <1>1, <1>2 DEF Stands

LEMMA LayoutInitially == LayoutInit => LayoutInv
<1> SUFFICES ASSUME LayoutInit
             PROVE  LayoutInv
  OBVIOUS
<1>1. Range(Sections) = SectionNames
  <2> DEFINE names == Sections
  <2>1. /\ DOMAIN names = 1 .. 6 /\ names[1] = "Image" /\ names[2] = "Handler"
        /\ names[3] = "Protocol" /\ names[4] = "Smi" /\ names[5] = "RootSmi"
        /\ names[6] = "Child"
    BY DEF Sections
  <2> HIDE DEF names
  <2>2. Range(names) = {names[i] : i \in 1 .. 6}
    BY <2>1 DEF Range
  <2>3. Range(names) = SectionNames
    BY <2>1, <2>2 DEF SectionNames
  <2> QED
    BY <2>3 DEF names
<1>2. DatabaseSize(sizes) = 0
  <2>1. sizes = [name \in SectionNames |-> 0]
    BY <1>1 DEF LayoutInit
  <2> QED
    BY <2>1 DEF SectionNames, DatabaseSize
<1> QED
  BY <1>2 DEF LayoutInit, LayoutInv

LEMMA LayoutInductive == LayoutInv /\ [LayoutNext]_layoutVars => LayoutInv'
<1> SUFFICES ASSUME LayoutInv, [LayoutNext]_layoutVars
             PROVE  LayoutInv'
  OBVIOUS
<1> DEFINE P == Everything(lists)
           hi == DatabaseSize(sizes)
<1>1. CASE AllocateDatabase
  <2>1. /\ stage = "Build" /\ sizes' = GetSmmCoreDatabaseSize(lists) /\ lists' = lists
        /\ stage' \in {"Data", "OutOfResources"} /\ pass' = "Image" /\ mem' = mem
        /\ ptr' = ptr /\ lists \in SmmLists /\ mem = <<>> /\ ptr = 0
    BY <1>1 DEF AllocateDatabase, LayoutInv, Sections
  <2>2. /\ OffsetOf(sizes')["Image"] = 0 /\ Ahead(lists)["Image"] = <<>>
        /\ "Image" \in SectionNames
    BY <2>1, OffsetsAdd DEF SectionNames
  <2>3. stage' = "Data" =>
          /\ pass' \in SectionNames /\ ptr' = OffsetOf(sizes')[pass']
          /\ Built(mem', Ahead(lists')[pass'], ptr') /\ (pass' = "Image" => mem' = <<>>)
    BY <2>1, <2>2, NothingBuilt
  <2> QED
    BY <2>1, <2>3 DEF LayoutInv
<1>2. CASE GetSmmCoreDatabaseData
  <2> DEFINE this == SectionData(pass, lists, Section(mem, ptr), sizes[pass])
             F == Ahead(lists)
             O == OffsetOf(sizes)
  <2>1. /\ stage = "Data" /\ lists \in SmmLists /\ sizes = GetSmmCoreDatabaseSize(lists)
        /\ pass \in SectionNames /\ ptr = O[pass] /\ Built(mem, F[pass], ptr)
        /\ (pass = "Image" => mem = <<>>)
    BY <1>2 DEF GetSmmCoreDatabaseData, LayoutInv
  <2>2. /\ mem' = this.mem
        /\ IF pass = "Child"
           THEN stage' = "Walk" /\ pass' = "Count" /\ ptr' = 0
           ELSE IF this.ok /\ this.Size = sizes[pass]
           THEN pass' = After(pass, Sections) /\ ptr' = ptr + sizes[pass] /\ UNCHANGED stage
           ELSE stage' = "Mismatch" /\ UNCHANGED <<pass, ptr>>
        /\ lists' = lists /\ sizes' = sizes
    BY <1>2 DEF GetSmmCoreDatabaseData
  <2>3. /\ O[pass] \in Nat /\ F[pass] \in Seq(Structures)
        /\ (pass = "Image" => mem = <<>> /\ ptr = 0 /\ F[pass] = <<>>)
    BY <2>1, OffsetsAdd, PartsTyped
  <2> HIDE DEF this, F, O
  <2>4. Written(this, sizes[pass], F[pass], Part(lists)[pass], ptr)
    BY <2>1, <2>3, SectionWritten DEF this
  <2>5. this.ok = TRUE /\ this.Size = sizes[pass] /\ sizes[pass] \in Nat
        /\ Built(mem', F[pass] \o Part(lists)[pass], ptr + sizes[pass])
    BY <2>2, <2>4 DEF Written
  <2>6. CASE pass = "Child"
    <3>1. Built(mem', P, hi) /\ hi = ptr + sizes[pass] /\ P = F[pass] \o Part(lists)[pass]
      BY <2>1, <2>5, <2>6, OffsetsAdd DEF F, O
    <3>2. P \in Seq(Structures)
      BY <2>1, PartsTyped
    <3> HIDE DEF P, hi
    <3>3. Stands(mem', P, hi, 0)
      BY <3>1, <3>2, StandsAtStart
    <3> QED
      BY <2>1, <2>2, <2>6, <3>1, <3>3 DEF LayoutInv, P, hi
  <2>7. CASE pass # "Child"
    <3>1. pass' = After(pass, Sections) /\ ptr' = ptr + sizes[pass] /\ stage' = stage
      BY <2>2, <2>5, <2>7
    <3>2. /\ pass' \in SectionNames /\ pass' # "Image" /\ ptr' = O[pass']
          /\ F[pass'] = F[pass] \o Part(lists)[pass]
      BY <2>1, <2>7, <3>1, OffsetsAdd DEF F, O
    <3>3. Built(mem', F[pass'], ptr')
      BY <2>5, <3>1, <3>2
    <3> QED
      BY <2>1, <2>2, <3>1, <3>2, <3>3 DEF LayoutInv, F, O
  <2> QED
    BY <2>6, <2>7
<1>3. ASSUME stage = "Walk", ptr < hi, ptr' = ptr + Header.Length, stage' \in {"Walk", "ASSERT"},
             UNCHANGED <<lists, sizes, mem>>
      PROVE  LayoutInv'
  <2>1. /\ lists \in SmmLists /\ sizes = GetSmmCoreDatabaseSize(lists)
        /\ Built(mem, P, hi) /\ Stands(mem, P, hi, ptr)
    BY <1>3 DEF LayoutInv
  <2>2. P \in Seq(Structures) /\ hi \in Nat
    BY <2>1, PartsTyped, OffsetsAdd
  <2> HIDE DEF P, hi
  <2>3. Stands(mem, P, hi, ptr')
    BY <2>1, <2>2, <1>3, StandsStep DEF Built
  <2> QED
    BY <2>1, <2>3, <1>3 DEF LayoutInv, P, hi
<1>4. ASSUME stage = "Walk", ptr' = 0 \/ ptr' = ptr, stage' \in {"Walk", "Done"},
             UNCHANGED <<lists, sizes, mem>>
      PROVE  LayoutInv'
  <2>1. /\ lists \in SmmLists /\ sizes = GetSmmCoreDatabaseSize(lists)
        /\ Built(mem, P, hi) /\ Stands(mem, P, hi, ptr)
    BY <1>4 DEF LayoutInv
  <2>2. P \in Seq(Structures)
    BY <2>1, PartsTyped
  <2> HIDE DEF P, hi
  <2>3. Stands(mem, P, hi, ptr')
    BY <2>1, <2>2, <1>4, StandsAtStart
  <2> QED
    BY <2>1, <2>3, <1>4 DEF LayoutInv, P, hi
<1>5. CASE CountImages
  BY <1>3, <1>5 DEF CountImages, Walking
<1>6. CASE AllocateImageStruct
  BY <1>4, <1>6 DEF AllocateImageStruct
<1>7. CASE DumpSmmLoadedImage
  BY <1>3, <1>7 DEF DumpSmmLoadedImage, Walking
<1>8. ASSUME NEW p, NEW mine, NEW line, Walk(p, mine, line)
      PROVE  LayoutInv'
  BY <1>3, <1>8 DEF Walk, Walking
<1>9. CASE DumpHandleDatabase
  BY <1>8, <1>9 DEF DumpHandleDatabase
<1>10. CASE DumpProtocolDatabase
  BY <1>8, <1>10 DEF DumpProtocolDatabase
<1>11. CASE DumpSmiHandler
  BY <1>8, <1>11 DEF DumpSmiHandler
<1>12. CASE DumpRootSmiHandler
  BY <1>8, <1>12 DEF DumpRootSmiHandler
<1>13. CASE DumpSmmChildHandler
  BY <1>8, <1>13 DEF DumpSmmChildHandler
<1>14. CASE NextPass
  BY <1>4, <1>14 DEF NextPass
<1>15. CASE UNCHANGED layoutVars
  BY <1>15 DEF layoutVars, LayoutInv
<1> QED
  BY <1>1, <1>2, <1>5, <1>6, <1>7, <1>9, <1>10, <1>11, <1>12, <1>13, <1>14, <1>15
     DEF LayoutNext, App

LEMMA LayoutInvariant == LayoutSpec => []LayoutInv
<1> QED
  BY LayoutInitially, LayoutInductive, PTL DEF LayoutSpec

(* The data pass comes out at the sizes of the size pass, whatever the      *)
(* lists hold: GetSmmCoreDatabaseData never returns EFI_BAD_BUFFER_SIZE,    *)
(* the structures lie inside the allocation and not on each other, and when *)
(* they are all written they leave no byte of it out.                       *)
THEOREM DatabaseIsTiled == LayoutSpec => []Tiled
<1>1. LayoutInv => Tiled
  <2> SUFFICES ASSUME LayoutInv
               PROVE  Tiled
    OBVIOUS
  <2> DEFINE total == DatabaseSize(sizes)
  <2>1. CASE stage \in {"Build", "OutOfResources"}
    BY <2>1 DEF LayoutInv, Tiled
  <2>2. CASE stage = "Data"
    <3>1. Covers(mem, ptr) /\ ptr \in Nat /\ ptr <= total /\ total \in Nat
      <4>1. /\ lists \in SmmLists /\ sizes = GetSmmCoreDatabaseSize(lists)
            /\ pass \in SectionNames /\ ptr = OffsetOf(sizes)[pass] /\ Covers(mem, ptr)
        BY <2>2 DEF LayoutInv, Built
      <4>2. /\ OffsetOf(sizes)[pass] \in Nat /\ sizes[pass] \in Nat /\ total \in Nat
            /\ OffsetOf(sizes)[pass] + sizes[pass] <= total
        BY <4>1, OffsetsAdd
      <4> HIDE DEF total
      <4> QED
        BY <4>1, <4>2
    <3> HIDE DEF total
    <3>2. /\ \A a \in DOMAIN mem : a + mem[a].extent <= total
          /\ \A a, b \in DOMAIN mem : a < b => a + mem[a].extent <= b
      BY <3>1 DEF Covers
    <3> QED
      BY <2>2, <3>2 DEF Tiled, total
  <2>3. CASE stage \in {"Walk", "Done", "ASSERT"}
    <3>1. Covers(mem, total)
      BY <2>3 DEF LayoutInv, Built
    <3> HIDE DEF total
    <3> QED
      BY <2>3, <3>1 DEF Covers, Tiled, total
  <2> QED
    BY <2>1, <2>2, <2>3 DEF LayoutInv
<1> QED
  BY <1>1, LayoutInvariant, PTL

(* A walk by Header.Length, which knows no number of records, stands on a   *)
(* header that the driver wrote until it stands at the end of the database: *)
(* it never takes an item for a header and never reads behind.              *)
THEOREM WalksAreAligned == LayoutSpec => []WalkAligned
<1>1. LayoutInv => WalkAligned
  <2> SUFFICES ASSUME LayoutInv, stage \in {"Walk", "Done"}, ptr # DatabaseSize(sizes)
               PROVE  ptr \in DOMAIN mem /\ "Signature" \in DOMAIN mem[ptr]
    BY DEF WalkAligned
  <2> DEFINE P == Everything(lists)
             hi == DatabaseSize(sizes)
  <2>1. /\ lists \in SmmLists /\ sizes = GetSmmCoreDatabaseSize(lists)
        /\ Covers(mem, hi) /\ Stands(mem, P, hi, ptr)
    BY DEF LayoutInv, Built
  <2>2. P \in Seq(Structures) /\ hi \in Nat
    BY <2>1, PartsTyped, OffsetsAdd
  <2> HIDE DEF P, hi
  <2>3. PICK at : Starts(at, mem, P, hi) /\ \E k \in 1 .. Len(P) + 1 : ptr = at[k]
    BY <2>1 DEF Stands
  <2>4. PICK k \in 1 .. Len(P) + 1 : ptr = at[k]
    BY <2>3
  <2>5. Holds(mem, at[k], P[k])
    <3>1. k # Len(P) + 1
      <4>1. ptr # hi
        BY DEF hi
      <4> QED
        BY <2>3, <2>4, <4>1 DEF Starts
    <3> QED
      BY <2>1, <2>2, <2>3, <3>1, WalkStep
  <2> QED
    BY <2>4, <2>5, HeaderIsThere
<1> QED
  BY <1>1, LayoutInvariant, PTL

(***************************************************************************)
(* What the walks print                                                    *)
(***************************************************************************)

ImageNames(L) == [i \in 1 .. Len(L.images) |-> L.images[i].Name]

AllNamed(L) == structCountMax = Len(L.images)

(* The application knows the names of all images, or of none.               *)
ImagesKnown(L) ==
  \/ structCountMax = Len(L.images) /\ images = ImageNames(L)
  \/ structCountMax = 0

LEMMA ImagesTyped ==
  ASSUME NEW L \in SmmLists
  PROVE  /\ Len(L.images) \in Nat /\ DOMAIN L.images = 1 .. Len(L.images)
         /\ \A i \in 1 .. Len(L.images) :
              /\ L.images[i] \in SmmImage /\ L.images[i].Name \in STRING
              /\ L.images[i].ImageBase \in Nat /\ L.images[i].ImageSize \in Nat
         /\ ToSet(L.images) = {L.images[i] : i \in 1 .. Len(L.images)}
<1> DEFINE s == L.images
           N == Len(s)
<1>1. s \in Seq(SmmImage)
  BY ListsTyped, Zenon
<1> HIDE DEF s
<1>2. N \in Nat /\ DOMAIN s = 1 .. N /\ \A k \in 1 .. N : s[k] \in SmmImage
  BY <1>1
<1>3. \A i \in SmmImage : i.Name \in STRING /\ i.ImageBase \in Nat /\ i.ImageSize \in Nat
  BY DEF SmmImage
<1>4. ToSet(s) = {s[i] : i \in 1 .. N}
  BY <1>2 DEF ToSet
<1> QED
  BY <1>2, <1>3, <1>4 DEF s

(* An address lies in one image at most.                                    *)
LEMMA ContainingOne ==
  ASSUME NEW L \in SmmLists, NEW address \in Nat
  PROVE  LET ref == AddressToImageRef(L, address)
         IN  /\ ref = -1 => Containing(L, address) = {}
             /\ ref # -1 => /\ ref + 1 \in 1 .. Len(L.images)
                            /\ Containing(L, address) = {L.images[ref + 1]}
<1> DEFINE s == L.images
           N == Len(s)
           ref == AddressToImageRef(L, address)
           C == Containing(L, address)
<1>1. /\ N \in Nat
      /\ \A i \in 1 .. N : s[i].ImageBase \in Nat /\ s[i].ImageSize \in Nat
      /\ ToSet(s) = {s[i] : i \in 1 .. N}
  BY ImagesTyped
<1>2. /\ ref \in -1 .. N - 1
      /\ ref # -1 => Within(s[ref + 1], address)
      /\ ref = -1 => \A i \in 1 .. N : ~ Within(s[i], address)
  BY ImageRefOf
<1>3. \A i, j \in 1 .. N :
        i < j => \/ s[i].ImageBase + s[i].ImageSize <= s[j].ImageBase
                 \/ s[j].ImageBase + s[j].ImageSize <= s[i].ImageBase
  BY SmmListsAssumption
<1>4. C = {i \in ToSet(s) : address \in i.ImageBase .. i.ImageBase + i.ImageSize - 1}
  BY DEF Containing
<1> HIDE DEF s, ref, C
<1>5. \A i \in 1 .. N : s[i] \in C <=> Within(s[i], address)
  BY <1>1, <1>4, SMTT(40) DEF Within
<1>6. \A x \in C : \E i \in 1 .. N : x = s[i]
  BY <1>1, <1>4
<1>7. ref = -1 => C = {}
  BY <1>2, <1>5, <1>6
<1>8. ASSUME ref # -1 PROVE ref + 1 \in 1 .. N /\ C = {s[ref + 1]}
  <2>1. ref + 1 \in 1 .. N /\ Within(s[ref + 1], address)
    BY <1>1, <1>2, <1>8
  <2> DEFINE k == ref + 1
  <2> HIDE DEF k
  <2>2. \A i \in 1 .. N : Within(s[i], address) => i = k
    BY <2>1, <1>1, <1>3, SMTT(40) DEF Within, k
  <2> QED
    BY <2>1, <2>2, <1>5, <1>6 DEF k
<1> QED
  BY <1>7, <1>8 DEF s, ref, C

LEMMA RefNamed ==
  ASSUME NEW L \in SmmLists, NEW address \in Nat, ImagesKnown(L)
  PROVE  GetImageRefName(AddressToImageRef(L, address))
           = IF structCountMax = Len(L.images) /\ Containing(L, address) # {}
             THEN (CHOOSE i \in Containing(L, address) : TRUE).Name ELSE Unknown
<1> DEFINE ref == AddressToImageRef(L, address)
           C == Containing(L, address)
           N == Len(L.images)
           x == L.images[ref + 1]
           named == structCountMax = N
<1>1. /\ ref \in -1 .. N - 1 /\ N \in Nat
      /\ ref = -1 => C = {}
      /\ ref # -1 => ref + 1 \in 1 .. N /\ C = {x}
  BY ImageRefOf, ContainingOne, ImagesTyped
<1>2. ref # -1 => ImageNames(L)[ref + 1] = x.Name
  BY <1>1 DEF ImageNames
<1>3. C = {x} => (CHOOSE i \in C : TRUE) = x
  <2> HIDE DEF C, x
  <2> QED
    OBVIOUS
<1>4. \/ structCountMax = N /\ images = ImageNames(L)
      \/ structCountMax = 0
  BY DEF ImagesKnown
<1> HIDE DEF ref, C, N, x
<1>5. CASE ref = -1
  BY <1>1, <1>5 DEF GetImageRefName, ref, C, N
<1>6. CASE ref # -1
  <2>1. ref >= 0 /\ ref < N /\ C # {} /\ ref \in Int
    BY <1>1, <1>6
  <2>2. CASE structCountMax = N /\ images = ImageNames(L)
    <3>1. GetImageRefName(ref) = x.Name
      BY <1>1, <1>2, <1>6, <2>1, <2>2 DEF GetImageRefName
    <3> QED
      BY <1>1, <1>3, <1>6, <2>1, <2>2, <3>1 DEF ref, C, N
  <2>3. CASE structCountMax = 0
    <3>1. GetImageRefName(ref) = Unknown
      BY <2>1, <2>3 DEF GetImageRefName
    <3>2. structCountMax # N
      BY <2>1, <2>3
    <3> QED
      BY <3>1, <3>2 DEF ref, C, N
  <2> QED
    BY <1>4, <2>2, <2>3
<1> QED
  BY <1>5, <1>6

(* The name printed with an address is the one of the image it lies in.     *)
LEMMA ItemsNamed ==
  ASSUME NEW L \in SmmLists, ImagesKnown(L)
  PROVE  LET named == AllNamed(L)
         IN  /\ \A address \in Nat : \A w :
                  Name([ Value |-> address, ImageRef |-> AddressToImageRef(L, address),
                         extent |-> w ]) = NameOf(L, named, address)
             /\ \A item : \A p \in SmmInterface :
                  item.Value = p.Interface /\ item.ImageRef = AddressToImageRefEx(L, p)
                  => Name(item) = InterfaceName(L, named, p)
<1> DEFINE named == AllNamed(L)
<1>1. \A address \in Nat : GetImageRefName(AddressToImageRef(L, address))
           = IF named /\ Containing(L, address) # {}
             THEN (CHOOSE i \in Containing(L, address) : TRUE).Name ELSE Unknown
  BY RefNamed DEF AllNamed
<1>2. \A address \in Nat : (AddressToImageRef(L, address) = -1 <=> Containing(L, address) = {})
  BY ContainingOne
<1> HIDE DEF named
<1>3. \A address \in Nat :
        NameOf(L, named, address)
          = IF address = 0 THEN Unknown ELSE GetImageRefName(AddressToImageRef(L, address))
  BY <1>1 DEF NameOf
<1>4. \A address \in Nat : \A w :
        Name([ Value |-> address, ImageRef |-> AddressToImageRef(L, address),
               extent |-> w ]) = NameOf(L, named, address)
  BY <1>3 DEF Name
<1>5. ASSUME NEW item, NEW p \in SmmInterface,
             item.Value = p.Interface, item.ImageRef = AddressToImageRefEx(L, p)
      PROVE  Name(item) = InterfaceName(L, named, p)
  <2>1. p.Interface \in Nat /\ p.via \in Nat
    BY DEF SmmInterface
  <2>2. CASE p.Interface = 0
    BY <2>1, <2>2, <1>3, <1>5 DEF Name, InterfaceName
  <2>3. CASE p.Interface # 0 /\ Containing(L, p.Interface) # {}
    <3>1. item.ImageRef = AddressToImageRef(L, p.Interface)
      BY <2>1, <2>3, <1>2, <1>5 DEF AddressToImageRefEx
    <3> QED
      BY <2>1, <2>3, <3>1, <1>3, <1>5 DEF Name, InterfaceName
  <2>4. CASE p.Interface # 0 /\ Containing(L, p.Interface) = {}
    <3>1. InterfaceName(L, named, p) = NameOf(L, named, p.via)
      BY <2>4 DEF InterfaceName
    <3>2. CASE p.via = 0
      <4>1. item.ImageRef = -1
        BY <2>1, <2>4, <3>2, <1>2, <1>5 DEF AddressToImageRefEx
      <4> QED
        BY <2>1, <2>4, <3>1, <3>2, <4>1, <1>3, <1>5 DEF Name, GetImageRefName
    <3>3. CASE p.via # 0
      <4>1. item.ImageRef = AddressToImageRef(L, p.via)
        BY <2>1, <2>4, <3>3, <1>2, <1>5 DEF AddressToImageRefEx
      <4> QED
        BY <2>1, <2>4, <3>1, <3>3, <4>1, <1>3, <1>5, Zenon DEF Name
    <3> QED
      BY <3>2, <3>3
  <2> QED
    BY <2>2, <2>3, <2>4
<1> QED
  BY <1>4, <1>5 DEF named
Handlers(L, named, seq) == [i \in DOMAIN seq |-> <<seq[i], NameOf(L, named, seq[i])>>]

(* The lines that each walk is to print.                                    *)
HandleLine(L, named, h) ==
  [ line |-> "Handle", Id |-> h.Handle,
    Items |-> [i \in DOMAIN h.Protocols |->
                 <<h.Protocols[i].ProtocolID, h.Protocols[i].Interface,
                   InterfaceName(L, named, h.Protocols[i])>>] ]
InterfaceItems(L, named, e) ==
  [i \in DOMAIN e.Protocols |->
     <<e.Protocols[i].Interface, InterfaceName(L, named, e.Protocols[i])>>]
ProtocolLine(L, named, e) ==
  [ line |-> "Protocol", Id |-> e.ProtocolID,
    Items |-> InterfaceItems(L, named, e),
    Notify |-> Handlers(L, named, e.Notify) ]
SmiLine(L, named, s) ==
  [line |-> "Smi", Id |-> s.HandlerType, Items |-> Handlers(L, named, s.SmiHandlers)]
RootLine(L, named) ==
  [line |-> "RootSmi", Id |-> Root, Items |-> Handlers(L, named, L.roots)]
ChildLine(L, named) ==
  [line |-> "Child", Id |-> "SwDispatch2", Items |-> Handlers(L, named, L.children)]

Lines(L, named) ==
  [ Image    |-> [i \in DOMAIN L.images |-> [line |-> "Image", Id |-> L.images[i].Name]],
    Handle   |-> [i \in DOMAIN L.handles |-> HandleLine(L, named, L.handles[i])],
    Protocol |-> [i \in DOMAIN EntriesDumped(L) |->
                    ProtocolLine(L, named, EntriesDumped(L)[i])],
    Smi      |-> [i \in DOMAIN L.smis |-> SmiLine(L, named, L.smis[i])],
    RootSmi  |-> <<RootLine(L, named)>>,
    Child    |-> IF L.childLib = "Null" THEN <<>> ELSE <<ChildLine(L, named)>> ]

LEMMA ExpectedIs ==
  ASSUME NEW L \in SmmLists, NEW named \in BOOLEAN
  PROVE  LET E == Lines(L, named)
         IN  Expected(L, named)
               = (IF named THEN E.Image ELSE <<>>)
                   \o E.Handle \o E.Protocol \o E.Smi \o E.RootSmi \o E.Child
BY EntriesDumpedAre, ZenonT(60)
   DEF Expected, Lines, HandleLine, InterfaceItems, ProtocolLine, SmiLine, RootLine,
       ChildLine, Handlers

(* What stands in an array is what the walk reads from it.                  *)
Placed(at, w, seq) ==
  \A i \in 1 .. Len(seq) : at + w * (i - 1) \in DOMAIN mem /\ mem[at + w * (i - 1)] = seq[i]

LEMMA FunctionsRead ==
  ASSUME NEW L \in SmmLists, ImagesKnown(L), NEW addresses \in Seq(Nat), NEW w, NEW at,
         Placed(at, w, Functions(L, addresses, w)),
         NEW n, n = Len(addresses)
  PROVE  Items(at, w, n)
           = Handlers(L, AllNamed(L), addresses)
<1> DEFINE named == AllNamed(L)
           cell(i) == [ Value |-> addresses[i], ImageRef |-> AddressToImageRef(L, addresses[i]),
                        extent |-> w ]
<1>1. n \in Nat /\ DOMAIN addresses = 1 .. n /\ \A i \in 1 .. n : addresses[i] \in Nat
  OBVIOUS
<1>2. Functions(L, addresses, w) = [i \in 1 .. n |-> cell(i)]
  BY <1>1 DEF Functions
<1>3. \A i \in 1 .. n : Name(cell(i)) = NameOf(L, named, addresses[i])
  BY <1>1, ItemsNamed
<1>4. \A i \in 1 .. n : "Value" \in DOMAIN cell(i) /\ cell(i).Value = addresses[i]
  OBVIOUS
<1> HIDE DEF cell, named
<1>5. \A i \in 1 .. n :
        at + w * (i - 1) \in DOMAIN mem /\ mem[at + w * (i - 1)] = cell(i)
  BY <1>1, <1>2 DEF Placed
<1>6. \A i \in 1 .. n : Memory(at + w * (i - 1), "Value") = cell(i)
  BY <1>4, <1>5 DEF Memory
<1>7. Items(at, w, n)
        = [i \in 1 .. n |-> <<addresses[i], NameOf(L, named, addresses[i])>>]
  BY <1>3, <1>4, <1>6 DEF Items
<1> QED
  BY <1>1, <1>7 DEF Handlers, named

LEMMA InterfacesRead ==
  ASSUME NEW L \in SmmLists, ImagesKnown(L), NEW e, e.Protocols \in Seq(SmmInterface),
         NEW at, Placed(at, SizeOfInterface, Interfaces(L, e)),
         NEW n, n = Len(e.Protocols)
  PROVE  Items(at, SizeOfInterface, n) = InterfaceItems(L, AllNamed(L), e)
<1> DEFINE named == AllNamed(L)
           s == e.Protocols
           w == SizeOfInterface
           cell(i) == [ Value |-> s[i].Interface, ImageRef |-> AddressToImageRefEx(L, s[i]),
                        extent |-> w ]
<1>1. n \in Nat /\ DOMAIN s = 1 .. n /\ \A i \in 1 .. n : s[i] \in SmmInterface
  OBVIOUS
<1>2. Interfaces(L, e) = [i \in 1 .. n |-> cell(i)]
  BY <1>1 DEF Interfaces
<1>3. \A i \in 1 .. n : Name(cell(i)) = InterfaceName(L, named, s[i])
  BY <1>1, ItemsNamed
<1>4. \A i \in 1 .. n : "Value" \in DOMAIN cell(i) /\ cell(i).Value = s[i].Interface
  OBVIOUS
<1> HIDE DEF cell, named, w, s
<1>5. \A i \in 1 .. n :
        at + w * (i - 1) \in DOMAIN mem /\ mem[at + w * (i - 1)] = cell(i)
  <2> DEFINE cells == Interfaces(L, e)
  <2>1. Placed(at, w, cells) /\ cells = [i \in 1 .. n |-> cell(i)]
    BY <1>2 DEF w
  <2> HIDE DEF cells
  <2>2. Len(cells) = n /\ \A i \in 1 .. n : cells[i] = cell(i)
    BY <1>1, <2>1
  <2> QED
    BY <2>1, <2>2 DEF Placed
<1>6. \A i \in 1 .. n : Memory(at + w * (i - 1), "Value") = cell(i)
  BY <1>4, <1>5 DEF Memory
<1>7. Items(at, w, n)
        = [i \in 1 .. n |-> <<s[i].Interface, InterfaceName(L, named, s[i])>>]
  BY <1>3, <1>4, <1>6 DEF Items
<1> QED
  BY <1>1, <1>7 DEF named, s, w, InterfaceItems

LEMMA HandleProtocolsRead ==
  ASSUME NEW L \in SmmLists, ImagesKnown(L), NEW h, h.Protocols \in Seq(SmmInterface),
         NEW at, Placed(at, SizeOfHandleProtocol, HandleProtocols(L, h)),
         NEW n, n = Len(h.Protocols)
  PROVE  ProtocolItems(at, n)
           = [i \in DOMAIN h.Protocols |->
                <<h.Protocols[i].ProtocolID, h.Protocols[i].Interface,
                  InterfaceName(L, AllNamed(L), h.Protocols[i])>>]
<1> DEFINE named == AllNamed(L)
           s == h.Protocols
           w == SizeOfHandleProtocol
           cell(i) == [ Guid |-> s[i].ProtocolID, Value |-> s[i].Interface,
                        ImageRef |-> AddressToImageRefEx(L, s[i]), extent |-> w ]
<1>1. n \in Nat /\ DOMAIN s = 1 .. n /\ \A i \in 1 .. n : s[i] \in SmmInterface
  OBVIOUS
<1>2. HandleProtocols(L, h) = [i \in 1 .. n |-> cell(i)]
  BY <1>1 DEF HandleProtocols
<1>3. \A i \in 1 .. n : Name(cell(i)) = InterfaceName(L, named, s[i])
  BY <1>1, ItemsNamed
<1>4. \A i \in 1 .. n : /\ "Guid" \in DOMAIN cell(i) /\ cell(i).Value = s[i].Interface
                            /\ cell(i).Guid = s[i].ProtocolID
  OBVIOUS
<1> HIDE DEF cell, named, w, s
<1>5. \A i \in 1 .. n :
        at + w * (i - 1) \in DOMAIN mem /\ mem[at + w * (i - 1)] = cell(i)
  <2> DEFINE cells == HandleProtocols(L, h)
  <2>1. Placed(at, w, cells) /\ cells = [i \in 1 .. n |-> cell(i)]
    BY <1>2 DEF w
  <2> HIDE DEF cells
  <2>2. Len(cells) = n /\ \A i \in 1 .. n : cells[i] = cell(i)
    BY <1>1, <2>1
  <2> QED
    BY <2>1, <2>2 DEF Placed
<1>6. \A i \in 1 .. n : Memory(at + w * (i - 1), "Guid") = cell(i)
  BY <1>4, <1>5 DEF Memory
<1>7. ProtocolItems(at, n)
        = [i \in 1 .. n |->
             <<s[i].ProtocolID, s[i].Interface, InterfaceName(L, named, s[i])>>]
  BY <1>3, <1>4, <1>6 DEF ProtocolItems, w
<1> QED
  BY <1>1, <1>7 DEF named, s

LEMMA ArraysRead ==
  ASSUME NEW r \in Structures, r.Signature # "SCID", Holds(mem, ptr, r)
  PROVE  /\ Header.Id = r.Id
         /\ Header.Counts[1] = Len(r.first) /\ Header.Counts[2] = Len(r.second)
         /\ Placed(ptr + SizeOf(r.Signature), r.width, r.first)
         /\ Placed(ptr + SizeOf(r.Signature) + r.width * Len(r.first), r.width, r.second)
<1>1. /\ Header = mem[ptr] /\ mem[ptr].Id = r.Id
      /\ mem[ptr].Counts = <<Len(r.first), Len(r.second)>>
  BY DEF Header, Memory, Holds
<1> QED
  BY <1>1 DEF Holds, Placed

LEMMA HandleRead ==
  ASSUME NEW L \in SmmLists, ImagesKnown(L), NEW k \in 1 .. Len(L.handles),
         Holds(mem, ptr, HandleStructures(L)[k])
  PROVE  [ line |-> "Handle", Id |-> Header.Id,
           Items |-> ProtocolItems(ptr + SizeOf("SCHD"), Header.Counts[1]) ]
           = Lines(L, AllNamed(L)).Handle[k]
<1> DEFINE named == AllNamed(L)
           r == HandleStructures(L)[k]
           h == L.handles[k]
<1>1. /\ k \in DOMAIN L.handles /\ h.Protocols \in Seq(SmmInterface)
  <2> DEFINE E == [Handle : STRING, Protocols : Seq(SmmInterface)]
             s == L.handles
  <2>1. s \in Seq(E)
    BY ListsTyped, Zenon
  <2> HIDE DEF E, s
  <2>2. k \in DOMAIN s /\ s[k] \in E
    BY <2>1 DEF s
  <2> QED
    BY <2>2 DEF E, s
<1>2. /\ r \in Structures /\ r.Signature = "SCHD" /\ r.width = SizeOfHandleProtocol
      /\ r.Id = h.Handle /\ r.first = HandleProtocols(L, h)
  <2>1. HandleRecords(L)[k]
          = [Id |-> h.Handle, first |-> HandleProtocols(L, h), second |-> <<>>]
    BY <1>1 DEF HandleRecords
  <2>2. /\ r \in Structures /\ r.Signature = "SCHD" /\ r.width = SizeOfHandleProtocol
        /\ HandleRecords(L)[k].Id = r.Id /\ HandleRecords(L)[k].first = r.first
    BY HandlesPlanned
  <2> QED
    BY <2>1, <2>2
<1> HIDE DEF r, h
<1>3. Len(r.first) = Len(h.Protocols)
  BY <1>1, <1>2, ArraysTyped
<1>4. /\ Header.Id = h.Handle /\ Header.Counts[1] = Len(h.Protocols)
      /\ Placed(ptr + SizeOf("SCHD"), SizeOfHandleProtocol, HandleProtocols(L, h))
  BY <1>2, <1>3, ArraysRead DEF r
<1>5. ProtocolItems(ptr + SizeOf("SCHD"), Header.Counts[1])
        = [i \in DOMAIN h.Protocols |->
             <<h.Protocols[i].ProtocolID, h.Protocols[i].Interface,
               InterfaceName(L, named, h.Protocols[i])>>]
  <2> DEFINE at == ptr + SizeOf("SCHD")
             n == Header.Counts[1]
  <2>1. /\ ImagesKnown(L) /\ h.Protocols \in Seq(SmmInterface) /\ n = Len(h.Protocols)
        /\ Placed(at, SizeOfHandleProtocol, HandleProtocols(L, h))
    BY <1>1, <1>4
  <2> HIDE DEF at, n, named
  <2>2. ProtocolItems(at, n)
          = [i \in DOMAIN h.Protocols |->
               <<h.Protocols[i].ProtocolID, h.Protocols[i].Interface,
                 InterfaceName(L, AllNamed(L), h.Protocols[i])>>]
    BY ONLY <2>1, HandleProtocolsRead, SMTT(40)
  <2> QED
    BY <2>2 DEF at, n, named
<1>6. Lines(L, named).Handle[k] = HandleLine(L, named, h)
  BY <1>1 DEF Lines, h
<1> QED
  BY <1>4, <1>5, <1>6 DEF HandleLine

LEMMA ProtocolRead ==
  ASSUME NEW L \in SmmLists, ImagesKnown(L), NEW k \in 1 .. Len(EntriesDumped(L)), ptr \in Nat,
         Holds(mem, ptr, ProtocolStructures(L)[k])
  PROVE  LET interfaces == ptr + SizeOf("SCPD")
         IN  [ line |-> "Protocol", Id |-> Header.Id,
               Items |-> Items(interfaces, SizeOfInterface, Header.Counts[1]),
               Notify |-> Items(interfaces + Header.Counts[1] * SizeOfInterface,
                                SizeOfNotify, Header.Counts[2]) ]
               = Lines(L, AllNamed(L)).Protocol[k]
<1> DEFINE named == AllNamed(L)
           r == ProtocolStructures(L)[k]
           e == EntriesDumped(L)[k]
<1>1. /\ k \in DOMAIN EntriesDumped(L) /\ e.Protocols \in Seq(SmmInterface)
      /\ e.Notify \in Seq(Nat)
  <2> DEFINE E == [ProtocolID : STRING, Protocols : Seq(SmmInterface), Notify : Seq(Nat)]
             s == EntriesDumped(L)
  <2>1. s \in Seq(E)
    BY EntriesDumpedAre, Zenon
  <2> HIDE DEF E, s
  <2>2. k \in DOMAIN s /\ s[k] \in E
    BY <2>1 DEF s
  <2> QED
    BY <2>2 DEF E, s
<1>2. /\ r \in Structures /\ r.Signature = "SCPD" /\ r.width = SizeOfInterface
      /\ r.Id = e.ProtocolID /\ r.first = Interfaces(L, e)
      /\ r.second = Functions(L, e.Notify, SizeOfNotify)
  <2>1. ProtocolRecords(L)[k]
          = [ Id |-> e.ProtocolID, first |-> Interfaces(L, e),
              second |-> Functions(L, e.Notify, SizeOfNotify) ]
    BY <1>1 DEF ProtocolRecords
  <2>2. /\ r \in Structures /\ r.Signature = "SCPD" /\ r.width = SizeOfInterface
        /\ ProtocolRecords(L)[k].Id = r.Id /\ ProtocolRecords(L)[k].first = r.first
        /\ ProtocolRecords(L)[k].second = r.second
    BY ProtocolsPlanned
  <2> QED
    BY <2>1, <2>2
<1> HIDE DEF r, e
<1>3. /\ Len(r.first) = Len(e.Protocols) /\ Len(r.second) = Len(e.Notify)
      /\ Len(e.Protocols) \in Nat
  <2>1. SizeOfNotify \in Widths
    BY DEF SizeOfNotify, Widths
  <2>2. Len(r.first) = Len(e.Protocols)
    BY <1>1, <1>2, ArraysTyped
  <2> DEFINE addresses == e.Notify
  <2>3. addresses \in Seq(Nat)
    BY <1>1
  <2> HIDE DEF addresses
  <2>4. Len(Functions(L, addresses, SizeOfNotify)) = Len(addresses)
    BY <2>1, <2>3, ArraysTyped
  <2> QED
    BY <1>1, <1>2, <2>2, <2>4 DEF addresses
<1> DEFINE interfaces == ptr + SizeOf("SCPD")
           notify == interfaces + Header.Counts[1] * SizeOfInterface
<1>4. /\ Header.Id = e.ProtocolID /\ Header.Counts[1] = Len(e.Protocols)
      /\ Header.Counts[2] = Len(e.Notify)
      /\ Placed(interfaces, SizeOfInterface, Interfaces(L, e))
      /\ Placed(interfaces + SizeOfInterface * Len(e.Protocols), SizeOfInterface,
                Functions(L, e.Notify, SizeOfNotify))
  BY <1>2, <1>3, ArraysRead DEF r
<1>5. /\ notify = interfaces + SizeOfInterface * Len(e.Protocols)
      /\ SizeOfNotify = SizeOfInterface
  BY <1>3, <1>4 DEF SizeOfNotify, SizeOfInterface
<1> HIDE DEF interfaces, notify
<1>6. Items(interfaces, SizeOfInterface, Header.Counts[1]) = InterfaceItems(L, named, e)
  <2> DEFINE n == Header.Counts[1]
  <2>1. /\ ImagesKnown(L) /\ e.Protocols \in Seq(SmmInterface) /\ n = Len(e.Protocols)
        /\ Placed(interfaces, SizeOfInterface, Interfaces(L, e))
    BY <1>1, <1>4
  <2> HIDE DEF n, named
  <2>2. Items(interfaces, SizeOfInterface, n) = InterfaceItems(L, AllNamed(L), e)
    BY ONLY <2>1, InterfacesRead
  <2> QED
    BY <2>2 DEF n, named
<1>7. Items(notify, SizeOfNotify, Header.Counts[2]) = Handlers(L, named, e.Notify)
  <2> DEFINE addresses == e.Notify
             w == SizeOfNotify
             n == Header.Counts[2]
  <2>1. addresses \in Seq(Nat) /\ Placed(notify, w, Functions(L, addresses, w))
        /\ n = Len(addresses)
    BY <1>1, <1>4, <1>5
  <2> HIDE DEF addresses, w, n
  <2>2. Items(notify, w, n) = Handlers(L, named, addresses)
    BY <2>1, FunctionsRead
  <2> QED
    BY <2>2 DEF addresses, w, n
<1>8. Lines(L, named).Protocol[k] = ProtocolLine(L, named, e)
  BY <1>1 DEF Lines, e
<1> QED
  BY <1>4, <1>6, <1>7, <1>8 DEF ProtocolLine, interfaces, notify

(* A structure of the three kinds whose only array is one of functions.     *)
LEMMA SmiRead ==
  ASSUME NEW L \in SmmLists, ImagesKnown(L), NEW addresses \in Seq(Nat), NEW w \in Widths,
         NEW r \in Structures, r.Signature # "SCID", r.width = w,
         r.first = Functions(L, addresses, w), Holds(mem, ptr, r)
  PROVE  /\ Header.Id = r.Id
         /\ Items(ptr + SizeOf(r.Signature), w, Header.Counts[1])
              = Handlers(L, AllNamed(L), addresses)
<1>1. Len(r.first) = Len(addresses)
  BY ArraysTyped
<1>2. /\ Header.Id = r.Id /\ Header.Counts[1] = Len(addresses)
      /\ Placed(ptr + SizeOf(r.Signature), w, Functions(L, addresses, w))
  BY <1>1, ArraysRead
<1> QED
  BY <1>2, FunctionsRead

(***************************************************************************)
(* Which structures a walk takes for its own                               *)
(***************************************************************************)

SectionOf(p) == IF p = "Handle" THEN "Handler" ELSE p
Walks == PassNames \ {"Count"}

Mine(p, r) ==
  \/ p = "Image" /\ r.Signature = "SCID"
  \/ p = "Handle" /\ r.Signature = "SCHD"
  \/ p = "Protocol" /\ r.Signature = "SCPD"
  \/ p = "Smi" /\ r.Signature = "SCSD" /\ r.Id # Root
  \/ p = "RootSmi" /\ r.Signature = "SCSD" /\ r.Id = Root
  \/ p = "Child" /\ r.Signature = "CDSD"

LEMMA OnlyItsSection ==
  ASSUME NEW L \in SmmLists, NEW name \in SectionNames, NEW j \in 1 .. Len(Part(L)[name]),
         NEW p \in Walks
  PROVE  Mine(p, Part(L)[name][j]) <=> SectionOf(p) = name
<1> DEFINE r == Part(L)[name][j]
<1>1. /\ name = "Image" => r.Signature = "SCID"
      /\ name = "Handler" => r.Signature = "SCHD"
      /\ name = "Protocol" => r.Signature = "SCPD"
  <2> DEFINE R == Part(L)[name]
  <2>1. /\ name = "Image" => R = ImageStructures(L)
        /\ name = "Handler" => R = HandleStructures(L)
        /\ name = "Protocol" => R = ProtocolStructures(L)
    BY DEF Part
  <2>2. r = R[j] /\ j \in 1 .. Len(R)
    OBVIOUS
  <2> HIDE DEF R, r
  <2>3. name = "Image" => r.Signature = "SCID"
    BY <2>1, <2>2, ImagesPlanned
  <2>4. name = "Handler" => r.Signature = "SCHD"
    BY <2>1, <2>2, HandlesPlanned
  <2>5. name = "Protocol" => r.Signature = "SCPD"
    BY <2>1, <2>2, ProtocolsPlanned
  <2> QED
    BY <2>3, <2>4, <2>5
<1>2. name = "Smi" => r.Signature = "SCSD" /\ r.Id # Root
  BY SmisPlanned DEF Part
<1>3. name = "RootSmi" => r.Signature = "SCSD" /\ r.Id = Root
  BY DEF Part, RootStructure
<1>4. name = "Child" => r.Signature = "CDSD"
  BY DEF Part, ChildStructures, ChildStructure
<1> HIDE DEF r
<1> QED
  BY <1>1, <1>2, <1>3, <1>4 DEF SectionNames, Walks, PassNames, SectionOf, Mine, r

Begin(L, name) == Len(Ahead(L)[name])

(* X is made of the sections T.                                             *)
MadeOf(X, L, T) ==
  /\ \A name \in T :
       /\ Begin(L, name) + Len(Part(L)[name]) <= Len(X)
       /\ \A j \in 1 .. Len(Part(L)[name]) : X[Begin(L, name) + j] = Part(L)[name][j]
  /\ \A k \in 1 .. Len(X) : \E name \in T : k - Begin(L, name) \in 1 .. Len(Part(L)[name])

LEMMA MadeOfMore ==
  ASSUME NEW L \in SmmLists, NEW T \in SUBSET SectionNames, NEW name \in SectionNames,
         MadeOf(Ahead(L)[name], L, T)
  PROVE  MadeOf(Ahead(L)[name] \o Part(L)[name], L, T \cup {name})
<1> DEFINE F == Ahead(L)[name]
           R == Part(L)[name]
           X == F \o R
<1>1. F \in Seq(Structures) /\ R \in Seq(Structures)
  BY PartsTyped
<1> HIDE DEF F, R
<1>2. /\ Len(F) \in Nat /\ Len(R) \in Nat /\ Len(X) = Len(F) + Len(R)
      /\ \A i \in 1 .. Len(F) : X[i] = F[i]
      /\ \A j \in 1 .. Len(R) : X[Len(F) + j] = R[j]
  <2>1. \A i \in 1 .. Len(X) : X[i] = IF i <= Len(F) THEN F[i] ELSE R[i - Len(F)]
    BY <1>1
  <2>2. Len(F) \in Nat /\ Len(R) \in Nat /\ Len(X) = Len(F) + Len(R)
    BY <1>1
  <2> HIDE DEF X
  <2>3. \A i \in 1 .. Len(F) : X[i] = F[i]
    BY <2>1, <2>2
  <2>4. ASSUME NEW j \in 1 .. Len(R) PROVE X[Len(F) + j] = R[j]
    <3>1. Len(F) + j \in 1 .. Len(X) /\ ~(Len(F) + j <= Len(F)) /\ (Len(F) + j) - Len(F) = j
      BY <2>2
    <3> QED
      BY <2>1, <3>1
  <2> QED
    BY <2>2, <2>3, <2>4
<1> HIDE DEF X
<1>3. \A other \in SectionNames :
        /\ Begin(L, other) \in Nat /\ Len(Part(L)[other]) \in Nat
  BY PartsTyped DEF Begin
<1>4. Begin(L, name) = Len(F) /\ Part(L)[name] = R
  BY DEF Begin, F, R
<1>5. MadeOf(F, L, T)
  BY DEF F
<1>6. ASSUME NEW other \in T \cup {name}
      PROVE  /\ Begin(L, other) + Len(Part(L)[other]) <= Len(X)
             /\ \A j \in 1 .. Len(Part(L)[other]) : X[Begin(L, other) + j] = Part(L)[other][j]
  <2>1. CASE other = name
    BY <2>1, <1>2, <1>4
  <2>2. CASE other # name
    <3>1. /\ Begin(L, other) + Len(Part(L)[other]) <= Len(F)
          /\ \A j \in 1 .. Len(Part(L)[other]) : F[Begin(L, other) + j] = Part(L)[other][j]
      BY <2>2, <1>5 DEF MadeOf
    <3>2. \A j \in 1 .. Len(Part(L)[other]) : Begin(L, other) + j \in 1 .. Len(F)
      BY <3>1, <1>2, <1>3, <2>2
    <3> DEFINE part == Part(L)[other]
               b == Begin(L, other)
    <3>3. b \in Nat /\ Len(part) \in Nat
      BY <1>3, <2>2
    <3>4. /\ b + Len(part) <= Len(F)
          /\ \A j \in 1 .. Len(part) : F[b + j] = part[j] /\ b + j \in 1 .. Len(F)
      BY <3>1, <3>2
    <3> HIDE DEF part, b
    <3>5. /\ b + Len(part) <= Len(X)
          /\ \A j \in 1 .. Len(part) : X[b + j] = part[j]
      BY ONLY <3>3, <3>4, <1>2
    <3> QED
      BY <3>5 DEF part, b
  <2> QED
    BY <2>1, <2>2
<1>7. ASSUME NEW k \in 1 .. Len(X)
      PROVE  \E other \in T \cup {name} : k - Begin(L, other) \in 1 .. Len(Part(L)[other])
  <2>1. CASE k <= Len(F)
    <3>1. k \in 1 .. Len(F)
      BY <2>1, <1>2
    <3> QED
      BY <3>1, <1>5 DEF MadeOf
  <2>2. CASE k > Len(F)
    BY <2>2, <1>2, <1>4
  <2> QED
    BY <2>1, <2>2, <1>2
<1>8. MadeOf(X, L, T \cup {name})
  BY <1>6, <1>7 DEF MadeOf
<1> QED
  BY <1>8 DEF X, F, R

LEMMA EverythingMade ==
  ASSUME NEW L \in SmmLists
  PROVE  MadeOf(Everything(L), L, SectionNames)
<1> DEFINE F == Ahead(L)
           R == Part(L)
<1>1. /\ F["Image"] = <<>> /\ F["Handler"] = F["Image"] \o R["Image"]
      /\ F["Protocol"] = F["Handler"] \o R["Handler"]
      /\ F["Smi"] = F["Protocol"] \o R["Protocol"]
      /\ F["RootSmi"] = F["Smi"] \o R["Smi"] /\ F["Child"] = F["RootSmi"] \o R["RootSmi"]
      /\ Everything(L) = F["Child"] \o R["Child"]
  BY OffsetsAdd, Orders, ZenonT(60) DEF SectionNames
<1> HIDE DEF F, R
<1>2. MadeOf(F["Image"], L, {})
  <2>1. MadeOf(<<>>, L, {})
    BY DEF MadeOf
  <2> QED
    BY <2>1, <1>1
<1>3. MadeOf(F["Handler"], L, {} \cup {"Image"})
  BY <1>1, <1>2, MadeOfMore DEF SectionNames, F, R
<1>4. MadeOf(F["Protocol"], L, ({} \cup {"Image"}) \cup {"Handler"})
  BY <1>1, <1>3, MadeOfMore DEF SectionNames, F, R
<1>5. MadeOf(F["Smi"], L, (({} \cup {"Image"}) \cup {"Handler"}) \cup {"Protocol"})
  BY <1>1, <1>4, MadeOfMore DEF SectionNames, F, R
<1>6. MadeOf(F["RootSmi"], L, {"Image", "Handler", "Protocol"} \cup {"Smi"})
  <2>1. (({} \cup {"Image"}) \cup {"Handler"}) \cup {"Protocol"} = {"Image", "Handler", "Protocol"}
    OBVIOUS
  <2> QED
    BY <2>1, <1>1, <1>5, MadeOfMore DEF SectionNames, F, R
<1>7. MadeOf(F["Child"], L, ({"Image", "Handler", "Protocol"} \cup {"Smi"}) \cup {"RootSmi"})
  BY <1>1, <1>6, MadeOfMore DEF SectionNames, F, R
<1>8. MadeOf(Everything(L), L,
             (({"Image", "Handler", "Protocol"} \cup {"Smi"}) \cup {"RootSmi"}) \cup {"Child"})
  BY <1>1, <1>7, MadeOfMore DEF SectionNames, F, R
<1>9. (({"Image", "Handler", "Protocol"} \cup {"Smi"}) \cup {"RootSmi"}) \cup {"Child"}
        = SectionNames
  BY DEF SectionNames
<1> QED
  BY <1>8, <1>9

(* How many structures of its own walk p has seen when it stands on the     *)
(* structure k.                                                             *)
Past(L, p, k) ==
  LET n    == Len(Part(L)[SectionOf(p)])
      seen == k - 1 - Begin(L, SectionOf(p))
  IN  IF seen < 0 THEN 0 ELSE IF seen > n THEN n ELSE seen

LEMMA PastStep ==
  ASSUME NEW L \in SmmLists, NEW p \in Walks
  PROVE  LET P == Everything(L)
             R == Part(L)[SectionOf(p)]
         IN  /\ Len(R) \in Nat /\ Len(P) \in Nat
             /\ Past(L, p, 1) = 0 /\ Past(L, p, Len(P) + 1) = Len(R)
             /\ \A k \in 1 .. Len(P) + 1 : Past(L, p, k) \in 0 .. Len(R)
             /\ \A k \in 1 .. Len(P) :
                  IF Mine(p, P[k])
                  THEN /\ Past(L, p, k) + 1 \in 1 .. Len(R)
                       /\ Past(L, p, k + 1) = Past(L, p, k) + 1
                       /\ P[k] = R[Past(L, p, k) + 1]
                  ELSE Past(L, p, k + 1) = Past(L, p, k)
<1> DEFINE P == Everything(L)
           sec == SectionOf(p)
           R == Part(L)[sec]
           n == Len(R)
           b == Begin(L, sec)
<1>1. sec \in SectionNames
  BY DEF SectionOf, Walks, PassNames, SectionNames
<1>2. \A name \in SectionNames : Begin(L, name) \in Nat /\ Len(Part(L)[name]) \in Nat
  BY PartsTyped DEF Begin
<1>3. /\ b + n <= Len(P) /\ \A j \in 1 .. n : P[b + j] = R[j]
      /\ \A k \in 1 .. Len(P) :
           \E name \in SectionNames : k - Begin(L, name) \in 1 .. Len(Part(L)[name])
      /\ \A name \in SectionNames : \A j \in 1 .. Len(Part(L)[name]) :
           P[Begin(L, name) + j] = Part(L)[name][j]
  BY <1>1, EverythingMade DEF MadeOf
<1>4. b \in Nat /\ n \in Nat /\ Len(P) \in Nat
  BY <1>1, <1>2, PartsTyped
<1> HIDE DEF P, n, b
<1>5. \A k \in Int : Past(L, p, k) = IF k - 1 - b < 0 THEN 0 ELSE IF k - 1 - b > n THEN n
                                     ELSE k - 1 - b
  BY DEF Past, n, b
<1>6. ASSUME NEW k \in 1 .. Len(P)
      PROVE  Mine(p, P[k]) <=> k - b \in 1 .. n
  <2>1. PICK name \in SectionNames : k - Begin(L, name) \in 1 .. Len(Part(L)[name])
    BY <1>3
  <2> DEFINE j == k - Begin(L, name)
  <2>2. P[k] = Part(L)[name][j]
    <3>1. Begin(L, name) + j = k
      BY <1>2, <1>4
    <3> HIDE DEF j
    <3> QED
      BY <1>3, <2>1, <3>1 DEF j
  <2> HIDE DEF j
  <2>3. Mine(p, P[k]) <=> sec = name
    BY <2>1, <2>2, OnlyItsSection DEF j
  <2>4. sec = name => k - b \in 1 .. n
    BY <2>1 DEF b, n
  <2>5. k - b \in 1 .. n => Mine(p, P[k])
    <3> SUFFICES ASSUME k - b \in 1 .. n PROVE Mine(p, P[k])
      OBVIOUS
    <3> DEFINE i == k - b
    <3>1. b + i = k /\ i \in 1 .. n
      BY <1>4
    <3> HIDE DEF i
    <3>2. P[k] = R[i]
      BY <1>3, <3>1
    <3> QED
      BY <1>1, <3>1, <3>2, OnlyItsSection DEF n
  <2> QED
    BY <2>3, <2>4, <2>5
<1>7. ASSUME NEW k \in 1 .. Len(P)
      PROVE  IF Mine(p, P[k])
             THEN /\ Past(L, p, k) + 1 \in 1 .. n
                  /\ Past(L, p, k + 1) = Past(L, p, k) + 1
                  /\ P[k] = R[Past(L, p, k) + 1]
             ELSE Past(L, p, k + 1) = Past(L, p, k)
  <2>1. k \in Int /\ k + 1 \in Int
    OBVIOUS
  <2>2. CASE Mine(p, P[k])
    <3>1. k - b \in 1 .. n
      BY <1>6, <2>2
    <3>2. Past(L, p, k) = k - 1 - b /\ Past(L, p, k + 1) = k - b /\ (k - 1 - b) + 1 = k - b
      BY <1>4, <1>5, <2>1, <3>1
    <3> DEFINE i == k - b
    <3>3. b + i = k /\ i \in 1 .. n
      BY <1>4, <3>1
    <3> HIDE DEF i
    <3>4. P[k] = R[i]
      BY <1>3, <3>3
    <3> QED
      BY <2>2, <3>1, <3>2, <3>4 DEF i
  <2>3. CASE ~ Mine(p, P[k])
    <3>1. k - b \notin 1 .. n
      BY <1>6, <2>3
    <3> QED
      BY <1>4, <1>5, <2>1, <2>3, <3>1
  <2> QED
    BY <2>2, <2>3
<1>8. /\ Past(L, p, 1) = 0 /\ Past(L, p, Len(P) + 1) = n
      /\ \A k \in 1 .. Len(P) + 1 : Past(L, p, k) \in 0 .. n
  BY <1>3, <1>4, <1>5
<1> QED
  BY <1>4, <1>7, <1>8 DEF P, n
LineSet(L, named) ==
  UNION {{Lines(L, named)[p][i] : i \in DOMAIN Lines(L, named)[p]} : p \in Walks}

(* A walk prints one line for each structure of its section.                *)
LEMMA LinesTyped ==
  ASSUME NEW L \in SmmLists, NEW named \in BOOLEAN, NEW p \in Walks
  PROVE  /\ Lines(L, named)[p] \in Seq(LineSet(L, named))
         /\ Len(Lines(L, named)[p]) = Len(Part(L)[SectionOf(p)])
<1> DEFINE E == Lines(L, named)[p]
           S == LineSet(L, named)
           R == Part(L)[SectionOf(p)]
           n == Len(R)
<1>1. n \in Nat
  BY PastStep
<1>2. DOMAIN E = 1 .. n
  <2>1. CASE p = "Image"
    <3>1. DOMAIN E = 1 .. Len(L.images)
      BY <2>1, ImagesTyped DEF Lines
    <3>2. R = ImageStructures(L)
      BY <2>1 DEF SectionOf, Part
    <3> HIDE DEF E, R
    <3> QED
      BY <3>1, <3>2, ImagesPlanned
  <2>2. CASE p = "Handle"
    <3>1. DOMAIN E = DOMAIN L.handles
      BY <2>2 DEF Lines
    <3>2. DOMAIN L.handles = 1 .. Len(L.handles)
      BY ListsTyped
    <3>3. R = HandleStructures(L)
      BY <2>2 DEF SectionOf, Part
    <3> HIDE DEF E, R
    <3> QED
      BY <3>1, <3>2, <3>3, HandlesPlanned
  <2>3. CASE p = "Protocol"
    <3>1. DOMAIN E = DOMAIN EntriesDumped(L)
      BY <2>3 DEF Lines
    <3>2. DOMAIN EntriesDumped(L) = 1 .. Len(EntriesDumped(L))
      BY EntriesDumpedAre
    <3>3. R = ProtocolStructures(L)
      BY <2>3 DEF SectionOf, Part
    <3> HIDE DEF E, R
    <3> QED
      BY <3>1, <3>2, <3>3, ProtocolsPlanned
  <2>4. CASE p = "Smi"
    <3>1. DOMAIN E = DOMAIN L.smis
      BY <2>4 DEF Lines
    <3>2. DOMAIN L.smis = 1 .. Len(L.smis)
      BY ListsTyped
    <3>3. R = SmiStructures(L)
      BY <2>4 DEF SectionOf, Part
    <3> HIDE DEF E, R
    <3> QED
      BY <3>1, <3>2, <3>3, SmisPlanned
  <2>5. CASE p = "RootSmi"
    <3>1. E = <<RootLine(L, named)>> /\ R = <<RootStructure(L)>>
      BY <2>5 DEF Lines, SectionOf, Part
    <3> HIDE DEF E, R
    <3> QED
      BY <3>1
  <2>6. CASE p = "Child"
    <3>1. /\ E = IF L.childLib = "Null" THEN <<>> ELSE <<ChildLine(L, named)>>
          /\ R = IF L.childLib = "Null" THEN <<>> ELSE <<ChildStructure(L)>>
      BY <2>6 DEF Lines, SectionOf, Part, ChildStructures
    <3> HIDE DEF E, R
    <3>2. CASE L.childLib = "Null"
      BY <3>1, <3>2
    <3>3. CASE L.childLib # "Null"
      BY <3>1, <3>3
    <3> QED
      BY <3>2, <3>3
  <2> QED
    BY <2>1, <2>2, <2>3, <2>4, <2>5, <2>6 DEF Walks, PassNames
<1>3. \A i \in 1 .. n : E[i] \in S
  BY <1>2 DEF LineSet
<1>4. E = [i \in DOMAIN E |-> E[i]]
  <2>1. p \in {"Image", "Handle", "Protocol", "Smi", "RootSmi", "Child"}
    BY DEF Walks, PassNames
  <2> DEFINE IsFcn(s) == s = [i \in DOMAIN s |-> s[i]]
  <2>2. /\ IsFcn(Lines(L, named).Image) /\ IsFcn(Lines(L, named).Handle)
        /\ IsFcn(Lines(L, named).Protocol) /\ IsFcn(Lines(L, named).Smi)
    BY DEF Lines
  <2>3. IsFcn(Lines(L, named).RootSmi) /\ IsFcn(Lines(L, named).Child)
    <3>1. /\ Lines(L, named).RootSmi = <<RootLine(L, named)>>
          /\ Lines(L, named).Child \in {<<>>, <<ChildLine(L, named)>>}
      BY DEF Lines
    <3>2. IsFcn(<<>>) /\ IsFcn(<<RootLine(L, named)>>) /\ IsFcn(<<ChildLine(L, named)>>)
      OBVIOUS
    <3> QED
      BY <3>1, <3>2
  <2>4. IsFcn(Lines(L, named)[p])
    <3> HIDE DEF IsFcn
    <3> QED
      BY <2>1, <2>2, <2>3
  <2> QED
    BY <2>4
<1> HIDE DEF E, S, n
<1>5. E \in Seq(S) /\ Len(E) = n
  <2>1. E = [i \in 1 .. n |-> E[i]]
    BY <1>2, <1>4
  <2>2. E \in [1 .. n -> S]
    BY <2>1, <1>3, SMTT(40)
  <2> QED
    BY <1>1, <2>2
<1> QED
  BY <1>5 DEF E, S, n

(* What has been printed when a walk begins.                                *)
Before(L, named) ==
  LET E     == Lines(L, named)
      one   == IF named THEN E.Image ELSE <<>>
      two   == one \o E.Handle
      three == two \o E.Protocol
      four  == three \o E.Smi
  IN  [ Image    |-> <<>>,
        Handle   |-> one,
        Protocol |-> two,
        Smi      |-> three,
        RootSmi  |-> four,
        Child    |-> four \o E.RootSmi ]

LEMMA BeforeTyped ==
  ASSUME NEW L \in SmmLists, NEW named \in BOOLEAN
  PROVE  /\ \A p \in Walks : Before(L, named)[p] \in Seq(LineSet(L, named))
         /\ \A p \in Walks \ {"Child"} :
              (p = "Image" => named) =>
                /\ After(p, Passes) \in Walks \ {"Image"}
                /\ Before(L, named)[After(p, Passes)]
                     = Before(L, named)[p] \o Lines(L, named)[p]
         /\ Expected(L, named) = Before(L, named).Child \o Lines(L, named).Child
         /\ Before(L, named).Image = <<>>
         /\ ~ named => Before(L, named).Handle = <<>>
<1> DEFINE B == Before(L, named)
           E == Lines(L, named)
           S == Seq(LineSet(L, named))
<1>1. /\ B["Image"] = <<>>
      /\ B["Handle"] = IF named THEN E["Image"] ELSE <<>>
      /\ B["Protocol"] = B["Handle"] \o E["Handle"]
      /\ B["Smi"] = B["Protocol"] \o E["Protocol"]
      /\ B["RootSmi"] = B["Smi"] \o E["Smi"]
      /\ B["Child"] = B["RootSmi"] \o E["RootSmi"]
  BY DEF Before
<1>2. Expected(L, named) = B["Child"] \o E["Child"]
  BY ExpectedIs DEF Before
<1>3. /\ E["Image"] \in S /\ E["Handle"] \in S /\ E["Protocol"] \in S /\ E["Smi"] \in S
      /\ E["RootSmi"] \in S /\ E["Child"] \in S
  BY LinesTyped DEF Walks, PassNames
<1>4. \A s, t \in S : s \o t \in S
  BY ConcatProperties
<1>5. <<>> \in S /\ <<>> \o E["Image"] = E["Image"]
  BY <1>3, ConcatEmptySeq
<1> HIDE DEF B, E, S
<1>6. /\ B["Image"] \in S /\ B["Handle"] \in S /\ B["Protocol"] \in S /\ B["Smi"] \in S
      /\ B["RootSmi"] \in S /\ B["Child"] \in S
  BY <1>1, <1>3, <1>4, <1>5
<1>7. \A p \in Walks : B[p] \in S
  BY <1>6 DEF Walks, PassNames
<1>8. ASSUME NEW p \in Walks \ {"Child"}, p = "Image" => named
      PROVE  After(p, Passes) \in Walks \ {"Image"} /\ B[After(p, Passes)] = B[p] \o E[p]
  BY <1>1, <1>5, <1>8, Orders DEF Walks, PassNames
<1> QED
  BY <1>1, <1>2, <1>7, <1>8 DEF B, E, S

(* The line that each walk prints for the structure it stands on.           *)
Reads ==
  [ Handle   |-> [ line |-> "Handle", Id |-> Header.Id,
                   Items |-> ProtocolItems(ptr + SizeOf("SCHD"), Header.Counts[1]) ],
    Protocol |-> LET interfaces == ptr + SizeOf("SCPD")
                 IN  [ line |-> "Protocol", Id |-> Header.Id,
                       Items |-> Items(interfaces, SizeOfInterface, Header.Counts[1]),
                       Notify |-> Items(interfaces + Header.Counts[1] * SizeOfInterface,
                                        SizeOfNotify, Header.Counts[2]) ],
    Smi      |-> [ line |-> "Smi", Id |-> Header.Id,
                   Items |-> Items(ptr + SizeOf("SCSD"), SizeOfSmiHandler, Header.Counts[1]) ],
    RootSmi  |-> [ line |-> "RootSmi", Id |-> Root,
                   Items |-> Items(ptr + SizeOf("SCSD"), SizeOfSmiHandler, Header.Counts[1]) ],
    Child    |-> [ line |-> "Child", Id |-> Header.Id,
                   Items |-> Items(ptr + SizeOf("CDSD"), SizeOfSwSmiHandler,
                                   Header.Counts[1]) ] ]

LEMMA LineIsRead ==
  ASSUME NEW L \in SmmLists, ImagesKnown(L), ptr \in Nat, NEW p \in Walks \ {"Image"},
         NEW j \in 1 .. Len(Part(L)[SectionOf(p)]),
         Holds(mem, ptr, Part(L)[SectionOf(p)][j])
  PROVE  Reads[p] = Lines(L, AllNamed(L))[p][j]
<1> DEFINE R == Part(L)[SectionOf(p)]
           named == AllNamed(L)
           r == R[j]
<1>1. Holds(mem, ptr, r) /\ r \in Structures
  <2>1. SectionOf(p) \in SectionNames
    BY DEF SectionOf, SectionNames, Walks, PassNames
  <2>2. R \in Seq(Structures)
    BY <2>1, PartsTyped
  <2> HIDE DEF R
  <2> QED
    BY <2>2 DEF R
<1> HIDE DEF r, named
<1>2. CASE p = "Handle"
  <2>1. R = HandleStructures(L)
    BY <1>2 DEF SectionOf, Part
  <2>2. Len(R) = Len(L.handles)
    BY <2>1, HandlesPlanned
  <2>3. Reads.Handle = Lines(L, named).Handle[j]
    BY <1>1, <2>1, <2>2, HandleRead DEF r, named, Reads
  <2> QED
    BY <1>2, <2>3 DEF named
<1>3. CASE p = "Protocol"
  <2>1. R = ProtocolStructures(L)
    BY <1>3 DEF SectionOf, Part
  <2>2. Len(R) = Len(EntriesDumped(L))
    BY <2>1, ProtocolsPlanned
  <2>3. Reads.Protocol = Lines(L, named).Protocol[j]
    BY <1>1, <2>1, <2>2, ProtocolRead DEF r, named, Reads
  <2> QED
    BY <1>3, <2>3 DEF named
<1>4. CASE p = "Smi"
  <2> DEFINE s == L.smis[j]
             addresses == s.SmiHandlers
  <2>1. R = SmiStructures(L)
    BY <1>4 DEF SectionOf, Part
  <2>2. j \in 1 .. Len(L.smis)
    BY <2>1, SmisPlanned
  <2>3. j \in DOMAIN L.smis /\ addresses \in Seq(Nat)
    <3> DEFINE E == [HandlerType : STRING \ {Root}, SmiHandlers : Seq(Nat)]
               t == L.smis
    <3>1. t \in Seq(E)
      BY ListsTyped, Zenon
    <3> HIDE DEF E, t
    <3>2. j \in DOMAIN t /\ t[j] \in E
      BY <2>2, <3>1 DEF t
    <3> QED
      BY <3>2 DEF E, t
  <2>4. /\ r.Signature = "SCSD" /\ r.width = SizeOfSmiHandler /\ r.Id = s.HandlerType
        /\ r.first = Functions(L, addresses, SizeOfSmiHandler)
    <3>1. SmiRecords(L)[j] = [ Id |-> s.HandlerType, second |-> <<>>,
                               first |-> Functions(L, addresses, SizeOfSmiHandler) ]
      BY <2>3 DEF SmiRecords
    <3>2. /\ r.Signature = "SCSD" /\ r.width = SizeOfSmiHandler
          /\ SmiRecords(L)[j].Id = r.Id /\ SmiRecords(L)[j].first = r.first
      BY <2>1, SmisPlanned DEF r
    <3> QED
      BY <3>1, <3>2
  <2>5. SizeOfSmiHandler \in Widths
    BY DEF SizeOfSmiHandler, Widths
  <2> HIDE DEF addresses, s
  <2>6. /\ Header.Id = r.Id
        /\ Items(ptr + SizeOf(r.Signature), SizeOfSmiHandler, Header.Counts[1])
             = Handlers(L, named, addresses)
    BY <1>1, <2>3, <2>4, <2>5, SmiRead DEF named
  <2>7. Lines(L, named).Smi[j] = SmiLine(L, named, s)
    BY <2>3 DEF Lines, s
  <2> QED
    BY <1>4, <2>4, <2>6, <2>7 DEF Reads, SmiLine, named, addresses
<1>5. CASE p = "RootSmi"
  <2> DEFINE addresses == L.roots
  <2>1. R = <<RootStructure(L)>> /\ j = 1 /\ r = RootStructure(L)
    BY <1>5 DEF SectionOf, Part, r
  <2>2. addresses \in Seq(Nat) /\ SizeOfSmiHandler \in Widths
    BY ListsTyped DEF SizeOfSmiHandler, Widths
  <2>3. /\ r.Signature = "SCSD" /\ r.width = SizeOfSmiHandler
        /\ r.first = Functions(L, addresses, SizeOfSmiHandler)
    BY <2>1 DEF RootStructure, SizeOfSmiHandler
  <2> HIDE DEF addresses
  <2>4. Items(ptr + SizeOf(r.Signature), SizeOfSmiHandler, Header.Counts[1])
          = Handlers(L, named, addresses)
    BY <1>1, <2>2, <2>3, SmiRead DEF named
  <2>5. Lines(L, named).RootSmi[1] = RootLine(L, named)
    BY DEF Lines
  <2> QED
    BY <1>5, <2>1, <2>3, <2>4, <2>5 DEF Reads, RootLine, named, addresses
<1>6. CASE p = "Child"
  <2> DEFINE addresses == L.children
  <2>1. L.childLib # "Null" /\ R = <<ChildStructure(L)>> /\ j = 1 /\ r = ChildStructure(L)
    BY <1>6 DEF SectionOf, Part, ChildStructures, r
  <2>2. addresses \in Seq(Nat) /\ SizeOfSwSmiHandler \in Widths
    BY ListsTyped DEF SizeOfSwSmiHandler, Widths
  <2>3. /\ r.Signature = "CDSD" /\ r.width = SizeOfSwSmiHandler /\ r.Id = "SwDispatch2"
        /\ r.first = Functions(L, addresses, SizeOfSwSmiHandler)
    BY <2>1 DEF ChildStructure, SizeOfSwSmiHandler
  <2> HIDE DEF addresses
  <2>4. /\ Header.Id = r.Id
        /\ Items(ptr + SizeOf(r.Signature), SizeOfSwSmiHandler, Header.Counts[1])
             = Handlers(L, named, addresses)
    BY <1>1, <2>2, <2>3, SmiRead DEF named
  <2>5. Lines(L, named).Child[1] = ChildLine(L, named)
    BY <2>1 DEF Lines
  <2> QED
    BY <1>6, <2>1, <2>3, <2>4, <2>5 DEF Reads, ChildLine, named, addresses
<1> QED
  BY <1>2, <1>3, <1>4, <1>5, <1>6 DEF Walks, PassNames

(***************************************************************************)
(* The invariant of what is printed                                        *)
(***************************************************************************)

Printed(L, named, p, k) ==
  Before(L, named)[p] \o SubSeq(Lines(L, named)[p], 1, Past(L, p, k))

NamedAll(L, max) == max = Len(L.images)
Known(L, max, names) == (max = Len(L.images) /\ names = ImageNames(L)) \/ max = 0

(* Where the application is when walk p stands on the structure k: what it  *)
(* remembers of the images, and what it has printed.                        *)
Progress(L, k, p, max, names, out) ==
  /\ p \in PassNames
  /\ p = "Count" => names = <<>> /\ out = <<>> /\ max = Past(L, "Image", k)
  /\ p = "Image" => /\ max = Len(L.images)
                    /\ names = SubSeq(ImageNames(L), 1, Past(L, "Image", k))
  /\ p \notin {"Count", "Image"} => Known(L, max, names)
  /\ p # "Count" => out = Printed(L, NamedAll(L, max), p, k)

DumpInv ==
  /\ stage # "ASSERT"
  /\ stage \in {"Build", "Data"} => images = <<>> /\ printed = <<>> /\ structCountMax = 0
  /\ stage = "Walk" =>
       \E at : /\ Starts(at, mem, Everything(lists), DatabaseSize(sizes))
               /\ \E k \in 1 .. Len(Everything(lists)) + 1 :
                    ptr = at[k] /\ Progress(lists, k, pass, structCountMax, images, printed)
  /\ stage = "Done" => printed = Expected(lists, NamedAll(lists, structCountMax))

LEMMA PrintedStep ==
  ASSUME NEW L \in SmmLists, NEW named \in BOOLEAN, NEW p \in Walks,
         NEW k \in 1 .. Len(Everything(L))
  PROVE  Printed(L, named, p, k + 1)
           = IF Mine(p, Everything(L)[k])
             THEN Append(Printed(L, named, p, k), Lines(L, named)[p][Past(L, p, k) + 1])
             ELSE Printed(L, named, p, k)
<1> DEFINE E == Lines(L, named)[p]
           B == Before(L, named)[p]
           S == LineSet(L, named)
           c == Past(L, p, k)
           n == Len(E)
<1>1. E \in Seq(S) /\ B \in Seq(S) /\ n = Len(Part(L)[SectionOf(p)]) /\ n \in Nat
  BY LinesTyped, BeforeTyped, PastStep, ZenonT(60)
<1>2. IF Mine(p, Everything(L)[k])
      THEN c + 1 \in 1 .. n /\ Past(L, p, k + 1) = c + 1
      ELSE Past(L, p, k + 1) = c
  BY <1>1, PastStep
<1>3. c \in 0 .. n
  <2>1. Len(Everything(L)) \in Nat
    BY PastStep
  <2>2. k \in 1 .. Len(Everything(L)) + 1
    BY <2>1
  <2> HIDE DEF n
  <2> QED
    BY <1>1, <2>2, PastStep
<1>4. Printed(L, named, p, k) = B \o SubSeq(E, 1, c)
  BY DEF Printed
<1>5. Printed(L, named, p, k + 1) = B \o SubSeq(E, 1, Past(L, p, k + 1))
  BY DEF Printed
<1> HIDE DEF E, B, S, c, n
<1>6. CASE Mine(p, Everything(L)[k])
  <2>1. c + 1 \in 1 .. n /\ Past(L, p, k + 1) = c + 1 /\ (c + 1) - 1 = c
    BY <1>2, <1>3, <1>6
  <2> DEFINE i == c + 1
  <2>2. i \in 1 .. n /\ i - 1 = c
    BY <2>1
  <2> HIDE DEF i
  <2>3. /\ SubSeq(E, 1, i) = Append(SubSeq(E, 1, c), E[i]) /\ E[i] \in S
        /\ SubSeq(E, 1, c) \in Seq(S)
    BY <1>1, <1>3, <2>2, InitialStep DEF n
  <2> DEFINE front == SubSeq(E, 1, c)
             e == E[i]
  <2>4. front \in Seq(S) /\ e \in S /\ B \in Seq(S)
    BY <1>1, <2>3
  <2> HIDE DEF front, e
  <2>5. B \o Append(front, e) = Append(B \o front, e)
    BY ONLY <2>4, AppendToConcat
  <2>6. B \o Append(front, E[i]) = Append(B \o front, E[i])
    BY <2>5 DEF e
  <2>7. Printed(L, named, p, k + 1) = B \o SubSeq(E, 1, i)
    BY <1>5, <2>1 DEF i
  <2> QED
    BY <1>4, <1>6, <2>3, <2>6, <2>7 DEF front, i, E, c
<1>7. CASE ~ Mine(p, Everything(L)[k])
  BY <1>2, <1>4, <1>5, <1>7
<1> QED
  BY <1>6, <1>7

LEMMA PrintedEnds ==
  ASSUME NEW L \in SmmLists, NEW named \in BOOLEAN, NEW p \in Walks
  PROVE  /\ Printed(L, named, p, 1) = Before(L, named)[p]
         /\ Printed(L, named, p, Len(Everything(L)) + 1)
              = Before(L, named)[p] \o Lines(L, named)[p]
<1> DEFINE E == Lines(L, named)[p]
           B == Before(L, named)[p]
           S == LineSet(L, named)
<1>1. E \in Seq(S) /\ B \in Seq(S) /\ Len(E) = Len(Part(L)[SectionOf(p)])
  BY LinesTyped, BeforeTyped
<1>2. Past(L, p, 1) = 0 /\ Past(L, p, Len(Everything(L)) + 1) = Len(E)
  BY <1>1, PastStep
<1> HIDE DEF E, B, S
<1>3. SubSeq(E, 1, 0) = <<>> /\ SubSeq(E, 1, Len(E)) = E /\ B \o <<>> = B
  BY <1>1, InitialStep, ConcatEmptySeq
<1> QED
  BY <1>2, <1>3 DEF Printed, E, B

LEMMA HeaderMine ==
  ASSUME NEW P, NEW k, NEW at, Holds(mem, at[k], P[k]), ptr = at[k], NEW p
  PROVE  Mine(p, Header) <=> Mine(p, P[k])
BY HeaderIsThere DEF Mine

(* Where a walk stands, and where its next step leads.                      *)
Standing(at, k) ==
  /\ Starts(at, mem, Everything(lists), DatabaseSize(sizes)) /\ lists \in SmmLists
  /\ ptr = at[k] /\ ptr \in Nat
  /\ Progress(lists, k, pass, structCountMax, images, printed)
  /\ ptr >= DatabaseSize(sizes) => k = Len(Everything(lists)) + 1
  /\ ptr < DatabaseSize(sizes) =>
       /\ k \in 1 .. Len(Everything(lists)) /\ k + 1 \in 1 .. Len(Everything(lists)) + 1
       /\ Holds(mem, at[k], Everything(lists)[k])
       /\ ptr + Header.Length = at[k + 1]

LEMMA WalkStands ==
  ASSUME LayoutInv, DumpInv, stage = "Walk"
  PROVE  \E at : \E k \in 1 .. Len(Everything(lists)) + 1 : Standing(at, k)
<1> DEFINE P == Everything(lists)
           hi == DatabaseSize(sizes)
<1>1. /\ lists \in SmmLists /\ sizes = GetSmmCoreDatabaseSize(lists)
      /\ Covers(mem, hi)
  BY DEF LayoutInv, Built
<1>2. P \in Seq(Structures) /\ hi \in Nat
  BY <1>1, PartsTyped, OffsetsAdd
<1>3. PICK at : /\ Starts(at, mem, P, hi)
                /\ \E k \in 1 .. Len(P) + 1 :
                     /\ ptr = at[k]
                     /\ Progress(lists, k, pass, structCountMax, images, printed)
  BY DEF DumpInv
<1>4. PICK k \in 1 .. Len(P) + 1 :
        ptr = at[k] /\ Progress(lists, k, pass, structCountMax, images, printed)
  BY <1>3
<1> HIDE DEF P, hi
<1>5. /\ at[k] \in Nat /\ at[k] <= hi
      /\ k # Len(P) + 1 <=> at[k] < hi
      /\ k # Len(P) + 1 =>
           /\ k \in 1 .. Len(P) /\ k + 1 \in 1 .. Len(P) + 1
           /\ Holds(mem, at[k], P[k]) /\ at[k + 1] = at[k] + mem[at[k]].Length
  <2>1. Starts(at, mem, P, hi) /\ Covers(mem, hi)
    BY <1>1, <1>3
  <2>2. k \in 1 .. Len(P) + 1
    OBVIOUS
  <2>3. at[k] \in Nat /\ at[k] <= hi
    BY ONLY <1>2, <2>1, <2>2, WalkStep
  <2>4. k = Len(P) + 1 => at[k] = hi
    BY <2>1 DEF Starts
  <2>5. CASE k # Len(P) + 1
    <3>1. /\ k \in 1 .. Len(P) /\ k + 1 \in 1 .. Len(P) + 1
          /\ Holds(mem, at[k], P[k]) /\ at[k + 1] = at[k] + mem[at[k]].Length
      BY ONLY <1>2, <2>1, <2>2, <2>5, WalkStep
    <3>2. at[k] < hi
      BY ONLY <1>2, <2>1, <2>2, <2>5, WalkStep
    <3> QED
      BY <2>3, <2>5, <3>1, <3>2
  <2>6. CASE k = Len(P) + 1
    BY <1>2, <2>3, <2>4, <2>6
  <2> QED
    BY <2>5, <2>6
<1>6. ptr >= hi => k = Len(P) + 1
  BY <1>2, <1>4, <1>5
<1>7. ASSUME ptr < hi
      PROVE  /\ k \in 1 .. Len(P) /\ k + 1 \in 1 .. Len(P) + 1
             /\ Holds(mem, at[k], P[k]) /\ ptr + Header.Length = at[k + 1]
  <2>1. /\ k \in 1 .. Len(P) /\ k + 1 \in 1 .. Len(P) + 1
        /\ Holds(mem, at[k], P[k]) /\ at[k + 1] = at[k] + mem[at[k]].Length
    BY <1>4, <1>5, <1>7
  <2>2. Header = mem[ptr]
    BY <1>4, <2>1, HeaderIsThere
  <2> QED
    BY <1>4, <2>1, <2>2
<1>8. Standing(at, k)
  BY <1>1, <1>3, <1>4, <1>5, <1>6, <1>7 DEF P, hi, Standing
<1> QED
  BY <1>4, <1>8 DEF P

LEMMA NamesTyped ==
  ASSUME NEW L \in SmmLists
  PROVE  /\ ImageNames(L) \in Seq(STRING) /\ Len(ImageNames(L)) = Len(L.images)
         /\ Len(L.images) \in Nat
         /\ Len(Part(L)[SectionOf("Image")]) = Len(L.images)
         /\ "Image" \in Walks
<1>1. Len(L.images) \in Nat /\ \A i \in 1 .. Len(L.images) : L.images[i].Name \in STRING
  BY ImagesTyped
<1>2. ImageNames(L) \in Seq(STRING) /\ Len(ImageNames(L)) = Len(L.images)
  <2> DEFINE n == Len(L.images)
             name(i) == L.images[i].Name
  <2>1. ImageNames(L) = [i \in 1 .. n |-> name(i)] /\ n \in Nat
        /\ \A i \in 1 .. n : name(i) \in STRING
    BY <1>1 DEF ImageNames
  <2> HIDE DEF n, name
  <2>2. ImageNames(L) \in Seq(STRING) /\ Len(ImageNames(L)) = n
    BY <2>1
  <2> QED
    BY <2>2 DEF n
<1>3. Part(L)[SectionOf("Image")] = ImageStructures(L)
  BY DEF SectionOf, Part
<1>4. Len(Part(L)[SectionOf("Image")]) = Len(L.images)
  BY <1>3, ImagesPlanned
<1> QED
  BY <1>1, <1>2, <1>4 DEF Walks, PassNames

LEMMA DumpInitially == LayoutInit => DumpInv
BY DEF LayoutInit, DumpInv

LEMMA AllNamedIs ==
  ASSUME NEW L
  PROVE  AllNamed(L) = NamedAll(L, structCountMax) /\ AllNamed(L) \in BOOLEAN
BY DEF AllNamed, NamedAll

LEMMA NamedAllIs ==
  ASSUME NEW L, NEW max
  PROVE  /\ NamedAll(L, max) \in BOOLEAN
         /\ max = Len(L.images) => NamedAll(L, max) = TRUE
         /\ max # Len(L.images) => NamedAll(L, max) = FALSE
BY DEF NamedAll

(* The steps of a walk, by what they do to the lines and the names.         *)
LEMMA CountProgress ==
  ASSUME NEW L \in SmmLists, NEW k \in 1 .. Len(Everything(L)), NEW max,
         Progress(L, k, "Count", max, <<>>, <<>>),
         NEW more, more = max + (IF Mine("Image", Everything(L)[k]) THEN 1 ELSE 0)
  PROVE  Progress(L, k + 1, "Count", more, <<>>, <<>>)
<1>1. max = Past(L, "Image", k)
  BY DEF Progress
<1>2. "Image" \in Walks
  BY DEF Walks, PassNames
<1>3. /\ Len(Everything(L)) \in Nat
      /\ Len(Part(L)[SectionOf("Image")]) \in Nat
      /\ \A i \in 1 .. Len(Everything(L)) + 1 :
           Past(L, "Image", i) \in 0 .. Len(Part(L)[SectionOf("Image")])
  BY <1>2, PastStep
<1>4. max \in Nat
  BY <1>1, <1>3
<1>5. IF Mine("Image", Everything(L)[k])
      THEN Past(L, "Image", k + 1) = Past(L, "Image", k) + 1
      ELSE Past(L, "Image", k + 1) = Past(L, "Image", k)
  BY <1>2, PastStep
<1>6. more = Past(L, "Image", k + 1)
  <2>1. CASE Mine("Image", Everything(L)[k])
    BY <2>1, <1>1, <1>5
  <2>2. CASE ~ Mine("Image", Everything(L)[k])
    BY <2>2, <1>1, <1>4, <1>5
  <2> QED
    BY <2>1, <2>2
<1> QED
  BY <1>6 DEF Progress, PassNames

LEMMA ImageProgress ==
  ASSUME NEW L \in SmmLists, NEW k \in 1 .. Len(Everything(L)), NEW max, NEW names, NEW out,
         Progress(L, k, "Image", max, names, out)
  PROVE  /\ ~ Mine("Image", Everything(L)[k]) =>
              Progress(L, k + 1, "Image", max, names, out)
         /\ Mine("Image", Everything(L)[k]) =>
              /\ Len(names) < max /\ Len(names) \in Nat /\ max \in Nat
              /\ Progress(L, k + 1, "Image", max, Append(names, Everything(L)[k].Id),
                          Append(out, [line |-> "Image", Id |-> Everything(L)[k].Id]))
<1> DEFINE N == Len(L.images)
           c == Past(L, "Image", k)
           r == Everything(L)[k]
           T == ImageNames(L)
           named == NamedAll(L, max)
           E == Lines(L, named)["Image"]
<1>1. /\ max = N /\ names = SubSeq(T, 1, c) /\ out = Printed(L, named, "Image", k)
      /\ named = TRUE
  BY NamedAllIs DEF Progress
<1>2. /\ T \in Seq(STRING) /\ Len(T) = N /\ N \in Nat /\ "Image" \in Walks
      /\ Len(Part(L)[SectionOf("Image")]) = N
  BY NamesTyped
<1>3. /\ IF Mine("Image", r)
         THEN /\ c + 1 \in 1 .. N /\ Past(L, "Image", k + 1) = c + 1
              /\ r = Part(L)[SectionOf("Image")][c + 1]
         ELSE Past(L, "Image", k + 1) = c
      /\ c \in 0 .. N
  <2>1. Len(Everything(L)) \in Nat
    BY <1>2, PastStep
  <2>2. k \in 1 .. Len(Everything(L)) + 1
    BY <2>1
  <2> HIDE DEF N
  <2> QED
    BY <1>2, <2>2, PastStep
<1>4. Printed(L, named, "Image", k + 1)
        = IF Mine("Image", r) THEN Append(out, E[c + 1]) ELSE out
  BY <1>1, <1>2, PrintedStep
<1>5. CASE ~ Mine("Image", r)
  <2>1. Printed(L, NamedAll(L, max), "Image", k + 1) = out
    BY <1>4, <1>5
  <2>2. Past(L, "Image", k + 1) = c
    BY <1>3, <1>5
  <2> QED
    BY <1>1, <1>5, <2>1, <2>2 DEF Progress, PassNames
<1>6. CASE Mine("Image", r)
  <2> DEFINE i == c + 1
  <2>1. i \in 1 .. N /\ Past(L, "Image", k + 1) = i /\ i - 1 = c
        /\ r = Part(L)[SectionOf("Image")][i]
    BY <1>3, <1>6
  <2>2. r.Id = L.images[i].Name
    <3>1. Part(L)[SectionOf("Image")] = ImageStructures(L)
      BY DEF SectionOf, Part
    <3> HIDE DEF i, r
    <3>2. r = ImageStructures(L)[i] /\ i \in 1 .. Len(ImageStructures(L))
      BY <2>1, <3>1, <1>2
    <3> QED
      BY <3>2, ImagesPlanned
  <2>3. T[i] = r.Id
    BY <2>1, <2>2 DEF ImageNames
  <2>4. E[i] = [line |-> "Image", Id |-> r.Id]
    <3>1. i \in DOMAIN L.images
      BY <2>1, ImagesTyped
    <3> HIDE DEF i, r
    <3> QED
      BY <2>2, <3>1 DEF Lines
  <2>5. Printed(L, NamedAll(L, max), "Image", k + 1)
          = Append(out, [line |-> "Image", Id |-> r.Id])
    BY <1>4, <1>6, <2>4
  <2> HIDE DEF r, T, c, i, E, N
  <2>6. /\ SubSeq(T, 1, i) = Append(SubSeq(T, 1, i - 1), T[i])
        /\ Len(SubSeq(T, 1, c)) = c
    BY <1>2, <1>3, <2>1, InitialStep
  <2>7. SubSeq(T, 1, Past(L, "Image", k + 1)) = Append(names, r.Id)
    BY <1>1, <2>1, <2>3, <2>6
  <2>8. Len(names) = c /\ c < N /\ c \in Nat /\ max \in Nat
    BY <1>1, <1>2, <1>3, <2>1, <2>6 DEF i
  <2>9. max = Len(L.images)
    BY <1>1 DEF N
  <2>10. Progress(L, k + 1, "Image", max, Append(names, r.Id),
                  Append(out, [line |-> "Image", Id |-> r.Id]))
    BY <2>5, <2>7, <2>9 DEF Progress, PassNames, T
  <2> QED
    BY <1>1, <1>6, <2>8, <2>10 DEF r
<1> QED
  BY <1>5, <1>6

LEMMA LineProgress ==
  ASSUME NEW L \in SmmLists, NEW k \in 1 .. Len(Everything(L)),
         NEW p \in Walks \ {"Image"}, ptr \in Nat,
         Holds(mem, ptr, Everything(L)[k]),
         Progress(L, k, p, structCountMax, images, printed),
         NEW out, out = IF Mine(p, Everything(L)[k]) THEN Append(printed, Reads[p])
                        ELSE printed
  PROVE  Progress(L, k + 1, p, structCountMax, images, out)
<1> DEFINE r == Everything(L)[k]
           R == Part(L)[SectionOf(p)]
           c == Past(L, p, k)
           named == AllNamed(L)
<1>1. /\ Known(L, structCountMax, images) /\ named = NamedAll(L, structCountMax)
      /\ named \in BOOLEAN /\ printed = Printed(L, named, p, k)
  BY AllNamedIs DEF Progress, Walks, PassNames
<1>2. Printed(L, named, p, k + 1)
        = IF Mine(p, r) THEN Append(printed, Lines(L, named)[p][c + 1]) ELSE printed
  BY <1>1, PrintedStep
<1>3. Mine(p, r) => c + 1 \in 1 .. Len(R) /\ r = R[c + 1]
  BY PastStep
<1>4. Mine(p, r) => Reads[p] = Lines(L, named)[p][c + 1]
  <2> SUFFICES ASSUME Mine(p, r)
               PROVE  Reads[p] = Lines(L, named)[p][c + 1]
    OBVIOUS
  <2> DEFINE j == c + 1
  <2>1. j \in 1 .. Len(R) /\ r = R[j]
    BY <1>3
  <2>2. ImagesKnown(L)
    BY <1>1 DEF ImagesKnown, Known
  <2> HIDE DEF j
  <2>3. Reads[p] = Lines(L, named)[p][j]
    BY <2>1, <2>2, LineIsRead
  <2> QED
    BY <2>3 DEF j
<1>5. out = Printed(L, named, p, k + 1)
  BY <1>2, <1>4
<1> HIDE DEF named
<1> QED
  BY <1>1, <1>5 DEF Progress, Walks, PassNames

(* The ends of the walks.                                                   *)
LEMMA CountEnds ==
  ASSUME NEW L \in SmmLists, NEW max, NEW k, k = Len(Everything(L)) + 1,
         Progress(L, k, "Count", max, <<>>, <<>>)
  PROVE  /\ Progress(L, 1, "Image", max, <<>>, <<>>)
         /\ Progress(L, 1, "Handle", 0, <<>>, <<>>)
<1>1. /\ ImageNames(L) \in Seq(STRING) /\ Len(L.images) \in Nat
      /\ "Image" \in Walks /\ Len(Part(L)[SectionOf("Image")]) = Len(L.images)
  BY NamesTyped
<1>2. max = Len(L.images) /\ Past(L, "Image", 1) = 0
  BY <1>1, PastStep DEF Progress
<1>3. SubSeq(ImageNames(L), 1, 0) = <<>>
  BY <1>1, InitialStep
<1>4. Printed(L, NamedAll(L, max), "Image", 1) = <<>>
  <2> DEFINE named == NamedAll(L, max)
  <2>1. named \in BOOLEAN
    BY DEF NamedAll
  <2> HIDE DEF named
  <2>2. Before(L, named)["Image"] = <<>>
    BY DEF Before
  <2>3. Printed(L, named, "Image", 1) = <<>>
    BY <1>1, <2>1, <2>2, PrintedEnds
  <2> QED
    BY <2>3 DEF named
<1>5. Progress(L, 1, "Image", max, <<>>, <<>>)
  BY <1>2, <1>3, <1>4 DEF Progress, PassNames
<1>6. Printed(L, NamedAll(L, 0), "Handle", 1) = <<>>
  <2> DEFINE named == NamedAll(L, 0)
             S == LineSet(L, named)
             E == Lines(L, named)["Image"]
  <2>1. named \in BOOLEAN /\ (named => Len(L.images) = 0)
    BY DEF NamedAll
  <2>2. "Handle" \in Walks
    BY DEF Walks, PassNames
  <2> HIDE DEF named
  <2>3. Printed(L, named, "Handle", 1) = Before(L, named)["Handle"]
    BY <2>1, <2>2, PrintedEnds
  <2>4. Before(L, named)["Handle"] = <<>>
    <3>1. CASE ~ named
      BY <3>1 DEF Before
    <3>2. CASE named
      <4>1. E \in Seq(S) /\ Len(E) = 0
        BY <1>1, <2>1, <3>2, LinesTyped
      <4>2. Before(L, named)["Handle"] = E
        BY <3>2 DEF Before
      <4> HIDE DEF E, S
      <4>3. E = <<>>
        BY <4>1, EmptySeq
      <4> QED
        BY <4>2, <4>3
    <3> QED
      BY <2>1, <3>1, <3>2
  <2>5. Printed(L, named, "Handle", 1) = <<>>
    BY <2>3, <2>4
  <2> QED
    BY <2>5 DEF named
<1>7. Progress(L, 1, "Handle", 0, <<>>, <<>>)
  BY <1>6 DEF Progress, PassNames, Known
<1> QED
  BY <1>5, <1>7

LEMMA PassEnds ==
  ASSUME NEW L \in SmmLists, NEW p \in Walks, NEW max, NEW names, NEW out,
         NEW k, k = Len(Everything(L)) + 1, Progress(L, k, p, max, names, out)
  PROVE  /\ p = "Child" => out = Expected(L, NamedAll(L, max))
         /\ p # "Child" => Progress(L, 1, After(p, Passes), max, names, out)
<1> DEFINE named == NamedAll(L, max)
           q == After(p, Passes)
<1>1. /\ named \in BOOLEAN /\ (p = "Image" => named)
      /\ out = Printed(L, named, p, Len(Everything(L)) + 1)
  BY NamedAllIs DEF Progress, Walks, PassNames
<1>2. Known(L, max, names)
  <2>1. CASE p = "Image"
    <3>1. /\ ImageNames(L) \in Seq(STRING) /\ Len(ImageNames(L)) = Len(L.images)
          /\ "Image" \in Walks /\ Len(Part(L)[SectionOf("Image")]) = Len(L.images)
      BY NamesTyped
    <3>2. Past(L, "Image", k) = Len(L.images)
      BY <3>1, PastStep
    <3>3. SubSeq(ImageNames(L), 1, Len(ImageNames(L))) = ImageNames(L)
      BY <3>1, InitialStep
    <3> QED
      BY <2>1, <3>1, <3>2, <3>3 DEF Progress, Known
  <2>2. CASE p # "Image"
    BY <2>2 DEF Progress, Walks, PassNames
  <2> QED
    BY <2>1, <2>2
<1> HIDE DEF named
<1>3. out = Before(L, named)[p] \o Lines(L, named)[p]
  BY <1>1, PrintedEnds
<1>4. p = "Child" => out = Expected(L, named)
  BY <1>1, <1>3, BeforeTyped
<1>5. ASSUME p # "Child"
      PROVE  Progress(L, 1, q, max, names, out)
  <2>1. q \in Walks \ {"Image"} /\ Before(L, named)[q] = out
    BY <1>1, <1>3, <1>5, BeforeTyped
  <2> HIDE DEF q
  <2>2. out = Printed(L, named, q, 1)
    BY <1>1, <2>1, PrintedEnds
  <2> QED
    BY <1>2, <2>1, <2>2 DEF Progress, Walks, PassNames, named
<1> QED
  BY <1>4, <1>5 DEF named
(* What a step of a walk leaves behind is what it must show of the next     *)
(* structure, or, at the end of the walk, of the first.                     *)
LEMMA DumpStep ==
  ASSUME LayoutInv, NEW at, NEW k \in 1 .. Len(Everything(lists)) + 1,
         Starts(at, mem, Everything(lists), DatabaseSize(sizes)), ptr' = at[k],
         stage' = "Walk", UNCHANGED <<lists, sizes, mem>>,
         Progress(lists, k, pass', structCountMax', images', printed')
  PROVE  DumpInv'
<1> DEFINE P == Everything(lists)
           hi == DatabaseSize(sizes)
<1>1. P' = P /\ hi' = hi
  OBVIOUS
<1> HIDE DEF P, hi
<1>2. \E at1 : /\ Starts(at1, mem', P', hi')
               /\ \E k1 \in 1 .. Len(P') + 1 :
                    /\ ptr' = at1[k1]
                    /\ Progress(lists', k1, pass', structCountMax', images', printed')
  BY <1>1 DEF P, hi
<1> QED
  BY <1>2 DEF DumpInv, P, hi

LEMMA WalkInductive ==
  ASSUME LayoutInv, LayoutInv', DumpInv, stage = "Walk", ptr < DatabaseSize(sizes), App
  PROVE  DumpInv'
<1> DEFINE P == Everything(lists)
           hi == DatabaseSize(sizes)
<1>1. PICK at : \E k \in 1 .. Len(P) + 1 : Standing(at, k)
  BY WalkStands
<1>2. PICK k \in 1 .. Len(P) :
        /\ Starts(at, mem, P, hi) /\ lists \in SmmLists /\ k + 1 \in 1 .. Len(P) + 1
        /\ ptr = at[k] /\ ptr \in Nat /\ ptr + Header.Length = at[k + 1]
        /\ Holds(mem, at[k], P[k])
        /\ Progress(lists, k, pass, structCountMax, images, printed)
  BY <1>1 DEF Standing
<1>3. ASSUME ptr' = ptr + Header.Length, stage' = "Walk", UNCHANGED <<lists, sizes, mem>>,
             Progress(lists, k + 1, pass', structCountMax', images', printed')
      PROVE  DumpInv'
  <2> DEFINE next == k + 1
  <2>1. next \in 1 .. Len(P) + 1 /\ ptr' = at[next]
        /\ Progress(lists, next, pass', structCountMax', images', printed')
    BY <1>2, <1>3
  <2> HIDE DEF next
  <2> QED
    BY <1>2, <1>3, <2>1, DumpStep
<1>4. \A p : Mine(p, Header) <=> Mine(p, P[k])
  BY <1>2, HeaderMine
<1>5. Header.Id = P[k].Id
  BY <1>2, HeaderIsThere
<1> HIDE DEF P, hi
<1>6. CASE CountImages
  <2>1. /\ pass = "Count" /\ pass' = "Count" /\ stage' = "Walk" /\ ptr' = ptr + Header.Length
        /\ images' = images /\ printed' = printed /\ UNCHANGED <<lists, sizes, mem>>
        /\ structCountMax' = structCountMax + (IF Header.Signature = "SCID" THEN 1 ELSE 0)
    BY <1>6 DEF CountImages, Walking
  <2>2. images = <<>> /\ printed = <<>>
    BY <1>2, <2>1 DEF Progress
  <2>3. Mine("Image", Header) <=> Header.Signature = "SCID"
    BY DEF Mine
  <2>4. structCountMax' = structCountMax + (IF Mine("Image", P[k]) THEN 1 ELSE 0)
    BY <1>4, <2>1, <2>3
  <2>5. Progress(lists, k, "Count", structCountMax, <<>>, <<>>)
    BY <1>2, <2>1, <2>2
  <2>6. Progress(lists, k + 1, "Count", structCountMax', <<>>, <<>>)
    BY <1>2, <2>4, <2>5, CountProgress DEF P
  <2> QED
    BY <1>3, <2>1, <2>2, <2>6
<1>7. CASE DumpSmmLoadedImage
  <2> DEFINE mine == Header.Signature = "SCID"
  <2>1. /\ pass = "Image" /\ pass' = "Image" /\ ptr' = ptr + Header.Length
        /\ structCountMax' = structCountMax /\ UNCHANGED <<lists, sizes, mem>>
        /\ printed' = IF mine THEN Append(printed, [line |-> "Image", Id |-> Header.Id])
                      ELSE printed
        /\ images' = IF mine /\ Len(images) < structCountMax THEN Append(images, Header.Id)
                     ELSE images
        /\ stage' = IF mine /\ Len(images) >= structCountMax THEN "ASSERT" ELSE stage
    BY <1>7 DEF DumpSmmLoadedImage, Walking
  <2>2. Mine("Image", P[k]) <=> mine
    BY <1>4 DEF Mine
  <2>3. Progress(lists, k, "Image", structCountMax, images, printed)
    BY <1>2, <2>1
  <2>4. /\ ~ mine => Progress(lists, k + 1, "Image", structCountMax, images, printed)
        /\ mine =>
             /\ Len(images) < structCountMax /\ Len(images) \in Nat /\ structCountMax \in Nat
             /\ Progress(lists, k + 1, "Image", structCountMax, Append(images, Header.Id),
                         Append(printed, [line |-> "Image", Id |-> Header.Id]))
    <3>1. lists \in SmmLists /\ k \in 1 .. Len(Everything(lists))
      BY <1>2 DEF P
    <3>2. ~ mine => Progress(lists, k + 1, "Image", structCountMax, images, printed)
      BY <3>1, <2>2, <2>3, ImageProgress DEF P
    <3>3. mine =>
             /\ Len(images) < structCountMax /\ Len(images) \in Nat /\ structCountMax \in Nat
             /\ Progress(lists, k + 1, "Image", structCountMax, Append(images, P[k].Id),
                         Append(printed, [line |-> "Image", Id |-> P[k].Id]))
      BY <3>1, <2>2, <2>3, ImageProgress DEF P
    <3> QED
      BY <1>5, <3>2, <3>3
  <2>5. CASE mine
    <3>1. ~ (Len(images) >= structCountMax)
      BY <2>4, <2>5
    <3>2. /\ images' = Append(images, Header.Id) /\ stage' = "Walk"
          /\ printed' = Append(printed, [line |-> "Image", Id |-> Header.Id])
      BY <2>1, <2>4, <2>5, <3>1
    <3>3. Progress(lists, k + 1, pass', structCountMax', images', printed')
      BY <2>1, <2>4, <2>5, <3>2
    <3> QED
      BY <1>3, <2>1, <3>2, <3>3
  <2>6. CASE ~ mine
    BY <1>3, <2>1, <2>4, <2>6
  <2> QED
    BY <2>5, <2>6
<1>8. ASSUME NEW p \in Walks \ {"Image"}, Walk(p, Mine(p, Header), Reads[p])
      PROVE  DumpInv'
  <2>1. /\ pass = p /\ pass' = p /\ stage' = "Walk" /\ ptr' = ptr + Header.Length
        /\ structCountMax' = structCountMax /\ images' = images
        /\ UNCHANGED <<lists, sizes, mem>>
        /\ printed' = IF Mine(p, Header) THEN Append(printed, Reads[p]) ELSE printed
    BY <1>8 DEF Walk, Walking
  <2>2. printed' = IF Mine(p, P[k]) THEN Append(printed, Reads[p]) ELSE printed
    BY <1>4, <2>1
  <2>3. /\ Holds(mem, ptr, P[k]) /\ Progress(lists, k, p, structCountMax, images, printed)
    BY <1>2, <2>1
  <2>4. Progress(lists, k + 1, p, structCountMax, images, printed')
    BY <1>2, <2>2, <2>3, LineProgress DEF P
  <2> QED
    BY <1>3, <2>1, <2>4
<1>9. CASE DumpHandleDatabase
  <2>1. "Handle" \in Walks \ {"Image"} /\ (Mine("Handle", Header) <=> Header.Signature = "SCHD")
    BY DEF Walks, PassNames, Mine
  <2>2. Walk("Handle", Mine("Handle", Header), Reads["Handle"])
    BY <1>9, <2>1 DEF DumpHandleDatabase, Reads, Walk
  <2> QED
    BY <1>8, <2>1, <2>2
<1>10. CASE DumpProtocolDatabase
  <2>1. "Protocol" \in Walks \ {"Image"}
        /\ (Mine("Protocol", Header) <=> Header.Signature = "SCPD")
    BY DEF Walks, PassNames, Mine
  <2>2. Walk("Protocol", Mine("Protocol", Header), Reads["Protocol"])
    BY <1>10, <2>1 DEF DumpProtocolDatabase, Reads, Walk
  <2> QED
    BY <1>8, <2>1, <2>2
<1>11. CASE DumpSmiHandler
  <2>1. /\ "Smi" \in Walks \ {"Image"}
        /\ Mine("Smi", Header) <=> Header.Signature = "SCSD" /\ Header.Id # Root
    BY DEF Walks, PassNames, Mine
  <2>2. Walk("Smi", Mine("Smi", Header), Reads["Smi"])
    BY <1>11, <2>1 DEF DumpSmiHandler, Reads, Walk
  <2> QED
    BY <1>8, <2>1, <2>2
<1>12. CASE DumpRootSmiHandler
  <2>1. /\ "RootSmi" \in Walks \ {"Image"}
        /\ Mine("RootSmi", Header) <=> Header.Signature = "SCSD" /\ Header.Id = Root
    BY DEF Walks, PassNames, Mine
  <2>2. Walk("RootSmi", Mine("RootSmi", Header), Reads["RootSmi"])
    BY <1>12, <2>1 DEF DumpRootSmiHandler, Reads, Walk
  <2> QED
    BY <1>8, <2>1, <2>2
<1>13. CASE DumpSmmChildHandler
  <2>1. "Child" \in Walks \ {"Image"} /\ (Mine("Child", Header) <=> Header.Signature = "CDSD")
    BY DEF Walks, PassNames, Mine
  <2>2. Walk("Child", Mine("Child", Header), Reads["Child"])
    BY <1>13, <2>1 DEF DumpSmmChildHandler, Reads, Walk
  <2> QED
    BY <1>8, <2>1, <2>2
<1>14. ~ AllocateImageStruct /\ ~ NextPass
  <2>1. ptr < hi /\ ptr \in Nat /\ hi \in Nat
    BY <1>2, OffsetsAdd DEF hi, LayoutInv
  <2>2. ~ (ptr >= DatabaseSize(sizes))
    BY <2>1 DEF hi
  <2> QED
    BY <2>2 DEF AllocateImageStruct, NextPass
<1> QED
  BY <1>6, <1>7, <1>9, <1>10, <1>11, <1>12, <1>13, <1>14 DEF App

LEMMA EndInductive ==
  ASSUME LayoutInv, LayoutInv', DumpInv, stage = "Walk", ~ (ptr < DatabaseSize(sizes)), App
  PROVE  DumpInv'
<1> DEFINE P == Everything(lists)
           hi == DatabaseSize(sizes)
<1>1. PICK at : \E k \in 1 .. Len(P) + 1 : Standing(at, k)
  BY WalkStands
<1>2. PICK k \in 1 .. Len(P) + 1 :
        /\ Starts(at, mem, P, hi) /\ lists \in SmmLists
        /\ ptr \in Nat /\ Progress(lists, k, pass, structCountMax, images, printed)
        /\ ptr >= hi => k = Len(P) + 1
  BY <1>1 DEF Standing
<1>3. hi \in Nat /\ Len(P) \in Nat
  <2>1. sizes = GetSmmCoreDatabaseSize(lists)
    BY DEF LayoutInv
  <2>2. hi \in Nat /\ P \in Seq(Structures)
    BY <1>2, <2>1, OffsetsAdd, PartsTyped
  <2> HIDE DEF P, hi
  <2> QED
    BY <2>2
<1>4. k = Len(P) + 1
  BY <1>2, <1>3
<1>5. ASSUME ptr' = 0, stage' = "Walk", UNCHANGED <<lists, sizes, mem>>,
             Progress(lists, 1, pass', structCountMax', images', printed')
      PROVE  DumpInv'
  <2> DEFINE first == 1
  <2>1. /\ first \in 1 .. Len(P) + 1 /\ ptr' = at[first]
        /\ Progress(lists, first, pass', structCountMax', images', printed')
    BY <1>2, <1>3, <1>5 DEF Starts
  <2> HIDE DEF first
  <2> QED
    BY <1>2, <1>5, <2>1, DumpStep
<1>6. CASE AllocateImageStruct
  <2>1. /\ pass = "Count" /\ stage' = "Walk" /\ ptr' = 0 /\ UNCHANGED <<lists, sizes, mem>>
        /\ images' = images /\ printed' = printed
        /\ \/ pass' = "Image" /\ structCountMax' = structCountMax
           \/ pass' = "Handle" /\ structCountMax' = 0
    BY <1>6 DEF AllocateImageStruct
  <2>2. images = <<>> /\ printed = <<>>
    BY <1>2, <2>1 DEF Progress
  <2>3. Progress(lists, k, "Count", structCountMax, <<>>, <<>>)
    BY <1>2, <2>1, <2>2
  <2>4. /\ Progress(lists, 1, "Image", structCountMax, <<>>, <<>>)
        /\ Progress(lists, 1, "Handle", 0, <<>>, <<>>)
    <3> HIDE DEF hi
    <3> QED
      BY <1>2, <1>4, <2>3, CountEnds
  <2> QED
    BY <1>5, <2>1, <2>2, <2>4
<1>7. CASE NextPass
  <2>1. /\ pass \in Range(Passes) /\ UNCHANGED <<lists, sizes, mem>>
        /\ structCountMax' = structCountMax /\ images' = images /\ printed' = printed
        /\ IF pass = "Child" THEN stage' = "Done"
           ELSE pass' = After(pass, Passes) /\ ptr' = 0 /\ stage' = "Walk"
    BY <1>7 DEF NextPass
  <2>2. pass \in Walks
    BY <2>1, Orders DEF Walks, PassNames
  <2>3. /\ pass = "Child" => printed = Expected(lists, NamedAll(lists, structCountMax))
        /\ pass # "Child" =>
             Progress(lists, 1, After(pass, Passes), structCountMax, images, printed)
    <3> HIDE DEF hi
    <3> QED
      BY <1>2, <1>4, <2>2, PassEnds
  <2>4. CASE pass = "Child"
    BY <2>1, <2>3, <2>4 DEF DumpInv
  <2>5. CASE pass # "Child"
    BY <1>5, <2>1, <2>3, <2>5
  <2> QED
    BY <2>4, <2>5
<1>8. ASSUME NEW p, Walking(p)
      PROVE  FALSE
  BY <1>8 DEF Walking
<1>9. ~ CountImages /\ ~ DumpSmmLoadedImage
  BY <1>8 DEF CountImages, DumpSmmLoadedImage
<1>10. /\ ~ DumpHandleDatabase /\ ~ DumpProtocolDatabase /\ ~ DumpSmiHandler
       /\ ~ DumpRootSmiHandler /\ ~ DumpSmmChildHandler
  BY <1>8 DEF DumpHandleDatabase, DumpProtocolDatabase, DumpSmiHandler, DumpRootSmiHandler,
              DumpSmmChildHandler, Walk
<1> QED
  BY <1>6, <1>7, <1>9, <1>10 DEF App

LEMMA DumpInductive ==
  LayoutInv /\ LayoutInv' /\ DumpInv /\ [LayoutNext]_layoutVars => DumpInv'
<1> SUFFICES ASSUME LayoutInv, LayoutInv', DumpInv, [LayoutNext]_layoutVars
             PROVE  DumpInv'
  OBVIOUS
<1>1. CASE AllocateDatabase
  BY <1>1 DEF AllocateDatabase, DumpInv
<1>2. CASE GetSmmCoreDatabaseData
  <2>1. /\ stage = "Data" /\ images' = images /\ printed' = printed
        /\ structCountMax' = structCountMax
        /\ images = <<>> /\ printed = <<>> /\ structCountMax = 0
        /\ \/ stage' \in {"Data", "Mismatch"}
           \/ stage' = "Walk" /\ pass' = "Count" /\ ptr' = 0
    BY <1>2 DEF GetSmmCoreDatabaseData, DumpInv
  <2>2. CASE stage' \in {"Data", "Mismatch"}
    BY <2>1, <2>2 DEF DumpInv
  <2>3. CASE stage' = "Walk" /\ pass' = "Count" /\ ptr' = 0
    <3> DEFINE Q == Everything(lists')
               top == DatabaseSize(sizes')
    <3>1. lists' \in SmmLists /\ Built(mem', Q, top)
      BY <2>3 DEF LayoutInv
    <3>2. Len(Q) \in Nat
      BY <3>1, PartsTyped
    <3>3. "Image" \in Walks
      BY DEF Walks, PassNames
    <3>4. Past(lists', "Image", 1) = 0
      BY <3>1, <3>3, PastStep
    <3>5. Progress(lists', 1, pass', structCountMax', images', printed')
      BY <2>1, <2>3, <3>4 DEF Progress, PassNames
    <3> HIDE DEF Q, top
    <3>6. PICK at : Starts(at, mem', Q, top)
      BY <3>1 DEF Built
    <3>7. ptr' = at[1] /\ 1 \in 1 .. Len(Q) + 1
      BY <2>3, <3>2, <3>6 DEF Starts
    <3>8. \E at1 : /\ Starts(at1, mem', Q, top)
                   /\ \E k1 \in 1 .. Len(Q) + 1 :
                        ptr' = at1[k1]
                        /\ Progress(lists', k1, pass', structCountMax', images', printed')
      BY <3>5, <3>6, <3>7
    <3> QED
      BY <2>3, <3>8 DEF DumpInv, Q, top
  <2> QED
    BY <2>1, <2>2, <2>3
<1>3. CASE App
  <2>1. stage = "Walk"
    BY <1>3 DEF App, CountImages, AllocateImageStruct, DumpSmmLoadedImage, DumpHandleDatabase,
                DumpProtocolDatabase, DumpSmiHandler, DumpRootSmiHandler, DumpSmmChildHandler,
                NextPass, Walk, Walking
  <2> QED
    BY <1>3, <2>1, WalkInductive, EndInductive
<1>4. CASE UNCHANGED layoutVars
  BY <1>4 DEF layoutVars, DumpInv
<1> QED
  BY <1>1, <1>2, <1>3, <1>4 DEF LayoutNext

LEMMA DumpInvariant == LayoutSpec => []DumpInv
<1> QED
  BY LayoutInvariant, DumpInitially, DumpInductive, PTL DEF LayoutSpec

(* What the application has printed at the end is what the lists of the SMM *)
(* core hold, each entry once and in the order of the lists, and an address *)
(* with the name of the image it is in: DumpSmmLoadedImage remembers the    *)
(* images under the indices that AddressToImageRef gave them.               *)
THEOREM DatabaseIsDumped == LayoutSpec => []DumpComplete
<1>1. DumpInv => DumpComplete
  BY DEF DumpInv, DumpComplete, NamedAll
<1> QED
  BY <1>1, DumpInvariant, PTL

(***************************************************************************)
(* The application and the handler                                         *)
(***************************************************************************)

USE SizesAssumption, NullAssumption, ZeroAssumption, RegionAssumption

(* The initial states satisfy the inductive invariant.                      *)
LEMMA InitIInv == Init => IInv
<1> SUFFICES ASSUME Init PROVE IInv
  OBVIOUS
<1>1. TypeOK
  BY SMTT(30) DEF Init, TypeOK, DatabaseBuilt, CommRecord, PC, NoCommand, GetInfo,
         GetData, Untouched, Success, AccessDenied
<1> QED
  BY <1>1 DEF Init, IInv, InfoInv, TransferInv, RequestInv, ReplyInv,
              PrefixReceived, Transferring

(* The steps that neither read nor write the block, the data buffer or the  *)
(* copy: they only end the dump.                                            *)
LEMMA EndingSteps ==
  ASSUME IInv, LocateFails \/ NoUsableRegion \/ InfoRefused \/ Dump \/ UNCHANGED vars
  PROVE  IInv'
<1> USE DEF serverVars, commVars, platformVars, appVars, vars
<1>1. TypeOK'
  BY DEF IInv, TypeOK, PC, Ended, LocateFails, NoUsableRegion, InfoRefused, Dump
<1>2. (InfoInv /\ TransferInv /\ RequestInv /\ ReplyInv /\ PrefixReceived)'
  BY SMTT(40) DEF IInv, TypeOK, InfoInv, TransferInv, RequestInv, ReplyInv, PrefixReceived,
         Transferring, Received, PC, Ended, LocateFails, NoUsableRegion,
         InfoRefused, Dump
<1> QED
  BY <1>1, <1>2 DEF IInv

(* Choosing the region: there is room for at least one byte of data.        *)
LEMMA ChooseRegionStep == ASSUME IInv, ChooseRegion PROVE IInv'
<1> USE DEF serverVars, platformVars
<1>1. PICK t \in RegionTables :
        \E i \in DOMAIN t : t[i].Size >= PageSize /\ chunk' = t[i].Size - CommSize
  BY DEF ChooseRegion, Usable
<1>2. PICK i \in DOMAIN t : t[i].Size >= PageSize /\ chunk' = t[i].Size - CommSize
  BY <1>1
<1>3. chunk' \in Nat /\ chunk' > 0
  BY <1>2
<1>4. data' \in [0 .. chunk' - 1 -> Byte]
  BY <1>3 DEF ChooseRegion
<1>5. TypeOK'
  BY <1>3, <1>4 DEF IInv, TypeOK, ChooseRegion, PC
<1> QED
  BY <1>3, <1>5 DEF IInv, InfoInv, TransferInv, RequestInv, ReplyInv,
                    PrefixReceived, Transferring, ChooseRegion

(* Asking for the size, and setting up the transfer.                        *)
LEMMA AskForInfoStep == ASSUME IInv, AskForInfo PROVE IInv'
<1> USE DEF serverVars, platformVars, appVars
<1>1. TypeOK'
  BY DEF IInv, TypeOK, AskForInfo, CommRecord, PC, SizeOfGetInfo
<1> QED
  BY <1>1 DEF IInv, TypeOK, CommRecord, InfoInv, TransferInv, RequestInv,
              ReplyInv, PrefixReceived, Transferring, AskForInfo

(* Setting up the transfer: ReturnStatus is no longer that of GET_INFO.     *)
LEMMA StartTransferStep == ASSUME IInv, StartTransfer PROVE IInv'
<1> USE DEF serverVars, platformVars, appVars
<1>1. TypeOK'
  BY DEF IInv, TypeOK, StartTransfer, CommRecord, PC, SizeOfGetData
<1> QED
  BY <1>1 DEF IInv, TypeOK, CommRecord, InfoInv, TransferInv, RequestInv,
              ReplyInv, PrefixReceived, Transferring, Received, StartTransfer

(* Taking the size: what is allocated is as large as the database.          *)
LEMMA TakeInfoStep == ASSUME IInv, TakeInfo PROVE IInv'
<1> USE DEF serverVars, commVars, platformVars
<1>1. comm.DumpSize = mSmmCoreDatabaseSize /\ mSmmCoreDatabaseSize \in Sizes
  BY DEF IInv, TypeOK, InfoInv, TakeInfo
<1>2. [i \in 0 .. comm.DumpSize - 1 |-> Zero] \in [0 .. mSmmCoreDatabaseSize - 1 -> Byte]
  BY <1>1
<1>3. appDatabase' \in {NULL} \cup [0 .. appDatabaseSize' - 1 -> Byte]
  <2>1. CASE appDatabase' = [i \in 0 .. comm.DumpSize - 1 |-> Zero]
    BY <1>1, <1>2, <2>1 DEF TakeInfo
  <2>2. CASE UNCHANGED appDatabase
    BY <2>2 DEF IInv, InfoInv, TakeInfo
  <2> QED
    BY <2>1, <2>2 DEF TakeInfo
<1> QED
  BY <1>1, <1>3
     DEF IInv, TypeOK, PC, Ended, InfoInv, TransferInv, RequestInv, ReplyInv,
         PrefixReceived, Transferring, TakeInfo

(* Asking for the next piece: what the block asks for fits both in the      *)
(* region and in what is left of the database.                              *)
LEMMA AskForDataStep == ASSUME IInv, AskForData PROVE IInv'
<1> USE DEF serverVars, platformVars, Smaller
<1> DEFINE n == Smaller(chunk, appDatabaseSize - comm.DumpOffset)
<1>1. /\ comm.DumpOffset \in Nat /\ comm.DumpOffset < appDatabaseSize
      /\ chunk \in Nat /\ appDatabaseSize \in Nat
  BY DEF IInv, TypeOK, CommRecord, AskForData
<1>2. /\ n \in Nat
      /\ n <= chunk
      /\ comm.DumpOffset + n <= appDatabaseSize
  BY <1>1
<1>3. comm' = [comm EXCEPT !.DumpSize = n]
  BY DEF AskForData
<1> HIDE DEF n
<1>4. /\ comm' \in CommRecord
      /\ comm'.DumpSize = n
      /\ comm'.DumpOffset = comm.DumpOffset
      /\ comm'.Command = comm.Command
  BY <1>2, <1>3 DEF IInv, TypeOK, CommRecord
<1>5. TypeOK'
  BY <1>1, <1>4 DEF IInv, TypeOK, AskForData, PC
<1>6. PrefixReceived'
  BY <1>1, <1>4 DEF IInv, TypeOK, PrefixReceived, Transferring, Received, AskForData
<1>7. (InfoInv /\ TransferInv /\ RequestInv /\ ReplyInv)'
  BY <1>1, <1>2, <1>4 DEF IInv, InfoInv, TransferInv, RequestInv, ReplyInv,
                          Transferring, AskForData
<1> QED
  BY <1>5, <1>6, <1>7 DEF IInv

(* Leaving the loop: the offset has reached the size.                       *)
LEMMA TransferDoneStep == ASSUME IInv, TransferDone PROVE IInv'
<1> USE DEF serverVars, commVars, platformVars, appVars
<1> QED
  BY DEF IInv, TypeOK, PC, InfoInv, TransferInv, RequestInv, ReplyInv,
         PrefixReceived, Transferring, Received, TransferDone

(* A piece is refused: the application gives up its copy.                   *)
LEMMA DataRefusedStep == ASSUME IInv, DataRefused PROVE IInv'
<1> USE DEF serverVars, commVars, platformVars
<1> QED
  BY DEF IInv, TypeOK, PC, Ended, InfoInv, TransferInv, RequestInv, ReplyInv,
         PrefixReceived, Transferring, DataRefused

(* Copying the piece.  When the reply has come, the bytes up to the new     *)
(* offset are those of the database; when Communicate() failed, the bytes   *)
(* up to the old offset are not disturbed.                                  *)
LEMMA TakeDataStep == ASSUME IInv, TakeData PROVE IInv'
<1> USE DEF serverVars, commVars, platformVars
<1> DEFINE n == comm.DumpSize
<1>1. /\ pc = "GotData" /\ comm.ReturnStatus = Success
      /\ appDatabase # NULL /\ mSmmCoreDatabase # NULL
      /\ appDatabase \in [0 .. appDatabaseSize - 1 -> Byte]
      /\ appDatabaseSize = mSmmCoreDatabaseSize
      /\ data \in [0 .. chunk - 1 -> Byte]
      /\ n \in Nat /\ Offset \in Nat /\ chunk \in Nat /\ appDatabaseSize \in Nat
      /\ Offset + n <= appDatabaseSize
      /\ n <= chunk
      /\ \A i \in 0 .. Offset - 1 : appDatabase[i] = mSmmCoreDatabase[i]
  BY DEF IInv, TypeOK, CommRecord, TakeData, TransferInv, RequestInv,
         PrefixReceived, Transferring, Received
<1>2. appDatabase' = [i \in 0 .. appDatabaseSize - 1 |->
                        IF i \in Offset .. Offset + n - 1
                        THEN data[i - Offset] ELSE appDatabase[i]]
  BY <1>1 DEF TakeData, CopyPiece
<1>3. \A i \in Offset .. Offset + n - 1 : data[i - Offset] \in Byte
  BY <1>1, SMTT(40)
<1>4. appDatabase' \in [0 .. appDatabaseSize - 1 -> Byte] /\ appDatabase' # NULL
  <2>1. \A i \in 0 .. appDatabaseSize - 1 : appDatabase[i] \in Byte
    BY <1>1
  <2>2. appDatabase' \in [0 .. appDatabaseSize - 1 -> Byte]
    BY <1>2, <1>3, <2>1
  <2>3. appDatabaseSize \in Sizes
    BY <1>1 DEF IInv, TypeOK
  <2> QED
    BY <2>2, <2>3
<1>5. TypeOK'
  BY <1>4 DEF IInv, TypeOK, TakeData, PC
<1>6. \A i \in 0 .. Offset - 1 : appDatabase'[i] = mSmmCoreDatabase[i]
  BY <1>1, <1>2
<1>7. \A i \in 0 .. comm.DumpOffset - 1 : appDatabase'[i] = mSmmCoreDatabase[i]
  <2>1. CASE comm.DumpOffset = Offset
    BY <1>6, <2>1
  <2>2. CASE /\ comm.DumpOffset = Offset + n
             /\ \A i \in 0 .. n - 1 : data[i] = mSmmCoreDatabase[Offset + i]
    <3> SUFFICES ASSUME NEW i \in 0 .. comm.DumpOffset - 1
                 PROVE  appDatabase'[i] = mSmmCoreDatabase[i]
      OBVIOUS
    <3>1. CASE i \in Offset .. Offset + n - 1
      <4>1. i - Offset \in 0 .. n - 1 /\ Offset + (i - Offset) = i
        BY <1>1, <3>1
      <4>2. appDatabase'[i] = data[i - Offset]
        BY <1>1, <1>2, <3>1
      <4> QED
        BY <2>2, <4>1, <4>2
    <3>2. CASE i \notin Offset .. Offset + n - 1
      BY <1>1, <1>6, <2>2, <3>2
    <3> QED
      BY <3>1, <3>2
  <2> QED
    BY <1>1, <2>1, <2>2 DEF IInv, ReplyInv
<1>8. comm.DumpOffset <= appDatabaseSize
  BY <1>1 DEF IInv, ReplyInv
<1>9. PrefixReceived'
  BY <1>1, <1>4, <1>7, <1>8 DEF PrefixReceived, Transferring, Received, TakeData
<1> QED
  BY <1>1, <1>5, <1>9
     DEF IInv, InfoInv, TransferInv, RequestInv, ReplyInv, Transferring, TakeData

(* A Communicate() that fails leaves the block asking for the same piece.   *)
LEMMA CommunicateFailsStep == ASSUME IInv, CommunicateFails PROVE IInv'
<1> USE DEF serverVars, commVars, platformVars, appVars
<1>1. TypeOK'
  BY DEF IInv, TypeOK, PC, Ended, CommunicateFails
<1> QED
  BY <1>1 DEF IInv, Ended, InfoInv, TransferInv, RequestInv, ReplyInv,
              PrefixReceived, Transferring, Received, CommunicateFails

(* What an SMI does to the block, exit by exit of the handler: it is        *)
(* refused and nothing changes, or it fails and only ReturnStatus does, or  *)
(* the size is returned, or a piece.                                        *)
LEMMA HandlerExits ==
  ASSUME TypeOK, SmmCoreDumpHandler
  PROVE  \/ mSmmCoreDatabase = NULL /\ UNCHANGED commVars
         \/ Refused /\ UNCHANGED commVars
         \/ /\ comm' = [comm EXCEPT !.ReturnStatus = comm'.ReturnStatus]
            /\ comm'.ReturnStatus \in {Untouched, AccessDenied}
            /\ UNCHANGED data
         \/ /\ mSmmCoreDatabase # NULL
            /\ comm.Command = GetInfo
            /\ SmmCoreDumpHandlerGetInfo
         \/ /\ mSmmCoreDatabase # NULL
            /\ comm.Command = GetData
            /\ SmmCoreDumpCopyData(comm.DumpOffset, comm.DumpSize)
            /\ comm' = [comm EXCEPT
                          !.DumpSize = ReplySize(comm.DumpOffset, comm.DumpSize),
                          !.DumpOffset = ReplyOffset(comm.DumpOffset, comm.DumpSize),
                          !.ReturnStatus = Success]
<1>1. CASE Refused /\ UNCHANGED commVars
  BY <1>1
<1>2. CASE Malformed /\ UNCHANGED data
           /\ comm' = [comm EXCEPT !.ReturnStatus = Untouched]
  <2>1. comm'.ReturnStatus = Untouched
    BY <1>2 DEF TypeOK, CommRecord
  <2> QED
    BY <1>2, <2>1
<1>3. CASE ~ Refused /\ comm.Command = GetInfo /\ SmmCoreDumpHandlerGetInfo
  BY <1>3 DEF Refused
<1>4. CASE ~ Refused /\ comm.Command = GetData /\ SmmCoreDumpHandlerGetDataByOffset
  <2>1. CASE UNCHANGED data /\ comm' = [comm EXCEPT !.ReturnStatus = AccessDenied]
    <3>1. comm'.ReturnStatus = AccessDenied
      BY <2>1 DEF TypeOK, CommRecord
    <3> QED
      BY <2>1, <3>1
  <2> QED
    BY <1>4, <2>1 DEF Refused, SmmCoreDumpHandlerGetDataByOffset
<1> QED
  BY <1>1, <1>2, <1>3, <1>4 DEF SmmCoreDumpHandler

(* The arithmetic of SmmCoreDumpCopyData for a request inside the database. *)
LEMMA PieceInside ==
  ASSUME TypeOK, comm.DumpOffset < mSmmCoreDatabaseSize
  PROVE  LET n == ReplySize(comm.DumpOffset, comm.DumpSize)
         IN  /\ n \in Nat
             /\ n <= comm.DumpSize
             /\ comm.DumpOffset + n <= mSmmCoreDatabaseSize
             /\ n = CopyLength(comm.DumpOffset, comm.DumpSize)
             /\ ReplyOffset(comm.DumpOffset, comm.DumpSize) = comm.DumpOffset + n
<1>1. comm.DumpOffset \in Nat /\ comm.DumpSize \in Nat /\ mSmmCoreDatabaseSize \in Nat
  BY DEF TypeOK, CommRecord
<1> QED
  BY <1>1 DEF ReplySize, ReplyOffset, CopyLength, PastEnd, Smaller

(* The SMI of GetInfo.                                                      *)
LEMMA InfoSmiStep == ASSUME IInv, Smi, pc = "InfoSmi" PROVE IInv'
<1> USE DEF serverVars, platformVars, appVars, commVars
<1>1. /\ TypeOK /\ SmmCoreDumpHandler /\ pc' = "GotInfo"
      /\ comm.Command = GetInfo /\ GetInfo # GetData
      /\ comm.ReturnStatus = Untouched /\ Untouched # Success
      /\ AccessDenied # Success
      /\ comm \in CommRecord
      /\ chunk > 0 /\ appDatabase = NULL
      /\ UNCHANGED <<mSmmCoreDatabase, mSmmCoreDatabaseSize, chunk, Offset,
                     assertsEnabled, registered, commInSmram, dataInSmram, appDatabase, appDatabaseSize>>
  BY DEF IInv, TypeOK, InfoInv, Smi, GetInfo, GetData, Untouched, Success,
         AccessDenied, SmmCoreDumpHandler
<1>2. /\ comm' \in CommRecord
      /\ data' = data
      /\ comm'.ReturnStatus = Success =>
           mSmmCoreDatabase # NULL /\ comm'.DumpSize = mSmmCoreDatabaseSize
  <2>1. CASE UNCHANGED commVars
    BY <1>1, <2>1
  <2>2. CASE /\ comm' = [comm EXCEPT !.ReturnStatus = comm'.ReturnStatus]
             /\ comm'.ReturnStatus \in {Untouched, AccessDenied}
             /\ UNCHANGED data
    BY <1>1, <2>2 DEF CommRecord
  <2>3. CASE mSmmCoreDatabase # NULL /\ SmmCoreDumpHandlerGetInfo
    <3>1. mSmmCoreDatabaseSize \in Nat
      BY <1>1 DEF TypeOK
    <3> QED
      BY <1>1, <2>3, <3>1 DEF SmmCoreDumpHandlerGetInfo, CommRecord
  <2> QED
    BY <1>1, <2>1, <2>2, <2>3, HandlerExits
<1>3. TypeOK'
  BY <1>1, <1>2 DEF TypeOK, PC
<1> QED
  BY <1>1, <1>2, <1>3 DEF IInv, InfoInv, TransferInv, RequestInv, ReplyInv,
                          PrefixReceived, Transferring

(* The SMI of a piece: the data buffer holds what the block now says.       *)
LEMMA DataSmiStep == ASSUME IInv, Smi, pc = "DataSmi" PROVE IInv'
<1> USE DEF serverVars, platformVars, appVars, commVars
<1>1. /\ TypeOK /\ SmmCoreDumpHandler /\ pc' = "GotData"
      /\ comm.Command = GetData /\ GetInfo # GetData
      /\ AccessDenied # Success
      /\ comm \in CommRecord
      /\ chunk > 0 /\ chunk \in Nat
      /\ data \in [0 .. chunk - 1 -> Byte]
      /\ mSmmCoreDatabase \in [0 .. mSmmCoreDatabaseSize - 1 -> Byte]
      /\ appDatabaseSize = mSmmCoreDatabaseSize /\ mSmmCoreDatabaseSize \in Nat
      /\ comm.DumpOffset = Offset /\ Offset < appDatabaseSize
      /\ comm.DumpSize <= chunk /\ Offset + comm.DumpSize <= appDatabaseSize
      /\ Offset \in Nat /\ comm.DumpSize \in Nat
      /\ UNCHANGED <<mSmmCoreDatabase, mSmmCoreDatabaseSize, chunk, Offset,
                     assertsEnabled, registered, commInSmram, dataInSmram, appDatabase, appDatabaseSize>>
  <2>1. comm.DumpSize \in Nat
    BY DEF IInv, TypeOK, CommRecord
  <2> QED
    BY <2>1 DEF IInv, TypeOK, TransferInv, RequestInv, PrefixReceived, Transferring,
         Smi, GetInfo, GetData, Success, AccessDenied, SmmCoreDumpHandler
<1> DEFINE n == ReplySize(comm.DumpOffset, comm.DumpSize)
<1>2. /\ comm' \in CommRecord
      /\ comm'.Command = GetData
      /\ data' \in [0 .. chunk - 1 -> Byte]
      /\ comm'.DumpSize <= comm.DumpSize
      /\ comm'.ReturnStatus = Success =>
           \/ comm'.DumpOffset = Offset
           \/ /\ comm'.DumpOffset = Offset + comm'.DumpSize
              /\ \A i \in 0 .. comm'.DumpSize - 1 :
                   data'[i] = mSmmCoreDatabase[Offset + i]
  <2>1. CASE UNCHANGED commVars
    BY <1>1, <2>1
  <2>2. CASE /\ comm' = [comm EXCEPT !.ReturnStatus = comm'.ReturnStatus]
             /\ comm'.ReturnStatus \in {Untouched, AccessDenied}
             /\ UNCHANGED data
    BY <1>1, <2>2 DEF CommRecord
  <2>3. CASE /\ SmmCoreDumpCopyData(comm.DumpOffset, comm.DumpSize)
             /\ comm' = [comm EXCEPT
                          !.DumpSize = ReplySize(comm.DumpOffset, comm.DumpSize),
                          !.DumpOffset = ReplyOffset(comm.DumpOffset, comm.DumpSize),
                          !.ReturnStatus = Success]
    <3>1. /\ n \in Nat /\ n <= comm.DumpSize
          /\ Offset + n <= mSmmCoreDatabaseSize
          /\ n = CopyLength(Offset, comm.DumpSize)
          /\ ReplyOffset(comm.DumpOffset, comm.DumpSize) = Offset + n
      BY <1>1, PieceInside
    <3> HIDE DEF n
    <3>2. comm' = [comm EXCEPT !.DumpSize = n, !.DumpOffset = Offset + n,
                               !.ReturnStatus = Success]
      BY <2>3, <3>1 DEF n
    <3>3. /\ comm' \in CommRecord /\ comm'.Command = GetData
          /\ comm'.DumpSize = n /\ comm'.DumpOffset = Offset + n
      <4>1. Offset + n \in Nat /\ n \in Nat
        BY <1>1, <3>1
      <4>2. comm' \in CommRecord
        BY <1>1, <3>2, <4>1 DEF CommRecord
      <4>3. comm'.Command = comm.Command /\ comm'.DumpSize = n /\ comm'.DumpOffset = Offset + n
        BY <1>1, <3>2 DEF CommRecord
      <4> QED
        BY <1>1, <4>2, <4>3
    <3>4. data' = [i \in 0 .. chunk - 1 |-> IF i < n THEN mSmmCoreDatabase[Offset + i]
                                            ELSE data[i]]
      <4>1. CopyLength(comm.DumpOffset, comm.DumpSize) = n /\ comm.DumpOffset = Offset
        BY <1>1, <3>1
      <4>2. DOMAIN data = 0 .. chunk - 1
        BY <1>1
      <4>3. data' = [i \in DOMAIN data |->
                      IF i < CopyLength(comm.DumpOffset, comm.DumpSize)
                      THEN mSmmCoreDatabase[comm.DumpOffset + i] ELSE data[i]]
        BY <2>3 DEF SmmCoreDumpCopyData
      <4> QED
        BY <4>1, <4>2, <4>3
    <3>5. \A i \in 0 .. chunk - 1 : i < n => mSmmCoreDatabase[Offset + i] \in Byte
      BY <1>1, <3>1
    <3>6. data' \in [0 .. chunk - 1 -> Byte]
      BY <1>1, <3>4, <3>5
    <3>7. \A i \in 0 .. n - 1 : data'[i] = mSmmCoreDatabase[Offset + i]
      BY <1>1, <3>1, <3>4, SMTT(40)
    <3>8. \A i \in 0 .. comm'.DumpSize - 1 : data'[i] = mSmmCoreDatabase[Offset + i]
      BY <3>3, <3>7
    <3>9. comm'.DumpSize <= comm.DumpSize /\ comm'.DumpOffset = Offset + comm'.DumpSize
      BY <3>1, <3>3
    <3> QED
      BY <3>3, <3>6, <3>8, <3>9
  <2> QED
    BY <1>1, <2>1, <2>2, <2>3, HandlerExits
<1>3. TypeOK'
  BY <1>1, <1>2 DEF TypeOK, PC
<1>4. PrefixReceived'
  BY <1>1 DEF IInv, PrefixReceived, Transferring, Received
<1>5. comm'.DumpSize \in Nat
  BY <1>2 DEF CommRecord
<1> QED
  BY <1>1, <1>2, <1>3, <1>4, <1>5
     DEF IInv, InfoInv, TransferInv, RequestInv, ReplyInv, Transferring

-----------------------------------------------------------------------------
(* Every step preserves the inductive invariant.                            *)
LEMMA NextIInv == IInv /\ [Next]_vars => IInv'
<1> SUFFICES ASSUME IInv, [Next]_vars PROVE IInv'
  OBVIOUS
<1>1. CASE LocateFails \/ NoUsableRegion \/ InfoRefused \/ Dump \/ UNCHANGED vars
  BY <1>1, EndingSteps
<1>2. CASE ChooseRegion
  BY <1>2, ChooseRegionStep
<1>3. CASE AskForInfo
  BY <1>3, AskForInfoStep
<1>4. CASE TakeInfo
  BY <1>4, TakeInfoStep
<1>5. CASE StartTransfer
  BY <1>5, StartTransferStep
<1>6. CASE AskForData
  BY <1>6, AskForDataStep
<1>7. CASE DataRefused
  BY <1>7, DataRefusedStep
<1>8. CASE TakeData
  BY <1>8, TakeDataStep
<1>9. CASE TransferDone
  BY <1>9, TransferDoneStep
<1>10. CASE Smi
  BY <1>10, InfoSmiStep, DataSmiStep DEF Smi
<1>11. CASE CommunicateFails
  BY <1>11, CommunicateFailsStep
<1> QED
  BY <1>1, <1>2, <1>3, <1>4, <1>5, <1>6, <1>7, <1>8, <1>9, <1>10, <1>11
     DEF Next, AppNext, Terminated

(* The application's and the handler's state is always well typed, and the  *)
(* invariant of the transfer holds throughout.                              *)
THEOREM Invariance == Spec => []IInv
<1> QED
  BY InitIInv, NextIInv, PTL DEF Spec

(* What has been received is, at every moment, a prefix of what the driver  *)
(* built.                                                                   *)
THEOREM PrefixCorrect == Spec => []PrefixReceived
<1>1. IInv => PrefixReceived
  BY DEF IInv
<1> QED
  BY <1>1, Invariance, PTL

(* What is printed is exactly what the driver built (DumpIsExact).          *)
THEOREM DumpCorrect == Spec => []DumpIsExact
<1>1. IInv => DumpIsExact
  <2> SUFFICES ASSUME IInv, pc \in {"Dump", "Dumped"}
               PROVE  appDatabase = mSmmCoreDatabase
    BY DEF DumpIsExact
  <2>1. /\ appDatabaseSize = mSmmCoreDatabaseSize /\ appDatabaseSize \in Nat
        /\ comm.DumpOffset \in Nat /\ comm.DumpOffset >= appDatabaseSize
        /\ appDatabase # NULL /\ mSmmCoreDatabase # NULL
        /\ \A i \in 0 .. comm.DumpOffset - 1 : appDatabase[i] = mSmmCoreDatabase[i]
    BY DEF IInv, TypeOK, CommRecord, TransferInv, PrefixReceived, Transferring, Received
  <2>2. /\ appDatabase \in [0 .. appDatabaseSize - 1 -> Byte]
        /\ mSmmCoreDatabase \in [0 .. appDatabaseSize - 1 -> Byte]
    BY <2>1 DEF IInv, TypeOK
  <2> QED
    BY <2>1, <2>2
<1> QED
  BY <1>1, Invariance, PTL

(* No CopyMem of the transfer leaves a buffer (CopyStaysInside).            *)
THEOREM CopyInside == Spec => []CopyStaysInside
<1>1. IInv => CopyStaysInside
  BY DEF IInv, RequestInv, CopyStaysInside
<1> QED
  BY <1>1, Invariance, PTL
-----------------------------------------------------------------------------
(* The refinement: what the application holds is a prefix of the database   *)
(* whose length is all that a step can change.                              *)
Reached == IF Transferring THEN Received ELSE 0

(* The copy is what the abstract specification calls a prefix.              *)
LEMMA CopyIsPrefix == IInv => Copy = Transfer!Prefix(Reached)
<1> SUFFICES ASSUME IInv PROVE Copy = Transfer!Prefix(Reached)
  OBVIOUS
<1>1. CASE Transferring
  <2>1. /\ \A i \in 0 .. Received - 1 : appDatabase[i] = mSmmCoreDatabase[i]
        /\ Reached = Received
        /\ Copy = [i \in 0 .. Received - 1 |-> appDatabase[i]]
    BY <1>1 DEF IInv, PrefixReceived, Copy, Reached
  <2> QED
    BY <2>1 DEF Transfer!Prefix
<1>2. CASE ~ Transferring
  <2>1. Reached = 0 /\ Copy = [i \in 0 .. -1 |-> Zero] /\ 0 .. -1 = {} /\ 0 .. 0 - 1 = {}
    BY <1>2 DEF Copy, Reached
  <2> QED
    BY <2>1 DEF Transfer!Prefix
<1> QED
  BY <1>1, <1>2

(* Initially the application has the empty prefix, and no outcome.          *)
LEMMA RefinementInit == Init => Transfer!Init
<1> SUFFICES ASSUME Init PROVE Transfer!Init
  OBVIOUS
<1>1. Copy = Transfer!Prefix(0)
  BY InitIInv, CopyIsPrefix DEF Init, Reached, Transferring
<1>2. Outcome = "pending"
  BY DEF Init, Outcome, Ended
<1> QED
  BY <1>1, <1>2 DEF Init, DatabaseBuilt, Transfer!Init

(* The server's database does not change: no step of either side writes it. *)
LEMMA DatabaseConstant == [Next]_vars => UNCHANGED serverVars
<1> SUFFICES ASSUME [Next]_vars PROVE UNCHANGED serverVars
  OBVIOUS
<1> QED
  BY DEF Next, AppNext, Terminated, vars, serverVars, LocateFails, ChooseRegion,
         NoUsableRegion, AskForInfo, InfoRefused, TakeInfo, StartTransfer, AskForData,
         DataRefused, TakeData, TransferDone, Dump, Smi, CommunicateFails,
         SmmCoreDumpHandler

(* Every step leaves the length and the outcome alone, or lengthens the     *)
(* prefix, or delivers, or fails.                                           *)
StepKinds ==
  \/ Reached' = Reached /\ Outcome' = Outcome
  \/ /\ Outcome = "pending" /\ Outcome' = "pending"
     /\ mSmmCoreDatabase # NULL
     /\ Reached' > Reached /\ Reached' <= mSmmCoreDatabaseSize
  \/ /\ Outcome = "pending" /\ Outcome' = "delivered"
     /\ mSmmCoreDatabase # NULL
     /\ Reached' = Reached /\ Reached = mSmmCoreDatabaseSize
  \/ Outcome = "pending" /\ Outcome' = "failed" /\ Reached' = 0

(* What a step does to the mapped state: nothing, or it extends the prefix, *)
(* delivers all of it, or drops it.                                         *)
LEMMA StepKind == IInv /\ IInv' /\ [Next]_vars => StepKinds
<1> SUFFICES ASSUME IInv, IInv', [Next]_vars PROVE StepKinds
  OBVIOUS
<1> USE DEF StepKinds, Reached, Outcome, Transferring, Received, Ended, serverVars,
            commVars, platformVars, appVars
<1>1. CASE LocateFails \/ NoUsableRegion \/ InfoRefused
  BY <1>1 DEF LocateFails, NoUsableRegion, InfoRefused
<1>2. CASE Dump \/ UNCHANGED vars
  BY <1>2 DEF Dump, vars
<1>3. CASE ChooseRegion
  BY <1>3 DEF ChooseRegion
<1>4. CASE AskForInfo
  BY <1>4 DEF AskForInfo
<1>5. CASE TakeInfo
  BY <1>5 DEF TakeInfo
<1>6. CASE StartTransfer
  BY <1>6 DEF StartTransfer, IInv, TypeOK, CommRecord
<1>7. CASE AskForData
  BY <1>7 DEF AskForData, IInv, TypeOK, CommRecord
<1>8. CASE DataRefused
  BY <1>8 DEF DataRefused
<1>9. CASE TakeData
  <2>1. comm.DumpSize \in Nat /\ comm.DumpOffset \in Nat /\ Offset \in Nat
    BY DEF IInv, TypeOK, CommRecord
  <2>2. comm.DumpOffset >= Offset
    BY <1>9, <2>1 DEF TakeData, IInv, ReplyInv
  <2>3. /\ comm' = comm /\ pc' = "Loop" /\ pc = "GotData"
        /\ mSmmCoreDatabaseSize' = mSmmCoreDatabaseSize
    BY <1>9 DEF TakeData
  <2>4. comm.DumpOffset <= mSmmCoreDatabaseSize /\ mSmmCoreDatabase # NULL
    BY <1>9, <2>3 DEF IInv, PrefixReceived, TransferInv, TakeData
  <2> QED
    BY <2>1, <2>2, <2>3, <2>4
<1>10. CASE TransferDone
  <2>1. /\ comm.DumpOffset \in Nat /\ appDatabaseSize \in Nat
        /\ comm.DumpOffset >= appDatabaseSize /\ comm.DumpOffset <= appDatabaseSize
        /\ appDatabaseSize = mSmmCoreDatabaseSize /\ mSmmCoreDatabase # NULL
        /\ pc = "Loop" /\ pc' = "Dump" /\ comm' = comm
    BY <1>10 DEF TransferDone, IInv, TypeOK, CommRecord, TransferInv, PrefixReceived
  <2> QED
    BY <2>1
<1>11. CASE Smi
  BY <1>11 DEF Smi
<1>12. CASE CommunicateFails
  BY <1>12 DEF CommunicateFails
<1> QED
  BY <1>1, <1>2, <1>3, <1>4, <1>5, <1>6, <1>7, <1>8, <1>9, <1>10, <1>11, <1>12
     DEF Next, AppNext, Terminated

(* Each of these is a step of DumpTransfer, or a stutter.                   *)
LEMMA RefinementStep ==
  IInv /\ IInv' /\ [Next]_vars => [Transfer!Next]_(Transfer!vars)
<1> SUFFICES ASSUME IInv, IInv', [Next]_vars
             PROVE  [Transfer!Next]_(Transfer!vars)
  OBVIOUS
<1>1. Copy = Transfer!Prefix(Reached)
  BY CopyIsPrefix
<1>2. (Copy = Transfer!Prefix(Reached))'
  <2>1. (IInv => Copy = Transfer!Prefix(Reached))'
    BY CopyIsPrefix, PTL
  <2> QED
    BY <2>1
<1>3. /\ mSmmCoreDatabase' = mSmmCoreDatabase
      /\ mSmmCoreDatabaseSize' = mSmmCoreDatabaseSize
  BY DatabaseConstant DEF serverVars
<1>4. Copy' = [i \in 0 .. Reached' - 1 |-> mSmmCoreDatabase[i]]
  BY <1>2, <1>3 DEF Transfer!Prefix
<1>5. Copy = [i \in 0 .. Reached - 1 |-> mSmmCoreDatabase[i]]
  BY <1>1 DEF Transfer!Prefix
<1>6. Reached \in Nat /\ Reached' \in Nat /\ mSmmCoreDatabaseSize \in Nat
  BY DEF IInv, TypeOK, CommRecord, Reached, Received
<1> HIDE DEF Reached, Copy, Outcome
<1>7. CASE Reached' = Reached /\ Outcome' = Outcome
  BY <1>3, <1>4, <1>5, <1>7 DEF Transfer!vars
<1>8. CASE /\ Outcome = "pending" /\ Outcome' = "pending"
           /\ mSmmCoreDatabase # NULL
           /\ Reached' > Reached /\ Reached' <= mSmmCoreDatabaseSize
  <2>1. Reached' \in 1 .. mSmmCoreDatabaseSize
    BY <1>6, <1>8
  <2>2. DOMAIN Copy = 0 .. Reached - 1 /\ DOMAIN Copy' = 0 .. Reached' - 1
    BY <1>4, <1>5
  <2>3. DOMAIN Copy \subseteq DOMAIN Copy'
    <3>1. \A m, n \in Nat : n > m => 0 .. m - 1 \subseteq 0 .. n - 1
      OBVIOUS
    <3> QED
      BY <1>6, <1>8, <2>2, <3>1
  <2>4. Copy' = Transfer!Prefix(Reached')
    BY <1>4 DEF Transfer!Prefix
  <2>5. Transfer!Receive
    BY <1>3, <1>8, <2>1, <2>3, <2>4 DEF Transfer!Receive
  <2> QED
    BY <2>5 DEF Transfer!Next
<1>9. CASE /\ Outcome = "pending" /\ Outcome' = "delivered"
           /\ mSmmCoreDatabase # NULL
           /\ Reached' = Reached /\ Reached = mSmmCoreDatabaseSize
  <2>1. Copy = Transfer!Prefix(mSmmCoreDatabaseSize) /\ Copy' = Copy
    BY <1>1, <1>4, <1>5, <1>9
  <2>2. Transfer!Deliver
    BY <1>3, <1>9, <2>1 DEF Transfer!Deliver
  <2> QED
    BY <2>2 DEF Transfer!Next
<1>10. CASE Outcome = "pending" /\ Outcome' = "failed" /\ Reached' = 0
  <2>1. Copy' = Transfer!Prefix(0)
    BY <1>4, <1>10 DEF Transfer!Prefix
  <2>2. Transfer!Fail
    BY <1>3, <1>10, <2>1 DEF Transfer!Fail
  <2> QED
    BY <2>2 DEF Transfer!Next
<1> QED
  BY <1>7, <1>8, <1>9, <1>10, StepKind DEF StepKinds

(* The application and the handler implement DumpTransfer, its liveness     *)
(* aside: initial states map to initial states and every step to a step of  *)
(* DumpTransfer or to a stutter.                                            *)
THEOREM Refinement == Spec => Transfer!Init /\ [][Transfer!Next]_(Transfer!vars)
<1> QED
  BY Invariance, RefinementInit, RefinementStep, PTL DEF Spec

(***************************************************************************)
(* The handler with any caller                                             *)
(***************************************************************************)

USE CapacitiesAssumption

(* The initial states satisfy the inductive invariant.                      *)
LEMMA ServerInitIInv == ServerInit => ServerIInv
<1> SUFFICES ASSUME ServerInit PROVE ServerIInv
  OBVIOUS
<1>1. PICK n \in Capacities, b \in Byte : data = [i \in 0 .. n - 1 |-> b]
  BY DEF ServerInit
<1>2. BlocksOK
  BY <1>1 DEF ServerInit, BlocksOK, DatabaseBuilt, CommRecord, NoCommand, GetInfo,
              GetData, Untouched, Success, AccessDenied, SizeOfGetInfo
<1> QED
  BY <1>2 DEF ServerInit, ServerIInv, BufferHoldsRequest, BlockIsAsAsked, ReplyIsSlice,
              DataServed, GetInfo, GetData, Untouched, Success

(* A caller writes a block of its own, sized for its buffer.                *)
LEMMA AskStep == ASSUME ServerIInv, Ask PROVE ServerIInv'
<1>1. PICK n \in Capacities : DOMAIN data = 0 .. n - 1 /\ comm' \in BlocksFor(n)
  BY DEF Ask
<1>2. /\ comm' \in CommRecord
      /\ comm'.DumpSize <= n
      /\ comm'.ReturnStatus = Untouched
  BY <1>1, SMTT(30) DEF ServerIInv, BlocksOK, BlocksFor, Lengths, CommRecord, SizeOfHeader,
                        SizeOfGetInfo, SizeOfGetData
<1>3. BlocksOK' /\ BufferHoldsRequest'
  BY <1>1, <1>2 DEF ServerIInv, BlocksOK, BufferHoldsRequest, Ask
<1> QED
  BY <1>2, <1>3 DEF ServerIInv, BlockIsAsAsked, ReplyIsSlice, DataServed, Ask

(* A caller goes on with the block the handler left.                        *)
LEMMA AskOnStep == ASSUME ServerIInv, AskOn PROVE ServerIInv'
<1>1. comm' \in CommRecord /\ comm'.ReturnStatus = Untouched
      /\ comm'.Command = comm.Command /\ comm'.DumpSize = comm.DumpSize
  BY DEF ServerIInv, BlocksOK, CommRecord, AskOn
<1>2. BlocksOK' /\ BufferHoldsRequest'
  BY <1>1 DEF ServerIInv, BlocksOK, BufferHoldsRequest, AskOn
<1> QED
  BY <1>1, <1>2 DEF ServerIInv, BlockIsAsAsked, ReplyIsSlice, DataServed, AskOn

(* What SmmCoreDumpCopyData does, wherever the offset lies: it moves a      *)
(* number of bytes that is at most what was asked, inside the database, and *)
(* fewer only when that reaches the end.                                    *)
LEMMA CopyArithmetic ==
  ASSUME NEW off \in Nat, NEW n \in Nat, mSmmCoreDatabaseSize \in Nat
  PROVE  /\ ReplySize(off, n) \in Nat /\ ReplySize(off, n) <= n
         /\ ReplyOffset(off, n) \in Nat
         /\ CopyLength(off, n) \in Nat
         /\ ReplyOffset(off, n) - off <= CopyLength(off, n)
         /\ CopyLength(off, n) <= n
         /\ ReplyOffset(off, n) - off < n => ReplyOffset(off, n) = mSmmCoreDatabaseSize
  BY DEF ReplySize, ReplyOffset, CopyLength, PastEnd, Smaller

(* The SMI, exit by exit of the handler.                                    *)
LEMMA ServeStep == ASSUME ServerIInv, Serve PROVE ServerIInv'
<1> DEFINE off == comm.DumpOffset
           size == comm.DumpSize
<1>1. /\ comm \in CommRecord /\ comm = asked /\ comm.ReturnStatus = Untouched
      /\ calling' = FALSE /\ asked' = asked
      /\ mSmmCoreDatabaseSize' = mSmmCoreDatabaseSize
      /\ mSmmCoreDatabase' = mSmmCoreDatabase
      /\ SmmCoreDumpHandler
  BY DEF ServerIInv, BlocksOK, BlockIsAsAsked, Serve, SmmCoreDumpHandler, serverVars
<1>2. CASE \/ UNCHANGED commVars
           \/ /\ comm' = [comm EXCEPT !.ReturnStatus = Untouched]
              /\ UNCHANGED data
           \/ /\ comm' = [comm EXCEPT !.ReturnStatus = AccessDenied]
              /\ UNCHANGED data
  <2>1. /\ comm' \in CommRecord /\ data' = data
        /\ comm'.Command = comm.Command /\ comm'.DumpSize = comm.DumpSize
        /\ comm'.ReturnStatus # Success
    BY <1>1, <1>2 DEF CommRecord, commVars, Untouched, AccessDenied, Success
  <2>2. BlocksOK' /\ BufferHoldsRequest'
    BY <1>1, <2>1 DEF ServerIInv, BlocksOK, BufferHoldsRequest
  <2> QED
    BY <1>1, <2>1, <2>2 DEF ServerIInv, BlockIsAsAsked, ReplyIsSlice, DataServed
<1>3. CASE comm.Command = GetInfo /\ SmmCoreDumpHandlerGetInfo
  <2>1. /\ comm' \in CommRecord /\ data' = data /\ comm'.Command = GetInfo
    BY <1>1, <1>3 DEF ServerIInv, BlocksOK, CommRecord, SmmCoreDumpHandlerGetInfo
  <2>2. BlocksOK' /\ BufferHoldsRequest'
    BY <1>1, <2>1 DEF ServerIInv, BlocksOK, BufferHoldsRequest, GetInfo, GetData
  <2> QED
    BY <1>1, <1>3, <2>1, <2>2 DEF ServerIInv, BlockIsAsAsked, ReplyIsSlice, DataServed,
                                  GetInfo, GetData
<1>4. CASE /\ comm.Command = GetData
           /\ SmmCoreDumpCopyData(off, size)
           /\ comm' = [comm EXCEPT !.DumpSize = ReplySize(off, size),
                                   !.DumpOffset = ReplyOffset(off, size),
                                   !.ReturnStatus = Success]
  <2>1. PICK n \in Capacities : DOMAIN data = 0 .. n - 1 /\ size <= n
    BY <1>4 DEF ServerIInv, BufferHoldsRequest
  <2>2. off \in Nat /\ size \in Nat /\ mSmmCoreDatabaseSize \in Nat
    BY <1>1 DEF ServerIInv, BlocksOK, CommRecord
  <2>3. /\ ReplySize(off, size) \in Nat /\ ReplySize(off, size) <= size
        /\ ReplyOffset(off, size) \in Nat
        /\ CopyLength(off, size) \in Nat
        /\ ReplyOffset(off, size) - off <= CopyLength(off, size)
        /\ CopyLength(off, size) <= size
        /\ ReplyOffset(off, size) - off < size
             => ReplyOffset(off, size) = mSmmCoreDatabaseSize
    BY <2>2, CopyArithmetic
  <2>4. /\ comm' \in CommRecord
        /\ comm'.Command = GetData
        /\ comm'.DumpSize = ReplySize(off, size)
        /\ comm'.DumpOffset = ReplyOffset(off, size)
    BY <1>1, <1>4, <2>3 DEF CommRecord, Success
  <2>5. data' = [i \in DOMAIN data |-> IF i < CopyLength(off, size)
                                       THEN mSmmCoreDatabase[off + i] ELSE data[i]]
    BY <1>4 DEF SmmCoreDumpCopyData
  <2>6. BlocksOK' /\ BufferHoldsRequest'
    <3>1. DOMAIN data' = 0 .. n - 1 /\ comm'.DumpSize <= n
      BY <2>1, <2>2, <2>3, <2>4, <2>5
    <3> QED
      BY <1>1, <2>1, <2>4, <3>1 DEF ServerIInv, BlocksOK, BufferHoldsRequest
  <2>7. ReplyIsSlice'
    <3> DEFINE moved == ReplyOffset(off, size) - off
    <3>1. \A i \in 0 .. moved - 1 : data'[i] = mSmmCoreDatabase[off + i]
      <4> SUFFICES ASSUME NEW i \in 0 .. moved - 1
                   PROVE  data'[i] = mSmmCoreDatabase[off + i]
        OBVIOUS
      <4>1. i \in DOMAIN data /\ i < CopyLength(off, size)
        BY <2>1, <2>2, <2>3
      <4> QED
        BY <2>5, <4>1
    <3>2. asked'.DumpOffset = off /\ asked'.DumpSize = size
      BY <1>1
    <3> QED
      BY <1>1, <2>2, <2>3, <2>4, <3>1, <3>2 DEF ReplyIsSlice
  <2> QED
    BY <1>1, <2>6, <2>7 DEF ServerIInv, BlockIsAsAsked
<1> QED
  BY <1>1, <1>2, <1>3, <1>4 DEF SmmCoreDumpHandler, SmmCoreDumpHandlerGetDataByOffset

(* Every step of caller and handler preserves it.                           *)
LEMMA ServerNextIInv == ServerIInv /\ [ServerNext]_callerVars => ServerIInv'
<1> SUFFICES ASSUME ServerIInv, [ServerNext]_callerVars PROVE ServerIInv'
  OBVIOUS
<1>1. CASE UNCHANGED callerVars
  BY <1>1 DEF callerVars, ServerIInv, BlocksOK, BufferHoldsRequest, BlockIsAsAsked, ReplyIsSlice,
              DataServed
<1> QED
  BY <1>1, AskStep, AskOnStep, ServeStep DEF ServerNext

(* However the requests follow each other, a successful reply to GET_DATA   *)
(* has moved the bytes of the database between the two offsets, in front of *)
(* the buffer, and fewer than asked only at the end: SmmCoreDumpCopyData.   *)
THEOREM ReplyCorrect == ServerSpec => []ReplyIsSlice
<1>1. ServerIInv => ReplyIsSlice
  BY DEF ServerIInv
<1> QED
  BY <1>1, ServerInitIInv, ServerNextIInv, PTL DEF ServerSpec
=============================================================================
