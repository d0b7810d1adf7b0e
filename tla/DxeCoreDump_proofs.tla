------------------------- MODULE DxeCoreDump_proofs -------------------------
(***************************************************************************)
(* What DxeCoreDump promises whatever lists the core has and whatever its  *)
(* callbacks do, for any number of handles, protocols and events and for   *)
(* any number of callbacks.                                                *)
(***************************************************************************)
EXTENDS DxeCoreDump, Sublists_proofs

(***************************************************************************)
(* The operations on lists, by the nodes that are on them                  *)
(***************************************************************************)

LEMMA AppendNewMembers ==
  ASSUME NEW S, NEW s \in Seq(S), NEW e \in S
  PROVE  AppendNew(s, e) \in Seq(S) /\ ToSet(AppendNew(s, e)) = ToSet(s) \cup {e}
BY AppendMembers DEF AppendNew

LEMMA InsertionsMembers ==
  ASSUME NEW S, NEW s \in Seq(S), NEW e \in S, NEW t \in Insertions(s, e)
  PROVE  t \in Seq(S) /\ ToSet(t) = ToSet(s) \cup {e}
BY InsertionMembers DEF Insertions

(* The nodes of each list.                                                  *)
Members(l) ==
  CASE l[1] = "handles" -> ToSet(handles)
    [] l[1] = "on" -> {i \in ToSet(ifaces) : i[1] = l[2]}
    [] l[1] = "protocols" -> ToSet(protocols)
    [] l[1] = "by" -> {i \in ToSet(byProtocol) : i[2] = l[2]}
    [] l[1] = "notify" -> {i \in ToSet(notifies) : i[1] = l[2]}
    [] l[1] = "signals" -> ToSet(signals)
    [] l[1] = "timers" -> ToSet(timers)

ListsAreTyped ==
  \A l \in ListNames :
    /\ List(l) \in Seq(NodesIn(l)) /\ ToSet(List(l)) = Members(l)
    /\ Members(l) \subseteq NodesIn(l) /\ NodesIn(l) \subseteq ListedNodes

(* The kinds of names.                                                      *)
LEMMA ListNameCases ==
  ASSUME NEW l \in ListNames
  PROVE  \/ l = <<"handles">> \/ l = <<"protocols">> \/ l = <<"signals">> \/ l = <<"timers">>
         \/ \E h \in Handles : l = <<"on", h>>
         \/ \E p \in Protocols : l = <<"by", p>>
         \/ \E p \in Protocols : l = <<"notify", p>>
BY DEF ListNames, Phases

(* The dummy event is in no list.                                           *)
Settled == pc \notin {"created", "found"}

LEMMA SettledLists ==
  ASSUME TypeOK, Settled
  PROVE  signals \in Seq(Events) /\ timers \in Seq(Events)
BY DEF TypeOK, Settled, EventsIn

LEMMA ListMembers == TypeOK /\ Settled => ListsAreTyped
<1> SUFFICES ASSUME TypeOK, Settled, NEW l \in ListNames
             PROVE  /\ List(l) \in Seq(NodesIn(l)) /\ ToSet(List(l)) = Members(l)
                    /\ Members(l) \subseteq NodesIn(l) /\ NodesIn(l) \subseteq ListedNodes
  BY DEF ListsAreTyped
<1>1. CASE l = <<"handles">>
  <2>1. List(l) = handles /\ NodesIn(l) = Handles /\ Members(l) = ToSet(handles)
    BY <1>1 DEF List, NodesIn, Members
  <2> QED
    BY <2>1, MembersOfSeq DEF TypeOK, ListedNodes
<1>2. CASE l = <<"protocols">>
  <2>1. List(l) = protocols /\ NodesIn(l) = Protocols /\ Members(l) = ToSet(protocols)
    BY <1>2 DEF List, NodesIn, Members
  <2> QED
    BY <2>1, MembersOfSeq DEF TypeOK, ListedNodes
<1>3. CASE l = <<"signals">>
  <2>1. List(l) = Reverse(signals) /\ NodesIn(l) = Events /\ Members(l) = ToSet(signals)
    BY <1>3 DEF List, NodesIn, Members, ByBackLink
  <2> QED
    BY <2>1, SettledLists, MembersOfSeq, ReverseMembers DEF ListedNodes
<1>4. CASE l = <<"timers">>
  <2>1. List(l) = Reverse(timers) /\ NodesIn(l) = Events /\ Members(l) = ToSet(timers)
    BY <1>4 DEF List, NodesIn, Members, ByBackLink
  <2> QED
    BY <2>1, SettledLists, MembersOfSeq, ReverseMembers DEF ListedNodes
<1> DEFINE I == Handles \X Protocols
           N == Protocols \X Events
<1>5. /\ ifaces \in Seq(I) /\ ToSet(ifaces) \subseteq I
      /\ byProtocol \in Seq(I) /\ ToSet(byProtocol) \subseteq I
      /\ notifies \in Seq(N) /\ ToSet(notifies) \subseteq N
  BY MembersOfSeq DEF TypeOK
<1>6. CASE \E h \in Handles : l = <<"on", h>>
  <2>1. PICK h \in Handles : l = <<"on", h>>
    BY <1>6
  <2> DEFINE K == {h} \X Protocols
             w == Where(ifaces, K)
  <2>2. NodesIn(l) = I /\ Members(l) = {i \in ToSet(ifaces) : i[1] = h} /\ List(l) = Reverse(w)
    BY <2>1 DEF List, NodesIn, Members
  <2>3. {i \in ToSet(ifaces) : i[1] = h} = ToSet(ifaces) \cap K
    BY <1>5
  <2> HIDE DEF I, N, K
  <2>4. w \in Seq(I) /\ ToSet(w) = ToSet(ifaces) \cap K
    BY <1>5, WhereMembers
  <2> HIDE DEF w
  <2>5. Reverse(w) \in Seq(I) /\ ToSet(Reverse(w)) = ToSet(w)
    BY <2>4, ReverseMembers
  <2> QED
    BY <1>5, <2>2, <2>3, <2>4, <2>5 DEF ListedNodes, I
<1>7. CASE \E p \in Protocols : l = <<"by", p>>
  <2>1. PICK p \in Protocols : l = <<"by", p>>
    BY <1>7
  <2> DEFINE K == Handles \X {p}
             w == Where(byProtocol, K)
  <2>2. NodesIn(l) = I /\ Members(l) = {i \in ToSet(byProtocol) : i[2] = p} /\ List(l) = w
    BY <2>1 DEF List, NodesIn, Members
  <2>3. {i \in ToSet(byProtocol) : i[2] = p} = ToSet(byProtocol) \cap K
    BY <1>5
  <2> HIDE DEF I, N, K
  <2>4. w \in Seq(I) /\ ToSet(w) = ToSet(byProtocol) \cap K
    BY <1>5, WhereMembers
  <2> HIDE DEF w
  <2> QED
    BY <1>5, <2>2, <2>3, <2>4 DEF ListedNodes, I
<1>8. CASE \E p \in Protocols : l = <<"notify", p>>
  <2>1. PICK p \in Protocols : l = <<"notify", p>>
    BY <1>8
  <2> DEFINE K == {p} \X Events
             w == Where(notifies, K)
  <2>2. NodesIn(l) = N /\ Members(l) = {i \in ToSet(notifies) : i[1] = p} /\ List(l) = w
    BY <2>1 DEF List, NodesIn, Members
  <2>3. {i \in ToSet(notifies) : i[1] = p} = ToSet(notifies) \cap K
    BY <1>5
  <2> HIDE DEF I, N, K
  <2>4. w \in Seq(N) /\ ToSet(w) = ToSet(notifies) \cap K
    BY <1>5, WhereMembers
  <2> HIDE DEF w
  <2> QED
    BY <1>5, <2>2, <2>3, <2>4 DEF ListedNodes, N
<1> QED
  BY ListNameCases, <1>1, <1>2, <1>3, <1>4, <1>6, <1>7, <1>8

LEMMA WalkLists ==
  ASSUME IInv, pc = "walk"
  PROVE  /\ ListsAreTyped /\ TypeOK /\ ImagesStay
         /\ LinksGoOn /\ (\A k \in DOMAIN left : left[k] # NULL => HasLink(k[1], left[k]))
         /\ signals \in Seq(Events) /\ timers \in Seq(Events)
BY ListMembers, SettledLists DEF IInv, Settled, LinksGoOn

(* The node after n in its list is one of the list, or the head.            *)
LEMMA AfterType ==
  ASSUME NEW S, NEW s \in Seq(S), NEW n, n = ListHead \/ n \in ToSet(s)
  PROVE  After(s, n) \in ToSet(s) \cup {ListHead}
<1> DEFINE i == IF n = ListHead THEN 0 ELSE CHOOSE j \in DOMAIN s : s[j] = n
           L == Len(s)
<1>1. L \in Nat /\ DOMAIN s = 1 .. L
  OBVIOUS
<1>2. i \in 0 .. L
  <2>1. CASE n = ListHead
    BY <1>1, <2>1
  <2>2. CASE n # ListHead /\ n \in ToSet(s)
    <3>1. \E j \in DOMAIN s : s[j] = n
      BY <2>2 DEF ToSet
    <3>2. i = CHOOSE j \in DOMAIN s : s[j] = n
      BY <2>2
    <3>3. i \in DOMAIN s
      BY <3>1, <3>2
    <3> QED
      BY <1>1, <3>3
  <2> QED
    BY <2>1, <2>2
<1>3. After(s, n) = IF i = L THEN ListHead ELSE s[i + 1]
  BY DEF After
<1> HIDE DEF i, L
<1>4. i # L => i + 1 \in DOMAIN s
  BY <1>1, <1>2
<1>5. \A j \in DOMAIN s : s[j] \in ToSet(s)
  BY DEF ToSet
<1> QED
  BY <1>3, <1>4, <1>5

(* A cursor with a link goes on to a node of its list, or to its end, or    *)
(* has a link that has been zeroed.                                         *)
LEMMA NextOfType ==
  ASSUME IInv, pc = "walk", NEW l \in ListNames, NEW n, HasLink(l, n)
  PROVE  /\ NextOf(l, n) \in NodesIn(l) \cup {ListHead, NULL}
         /\ NextOf(l, n) # NULL => HasLink(l, NextOf(l, n))
<1> DEFINE s == List(l)
           S == NodesIn(l)
<1>1. s \in Seq(S) /\ ToSet(s) \subseteq S
  BY WalkLists DEF ListsAreTyped
<1>2. CASE n = ListHead \/ n \in ToSet(s)
  <2>1. NextOf(l, n) = After(s, n)
    BY <1>2 DEF NextOf, OnList
  <2> HIDE DEF s, S
  <2>2. After(s, n) \in ToSet(s) \cup {ListHead}
    BY <1>1, <1>2, AfterType
  <2> QED
    BY <1>1, <2>1, <2>2 DEF S, s, HasLink, OnList
<1>3. CASE ~(n = ListHead \/ n \in ToSet(s))
  <2>1. <<l, n>> \in DOMAIN left /\ NextOf(l, n) = left[<<l, n>>]
    BY <1>3 DEF HasLink, OnList, NextOf
  <2> QED
    BY <2>1, WalkLists DEF TypeOK, LinksLead
<1> QED
  BY <1>2, <1>3

(***************************************************************************)
(* Callbacks                                                               *)
(***************************************************************************)

(* What a callback takes off a list keeps a link.                           *)
KeepsLinks ==
  /\ DOMAIN left \subseteq DOMAIN left'
  /\ \A k \in DOMAIN left' : left'[k] # NULL => HasLink(k[1], left'[k])
  /\ \A l \in ListNames : \A n \in Members(l) : n \in Members(l)' \/ <<l, n>> \in DOMAIN left'

LEMMA LinksType ==
  ASSUME IInv, pc = "walk", NEW off, left' = Links(off),
         \A k \in off : k \in ListNames \X ListedNodes /\ k[2] \in Members(k[1])
  PROVE  /\ LinksLead' /\ DOMAIN left' = off \cup DOMAIN left
         /\ \A k \in DOMAIN left' : left'[k] # NULL => HasLink(k[1], left'[k])
<1>1. left' = [k \in off \cup DOMAIN left |->
                 IF k \in off THEN After(List(k[1]), k[2]) ELSE left[k]]
  BY DEF Links
<1>2. ASSUME NEW k \in off
      PROVE  /\ After(List(k[1]), k[2]) \in NodesIn(k[1]) \cup {ListHead}
             /\ HasLink(k[1], After(List(k[1]), k[2]))
  <2> DEFINE l == k[1]
             s == List(l)
             S == NodesIn(l)
  <2>1. s \in Seq(S) /\ ToSet(s) \subseteq S /\ k[2] \in ToSet(s)
    BY WalkLists DEF ListsAreTyped
  <2> HIDE DEF s, S
  <2>2. After(s, k[2]) \in ToSet(s) \cup {ListHead}
    BY <2>1, AfterType
  <2> QED
    BY <2>1, <2>2 DEF s, S, HasLink, OnList
<1>3. DOMAIN left \subseteq ListNames \X ListedNodes
      /\ \A k \in DOMAIN left :
           /\ left[k] \in NodesIn(k[1]) \cup {ListHead, NULL}
           /\ left[k] # NULL => HasLink(k[1], left[k])
  BY WalkLists DEF TypeOK, LinksLead
<1>4. DOMAIN left' = off \cup DOMAIN left
  BY <1>1
<1>5. ASSUME NEW k \in DOMAIN left'
      PROVE  /\ left'[k] \in NodesIn(k[1]) \cup {ListHead, NULL}
             /\ left'[k] # NULL => HasLink(k[1], left'[k])
  <2>1. left'[k] = IF k \in off THEN After(List(k[1]), k[2]) ELSE left[k]
    BY <1>1, <1>4
  <2>2. CASE k \in off
    BY <1>2, <2>1, <2>2
  <2>3. CASE k \notin off
    BY <1>3, <1>4, <2>1, <2>3
  <2> QED
    BY <2>2, <2>3
<1>6. DOMAIN left' \subseteq ListNames \X ListedNodes
  BY <1>3, <1>4
<1> QED
  BY <1>4, <1>5, <1>6 DEF LinksLead

LEMMA LinksStay ==
  ASSUME TypeOK, TypeOK', pc = "walk", pc' = "walk", KeepsLinks,
         NEW l \in ListNames, NEW n, HasLink(l, n)
  PROVE  n = ListHead \/ n \in ToSet(List(l)') \/ <<l, n>> \in DOMAIN left'
<1>0. Settled /\ Settled'
  BY DEF Settled
<1>1. ListsAreTyped /\ ListsAreTyped'
  BY <1>0, ListMembers, PTL
<1>2. ToSet(List(l)) = Members(l) /\ ToSet(List(l)') = Members(l)'
  BY <1>1 DEF ListsAreTyped
<1> QED
  BY <1>2 DEF HasLink, OnList, KeepsLinks

(* A callback that keeps links, and the images, keeps the invariant.        *)
LEMMA CallbackStep ==
  ASSUME IInv, Callback, TypeOK', ImagesStay', KeepsLinks
  PROVE  IInv'
<1>1. /\ pc = "walk" /\ pc' = pc /\ phase' = phase /\ heads' = heads /\ created' = created
      /\ mImageStruct' = mImageStruct /\ at' = at /\ inner' = inner /\ sub' = sub
      /\ named' = named /\ failed' = failed
  BY DEF Callback, Walking, cursor
<1>2. <<phase>> \in ListNames /\ inner \in Seq(ListNames)
  BY DEF IInv, TypeOK, ListNames
<1>2a. LinksGoOn'
  <2>1. ASSUME NEW k \in DOMAIN left', left'[k] # NULL PROVE HasLink(k[1], left[k])'
    <3>1. k[1] \in ListNames /\ HasLink(k[1], left'[k])
      BY <2>1 DEF KeepsLinks, TypeOK, LinksLead
    <3> QED
      BY <1>1, <3>1, LinksStay DEF IInv, HasLink, OnList
  <2> QED
    BY <2>1 DEF LinksGoOn
<1>3. HasLink(<<phase>>, at)'
  BY <1>1, <1>2, LinksStay DEF IInv, CursorsHaveLinks, HasLink, OnList
<1>3a. DummyIsThere' /\ HeadsFound' /\ NamesAreFixed'
  BY <1>1 DEF IInv, DummyIsThere, HeadsFound, NamesAreFixed, AddressToImageName,
     AddressToImageNameEx
<1>4. CASE inner = <<>>
  BY <1>1, <1>2a, <1>3, <1>3a, <1>4 DEF IInv, CursorsHaveLinks
<1>5. CASE inner # <<>>
  <2>1. Head(inner) \in ListNames
    BY <1>2, <1>5, HeadTailProperties
  <2> DEFINE l == Head(inner)
  <2>1a. l \in ListNames /\ HasLink(l, sub)
    BY <1>1, <1>5, <2>1 DEF IInv, CursorsHaveLinks
  <2> HIDE DEF l
  <2>2. HasLink(l, sub)'
    BY <1>1, <2>1a, LinksStay DEF IInv, HasLink, OnList, l
  <2>3. HasLink(Head(inner), sub)'
    BY <1>1, <2>2 DEF l
  <2> QED
    BY <1>1, <1>2a, <1>3, <1>3a, <1>5, <2>3 DEF IInv, CursorsHaveLinks
<1> QED
  BY <1>4, <1>5

(* List by list.                                                            *)
LEMMA KeepsLinksByList ==
  ASSUME DOMAIN left \subseteq DOMAIN left',
         \A k \in DOMAIN left' : left'[k] # NULL => HasLink(k[1], left'[k]),
         ToSet(byProtocol) = ToSet(ifaces), ToSet(byProtocol') = ToSet(ifaces'),
         \A n \in ToSet(handles) : n \in ToSet(handles') \/ <<<<"handles">>, n>> \in DOMAIN left',
         ToSet(protocols) \subseteq ToSet(protocols'),
         \A i \in ToSet(ifaces) :
           \/ i \in ToSet(ifaces')
           \/ {<<<<"on", i[1]>>, i>>, <<<<"by", i[2]>>, i>>} \subseteq DOMAIN left',
         \A n \in ToSet(notifies) :
           n \in ToSet(notifies') \/ <<<<"notify", n[1]>>, n>> \in DOMAIN left',
         \A e \in ToSet(signals) : e \in ToSet(signals') \/ <<<<"signals">>, e>> \in DOMAIN left',
         \A e \in ToSet(timers) : e \in ToSet(timers') \/ <<<<"timers">>, e>> \in DOMAIN left'
  PROVE  KeepsLinks
<1> SUFFICES ASSUME NEW l \in ListNames, NEW n \in Members(l)
             PROVE  n \in Members(l)' \/ <<l, n>> \in DOMAIN left'
  BY DEF KeepsLinks
<1>1. CASE l = <<"handles">> \/ l = <<"protocols">> \/ l = <<"signals">> \/ l = <<"timers">>
  <2>1. CASE l = <<"handles">>
    BY <2>1 DEF Members
  <2>2. CASE l = <<"protocols">>
    BY <2>2 DEF Members
  <2>3. CASE l = <<"signals">>
    BY <2>3 DEF Members
  <2>4. CASE l = <<"timers">>
    BY <2>4 DEF Members
  <2> QED
    BY <1>1, <2>1, <2>2, <2>3, <2>4
<1>2. CASE \E h \in Handles : l = <<"on", h>>
  <2>1. PICK h \in Handles : l = <<"on", h>>
    BY <1>2
  <2>2. n \in ToSet(ifaces) /\ n[1] = h
    BY <2>1 DEF Members
  <2>3. CASE n \in ToSet(ifaces')
    BY <2>1, <2>2, <2>3 DEF Members
  <2>4. CASE {<<<<"on", n[1]>>, n>>, <<<<"by", n[2]>>, n>>} \subseteq DOMAIN left'
    BY <2>1, <2>2, <2>4
  <2> QED
    BY <2>2, <2>3, <2>4
<1>3. CASE \E p \in Protocols : l = <<"by", p>>
  <2>1. PICK p \in Protocols : l = <<"by", p>>
    BY <1>3
  <2>2. n \in ToSet(ifaces) /\ n[2] = p
    BY <2>1 DEF Members
  <2>3. CASE n \in ToSet(ifaces')
    BY <2>1, <2>2, <2>3 DEF Members
  <2>4. CASE {<<<<"on", n[1]>>, n>>, <<<<"by", n[2]>>, n>>} \subseteq DOMAIN left'
    BY <2>1, <2>2, <2>4
  <2> QED
    BY <2>2, <2>3, <2>4
<1>4. CASE \E p \in Protocols : l = <<"notify", p>>
  <2>1. PICK p \in Protocols : l = <<"notify", p>>
    BY <1>4
  <2>2. n \in ToSet(notifies) /\ n[1] = p
    BY <2>1 DEF Members
  <2>3. CASE n \in ToSet(notifies')
    BY <2>1, <2>2, <2>3 DEF Members
  <2> QED
    BY <2>1, <2>2, <2>3
<1> QED
  BY <1>1, <1>2, <1>3, <1>4, ListNameCases

LEMMA InstallProtocolStep == ASSUME IInv, InstallProtocol PROVE IInv'
<1>1. PICK h \in Handles, p \in Protocols :
        /\ handles' = AppendNew(handles, h)
        /\ protocols' = AppendNew(protocols, p)
        /\ ifaces' = Append(ifaces, <<h, p>>) /\ byProtocol' = Append(byProtocol, <<h, p>>)
  BY DEF InstallProtocol
<1> DEFINE S == Handles \X Protocols
           i == <<h, p>>
<1>2. /\ handles \in Seq(Handles) /\ protocols \in Seq(Protocols)
      /\ ifaces \in Seq(S) /\ byProtocol \in Seq(S) /\ i \in S
      /\ ifaces' = Append(ifaces, i) /\ byProtocol' = Append(byProtocol, i)
  BY <1>1 DEF IInv, TypeOK
<1>2a. pc = "walk" /\ pc' = "walk"
  BY DEF InstallProtocol, Callback, Walking
<1>3. /\ handles' \in Seq(Handles) /\ ToSet(handles') = ToSet(handles) \cup {h}
      /\ protocols' \in Seq(Protocols) /\ ToSet(protocols') = ToSet(protocols) \cup {p}
  BY <1>1, <1>2, AppendNewMembers, SMTT(40)
<1>4. /\ ifaces' \in Seq(S) /\ ToSet(ifaces') = ToSet(ifaces) \cup {i}
      /\ byProtocol' \in Seq(S) /\ ToSet(byProtocol') = ToSet(byProtocol) \cup {i}
  <2> HIDE DEF S, i
  <2> QED
    BY <1>2, AppendMembers
<1>5. /\ notifies' = notifies /\ signals' = signals /\ timers' = timers /\ events' = events
      /\ left' = left
  BY DEF InstallProtocol
<1>6. TypeOK'
  BY <1>2a, <1>3, <1>4, <1>5 DEF IInv, TypeOK, LinksLead, EventsIn, InstallProtocol, Callback, cursor
<1>7. ImagesStay'
  BY <1>3, <1>4 DEF IInv, ImagesStay
<1>8. KeepsLinks
  BY <1>2a, <1>3, <1>4, <1>5, <1>7, KeepsLinksByList, WalkLists DEF ImagesStay
<1> QED
  BY <1>6, <1>7, <1>8, CallbackStep DEF InstallProtocol

(* A reinstalled interface is on the same lists as before.                  *)
LEMMA ReinstallProtocolStep == ASSUME IInv, ReinstallProtocol PROVE IInv'
<1>1. PICK i \in ToSet(ifaces) : byProtocol' = Append(Remaining(byProtocol, {i}), i)
  BY DEF ReinstallProtocol
<1> DEFINE I == Handles \X Protocols
           r == Remaining(byProtocol, {i})
<1>2. byProtocol \in Seq(I) /\ i \in I /\ ToSet(byProtocol) = ToSet(ifaces)
  BY MembersOfSeq DEF IInv, TypeOK, ImagesStay
<1>2a. pc = "walk" /\ pc' = "walk"
  BY DEF ReinstallProtocol, Callback, Walking
<1>3. byProtocol' \in Seq(I) /\ ToSet(byProtocol') = ToSet(byProtocol)
  <2> HIDE DEF I
  <2>1. r \in Seq(I) /\ ToSet(r) = ToSet(byProtocol) \ {i}
    BY <1>2, RemainingMembers
  <2> HIDE DEF r
  <2>2. Append(r, i) \in Seq(I) /\ ToSet(Append(r, i)) = ToSet(r) \cup {i}
    BY <1>2, <2>1, AppendMembers
  <2> QED
    BY <1>1, <1>2, <2>1, <2>2 DEF r
<1>4. UNCHANGED <<handles, protocols, ifaces, notifies, events, signals, timers, left>>
  BY DEF ReinstallProtocol
<1>5. TypeOK'
  BY <1>2a, <1>3, <1>4
     DEF IInv, TypeOK, LinksLead, EventsIn, ReinstallProtocol, Callback, cursor
<1>6. ImagesStay'
  BY <1>3, <1>4 DEF IInv, ImagesStay
<1>7. KeepsLinks
  BY <1>2a, <1>4, <1>6, KeepsLinksByList, WalkLists DEF ImagesStay
<1> QED
  BY <1>5, <1>6, <1>7, CallbackStep DEF ReinstallProtocol

(* An interface goes with its links on its handle and in its protocol, the  *)
(* last one with its handle; images are no devices.                         *)
LEMMA UninstallProtocolStep == ASSUME IInv, UninstallProtocol PROVE IInv'
<1>1. PICK i \in ToSet(ifaces) :
        LET h == i[1]
            last == \A j \in ToSet(ifaces) : j[1] = h => j = i
            gone == IF last THEN {i, h} ELSE {i}
            off == {<<<<"on", h>>, i>>, <<<<"by", i[2]>>, i>>}
                     \cup (IF last THEN {<<<<"handles">>, h>>} ELSE {})
        IN /\ h \in Devices
           /\ ifaces' = Remaining(ifaces, {i}) /\ byProtocol' = Remaining(byProtocol, {i})
           /\ handles' = Remaining(handles, gone)
           /\ left' = Links(off)
           /\ freed' = freed \cup gone
           /\ there' = there \ gone
  BY DEF UninstallProtocol
<1> DEFINE h == i[1]
           last == \A j \in ToSet(ifaces) : j[1] = h => j = i
           gone == IF last THEN {i, h} ELSE {i}
           off == {<<<<"on", h>>, i>>, <<<<"by", i[2]>>, i>>}
                    \cup (IF last THEN {<<<<"handles">>, h>>} ELSE {})
           I == Handles \X Protocols
<1>2. /\ handles \in Seq(Handles) /\ protocols \in Seq(Protocols)
      /\ ifaces \in Seq(I) /\ ToSet(ifaces) \subseteq I /\ ToSet(handles) \subseteq Handles
      /\ ToSet(protocols) \subseteq Protocols
      /\ byProtocol \in Seq(I) /\ ToSet(byProtocol) = ToSet(ifaces)
  BY MembersOfSeq DEF IInv, TypeOK, ImagesStay
<1>2a. pc = "walk" /\ pc' = "walk"
  BY DEF UninstallProtocol, Callback, Walking
<1>3. i \in I /\ h \in Handles /\ i[2] \in Protocols /\ i = <<h, i[2]>>
  BY <1>2
<1>3a. h \in Devices /\ i \in ToSet(ifaces)
       /\ ifaces' = Remaining(ifaces, {i}) /\ byProtocol' = Remaining(byProtocol, {i})
       /\ handles' = Remaining(handles, gone) /\ left' = Links(off)
  BY <1>1
<1>4. i \notin Handles
  BY <1>3, NodesAssumption
<1>5. /\ ifaces' \in Seq(I) /\ ToSet(ifaces') = ToSet(ifaces) \ {i}
      /\ byProtocol' \in Seq(I) /\ ToSet(byProtocol') = ToSet(ifaces) \ {i}
  <2> HIDE DEF I
  <2> QED
    BY <1>2, <1>3a, RemainingMembers
<1>6. handles' \in Seq(Handles) /\ ToSet(handles') = ToSet(handles) \ gone
  <2> HIDE DEF gone
  <2> QED
    BY <1>2, <1>3a, RemainingMembers
<1>7. /\ protocols' = protocols /\ notifies' = notifies /\ signals' = signals
      /\ timers' = timers /\ events' = events
  BY DEF UninstallProtocol
<1>8. /\ gone \subseteq {i, h}
      /\ h \in gone => /\ <<<<"handles">>, h>> \in off
                       /\ \A j \in ToSet(ifaces) : j[1] = h => j = i
  <2>1. CASE last
    BY <2>1
  <2>2. CASE ~last
    BY <1>3, <1>4, <2>2
  <2> QED
    BY <2>1, <2>2
<1>9. {<<<<"on", h>>, i>>, <<<<"by", i[2]>>, i>>} \subseteq off
  OBVIOUS
<1>10. /\ LinksLead' /\ DOMAIN left' = off \cup DOMAIN left
       /\ \A k \in DOMAIN left' : left'[k] # NULL => HasLink(k[1], left'[k])
  <2>1. ASSUME NEW k \in off
        PROVE  k \in ListNames \X ListedNodes /\ k[2] \in Members(k[1])
    <3>1. CASE k = <<<<"on", h>>, i>>
      BY <1>2, <1>3, <1>3a, <3>1 DEF ListNames, ListedNodes, Members
    <3>2. CASE k = <<<<"by", i[2]>>, i>>
      BY <1>2, <1>3, <1>3a, <3>2 DEF ListNames, ListedNodes, Members
    <3>3. CASE k = <<<<"handles">>, h>>
      BY <1>2, <1>3, <1>3a, <3>3 DEF ListNames, ListedNodes, Members, Phases, IInv, ImagesStay
    <3> QED
      BY <3>1, <3>2, <3>3
  <2> HIDE DEF off
  <2> QED
    BY <1>2a, <1>3a, <2>1, LinksType
<1> HIDE DEF off, gone, h, last, I
<1>11. TypeOK'
  BY <1>2a, <1>5, <1>6, <1>7, <1>10
     DEF IInv, TypeOK, EventsIn, UninstallProtocol, Callback, cursor, I
<1>12. ImagesStay'
  <2>1. h \notin {OwnHandle, CoreHandle}
    BY <1>3a, HandlesAssumption
  <2>2. i # <<OwnHandle, LoadedImage>> /\ i # <<CoreHandle, LoadedImage>>
    BY <1>3, <2>1
  <2>3. {OwnHandle, CoreHandle} \subseteq ToSet(handles')
    BY <1>4, <1>6, <1>8, <2>1, HandlesAssumption DEF IInv, ImagesStay
  <2>4. ASSUME NEW j \in ToSet(ifaces')
        PROVE  j[1] \in ToSet(handles') /\ j[2] \in ToSet(protocols')
    <3>1. j \in ToSet(ifaces) /\ j # i /\ j[1] \in ToSet(handles) /\ j[2] \in ToSet(protocols)
      BY <1>5, <2>4 DEF IInv, ImagesStay
    <3>2. j[1] # i /\ ~(j[1] = h /\ h \in gone)
      BY <1>2, <1>4, <1>8, <3>1
    <3> QED
      BY <1>6, <1>7, <1>8, <3>1, <3>2
  <2> QED
    BY <1>5, <2>2, <2>3, <2>4 DEF IInv, ImagesStay
<1>13. KeepsLinks
  <2>1. ASSUME NEW n \in ToSet(handles), n \notin ToSet(handles')
        PROVE  <<<<"handles">>, n>> \in DOMAIN left'
    <3>1. n \in gone /\ n \in Handles
      BY <1>2, <1>6, <2>1
    <3> QED
      BY <1>4, <1>8, <1>10, <3>1
  <2>2. \A j \in ToSet(ifaces) : j \notin ToSet(ifaces') => j = i
    BY <1>5
  <2>3. {<<<<"on", i[1]>>, i>>, <<<<"by", i[2]>>, i>>} \subseteq DOMAIN left'
    BY <1>9, <1>10 DEF h
  <2>4. DOMAIN left \subseteq DOMAIN left'
    BY <1>10
  <2>5. \A j \in ToSet(ifaces) :
           \/ j \in ToSet(ifaces')
           \/ {<<<<"on", j[1]>>, j>>, <<<<"by", j[2]>>, j>>} \subseteq DOMAIN left'
    BY <2>2, <2>3
  <2> QED
    BY <1>2, <1>5, <1>7, <1>10, <2>1, <2>4, <2>5, KeepsLinksByList
<1> QED
  BY <1>11, <1>12, <1>13, CallbackStep DEF UninstallProtocol

LEMMA RegisterProtocolNotifyStep == ASSUME IInv, RegisterProtocolNotify PROVE IInv'
<1>1. PICK p \in Protocols, e \in events :
        /\ protocols' = AppendNew(protocols, p)
        /\ notifies' = Append(notifies, <<p, e>>)
  BY DEF RegisterProtocolNotify
<1> DEFINE N == Protocols \X Events
           n == <<p, e>>
<1>2. /\ protocols \in Seq(Protocols) /\ notifies \in Seq(N) /\ n \in N
      /\ notifies' = Append(notifies, n)
  BY <1>1 DEF IInv, TypeOK
<1>2a. pc = "walk" /\ pc' = "walk"
  BY DEF RegisterProtocolNotify, Callback, Walking
<1>3. protocols' \in Seq(Protocols) /\ ToSet(protocols') = ToSet(protocols) \cup {p}
  BY <1>1, <1>2, AppendNewMembers
<1> HIDE DEF N, n
<1>4. notifies' \in Seq(N) /\ ToSet(notifies') = ToSet(notifies) \cup {n}
  BY <1>2, AppendMembers
<1>5. UNCHANGED <<handles, ifaces, byProtocol, events, signals, timers, left>>
  BY DEF RegisterProtocolNotify
<1>6. TypeOK'
  BY <1>2a, <1>3, <1>4, <1>5
     DEF IInv, TypeOK, LinksLead, EventsIn, RegisterProtocolNotify, Callback, cursor, N
<1>7. ImagesStay'
  BY <1>3, <1>5 DEF IInv, ImagesStay
<1>8. KeepsLinks
  BY <1>2a, <1>3, <1>4, <1>5, <1>7, KeepsLinksByList, WalkLists DEF ImagesStay
<1> QED
  BY <1>6, <1>7, <1>8, CallbackStep DEF RegisterProtocolNotify

(* What changes only the lists of events.                                   *)
LEMMA EventListsStep ==
  ASSUME IInv, Callback, events' \subseteq Events, signals' \in Seq(Events), timers' \in Seq(Events),
         UNCHANGED <<handles, protocols, ifaces, byProtocol, notifies>>,
         LinksLead', DOMAIN left \subseteq DOMAIN left',
         \A k \in DOMAIN left' : left'[k] # NULL => HasLink(k[1], left'[k]),
         \A e \in ToSet(signals) : e \in ToSet(signals') \/ <<<<"signals">>, e>> \in DOMAIN left',
         \A e \in ToSet(timers) : e \in ToSet(timers') \/ <<<<"timers">>, e>> \in DOMAIN left'
  PROVE  IInv'
<1>0. pc = "walk" /\ pc' = "walk"
  BY DEF Callback, Walking
<1>1. TypeOK'
  BY <1>0 DEF IInv, TypeOK, EventsIn, Callback, cursor
<1>2. ImagesStay'
  BY DEF IInv, ImagesStay
<1>3. KeepsLinks
  BY <1>2, KeepsLinksByList DEF IInv, ImagesStay
<1> QED
  BY <1>1, <1>2, <1>3, CallbackStep

(* A new event has no links.                                                *)
LEMMA CreateEventStep == ASSUME IInv, CreateEvent PROVE IInv'
<1>0. pc = "walk" /\ pc' = "walk"
  BY DEF CreateEvent, Callback, Walking
<1>1. PICK e \in Events \ events :
        /\ events' = events \cup {e}
        /\ signals' \in {signals, <<e>> \o signals}
        /\ left' = [k \in DOMAIN left |-> IF k[2] = e THEN NULL ELSE left[k]]
  BY DEF CreateEvent
<1> DEFINE one == <<e>>
<1>2. signals \in Seq(Events) /\ timers \in Seq(Events) /\ events \subseteq Events
  BY <1>0, WalkLists DEF IInv, TypeOK
<1>3. one \in Seq(Events) /\ signals' \in {signals, one \o signals}
  BY <1>1, SingleMembers
<1> HIDE DEF one
<1>4. signals' \in Seq(Events) /\ ToSet(signals) \subseteq ToSet(signals')
  <2>1. one \o signals \in Seq(Events) /\ ToSet(one \o signals) = ToSet(one) \cup ToSet(signals)
    BY <1>2, <1>3, ConcatMembers
  <2> QED
    BY <1>2, <1>3, <2>1
<1>5. /\ DOMAIN left' = DOMAIN left
      /\ \A k \in DOMAIN left' : left'[k] \in {NULL, left[k]}
  BY <1>1
<1>6. /\ LinksLead'
      /\ \A k \in DOMAIN left' : left'[k] # NULL => HasLink(k[1], left'[k])
  BY <1>0, <1>5, WalkLists DEF TypeOK, LinksLead
<1>7. UNCHANGED <<handles, protocols, ifaces, byProtocol, notifies, timers>>
  BY DEF CreateEvent
<1> QED
  BY <1>1, <1>2, <1>4, <1>5, <1>6, <1>7, EventListsStep DEF CreateEvent

LEMMA ArmedIs ==
  ASSUME NEW e \in ToSet(timers)
  PROVE  Armed(e) = {<<<<"timers">>, e>>}
<1>1. ToSet(timers) \cap {e} = {e}
  OBVIOUS
<1>2. \A k : k \in {<<"timers">>} \X {e} <=> k = <<<<"timers">>, e>>
  OBVIOUS
<1> QED
  BY <1>1, <1>2 DEF Armed

(* A timer leaves its place, and may be put in another.                     *)
LEMMA ArmedLinks ==
  ASSUME IInv, pc = "walk", NEW e, left' = Links(Armed(e))
  PROVE  /\ LinksLead' /\ DOMAIN left \subseteq DOMAIN left'
         /\ e \in ToSet(timers) => <<<<"timers">>, e>> \in DOMAIN left'
         /\ \A k \in DOMAIN left' : left'[k] # NULL => HasLink(k[1], left'[k])
<1> DEFINE off == Armed(e)
<1>1. ToSet(timers) \subseteq Events
  BY WalkLists, MembersOfSeq
<1>2. ASSUME NEW k \in off PROVE k \in ListNames \X ListedNodes /\ k[2] \in Members(k[1])
  BY <1>1 DEF Armed, ListNames, Phases, ListedNodes, Members
<1>3. e \in ToSet(timers) => <<<<"timers">>, e>> \in off
  BY DEF Armed
<1> HIDE DEF off
<1>4. /\ LinksLead' /\ DOMAIN left' = off \cup DOMAIN left
      /\ \A k \in DOMAIN left' : left'[k] # NULL => HasLink(k[1], left'[k])
  <2>1. left' = Links(off)
    BY DEF off
  <2> QED
    BY <1>2, <2>1, LinksType
<1> QED
  BY <1>3, <1>4

LEMMA SetTimerSteps == ASSUME IInv, SetTimer \/ CancelTimer PROVE IInv'
<1>0. pc = "walk" /\ pc' = "walk" /\ Callback
  BY DEF SetTimer, CancelTimer, Callback, Walking
<1>1. PICK e \in Events :
        /\ timers' \in {Remaining(timers, {e})} \cup Insertions(Remaining(timers, {e}), e)
        /\ left' = Links(Armed(e)) /\ events' = events /\ signals' = signals
        /\ UNCHANGED <<handles, protocols, ifaces, byProtocol, notifies>>
  <2>1. events \subseteq Events /\ ToSet(timers) \subseteq Events
    BY <1>0, WalkLists, MembersOfSeq DEF IInv, TypeOK
  <2>2. CASE SetTimer
    BY <2>1, <2>2 DEF SetTimer
  <2>3. CASE CancelTimer
    BY <2>1, <2>3 DEF CancelTimer
  <2> QED
    BY <2>2, <2>3
<1> DEFINE r == Remaining(timers, {e})
<1>2. /\ signals \in Seq(Events) /\ timers \in Seq(Events) /\ events \subseteq Events
      /\ r \in Seq(Events) /\ ToSet(r) = ToSet(timers) \ {e}
  BY <1>0, WalkLists, RemainingMembers DEF IInv, TypeOK
<1> HIDE DEF r
<1>3. timers' \in {r} \cup Insertions(r, e)
  BY <1>1 DEF r
<1>4. timers' \in Seq(Events) /\ ToSet(timers) \ {e} \subseteq ToSet(timers')
  BY <1>2, <1>3, InsertionsMembers
<1>5. /\ LinksLead' /\ DOMAIN left \subseteq DOMAIN left'
      /\ e \in ToSet(timers) => <<<<"timers">>, e>> \in DOMAIN left'
      /\ \A k \in DOMAIN left' : left'[k] # NULL => HasLink(k[1], left'[k])
  BY <1>0, <1>1, ArmedLinks
<1> QED
  BY <1>0, <1>1, <1>2, <1>4, <1>5, EventListsStep

(* The timer that expires may be put in again.                              *)
LEMMA TimerExpiresStep == ASSUME IInv, TimerExpires PROVE IInv'
<1>0. pc = "walk" /\ pc' = "walk"
  BY DEF TimerExpires, Callback, Walking
<1> DEFINE e == Head(timers)
           rest == Tail(timers)
<1>1. /\ timers \in Seq(Events) /\ signals \in Seq(Events) /\ timers # <<>>
      /\ timers' \in Insertions(rest, e) \cup {rest} /\ left' = Links({<<<<"timers">>, e>>})
  BY <1>0, WalkLists DEF TimerExpires
<1>2. e \in Events /\ rest \in Seq(Events) /\ ToSet(timers) = {e} \cup ToSet(rest)
  BY <1>1, HeadTailMembers
<1>3. left' = Links(Armed(e)) /\ e \in ToSet(timers)
  <2>1. e \in ToSet(timers)
    BY <1>2
  <2>2. Armed(e) = {<<<<"timers">>, e>>}
    BY <2>1, ArmedIs
  <2> QED
    BY <1>1, <2>1, <2>2
<1> HIDE DEF e, rest
<1>4. /\ LinksLead' /\ DOMAIN left \subseteq DOMAIN left'
      /\ <<<<"timers">>, e>> \in DOMAIN left'
      /\ \A k \in DOMAIN left' : left'[k] # NULL => HasLink(k[1], left'[k])
  BY <1>0, <1>3, ArmedLinks
<1>5. timers' \in Seq(Events) /\ ToSet(rest) \subseteq ToSet(timers')
  BY <1>1, <1>2, InsertionsMembers
<1>6. /\ UNCHANGED <<handles, protocols, ifaces, byProtocol, notifies, events, signals>>
      /\ events \subseteq Events
  BY DEF TimerExpires, IInv, TypeOK
<1> QED
  BY <1>1, <1>2, <1>4, <1>5, <1>6, EventListsStep DEF TimerExpires

(* An event goes with its links in its lists, and so do its notifications.  *)
LEMMA CloseEventStep == ASSUME IInv, CloseEvent PROVE IInv'
<1>0. pc = "walk" /\ pc' = "walk"
  BY DEF CloseEvent, Callback, Walking
<1>1. PICK e \in events :
        LET off == {n \in ToSet(notifies) : n[2] = e}
            onlists == ({<<"signals">>} \X (ToSet(signals) \cap {e})) \cup Armed(e)
        IN /\ events' = events \ {e}
           /\ notifies' = Remaining(notifies, off)
           /\ signals' = Remaining(signals, {e})
           /\ timers' = Remaining(timers, {e})
           /\ left' = Links(onlists \cup {<<<<"notify", n[1]>>, n>> : n \in off})
           /\ freed' = freed \cup off \cup {e}
           /\ there' = there \ (off \cup {e})
  BY DEF CloseEvent
<1> DEFINE off == {n \in ToSet(notifies) : n[2] = e}
           onlists == ({<<"signals">>} \X (ToSet(signals) \cap {e})) \cup Armed(e)
           all == onlists \cup {<<<<"notify", n[1]>>, n>> : n \in off}
           N == Protocols \X Events
<1>2. /\ notifies \in Seq(N) /\ ToSet(notifies) \subseteq N
      /\ signals \in Seq(Events) /\ timers \in Seq(Events) /\ events \subseteq Events
  BY <1>0, WalkLists, MembersOfSeq DEF IInv, TypeOK
<1>3. /\ notifies' = Remaining(notifies, off) /\ signals' = Remaining(signals, {e})
      /\ timers' = Remaining(timers, {e}) /\ left' = Links(all)
      /\ events' \subseteq events
  BY <1>1
<1>4. /\ signals' \in Seq(Events) /\ ToSet(signals') = ToSet(signals) \ {e}
      /\ timers' \in Seq(Events) /\ ToSet(timers') = ToSet(timers) \ {e}
  BY <1>2, <1>3, RemainingMembers
<1>5. notifies' \in Seq(N) /\ ToSet(notifies') = ToSet(notifies) \ off
  <2> HIDE DEF N, off
  <2> QED
    BY <1>2, <1>3, RemainingMembers
<1>6. ASSUME NEW k \in all PROVE k \in ListNames \X ListedNodes /\ k[2] \in Members(k[1])
  <2>1. CASE k \in {<<"signals">>} \X (ToSet(signals) \cap {e})
    <3>1. k = <<<<"signals">>, e>> /\ e \in ToSet(signals) /\ e \in Events
      BY <1>2, <2>1
    <3> QED
      BY <3>1 DEF ListNames, Phases, ListedNodes, Members
  <2>2. CASE k \in Armed(e)
    <3>1. k = <<<<"timers">>, e>> /\ e \in ToSet(timers) /\ e \in Events
      BY <1>2, <2>2 DEF Armed
    <3> QED
      BY <3>1 DEF ListNames, Phases, ListedNodes, Members
  <2>3. CASE \E n \in off : k = <<<<"notify", n[1]>>, n>>
    BY <1>2, <2>3 DEF ListNames, ListedNodes, Members
  <2> QED
    BY <2>1, <2>2, <2>3
<1>7. /\ LinksLead' /\ DOMAIN left' = all \cup DOMAIN left
      /\ \A k \in DOMAIN left' : left'[k] # NULL => HasLink(k[1], left'[k])
  <2> HIDE DEF all
  <2> QED
    BY <1>0, <1>3, <1>6, LinksType
<1>8. UNCHANGED <<handles, ifaces, byProtocol, protocols>>
  BY DEF CloseEvent
<1>9. KeepsLinks
  <2>1. \A n \in off : <<<<"notify", n[1]>>, n>> \in DOMAIN left'
    BY <1>7
  <2>2. \A n \in ToSet(notifies) :
          n \in ToSet(notifies') \/ <<<<"notify", n[1]>>, n>> \in DOMAIN left'
    <3> HIDE DEF off
    <3> QED
      BY <1>5, <2>1
  <2>3. e \in ToSet(signals) => <<<<"signals">>, e>> \in DOMAIN left'
    BY <1>7
  <2>4. e \in ToSet(timers) => <<<<"timers">>, e>> \in DOMAIN left'
    BY <1>7 DEF Armed
  <2>5. DOMAIN left \subseteq DOMAIN left'
    BY <1>7
  <2> HIDE DEF off, all, onlists
  <2> QED
    BY <1>4, <1>7, <1>8, <2>2, <2>3, <2>4, <2>5, KeepsLinksByList DEF IInv, ImagesStay
<1> HIDE DEF off, onlists, all
<1>10. TypeOK'
  BY <1>0, <1>2, <1>3, <1>4, <1>5, <1>7, <1>8
     DEF IInv, TypeOK, EventsIn, CloseEvent, Callback, cursor
<1>11. ImagesStay'
  BY <1>8 DEF IInv, ImagesStay
<1> QED
  BY <1>9, <1>10, <1>11, CallbackStep DEF CloseEvent

(***************************************************************************)
(* The search for heads                                                    *)
(***************************************************************************)

LEMMA NonEmptyMembers ==
  ASSUME NEW S, NEW s \in Seq(S)
  PROVE  (s # <<>> <=> ToSet(s) # {}) /\ (s # <<>> => s[1] \in ToSet(s))
<1>1. ToSet(s) = {s[i] : i \in 1 .. Len(s)} /\ Len(s) \in Nat
  BY MembersOfSeq
<1>2. s # <<>> => 1 \in 1 .. Len(s)
  BY EmptySeq
<1>3. s = <<>> => Len(s) = 0
  OBVIOUS
<1> QED
  BY <1>1, <1>2, <1>3

(* The ring from a node has the head, and all other nodes.                  *)
LEMMA RingMembers ==
  ASSUME NEW S, NEW s \in Seq(S), NEW own \in ToSet(s)
  PROVE  /\ Ring(s, own) \in Seq(S \cup {ListHead})
         /\ {ListHead} \cup (ToSet(s) \ {own}) \subseteq ToSet(Ring(s, own))
<1> DEFINE i == CHOOSE j \in DOMAIN s : s[j] = own
           before == SubSeq(s, 1, i - 1)
           after == SubSeq(s, i + 1, Len(s))
           one == <<ListHead>>
           T == S \cup {ListHead}
           L == Len(s)
<1>1. L \in Nat /\ DOMAIN s = 1 .. L /\ \A j \in 1 .. L : s[j] \in T
  OBVIOUS
<1>2. i \in 1 .. L /\ s[i] = own
  BY <1>1 DEF ToSet
<1>3. Ring(s, own) = (after \o one) \o before
  BY DEF Ring
<1>4. ToSet(s) = {s[j] : j \in 1 .. L}
  BY MembersOfSeq
<1> HIDE DEF i
<1>5. before \in Seq(T) /\ Len(before) = i - 1 /\ \A j \in 1 .. i - 1 : before[j] = s[j]
  <2>1. 1 \in Int /\ i - 1 \in Int /\ \A j \in 1 .. i - 1 : s[j] \in T
    BY <1>1, <1>2
  <2> HIDE DEF T
  <2>2. /\ before \in Seq(T)
        /\ Len(before) = IF 1 <= i - 1 THEN (i - 1) - 1 + 1 ELSE 0
        /\ \A j \in 1 .. (i - 1) - 1 + 1 : before[j] = s[1 + j - 1]
    BY <2>1, SubSeqProperties
  <2> QED
    BY <1>2, <2>2
<1>6. /\ after \in Seq(T) /\ Len(after) = L - i
      /\ \A j \in 1 .. L - i : after[j] = s[i + j]
  <2>1. i + 1 \in Int /\ L \in Int /\ \A j \in i + 1 .. L : s[j] \in T
    BY <1>1, <1>2
  <2> HIDE DEF T
  <2>2. /\ after \in Seq(T)
        /\ Len(after) = IF i + 1 <= L THEN L - (i + 1) + 1 ELSE 0
        /\ \A j \in 1 .. L - (i + 1) + 1 : after[j] = s[(i + 1) + j - 1]
    BY <2>1, SubSeqProperties
  <2> QED
    BY <1>1, <1>2, <2>2, SMTT(40)
<1>7. one \in Seq(T) /\ ToSet(one) = {ListHead}
  <2>1. ListHead \in T
    OBVIOUS
  <2> QED
    BY <2>1, SingleMembers
<1> HIDE DEF before, after, one, T, L
<1>8. after \o one \in Seq(T) /\ ToSet(after \o one) = ToSet(after) \cup {ListHead}
  <2>1. after \o one \in Seq(T) /\ ToSet(after \o one) = ToSet(after) \cup ToSet(one)
    BY <1>6, <1>7, ConcatMembers
  <2> QED
    BY <1>7, <2>1
<1> DEFINE most == after \o one
<1>9. most \in Seq(T) /\ ToSet(most) = ToSet(after) \cup {ListHead}
  BY <1>8
<1> HIDE DEF most
<1>10. most \o before \in Seq(T) /\ ToSet(most \o before) = ToSet(most) \cup ToSet(before)
  BY <1>5, <1>9, ConcatMembers
<1>11. ASSUME NEW j \in 1 .. L, s[j] # own PROVE s[j] \in ToSet(before) \cup ToSet(after)
  <2>1. DOMAIN before = 1 .. i - 1 /\ DOMAIN after = 1 .. L - i
    BY <1>5, <1>6
  <2>2. CASE j < i
    <3>1. j \in 1 .. i - 1
      BY <1>2, <2>2
    <3> QED
      BY <1>5, <2>1, <3>1 DEF ToSet
  <2>3. CASE j > i
    <3>1. j - i \in 1 .. L - i /\ i + (j - i) = j
      BY <1>1, <1>2, <2>3
    <3>2. after[j - i] = s[j]
      BY <1>6, <3>1
    <3> QED
      BY <2>1, <3>1, <3>2 DEF ToSet
  <2> QED
    BY <1>1, <1>2, <1>11, <2>2, <2>3
<1>12. Ring(s, own) = most \o before
  BY <1>3 DEF most
<1> QED
  BY <1>4, <1>9, <1>10, <1>11, <1>12 DEF T

(* From any node of its own the application finds the head.                 *)
LEMMA HeadIsFound ==
  ASSUME NEW S, NEW s \in Seq(S), NEW own \in ToSet(s)
  PROVE  SearchHead(s, own) = ListHead
<1> DEFINE r == Ring(s, own)
           K == {n \in ToSet(r) : ~HasSignature(n)}
           found == Where(r, K)
           T == S \cup {ListHead}
<1>1. r \in Seq(T) /\ ListHead \in ToSet(r)
  BY RingMembers
<1>2. K = {ListHead}
  BY <1>1 DEF HasSignature
<1>3. SearchHead(s, own) = IF found = <<>> THEN NULL ELSE found[1]
  BY DEF SearchHead
<1> HIDE DEF r, K, T
<1>4. found \in Seq(T) /\ ToSet(found) = ToSet(r) \cap K
  BY <1>1, WhereMembers
<1> HIDE DEF found
<1>5. found # <<>> /\ found[1] \in ToSet(found)
  BY <1>1, <1>2, <1>4, NonEmptyMembers
<1> QED
  BY <1>2, <1>3, <1>4, <1>5

(* Behind the own handle there is one with an interface, the core's, and    *)
(* the protocol of every interface is in the database.                      *)
LEMMA DatabaseIsFound ==
  ASSUME TypeOK, ImagesStay, pc = "lists"
  PROVE  GetDxeCoreProtocolDatabase = ListHead
<1> DEFINE r == Ring(handles, OwnHandle)
           K == {h \in ToSet(handles) : HasSignature(h) /\ List(<<"on", h>>) # <<>>}
           plugged == Where(r, K)
           T == Handles \cup {ListHead}
<1>1. handles \in Seq(Handles) /\ ToSet(handles) \subseteq Handles
      /\ protocols \in Seq(Protocols)
  BY MembersOfSeq DEF TypeOK
<1>2. r \in Seq(T) /\ CoreHandle \in ToSet(r)
  BY <1>1, RingMembers, HandlesAssumption DEF ImagesStay
<1>3. ASSUME NEW h \in Handles
      PROVE  /\ List(<<"on", h>>) \in Seq(Handles \X Protocols)
             /\ ToSet(List(<<"on", h>>)) = {i \in ToSet(ifaces) : i[1] = h}
  <2>1. <<"on", h>> \in ListNames
    BY DEF ListNames
  <2> QED
    BY <2>1, ListMembers DEF Settled, ListsAreTyped, Members, NodesIn
<1>4. CoreHandle \in K
  <2>1. CoreHandle \in Handles /\ CoreHandle # ListHead
    BY HandlesAssumption, NodesAssumption DEF ListedNodes
  <2>2. <<CoreHandle, LoadedImage>> \in ToSet(List(<<"on", CoreHandle>>))
    BY <1>3, <2>1 DEF ImagesStay
  <2>3. List(<<"on", CoreHandle>>) # <<>>
    BY <1>3, <2>1, <2>2, NonEmptyMembers
  <2> QED
    BY <2>1, <2>3 DEF ImagesStay, HasSignature
<1>5. \A h \in K : h \in Handles /\ List(<<"on", h>>) # <<>>
  BY <1>1
<1>6. GetDxeCoreProtocolDatabase =
        IF plugged = <<>> THEN NULL
        ELSE SearchHead(protocols, List(<<"on", plugged[1]>>)[1][2])
  BY DEF GetDxeCoreProtocolDatabase
<1> HIDE DEF r, K, T
<1>7. plugged \in Seq(T) /\ ToSet(plugged) = ToSet(r) \cap K
  BY <1>2, WhereMembers
<1> HIDE DEF plugged
<1>8. plugged # <<>> /\ plugged[1] \in K
  BY <1>2, <1>4, <1>7, NonEmptyMembers
<1> DEFINE h == plugged[1]
           first == List(<<"on", h>>)[1]
<1>9. h \in Handles /\ List(<<"on", h>>) # <<>>
  BY <1>5, <1>8
<1> HIDE DEF h
<1>10. first \in ToSet(List(<<"on", h>>))
  BY <1>3, <1>9, NonEmptyMembers
<1>11. first[2] \in ToSet(protocols)
  BY <1>3, <1>9, <1>10 DEF ImagesStay
<1> HIDE DEF first
<1>12. SearchHead(protocols, first[2]) = ListHead
  BY <1>1, <1>11, HeadIsFound
<1> QED
  BY <1>6, <1>8, <1>12 DEF first, h

(***************************************************************************)
(* The application                                                         *)
(***************************************************************************)

(* In InOrder every handle, or protocol, of Plugged has its place.          *)
LEMMA InOrderMembers ==
  ASSUME NEW column \in {1, 2}, NEW S, \A i \in 1 .. Len(Plugged) : Plugged[i][column] \in S
  PROVE  /\ InOrder(column) \in Seq(S)
         /\ \A i \in 1 .. Len(Plugged) : Plugged[i][column] \in ToSet(InOrder(column))
<1> DEFINE L == Len(Plugged)
           all == [i \in 1 .. L |-> i]
           first == {i \in DOMAIN Plugged :
                       \A j \in 1 .. i - 1 : Plugged[j][column] # Plugged[i][column]}
           places == Where(all, first)
           M == Len(places)
           list == [k \in 1 .. M |-> Plugged[places[k]][column]]
           D == 1 .. L
<1>1. L \in Nat /\ DOMAIN Plugged = D
  BY ListsAssumption
<1>2. InOrder(column) = list
  BY DEF InOrder
<1>3. all \in Seq(D) /\ ToSet(all) = D
  BY <1>1 DEF ToSet
<1>4. first \subseteq D
  BY <1>1
<1>5. ASSUME NEW i \in D PROVE \E j \in first : Plugged[j][column] = Plugged[i][column]
  <2> DEFINE same == {j \in D : Plugged[j][column] = Plugged[i][column]}
  <2>1. i \in same /\ same \subseteq Nat
    BY <1>1
  <2> HIDE DEF same
  <2>2. PICK j \in same : \A k \in same : j <= k
    BY <2>1, LeastNat
  <2> USE DEF same
  <2>3. \A k \in 1 .. j - 1 : k \in D /\ k \notin same
    BY <1>1, <2>2
  <2>4. \A k \in 1 .. j - 1 : Plugged[k][column] # Plugged[j][column]
    BY <2>2, <2>3
  <2> QED
    BY <1>1, <2>2, <2>4
<1> HIDE DEF L, all, first, D
<1>6. places \in Seq(D) /\ ToSet(places) = first
  <2>1. places \in Seq(D) /\ ToSet(places) = ToSet(all) \cap first
    BY <1>3, WhereMembers
  <2> QED
    BY <1>3, <1>4, <2>1
<1> HIDE DEF places
<1>7. M \in Nat /\ DOMAIN places = 1 .. M /\ \A k \in 1 .. M : places[k] \in D
  BY <1>6
<1>8. list \in Seq(S)
  <2>1. \A k \in 1 .. M : Plugged[places[k]][column] \in S
    BY <1>7 DEF D, L
  <2> HIDE DEF M
  <2> QED
    BY <1>7, <2>1
<1>9. ASSUME NEW i \in D PROVE Plugged[i][column] \in ToSet(list)
  <2>1. PICK j \in first : Plugged[j][column] = Plugged[i][column]
    BY <1>5
  <2>2. PICK k \in 1 .. M : places[k] = j
    BY <1>6, <1>7 DEF ToSet
  <2>3. k \in DOMAIN list /\ list[k] = Plugged[i][column]
    BY <2>1, <2>2
  <2> HIDE DEF list
  <2> QED
    BY <2>3 DEF ToSet
<1> QED
  BY <1>2, <1>8, <1>9 DEF D, L

LEMMA InitIInv == Init => IInv
<1> SUFFICES ASSUME Init PROVE IInv
  OBVIOUS
<1> DEFINE I == Handles \X Protocols
<1>1. Plugged \in Seq(I) /\ \A i \in 1 .. Len(Plugged) : Plugged[i] \in I
  BY ListsAssumption
<1>2. /\ handles \in Seq(Handles)
      /\ \A i \in 1 .. Len(Plugged) : Plugged[i][1] \in ToSet(handles)
  BY <1>1, InOrderMembers DEF Init
<1>3. /\ protocols \in Seq(Protocols)
      /\ \A i \in 1 .. Len(Plugged) : Plugged[i][2] \in ToSet(protocols)
  BY <1>1, InOrderMembers DEF Init
<1>4. ToSet(ifaces) = {Plugged[i] : i \in 1 .. Len(Plugged)}
  BY <1>1, MembersOfSeq DEF Init
<1>5. TypeOK /\ LinksGoOn
  <2>1. events \subseteq Events
    <3>1. ToSet(Notified) \subseteq Protocols \X Events
      BY ListsAssumption, MembersOfSeq
    <3>2. ToSet(Signals) \subseteq Events /\ ToSet(Timers) \subseteq Events
      BY ListsAssumption, MembersOfSeq
    <3> QED
      BY <3>1, <3>2 DEF Init
  <2>2. created \in BOOLEAN /\ heads \in [Phases -> {ListHead, NULL}] /\ LinksLead /\ LinksGoOn
    <3>1. created \in BOOLEAN
      BY Zenon DEF Init
    <3>2. DOMAIN left = {} /\ pc # "walk"
      BY DEF Init
    <3>3. LinksLead /\ LinksGoOn
      BY <3>2 DEF LinksLead, LinksGoOn
    <3>4. heads \in [Phases -> {ListHead, NULL}]
      BY DEF Init
    <3> QED
      BY <3>1, <3>3, <3>4
  <2>3. signals \in Seq(EventsIn("signals")) /\ timers \in Seq(EventsIn("timers"))
    BY ListsAssumption DEF Init, EventsIn
  <2> QED
    BY <1>2, <1>3, <2>1, <2>2, <2>3, ListsAssumption DEF Init, TypeOK, Phases
<1>6. ImagesStay
  <2>1. {<<OwnHandle, LoadedImage>>, <<CoreHandle, LoadedImage>>} \subseteq ToSet(ifaces)
    BY ListsAssumption DEF Init
  <2>2. \A i \in ToSet(ifaces) : i[1] \in ToSet(handles) /\ i[2] \in ToSet(protocols)
    BY <1>2, <1>3, <1>4
  <2>3. {OwnHandle, CoreHandle} \subseteq ToSet(handles)
    BY <2>1, <2>2
  <2> QED
    BY <2>1, <2>2, <2>3 DEF Init, ImagesStay
<1> QED
  BY <1>5, <1>6 DEF Init, IInv, CursorsHaveLinks, DummyIsThere, HeadsFound, NamesAreFixed

(* The core's image is there, so its name is found and the lists are next.  *)
LEMMA GetLoadedImageStep == ASSUME IInv, GetLoadedImage PROVE IInv'
<1>1. CoreHandle \in LoadedImages
  BY DEF IInv, ImagesStay, LoadedImages
<1>2. TypeOK'
  BY <1>1 DEF IInv, TypeOK, EventsIn, LinksLead, GetLoadedImage, core, cursor, report
<1>3. LinksGoOn' /\ ImagesStay'
  BY <1>1 DEF IInv, LinksGoOn, ImagesStay, GetLoadedImage, core
<1> QED
  BY <1>1, <1>2, <1>3 DEF IInv, GetLoadedImage, CursorsHaveLinks, DummyIsThere, HeadsFound,
     NamesAreFixed, report

(* A dump begins at a head that was found.                                  *)
LEMMA BeginStep ==
  ASSUME IInv, pc \in {"lists", "end", "found"}, NEW p \in Phases, Begin(p),
         heads' \in [Phases -> {ListHead, NULL}], heads'[p] = ListHead,
         heads'["handles"] = ListHead, heads'["protocols"] = ListHead,
         p = "timers" /\ ~failed' => heads'["signals"] = ListHead,
         signals' \in Seq(Events), timers' \in Seq(Events), created' \in BOOLEAN, ~created'
  PROVE  IInv'
<1>1. /\ phase' = p /\ pc' = "walk" /\ at' = ListHead /\ inner' = <<>> /\ sub' = ListHead
      /\ printed' = {} /\ left' = <<>> /\ DOMAIN left' = {}
      /\ UNCHANGED <<handles, protocols, ifaces, byProtocol, notifies, events, mImageStruct, named>>
  BY NodesAssumption DEF Begin
<1>2. TypeOK' /\ LinksGoOn'
  BY <1>1 DEF IInv, TypeOK, EventsIn, LinksLead, LinksGoOn
<1>3. ImagesStay'
  BY <1>1 DEF IInv, ImagesStay
<1>4. CursorsHaveLinks'
  BY <1>1 DEF CursorsHaveLinks, HasLink, OnList
<1>5. DummyIsThere' /\ HeadsFound'
  BY <1>1 DEF DummyIsThere, HeadsFound
<1>6. NamesAreFixed'
  BY <1>1 DEF IInv, NamesAreFixed, AddressToImageName, AddressToImageNameEx
<1> QED
  BY <1>2, <1>3, <1>4, <1>5, <1>6 DEF IInv

LEMMA DumpHandleListStep == ASSUME IInv, DumpHandleList PROVE IInv'
<1>0. pc = "lists" /\ signals' = signals /\ timers' = timers /\ created' = created
  BY DEF DumpHandleList
<1>1. heads \in [Phases -> {ListHead, NULL}] /\ handles \in Seq(Handles)
      /\ signals \in Seq(Events) /\ timers \in Seq(Events)
      /\ created \in BOOLEAN /\ ~created
  BY <1>0, SettledLists DEF IInv, TypeOK, Settled, DummyIsThere
<1>2. GetDxeCoreHandleList = ListHead
  BY <1>1, HeadIsFound DEF GetDxeCoreHandleList, IInv, ImagesStay
<1>3. GetDxeCoreProtocolDatabase = ListHead
  BY <1>0, DatabaseIsFound DEF IInv
<1>4. heads' = [heads EXCEPT !["handles"] = ListHead, !["protocols"] = ListHead]
  BY <1>2, <1>3 DEF DumpHandleList
<1>5. /\ heads' \in [Phases -> {ListHead, NULL}]
      /\ heads'["handles"] = ListHead /\ heads'["protocols"] = ListHead
  BY <1>1, <1>4 DEF Phases
<1>6. Begin("handles") /\ "handles" \in Phases
  BY <1>5, NodesAssumption DEF DumpHandleList, Phases
<1> QED
  BY <1>0, <1>1, <1>5, <1>6, BeginStep

LEMMA DumpProtocolDatabaseStep == ASSUME IInv, DumpProtocolDatabase PROVE IInv'
<1>0. pc = "end" /\ heads' = heads /\ signals' = signals /\ timers' = timers
      /\ created' = created
  BY DEF DumpProtocolDatabase
<1>1. /\ heads' \in [Phases -> {ListHead, NULL}]
      /\ heads'["handles"] = ListHead /\ heads'["protocols"] = ListHead
      /\ signals' \in Seq(Events) /\ timers' \in Seq(Events)
      /\ created' \in BOOLEAN /\ ~created'
  BY <1>0, SettledLists DEF IInv, TypeOK, Settled, HeadsFound, DummyIsThere
<1>2. Begin("protocols") /\ "protocols" \in Phases
  BY DEF DumpProtocolDatabase, Phases
<1> QED
  BY <1>0, <1>1, <1>2, BeginStep

(* A list without the dummy event that was in it.                           *)
LEMMA WithoutDummy ==
  ASSUME NEW s \in Seq(Events \cup {Dummy})
  PROVE  /\ Remaining(s, {Dummy}) \in Seq(Events)
         /\ ToSet(Remaining(s, {Dummy})) = ToSet(s) \ {Dummy}
<1> DEFINE S == Events \cup {Dummy}
           t == Remaining(s, {Dummy})
<1>1. t = Remaining(s, {Dummy}) /\ s \in Seq(S)
  OBVIOUS
<1> HIDE DEF S, t
<1>2. t \in Seq(S) /\ ToSet(t) = ToSet(s) \ {Dummy}
  BY <1>1, RemainingMembers
<1>3. \A i \in 1 .. Len(t) : t[i] \in Events
  <2>1. \A i \in 1 .. Len(t) : t[i] \in ToSet(t) /\ t[i] \in S
    BY <1>2 DEF ToSet
  <2> QED
    BY <1>2, <2>1 DEF S
<1>4. t \in Seq(Events)
  <2>1. Len(t) \in Nat /\ t = [i \in 1 .. Len(t) |-> t[i]]
    BY <1>2
  <2> DEFINE L == Len(t)
  <2>2. t \in [1 .. L -> Events] /\ L \in Nat
    BY <1>3, <2>1
  <2> HIDE DEF L
  <2> QED
    BY <2>2
<1> QED
  BY <1>2, <1>4 DEF t

(* The event lists, with the dummy or without it.                           *)
LEMMA EventLists ==
  ASSUME TypeOK, NEW p \in {"signals", "timers"}
  PROVE  /\ signals \in Seq(Events \cup {Dummy}) /\ timers \in Seq(Events \cup {Dummy})
         /\ EventsIn(p) \subseteq Events \cup {Dummy} /\ Events \subseteq EventsIn(p)
<1>1. \A q : EventsIn(q) \in {Events, Events \cup {Dummy}}
  BY DEF EventsIn
<1>2. \A s : s \in Seq(Events) => s \in Seq(Events \cup {Dummy})
  BY SeqMonotonic
<1> QED
  BY <1>1, <1>2 DEF TypeOK

(* Steps between the walks: the dummy events come and go.                   *)
LEMMA BetweenStep ==
  ASSUME IInv, pc \in {"end", "unset", "created", "found"}, pc' # "walk", pc' # "start",
         pc' \in {"walk", "end", "created", "unset", "found", "lost", "done"},
         UNCHANGED <<handles, protocols, ifaces, byProtocol, notifies, events, left,
                     mImageStruct, cursor, named>>,
         phase' \in Phases, heads' \in [Phases -> {ListHead, NULL}],
         signals' \in Seq(EventsIn("signals")'), timers' \in Seq(EventsIn("timers")'),
         printed' \subseteq ListedNodes, created' \in BOOLEAN, DummyIsThere', HeadsFound'
  PROVE  IInv'
<1>1. TypeOK'
  BY DEF IInv, TypeOK, LinksLead, cursor
<1>2. LinksGoOn' /\ ImagesStay' /\ CursorsHaveLinks'
  BY DEF IInv, LinksGoOn, ImagesStay, CursorsHaveLinks
<1>3. NamesAreFixed'
  BY DEF IInv, NamesAreFixed, AddressToImageName, AddressToImageNameEx
<1> QED
  BY <1>1, <1>2, <1>3 DEF IInv

LEMMA CreateSignalEventStep == ASSUME IInv, CreateSignalEvent PROVE IInv'
<1>1. /\ pc = "end" /\ pc' = "created" /\ phase' = "signals" /\ created' = TRUE
      /\ signals' = <<Dummy>> \o signals
      /\ UNCHANGED <<handles, protocols, ifaces, byProtocol, notifies, events, timers, left,
                     heads, mImageStruct, cursor, report, failed>>
      /\ phase = "protocols"
  BY DEF CreateSignalEvent
<1>2. signals \in Seq(Events) /\ timers \in Seq(Events)
  BY <1>1, SettledLists DEF IInv, Settled
<1> DEFINE S == Events \cup {Dummy}
           one == <<Dummy>>
<1>3. EventsIn("signals")' = S /\ EventsIn("timers")' = Events
  BY <1>1 DEF EventsIn
<1>4. signals \in Seq(S) /\ Dummy \in S
  BY <1>2, SeqMonotonic
<1> HIDE DEF S
<1>5. one \in Seq(S) /\ ToSet(one) = {Dummy}
  BY <1>4, SingleMembers
<1>6. signals' = one \o signals
  BY <1>1
<1> HIDE DEF one
<1>7. signals' \in Seq(S) /\ Dummy \in ToSet(signals')
  <2>1. one \o signals \in Seq(S) /\ ToSet(one \o signals) = ToSet(one) \cup ToSet(signals)
    BY <1>4, <1>5, ConcatMembers
  <2> QED
    BY <1>5, <1>6, <2>1
<1>8. DummyIsThere'
  BY <1>1, <1>7 DEF DummyIsThere
<1>9. HeadsFound'
  BY <1>1 DEF IInv, HeadsFound
<1> QED
  BY <1>1, <1>2, <1>3, <1>7, <1>8, <1>9, BetweenStep DEF IInv, TypeOK, report, Phases

LEMMA SetDummyTimerStep == ASSUME IInv, SetDummyTimer PROVE IInv'
<1>1. /\ pc = "unset" /\ pc' = "created" /\ timers' \in Insertions(timers, Dummy)
      /\ UNCHANGED <<handles, protocols, ifaces, byProtocol, notifies, events, signals, left,
                     phase, created, heads, mImageStruct, cursor, report, failed>>
  BY DEF SetDummyTimer
<1>2. signals \in Seq(Events) /\ timers \in Seq(Events)
  BY <1>1, SettledLists DEF IInv, Settled
<1>3. phase = "timers" /\ created
  BY <1>1 DEF IInv, DummyIsThere
<1> DEFINE S == Events \cup {Dummy}
<1>4. EventsIn("signals")' = Events /\ EventsIn("timers")' = S
  BY <1>1, <1>3 DEF EventsIn
<1>5. timers \in Seq(S) /\ Dummy \in S
  BY <1>2, SeqMonotonic
<1> HIDE DEF S
<1>6. timers' \in Seq(S) /\ Dummy \in ToSet(timers')
  BY <1>1, <1>5, InsertionsMembers
<1>7. DummyIsThere'
  BY <1>1, <1>3, <1>6 DEF DummyIsThere
<1>8. HeadsFound'
  BY <1>1 DEF IInv, HeadsFound
<1> QED
  BY <1>1, <1>2, <1>4, <1>6, <1>7, <1>8, BetweenStep DEF IInv, TypeOK, report, cursor

(* The dummy is in the list whose head is sought.                           *)
LEMMA FindEventListStep == ASSUME IInv, FindEventList PROVE IInv'
<1>1. /\ pc = "created" /\ pc' = "found"
      /\ heads' = [heads EXCEPT ![phase] =
                     IF phase = "signals" THEN GetDxeCoreEventSignalQueue ELSE GetDxeCoreTimerList]
      /\ UNCHANGED <<core, phase, created, mImageStruct, cursor, report, failed>>
  BY DEF FindEventList
<1>2. phase \in {"signals", "timers"} /\ created
      /\ Dummy \in ToSet(IF phase = "signals" THEN signals ELSE timers)
  BY <1>1 DEF IInv, DummyIsThere
<1> DEFINE S == Events \cup {Dummy}
<1>3. signals \in Seq(S) /\ timers \in Seq(S)
  BY EventLists DEF IInv
<1> HIDE DEF S
<1>4. (IF phase = "signals" THEN GetDxeCoreEventSignalQueue ELSE GetDxeCoreTimerList) = ListHead
  BY <1>2, <1>3, HeadIsFound DEF GetDxeCoreEventSignalQueue, GetDxeCoreTimerList
<1>5. heads \in [Phases -> {ListHead, NULL}] /\ phase \in Phases
  BY DEF IInv, TypeOK
<1>6. /\ heads' \in [Phases -> {ListHead, NULL}] /\ heads'[phase] = ListHead
      /\ \A p \in Phases : p # phase => heads'[p] = heads[p]
  BY <1>1, <1>4, <1>5
<1>7. EventsIn("signals")' = EventsIn("signals") /\ EventsIn("timers")' = EventsIn("timers")
  BY <1>1 DEF EventsIn
<1>8. DummyIsThere'
  BY <1>1, <1>2 DEF DummyIsThere
<1>9. HeadsFound'
  BY <1>1, <1>2, <1>6 DEF IInv, HeadsFound, Phases
<1> QED
  BY <1>1, <1>5, <1>6, <1>7, <1>8, <1>9, BetweenStep DEF IInv, TypeOK, core, report

(* The dummy event leaves before its list is dumped.                        *)
LEMMA DumpEventListStep == ASSUME IInv, DumpEventList PROVE IInv'
<1>1. /\ pc = "found" /\ created' = FALSE /\ heads' = heads /\ failed' = failed
      /\ signals' = Remaining(signals, {Dummy}) /\ timers' = Remaining(timers, {Dummy})
  BY DEF DumpEventList
<1>2. phase \in {"signals", "timers"} /\ heads \in [Phases -> {ListHead, NULL}]
  BY <1>1 DEF IInv, DummyIsThere, TypeOK
<1>3. signals' \in Seq(Events) /\ timers' \in Seq(Events)
  <2>1. signals \in Seq(Events \cup {Dummy}) /\ timers \in Seq(Events \cup {Dummy})
    BY EventLists DEF IInv
  <2> QED
    BY <1>1, <2>1, WithoutDummy
<1>4. /\ heads["handles"] = ListHead /\ heads["protocols"] = ListHead
      /\ phase = "timers" /\ ~failed => heads["signals"] = ListHead
      /\ ~failed => heads[phase] = ListHead
  BY <1>1 DEF IInv, HeadsFound
<1>5. CASE heads[phase] # NULL
  <2>1. Begin(phase) /\ phase \in Phases /\ heads'[phase] = ListHead
    BY <1>1, <1>2, <1>5 DEF DumpEventList, Phases
  <2> QED
    BY <1>1, <1>2, <1>3, <1>4, <2>1, BeginStep
<1>6. CASE heads[phase] = NULL
  <2>1. failed
    BY <1>4, <1>6, NodesAssumption
  <2>2. /\ pc' = "done" /\ phase' = phase
        /\ UNCHANGED <<handles, protocols, ifaces, byProtocol, notifies, events, left,
                       mImageStruct, cursor, named, printed>>
    BY <1>6 DEF DumpEventList, GiveUp, report
  <2>3. EventsIn("signals")' = Events /\ EventsIn("timers")' = Events
    BY <2>2 DEF EventsIn
  <2>4. DummyIsThere' /\ HeadsFound'
    BY <1>1, <1>4, <2>1, <2>2 DEF DummyIsThere, HeadsFound
  <2> QED
    BY <1>1, <1>2, <1>3, <2>2, <2>3, <2>4, BetweenStep DEF IInv, TypeOK
<1> QED
  BY <1>5, <1>6

(* Steps that leave the lists, the links, the heads and the names alone.    *)
LEMMA QuietSteps ==
  ASSUME IInv, NoSignalEvent \/ CreateTimerEvent \/ NoTimerEvent \/ TimerNotSet \/ LinkOverwritten \/ Exit
  PROVE  IInv'
<1>1. /\ UNCHANGED <<core, heads, mImageStruct, cursor, named>>
      /\ phase \in Phases /\ printed \subseteq ListedNodes /\ heads \in [Phases -> {ListHead, NULL}]
      /\ printed' \subseteq printed /\ created \in BOOLEAN
  BY DEF IInv, TypeOK, NoSignalEvent, CreateTimerEvent, NoTimerEvent, TimerNotSet,
         LinkOverwritten, Exit, report
<1>2. /\ phase' \in Phases /\ created' \in BOOLEAN /\ DummyIsThere' /\ HeadsFound'
      /\ pc \in {"end", "unset", "walk"} /\ pc' \in {"end", "unset", "found", "lost", "done"}
  <2>1. CASE NoSignalEvent
    <3>1. pc = "end" /\ pc' = "end" /\ phase' = "signals" /\ failed' = TRUE /\ created' = created
      BY <2>1 DEF NoSignalEvent
    <3> QED
      BY <1>1, <3>1 DEF IInv, DummyIsThere, HeadsFound, Phases
  <2>2. CASE CreateTimerEvent
    <3>1. /\ pc = "end" /\ phase = "signals" /\ failed' = failed
          /\ pc' = "unset" /\ phase' = "timers" /\ created' = TRUE
      BY <2>2 DEF CreateTimerEvent
    <3> QED
      BY <1>1, <3>1 DEF IInv, DummyIsThere, HeadsFound, Phases
  <2>3. CASE NoTimerEvent
    <3>1. pc = "end" /\ pc' = "done" /\ phase' = phase /\ failed' = TRUE /\ created' = created
      BY <2>3 DEF NoTimerEvent
    <3> QED
      BY <1>1, <3>1 DEF IInv, DummyIsThere, HeadsFound, Phases
  <2>4. CASE TimerNotSet
    <3>1. pc = "unset" /\ pc' = "found" /\ phase' = phase /\ failed' = TRUE /\ created' = created
      BY <2>4 DEF TimerNotSet
    <3> QED
      BY <1>1, <3>1 DEF IInv, DummyIsThere, HeadsFound, Phases
  <2>5. CASE LinkOverwritten
    <3>1. /\ pc = "walk" /\ pc' = "lost" /\ phase' = phase /\ failed' = failed
          /\ created' = created
      BY <2>5 DEF LinkOverwritten, Walking
    <3> QED
      BY <1>1, <3>1 DEF IInv, DummyIsThere, HeadsFound, Phases
  <2>6. CASE Exit
    <3>1. /\ pc = "end" /\ phase = "timers" /\ pc' = "done" /\ phase' = phase
          /\ failed' = failed /\ created' = created
      BY <2>6 DEF Exit
    <3> QED
      BY <1>1, <3>1 DEF IInv, DummyIsThere, HeadsFound, Phases
  <2> QED
    BY <2>1, <2>2, <2>3, <2>4, <2>5, <2>6
<1>3. signals' \in Seq(EventsIn("signals")') /\ timers' \in Seq(EventsIn("timers")')
  <2>1. signals \in Seq(Events) /\ timers \in Seq(Events)
    BY <1>2, SettledLists DEF IInv, Settled
  <2>2. \A q : EventsIn(q)' \in {Events, Events \cup {Dummy}}
    BY DEF EventsIn
  <2>3. \A s : s \in Seq(Events) => s \in Seq(Events \cup {Dummy})
    BY SeqMonotonic
  <2> QED
    BY <1>1, <2>1, <2>2, <2>3 DEF core
<1>4. TypeOK'
  BY <1>1, <1>2, <1>3 DEF IInv, TypeOK, LinksLead, core, cursor
<1>5. LinksGoOn' /\ ImagesStay' /\ CursorsHaveLinks'
  BY <1>1, <1>2 DEF IInv, LinksGoOn, ImagesStay, CursorsHaveLinks, core
<1>6. NamesAreFixed'
  BY <1>1, <1>2 DEF IInv, NamesAreFixed, AddressToImageName, AddressToImageNameEx
<1> QED
  BY <1>2, <1>4, <1>5, <1>6 DEF IInv

(* What is printed at a node of a list is a node, with its owner's name.    *)
LEMMA ArriveNames ==
  ASSUME IInv, NEW l \in ListNames, NEW n \in NodesIn(l), Arrive(l, n), mImageStruct' = mImageStruct,
         pc = "walk"
  PROVE  printed' \subseteq ListedNodes /\ NamesAreFixed' /\ pc' = "walk"
<1>1. n \in ListedNodes
  BY WalkLists DEF ListsAreTyped
<1>2. printed' \subseteq ListedNodes /\ pc' = "walk"
  BY <1>1 DEF IInv, TypeOK, Arrive
<1> DEFINE Fixed == {<<i, AddressToImageNameEx(i)>> : i \in Handles \X Protocols}
                      \cup {<<e, AddressToImageName(e)>> : e \in Events}
<1>3. Names(l, n) \subseteq Fixed
  <2>1. CASE l = <<"handles">> \/ l = <<"protocols">>
    <3>1. Names(l, n) = {}
      BY <2>1 DEF Names
    <3> QED
      BY <3>1
  <2>2. CASE l = <<"signals">> \/ l = <<"timers">>
    <3>1. n \in Events /\ Names(l, n) = {<<n, AddressToImageName(n)>>}
      BY <2>2 DEF Names, NodesIn
    <3> QED
      BY <3>1
  <2>3. CASE (\E h \in Handles : l = <<"on", h>>) \/ (\E p \in Protocols : l = <<"by", p>>)
    <3>1. l[1] \in {"on", "by"}
      BY <2>3
    <3>2. n \in Handles \X Protocols /\ Names(l, n) = {<<n, AddressToImageNameEx(n)>>}
      BY <3>1 DEF Names, NodesIn
    <3> QED
      BY <3>2
  <2>4. CASE \E p \in Protocols : l = <<"notify", p>>
    <3>1. l[1] = "notify"
      BY <2>4
    <3>2. n[2] \in Events /\ Names(l, n) = {<<n[2], AddressToImageName(n[2])>>}
      BY <3>1 DEF Names, NodesIn
    <3> QED
      BY <3>2
  <2> QED
    BY <2>1, <2>2, <2>3, <2>4, ListNameCases
<1>4. named' \subseteq named \cup Names(l, n)
  BY DEF Arrive
<1>5. named' \subseteq Fixed
  BY <1>3, <1>4 DEF IInv, NamesAreFixed
<1>6. NamesAreFixed'
  BY <1>2, <1>5 DEF NamesAreFixed, AddressToImageName, AddressToImageNameEx
<1> QED
  BY <1>2, <1>6

(* A step of a walk, as far as the links go.                                *)
LEMMA WalkStep ==
  ASSUME IInv, UNCHANGED <<core, phase, created, heads, mImageStruct, failed>>, pc = "walk",
         inner' \in Seq(ListNames), printed' \subseteq ListedNodes, NamesAreFixed',
         \/ pc' \in {"lost", "end"}
         \/ /\ pc' = "walk" /\ HasLink(<<phase>>, at')
            /\ IF inner' = <<>> THEN sub' = ListHead ELSE HasLink(Head(inner'), sub')
  PROVE  IInv'
<1>1. TypeOK'
  <2>1. signals \in Seq(Events) /\ timers \in Seq(Events)
    BY WalkLists
  <2>2. EventsIn("signals")' = Events /\ EventsIn("timers")' = Events
    BY DEF EventsIn
  <2> QED
    BY <2>1, <2>2 DEF IInv, TypeOK, LinksLead, core
<1>2. LinksGoOn' /\ ImagesStay'
  BY DEF IInv, LinksGoOn, HasLink, OnList, List, ImagesStay, core
<1>3. CursorsHaveLinks'
  BY DEF CursorsHaveLinks, HasLink, OnList, List, core
<1>4. HeadsFound' /\ DummyIsThere'
  BY DEF IInv, HeadsFound, DummyIsThere, core
<1> QED
  BY <1>1, <1>2, <1>3, <1>4 DEF IInv

(* A link that leads to no node ends the dump.                              *)
LEMMA NotANodeStep ==
  ASSUME IInv, UNCHANGED <<core, phase, created, heads, mImageStruct, failed>>, pc = "walk",
         NEW n, NotANode(n)
  PROVE  IInv'
<1>1. pc' = "lost" /\ UNCHANGED <<cursor, printed, named>>
  BY DEF NotANode
<1>2. inner' \in Seq(ListNames) /\ printed' \subseteq ListedNodes
  BY <1>1 DEF IInv, TypeOK, cursor
<1>3. NamesAreFixed'
  BY <1>1 DEF IInv, NamesAreFixed, AddressToImageName, AddressToImageNameEx
<1> QED
  BY <1>1, <1>2, <1>3, WalkStep

LEMMA DumpInnerStep == ASSUME IInv, DumpInner PROVE IInv'
<1> DEFINE l == Head(inner)
           n == NextOf(l, sub)
<1>1. /\ pc = "walk" /\ inner # <<>> /\ inner \in Seq(ListNames)
      /\ HasLink(<<phase>>, at) /\ HasLink(l, sub)
      /\ UNCHANGED <<core, phase, created, heads, mImageStruct, failed>>
  BY DEF DumpInner, Walking, IInv, TypeOK, CursorsHaveLinks
<1>2. l \in ListNames /\ Tail(inner) \in Seq(ListNames)
  BY <1>1, HeadTailProperties
<1>3. n \in NodesIn(l) \cup {ListHead, NULL} /\ (n # NULL => HasLink(l, n))
  <2> HIDE DEF l
  <2> QED
    BY <1>1, <1>2, NextOfType
<1>4. \/ /\ n = ListHead
         /\ inner' = Tail(inner) /\ sub' = ListHead
         /\ UNCHANGED <<pc, at, printed, again, named>>
      \/ Arrive(l, n) /\ sub' = n /\ UNCHANGED <<at, inner>>
      \/ NotANode(n)
  BY DEF DumpInner
<1>5. CASE /\ n = ListHead
           /\ inner' = Tail(inner) /\ sub' = ListHead
           /\ UNCHANGED <<pc, at, printed, again, named>>
  <2>1. NamesAreFixed' /\ printed' \subseteq ListedNodes
    BY <1>1, <1>5 DEF IInv, TypeOK, NamesAreFixed, AddressToImageName, AddressToImageNameEx
  <2>2. HasLink(<<phase>>, at') /\ HasLink(Head(inner'), sub')
    BY <1>1, <1>5 DEF HasLink, OnList
  <2> QED
    BY <1>1, <1>2, <1>5, <2>1, <2>2, WalkStep
<1>6. CASE Arrive(l, n) /\ sub' = n /\ UNCHANGED <<at, inner>>
  <2>1. n \in NodesIn(l) /\ n # NULL
    BY <1>3, <1>6 DEF Arrive
  <2>2. HasLink(Head(inner'), sub')
    BY <1>3, <1>6, <2>1
  <2> HIDE DEF l, n
  <2>3. printed' \subseteq ListedNodes /\ NamesAreFixed' /\ pc' = "walk"
    BY <1>1, <1>2, <1>6, <2>1, ArriveNames
  <2> QED
    BY <1>1, <1>6, <2>2, <2>3, WalkStep
<1>7. CASE NotANode(n)
  <2> HIDE DEF n
  <2> QED
    BY <1>1, <1>7, NotANodeStep
<1> QED
  BY <1>4, <1>5, <1>6, <1>7

LEMMA InnerListsType ==
  ASSUME IInv, NEW n \in NodesIn(<<phase>>)
  PROVE  InnerLists(n) \in Seq(ListNames)
<1>1. CASE phase = "handles"
  <2>1. n \in Handles /\ InnerLists(n) = <<<<"on", n>>>>
    BY <1>1 DEF NodesIn, InnerLists
  <2>2. <<"on", n>> \in ListNames
    BY <2>1 DEF ListNames
  <2> QED
    BY <2>1, <2>2
<1>2. CASE phase = "protocols"
  <2>1. n \in Protocols /\ InnerLists(n) = <<<<"by", n>>, <<"notify", n>>>>
    BY <1>2 DEF NodesIn, InnerLists
  <2>2. <<"by", n>> \in ListNames /\ <<"notify", n>> \in ListNames
    BY <2>1 DEF ListNames
  <2> QED
    BY <2>1, <2>2
<1>3. CASE phase \notin {"handles", "protocols"}
  <2>1. InnerLists(n) = <<>>
    BY <1>3 DEF InnerLists
  <2> QED
    BY <2>1
<1> QED
  BY <1>1, <1>2, <1>3

LEMMA DumpOuterStep == ASSUME IInv, DumpOuter PROVE IInv'
<1> DEFINE l == <<phase>>
           n == NextOf(l, at)
<1>1. /\ pc = "walk" /\ inner = <<>> /\ HasLink(l, at) /\ sub = ListHead
      /\ l \in ListNames /\ phase \in Phases
      /\ UNCHANGED <<core, phase, created, heads, mImageStruct, failed>>
  BY DEF DumpOuter, Walking, IInv, TypeOK, CursorsHaveLinks, ListNames
<1>2. n \in NodesIn(l) \cup {ListHead, NULL} /\ (n # NULL => HasLink(l, n))
  <2> HIDE DEF l
  <2> QED
    BY <1>1, NextOfType
<1>3. \/ n = ListHead /\ pc' = "end" /\ UNCHANGED <<cursor, printed, again, named>>
      \/ Arrive(l, n) /\ at' = n /\ inner' = InnerLists(n) /\ UNCHANGED sub
      \/ NotANode(n)
  BY DEF DumpOuter
<1>4. CASE n = ListHead /\ pc' = "end" /\ UNCHANGED <<cursor, printed, again, named>>
  <2>1. NamesAreFixed' /\ printed' \subseteq ListedNodes /\ inner' \in Seq(ListNames)
    BY <1>1, <1>4 DEF IInv, TypeOK, cursor, NamesAreFixed, AddressToImageName, AddressToImageNameEx
  <2> QED
    BY <1>1, <1>4, <2>1, WalkStep
<1>5. CASE Arrive(l, n) /\ at' = n /\ inner' = InnerLists(n) /\ UNCHANGED sub
  <2>1. n \in NodesIn(l) /\ n # NULL
    BY <1>2, <1>5 DEF Arrive
  <2>2. inner' \in Seq(ListNames)
    BY <1>5, <2>1, InnerListsType
  <2>3. HasLink(l, at') /\ HasLink(Head(inner'), sub') /\ sub' = ListHead
    BY <1>1, <1>2, <1>5, <2>1 DEF HasLink, OnList
  <2> HIDE DEF n
  <2>4. printed' \subseteq ListedNodes /\ NamesAreFixed' /\ pc' = "walk"
    <3> HIDE DEF l
    <3> QED
      BY <1>1, <1>5, <2>1, ArriveNames
  <2> QED
    BY <1>1, <2>2, <2>3, <2>4, WalkStep
<1>6. CASE NotANode(n)
  <2> HIDE DEF n
  <2> QED
    BY <1>1, <1>6, NotANodeStep
<1> QED
  BY <1>3, <1>4, <1>5, <1>6

(***************************************************************************)
(* The invariant and what follows from it                                  *)
(***************************************************************************)

LEMMA NextIInv == IInv /\ [Next]_vars => IInv'
<1> SUFFICES ASSUME IInv, [Next]_vars PROVE IInv'
  OBVIOUS
<1>1. CASE UNCHANGED vars
  <2>1. TypeOK'
    BY <1>1 DEF vars, IInv, TypeOK, EventsIn, LinksLead, core, cursor, report
  <2>2. LinksGoOn' /\ ImagesStay' /\ CursorsHaveLinks'
    BY <1>1 DEF vars, IInv, LinksGoOn, HasLink, OnList, List, ImagesStay, CursorsHaveLinks,
       core, cursor
  <2>3. DummyIsThere' /\ HeadsFound' /\ NamesAreFixed'
    BY <1>1 DEF vars, IInv, DummyIsThere, HeadsFound, NamesAreFixed, AddressToImageName,
       AddressToImageNameEx, core, report
  <2> QED
    BY <2>1, <2>2, <2>3 DEF IInv
<1> QED
  BY <1>1, InstallProtocolStep, ReinstallProtocolStep, UninstallProtocolStep,
     RegisterProtocolNotifyStep, CreateEventStep, SetTimerSteps, TimerExpiresStep, CloseEventStep,
     GetLoadedImageStep, DumpHandleListStep, DumpProtocolDatabaseStep, CreateSignalEventStep,
     SetDummyTimerStep, FindEventListStep, DumpEventListStep, QuietSteps, DumpInnerStep,
     DumpOuterStep DEF Next

(* Every list is well formed, and what a cursor stands on has a link that   *)
(* leads to a node of its list, whatever callbacks put in and take out.     *)
THEOREM Invariance == Spec => []IInv
<1> QED
  BY InitIInv, NextIInv, PTL DEF Spec

(* The dummy events are closed before a walk begins and before the program  *)
(* ends, whichever of the calls fail, and are never printed.                *)
THEOREM DummyIsGone == Spec => []NothingLeftBehind
<1>1. IInv => NothingLeftBehind
  <2> SUFFICES ASSUME IInv, pc \in {"walk", "end", "lost", "done"}
               PROVE ~created /\ Dummy \notin ToSet(signals) \cup ToSet(timers) \cup printed
    BY DEF NothingLeftBehind
  <2>1. ToSet(signals) \subseteq Events /\ ToSet(timers) \subseteq Events
    BY SettledLists, MembersOfSeq DEF IInv, Settled
  <2>2. Dummy \notin ListedNodes
    BY NodesAssumption
  <2>3. ~created
    BY DEF IInv, DummyIsThere
  <2> QED
    BY <2>1, <2>2, <2>3 DEF IInv, TypeOK, ListedNodes
<1> QED
  BY <1>1, Invariance, PTL

(* What is printed with an image's name is that image's.                    *)
THEOREM NamesAreTheOwners == Spec => []NamesAreOwners
<1>1. IInv => NamesAreOwners
  <2> SUFFICES ASSUME IInv PROVE NamesAreOwners
    OBVIOUS
  <2>1. ASSUME NEW name \in named
        PROVE  \/ name[1] \in Handles \X Protocols
                  /\ name = <<name[1], AddressToImageNameEx(name[1])>>
               \/ name[1] \in Events /\ name = <<name[1], AddressToImageName(name[1])>>
    BY DEF IInv, NamesAreFixed
  <2>2. Events \cap (Handles \X Protocols) = {}
    BY NodesAssumption
  <2>3. ASSUME NEW name \in named
        PROVE  name[2] \in {NULL, GetDriverNameString(Owner(name[1]))}
    <3>1. CASE name[1] \in Handles \X Protocols /\ name = <<name[1], AddressToImageNameEx(name[1])>>
      <4>1. name[2] = AddressToImageNameEx(name[1]) /\ Owner(name[1]) = Image[name[1][1]]
        BY <3>1 DEF Owner
      <4> QED
        BY <4>1 DEF AddressToImageNameEx, AddressToImageName
    <3>2. CASE name[1] \in Events /\ name = <<name[1], AddressToImageName(name[1])>>
      <4>1. name[2] = AddressToImageName(name[1]) /\ Owner(name[1]) = Image[name[1]]
        BY <2>2, <3>2 DEF Owner
      <4> QED
        BY <4>1 DEF AddressToImageName
    <3> QED
      BY <2>1, <3>1, <3>2
  <2>4. \A one, other \in named : one[1] = other[1] => one = other
    BY <2>1, <2>2
  <2> QED
    BY <2>3, <2>4 DEF NamesAreOwners
<1> QED
  BY <1>1, Invariance, PTL

(***************************************************************************)
(* The second invariant: where the cursors of a walk stand among the nodes *)
(* that are there.                                                         *)
(***************************************************************************)

(***************************************************************************)
(* The order of the nodes in a list                                        *)
(***************************************************************************)

LEMMA WhereOrder ==
  ASSUME NEW S, NEW s \in Seq(S), NEW Keep
  PROVE  \A a, b : Precedes(Where(s, Keep), a, b) <=> a \in Keep /\ b \in Keep /\ Precedes(s, a, b)
<1> DEFINE w == Where(s, Keep)
           L == Len(s)
           M == Len(w)
<1>1. w \in Seq(S)
  BY WherePlaces
<1>2. PICK place \in [1 .. M -> 1 .. L] :
        /\ \A j \in 1 .. M : w[j] = s[place[j]] /\ s[place[j]] \in Keep
        /\ \A j, k \in 1 .. M : j < k => place[j] < place[k]
        /\ \A i \in 1 .. L : s[i] \in Keep => \E j \in 1 .. M : place[j] = i
  <2>1. PICK place : Places(place, s, Keep)
    BY WherePlaces
  <2> QED
    BY <2>1 DEF Places
<1>3. DOMAIN w = 1 .. M /\ DOMAIN s = 1 .. L /\ M \in Nat /\ L \in Nat
  BY <1>1
<1> HIDE DEF w, L, M
<1> SUFFICES ASSUME NEW a, NEW b
             PROVE  Precedes(w, a, b) <=> a \in Keep /\ b \in Keep /\ Precedes(s, a, b)
  BY DEF w
<1>4. ASSUME Precedes(w, a, b) PROVE a \in Keep /\ b \in Keep /\ Precedes(s, a, b)
  <2>1. PICK j, k \in 1 .. M : j < k /\ w[j] = a /\ w[k] = b
    BY <1>3, <1>4 DEF Precedes
  <2>2. place[j] \in 1 .. L /\ place[k] \in 1 .. L /\ place[j] < place[k] /\ s[place[j]] = a /\ s[place[k]] = b
    BY <1>2, <2>1
  <2> QED
    BY <1>2, <1>3, <2>1, <2>2 DEF Precedes
<1>5. ASSUME a \in Keep, b \in Keep, Precedes(s, a, b) PROVE Precedes(w, a, b)
  <2>1. PICK i, m \in 1 .. L : i < m /\ s[i] = a /\ s[m] = b
    BY <1>3, <1>5 DEF Precedes
  <2>2. PICK j \in 1 .. M : place[j] = i
    BY <1>2, <1>5, <2>1
  <2>3. PICK k \in 1 .. M : place[k] = m
    BY <1>2, <1>5, <2>1
  <2>4. j < k
    <3>1. k < j => place[k] < place[j]
      BY <1>2
    <3>2. ~ (k < j) /\ k # j
      BY <2>1, <2>2, <2>3, <3>1
    <3> QED
      BY <1>3, <3>2
  <2>5. w[j] = a /\ w[k] = b
    BY <1>2, <2>1, <2>2, <2>3
  <2> QED
    BY <1>3, <2>4, <2>5 DEF Precedes
<1> QED
  BY <1>4, <1>5

(* What Reverse, \o and a single node do to the order.                      *)
LEMMA ReverseOrder ==
  ASSUME NEW S, NEW s \in Seq(S)
  PROVE  \A a, b : Precedes(Reverse(s), a, b) <=> Precedes(s, b, a)
<1> DEFINE L == Len(s)
           r == Reverse(s)
<1>1. L \in Nat /\ DOMAIN s = 1 .. L
  OBVIOUS
<1>2. r = [i \in 1 .. L |-> s[(L - i) + 1]]
  BY DEF Reverse
<1> HIDE DEF L, r
<1>3. DOMAIN r = 1 .. L /\ \A i \in 1 .. L : r[i] = s[(L - i) + 1]
  BY <1>2
<1>4. \A i \in 1 .. L : (L - i) + 1 \in 1 .. L /\ (L - ((L - i) + 1)) + 1 = i
  BY <1>1
<1>5. \A i, j \in 1 .. L : i < j => (L - j) + 1 < (L - i) + 1
  BY <1>1
<1> SUFFICES ASSUME NEW a, NEW b PROVE Precedes(r, a, b) <=> Precedes(s, b, a)
  BY DEF r
<1>6. ASSUME Precedes(r, a, b) PROVE Precedes(s, b, a)
  <2>1. PICK i, j \in 1 .. L : i < j /\ r[i] = a /\ r[j] = b
    BY <1>3, <1>6 DEF Precedes
  <2> QED
    BY <1>1, <1>3, <1>4, <1>5, <2>1 DEF Precedes
<1>7. ASSUME Precedes(s, b, a) PROVE Precedes(r, a, b)
  <2>1. PICK i, j \in 1 .. L : i < j /\ s[i] = b /\ s[j] = a
    BY <1>1, <1>7 DEF Precedes
  <2>2. r[(L - i) + 1] = b /\ r[(L - j) + 1] = a
    BY <1>3, <1>4, <2>1
  <2> QED
    BY <1>3, <1>4, <1>5, <2>1, <2>2 DEF Precedes
<1> QED
  BY <1>6, <1>7

LEMMA ConcatOrder ==
  ASSUME NEW S, NEW s \in Seq(S), NEW t \in Seq(S)
  PROVE  \A a, b : Precedes(s \o t, a, b)
                     <=> Precedes(s, a, b) \/ Precedes(t, a, b) \/ (a \in ToSet(s) /\ b \in ToSet(t))
<1> DEFINE L == Len(s)
           M == Len(t)
           c == s \o t
<1>1. /\ L \in Nat /\ M \in Nat /\ DOMAIN c = 1 .. L + M
      /\ DOMAIN s = 1 .. L /\ DOMAIN t = 1 .. M
      /\ \A i \in 1 .. L : c[i] = s[i]
      /\ \A i \in 1 .. M : c[L + i] = t[i]
  BY ConcatProperties
<1> HIDE DEF L, M, c
<1>2. \A i \in 1 .. L : i \in 1 .. L + M
  BY <1>1
<1>3. \A i \in 1 .. M : L + i \in 1 .. L + M
  BY <1>1
<1>4. \A i \in 1 .. L + M : i \in 1 .. L \/ (i - L \in 1 .. M /\ L + (i - L) = i /\ i > L)
  BY <1>1
<1> SUFFICES ASSUME NEW a, NEW b
             PROVE  Precedes(c, a, b)
                      <=> Precedes(s, a, b) \/ Precedes(t, a, b) \/ (a \in ToSet(s) /\ b \in ToSet(t))
  BY DEF c
<1>5. ASSUME Precedes(c, a, b)
      PROVE  Precedes(s, a, b) \/ Precedes(t, a, b) \/ (a \in ToSet(s) /\ b \in ToSet(t))
  <2>1. PICK i, j \in 1 .. L + M : i < j /\ c[i] = a /\ c[j] = b
    BY <1>1, <1>5 DEF Precedes
  <2>2. CASE i \in 1 .. L /\ j \in 1 .. L
    BY <1>1, <2>1, <2>2 DEF Precedes
  <2>3. CASE i \in 1 .. L /\ ~ (j \in 1 .. L)
    <3>1. j - L \in 1 .. M /\ t[j - L] = b /\ s[i] = a
      BY <1>1, <1>4, <2>1, <2>3
    <3> QED
      BY <1>1, <2>3, <3>1 DEF ToSet
  <2>4. CASE ~ (i \in 1 .. L)
    <3>1. i - L \in 1 .. M /\ i > L
      BY <1>4, <2>4
    <3>2. j > L /\ ~ (j \in 1 .. L)
      BY <1>1, <2>1, <3>1
    <3>3. j - L \in 1 .. M /\ i - L < j - L
      BY <1>1, <1>4, <2>1, <3>2
    <3>4. t[i - L] = a /\ t[j - L] = b
      BY <1>1, <1>4, <2>1, <2>4, <3>1, <3>2, <3>3
    <3> QED
      BY <1>1, <3>1, <3>3, <3>4 DEF Precedes
  <2> QED
    BY <2>2, <2>3, <2>4
<1>6. ASSUME Precedes(s, a, b) PROVE Precedes(c, a, b)
  BY <1>1, <1>2, <1>6 DEF Precedes
<1>7. ASSUME Precedes(t, a, b) PROVE Precedes(c, a, b)
  <2>1. PICK i, j \in 1 .. M : i < j /\ t[i] = a /\ t[j] = b
    BY <1>1, <1>7 DEF Precedes
  <2>2. L + i < L + j /\ c[L + i] = a /\ c[L + j] = b
    BY <1>1, <2>1
  <2> QED
    BY <1>1, <1>3, <2>1, <2>2 DEF Precedes
<1>8. ASSUME a \in ToSet(s), b \in ToSet(t) PROVE Precedes(c, a, b)
  <2>1. PICK i \in 1 .. L, j \in 1 .. M : s[i] = a /\ t[j] = b
    BY <1>1, <1>8 DEF ToSet
  <2>2. i < L + j /\ c[i] = a /\ c[L + j] = b
    BY <1>1, <2>1
  <2> QED
    BY <1>1, <1>2, <1>3, <2>1, <2>2 DEF Precedes
<1> QED
  BY <1>5, <1>6, <1>7, <1>8

LEMMA PrecedesListed ==
  ASSUME NEW s, NEW a, NEW b, Precedes(s, a, b)
  PROVE  a \in ToSet(s) /\ b \in ToSet(s)
BY DEF Precedes, ToSet

LEMMA SingleOrder == ASSUME NEW e PROVE \A a, b : ~ Precedes(<<e>>, a, b)
<1>1. DOMAIN <<e>> = 1 .. 1
  OBVIOUS
<1>2. \A i, j \in 1 .. 1 : ~ (i < j)
  OBVIOUS
<1> QED
  BY <1>1, <1>2 DEF Precedes

(* The order of what both lists have.                                       *)
SameOrder(s, t) ==
  \A a, b \in ToSet(s) \cap ToSet(t) : Precedes(s, a, b) <=> Precedes(t, a, b)

(* Taking nodes off keeps the order of the others.                          *)
LEMMA RemainingOrder ==
  ASSUME NEW S, NEW s \in Seq(S), NEW gone
  PROVE  /\ SameOrder(s, Remaining(s, gone))
         /\ NoneTwice(s) => NoneTwice(Remaining(s, gone))
<1> DEFINE K == ToSet(s) \ gone
           t == Remaining(s, gone)
<1>1. t = Where(s, K)
  BY DEF Remaining, ToSet
<1>2. ToSet(t) = ToSet(s) \ gone
  BY RemainingMembers
<1>3. \A a, b : Precedes(t, a, b) <=> a \in K /\ b \in K /\ Precedes(s, a, b)
  BY <1>1, WhereOrder
<1> HIDE DEF t
<1> QED
  BY <1>2, <1>3 DEF t, SameOrder, NoneTwice

(* A node that is put in at the end, at the front, or anywhere.             *)
LEMMA PutBetween ==
  ASSUME NEW S, NEW front \in Seq(S), NEW back \in Seq(S), NEW e \in S,
         e \notin ToSet(front \o back)
  PROVE  /\ SameOrder(front \o back, (front \o <<e>>) \o back)
         /\ NoneTwice(front \o back) => NoneTwice((front \o <<e>>) \o back)
<1> DEFINE s == front \o back
           t == (front \o <<e>>) \o back
           one == <<e>>
           more == front \o one
<1>1. one \in Seq(S) /\ ToSet(one) = {e} /\ \A a, b : ~ Precedes(one, a, b)
  BY SingleMembers, SingleOrder
<1> HIDE DEF one
<1>2. /\ more \in Seq(S) /\ ToSet(more) = ToSet(front) \cup {e}
      /\ \A a, b : Precedes(more, a, b)
                     <=> Precedes(front, a, b) \/ (a \in ToSet(front) /\ b = e)
  <2>1. more \in Seq(S) /\ ToSet(more) = ToSet(front) \cup ToSet(one)
    BY <1>1, ConcatMembers
  <2>2. \A a, b : Precedes(more, a, b)
          <=> Precedes(front, a, b) \/ Precedes(one, a, b) \/ (a \in ToSet(front) /\ b \in ToSet(one))
    BY <1>1, ConcatOrder
  <2> HIDE DEF more
  <2> QED
    BY <1>1, <2>1, <2>2
<1>3. /\ ToSet(t) = ToSet(more) \cup ToSet(back)
      /\ \A a, b : Precedes(t, a, b)
           <=> Precedes(more, a, b) \/ Precedes(back, a, b) \/ (a \in ToSet(more) /\ b \in ToSet(back))
  <2>1. t = more \o back
    BY DEF one
  <2> HIDE DEF more
  <2>2. ToSet(more \o back) = ToSet(more) \cup ToSet(back)
    BY <1>2, ConcatMembers
  <2>3. \A a, b : Precedes(more \o back, a, b)
           <=> Precedes(more, a, b) \/ Precedes(back, a, b) \/ (a \in ToSet(more) /\ b \in ToSet(back))
    BY <1>2, ConcatOrder
  <2> QED
    BY <2>1, <2>2, <2>3
<1>4. /\ ToSet(s) = ToSet(front) \cup ToSet(back)
      /\ \A a, b : Precedes(s, a, b)
           <=> Precedes(front, a, b) \/ Precedes(back, a, b) \/ (a \in ToSet(front) /\ b \in ToSet(back))
  BY ConcatMembers, ConcatOrder
<1>4a. e \notin ToSet(s)
  OBVIOUS
<1> HIDE DEF more, s, t
<1>5. \A a, b : Precedes(front, a, b) => a \in ToSet(front) /\ b \in ToSet(front)
  BY PrecedesListed
<1>6. \A a, b : Precedes(back, a, b) => a \in ToSet(back) /\ b \in ToSet(back)
  BY PrecedesListed
<1>7. e \notin ToSet(front) /\ e \notin ToSet(back)
  BY <1>4, <1>4a
<1>8. ToSet(t) = ToSet(s) \cup {e}
  BY <1>2, <1>3, <1>4
<1>9. SameOrder(s, t)
  BY <1>2, <1>3, <1>4, <1>5, <1>6, <1>7 DEF SameOrder
<1>10. NoneTwice(s) => NoneTwice(t)
  <2> SUFFICES ASSUME NoneTwice(s), NEW a \in ToSet(t), Precedes(t, a, a) PROVE FALSE
    BY DEF NoneTwice
  <2>1. a # e
    BY <1>2, <1>3, <1>5, <1>6, <1>7
  <2>2. Precedes(s, a, a) /\ a \in ToSet(s)
    BY <1>2, <1>3, <1>4, <1>8, <2>1
  <2> QED
    BY <2>2 DEF NoneTwice
<1> QED
  BY <1>9, <1>10 DEF s, t

LEMMA AppendOrder ==
  ASSUME NEW S, NEW s \in Seq(S), NEW e \in S, e \notin ToSet(s)
  PROVE  SameOrder(s, Append(s, e)) /\ (NoneTwice(s) => NoneTwice(Append(s, e)))
<1>1. <<>> \in Seq(S) /\ s = s \o <<>>
  OBVIOUS
<1>2. Append(s, e) = (s \o <<e>>) \o <<>>
  OBVIOUS
<1>3. e \notin ToSet(s \o <<>>)
  BY <1>1
<1>4. /\ SameOrder(s \o <<>>, (s \o <<e>>) \o <<>>)
      /\ NoneTwice(s \o <<>>) => NoneTwice((s \o <<e>>) \o <<>>)
  BY <1>1, <1>3, PutBetween
<1> QED
  BY ONLY <1>1, <1>2, <1>4

LEMMA FrontOrder ==
  ASSUME NEW S, NEW s \in Seq(S), NEW e \in S, e \notin ToSet(s)
  PROVE  SameOrder(s, <<e>> \o s) /\ (NoneTwice(s) => NoneTwice(<<e>> \o s))
<1>1. <<>> \in Seq(S) /\ s = <<>> \o s
  OBVIOUS
<1>2. <<e>> \o s = (<<>> \o <<e>>) \o s
  OBVIOUS
<1>3. e \notin ToSet(<<>> \o s)
  BY <1>1
<1>4. /\ SameOrder(<<>> \o s, (<<>> \o <<e>>) \o s)
      /\ NoneTwice(<<>> \o s) => NoneTwice((<<>> \o <<e>>) \o s)
  BY <1>1, <1>3, PutBetween
<1> QED
  BY ONLY <1>1, <1>2, <1>4

LEMMA UnchangedOrder == ASSUME NEW s PROVE SameOrder(s, s)
BY DEF SameOrder

(* The order of what both have and has not been moved.                      *)
Unmoved(s, t, moved) ==
  \A a, b \in (ToSet(s) \cap ToSet(t)) \ moved : Precedes(s, a, b) <=> Precedes(t, a, b)

LEMMA NoneMoved == ASSUME NEW s, NEW t, SameOrder(s, t) PROVE Unmoved(s, t, {})
BY DEF SameOrder, Unmoved

LEMMA AppendNewOrder ==
  ASSUME NEW S, NEW s \in Seq(S), NEW e \in S
  PROVE  SameOrder(s, AppendNew(s, e)) /\ (NoneTwice(s) => NoneTwice(AppendNew(s, e)))
BY AppendOrder, UnchangedOrder DEF AppendNew

LEMMA InsertionOrder ==
  ASSUME NEW S, NEW s \in Seq(S), NEW e \in S, e \notin ToSet(s), NEW t \in Insertions(s, e)
  PROVE  SameOrder(s, t) /\ (NoneTwice(s) => NoneTwice(t))
<1>1. PICK k \in 1 .. Len(s) + 1 : t = InsertAt(s, k, e)
  BY DEF Insertions
<1> DEFINE front == SubSeq(s, 1, k - 1)
           back == SubSeq(s, k, Len(s))
<1>2. t = (front \o <<e>>) \o back
  BY <1>1 DEF InsertAt
<1>3. Len(s) \in Nat /\ \A i \in 1 .. Len(s) : s[i] \in S
  OBVIOUS
<1>4. front \in Seq(S)
  <2>1. \A i \in 1 .. k - 1 : s[i] \in S
    BY <1>3
  <2>2. 1 \in Int /\ k - 1 \in Int
    BY <1>3
  <2> QED
    BY <2>1, <2>2, SubSeqProperties
<1>5. back \in Seq(S)
  <2>1. \A i \in k .. Len(s) : s[i] \in S
    BY <1>3
  <2>2. k \in Int /\ Len(s) \in Int
    BY <1>3
  <2> QED
    BY <2>1, <2>2, SubSeqProperties
<1>6. s = front \o back
  <2>1. 1 \in 1 .. Len(s) + 1 /\ k - 1 \in 1 - 1 .. Len(s) /\ Len(s) \in k - 1 .. Len(s)
        /\ (k - 1) + 1 = k
    BY <1>3
  <2>2. SubSeq(s, 1, k - 1) \o SubSeq(s, (k - 1) + 1, Len(s)) = SubSeq(s, 1, Len(s))
    BY <2>1, ConcatAdjacentSubSeq
  <2> QED
    BY <2>1, <2>2, SubSeqFull
<1> HIDE DEF front, back
<1>7. /\ SameOrder(front \o back, (front \o <<e>>) \o back)
      /\ NoneTwice(front \o back) => NoneTwice((front \o <<e>>) \o back)
  <2>1. e \notin ToSet(front \o back)
    BY <1>6
  <2> QED
    BY <1>4, <1>5, <2>1, PutBetween
<1> QED
  BY ONLY <1>2, <1>6, <1>7

(***************************************************************************)
(* A step from one node to the next                                        *)
(***************************************************************************)

BehindIn(s, n) == IF n = ListHead THEN ToSet(s) ELSE {m \in ToSet(s) : Precedes(s, n, m)}

(* What was to come behind n is the next node and what comes behind that.   *)
LEMMA AfterIsNext ==
  ASSUME NEW S, NEW s \in Seq(S), NoneTwice(s), ListHead \notin ToSet(s),
         NEW n, n = ListHead \/ n \in ToSet(s)
  PROVE  \/ After(s, n) = ListHead /\ BehindIn(s, n) = {}
         \/ /\ After(s, n) \in ToSet(s)
            /\ BehindIn(s, n) = {After(s, n)} \cup BehindIn(s, After(s, n))
            /\ After(s, n) \notin BehindIn(s, After(s, n))
<1> DEFINE i == IF n = ListHead THEN 0 ELSE CHOOSE j \in DOMAIN s : s[j] = n
           L == Len(s)
           a == After(s, n)
<1>1. L \in Nat /\ DOMAIN s = 1 .. L /\ ToSet(s) = {s[j] : j \in 1 .. L}
  BY MembersOfSeq
<1>2. i \in 0 .. L /\ (n # ListHead => i \in 1 .. L /\ s[i] = n)
  <2>1. CASE n = ListHead
    BY <1>1, <2>1
  <2>2. CASE n # ListHead
    <3>1. \E j \in DOMAIN s : s[j] = n
      BY <2>2 DEF ToSet
    <3>2. i = CHOOSE j \in DOMAIN s : s[j] = n
      BY <2>2
    <3>3. i \in DOMAIN s /\ s[i] = n
      BY <3>1, <3>2
    <3> QED
      BY <1>1, <3>3
  <2> QED
    BY <2>1, <2>2
<1>3. a = IF i = L THEN ListHead ELSE s[i + 1]
  BY DEF After
<1> HIDE DEF i, L, a
<1>4. \A j, k \in 1 .. L : s[j] = s[k] => j = k
  <2> SUFFICES ASSUME NEW j \in 1 .. L, NEW k \in 1 .. L, s[j] = s[k], j < k PROVE FALSE
    BY <1>1
  <2> QED
    BY <1>1 DEF NoneTwice, Precedes
<1>5. BehindIn(s, n) = {s[j] : j \in {k \in 1 .. L : i < k}}
  <2>1. CASE n = ListHead
    <3>1. i = 0 /\ {k \in 1 .. L : i < k} = 1 .. L
      BY <1>1, <2>1 DEF i
    <3> QED
      BY <1>1, <2>1, <3>1 DEF BehindIn
  <2>2. CASE n # ListHead
    <3>1. BehindIn(s, n) = {m \in ToSet(s) : \E j, k \in 1 .. L : j < k /\ s[j] = n /\ s[k] = m}
      BY <1>1, <2>2 DEF BehindIn, Precedes
    <3>2. \A j \in 1 .. L : s[j] = n <=> j = i
      BY <1>2, <1>4, <2>2
    <3> QED
      BY <1>1, <1>2, <2>2, <3>1, <3>2
  <2> QED
    BY <2>1, <2>2
<1>6. CASE i = L
  <2>1. {k \in 1 .. L : i < k} = {}
    BY <1>1, <1>6
  <2> QED
    BY <1>3, <1>5, <1>6, <2>1 DEF a
<1>7. CASE i # L
  <2>1. i + 1 \in 1 .. L /\ a = s[i + 1] /\ a \in ToSet(s) /\ a # ListHead
    BY <1>1, <1>2, <1>3, <1>7
  <2>2. BehindIn(s, a) = {s[j] : j \in {k \in 1 .. L : i + 1 < k}}
    <3>1. BehindIn(s, a) = {m \in ToSet(s) : \E j, k \in 1 .. L : j < k /\ s[j] = a /\ s[k] = m}
      BY <1>1, <2>1 DEF BehindIn, Precedes
    <3>2. \A j \in 1 .. L : s[j] = a <=> j = i + 1
      BY <1>4, <2>1
    <3> QED
      BY <1>1, <2>1, <3>1, <3>2
  <2>3. {k \in 1 .. L : i < k} = {i + 1} \cup {k \in 1 .. L : i + 1 < k}
    BY <1>1, <1>2, <2>1
  <2>4. BehindIn(s, n) = {a} \cup BehindIn(s, a)
    BY <1>5, <2>1, <2>2, <2>3
  <2>5. a \notin BehindIn(s, a)
    BY <2>1 DEF BehindIn, NoneTwice
  <2> QED
    BY <2>1, <2>4, <2>5 DEF a
<1> QED
  BY <1>6, <1>7

(* What a cursor at n will come to, if link is the link that n has left.    *)
AheadIn(s, link, n) ==
  IF n = ListHead \/ n \in ToSet(s) THEN BehindIn(s, n)
  ELSE IF link \in ToSet(s) THEN {link} \cup BehindIn(s, link) ELSE {}

DoomedIn(s, link, gone, n) == ~ (n = ListHead \/ n \in ToSet(s)) /\ link \in gone

(* Nodes come and go around a cursor: what stays is ahead of it still, or   *)
(* its link leads to freed memory.                                          *)
LEMMA AheadKept ==
  ASSUME NEW S, NEW s \in Seq(S), NEW t \in Seq(S), ListHead \notin S,
         NoneTwice(s), NEW moved, Unmoved(s, t, moved),
         NEW n, NEW link, NEW link2, NEW gone, NEW gone2,
         ToSet(s) \ ToSet(t) \subseteq gone2,
         moved = {} \/ n = ListHead \/ n \in (ToSet(s) \cap ToSet(t)) \ moved,
         n = ListHead \/ n \in ToSet(s)
           \/ /\ n \notin ToSet(t) /\ (link2 = link \/ link2 \in gone2)
              /\ link \in ToSet(s) \cup {ListHead} \cup gone /\ gone \subseteq gone2,
         n \in ToSet(s) \ ToSet(t) => link2 = After(s, n)
  PROVE  /\ DoomedIn(s, link, gone, n) => DoomedIn(t, link2, gone2, n)
         /\ \/ DoomedIn(t, link2, gone2, n)
            \/ \A x \in (ToSet(s) \cap ToSet(t)) \ moved :
                 x \in AheadIn(s, link, n) <=> x \in AheadIn(t, link2, n)
<1>1. ToSet(s) \subseteq S /\ ToSet(t) \subseteq S
  BY MembersOfSeq
<1>2. ListHead \notin ToSet(s) /\ ListHead \notin ToSet(t)
  BY <1>1
<1> DEFINE Same(m) ==
             \A x \in (ToSet(s) \cap ToSet(t)) \ moved : x \in BehindIn(s, m) <=> x \in BehindIn(t, m)
<1>3. ASSUME NEW m \in (ToSet(s) \cap ToSet(t)) \ moved PROVE Same(m)
  BY <1>2 DEF Unmoved, BehindIn
<1>4. Same(ListHead)
  BY DEF BehindIn
<1> HIDE DEF Same
<1>5. CASE n = ListHead
  BY <1>4, <1>5 DEF AheadIn, DoomedIn, Same
<1>6. CASE n \in ToSet(s) /\ n \in ToSet(t)
  BY <1>2, <1>3, <1>6 DEF AheadIn, DoomedIn, Same
<1>7. CASE n \in ToSet(s) /\ n \notin ToSet(t)
  <2>1. n # ListHead /\ link2 = After(s, n) /\ moved = {}
    BY <1>2, <1>7
  <2>2. \/ link2 = ListHead /\ BehindIn(s, n) = {}
        \/ link2 \in ToSet(s) /\ BehindIn(s, n) = {link2} \cup BehindIn(s, link2)
    BY <1>2, <1>7, <2>1, AfterIsNext
  <2>3. AheadIn(s, link, n) = BehindIn(s, n) /\ ~ DoomedIn(s, link, gone, n)
    BY <1>7 DEF AheadIn, DoomedIn
  <2>4. CASE link2 = ListHead /\ BehindIn(s, n) = {}
    <3>1. AheadIn(t, link2, n) = {}
      BY <1>2, <1>7, <2>1, <2>4 DEF AheadIn
    <3> QED
      BY <2>3, <2>4, <3>1
  <2>5. CASE link2 \in ToSet(s) /\ BehindIn(s, n) = {link2} \cup BehindIn(s, link2)
    <3>1. CASE link2 \in ToSet(t)
      <4>1. AheadIn(t, link2, n) = {link2} \cup BehindIn(t, link2)
        BY <1>7, <2>1, <3>1 DEF AheadIn
      <4>2. Same(link2)
        BY <1>3, <2>1, <2>5, <3>1
      <4> QED
        BY <2>3, <2>5, <4>1, <4>2 DEF Same
    <3>2. CASE link2 \notin ToSet(t)
      <4>1. DoomedIn(t, link2, gone2, n)
        BY <1>7, <2>1, <2>5, <3>2 DEF DoomedIn
      <4> QED
        BY <4>1
    <3> QED
      BY <3>1, <3>2
  <2> QED
    BY <2>2, <2>4, <2>5
<1>8. CASE n # ListHead /\ n \notin ToSet(s)
  <2>1. /\ n \notin ToSet(t) /\ (link2 = link \/ link2 \in gone2) /\ moved = {}
        /\ link \in ToSet(s) \cup {ListHead} \cup gone /\ gone \subseteq gone2
    BY <1>8
  <2>2. DoomedIn(s, link, gone, n) => DoomedIn(t, link2, gone2, n)
    BY <1>8, <2>1 DEF DoomedIn
  <2>3. CASE link \in gone \/ link2 \in gone2
    BY <1>8, <2>1, <2>2, <2>3 DEF DoomedIn
  <2>4. CASE link2 = link /\ link = ListHead
    <3>1. AheadIn(s, link, n) = {} /\ AheadIn(t, link2, n) = {}
      BY <1>2, <1>8, <2>1, <2>4 DEF AheadIn
    <3> QED
      BY <2>2, <3>1
  <2>5. CASE link2 = link /\ link \in ToSet(s) /\ link \in ToSet(t)
    <3>1. /\ AheadIn(s, link, n) = {link} \cup BehindIn(s, link)
          /\ AheadIn(t, link2, n) = {link} \cup BehindIn(t, link)
      BY <1>8, <2>1, <2>5 DEF AheadIn
    <3>2. Same(link)
      BY <1>3, <2>1, <2>5
    <3> QED
      BY <2>2, <3>1, <3>2 DEF Same
  <2>6. CASE link2 = link /\ link \in ToSet(s) /\ link \notin ToSet(t)
    <3>1. DoomedIn(t, link2, gone2, n)
      BY <1>8, <2>1, <2>6 DEF DoomedIn
    <3> QED
      BY <2>2, <3>1
  <2> QED
    BY <2>1, <2>3, <2>4, <2>5, <2>6
<1> QED
  BY <1>5, <1>6, <1>7, <1>8

LEMMA AheadIs ==
  ASSUME NEW l, NEW n
  PROVE  /\ Ahead(l, n) = AheadIn(List(l), left[<<l, n>>], n)
         /\ Doomed(l, n) <=> DoomedIn(List(l), left[<<l, n>>], freed \cup {NULL}, n)
<1>1. Ahead(l, n) = AheadIn(List(l), left[<<l, n>>], n)
  BY DEF Ahead, AheadIn, Behind, BehindIn, OnList
<1>2. Doomed(l, n) <=> DoomedIn(List(l), left[<<l, n>>], freed \cup {NULL}, n)
  BY DEF Doomed, DoomedIn, OnList
<1> QED
  BY <1>1, <1>2

(* The order in which the nodes come on each list.                          *)
OrderOf(l, a, b) ==
  CASE l[1] = "handles" -> Precedes(handles, a, b)
    [] l[1] = "on" -> Precedes(ifaces, b, a)
    [] l[1] = "protocols" -> Precedes(protocols, a, b)
    [] l[1] = "by" -> Precedes(byProtocol, a, b)
    [] l[1] = "notify" -> Precedes(notifies, a, b)
    [] l[1] = "signals" -> Precedes(signals, b, a)
    [] l[1] = "timers" -> Precedes(timers, b, a)

ListsAreInOrder ==
  \A l \in ListNames : \A a, b \in Members(l) : Precedes(List(l), a, b) <=> OrderOf(l, a, b)

(* The order of each list is that of the sequence it is cut from.           *)
LEMMA ListOrders == TypeOK /\ Settled => ListsAreInOrder
<1> SUFFICES ASSUME TypeOK, Settled, NEW l \in ListNames, NEW a \in Members(l), NEW b \in Members(l)
             PROVE  Precedes(List(l), a, b) <=> OrderOf(l, a, b)
  BY DEF ListsAreInOrder
<1> DEFINE I == Handles \X Protocols
           N == Protocols \X Events
<1>0. /\ ifaces \in Seq(I) /\ ToSet(ifaces) \subseteq I
      /\ byProtocol \in Seq(I) /\ ToSet(byProtocol) \subseteq I
      /\ notifies \in Seq(N) /\ ToSet(notifies) \subseteq N
      /\ signals \in Seq(Events) /\ timers \in Seq(Events)
  BY MembersOfSeq, SettledLists DEF TypeOK
<1>1. CASE l = <<"handles">>
  BY <1>1 DEF List, OrderOf
<1>2. CASE l = <<"protocols">>
  BY <1>2 DEF List, OrderOf
<1>3. CASE l = <<"signals">>
  <2>1. List(l) = Reverse(signals) /\ (OrderOf(l, a, b) <=> Precedes(signals, b, a))
    BY <1>3 DEF List, OrderOf, ByBackLink
  <2> QED
    BY <1>0, <2>1, ReverseOrder
<1>4. CASE l = <<"timers">>
  <2>1. List(l) = Reverse(timers) /\ (OrderOf(l, a, b) <=> Precedes(timers, b, a))
    BY <1>4 DEF List, OrderOf, ByBackLink
  <2> QED
    BY <1>0, <2>1, ReverseOrder
<1> HIDE DEF I, N
<1>5. CASE \E h \in Handles : l = <<"on", h>>
  <2>1. PICK h \in Handles : l = <<"on", h>>
    BY <1>5
  <2> DEFINE K == {h} \X Protocols
             w == Where(ifaces, K)
  <2>2. List(l) = Reverse(w) /\ (OrderOf(l, a, b) <=> Precedes(ifaces, b, a))
    BY <2>1 DEF List, OrderOf
  <2>3. a \in K /\ b \in K
    BY <1>0, <2>1 DEF Members, I
  <2> HIDE DEF K
  <2>4. w \in Seq(I) /\ (Precedes(w, b, a) <=> Precedes(ifaces, b, a))
    BY <1>0, <2>3, WhereMembers, WhereOrder
  <2> HIDE DEF w
  <2>5. Precedes(Reverse(w), a, b) <=> Precedes(w, b, a)
    BY <2>4, ReverseOrder
  <2> QED
    BY <2>2, <2>4, <2>5
<1>6. CASE \E p \in Protocols : l = <<"by", p>>
  <2>1. PICK p \in Protocols : l = <<"by", p>>
    BY <1>6
  <2> DEFINE K == Handles \X {p}
  <2>2. List(l) = Where(byProtocol, K) /\ (OrderOf(l, a, b) <=> Precedes(byProtocol, a, b))
    BY <2>1 DEF List, OrderOf
  <2>3. a \in K /\ b \in K
    BY <1>0, <2>1 DEF Members, I
  <2> HIDE DEF K
  <2> QED
    BY <1>0, <2>2, <2>3, WhereOrder
<1>7. CASE \E p \in Protocols : l = <<"notify", p>>
  <2>1. PICK p \in Protocols : l = <<"notify", p>>
    BY <1>7
  <2> DEFINE K == {p} \X Events
  <2>2. List(l) = Where(notifies, K) /\ (OrderOf(l, a, b) <=> Precedes(notifies, a, b))
    BY <2>1 DEF List, OrderOf
  <2>3. a \in K /\ b \in K
    BY <1>0, <2>1 DEF Members, N
  <2> HIDE DEF K
  <2> QED
    BY <1>0, <2>2, <2>3, WhereOrder
<1> QED
  BY ListNameCases, <1>1, <1>2, <1>3, <1>4, <1>5, <1>6, <1>7

(* No list has a node twice.                                                *)
LEMMA ListsHaveNoneTwice ==
  ASSUME TypeOK, Settled, ListsAreOrders, NEW l \in ListNames
  PROVE  NoneTwice(List(l)) /\ ListHead \notin NodesIn(l) /\ ListHead \notin ToSet(List(l))
<1>1. ListsAreInOrder /\ ListsAreTyped
  BY ListOrders, ListMembers
<1>2. ListHead \notin NodesIn(l) /\ ListHead \notin ToSet(List(l))
  BY <1>1, NodesAssumption DEF ListsAreTyped
<1>3. ToSet(List(l)) = Members(l)
  BY <1>1 DEF ListsAreTyped
<1>4. ASSUME NEW n \in Members(l) PROVE ~ OrderOf(l, n, n)
  <2>1a. CASE l = <<"handles">>
    BY <2>1a DEF ListsAreOrders, NoneTwice, OrderOf, Members
  <2>1b. CASE l = <<"protocols">>
    BY <2>1b DEF ListsAreOrders, NoneTwice, OrderOf, Members
  <2>1c. CASE l = <<"signals">>
    BY <2>1c DEF ListsAreOrders, NoneTwice, OrderOf, Members
  <2>1d. CASE l = <<"timers">>
    BY <2>1d DEF ListsAreOrders, NoneTwice, OrderOf, Members
  <2>2. CASE \E h \in Handles : l = <<"on", h>>
    BY <2>2 DEF ListsAreOrders, NoneTwice, OrderOf, Members
  <2>3. CASE \E p \in Protocols : l = <<"by", p>>
    BY <2>3 DEF ListsAreOrders, NoneTwice, OrderOf, Members
  <2>4. CASE \E p \in Protocols : l = <<"notify", p>>
    BY <2>4 DEF ListsAreOrders, NoneTwice, OrderOf, Members
  <2> QED
    BY ListNameCases, <2>1a, <2>1b, <2>1c, <2>1d, <2>2, <2>3, <2>4
<1> QED
  BY <1>1, <1>2, <1>3, <1>4 DEF ListsAreInOrder, NoneTwice

(* A step that keeps the order of the core's sequences keeps that of lists. *)
MovedOn(l, moved) == IF l[1] = "by" THEN moved ELSE {}

LEMMA ListsKeepOrder ==
  ASSUME TypeOK, TypeOK', Settled, Settled', NEW l \in ListNames, l # <<"timers">>,
         SameOrder(handles, handles'), SameOrder(protocols, protocols'),
         SameOrder(ifaces, ifaces'), SameOrder(notifies, notifies'),
         SameOrder(signals, signals'),
         NEW moved, l[1] = "by" => Unmoved(byProtocol, byProtocol', moved)
  PROVE  Unmoved(List(l), List(l)', MovedOn(l, moved))
<1>1. ListsAreInOrder /\ ListsAreTyped
  BY ListOrders, ListMembers
<1>2. ListsAreInOrder' /\ ListsAreTyped'
  BY ListOrders, ListMembers, PTL
<1>3. ToSet(List(l)) = Members(l) /\ ToSet(List(l)') = Members(l)'
  BY <1>1, <1>2 DEF ListsAreTyped
<1>4. ASSUME NEW a \in Members(l), NEW b \in Members(l), a \in Members(l)', b \in Members(l)',
             a \notin MovedOn(l, moved), b \notin MovedOn(l, moved)
      PROVE  OrderOf(l, a, b) <=> OrderOf(l, a, b)'
  BY <1>4, ListNameCases DEF SameOrder, Unmoved, MovedOn, OrderOf, Members
<1> SUFFICES ASSUME NEW a, NEW b, a \in Members(l), b \in Members(l), a \in Members(l)', b \in Members(l)',
                    a \notin MovedOn(l, moved), b \notin MovedOn(l, moved)
             PROVE  Precedes(List(l), a, b) <=> Precedes(List(l)', a, b)
  BY <1>3 DEF Unmoved
<1>5. Precedes(List(l), a, b) <=> OrderOf(l, a, b)
  BY <1>1 DEF ListsAreInOrder
<1>6. Precedes(List(l)', a, b) <=> OrderOf(l, a, b)'
  BY <1>2 DEF ListsAreInOrder, Precedes
<1> QED
  BY <1>4, <1>5, <1>6

LEMMA WalkOrders ==
  ASSUME IInv, pc = "walk", ListsAreOrders, NEW l \in ListNames
  PROVE  /\ List(l) \in Seq(NodesIn(l)) /\ ToSet(List(l)) = Members(l) /\ NoneTwice(List(l))
         /\ ListHead \notin ToSet(List(l)) /\ ListHead \notin NodesIn(l)
<1>1. TypeOK /\ Settled
  BY DEF IInv, Settled
<1> QED
  BY <1>1, WalkLists, ListsHaveNoneTwice DEF ListsAreTyped

(* Every node of a list is among the nodes listed, and none is freed.       *)
AllAreListed == \A l \in ListNames : Members(l) \subseteq Listed

LEMMA MembersAreListed == ImagesStay => AllAreListed
<1> SUFFICES ASSUME ImagesStay, NEW l \in ListNames PROVE Members(l) \subseteq Listed
  BY DEF AllAreListed
<1>1. CASE l = <<"handles">>
  BY <1>1 DEF Members, Listed
<1>2. CASE l = <<"protocols">>
  BY <1>2 DEF Members, Listed
<1>3. CASE l = <<"signals">>
  BY <1>3 DEF Members, Listed
<1>4. CASE l = <<"timers">>
  BY <1>4 DEF Members, Listed
<1>5. CASE \E h \in Handles : l = <<"on", h>>
  BY <1>5 DEF Members, Listed
<1>6. CASE \E p \in Protocols : l = <<"by", p>>
  BY <1>6 DEF Members, Listed, ImagesStay
<1>7. CASE \E p \in Protocols : l = <<"notify", p>>
  BY <1>7 DEF Members, Listed
<1> QED
  BY <1>1, <1>2, <1>3, <1>4, <1>5, <1>6, <1>7, ListNameCases

NoneFreed ==
  /\ ListHead \notin freed \cup {NULL} /\ NULL \notin Listed
  /\ freed \cap Listed = {} /\ \A l \in ListNames : Members(l) \cap (freed \cup {NULL}) = {}

LEMMA FreedAreNone == TypeOK /\ ImagesStay /\ FreedIsGone /\ NULL \notin Listed => NoneFreed
<1>1. FreedIsGone => ListHead \notin freed
  BY NodesAssumption DEF FreedIsGone, ListedNodes
<1> QED
  BY <1>1, MembersAreListed, NodesAssumption DEF FreedIsGone, AllAreListed, NoneFreed

LEMMA ListedType == IInv => NULL \notin Listed /\ ListHead \notin Listed
<1> SUFFICES ASSUME IInv PROVE NULL \notin Listed /\ ListHead \notin Listed
  OBVIOUS
<1>1. /\ ToSet(handles) \subseteq Handles /\ ToSet(protocols) \subseteq Protocols
      /\ ToSet(ifaces) \subseteq Handles \X Protocols
      /\ ToSet(notifies) \subseteq Protocols \X Events
      /\ ToSet(signals) \subseteq EventsIn("signals") /\ ToSet(timers) \subseteq EventsIn("timers")
  BY MembersOfSeq DEF IInv, TypeOK
<1>2. EventsIn("signals") \subseteq Events \cup {Dummy} /\ EventsIn("timers") \subseteq Events \cup {Dummy}
  BY DEF EventsIn
<1>3. Listed \subseteq ListedNodes \cup {Dummy}
  BY <1>1, <1>2 DEF Listed, ListedNodes
<1> QED
  BY <1>3, NodesAssumption

LEMMA WalkNoneFreed == IInv /\ FreedIsGone => NoneFreed
BY FreedAreNone, ListedType DEF IInv

(* What a cursor comes to next, as far as its link leads.                   *)
LEMMA CursorNext ==
  ASSUME IInv, pc = "walk", ListsAreOrders, FreedIsGone,
         NEW l \in ListNames, NEW c, HasLink(l, c), l = <<"timers">> \/ LinkIsOf(l, c)
  PROVE  /\ OnList(l, c) => NextOf(l, c) \notin freed \cup {NULL}
         /\ Doomed(l, c) => NextOf(l, c) \in freed \cup {NULL}
         /\ NextOf(l, c) = ListHead => Ahead(l, c) = {}
         /\ NextOf(l, c) \notin freed \cup {ListHead, NULL} =>
              \/ /\ NextOf(l, c) \in ToSet(List(l)) /\ NextOf(l, c) \notin Behind(l, NextOf(l, c))
                 /\ Ahead(l, c) = {NextOf(l, c)} \cup Behind(l, NextOf(l, c))
              \/ l = <<"timers">> /\ Ahead(l, c) = {}
<1> DEFINE s == List(l)
           S == NodesIn(l)
           n == NextOf(l, c)
<1>1. s \in Seq(S) /\ NoneTwice(s) /\ ListHead \notin ToSet(s)
  BY WalkOrders
<1>2. \A m : Behind(l, m) = BehindIn(s, m)
  BY DEF Behind, BehindIn
<1>3. ListHead \notin freed \cup {NULL} /\ ToSet(s) \cap (freed \cup {NULL}) = {}
  BY WalkNoneFreed, WalkOrders DEF NoneFreed
<1>4. CASE c = ListHead \/ c \in ToSet(s)
  <2>1. n = After(s, c) /\ ~ Doomed(l, c) /\ Ahead(l, c) = BehindIn(s, c)
    BY <1>2, <1>4 DEF NextOf, Doomed, OnList, Ahead
  <2> HIDE DEF n, s, S
  <2>2. \/ n = ListHead /\ BehindIn(s, c) = {}
        \/ n \in ToSet(s) /\ BehindIn(s, c) = {n} \cup BehindIn(s, n) /\ n \notin BehindIn(s, n)
    BY <1>1, <1>4, <2>1, AfterIsNext
  <2> QED
    BY <1>1, <1>2, <1>3, <2>1, <2>2 DEF n, s
<1>5. CASE ~ (c = ListHead \/ c \in ToSet(s))
  <2>1. ~ OnList(l, c) /\ n = left[<<l, c>>]
    BY <1>5 DEF OnList, NextOf
  <2>2. /\ Doomed(l, c) => n \in freed \cup {NULL}
        /\ Ahead(l, c) = IF n \in ToSet(s) THEN {n} \cup Behind(l, n) ELSE {}
    BY <1>5, <2>1 DEF Doomed, OnList, Ahead
  <2>3. n \in ToSet(s) => n \notin Behind(l, n) /\ n # ListHead
    BY <1>1 DEF Behind, NoneTwice
  <2>4. l # <<"timers">> => n \in ToSet(s) \cup {ListHead, NULL} \cup freed
    BY <2>1 DEF LinkIsOf
  <2> HIDE DEF n
  <2> QED
    BY <1>1, <1>3, <2>1, <2>2, <2>3, <2>4 DEF n
<1> QED
  BY <1>4, <1>5

(***************************************************************************)
(* What is due                                                             *)
(***************************************************************************)

(* The lists that hang on nodes, and what may be on them.                   *)
InnerNames ==
  CASE phase = "handles" -> {"on"} \X Handles
    [] phase = "protocols" -> {"by", "notify"} \X Protocols
    [] OTHER -> {}

HangOn(l) ==
  CASE l[1] = "on" -> {l[2]} \X Protocols
    [] l[1] = "by" -> Handles \X {l[2]}
    [] l[1] = "notify" -> {l[2]} \X Events

LEMMA InnerNamesOf ==
  ASSUME NEW n \in NodesIn(<<phase>>)
  PROVE  InnerLists(n) \in Seq(InnerNames)
<1>1. CASE phase = "handles"
  <2>1. <<"on", n>> \in InnerNames /\ InnerLists(n) = <<<<"on", n>>>>
    BY <1>1 DEF InnerLists, InnerNames, NodesIn
  <2> QED
    BY <2>1
<1>2. CASE phase = "protocols"
  <2>1. /\ <<"by", n>> \in InnerNames /\ <<"notify", n>> \in InnerNames
        /\ InnerLists(n) = <<<<"by", n>>, <<"notify", n>>>>
    BY <1>2 DEF InnerLists, InnerNames, NodesIn
  <2> QED
    BY <2>1
<1>3. CASE phase \notin {"handles", "protocols"}
  <2>1. InnerLists(n) = <<>>
    BY <1>3 DEF InnerLists
  <2> QED
    BY <2>1
<1> QED
  BY <1>1, <1>2, <1>3

LEMMA InnerNamesType ==
  ASSUME IInv
  PROVE  /\ InnerNames \subseteq ListNames /\ <<"timers">> \notin InnerNames
         /\ \A n \in NodesIn(<<phase>>) : ToSet(InnerLists(n)) \subseteq InnerNames
         /\ InnerIsOfAt /\ pc = "walk" => inner \in Seq(InnerNames) /\ ToSet(inner) \subseteq InnerNames
<1>1. InnerNames \subseteq ListNames
  BY DEF InnerNames, ListNames
<1>2. <<"timers">> \notin InnerNames
  BY DEF InnerNames
<1>3. ASSUME NEW n \in NodesIn(<<phase>>)
      PROVE  InnerLists(n) \in Seq(InnerNames) /\ ToSet(InnerLists(n)) \subseteq InnerNames
  <2>1. InnerLists(n) \in Seq(InnerNames)
    BY <1>3, InnerNamesOf
  <2> QED
    BY <2>1, MembersOfSeq
<1>4. ASSUME InnerIsOfAt, pc = "walk" PROVE inner \in Seq(InnerNames)
  <2>1. CASE inner = <<>>
    BY <2>1
  <2>2. CASE inner # <<>>
    <3>1. at \in NodesIn(<<phase>>)
      BY <1>4, <2>2 DEF InnerIsOfAt
    <3>2. inner = InnerLists(at) \/ (phase = "protocols" /\ inner = <<<<"notify", at>>>>)
      BY <1>4, <2>2 DEF InnerIsOfAt, InnerLists
    <3>3. phase = "protocols" => <<<<"notify", at>>>> \in Seq(InnerNames)
      <4>1. phase = "protocols" => <<"notify", at>> \in InnerNames
        BY <3>1 DEF InnerNames, NodesIn
      <4> QED
        BY <4>1
    <3> QED
      BY <3>1, <3>2, <3>3, InnerNamesOf
  <2> QED
    BY <2>1, <2>2
<1> QED
  BY <1>1, <1>2, <1>3, <1>4, MembersOfSeq

(* Nodes are of the kind of the lists they are on.                          *)
IsOfKind(x) ==
  /\ x \in Members(<<phase>>) <=> x \in NodesIn(<<phase>>)
  /\ \A l \in InnerNames : x \in Members(l) <=> x \in HangOn(l)
  /\ \A l \in InnerNames : x \in HangOn(l) => x \notin NodesIn(<<phase>>)

KindsAre == \A x \in Nodes(phase) : IsOfKind(x)

LEMMA KindsOfNodes == IInv /\ pc = "walk" => KindsAre
<1> SUFFICES ASSUME IInv, pc = "walk", NEW x \in Nodes(phase)
             PROVE  /\ x \in Members(<<phase>>) <=> x \in NodesIn(<<phase>>)
                    /\ \A l \in InnerNames : x \in Members(l) <=> x \in HangOn(l)
                    /\ \A l \in InnerNames : x \in HangOn(l) => x \notin NodesIn(<<phase>>)
  BY DEF KindsAre, IsOfKind
<1> DEFINE I == Handles \X Protocols
           N == Protocols \X Events
<1>1. /\ ToSet(handles) \subseteq Handles /\ ToSet(protocols) \subseteq Protocols
      /\ ToSet(ifaces) \subseteq I /\ ToSet(notifies) \subseteq N
      /\ ToSet(byProtocol) = ToSet(ifaces)
      /\ ToSet(signals) \subseteq Events /\ ToSet(timers) \subseteq Events
  BY MembersOfSeq, WalkLists DEF TypeOK, ImagesStay
<1>2. /\ Handles \cap I = {} /\ Protocols \cap I = {} /\ N \cap Protocols = {} /\ N \cap I = {}
  BY NodesAssumption
<1>3. CASE phase = "handles"
  <2>1. /\ x \in ToSet(handles) \cup ToSet(ifaces) /\ NodesIn(<<phase>>) = Handles
        /\ Members(<<phase>>) = ToSet(handles)
    BY <1>3 DEF Nodes, NodesIn, Members
  <2>2. x \in Members(<<phase>>) <=> x \in NodesIn(<<phase>>)
    BY <1>1, <1>2, <2>1
  <2>3. ASSUME NEW l \in InnerNames
        PROVE  (x \in Members(l) <=> x \in HangOn(l)) /\ (x \in HangOn(l) => x \in I)
    <3>1. PICK h \in Handles : l = <<"on", h>>
      BY <1>3 DEF InnerNames
    <3>2. HangOn(l) = {h} \X Protocols /\ Members(l) = {i \in ToSet(ifaces) : i[1] = h}
      BY <3>1 DEF HangOn, Members
    <3>3. x \in HangOn(l) => x \in I /\ x[1] = h
      BY <3>2
    <3>4. x \in I => x \in ToSet(ifaces)
      BY <1>1, <1>2, <2>1
    <3> QED
      BY <1>1, <3>2, <3>3, <3>4
  <2> QED
    BY <1>2, <2>1, <2>2, <2>3
<1>4. CASE phase = "protocols"
  <2>1. /\ x \in ToSet(protocols) \cup ToSet(ifaces) \cup ToSet(notifies)
        /\ NodesIn(<<phase>>) = Protocols /\ Members(<<phase>>) = ToSet(protocols)
    BY <1>4 DEF Nodes, NodesIn, Members
  <2>2. x \in Members(<<phase>>) <=> x \in NodesIn(<<phase>>)
    BY <1>1, <1>2, <2>1
  <2>3. ASSUME NEW l \in InnerNames
        PROVE  (x \in Members(l) <=> x \in HangOn(l)) /\ (x \in HangOn(l) => x \in I \cup N)
    <3>1. PICK p \in Protocols : l = <<"by", p>> \/ l = <<"notify", p>>
      BY <1>4 DEF InnerNames
    <3>2. CASE l = <<"by", p>>
      <4>1. HangOn(l) = Handles \X {p} /\ Members(l) = {i \in ToSet(byProtocol) : i[2] = p}
        BY <3>2 DEF HangOn, Members
      <4>2. x \in HangOn(l) => x \in I /\ x[2] = p
        BY <4>1
      <4>3. x \in I => x \in ToSet(ifaces)
        BY <1>1, <1>2, <2>1
      <4> QED
        BY <1>1, <4>1, <4>2, <4>3
    <3>3. CASE l = <<"notify", p>>
      <4>1. HangOn(l) = {p} \X Events /\ Members(l) = {i \in ToSet(notifies) : i[1] = p}
        BY <3>3 DEF HangOn, Members
      <4>2. x \in HangOn(l) => x \in N /\ x[1] = p
        BY <4>1
      <4>3. x \in N => x \in ToSet(notifies)
        BY <1>1, <1>2, <2>1
      <4> QED
        BY <1>1, <4>1, <4>2, <4>3
    <3> QED
      BY <3>1, <3>2, <3>3
  <2> QED
    BY <1>2, <2>1, <2>2, <2>3
<1>5. CASE phase \in {"signals", "timers"}
  <2>1. InnerNames = {}
    BY <1>5 DEF InnerNames
  <2>2. x \in Members(<<phase>>) /\ Members(<<phase>>) \subseteq NodesIn(<<phase>>)
    BY <1>1, <1>5 DEF Nodes, NodesIn, Members
  <2> QED
    BY <2>1, <2>2
<1> QED
  BY <1>3, <1>4, <1>5 DEF IInv, TypeOK, Phases

(* The outer cursor, what hangs on what it will come to, the inner cursor,  *)
(* and the inner lists after it.                                            *)
DueIs(x, outer, first, rest) ==
  \/ x \in outer
  \/ \E n \in outer : \E l \in ToSet(InnerLists(n)) : x \in HangOn(l)
  \/ x \in first
  \/ \E l \in rest : x \in HangOn(l)

Outer == Ahead(<<phase>>, at)
First == IF inner = <<>> THEN {} ELSE Ahead(Head(inner), sub)
Rest == IF inner = <<>> THEN {} ELSE ToSet(Tail(inner))

DueAre == \A x \in Nodes(phase) : x \in Due <=> DueIs(x, Outer, First, Rest)

LEMMA DueMembers == IInv /\ InnerIsOfAt /\ pc = "walk" => DueAre
<1> SUFFICES ASSUME IInv, InnerIsOfAt, pc = "walk", NEW x \in Nodes(phase)
             PROVE  x \in Due <=> DueIs(x, Outer, First, Rest)
  BY DEF DueAre
<1>1. Ahead(<<phase>>, at) \subseteq NodesIn(<<phase>>)
  <2>1. <<phase>> \in ListNames
    BY DEF IInv, TypeOK, ListNames
  <2>2. ToSet(List(<<phase>>)) \subseteq NodesIn(<<phase>>)
    BY <2>1, WalkLists DEF ListsAreTyped
  <2>3. Ahead(<<phase>>, at) \subseteq ToSet(List(<<phase>>))
    BY DEF Ahead, Behind
  <2> QED
    BY <2>2, <2>3
<1>2. ASSUME NEW l \in InnerNames PROVE x \in ToSet(List(l)) <=> x \in HangOn(l)
  <2>1. ToSet(List(l)) = Members(l)
    BY InnerNamesType, WalkLists DEF ListsAreTyped
  <2> QED
    BY <2>1, KindsOfNodes DEF KindsAre, IsOfKind
<1>3. \A n \in Ahead(<<phase>>, at) : x \in Hanging(n) <=> \E l \in ToSet(InnerLists(n)) : x \in HangOn(l)
  BY <1>1, <1>2, InnerNamesType DEF Hanging
<1>4. ASSUME inner # <<>>
      PROVE  x \in UNION {ToSet(List(l)) : l \in ToSet(Tail(inner))} <=> \E l \in ToSet(Tail(inner)) : x \in HangOn(l)
  <2>1. ToSet(Tail(inner)) \subseteq InnerNames
    <3>1. inner \in Seq(InnerNames)
      BY InnerNamesType
    <3> QED
      BY <1>4, <3>1, HeadTailMembers, MembersOfSeq
  <2> QED
    BY <1>2, <2>1
<1>5. x \in UNION {Hanging(n) : n \in Ahead(<<phase>>, at)}
        <=> \E n \in Ahead(<<phase>>, at) : \E l \in ToSet(InnerLists(n)) : x \in HangOn(l)
  BY <1>3
<1> DEFINE O == Ahead(<<phase>>, at)
           F == Ahead(Head(inner), sub)
           U == UNION {Hanging(n) : n \in O}
           R == UNION {ToSet(List(l)) : l \in ToSet(Tail(inner))}
<1>6. Due = O \cup U \cup (IF inner = <<>> THEN {} ELSE F \cup R)
  BY Zenon DEF Due
<1> HIDE DEF U, R, F, O
<1>7. CASE inner = <<>>
  BY <1>5, <1>6, <1>7 DEF DueIs, U, O, Outer, First, Rest
<1>8. CASE inner # <<>>
  BY <1>4, <1>5, <1>6, <1>8 DEF DueIs, U, R, O, F, Outer, First, Rest
<1> QED
  BY <1>7, <1>8

(* What something hangs on is in its list.                                  *)
OwnersAre ==
  \A n \in NodesIn(<<phase>>) : \A l \in ToSet(InnerLists(n)) :
    Members(l) # {} => n \in Members(<<phase>>)

LEMMA OwnersAreListed == IInv /\ NotifiesHaveEntries => OwnersAre
<1> SUFFICES ASSUME IInv, NotifiesHaveEntries, NEW n \in NodesIn(<<phase>>),
                    NEW l \in ToSet(InnerLists(n)), NEW x \in Members(l)
             PROVE  n \in Members(<<phase>>)
  BY DEF OwnersAre
<1>1. CASE phase = "handles"
  <2>1. l = <<"on", n>> /\ Members(<<phase>>) = ToSet(handles)
    BY <1>1 DEF InnerLists, ToSet, Members
  <2>2. x \in ToSet(ifaces) /\ x[1] = n
    BY <2>1 DEF Members
  <2> QED
    BY <2>1, <2>2 DEF IInv, ImagesStay
<1>2. CASE phase = "protocols"
  <2>1. (l = <<"by", n>> \/ l = <<"notify", n>>) /\ Members(<<phase>>) = ToSet(protocols)
    BY <1>2 DEF InnerLists, ToSet, Members
  <2>2. CASE l = <<"by", n>>
    <3>1. x \in ToSet(byProtocol) /\ x[2] = n
      BY <2>2 DEF Members
    <3> QED
      BY <2>1, <3>1 DEF IInv, ImagesStay
  <2>3. CASE l = <<"notify", n>>
    <3>1. x \in ToSet(notifies) /\ x[1] = n
      BY <2>3 DEF Members
    <3> QED
      BY <2>1, <3>1 DEF NotifiesHaveEntries
  <2> QED
    BY <2>1, <2>2, <2>3
<1>3. CASE phase \notin {"handles", "protocols"}
  <2>1. InnerLists(n) = <<>>
    BY <1>3 DEF InnerLists
  <2>2. ToSet(<<>>) = {}
    BY DEF ToSet
  <2> QED
    BY <2>1, <2>2
<1> QED
  BY <1>1, <1>2, <1>3

(* The timer list, where timers expire and are put in again: what was ahead *)
(* of a cursor and has not moved still is, unless it was behind one that    *)
(* has moved.                                                               *)
LEMMA TimersAhead ==
  ASSUME NEW S, NEW s \in Seq(S), NEW t \in Seq(S), ListHead \notin S, NoneTwice(s),
         NEW moved, NEW gone, NEW gone2, Unmoved(s, t, moved),
         ToSet(s) \ ToSet(t) \subseteq gone2 \cup moved,
         NEW n, NEW link, NEW link2,
         n \in ToSet(s) \cap ToSet(t) \cap moved => BehindIn(s, n) = {},
         n = ListHead \/ n \in ToSet(s) \cap ToSet(t)
           \/ \A m \in moved \cap ToSet(s) : m = n \/ BehindIn(s, m) = {},
         n = ListHead \/ n \in ToSet(s)
           \/ (n \notin ToSet(t) /\ (link2 = link \/ link2 \in gone2) /\ gone \subseteq gone2),
         n \in ToSet(s) \ ToSet(t) => link2 = After(s, n)
  PROVE  /\ DoomedIn(s, link, gone, n) => DoomedIn(t, link2, gone2, n)
         /\ \/ DoomedIn(t, link2, gone2, n)
            \/ \A x \in ToSet(t) \ moved : x \in AheadIn(s, link, n) => x \in AheadIn(t, link2, n)
<1>1. ListHead \notin ToSet(s) /\ ListHead \notin ToSet(t)
  BY MembersOfSeq
<1>2. DoomedIn(s, link, gone, n) => DoomedIn(t, link2, gone2, n)
  BY DEF DoomedIn
<1> SUFFICES ASSUME NEW x \in ToSet(t) \ moved, x \in AheadIn(s, link, n)
             PROVE  DoomedIn(t, link2, gone2, n) \/ x \in AheadIn(t, link2, n)
  BY <1>2
<1>3. ASSUME NEW m \in ToSet(s), x = m \/ x \in BehindIn(s, m), m \in moved => BehindIn(s, m) = {}
      PROVE  m \in gone2 \/ (m \in ToSet(t) /\ (x = m \/ x \in BehindIn(t, m)))
  <2>1. m # ListHead /\ m \notin moved
    BY <1>1, <1>3
  <2>2. x \in BehindIn(s, m) => x \in ToSet(s) /\ Precedes(s, m, x)
    BY <2>1 DEF BehindIn
  <2>3. m \in ToSet(t) /\ x \in BehindIn(s, m) => x \in BehindIn(t, m)
    BY <2>1, <2>2 DEF BehindIn, Unmoved
  <2> QED
    BY <1>3, <2>1, <2>3
<1>4. CASE n = ListHead
  BY <1>4 DEF AheadIn, BehindIn
<1>5. CASE n \in ToSet(s) /\ n \in ToSet(t)
  <2>1. n # ListHead /\ x \in BehindIn(s, n) /\ AheadIn(t, link2, n) = BehindIn(t, n)
    BY <1>1, <1>5 DEF AheadIn
  <2>2. x \in ToSet(s) /\ Precedes(s, n, x) /\ n \notin moved
    BY <1>5, <2>1 DEF BehindIn
  <2> QED
    BY <1>5, <2>1, <2>2 DEF BehindIn, Unmoved
<1>6. CASE n \in ToSet(s) /\ n \notin ToSet(t)
  <2>1. n # ListHead /\ x \in BehindIn(s, n) /\ link2 = After(s, n)
    BY <1>1, <1>6 DEF AheadIn
  <2>2. link2 \in ToSet(s) /\ BehindIn(s, n) = {link2} \cup BehindIn(s, link2)
    BY <1>1, <1>6, <2>1, AfterIsNext
  <2>2a. link2 # n
    BY <2>1, <2>2 DEF BehindIn, NoneTwice
  <2>3. link2 \in gone2 \/ (link2 \in ToSet(t) /\ (x = link2 \/ x \in BehindIn(t, link2)))
    <3>1. link2 \in moved => BehindIn(s, link2) = {}
      BY <1>6, <2>1, <2>2, <2>2a
    <3> QED
      BY <1>3, <2>1, <2>2, <3>1
  <2> QED
    BY <1>6, <2>1, <2>3 DEF AheadIn, DoomedIn
<1>7. CASE n # ListHead /\ n \notin ToSet(s)
  <2>1. link \in ToSet(s) /\ (x = link \/ x \in BehindIn(s, link))
    BY <1>7 DEF AheadIn
  <2>2. (link2 = link \/ link2 \in gone2) /\ n \notin ToSet(t)
    BY <1>1, <1>7, <2>1
  <2>3. link \in gone2 \/ (link \in ToSet(t) /\ (x = link \/ x \in BehindIn(t, link)))
    <3>1. link \in moved => BehindIn(s, link) = {}
      BY <1>7, <2>1
    <3> QED
      BY <1>3, <2>1, <3>1
  <2> QED
    BY <1>7, <2>2, <2>3 DEF AheadIn, DoomedIn
<1> QED
  BY <1>4, <1>5, <1>6, <1>7

(***************************************************************************)
(* A callback that takes the nodes of off out of their lists, and moves    *)
(* those of moved within theirs                                            *)
(***************************************************************************)

LinksAre(off) ==
  /\ DOMAIN left' = off \cup DOMAIN left
  /\ \A k \in off : left'[k] = After(List(k[1]), k[2])
  /\ \A k \in DOMAIN left \ off : left'[k] \in {left[k], NULL}

TakesOff(off) ==
  /\ \A k \in off : k[1] \in ListNames /\ k[2] \in Members(k[1])
  /\ \A n \in ToSet(handles) \ ToSet(handles') : n \in freed' /\ <<<<"handles">>, n>> \in off
  /\ ToSet(protocols) \subseteq ToSet(protocols')
  /\ \A i \in ToSet(ifaces) \ ToSet(ifaces') :
       i \in freed' /\ <<<<"on", i[1]>>, i>> \in off /\ <<<<"by", i[2]>>, i>> \in off
  /\ \A n \in ToSet(notifies) \ ToSet(notifies') : n \in freed' /\ <<<<"notify", n[1]>>, n>> \in off
  /\ \A e \in ToSet(signals) \ ToSet(signals') : e \in freed' /\ <<<<"signals">>, e>> \in off

OrdersKept ==
  /\ SameOrder(handles, handles') /\ SameOrder(protocols, protocols')
  /\ SameOrder(ifaces, ifaces') /\ SameOrder(notifies, notifies') /\ SameOrder(signals, signals')

(* In the dump of the protocols an interface may move that no cursor is at. *)
InterfacesKept(off, moved) ==
  phase = "protocols" =>
    /\ Unmoved(byProtocol, byProtocol', moved) /\ there' \cap moved = {}
    /\ moved = {} \/ (off = {} /\ ~ Adrift /\ sub \notin moved)

(* In that of the timers one that no cursor is before or has come to.       *)
IsLast(e) == \A x : ~ Precedes(timers, x, e)

TimersKept(off, moved) ==
  phase = "timers" =>
    /\ Unmoved(timers, timers', moved) /\ there' \cap moved = {}
    /\ \A e \in ToSet(timers) \ ToSet(timers') : <<<<"timers">>, e>> \in off /\ e \in freed' \cup moved
    /\ at \in ToSet(timers) \cap ToSet(timers') \cap moved => IsLast(at)
    /\ \/ at = ListHead \/ at \in ToSet(timers) \cap ToSet(timers')
       \/ \A m \in moved \cap ToSet(timers) : m = at \/ IsLast(m)
    /\ at \in ToSet(timers') => at \in ToSet(timers)

Spares(off, moved) ==
  /\ LinksAre(off) /\ TakesOff(off) /\ OrdersKept
  /\ InterfacesKept(off, moved) /\ TimersKept(off, moved)
  /\ Adrift => freed \subseteq freed'

(* Unless it may carry the walk off.                                        *)
Around(off, moved) ==
  /\ Callback /\ there' \subseteq there /\ (carried => carried')
  /\ ~ carried' => Spares(off, moved)
  /\ ListsAreOrders' /\ FreedIsGone' /\ NotifiesHaveEntries' /\ ThereIsListed'

(* A node that leaves a list is freed, and leaves its link.                 *)
LEMMA TakenOff ==
  ASSUME ImagesStay, ImagesStay', NEW off, TakesOff(off), NEW l \in ListNames, l # <<"timers">>,
         NEW n \in Members(l), n \notin Members(l)'
  PROVE  n \in freed' /\ <<l, n>> \in off
<1>1. CASE l = <<"handles">>
  BY <1>1 DEF TakesOff, Members
<1>2. CASE l = <<"protocols">>
  BY <1>2 DEF TakesOff, Members
<1>3. CASE l = <<"signals">>
  BY <1>3 DEF TakesOff, Members
<1>4. CASE \E h \in Handles : l = <<"on", h>>
  <2>1. n \in ToSet(ifaces) /\ n \notin ToSet(ifaces') /\ l = <<"on", n[1]>>
    BY <1>4 DEF Members
  <2> QED
    BY <2>1 DEF TakesOff
<1>5. CASE \E p \in Protocols : l = <<"by", p>>
  <2>1. n \in ToSet(byProtocol) /\ n \notin ToSet(byProtocol') /\ l = <<"by", n[2]>>
    BY <1>5 DEF Members
  <2>2. n \in ToSet(ifaces) /\ n \notin ToSet(ifaces')
    BY <2>1 DEF ImagesStay
  <2> QED
    BY <2>1, <2>2 DEF TakesOff
<1>6. CASE \E p \in Protocols : l = <<"notify", p>>
  <2>1. n \in ToSet(notifies) /\ n \notin ToSet(notifies') /\ l = <<"notify", n[1]>>
    BY <1>6 DEF Members
  <2> QED
    BY <2>1 DEF TakesOff
<1> QED
  BY <1>1, <1>2, <1>3, <1>4, <1>5, <1>6, ListNameCases

(* What the lists of both states have in common.                            *)
Running == pc = "walk" /\ pc' = "walk"

LEMMA BothStates ==
  ASSUME IInv, IInv', Running, ListsAreOrders, FreedIsGone, FreedIsGone', NEW l \in ListNames
  PROVE  /\ List(l) \in Seq(NodesIn(l)) /\ List(l)' \in Seq(NodesIn(l)) /\ ListHead \notin NodesIn(l)
         /\ ToSet(List(l)) = Members(l) /\ ToSet(List(l)') = Members(l)'
         /\ NoneTwice(List(l)) /\ Members(l) \cap freed = {} /\ Members(l)' \cap freed' = {}
<1>1. TypeOK' /\ Settled' => ListsAreTyped'
  BY ListMembers, PTL
<1>2. List(l)' \in Seq(NodesIn(l)) /\ ToSet(List(l)') = Members(l)'
  BY <1>1 DEF ListsAreTyped, Running, Settled, IInv
<1>3. IInv' /\ FreedIsGone' => NoneFreed'
  BY WalkNoneFreed, PTL
<1>4. Members(l)' \cap freed' = {}
  BY <1>3 DEF NoneFreed
<1>5. Members(l) \cap freed = {}
  BY WalkNoneFreed DEF NoneFreed
<1> QED
  BY <1>2, <1>4, <1>5, WalkOrders DEF Running

(* A cursor keeps its link.                                                 *)
LEMMA CursorLink ==
  ASSUME IInv, pc = "walk", NEW off, LinksAre(off), TakesOff(off),
         NEW l \in ListNames, NEW c, HasLink(l, c)
  PROVE  /\ c = ListHead \/ c \in ToSet(List(l)) \/ left'[<<l, c>>] \in {left[<<l, c>>], NULL}
         /\ <<l, c>> \in off => left'[<<l, c>>] = After(List(l), c)
<1>1. c = ListHead \/ c \in ToSet(List(l)) \/ <<l, c>> \in DOMAIN left
  BY DEF HasLink, OnList
<1>2. <<l, c>> \in off => c \in Members(l)
  BY DEF TakesOff
<1>3. Members(l) = ToSet(List(l))
  BY WalkLists DEF ListsAreTyped
<1> QED
  BY <1>1, <1>2, <1>3 DEF LinksAre

(* A callback leaves ahead of a cursor what was ahead of it, is still       *)
(* listed and has not moved.                                                *)
LEMMA CursorKept ==
  ASSUME IInv, IInv', Running, ListsAreOrders, FreedIsGone, FreedIsGone',
         NEW off, NEW moved, LinksAre(off), TakesOff(off), OrdersKept,
         NEW l \in ListNames, l # <<"timers">>, NEW c, HasLink(l, c), LinkIsOf(l, c),
         ~ OnList(l, c) => freed \subseteq freed',
         l[1] = "by" => Unmoved(byProtocol, byProtocol', moved),
         MovedOn(l, moved) = {} \/ (OnList(l, c) /\ off = {} /\ c \notin moved)
  PROVE  /\ Doomed(l, c) => DoomedIn(List(l)', left'[<<l, c>>], freed' \cup {NULL}, c)
         /\ \/ DoomedIn(List(l)', left'[<<l, c>>], freed' \cup {NULL}, c)
            \/ \A x \in Members(l) :
                 x \in Members(l)' /\ x \notin MovedOn(l, moved) =>
                   (x \in Ahead(l, c) <=> x \in AheadIn(List(l)', left'[<<l, c>>], c))
<1> DEFINE s == List(l)
           t == List(l)'
           S == NodesIn(l)
           M == MovedOn(l, moved)
           link == left[<<l, c>>]
           link2 == left'[<<l, c>>]
           gone == freed \cup {NULL}
           gone2 == freed' \cup {NULL}
<1>1. /\ s \in Seq(S) /\ t \in Seq(S) /\ ListHead \notin S /\ NoneTwice(s)
      /\ ToSet(s) = Members(l) /\ ToSet(t) = Members(l)' /\ ToSet(t) \cap freed' = {}
  BY BothStates
<1>2. Unmoved(s, t, M)
  <2>1. TypeOK /\ TypeOK' /\ Settled /\ Settled'
    BY DEF IInv, Running, Settled
  <2> QED
    BY <2>1, ListsKeepOrder DEF OrdersKept
<1>3. /\ Ahead(l, c) = AheadIn(s, link, c)
      /\ Doomed(l, c) <=> DoomedIn(s, link, gone, c)
  BY AheadIs
<1>4. ASSUME NEW n \in ToSet(s), n \notin ToSet(t) PROVE n \in gone2 /\ <<l, n>> \in off
  BY <1>1, <1>4, TakenOff DEF IInv
<1>5. \/ c = ListHead \/ c \in ToSet(s)
      \/ /\ c \notin ToSet(t) /\ (link2 = link \/ link2 \in gone2)
         /\ link \in ToSet(s) \cup {ListHead} \cup gone /\ gone \subseteq gone2
  <2> SUFFICES ASSUME ~ OnList(l, c)
               PROVE  /\ c \notin ToSet(t) /\ (link2 = link \/ link2 \in gone2)
                      /\ link \in ToSet(s) \cup {ListHead} \cup gone /\ gone \subseteq gone2
    BY DEF OnList
  <2>1. c \in freed /\ link \in ToSet(s) \cup {ListHead} \cup gone /\ freed \subseteq freed'
    BY DEF LinkIsOf
  <2>2. link2 \in {link, NULL}
    BY CursorLink DEF OnList, Running
  <2> QED
    BY <1>1, <2>1, <2>2
<1>6. c \in ToSet(s) \ ToSet(t) => link2 = After(s, c)
  BY <1>4, CursorLink DEF Running
<1>7. M = {} \/ c = ListHead \/ c \in (ToSet(s) \cap ToSet(t)) \ M
  <2> SUFFICES ASSUME M # {}, c # ListHead PROVE c \in (ToSet(s) \cap ToSet(t)) \ M
    OBVIOUS
  <2>1. c \in ToSet(s) /\ off = {} /\ c \notin M
    BY DEF OnList, MovedOn
  <2> QED
    BY <1>4, <2>1
<1> HIDE DEF s, t, S, M, link, link2, gone, gone2
<1>8. /\ DoomedIn(s, link, gone, c) => DoomedIn(t, link2, gone2, c)
      /\ \/ DoomedIn(t, link2, gone2, c)
         \/ \A x \in (ToSet(s) \cap ToSet(t)) \ M :
              x \in AheadIn(s, link, c) <=> x \in AheadIn(t, link2, c)
  <2>1. ToSet(s) \ ToSet(t) \subseteq gone2
    BY <1>4
  <2> QED
    BY <1>1, <1>2, <1>5, <1>6, <1>7, <2>1, AheadKept
<1> QED
  BY <1>1, <1>3, <1>8 DEF t, link2, gone2, M

(* So it does in the timer list, for what is still due.                     *)
LEMMA TimersCursorKept ==
  ASSUME IInv, IInv', Running, ListsAreOrders, FreedIsGone, FreedIsGone', phase = "timers",
         NEW off, NEW moved, Spares(off, moved), HasLink(<<"timers">>, at),
         NEW l, l = <<"timers">>, NEW c, c = at
  PROVE  /\ Doomed(l, c) => DoomedIn(List(l)', left'[<<l, c>>], freed' \cup {NULL}, c)
         /\ \/ DoomedIn(List(l)', left'[<<l, c>>], freed' \cup {NULL}, c)
            \/ \A x \in Members(l)' \ moved :
                 x \in Ahead(l, c) => x \in AheadIn(List(l)', left'[<<l, c>>], c)
<1> DEFINE s == List(l)
           t == List(l)'
           S == NodesIn(l)
           link == left[<<l, c>>]
           link2 == left'[<<l, c>>]
           gone == freed \cup {NULL}
           gone2 == freed' \cup {NULL}
<1>0. l \in ListNames
  BY DEF ListNames, Phases
<1>1. /\ s \in Seq(S) /\ t \in Seq(S) /\ ListHead \notin S /\ NoneTwice(s)
      /\ ToSet(s) = Members(l) /\ ToSet(t) = Members(l)'
  BY <1>0, BothStates
<1>2. /\ Members(l) = ToSet(timers) /\ Members(l)' = ToSet(timers') /\ NodesIn(l) = Events
      /\ List(l) = Reverse(timers) /\ List(l)' = Reverse(timers')
  BY DEF Members, NodesIn, List, ByBackLink
<1>2a. timers \in Seq(Events) /\ timers' \in Seq(Events)
  BY SettledLists DEF IInv, Running, Settled, TypeOK, EventsIn
<1>3. /\ Ahead(l, c) = AheadIn(s, link, c)
      /\ Doomed(l, c) <=> DoomedIn(s, link, gone, c)
  BY AheadIs
<1>4. \A a, b : (Precedes(s, a, b) <=> Precedes(timers, b, a)) /\ (Precedes(t, a, b) <=> Precedes(timers', b, a))
  BY <1>2, <1>2a, ReverseOrder
<1>4a. /\ Unmoved(timers, timers', moved)
       /\ \A e \in ToSet(timers) \ ToSet(timers') : <<l, e>> \in off /\ e \in freed' \cup moved
       /\ c \in ToSet(timers) \cap ToSet(timers') \cap moved => IsLast(c)
       /\ \/ c = ListHead \/ c \in ToSet(timers) \cap ToSet(timers')
          \/ \A m \in moved \cap ToSet(timers) : m = c \/ IsLast(m)
       /\ c \in ToSet(timers') => c \in ToSet(timers)
  BY DEF Spares, TimersKept
<1>5. Unmoved(s, t, moved)
  <2> HIDE DEF s, t
  <2> QED
    BY <1>1, <1>2, <1>4, <1>4a DEF Unmoved
<1>6. ASSUME NEW m \in ToSet(s), IsLast(m) PROVE BehindIn(s, m) = {}
  <2>1. m # ListHead
    BY <1>1, <1>6, MembersOfSeq
  <2> HIDE DEF s, t
  <2> QED
    BY <1>4, <1>6, <2>1 DEF BehindIn, IsLast
<1>7. \/ c = ListHead \/ c \in ToSet(s)
      \/ (c \notin ToSet(t) /\ (link2 = link \/ link2 \in gone2) /\ gone \subseteq gone2)
  <2> SUFFICES ASSUME ~ (c = ListHead \/ c \in ToSet(s))
               PROVE  c \notin ToSet(t) /\ (link2 = link \/ link2 \in gone2) /\ gone \subseteq gone2
    OBVIOUS
  <2>1. Adrift
    BY DEF Adrift, OnList
  <2>2. freed \subseteq freed' /\ LinksAre(off) /\ TakesOff(off)
    BY <2>1 DEF Spares
  <2>3. link2 \in {link, NULL}
    BY <1>0, <2>2, CursorLink DEF OnList, Running
  <2> QED
    BY <1>1, <1>2, <1>4a, <2>2, <2>3
<1>8. c \in ToSet(s) \ ToSet(t) => link2 = After(s, c)
  <2> SUFFICES ASSUME c \in ToSet(s) \ ToSet(t) PROVE link2 = After(s, c)
    OBVIOUS
  <2>1. <<l, c>> \in off
    BY <1>1, <1>2, <1>4a
  <2> QED
    BY <2>1 DEF Spares, LinksAre
<1>9. /\ ToSet(s) = ToSet(timers) /\ ToSet(t) = ToSet(timers')
      /\ ToSet(s) \ ToSet(t) \subseteq gone2 \cup moved
  BY <1>1, <1>2, <1>4a
<1> HIDE DEF s, t, S, link, link2, gone, gone2
<1>10. /\ DoomedIn(s, link, gone, c) => DoomedIn(t, link2, gone2, c)
       /\ \/ DoomedIn(t, link2, gone2, c)
          \/ \A x \in ToSet(t) \ moved : x \in AheadIn(s, link, c) => x \in AheadIn(t, link2, c)
  <2>1. /\ c \in ToSet(s) \cap ToSet(t) \cap moved => BehindIn(s, c) = {}
        /\ \/ c = ListHead \/ c \in ToSet(s) \cap ToSet(t)
           \/ \A m \in moved \cap ToSet(s) : m = c \/ BehindIn(s, m) = {}
    BY <1>4a, <1>6, <1>9
  <2>2. s \in Seq(S) /\ t \in Seq(S) /\ ListHead \notin S /\ NoneTwice(s)
    BY <1>1
  <2>3. ToSet(s) \ ToSet(t) \subseteq gone2 \cup moved
    BY <1>9
  <2> QED
    BY ONLY ZenonT(60), <1>5, <1>7, <1>8, <2>1, <2>2, <2>3, TimersAhead
<1> QED
  BY <1>1, <1>3, <1>10 DEF t, link2, gone2

(* The link of a cursor that is adrift leads on, or to what is freed.       *)
LEMMA LinkKept ==
  ASSUME IInv, IInv', Running, ListsAreOrders, FreedIsGone, FreedIsGone',
         NEW off, LinksAre(off), TakesOff(off),
         NEW l \in ListNames, l # <<"timers">>, NEW c, HasLink(l, c), LinkIsOf(l, c),
         ~ OnList(l, c) => freed \subseteq freed', c # ListHead, c \notin ToSet(List(l)')
  PROVE  c \in freed' /\ left'[<<l, c>>] \in ToSet(List(l)') \cup {ListHead, NULL} \cup freed'
<1>1. /\ List(l) \in Seq(NodesIn(l)) /\ ToSet(List(l)) = Members(l) /\ ToSet(List(l)') = Members(l)'
  BY BothStates
<1>2. Members(l) \subseteq Members(l)' \cup freed'
  BY TakenOff DEF IInv
<1>3. CASE OnList(l, c)
  <2>1. c \in Members(l) /\ c \notin Members(l)'
    BY <1>1, <1>3 DEF OnList
  <2>2. c \in freed' /\ <<l, c>> \in off
    BY <2>1, TakenOff DEF IInv
  <2>3. left'[<<l, c>>] = After(List(l), c)
    BY <2>2, CursorLink DEF Running
  <2>4. After(List(l), c) \in ToSet(List(l)) \cup {ListHead}
    BY <1>1, <2>1, AfterType
  <2> QED
    BY <1>1, <1>2, <2>2, <2>3, <2>4
<1>4. CASE ~ OnList(l, c)
  <2>1. /\ c \in freed' /\ freed \subseteq freed'
        /\ left[<<l, c>>] \in ToSet(List(l)) \cup {ListHead, NULL} \cup freed
    BY <1>4 DEF LinkIsOf
  <2>2. left'[<<l, c>>] \in {left[<<l, c>>], NULL}
    BY <1>4, CursorLink DEF OnList, Running
  <2> QED
    BY <1>1, <1>2, <2>1, <2>2
<1> QED
  BY <1>3, <1>4

(* The cursors of a walk stand on lists.                                    *)
LEMMA Cursors ==
  ASSUME IInv, pc = "walk", InnerIsOfAt
  PROVE  /\ <<phase>> \in ListNames /\ HasLink(<<phase>>, at)
         /\ inner = <<>> => sub = ListHead
         /\ inner # <<>> => /\ Head(inner) \in ListNames /\ Head(inner) # <<"timers">>
                            /\ Head(inner) \in InnerNames /\ HasLink(Head(inner), sub)
                            /\ Head(inner)[1] = "by" => phase = "protocols"
<1>1. <<phase>> \in ListNames /\ HasLink(<<phase>>, at)
  BY DEF IInv, TypeOK, ListNames, CursorsHaveLinks
<1>2. IF inner = <<>> THEN sub = ListHead ELSE HasLink(Head(inner), sub)
  BY DEF IInv, CursorsHaveLinks
<1>3. ASSUME inner # <<>>
      PROVE  /\ Head(inner) \in ListNames /\ Head(inner) # <<"timers">> /\ Head(inner) \in InnerNames
             /\ Head(inner)[1] = "by" => phase = "protocols"
  <2>1. Head(inner) \in InnerNames
    <3>1. inner \in Seq(InnerNames)
      BY InnerNamesType
    <3> QED
      BY <1>3, <3>1, HeadTailProperties
  <2> QED
    BY <2>1, InnerNamesType DEF InnerNames
<1> QED
  BY <1>1, <1>2, <1>3

LEMMA LinksOfGoneKept ==
  ASSUME IInv, IInv', Running, ListsAreOrders, FreedIsGone, LinksOfGone, InnerIsOfAt,
         NEW off, NEW moved, Around(off, moved)
  PROVE  LinksOfGone'
<1>1. /\ phase' = phase /\ at' = at /\ inner' = inner /\ sub' = sub /\ FreedIsGone'
      /\ (carried => carried') /\ (~ carried' => Spares(off, moved))
  BY DEF Around, Callback, cursor
<1> SUFFICES ASSUME phase # "timers", ~ carried'
             PROVE  /\ LinkIsOf(<<phase>>, at)'
                    /\ inner # <<>> => LinkIsOf(Head(inner), sub)'
  BY <1>1 DEF LinksOfGone
<1>2. /\ LinksAre(off) /\ TakesOff(off) /\ (Adrift => freed \subseteq freed')
      /\ LinkIsOf(<<phase>>, at) /\ (inner # <<>> => LinkIsOf(Head(inner), sub))
  BY <1>1 DEF Spares, LinksOfGone, Running
<1>3. LinkIsOf(<<phase>>, at)'
  <2> SUFFICES ASSUME ~ OnList(<<phase>>, at)'
               PROVE  at \in freed' /\ left'[<<<<phase>>, at>>] \in ToSet(List(<<phase>>)') \cup {ListHead, NULL} \cup freed'
    BY <1>1 DEF LinkIsOf
  <2>1. at # ListHead /\ at \notin ToSet(List(<<phase>>)')
    BY <1>1 DEF OnList
  <2>2. ~ OnList(<<phase>>, at) => freed \subseteq freed'
    BY <1>2 DEF Adrift
  <2>3. <<phase>> # <<"timers">> /\ <<phase>> \in ListNames /\ HasLink(<<phase>>, at)
    BY Cursors DEF Running
  <2> QED
    BY <1>1, <1>2, <2>1, <2>2, <2>3, LinkKept
<1>4. ASSUME inner # <<>> PROVE LinkIsOf(Head(inner), sub)'
  <2> SUFFICES ASSUME ~ OnList(Head(inner), sub)'
               PROVE  sub \in freed' /\ left'[<<Head(inner), sub>>] \in ToSet(List(Head(inner))') \cup {ListHead, NULL} \cup freed'
    BY <1>1 DEF LinkIsOf
  <2>1. sub # ListHead /\ sub \notin ToSet(List(Head(inner))')
    BY <1>1 DEF OnList
  <2>2. ~ OnList(Head(inner), sub) => freed \subseteq freed'
    BY <1>2, <1>4 DEF Adrift
  <2>3. Head(inner) # <<"timers">> /\ Head(inner) \in ListNames /\ HasLink(Head(inner), sub)
    BY <1>4, Cursors DEF Running
  <2> QED
    BY <1>1, <1>2, <1>4, <2>1, <2>2, <2>3, LinkKept
<1> QED
  BY <1>3, <1>4

(* What is ahead is listed.                                                 *)
AheadAre ==
  /\ <<phase>> \in ListNames /\ Members(<<phase>>) \subseteq NodesIn(<<phase>>)
  /\ Outer \subseteq Members(<<phase>>)
  /\ inner # <<>> => Head(inner) \in InnerNames /\ First \subseteq Members(Head(inner))
  /\ Rest \subseteq InnerNames
  /\ \A n \in NodesIn(<<phase>>) : ToSet(InnerLists(n)) \subseteq InnerNames

LEMMA AheadAreListed == IInv /\ InnerIsOfAt /\ pc = "walk" => AheadAre
<1> SUFFICES ASSUME IInv, InnerIsOfAt, pc = "walk" PROVE AheadAre
  OBVIOUS
<1>1. ListsAreTyped /\ <<phase>> \in ListNames /\ InnerNames \subseteq ListNames
  BY WalkLists, InnerNamesType DEF TypeOK, ListNames
<1>2. \A l \in ListNames : \A c : Ahead(l, c) \subseteq Members(l)
  BY <1>1 DEF ListsAreTyped, Ahead, Behind
<1>3. inner \in Seq(InnerNames)
  BY InnerNamesType
<1>4. ASSUME inner # <<>>
      PROVE  Head(inner) \in InnerNames /\ ToSet(Tail(inner)) \subseteq InnerNames
  BY <1>3, <1>4, HeadTailMembers, MembersOfSeq
<1>5. Outer \subseteq Members(<<phase>>)
  BY <1>1, <1>2 DEF Outer
<1>6. inner # <<>> => Head(inner) \in InnerNames /\ First \subseteq Members(Head(inner))
  BY <1>1, <1>2, <1>4 DEF First
<1>7. Rest \subseteq InnerNames
  BY <1>4 DEF Rest
<1> QED
  BY <1>1, <1>5, <1>6, <1>7, InnerNamesType DEF AheadAre, ListsAreTyped

(* A node is due before the callback if and only if it is due after it, as  *)
(* far as it stays.                                                         *)
LEMMA DueKept ==
  ASSUME IInv, IInv', pc = "walk", InnerIsOfAt, InnerIsOfAt', NotifiesHaveEntries, NotifiesHaveEntries',
         UNCHANGED <<pc, phase, at, inner, sub>>,
         \A n \in Members(<<phase>>) : n \in Members(<<phase>>)' => (n \in Outer <=> n \in Outer'),
         NEW x \in Nodes(phase), x \in Nodes(phase)',
         inner # <<>> /\ x \in Members(Head(inner)) /\ x \in Members(Head(inner))' =>
           (x \in First <=> x \in First')
  PROVE  x \in Due <=> x \in Due'
<1>1. KindsAre /\ DueAre /\ OwnersAre /\ AheadAre
  BY KindsOfNodes, DueMembers, OwnersAreListed, AheadAreListed
<1>2. KindsAre' /\ DueAre' /\ OwnersAre' /\ AheadAre'
  <2>1. (IInv /\ pc = "walk")' => KindsAre'
    BY KindsOfNodes, PTL
  <2>2. (IInv /\ InnerIsOfAt /\ pc = "walk")' => DueAre' /\ AheadAre'
    BY DueMembers, AheadAreListed, PTL
  <2>3. (IInv /\ NotifiesHaveEntries)' => OwnersAre'
    BY OwnersAreListed, PTL
  <2> QED
    BY <2>1, <2>2, <2>3
<1>3. /\ phase' = phase /\ inner' = inner /\ Rest' = Rest
      /\ \A n : InnerLists(n)' = InnerLists(n)
      /\ InnerNames' = InnerNames
  BY DEF Rest, InnerLists, InnerNames
<1>4. IsOfKind(x) /\ IsOfKind(x)'
  BY <1>1, <1>2 DEF KindsAre
<1>5. x \in Members(<<phase>>) <=> x \in Members(<<phase>>)'
  BY <1>3, <1>4 DEF IsOfKind
<1>6. x \in Outer <=> x \in Outer'
  BY <1>1, <1>2, <1>5 DEF AheadAre
<1>7. ASSUME NEW n, NEW k \in ToSet(InnerLists(n)), x \in HangOn(k)
      PROVE  n \in Outer <=> n \in Outer'
  <2>1. CASE n \in NodesIn(<<phase>>)
    <3>1. k \in InnerNames
      BY <1>1, <2>1 DEF AheadAre
    <3>2. x \in Members(k) /\ x \in Members(k)'
      BY <1>3, <1>4, <1>7, <3>1 DEF IsOfKind
    <3>3. n \in Members(<<phase>>)
      BY <1>1, <1>7, <2>1, <3>2 DEF OwnersAre
    <3>4. n \in Members(<<phase>>)'
      BY <1>2, <1>3, <1>7, <2>1, <3>2 DEF OwnersAre
    <3> QED
      BY <3>3, <3>4
  <2>2. CASE n \notin NodesIn(<<phase>>)
    BY <1>1, <1>2, <1>3, <2>2 DEF AheadAre
  <2> QED
    BY <2>1, <2>2
<1>8. x \in First <=> x \in First'
  <2>1. CASE inner = <<>>
    BY <1>3, <2>1 DEF First
  <2>2. CASE inner # <<>>
    <3>1. Head(inner) \in InnerNames /\ First \subseteq Members(Head(inner))
          /\ First' \subseteq Members(Head(inner))'
      BY <1>1, <1>2, <1>3, <2>2 DEF AheadAre
    <3>2. x \in Members(Head(inner)) <=> x \in Members(Head(inner))'
      BY <1>3, <1>4, <3>1 DEF IsOfKind
    <3> QED
      BY <2>2, <3>1, <3>2
  <2> QED
    BY <2>1, <2>2
<1>9. DueIs(x, Outer, First, Rest) <=> DueIs(x, Outer, First, Rest)'
  BY <1>3, <1>6, <1>7, <1>8 DEF DueIs
<1> QED
  BY <1>1, <1>2, <1>9 DEF DueAre

(* Cursors stay where they are, and what is ahead of them.                  *)
LEMMA AheadLater ==
  ASSUME NEW l, NEW c
  PROVE  /\ Ahead(l, c)' = AheadIn(List(l)', left'[<<l, c>>], c)
         /\ Doomed(l, c)' <=> DoomedIn(List(l)', left'[<<l, c>>], freed' \cup {NULL}, c)
BY DEF Ahead, AheadIn, Behind, BehindIn, OnList, Doomed, DoomedIn

(* What stays in its place stays due while a callback runs.                 *)
LEMMA StillDueKept ==
  ASSUME IInv, IInv', Running, ListsAreOrders, FreedIsGone, LinksOfGone, InnerIsOfAt, InnerIsOfAt',
         NotifiesHaveEntries, ThereIsListed, StillDue,
         NEW off, NEW moved, Around(off, moved)
  PROVE  StillDue'
<1>1. /\ pc = "walk" /\ pc' = "walk" /\ phase' = phase /\ at' = at /\ inner' = inner /\ sub' = sub
      /\ printed' = printed /\ again' = again
      /\ there' \subseteq there /\ there \subseteq Nodes(phase) /\ there' \subseteq Nodes(phase)'
      /\ NotifiesHaveEntries' /\ FreedIsGone' /\ (carried => carried')
  BY DEF Around, Callback, Walking, cursor, ThereIsListed, Running
<1> SUFFICES ASSUME ~ carried' PROVE StillDue'
  BY <1>1 DEF StillDue
<1>2. ~ carried /\ Spares(off, moved)
  BY <1>1 DEF Around
<1>3. PICK l \in ListNames : l = <<phase>>
  BY <1>1, Cursors
<1>4. PICK c : c = at
  OBVIOUS
<1> DEFINE A == AheadIn(List(l)', left'[<<l, c>>], c)
           D == DoomedIn(List(l)', left'[<<l, c>>], freed' \cup {NULL}, c)
<1>5. /\ Outer = Ahead(l, c) /\ Outer' = A
      /\ (Doomed(<<phase>>, at) <=> Doomed(l, c)) /\ (Doomed(<<phase>>, at)' <=> D)
  BY <1>1, <1>3, <1>4, AheadLater DEF Outer
<1>6. CASE phase = "timers"
  <2>1. inner = <<>>
    BY <1>1, <1>6 DEF InnerIsOfAt
  <2>2. /\ Doomed(l, c) => D
        /\ D \/ \A x \in Members(l)' \ moved : x \in Ahead(l, c) => x \in A
    <3>1. l = <<"timers">> /\ HasLink(<<"timers">>, at)
      BY <1>1, <1>3, <1>6, Cursors
    <3> QED
      BY <1>1, <1>2, <1>4, <1>6, <3>1, TimersCursorKept
  <2> HIDE DEF A, D
  <2>3. \A x \in there' : x \in Members(l)' \ moved
    <3>1. Members(l)' = Nodes(phase)'
      BY <1>1, <1>3, <1>6 DEF Members, Nodes
    <3> QED
      BY <1>1, <1>2, <1>6, <3>1 DEF Spares, TimersKept
  <2>4. \A n \in Outer : Hanging(n) = {}
    <3>1. \A n : InnerLists(n) = <<>>
      BY <1>6 DEF InnerLists
    <3>2. ToSet(<<>>) = {}
      BY DEF ToSet
    <3> QED
      BY <3>1, <3>2 DEF Hanging
  <2>5. Due = Outer
    BY <2>1, <2>4 DEF Due, Outer
  <2>6. Outer' \subseteq Due'
    BY DEF Due, Outer
  <2>7. Doomed(l, c) \/ there \ printed \subseteq Outer
    BY <1>1, <1>2, <1>5, <2>1, <2>5 DEF StillDue
  <2>8. D \/ there' \ printed' \subseteq Due'
    BY <1>1, <1>5, <2>2, <2>3, <2>6, <2>7
  <2> QED
    BY <1>1, <1>5, <1>6, <2>8 DEF StillDue
<1>7. CASE phase # "timers"
  <2>0. /\ LinksAre(off) /\ TakesOff(off) /\ OrdersKept /\ (Adrift => freed \subseteq freed')
        /\ LinkIsOf(<<phase>>, at) /\ (inner # <<>> => LinkIsOf(Head(inner), sub))
    BY <1>1, <1>2, <1>7 DEF Spares, LinksOfGone
  <2>1. /\ l # <<"timers">> /\ l[1] # "by" /\ HasLink(l, c) /\ LinkIsOf(l, c)
        /\ ~ OnList(l, c) => freed \subseteq freed'
    <3>1. l[1] # "by"
      BY <1>3, <1>7 DEF IInv, TypeOK, Phases
    <3>2. ~ OnList(l, c) => Adrift
      BY <1>3, <1>4 DEF Adrift
    <3> QED
      BY <1>1, <1>3, <1>4, <1>7, <2>0, <3>1, <3>2, Cursors
  <2>2. /\ Doomed(l, c) => D
        /\ D \/ \A x \in Members(l) : x \in Members(l)' => (x \in Ahead(l, c) <=> x \in A)
    <3>1. MovedOn(l, moved) = {}
      BY <2>1 DEF MovedOn
    <3> QED
      BY <1>1, <2>0, <2>1, <3>1, CursorKept
  <2> HIDE DEF A, D
  <2>3. /\ Doomed(<<phase>>, at) => Doomed(<<phase>>, at)'
        /\ \/ Doomed(<<phase>>, at)'
           \/ \A n \in Members(<<phase>>) : n \in Members(<<phase>>)' => (n \in Outer <=> n \in Outer')
    BY <1>1, <1>3, <1>5, <2>2
  <2>4. ASSUME inner # <<>>
        PROVE  /\ Doomed(Head(inner), sub) => Doomed(Head(inner), sub)'
               /\ \/ Doomed(Head(inner), sub)'
                  \/ \A x \in Members(Head(inner)) \cap there' :
                       x \in Members(Head(inner))' => (x \in First <=> x \in First')
    <3>2. PICK k \in ListNames : k = Head(inner)
      BY <1>1, <2>4, Cursors
    <3>3. PICK d : d = sub
      OBVIOUS
    <3>4. /\ HasLink(k, d) /\ k # <<"timers">> /\ LinkIsOf(k, d)
          /\ ~ OnList(k, d) => freed \subseteq freed'
      <4>1. ~ OnList(k, d) => Adrift
        BY <2>4, <3>2, <3>3 DEF Adrift
      <4> QED
        BY <1>1, <2>0, <2>4, <3>2, <3>3, <4>1, Cursors
    <3>4a. /\ k[1] = "by" => Unmoved(byProtocol, byProtocol', moved)
           /\ MovedOn(k, moved) = {} \/ (OnList(k, d) /\ off = {} /\ d \notin moved)
           /\ there' \cap MovedOn(k, moved) = {}
      <4>1. CASE k[1] = "by"
        <5>1. phase = "protocols"
          BY <1>1, <2>4, <3>2, <4>1, Cursors
        <5>2. ~ Adrift => OnList(k, d)
          BY <2>4, <3>2, <3>3 DEF Adrift
        <5> QED
          BY <1>2, <3>3, <4>1, <5>1, <5>2 DEF Spares, InterfacesKept, MovedOn
      <4>2. CASE k[1] # "by"
        BY <4>2 DEF MovedOn
      <4> QED
        BY <4>1, <4>2
    <3> DEFINE B == AheadIn(List(k)', left'[<<k, d>>], d)
               E == DoomedIn(List(k)', left'[<<k, d>>], freed' \cup {NULL}, d)
    <3>5. /\ First = Ahead(k, d) /\ First' = B
          /\ (Doomed(Head(inner), sub) <=> Doomed(k, d)) /\ (Doomed(Head(inner), sub)' <=> E)
      BY <1>1, <2>4, <3>2, <3>3, AheadLater DEF First
    <3>6. /\ Doomed(k, d) => E
          /\ E \/ \A x \in Members(k) :
                    x \in Members(k)' /\ x \notin MovedOn(k, moved) => (x \in Ahead(k, d) <=> x \in B)
      BY <1>1, <2>0, <3>4, <3>4a, CursorKept
    <3> HIDE DEF B, E
    <3> QED
      BY <1>1, <3>2, <3>4a, <3>5, <3>6
  <2>5. CASE Doomed(<<phase>>, at)' \/ (inner # <<>> /\ Doomed(Head(inner), sub)')
    BY <1>1, <2>5 DEF StillDue
  <2>6. CASE ~ Doomed(<<phase>>, at)' /\ ~ (inner # <<>> /\ Doomed(Head(inner), sub)')
    <3>1. /\ there \ printed \subseteq Due /\ there \cap printed \cap Due = {} /\ there \cap again = {}
      BY <1>1, <1>2, <1>7, <2>3, <2>4, <2>6 DEF StillDue
    <3>2. ASSUME NEW x \in there' PROVE x \in Due <=> x \in Due'
      <4>1. x \in Nodes(phase) /\ x \in Nodes(phase)'
        BY <1>1
      <4>2. inner # <<>> /\ x \in Members(Head(inner)) /\ x \in Members(Head(inner))' =>
              (x \in First <=> x \in First')
        BY <2>4, <2>6, <3>2
      <4> QED
        BY <1>1, <2>3, <2>6, <4>1, <4>2, DueKept
    <3>3. there' \ printed' \subseteq Due' /\ there' \cap printed' \cap Due' = {} /\ there' \cap again' = {}
      BY <1>1, <3>1, <3>2
    <3> QED
      BY <3>3 DEF StillDue
  <2> QED
    BY <2>5, <2>6
<1> QED
  BY <1>6, <1>7

(* So a callback that takes nodes off, moves them or puts them in keeps the *)
(* invariant.                                                               *)
LEMMA CallbackKeepsWalk ==
  ASSUME IInv, IInv', WalkInv, NEW off, NEW moved, Around(off, moved)
  PROVE  WalkInv'
<1>1. pc = "walk" /\ pc' = "walk" /\ phase' = phase /\ at' = at /\ inner' = inner /\ Running
  BY DEF Around, Callback, Walking, cursor, Running
<1>2. InnerIsOfAt'
  BY <1>1 DEF WalkInv, InnerIsOfAt, NodesIn
<1>3. EveryNodeOnce' /\ StillTimersPrinted' /\ EverythingDumped'
  BY <1>1 DEF EveryNodeOnce, StillTimersPrinted, EverythingDumped
<1>4. LinksOfGone'
  BY <1>1, LinksOfGoneKept DEF WalkInv
<1>5. StillDue'
  BY <1>1, <1>2, StillDueKept DEF WalkInv
<1> QED
  BY <1>2, <1>3, <1>4, <1>5 DEF WalkInv, Around

(* Nodes that join lists, in memory that may have been freed.               *)
LEMMA JoinsKeepWalk ==
  ASSUME IInv, IInv', WalkInv, Callback, NEW nodes, Allocate(nodes), LinksAre({}), UNCHANGED there,
         events \subseteq events',
         ToSet(handles) \subseteq ToSet(handles'), ToSet(protocols) \subseteq ToSet(protocols'),
         ToSet(ifaces) \subseteq ToSet(ifaces'), ToSet(notifies) \subseteq ToSet(notifies'),
         ToSet(signals) \subseteq ToSet(signals'), timers' = timers,
         OrdersKept, SameOrder(byProtocol, byProtocol'), ListsAreOrders',
         Listed' \cup events' \subseteq Listed \cup events \cup Protocols \cup nodes,
         (ToSet(signals') \cup ToSet(timers')) \ {Dummy} \subseteq events',
         \A n \in ToSet(notifies') : n[2] \in events',
         NotifiesHaveEntries'
  PROVE  WalkInv'
<1>0. freed' = freed \ nodes /\ (carried => carried') /\ (~ carried' /\ Adrift => freed \subseteq freed')
  BY DEF Allocate
<1>1. FreedIsGone'
  <2>1. freed \subseteq Handles \cup Events \cup (Handles \X Protocols) \cup (Protocols \X Events)
        /\ freed \cap (Listed \cup events) = {}
    BY DEF WalkInv, FreedIsGone
  <2>2. freed \cap Protocols = {}
    BY <2>1, NodesAssumption
  <2> QED
    BY <1>0, <2>1, <2>2 DEF FreedIsGone
<1>2. ThereIsListed'
  <2>1. pc = "walk" /\ phase' = phase /\ phase \in Phases
    BY DEF Callback, Walking, IInv, TypeOK
  <2>2. there \subseteq Nodes(phase)
    BY <2>1 DEF WalkInv, ThereIsListed
  <2>3. Nodes(phase) \subseteq Nodes(phase)'
    BY <2>1 DEF Nodes, Phases
  <2> QED
    BY <2>1, <2>2, <2>3 DEF ThereIsListed
<1>4. TakesOff({})
  BY DEF TakesOff
<1>5. InterfacesKept({}, {}) /\ TimersKept({}, {})
  <2>1. Unmoved(byProtocol, byProtocol', {}) /\ Unmoved(timers, timers', {})
    BY NoneMoved, UnchangedOrder
  <2> QED
    BY <2>1 DEF InterfacesKept, TimersKept
<1>6. Around({}, {})
  BY <1>0, <1>1, <1>2, <1>4, <1>5 DEF Around, Spares
<1> QED
  BY <1>6, CallbackKeepsWalk

LEMMA Sequences ==
  ASSUME IInv, pc = "walk", WalkInv
  PROVE  /\ handles \in Seq(Handles) /\ ToSet(handles) \subseteq Handles
         /\ protocols \in Seq(Protocols) /\ ToSet(protocols) \subseteq Protocols
         /\ ifaces \in Seq(Handles \X Protocols) /\ ToSet(ifaces) \subseteq Handles \X Protocols
         /\ byProtocol \in Seq(Handles \X Protocols) /\ ToSet(byProtocol) = ToSet(ifaces)
         /\ notifies \in Seq(Protocols \X Events) /\ ToSet(notifies) \subseteq Protocols \X Events
         /\ signals \in Seq(Events) /\ ToSet(signals) \subseteq events
         /\ timers \in Seq(Events) /\ ToSet(timers) \subseteq events /\ events \subseteq Events
         /\ NoneTwice(handles) /\ NoneTwice(protocols) /\ NoneTwice(ifaces) /\ NoneTwice(byProtocol)
         /\ NoneTwice(notifies) /\ NoneTwice(signals) /\ NoneTwice(timers)
<1>1. signals \in Seq(Events) /\ timers \in Seq(Events) /\ ToSet(byProtocol) = ToSet(ifaces)
  BY WalkLists DEF ImagesStay
<1>2. ToSet(signals) \subseteq Events /\ ToSet(timers) \subseteq Events
  BY <1>1, MembersOfSeq
<1>3. Dummy \notin Events
  BY NodesAssumption DEF ListedNodes
<1>4. ToSet(signals) \cup ToSet(timers) \subseteq events
  BY <1>2, <1>3 DEF WalkInv, FreedIsGone
<1> QED
  BY <1>1, <1>4, MembersOfSeq DEF IInv, TypeOK, WalkInv, ListsAreOrders

LEMMA NothingOff == ASSUME UNCHANGED left PROVE LinksAre({})
BY DEF LinksAre

LEMMA InstallProtocolWalk == ASSUME IInv, IInv', WalkInv, InstallProtocol PROVE WalkInv'
<1>1. PICK h \in Handles, p \in Protocols :
        /\ <<h, p>> \notin ToSet(ifaces)
        /\ handles' = AppendNew(handles, h)
        /\ protocols' = AppendNew(protocols, p)
        /\ ifaces' = Append(ifaces, <<h, p>>) /\ byProtocol' = Append(byProtocol, <<h, p>>)
        /\ Allocate({h, <<h, p>>})
  BY DEF InstallProtocol
<1> DEFINE I == Handles \X Protocols
           i == <<h, p>>
           nodes == {h, i}
<1>2. /\ UNCHANGED <<notifies, events, signals, timers, left, there>> /\ Callback /\ pc = "walk"
  BY DEF InstallProtocol, Callback, Walking
<1>3. /\ i \in I /\ i \notin ToSet(ifaces) /\ i \notin ToSet(byProtocol)
      /\ ifaces' = Append(ifaces, i) /\ byProtocol' = Append(byProtocol, i) /\ Allocate(nodes)
      /\ ifaces \in Seq(I) /\ byProtocol \in Seq(I)
  BY <1>1, <1>2, Sequences
<1>4. h \in nodes /\ i \in nodes
  OBVIOUS
<1> HIDE DEF I, i, nodes
<1>5. /\ ToSet(handles') = ToSet(handles) \cup {h} /\ SameOrder(handles, handles') /\ NoneTwice(handles')
  <2>1. handles \in Seq(Handles) /\ NoneTwice(handles)
    BY <1>2, Sequences
  <2> QED
    BY <1>1, <2>1, AppendNewMembers, AppendNewOrder
<1>6. /\ ToSet(protocols') = ToSet(protocols) \cup {p} /\ SameOrder(protocols, protocols')
      /\ NoneTwice(protocols')
  <2>1. protocols \in Seq(Protocols) /\ NoneTwice(protocols)
    BY <1>2, Sequences
  <2> QED
    BY <1>1, <2>1, AppendNewMembers, AppendNewOrder
<1>7. /\ ToSet(ifaces') = ToSet(ifaces) \cup {i} /\ SameOrder(ifaces, ifaces') /\ NoneTwice(ifaces')
      /\ SameOrder(byProtocol, byProtocol') /\ NoneTwice(byProtocol')
  <2>1. NoneTwice(ifaces) /\ NoneTwice(byProtocol)
    BY <1>2, Sequences
  <2> QED
    BY <1>3, <2>1, AppendMembers, AppendOrder
<1>8. OrdersKept /\ ListsAreOrders'
  BY <1>2, <1>5, <1>6, <1>7, Sequences, UnchangedOrder DEF OrdersKept, ListsAreOrders
<1>9. Listed' \cup events' \subseteq Listed \cup events \cup Protocols \cup nodes
  BY <1>2, <1>4, <1>5, <1>6, <1>7 DEF Listed
<1>10. /\ (ToSet(signals') \cup ToSet(timers')) \ {Dummy} \subseteq events'
       /\ \A n \in ToSet(notifies') : n[2] \in events'
  BY <1>2 DEF WalkInv, FreedIsGone
<1>11. NotifiesHaveEntries' /\ LinksAre({})
  BY <1>2, <1>6, NothingOff DEF WalkInv, NotifiesHaveEntries
<1> QED
  BY <1>2, <1>3, <1>5, <1>6, <1>7, <1>8, <1>9, <1>10, <1>11, JoinsKeepWalk

LEMMA RegisterProtocolNotifyWalk ==
  ASSUME IInv, IInv', WalkInv, RegisterProtocolNotify PROVE WalkInv'
<1>1. PICK p \in Protocols, e \in events :
        /\ <<p, e>> \notin ToSet(notifies)
        /\ protocols' = AppendNew(protocols, p)
        /\ notifies' = Append(notifies, <<p, e>>)
        /\ Allocate({<<p, e>>})
  BY DEF RegisterProtocolNotify
<1> DEFINE N == Protocols \X Events
           n == <<p, e>>
           nodes == {n}
<1>2. /\ UNCHANGED <<handles, ifaces, byProtocol, events, signals, timers, left, there>> /\ Callback
      /\ pc = "walk"
  BY DEF RegisterProtocolNotify, Callback, Walking
<1>3. /\ n \in N /\ notifies \in Seq(N) /\ Allocate(nodes)
      /\ n \notin ToSet(notifies) /\ notifies' = Append(notifies, n) /\ n[1] = p /\ n[2] = e
  BY <1>1, <1>2, Sequences
<1>4. n \in nodes
  OBVIOUS
<1> HIDE DEF N, n, nodes
<1>5. /\ ToSet(protocols') = ToSet(protocols) \cup {p} /\ SameOrder(protocols, protocols')
      /\ NoneTwice(protocols')
  <2>1. protocols \in Seq(Protocols) /\ NoneTwice(protocols)
    BY <1>2, Sequences
  <2> QED
    BY <1>1, <2>1, AppendNewMembers, AppendNewOrder
<1>6. /\ ToSet(notifies') = ToSet(notifies) \cup {n} /\ SameOrder(notifies, notifies')
      /\ NoneTwice(notifies')
  <2>1. NoneTwice(notifies)
    BY <1>2, Sequences
  <2> QED
    BY <1>3, <2>1, AppendMembers, AppendOrder
<1>7. OrdersKept /\ SameOrder(byProtocol, byProtocol') /\ ListsAreOrders'
  BY <1>2, <1>5, <1>6, Sequences, UnchangedOrder DEF OrdersKept, ListsAreOrders
<1>8. Listed' \cup events' \subseteq Listed \cup events \cup Protocols \cup nodes
  BY <1>2, <1>4, <1>5, <1>6 DEF Listed
<1>9. /\ (ToSet(signals') \cup ToSet(timers')) \ {Dummy} \subseteq events'
      /\ \A m \in ToSet(notifies') : m[2] \in events'
  BY <1>1, <1>2, <1>3, <1>6 DEF WalkInv, FreedIsGone
<1>10. NotifiesHaveEntries' /\ LinksAre({})
  BY <1>2, <1>3, <1>5, <1>6, NothingOff DEF WalkInv, NotifiesHaveEntries
<1> QED
  BY <1>2, <1>3, <1>5, <1>6, <1>7, <1>8, <1>9, <1>10, JoinsKeepWalk

LEMMA CreateEventWalk == ASSUME IInv, IInv', WalkInv, CreateEvent PROVE WalkInv'
<1>1. PICK e \in Events \ events :
        /\ events' = events \cup {e} /\ signals' \in {signals, <<e>> \o signals}
        /\ left' = [k \in DOMAIN left |-> IF k[2] = e THEN NULL ELSE left[k]]
        /\ Allocate({e})
  BY DEF CreateEvent
<1>2. /\ UNCHANGED <<handles, protocols, ifaces, byProtocol, notifies, timers, there>> /\ Callback
      /\ pc = "walk"
  BY DEF CreateEvent, Callback, Walking
<1>3. /\ SameOrder(signals, signals') /\ NoneTwice(signals') /\ ToSet(signals) \subseteq ToSet(signals')
      /\ ToSet(signals') \subseteq ToSet(signals) \cup {e}
  <2> DEFINE one == <<e>>
  <2>1. /\ signals \in Seq(Events) /\ NoneTwice(signals) /\ e \notin ToSet(signals)
    BY <1>1, <1>2, Sequences
  <2>2. CASE signals' = signals
    BY <2>1, <2>2, UnchangedOrder
  <2>3. CASE signals' = one \o signals
    <3>1. SameOrder(signals, signals') /\ NoneTwice(signals')
      BY <1>1, <2>1, <2>3, FrontOrder
    <3>2. one \in Seq(Events) /\ ToSet(one) = {e}
      BY <1>1, SingleMembers
    <3> HIDE DEF one
    <3>3. ToSet(signals') = {e} \cup ToSet(signals)
      BY <2>1, <2>3, <3>2, ConcatMembers
    <3> QED
      BY <3>1, <3>3
  <2> QED
    BY <1>1, <2>2, <2>3
<1>4. OrdersKept /\ SameOrder(byProtocol, byProtocol') /\ ListsAreOrders'
  BY <1>2, <1>3, Sequences, UnchangedOrder DEF OrdersKept, ListsAreOrders
<1> DEFINE nodes == {e}
<1>5. Listed' \cup events' \subseteq Listed \cup events \cup Protocols \cup nodes
  BY <1>1, <1>2, <1>3 DEF Listed
<1>6. /\ (ToSet(signals') \cup ToSet(timers')) \ {Dummy} \subseteq events' /\ events \subseteq events'
      /\ \A n \in ToSet(notifies') : n[2] \in events'
  BY <1>1, <1>2, <1>3 DEF WalkInv, FreedIsGone
<1>7. NotifiesHaveEntries'
  BY <1>2 DEF WalkInv, NotifiesHaveEntries
<1>8. LinksAre({})
  BY <1>1 DEF LinksAre
<1>9. Allocate(nodes)
  BY <1>1
<1> HIDE DEF nodes
<1> QED
  BY <1>2, <1>3, <1>4, <1>5, <1>6, <1>7, <1>8, <1>9, JoinsKeepWalk

(* What the links show that nodes leave behind them.                        *)
LEMMA LinksAreThose == ASSUME NEW off, left' = Links(off) PROVE LinksAre(off)
BY DEF Links, LinksAre

(* An interface goes last on its protocol.                                  *)
LEMMA ReinstallProtocolWalk == ASSUME IInv, IInv', WalkInv, ReinstallProtocol PROVE WalkInv'
<1>1. PICK i \in ToSet(ifaces) :
        /\ byProtocol' = Append(Remaining(byProtocol, {i}), i)
        /\ there' = (IF phase = "protocols" THEN there \ {i} ELSE there)
        /\ carried' = (carried \/ (phase = "protocols" /\ (sub = i \/ Adrift)))
  BY DEF ReinstallProtocol
<1> DEFINE I == Handles \X Protocols
           rest == Remaining(byProtocol, {i})
           moved == IF phase = "protocols" THEN {i} ELSE {}
<1>2. /\ UNCHANGED <<handles, protocols, ifaces, notifies, events, signals, timers, freed, left>>
      /\ Callback /\ pc = "walk"
  BY DEF ReinstallProtocol, Callback, Walking
<1>3. byProtocol \in Seq(I) /\ i \in I /\ ToSet(byProtocol) = ToSet(ifaces) /\ NoneTwice(byProtocol)
  BY <1>2, Sequences
<1> HIDE DEF I
<1>4. /\ rest \in Seq(I) /\ ToSet(rest) = ToSet(byProtocol) \ {i} /\ SameOrder(byProtocol, rest)
      /\ NoneTwice(rest)
  BY <1>3, RemainingMembers, RemainingOrder
<1>5. byProtocol' = Append(rest, i)
  BY <1>1
<1> HIDE DEF rest
<1>6. SameOrder(rest, byProtocol') /\ NoneTwice(byProtocol')
  BY <1>3, <1>4, <1>5, AppendOrder
<1>6a. ToSet(byProtocol') = ToSet(rest) \cup {i}
  BY <1>3, <1>4, <1>5, AppendMembers
<1>7. Unmoved(byProtocol, byProtocol', {i})
  BY <1>4, <1>6, <1>6a DEF SameOrder, Unmoved
<1>8. OrdersKept /\ ListsAreOrders'
  BY <1>2, <1>6, Sequences, UnchangedOrder DEF OrdersKept, ListsAreOrders
<1>9. FreedIsGone' /\ NotifiesHaveEntries'
  BY <1>2 DEF WalkInv, FreedIsGone, Listed, NotifiesHaveEntries
<1>10. ThereIsListed' /\ there' \subseteq there
  <2>1. pc = "walk" /\ phase' = phase /\ phase \in Phases
    BY <1>2 DEF Callback, Walking, IInv, TypeOK
  <2>2. there \subseteq Nodes(phase) /\ there' \subseteq there
    BY <1>1, <2>1 DEF WalkInv, ThereIsListed
  <2>3. Nodes(phase) \subseteq Nodes(phase)'
    BY <1>2, <2>1 DEF Nodes, Phases
  <2> QED
    BY <2>1, <2>2, <2>3 DEF ThereIsListed
<1>11. LinksAre({}) /\ TakesOff({})
  BY <1>2, NothingOff DEF TakesOff
<1>12. ~ carried' => InterfacesKept({}, moved)
  BY <1>1, <1>7 DEF InterfacesKept
<1>13. TimersKept({}, moved)
  <2>1. Unmoved(timers, timers', {})
    BY <1>2, NoneMoved, UnchangedOrder
  <2> QED
    BY <1>2, <2>1 DEF TimersKept
<1> HIDE DEF moved
<1>14. Around({}, moved)
  BY <1>1, <1>2, <1>8, <1>9, <1>10, <1>11, <1>12, <1>13 DEF Around, Spares
<1> QED
  BY <1>14, CallbackKeepsWalk

(* UninstallProtocol takes an interface off, and a handle with its last     *)
(* one.                                                                     *)
LEMMA UninstallProtocolWalk == ASSUME IInv, IInv', WalkInv, UninstallProtocol PROVE WalkInv'
<1>1. PICK i \in ToSet(ifaces) :
        LET h == i[1]
            last == \A j \in ToSet(ifaces) : j[1] = h => j = i
            gone == IF last THEN {i, h} ELSE {i}
            off == {<<<<"on", h>>, i>>, <<<<"by", i[2]>>, i>>}
                     \cup (IF last THEN {<<<<"handles">>, h>>} ELSE {})
        IN /\ ifaces' = Remaining(ifaces, {i}) /\ byProtocol' = Remaining(byProtocol, {i})
           /\ handles' = Remaining(handles, gone)
           /\ left' = Links(off)
           /\ freed' = freed \cup gone
           /\ there' = there \ gone
  BY DEF UninstallProtocol
<1> DEFINE h == i[1]
           last == \A j \in ToSet(ifaces) : j[1] = h => j = i
           gone == IF last THEN {i, h} ELSE {i}
           off == {<<<<"on", h>>, i>>, <<<<"by", i[2]>>, i>>}
                    \cup (IF last THEN {<<<<"handles">>, h>>} ELSE {})
           I == Handles \X Protocols
<1>12. /\ UNCHANGED <<protocols, notifies, events, signals, timers, carried>> /\ Callback
       /\ pc = "walk"
  BY DEF UninstallProtocol, Callback, Walking
<1>2. /\ handles \in Seq(Handles) /\ protocols \in Seq(Protocols) /\ ifaces \in Seq(I)
      /\ ToSet(ifaces) \subseteq I /\ ToSet(handles) \subseteq Handles /\ ToSet(signals) \subseteq Events
      /\ ToSet(protocols) \subseteq Protocols /\ ToSet(notifies) \subseteq Protocols \X Events
      /\ ToSet(timers) \subseteq Events /\ byProtocol \in Seq(I) /\ events \subseteq Events
  BY <1>12, Sequences
<1>3. /\ i \in I /\ h \in Handles /\ i[2] \in Protocols /\ h \in ToSet(handles)
  BY <1>2 DEF IInv, ImagesStay
<1>4. /\ i \in ToSet(ifaces)
      /\ ifaces' = Remaining(ifaces, {i}) /\ byProtocol' = Remaining(byProtocol, {i})
      /\ handles' = Remaining(handles, gone)
      /\ left' = Links(off) /\ freed' = freed \cup gone /\ there' = there \ gone
  BY <1>1
<1>5. /\ i \notin Handles \cup Events \cup Protocols \cup (Protocols \X Events)
      /\ h \notin Events \cup Protocols \cup (Protocols \X Events) \cup I
  BY <1>3, NodesAssumption
<1>6. /\ ToSet(ifaces') = ToSet(ifaces) \ {i} /\ SameOrder(ifaces, ifaces')
      /\ NoneTwice(ifaces) => NoneTwice(ifaces')
      /\ SameOrder(byProtocol, byProtocol') /\ (NoneTwice(byProtocol) => NoneTwice(byProtocol'))
  <2> HIDE DEF I
  <2> QED
    BY <1>2, <1>4, RemainingMembers, RemainingOrder
<1>7. ToSet(handles') = ToSet(handles) \ gone /\ SameOrder(handles, handles')
      /\ (NoneTwice(handles) => NoneTwice(handles'))
  <2> HIDE DEF gone
  <2> QED
    BY <1>2, <1>4, RemainingMembers, RemainingOrder
<1>8. /\ gone \subseteq {i, h} /\ i \in gone
      /\ h \in gone => <<<<"handles">>, h>> \in off
  <2>1. CASE last
    BY <2>1
  <2>2. CASE ~last
    BY <1>3, <1>5, <2>2
  <2> QED
    BY <2>1, <2>2
<1>9. \A k \in off : \/ k = <<<<"on", h>>, i>> \/ k = <<<<"by", i[2]>>, i>>
                     \/ k = <<<<"handles">>, h>> /\ h \in gone
  OBVIOUS
<1>10. <<<<"on", h>>, i>> \in off /\ <<<<"by", i[2]>>, i>> \in off
  OBVIOUS
<1>11. LinksAre(off)
  <2> HIDE DEF off
  <2> QED
    BY <1>4, LinksAreThose
<1> HIDE DEF off, gone, last
<1>13. TakesOff(off)
  <2>1. ASSUME NEW k \in off PROVE k[1] \in ListNames /\ k[2] \in Members(k[1])
    <3>1. CASE k = <<<<"on", h>>, i>>
      BY <1>3, <1>4, <1>8, <3>1 DEF ListNames, Members
    <3>2. CASE k = <<<<"by", i[2]>>, i>>
      <4>1. i \in ToSet(byProtocol)
        BY <1>4 DEF IInv, ImagesStay
      <4> QED
        BY <1>3, <3>2, <4>1 DEF ListNames, Members
    <3>3. CASE k = <<<<"handles">>, h>> /\ h \in gone
      BY <1>3, <1>4, <3>3 DEF ListNames, Members, Phases
    <3> QED
      BY <1>9, <2>1, <3>1, <3>2, <3>3
  <2>2. ASSUME NEW n \in ToSet(handles), n \notin ToSet(handles')
        PROVE  n \in freed' /\ <<<<"handles">>, n>> \in off
    <3>1. n \in gone /\ n = h
      BY <1>2, <1>5, <1>7, <1>8, <2>2
    <3> QED
      BY <1>4, <1>8, <3>1
  <2>3. ASSUME NEW j \in ToSet(ifaces), j \notin ToSet(ifaces')
        PROVE  j \in freed' /\ <<<<"on", j[1]>>, j>> \in off /\ <<<<"by", j[2]>>, j>> \in off
    <3>1. j = i
      BY <1>6, <2>3
    <3> QED
      BY <1>4, <1>8, <1>10, <3>1
  <2> QED
    BY <1>12, <2>1, <2>2, <2>3 DEF TakesOff
<1>14. OrdersKept /\ ListsAreOrders'
  BY <1>6, <1>7, <1>12, UnchangedOrder DEF OrdersKept, ListsAreOrders, WalkInv
<1>15. InterfacesKept(off, {}) /\ TimersKept(off, {})
  <2>1. Unmoved(byProtocol, byProtocol', {}) /\ Unmoved(timers, timers', {})
    BY <1>6, <1>12, NoneMoved, UnchangedOrder
  <2> QED
    BY <1>12, <2>1 DEF InterfacesKept, TimersKept
<1>16. FreedIsGone'
  <2>1. /\ freed \subseteq Handles \cup Events \cup I \cup (Protocols \X Events)
        /\ freed \cap (Listed \cup events) = {}
        /\ (ToSet(signals) \cup ToSet(timers)) \ {Dummy} \subseteq events
        /\ \A n \in ToSet(notifies) : n[2] \in events
    BY DEF WalkInv, FreedIsGone
  <2>2. Listed' \subseteq Listed
    BY <1>6, <1>7, <1>12 DEF Listed
  <2>3. i \notin Listed' /\ (h \in gone => h \notin Listed')
    BY <1>2, <1>3, <1>5, <1>6, <1>7, <1>12 DEF Listed
  <2>4. gone \cap (Listed' \cup events') = {}
    BY <1>2, <1>5, <1>8, <1>12, <2>3, ZenonT(60)
  <2>5. gone \subseteq Handles \cup I
    BY <1>3, <1>8
  <2> HIDE DEF h
  <2> QED
    BY <1>4, <1>12, <2>1, <2>2, <2>4, <2>5 DEF FreedIsGone
<1>17. NotifiesHaveEntries'
  BY <1>12 DEF WalkInv, NotifiesHaveEntries
<1>18. ThereIsListed'
  <2>1. pc = "walk" /\ phase' = phase /\ phase \in Phases
    BY <1>12 DEF Callback, Walking, IInv, TypeOK
  <2>2. there \subseteq Nodes(phase)
    BY <2>1 DEF WalkInv, ThereIsListed
  <2>3. Nodes(phase) \ gone \subseteq Nodes(phase)'
    BY <1>6, <1>7, <1>8, <1>12, <2>1 DEF Nodes, Phases
  <2> QED
    BY <1>4, <2>1, <2>2, <2>3 DEF ThereIsListed
<1>19. freed \subseteq freed' /\ there' \subseteq there
  BY <1>4
<1>20. Around(off, {})
  BY <1>11, <1>12, <1>13, <1>14, <1>15, <1>16, <1>17, <1>18, <1>19 DEF Around, Spares
<1> QED
  BY <1>20, CallbackKeepsWalk

(* A timer that moves: it is the last of the walk, or one that no cursor is *)
(* at or before.                                                            *)
LEMMA TimerMoves ==
  ASSUME IInv, IInv', WalkInv, Callback, NEW e \in events, left' = Links(Armed(e)),
         UNCHANGED <<handles, protocols, ifaces, byProtocol, notifies, events, signals, freed>>,
         there' = (IF phase = "timers" THEN there \ {e} ELSE there), carried => carried',
         Unmoved(timers, timers', {e}), NoneTwice(timers'),
         ToSet(timers) \ {e} \subseteq ToSet(timers'), ToSet(timers') \subseteq ToSet(timers) \cup {e},
         phase = "timers" /\ ~ carried' =>
           \/ e \in ToSet(timers) /\ IsLast(e)
           \/ ~ Adrift /\ (at # e \/ e \notin ToSet(timers'))
  PROVE  WalkInv'
<1> DEFINE off == Armed(e)
           moved == IF phase = "timers" THEN {e} ELSE {}
<1>1. pc = "walk" /\ phase' = phase /\ phase \in Phases
  BY DEF Callback, Walking, IInv, TypeOK
<1>2. LinksAre(off)
  BY LinksAreThose
<1>3. TakesOff(off)
  <2>1. ASSUME NEW k \in off PROVE k[1] \in ListNames /\ k[2] \in Members(k[1])
    BY <2>1 DEF Armed, ListNames, Phases, Members
  <2> HIDE DEF off
  <2> QED
    BY <2>1 DEF TakesOff
<1>4. OrdersKept /\ ListsAreOrders'
  BY <1>1, Sequences, UnchangedOrder DEF OrdersKept, ListsAreOrders
<1>5. InterfacesKept(off, moved)
  <2>1. Unmoved(byProtocol, byProtocol', {})
    BY NoneMoved, UnchangedOrder
  <2> QED
    BY <2>1 DEF InterfacesKept
<1>6. ~ carried' => TimersKept(off, moved)
  <2> SUFFICES ASSUME ~ carried', phase = "timers" PROVE TimersKept(off, moved)
    BY DEF TimersKept
  <2>1. moved = {e} /\ there' \cap moved = {} /\ Unmoved(timers, timers', moved)
    OBVIOUS
  <2>2. ASSUME NEW x \in ToSet(timers), x \notin ToSet(timers')
        PROVE  <<<<"timers">>, x>> \in off /\ x \in moved
    <3>1. x = e
      BY <2>2
    <3> QED
      BY <2>1, <2>2, <3>1, ArmedIs
  <2>3. OnList(<<phase>>, at) <=> at = ListHead \/ at \in ToSet(timers)
    <3>1. <<phase>> \in ListNames /\ Members(<<phase>>) = ToSet(timers)
      BY DEF ListNames, Phases, Members
    <3> QED
      BY <1>1, <3>1, WalkLists DEF ListsAreTyped, OnList
  <2>4. \/ e \in ToSet(timers) /\ IsLast(e)
        \/ (at = ListHead \/ at \in ToSet(timers)) /\ (at # e \/ e \notin ToSet(timers'))
    BY <2>3 DEF Adrift
  <2>5. ListHead \notin ToSet(timers')
    BY <1>1, Sequences, NodesAssumption DEF ListedNodes
  <2> HIDE DEF off, moved
  <2>6. at \in ToSet(timers) \cap ToSet(timers') \cap moved => IsLast(at)
    BY <2>1, <2>4, <2>5
  <2>7. \/ at = ListHead \/ at \in ToSet(timers) \cap ToSet(timers')
        \/ \A m \in moved \cap ToSet(timers) : m = at \/ IsLast(m)
    BY <2>1, <2>4
  <2>8. at \in ToSet(timers') => at \in ToSet(timers)
    BY <2>4, <2>5
  <2> QED
    BY <2>1, <2>2, <2>6, <2>7, <2>8 DEF TimersKept
<1>7. FreedIsGone' /\ NotifiesHaveEntries'
  <2>1. Listed' \subseteq Listed \cup {e}
    BY DEF Listed
  <2> QED
    BY <2>1 DEF WalkInv, FreedIsGone, NotifiesHaveEntries
<1>8. ThereIsListed' /\ there' \subseteq there
  <2>1. there \subseteq Nodes(phase) /\ there' \subseteq there
    BY <1>1 DEF WalkInv, ThereIsListed
  <2>2. phase # "timers" => Nodes(phase) \subseteq Nodes(phase)'
    BY <1>1 DEF Nodes, Phases
  <2>3. phase = "timers" => Nodes(phase) \ {e} \subseteq Nodes(phase)'
    BY <1>1 DEF Nodes
  <2> QED
    BY <1>1, <2>1, <2>2, <2>3 DEF ThereIsListed
<1> HIDE DEF off, moved
<1>9. Around(off, moved)
  BY <1>2, <1>3, <1>4, <1>5, <1>6, <1>7, <1>8 DEF Around, Spares
<1> QED
  BY <1>9, CallbackKeepsWalk

(* Taken off, and put in again anywhere.                                    *)
LEMMA MovedWithin ==
  ASSUME NEW S, NEW s \in Seq(S), NoneTwice(s), NEW e \in S, NEW t,
         t = Remaining(s, {e}) \/ t \in Insertions(Remaining(s, {e}), e)
  PROVE  /\ Unmoved(s, t, {e}) /\ NoneTwice(t)
         /\ ToSet(s) \ {e} \subseteq ToSet(t) /\ ToSet(t) \subseteq ToSet(s) \cup {e}
<1> DEFINE rest == Remaining(s, {e})
<1>1. rest \in Seq(S) /\ ToSet(rest) = ToSet(s) \ {e} /\ SameOrder(s, rest) /\ NoneTwice(rest)
  BY RemainingMembers, RemainingOrder
<1> HIDE DEF rest
<1>2. /\ SameOrder(rest, t) /\ NoneTwice(t)
      /\ ToSet(rest) \subseteq ToSet(t) /\ ToSet(t) \subseteq ToSet(rest) \cup {e}
  <2>1. CASE t = rest
    BY <1>1, <2>1, UnchangedOrder
  <2>2. CASE t \in Insertions(rest, e)
    <3>1. e \notin ToSet(rest)
      BY <1>1
    <3>2. SameOrder(rest, t) /\ (NoneTwice(rest) => NoneTwice(t))
      BY <1>1, <2>2, <3>1, InsertionOrder
    <3>3. ToSet(t) = ToSet(rest) \cup {e}
      BY <1>1, <2>2, InsertionsMembers
    <3> QED
      BY <1>1, <3>2, <3>3
  <2> QED
    BY <2>1, <2>2 DEF rest
<1> QED
  BY <1>1, <1>2 DEF SameOrder, Unmoved

LEMMA SetTimerWalk == ASSUME IInv, IInv', WalkInv, SetTimer PROVE WalkInv'
<1>1. PICK e \in events :
        /\ timers' \in Insertions(Remaining(timers, {e}), e)
        /\ left' = Links(Armed(e))
        /\ there' = (IF phase = "timers" THEN there \ {e} ELSE there)
        /\ carried' = (carried \/ (phase = "timers" /\ (at = e \/ Adrift)))
  BY DEF SetTimer
<1>2. /\ UNCHANGED <<handles, protocols, ifaces, byProtocol, notifies, events, signals, freed>>
      /\ Callback /\ pc = "walk"
  BY DEF SetTimer, Callback, Walking
<1>3. /\ Unmoved(timers, timers', {e}) /\ NoneTwice(timers')
      /\ ToSet(timers) \ {e} \subseteq ToSet(timers') /\ ToSet(timers') \subseteq ToSet(timers) \cup {e}
  <2>1. timers \in Seq(Events) /\ NoneTwice(timers) /\ e \in Events
    BY <1>2, Sequences
  <2> QED
    BY <1>1, <2>1, MovedWithin
<1>4. /\ carried => carried'
      /\ phase = "timers" /\ ~ carried' => ~ Adrift /\ at # e
  BY <1>1
<1> QED
  BY <1>1, <1>2, <1>3, <1>4, TimerMoves

LEMMA CancelTimerWalk == ASSUME IInv, IInv', WalkInv, CancelTimer PROVE WalkInv'
<1>1. PICK e \in ToSet(timers) :
        /\ timers' = Remaining(timers, {e})
        /\ left' = Links(Armed(e))
        /\ there' = (IF phase = "timers" THEN there \ {e} ELSE there)
        /\ carried' = (carried \/ (phase = "timers" /\ Adrift))
  BY DEF CancelTimer
<1>2. /\ UNCHANGED <<handles, protocols, ifaces, byProtocol, notifies, events, signals, freed>>
      /\ Callback /\ pc = "walk"
  BY DEF CancelTimer, Callback, Walking
<1>3. timers \in Seq(Events) /\ NoneTwice(timers) /\ e \in Events /\ e \in events
  BY <1>2, Sequences
<1>4. /\ Unmoved(timers, timers', {e}) /\ NoneTwice(timers')
      /\ ToSet(timers) \ {e} \subseteq ToSet(timers') /\ ToSet(timers') \subseteq ToSet(timers) \cup {e}
  BY <1>1, <1>3, MovedWithin, ZenonT(60)
<1>5. e \notin ToSet(timers')
  BY <1>1, <1>3, RemainingMembers
<1>6. /\ carried => carried'
      /\ phase = "timers" /\ ~ carried' => ~ Adrift
  BY <1>1
<1> QED
  BY <1>1, <1>2, <1>3, <1>4, <1>5, <1>6, TimerMoves

(* The earliest timer moves: nothing is behind it in the walk.              *)
LEMMA TimerExpiresWalk == ASSUME IInv, IInv', WalkInv, TimerExpires PROVE WalkInv'
<1> DEFINE e == Head(timers)
           rest == Tail(timers)
           one == <<e>>
<1>1. /\ timers # <<>> /\ Callback /\ pc = "walk"
      /\ timers' \in Insertions(rest, e) \cup {rest} /\ left' = Links({<<<<"timers">>, e>>})
      /\ there' = (IF phase = "timers" THEN there \ {e} ELSE there)
      /\ UNCHANGED <<handles, protocols, ifaces, byProtocol, notifies, events, signals, freed, carried>>
  BY DEF TimerExpires, Callback, Walking
<1>2. timers \in Seq(Events) /\ ToSet(timers) \subseteq events /\ NoneTwice(timers)
  BY <1>1, Sequences
<1>3. /\ e \in Events /\ rest \in Seq(Events) /\ ToSet(timers) = {e} \cup ToSet(rest)
      /\ timers = one \o rest
  BY <1>1, <1>2, HeadTailMembers
<1>4. one \in Seq(Events) /\ ToSet(one) = {e} /\ \A a, b : ~ Precedes(one, a, b)
  BY <1>3, SingleMembers, SingleOrder
<1> HIDE DEF e, rest, one
<1>5. \A a, b : Precedes(timers, a, b) <=> Precedes(rest, a, b) \/ (a = e /\ b \in ToSet(rest))
  BY <1>3, <1>4, ConcatOrder
<1>6. e \in ToSet(timers) /\ e \in events
  BY <1>2, <1>3
<1>7. e \notin ToSet(rest)
  BY <1>2, <1>3, <1>5 DEF NoneTwice
<1>8. NoneTwice(rest)
  BY <1>2, <1>3, <1>5 DEF NoneTwice
<1>9. /\ SameOrder(rest, timers') /\ NoneTwice(timers') /\ ToSet(rest) \subseteq ToSet(timers')
      /\ ToSet(timers') \subseteq ToSet(timers)
  <2>1. CASE timers' = rest
    BY <1>3, <1>8, <2>1, UnchangedOrder
  <2>2. CASE timers' \in Insertions(rest, e)
    BY <1>3, <1>7, <1>8, <2>2, InsertionOrder, InsertionsMembers
  <2> QED
    BY <1>1, <2>1, <2>2
<1>10. IsLast(e)
  BY <1>5, <1>7, PrecedesListed DEF IsLast
<1>11. Unmoved(timers, timers', {e})
  BY <1>3, <1>5, <1>9 DEF SameOrder, Unmoved
<1>12. left' = Links(Armed(e))
  BY <1>1, <1>6, ArmedIs
<1>13. ToSet(timers) \ {e} \subseteq ToSet(timers') /\ ToSet(timers') \subseteq ToSet(timers) \cup {e}
  BY <1>3, <1>9
<1> QED
  BY <1>1, <1>6, <1>9, <1>10, <1>11, <1>12, <1>13, TimerMoves

(* CloseEvent takes an event off every list at once.                        *)
LEMMA CloseEventWalk == ASSUME IInv, IInv', WalkInv, CloseEvent PROVE WalkInv'
<1>1. PICK e \in events :
        LET off == {n \in ToSet(notifies) : n[2] = e}
            onlists == ({<<"signals">>} \X (ToSet(signals) \cap {e})) \cup Armed(e)
        IN /\ events' = events \ {e}
           /\ notifies' = Remaining(notifies, off)
           /\ signals' = Remaining(signals, {e})
           /\ timers' = Remaining(timers, {e})
           /\ left' = Links(onlists \cup {<<<<"notify", n[1]>>, n>> : n \in off})
           /\ freed' = freed \cup off \cup {e}
           /\ there' = there \ (off \cup {e})
  BY DEF CloseEvent
<1> DEFINE off == {n \in ToSet(notifies) : n[2] = e}
           onlists == ({<<"signals">>} \X (ToSet(signals) \cap {e}))
                        \cup ({<<"timers">>} \X (ToSet(timers) \cap {e}))
           all == onlists \cup {<<<<"notify", n[1]>>, n>> : n \in off}
           I == Handles \X Protocols
           N == Protocols \X Events
<1>4. /\ UNCHANGED <<handles, protocols, ifaces, byProtocol, carried>> /\ Callback /\ pc = "walk"
  BY DEF CloseEvent, Callback, Walking
<1>2. /\ notifies \in Seq(N) /\ ToSet(notifies) \subseteq N /\ ToSet(ifaces) \subseteq I
      /\ signals \in Seq(Events) /\ timers \in Seq(Events) /\ ToSet(handles) \subseteq Handles
      /\ ToSet(protocols) \subseteq Protocols /\ ToSet(signals) \subseteq Events
      /\ ToSet(timers) \subseteq Events
      /\ events \subseteq Events
  BY <1>4, Sequences, MembersOfSeq
<1>3. /\ events' = events \ {e} /\ notifies' = Remaining(notifies, off) /\ signals' = Remaining(signals, {e})
      /\ timers' = Remaining(timers, {e}) /\ left' = Links(all)
      /\ freed' = freed \cup off \cup {e} /\ there' = there \ (off \cup {e})
  BY <1>1 DEF Armed
<1>5. /\ ToSet(signals') = ToSet(signals) \ {e} /\ SameOrder(signals, signals')
      /\ (NoneTwice(signals) => NoneTwice(signals'))
  BY <1>2, <1>3, RemainingMembers, RemainingOrder
<1>6. /\ ToSet(timers') = ToSet(timers) \ {e} /\ SameOrder(timers, timers')
      /\ (NoneTwice(timers) => NoneTwice(timers'))
  BY <1>2, <1>3, RemainingMembers, RemainingOrder
<1>7. /\ ToSet(notifies') = ToSet(notifies) \ off /\ SameOrder(notifies, notifies')
      /\ (NoneTwice(notifies) => NoneTwice(notifies'))
  <2> HIDE DEF N, off
  <2> QED
    BY <1>2, <1>3, RemainingMembers, RemainingOrder
<1>8. off \subseteq N /\ \A n \in off : n \in ToSet(notifies) /\ n[1] \in Protocols /\ n[2] = e
  BY <1>2
<1>9. \A k \in all : \/ k = <<<<"signals">>, e>> /\ e \in ToSet(signals)
                     \/ k = <<<<"timers">>, e>> /\ e \in ToSet(timers)
                     \/ \E n \in off : k = <<<<"notify", n[1]>>, n>>
  OBVIOUS
<1>10. /\ e \in ToSet(signals) => <<<<"signals">>, e>> \in all
       /\ e \in ToSet(timers) => <<<<"timers">>, e>> \in all
       /\ \A n \in off : <<<<"notify", n[1]>>, n>> \in all
  OBVIOUS
<1>11. LinksAre(all)
  <2> HIDE DEF all
  <2> QED
    BY <1>3, LinksAreThose
<1> HIDE DEF all, onlists, off
<1>12. TakesOff(all)
  <2>1. ASSUME NEW k \in all PROVE k[1] \in ListNames /\ k[2] \in Members(k[1])
    <3>1. CASE k = <<<<"signals">>, e>> /\ e \in ToSet(signals)
      BY <1>3, <3>1 DEF ListNames, Members, Phases
    <3>2. CASE k = <<<<"timers">>, e>> /\ e \in ToSet(timers)
      BY <1>3, <3>2 DEF ListNames, Members, Phases
    <3>3. CASE \E n \in off : k = <<<<"notify", n[1]>>, n>>
      BY <1>3, <1>8, <3>3 DEF ListNames, Members
    <3> QED
      BY <1>9, <2>1, <3>1, <3>2, <3>3
  <2>2. ASSUME NEW n \in ToSet(notifies), n \notin ToSet(notifies')
        PROVE  n \in freed' /\ <<<<"notify", n[1]>>, n>> \in all
    BY <1>3, <1>7, <1>10, <2>2
  <2>3. ASSUME NEW x \in ToSet(signals), x \notin ToSet(signals')
        PROVE  x \in freed' /\ <<<<"signals">>, x>> \in all
    BY <1>3, <1>5, <1>10, <2>3
  <2> QED
    BY <1>4, <2>1, <2>2, <2>3 DEF TakesOff
<1>13. OrdersKept /\ ListsAreOrders'
  BY <1>4, <1>5, <1>6, <1>7, UnchangedOrder DEF OrdersKept, ListsAreOrders, WalkInv
<1>14. InterfacesKept(all, {}) /\ TimersKept(all, {})
  <2>1. Unmoved(byProtocol, byProtocol', {}) /\ Unmoved(timers, timers', {})
    BY <1>4, <1>6, NoneMoved, UnchangedOrder
  <2>2. \A x \in ToSet(timers) \ ToSet(timers') : <<<<"timers">>, x>> \in all /\ x \in freed'
    BY <1>3, <1>6, <1>10
  <2> QED
    BY <1>6, <2>1, <2>2 DEF InterfacesKept, TimersKept
<1>15. FreedIsGone'
  <2>1. /\ freed \subseteq Handles \cup Events \cup I \cup N /\ freed \cap (Listed \cup events) = {}
        /\ \A n \in ToSet(notifies) : n[2] \in events
    BY DEF WalkInv, FreedIsGone
  <2>2. Listed' \subseteq Listed
    BY <1>4, <1>5, <1>6, <1>7 DEF Listed
  <2>3. /\ e \in Events /\ e \notin Handles \cup Protocols \cup I \cup N
        /\ N \cap (Handles \cup Protocols \cup I \cup Events) = {}
    BY <1>2, NodesAssumption
  <2>4. e \notin Listed' \cup events'
    BY <1>2, <1>3, <1>4, <1>5, <1>6, <1>7, <2>3 DEF Listed
  <2>5. off \cap (Listed' \cup events') = {}
    BY <1>2, <1>3, <1>4, <1>5, <1>6, <1>7, <1>8, <2>3 DEF Listed
  <2>6. freed' \cap (Listed' \cup events') = {}
    BY <1>3, <2>1, <2>2, <2>4, <2>5
  <2>7. freed' \subseteq Handles \cup Events \cup I \cup N
    BY <1>3, <1>8, <2>1, <2>3
  <2>8. \A n \in ToSet(notifies') : n[2] \in events'
    <3>1. \A n \in ToSet(notifies) : n \notin off => n[2] # e
      BY DEF off
    <3> QED
      BY <1>3, <1>7, <2>1, <3>1
  <2>9. ToSet(signals') \cup ToSet(timers') \subseteq events'
    <3>1. ToSet(signals) \cup ToSet(timers) \subseteq events
      BY <1>4, Sequences
    <3> QED
      BY <1>3, <1>5, <1>6, <3>1
  <2> QED
    BY <2>6, <2>7, <2>8, <2>9 DEF FreedIsGone
<1>16. NotifiesHaveEntries'
  BY <1>4, <1>7 DEF WalkInv, NotifiesHaveEntries
<1>17. ThereIsListed'
  <2>1. pc = "walk" /\ phase' = phase /\ phase \in Phases
    BY <1>4 DEF Callback, Walking, IInv, TypeOK
  <2>2. there \subseteq Nodes(phase)
    BY <2>1 DEF WalkInv, ThereIsListed
  <2>3. Nodes(phase) \ (off \cup {e}) \subseteq Nodes(phase)'
    BY <1>4, <1>5, <1>6, <1>7, <2>1 DEF Nodes, Phases
  <2> QED
    BY <1>3, <2>1, <2>2, <2>3 DEF ThereIsListed
<1>18. freed \subseteq freed' /\ there' \subseteq there
  BY <1>3
<1>19. Around(all, {})
  BY <1>4, <1>11, <1>12, <1>13, <1>14, <1>15, <1>16, <1>17, <1>18 DEF Around, Spares
<1> QED
  BY <1>19, CallbackKeepsWalk

(***************************************************************************)
(* The steps of a walk                                                     *)
(***************************************************************************)

LEMMA CoreStays ==
  ASSUME WalkInv, UNCHANGED core
  PROVE  /\ ListsAreOrders' /\ FreedIsGone' /\ NotifiesHaveEntries'
         /\ \A l, n : /\ Ahead(l, n)' = Ahead(l, n) /\ (Doomed(l, n)' <=> Doomed(l, n))
                      /\ (LinkIsOf(l, n)' <=> LinkIsOf(l, n)) /\ (OnList(l, n)' <=> OnList(l, n))
         /\ \A l : List(l)' = List(l) /\ Members(l)' = Members(l)
<1>1. ListsAreOrders' /\ FreedIsGone' /\ NotifiesHaveEntries'
  BY DEF WalkInv, ListsAreOrders, FreedIsGone, Listed, NotifiesHaveEntries, core
<1>2. \A l : List(l)' = List(l) /\ Members(l)' = Members(l)
  BY DEF List, Members, core
<1>3. left' = left /\ freed' = freed
  BY DEF core
<1>4. \A l, n : /\ Ahead(l, n)' = Ahead(l, n) /\ (Doomed(l, n)' <=> Doomed(l, n))
               /\ (OnList(l, n)' <=> OnList(l, n))
  BY <1>2, <1>3 DEF Ahead, Doomed, OnList, Behind
<1>5. \A l, n : LinkIsOf(l, n)' <=> LinkIsOf(l, n)
  BY <1>2, <1>3 DEF LinkIsOf, OnList
<1> QED
  BY <1>1, <1>2, <1>4, <1>5

(* The walk is over, or nothing was to be walked.                           *)
LEMMA NotWalking ==
  ASSUME ListsAreOrders', FreedIsGone', NotifiesHaveEntries', pc' # "walk",
         EveryNodeOnce', StillTimersPrinted', EverythingDumped'
  PROVE  WalkInv'
BY DEF WalkInv, InnerIsOfAt, LinksOfGone, ThereIsListed, StillDue

(* With the inner cursor at a head all of its list is due.                  *)
AtHead ==
  sub = ListHead =>
    \A x \in Nodes(phase) :
      x \in First \/ (\E k \in Rest : x \in HangOn(k)) <=> \E k \in ToSet(inner) : x \in HangOn(k)

LEMMA InnerBegins == IInv /\ InnerIsOfAt /\ pc = "walk" => AtHead
<1> SUFFICES ASSUME IInv, InnerIsOfAt, pc = "walk", sub = ListHead, NEW x \in Nodes(phase)
             PROVE  x \in First \/ (\E k \in Rest : x \in HangOn(k))
                      <=> \E k \in ToSet(inner) : x \in HangOn(k)
  BY DEF AtHead
<1>1. CASE inner = <<>>
  <2>1. ToSet(inner) = {}
    BY <1>1 DEF ToSet
  <2> QED
    BY <1>1, <2>1 DEF First, Rest
<1>2. CASE inner # <<>>
  <2>1. inner \in Seq(InnerNames) /\ Head(inner) \in InnerNames /\ InnerNames \subseteq ListNames
    BY <1>2, InnerNamesType, HeadTailMembers
  <2>2. ToSet(inner) = {Head(inner)} \cup ToSet(Tail(inner))
    BY <1>2, <2>1, HeadTailMembers
  <2>3. First = Members(Head(inner))
    BY <1>2, <2>1, WalkLists DEF First, Ahead, OnList, Behind, ListsAreTyped
  <2>4. x \in First <=> x \in HangOn(Head(inner))
    BY <2>1, <2>3, KindsOfNodes DEF KindsAre, IsOfKind
  <2>5. Rest = ToSet(Tail(inner))
    BY <1>2 DEF Rest
  <2> QED
    BY <2>2, <2>4, <2>5
<1> QED
  BY <1>1, <1>2

(* The outer cursor goes on to n, and what hangs on it is next.             *)
LEMMA DumpOuterDue ==
  ASSUME IInv, IInv', WalkInv, UNCHANGED <<core, phase, there>>, pc = "walk", pc' = "walk",
         InnerIsOfAt', inner = <<>>, sub' = ListHead,
         NEW n \in Members(<<phase>>), at' = n, inner' = InnerLists(n),
         Outer = {n} \cup Outer', n \notin Outer',
         NEW x \in Nodes(phase)
  PROVE  (x \in Due <=> x = n \/ x \in Due') /\ n \notin Due' /\ n \in Nodes(phase)
<1>1. KindsAre /\ DueAre /\ AheadAre
  BY KindsOfNodes, DueMembers, AheadAreListed DEF WalkInv
<1>2. DueAre' /\ AtHead' /\ AheadAre'
  <2>1. (IInv /\ InnerIsOfAt /\ pc = "walk")' => DueAre' /\ AtHead' /\ AheadAre'
    BY DueMembers, InnerBegins, AheadAreListed, PTL
  <2> QED
    BY <2>1
<1>3. /\ Nodes(phase)' = Nodes(phase) /\ InnerNames' = InnerNames
      /\ \A m : InnerLists(m)' = InnerLists(m)
  BY DEF Nodes, InnerNames, InnerLists, core
<1>4. n \in NodesIn(<<phase>>) /\ n \in Nodes(phase)
  <2>1. Members(<<phase>>) \subseteq Nodes(phase)
    BY DEF Members, Nodes, IInv, TypeOK, Phases
  <2> QED
    BY <1>1, <2>1 DEF AheadAre
<1>5. First = {} /\ Rest = {}
  BY DEF First, Rest
<1>6. ASSUME NEW y \in Nodes(phase)
      PROVE  y \in Due' <=> \/ y \in Outer'
                            \/ \E m \in Outer : \E k \in ToSet(InnerLists(m)) : y \in HangOn(k)
  <2>1. y \in First' \/ (\E k \in Rest' : y \in HangOn(k)) <=> \E k \in ToSet(InnerLists(n)) : y \in HangOn(k)
    BY <1>2, <1>3 DEF AtHead
  <2>2. y \in Due' <=> \/ y \in Outer'
                       \/ \E m \in Outer' : \E k \in ToSet(InnerLists(m)) : y \in HangOn(k)
                       \/ y \in First' \/ \E k \in Rest' : y \in HangOn(k)
    BY <1>2, <1>3 DEF DueAre, DueIs
  <2> QED
    BY <2>1, <2>2
<1>7. x \in Due <=> \/ x \in Outer
                    \/ \E m \in Outer : \E k \in ToSet(InnerLists(m)) : x \in HangOn(k)
  BY <1>1, <1>5 DEF DueAre, DueIs
<1>8. n \notin Due'
  <2>1. \A m \in Outer : \A k \in ToSet(InnerLists(m)) : n \notin HangOn(k)
    <3>1. \A k \in InnerNames : n \notin HangOn(k)
      BY <1>1, <1>4 DEF KindsAre, IsOfKind
    <3> QED
      BY <1>1, <3>1 DEF AheadAre
  <2> QED
    BY <1>4, <1>6, <2>1
<1> QED
  BY <1>4, <1>6, <1>7, <1>8

(* The outer cursor goes on to a node, to the head, or into freed memory.   *)
LEMMA DumpOuterWalk == ASSUME IInv, IInv', WalkInv, DumpOuter PROVE WalkInv'
<1>1. /\ pc = "walk" /\ inner = <<>> /\ sub = ListHead
      /\ UNCHANGED <<core, phase, there, carried>>
      /\ HasLink(<<phase>>, at) /\ <<phase>> \in ListNames
  BY DEF DumpOuter, Walking, IInv, TypeOK, CursorsHaveLinks, ListNames
<1>2. PICK n : n = NextOf(<<phase>>, at)
  OBVIOUS
<1>3. \/ n = ListHead /\ pc' = "end" /\ UNCHANGED <<cursor, printed, again, named>>
      \/ Arrive(<<phase>>, n) /\ at' = n /\ inner' = InnerLists(n) /\ UNCHANGED sub
      \/ NotANode(n)
  BY <1>2 DEF DumpOuter
<1>4. ASSUME OnList(<<phase>>, at) \/ ~ carried
      PROVE  /\ OnList(<<phase>>, at) => n \notin freed \cup {NULL}
             /\ Doomed(<<phase>>, at) => n \in freed \cup {NULL}
             /\ n = ListHead => Outer = {}
             /\ n \notin freed \cup {ListHead, NULL} =>
                  \/ /\ n \in ToSet(List(<<phase>>)) /\ n \notin Behind(<<phase>>, n)
                     /\ Outer = {n} \cup Behind(<<phase>>, n)
                  \/ phase = "timers" /\ Outer = {}
  <2>1. <<phase>> = <<"timers">> \/ LinkIsOf(<<phase>>, at)
    BY <1>1, <1>4 DEF WalkInv, LinksOfGone, LinkIsOf
  <2> QED
    BY <1>1, <1>2, <2>1, CursorNext DEF WalkInv, Outer
<1>5. \/ carried
      \/ Doomed(<<phase>>, at)
      \/ /\ there \ printed \subseteq Due
         /\ phase # "timers" => there \cap printed \cap Due = {} /\ there \cap again = {}
  BY <1>1 DEF WalkInv, StillDue
<1>6. Outer = {} => Due = {}
  BY <1>1 DEF Due, Outer
<1>6a. ListsAreOrders' /\ FreedIsGone' /\ NotifiesHaveEntries'
  BY <1>1, CoreStays
<1>6b. ListHead \notin freed \cup {NULL}
  BY WalkNoneFreed DEF WalkInv, NoneFreed
<1>7. CASE NotANode(n)
  <2>1. pc' = "lost" /\ UNCHANGED cursor /\ n \in freed \cup {NULL}
    BY <1>7 DEF NotANode
  <2>2. ~ OnList(<<phase>>, at)
    BY <1>4, <2>1
  <2>3. Adrift'
    BY <1>1, <2>1, <2>2, CoreStays DEF Adrift, cursor
  <2> QED
    BY <1>6a, <2>1, <2>3, NotWalking DEF EveryNodeOnce, StillTimersPrinted, EverythingDumped
<1>8. CASE n = ListHead /\ pc' = "end" /\ UNCHANGED <<cursor, printed, again, named>>
  <2>1. ASSUME ~ carried PROVE there \subseteq printed /\ (phase # "timers" => there \cap again = {})
    BY <1>4, <1>5, <1>6, <1>6b, <1>8, <2>1
  <2>2. EveryNodeOnce' /\ StillTimersPrinted' /\ EverythingDumped'
    BY <1>1, <1>8, <2>1 DEF EveryNodeOnce, StillTimersPrinted, EverythingDumped
  <2> QED
    BY <1>6a, <1>8, <2>2, NotWalking
<1>9. CASE Arrive(<<phase>>, n) /\ at' = n /\ inner' = InnerLists(n) /\ UNCHANGED sub
  <2>1. /\ pc' = "walk" /\ at' = n /\ inner' = InnerLists(n) /\ sub' = ListHead
        /\ printed' = printed \cup {n} /\ again' = again \cup (printed \cap {n})
        /\ n \notin freed \cup {ListHead, NULL}
    BY <1>1, <1>9 DEF Arrive
  <2>2. EveryNodeOnce' /\ StillTimersPrinted' /\ EverythingDumped'
    BY <2>1 DEF EveryNodeOnce, StillTimersPrinted, EverythingDumped
  <2>3. ThereIsListed'
    BY <1>1 DEF WalkInv, ThereIsListed, Nodes, core
  <2>4. InnerIsOfAt'
    <3>1. n \in NodesIn(<<phase>>)
      BY <1>1, <1>2, <2>1, NextOfType
    <3> QED
      BY <1>1, <2>1, <3>1 DEF InnerIsOfAt, InnerLists, NodesIn
  <2>5. StillDue'
    <3>1. CASE carried
      BY <1>1, <3>1 DEF StillDue
    <3>2. CASE ~ carried /\ phase = "timers" /\ Outer = {}
      <4>1. there' \ printed' = {} /\ phase' = "timers"
        BY <1>1, <1>4, <1>5, <1>6, <2>1, <3>2
      <4> QED
        BY <4>1 DEF StillDue
    <3>3. CASE /\ ~ carried
               /\ n \in ToSet(List(<<phase>>)) /\ n \notin Behind(<<phase>>, n)
               /\ Outer = {n} \cup Behind(<<phase>>, n)
      <4>1. Outer' = Behind(<<phase>>, n)
        <5>1. Ahead(<<phase>>, n) = Behind(<<phase>>, n)
          BY <3>3 DEF Ahead, OnList
        <5> QED
          BY <1>1, <2>1, <5>1, CoreStays DEF Outer
      <4>2. n \in Members(<<phase>>)
        BY <1>1, <3>3, WalkLists DEF ListsAreTyped
      <4>3. \A x \in Nodes(phase) : (x \in Due <=> x = n \/ x \in Due') /\ n \notin Due' /\ n \in Nodes(phase)
        BY <1>1, <2>1, <2>4, <3>3, <4>1, <4>2, DumpOuterDue
      <4>4. there \subseteq Nodes(phase)
        BY <1>1 DEF WalkInv, ThereIsListed
      <4>5. ~ Doomed(<<phase>>, at)
        BY <1>4, <2>1, <3>3
      <4>6. there' \ printed' \subseteq Due'
        BY <1>1, <1>5, <2>1, <3>3, <4>3, <4>4, <4>5
      <4>7. phase' # "timers" => there' \cap printed' \cap Due' = {} /\ there' \cap again' = {}
        BY <1>1, <1>5, <2>1, <3>3, <4>3, <4>4, <4>5
      <4> QED
        BY <4>6, <4>7 DEF StillDue
    <3> QED
      BY <1>4, <2>1, <3>1, <3>2, <3>3
  <2>6. LinksOfGone'
    <3>1. CASE carried \/ phase = "timers"
      BY <1>1, <3>1 DEF LinksOfGone
    <3>2. CASE ~ carried /\ phase # "timers"
      <4>1. LinkIsOf(<<phase>>, n)'
        BY <1>1, <1>4, <2>1, <3>2, CoreStays DEF LinkIsOf, OnList
      <4>2. inner' # <<>> => LinkIsOf(Head(inner), sub)'
        BY <2>1 DEF LinkIsOf, OnList
      <4> QED
        BY <1>1, <2>1, <4>1, <4>2 DEF LinksOfGone
    <3> QED
      BY <3>1, <3>2
  <2> QED
    BY <1>6a, <2>2, <2>3, <2>4, <2>5, <2>6 DEF WalkInv
<1> QED
  BY <1>3, <1>7, <1>8, <1>9

(* What the inner cursor prints hangs on nothing else, and the outer cursor *)
(* is past what it hangs on.                                                *)
LEMMA HangsOnce ==
  ASSUME IInv, WalkInv, pc = "walk", inner # <<>>, NEW x \in HangOn(Head(inner))
  PROVE  /\ at \notin Outer
         /\ \A m \in Outer : \A k \in ToSet(InnerLists(m)) : x \notin HangOn(k)
         /\ \A k \in Rest : x \notin HangOn(k)
<1> DEFINE l == <<phase>>
<1>1. /\ at \in NodesIn(l)
      /\ \/ phase = "handles" /\ inner = <<<<"on", at>>>>
         \/ phase = "protocols" /\ inner \in {<<<<"by", at>>, <<"notify", at>>>>, <<<<"notify", at>>>>}
  BY DEF WalkInv, InnerIsOfAt
<1>2. at \notin Outer
  <2>1. l \in ListNames
    BY DEF IInv, TypeOK, ListNames
  <2>2. NoneTwice(List(l)) /\ ListHead \notin NodesIn(l) /\ ListHead \notin ToSet(List(l))
    BY <2>1, WalkOrders DEF WalkInv
  <2>3. at # ListHead
    BY <1>1, <2>2
  <2> HIDE DEF l
  <2>4. at \notin Ahead(l, at)
    BY <2>2, <2>3 DEF Ahead, Behind, OnList, NoneTwice
  <2> QED
    BY <2>4 DEF Outer, l
<1>3. (Handles \X Protocols) \cap (Protocols \X Events) = {}
  BY NodesAssumption
<1>4. Outer \subseteq NodesIn(l)
  BY AheadAreListed DEF AheadAre, WalkInv
<1>5. CASE phase = "handles"
  <2>1. Head(inner) = <<"on", at>> /\ Tail(inner) = <<>>
    BY <1>1, <1>5
  <2>2. x[1] = at /\ Rest = {}
    BY <2>1 DEF HangOn, Rest, ToSet
  <2>3. \A m : \A k \in ToSet(InnerLists(m)) : k = <<"on", m>>
    BY <1>5 DEF InnerLists, ToSet
  <2>4. \A m : x \in HangOn(<<"on", m>>) => x[1] = m
    BY DEF HangOn
  <2> QED
    BY <1>2, <2>2, <2>3, <2>4
<1>6. CASE phase = "protocols"
  <2>1. \A m : \A k \in ToSet(InnerLists(m)) : k = <<"by", m>> \/ k = <<"notify", m>>
    BY <1>6 DEF InnerLists, ToSet
  <2>2. at \in Protocols /\ Outer \subseteq Protocols
    BY <1>1, <1>4, <1>6 DEF NodesIn
  <2>3. \A m \in Protocols : x \in HangOn(<<"by", m>>) => x \in Handles \X Protocols /\ x[2] = m
    BY DEF HangOn
  <2>4. \A m \in Protocols : x \in HangOn(<<"notify", m>>) => x \in Protocols \X Events /\ x[1] = m
    BY DEF HangOn
  <2>5. \A m \in Outer : \A k \in ToSet(InnerLists(m)) :
          x \in HangOn(k) => \/ x \in Handles \X Protocols /\ x[2] = m
                             \/ x \in Protocols \X Events /\ x[1] = m
    BY <2>1, <2>2, <2>3, <2>4
  <2>6. CASE inner = <<<<"by", at>>, <<"notify", at>>>>
    <3>1. Head(inner) = <<"by", at>> /\ Tail(inner) = <<<<"notify", at>>>>
      BY <2>6
    <3>2. x \in Handles \X Protocols /\ x[2] = at
      BY <2>2, <2>3, <3>1
    <3>3. \A k \in Rest : k = <<"notify", at>>
      BY <2>6, <3>1 DEF Rest, ToSet
    <3> QED
      BY <1>2, <1>3, <2>2, <2>4, <2>5, <3>2, <3>3
  <2>7. CASE inner = <<<<"notify", at>>>>
    <3>1. Head(inner) = <<"notify", at>> /\ Tail(inner) = <<>>
      BY <2>7
    <3>2. x \in Protocols \X Events /\ x[1] = at
      BY <2>2, <2>4, <3>1
    <3>3. Rest = {}
      BY <3>1 DEF Rest, ToSet
    <3> QED
      BY <1>2, <1>3, <2>2, <2>5, <3>2, <3>3
  <2> QED
    BY <1>1, <1>6, <2>6, <2>7
<1> QED
  BY <1>1, <1>5, <1>6

(* So does an inner one.                                                    *)
LEMMA DumpInnerWalk == ASSUME IInv, IInv', WalkInv, DumpInner PROVE WalkInv'
<1>1. /\ pc = "walk" /\ inner # <<>> /\ UNCHANGED <<core, phase, at, there, carried>>
      /\ HasLink(Head(inner), sub)
  BY DEF DumpInner, NotANode, Walking, IInv, TypeOK, CursorsHaveLinks, cursor
<1>2. PICK n : n = NextOf(Head(inner), sub)
  OBVIOUS
<1>3. \/ /\ n = ListHead /\ inner' = Tail(inner) /\ sub' = ListHead
         /\ UNCHANGED <<pc, printed, again, named>>
      \/ Arrive(Head(inner), n) /\ sub' = n /\ UNCHANGED inner
      \/ NotANode(n)
  BY <1>2 DEF DumpInner
<1>4. /\ inner \in Seq(InnerNames) /\ Head(inner) \in InnerNames /\ Head(inner) \in ListNames
      /\ Head(inner) # <<"timers">> /\ <<phase>> \in ListNames
  BY <1>1, InnerNamesType, AheadAreListed DEF AheadAre, WalkInv
<1>4a. phase # "timers"
  BY <1>1 DEF WalkInv, InnerIsOfAt
<1>5. ASSUME OnList(Head(inner), sub) \/ ~ carried
      PROVE  /\ OnList(Head(inner), sub) => n \notin freed \cup {NULL}
             /\ Doomed(Head(inner), sub) => n \in freed \cup {NULL}
             /\ n = ListHead => First = {}
             /\ n \notin freed \cup {ListHead, NULL} =>
                  /\ n \in ToSet(List(Head(inner))) /\ n \notin Behind(Head(inner), n)
                  /\ First = {n} \cup Behind(Head(inner), n)
  <2>1. LinkIsOf(Head(inner), sub)
    BY <1>1, <1>4a, <1>5 DEF WalkInv, LinksOfGone, LinkIsOf
  <2> QED
    BY <1>1, <1>2, <1>4, <2>1, CursorNext DEF WalkInv, First
<1>5a. ListsAreOrders' /\ FreedIsGone' /\ NotifiesHaveEntries'
  BY <1>1, CoreStays
<1>5b. ListHead \notin freed \cup {NULL}
  BY WalkNoneFreed DEF WalkInv, NoneFreed
<1>6. \/ carried
      \/ Doomed(<<phase>>, at)
      \/ Doomed(Head(inner), sub)
      \/ there \ printed \subseteq Due /\ there \cap printed \cap Due = {} /\ there \cap again = {}
  BY <1>1, <1>4a DEF WalkInv, StillDue
<1>7. /\ ThereIsListed' /\ Outer' = Outer /\ (Doomed(<<phase>>, at)' <=> Doomed(<<phase>>, at))
      /\ Nodes(phase)' = Nodes(phase) /\ there \subseteq Nodes(phase)
      /\ \A m : InnerLists(m)' = InnerLists(m)
  <2>1. Nodes(phase)' = Nodes(phase) /\ \A m : InnerLists(m)' = InnerLists(m)
    BY <1>1 DEF Nodes, InnerLists, core
  <2>2. there \subseteq Nodes(phase)
    BY <1>1 DEF WalkInv, ThereIsListed
  <2> QED
    BY <1>1, <2>1, <2>2, CoreStays DEF ThereIsListed, Outer
<1>8. CASE NotANode(n)
  <2>1. pc' = "lost" /\ UNCHANGED cursor /\ n \in freed \cup {NULL}
    BY <1>8 DEF NotANode
  <2>2. ~ OnList(Head(inner), sub)
    BY <1>5, <2>1
  <2>3. Adrift'
    BY <1>1, <2>1, <2>2, CoreStays DEF Adrift, cursor
  <2> QED
    BY <1>5a, <2>1, <2>3, NotWalking DEF EveryNodeOnce, StillTimersPrinted, EverythingDumped
<1>9. CASE \/ /\ n = ListHead /\ inner' = Tail(inner) /\ sub' = ListHead
              /\ UNCHANGED <<pc, printed, again, named>>
           \/ Arrive(Head(inner), n) /\ sub' = n /\ UNCHANGED inner
  <2>0. \/ /\ n = ListHead /\ inner' = Tail(inner) /\ sub' = ListHead
           /\ UNCHANGED <<pc, printed, again, named>>
        \/ /\ n \notin freed \cup {ListHead, NULL} /\ inner' = inner /\ sub' = n
           /\ printed' = printed \cup {n} /\ again' = again \cup (printed \cap {n})
    BY <1>9 DEF Arrive
  <2>1. pc' = "walk" /\ n \notin freed \cup {NULL}
    BY <1>1, <1>5b, <1>9 DEF Arrive
  <2>2. EveryNodeOnce' /\ StillTimersPrinted' /\ EverythingDumped'
    BY <2>1 DEF EveryNodeOnce, StillTimersPrinted, EverythingDumped
  <2>3. InnerIsOfAt'
    <3>1. /\ at \in NodesIn(<<phase>>) /\ NodesIn(<<phase>>)' = NodesIn(<<phase>>)
          /\ \/ phase = "handles" /\ inner = <<<<"on", at>>>>
             \/ phase = "protocols" /\ inner \in {<<<<"by", at>>, <<"notify", at>>>>, <<<<"notify", at>>>>}
      BY <1>1 DEF WalkInv, InnerIsOfAt, NodesIn
    <3>2. CASE n # ListHead
      BY <1>1, <2>0, <3>1, <3>2 DEF InnerIsOfAt
    <3>3. CASE n = ListHead
      <4>1. inner' = Tail(inner) /\ phase' = phase /\ at' = at
        BY <1>1, <2>0, <3>3
      <4>2. CASE inner = <<<<"by", at>>, <<"notify", at>>>>
        <5>1. Tail(inner) = <<<<"notify", at>>>> /\ phase = "protocols"
          BY <3>1, <4>2
        <5> QED
          BY <3>1, <4>1, <5>1 DEF InnerIsOfAt
      <4>3. CASE inner = <<<<"on", at>>>>
        <5>1. Tail(inner) = <<>>
          BY <4>3
        <5> QED
          BY <4>1, <5>1 DEF InnerIsOfAt
      <4>4. CASE inner = <<<<"notify", at>>>>
        <5>1. Tail(inner) = <<>>
          BY <4>4
        <5> QED
          BY <4>1, <5>1 DEF InnerIsOfAt
      <4> QED
        BY <3>1, <4>2, <4>3, <4>4
    <3> QED
      BY <3>2, <3>3
  <2>4. DueAre /\ DueAre' /\ AtHead'
    <3>1. DueAre
      BY <1>1, DueMembers DEF WalkInv
    <3>2. (IInv /\ InnerIsOfAt /\ pc = "walk")' => DueAre' /\ AtHead'
      BY DueMembers, InnerBegins, PTL
    <3> QED
      BY <2>1, <2>3, <3>1, <3>2
  <2>5. \A x \in Nodes(phase) :
          /\ x \in Due <=> \/ x \in Outer
                           \/ \E m \in Outer : \E k \in ToSet(InnerLists(m)) : x \in HangOn(k)
                           \/ x \in First \/ (\E k \in Rest : x \in HangOn(k))
          /\ x \in Due' <=> \/ x \in Outer
                            \/ \E m \in Outer : \E k \in ToSet(InnerLists(m)) : x \in HangOn(k)
                            \/ x \in First' \/ (\E k \in Rest' : x \in HangOn(k))
    BY <1>7, <2>4 DEF DueAre, DueIs
  <2>6. carried \/ Doomed(<<phase>>, at) => StillDue'
    BY <1>1, <1>7, <2>1 DEF StillDue
  <2>7. ASSUME ~ carried, ~ Doomed(<<phase>>, at) PROVE StillDue'
    <3>1. there \ printed \subseteq Due /\ there \cap printed \cap Due = {} /\ there \cap again = {}
      BY <1>5, <1>6, <2>1, <2>7
    <3>2. CASE n = ListHead
      <4>1. inner' = Tail(inner) /\ sub' = ListHead /\ printed' = printed /\ again' = again
        BY <2>0, <3>2
      <4>2. First = {} /\ Rest = ToSet(Tail(inner))
        BY <1>1, <1>5, <2>7, <3>2 DEF Rest
      <4>3. \A x \in Nodes(phase) :
              x \in First' \/ (\E k \in Rest' : x \in HangOn(k)) <=> \E k \in Rest : x \in HangOn(k)
        BY <1>7, <2>4, <4>1, <4>2 DEF AtHead
      <4>4. \A x \in Nodes(phase) : x \in Due <=> x \in Due'
        BY <2>5, <4>2, <4>3
      <4>5. there' \ printed' \subseteq Due' /\ there' \cap printed' \cap Due' = {} /\ there' \cap again' = {}
        BY <1>1, <1>7, <3>1, <4>1, <4>4
      <4> QED
        BY <4>5 DEF StillDue
    <3>3. CASE n # ListHead
      <4>1. /\ inner' = inner /\ sub' = n /\ printed' = printed \cup {n}
            /\ again' = again \cup (printed \cap {n})
        BY <2>0, <3>3
      <4>2. /\ n \in ToSet(List(Head(inner))) /\ n \notin Behind(Head(inner), n)
            /\ First = {n} \cup Behind(Head(inner), n)
        BY <1>5, <2>1, <2>7, <3>3
      <4>3. First' = Behind(Head(inner), n) /\ Rest' = Rest
        <5>1. Ahead(Head(inner), n) = Behind(Head(inner), n)
          BY <4>2 DEF Ahead, OnList
        <5> QED
          BY <1>1, <4>1, <5>1, CoreStays DEF First, Rest
      <4>4. n \in Members(Head(inner)) /\ n \in Nodes(phase)
        <5>1. n \in Members(Head(inner))
          BY <1>1, <1>4, <4>2, WalkLists DEF ListsAreTyped
        <5>2. Members(Head(inner)) \subseteq Nodes(phase)
          BY <1>4 DEF InnerNames, Members, Nodes, IInv, ImagesStay
        <5> QED
          BY <5>1, <5>2
      <4>5. n \in HangOn(Head(inner)) /\ n \notin NodesIn(<<phase>>)
        BY <1>1, <1>4, <4>4, KindsOfNodes DEF KindsAre, IsOfKind
      <4>6. /\ \A m \in Outer : \A k \in ToSet(InnerLists(m)) : n \notin HangOn(k)
            /\ \A k \in Rest : n \notin HangOn(k)
        BY <1>1, <4>5, HangsOnce
      <4>7. n \notin Outer
        BY <1>1, <4>5, AheadAreListed DEF AheadAre, WalkInv
      <4>8. n \notin Due'
        BY <2>5, <4>2, <4>3, <4>4, <4>6, <4>7
      <4>9. \A x \in Nodes(phase) : x \in Due <=> x = n \/ x \in Due'
        BY <2>5, <4>2, <4>3
      <4>10. there' \ printed' \subseteq Due' /\ there' \cap printed' \cap Due' = {} /\ there' \cap again' = {}
        BY <1>1, <1>7, <3>1, <4>1, <4>4, <4>8, <4>9
      <4> QED
        BY <4>10 DEF StillDue
    <3> QED
      BY <3>2, <3>3
  <2>8. LinksOfGone'
    <3>1. CASE carried
      BY <1>1, <3>1 DEF LinksOfGone
    <3>2. CASE ~ carried
      <4>1. LinkIsOf(<<phase>>, at)'
        BY <1>1, <1>4a, <3>2, CoreStays DEF WalkInv, LinksOfGone
      <4>2. LinkIsOf(Head(inner), sub)' \/ sub' = ListHead
        <5>1. CASE n = ListHead
          BY <2>0, <5>1
        <5>2. CASE n # ListHead
          BY <1>1, <1>5, <2>0, <2>1, <3>2, <5>2, CoreStays DEF LinkIsOf, OnList
        <5> QED
          BY <5>1, <5>2
      <4>3. LinkIsOf(Head(inner), sub)'
        BY <4>2 DEF LinkIsOf, OnList
      <4> QED
        BY <4>1, <4>3 DEF LinksOfGone
    <3> QED
      BY <3>1, <3>2
  <2> QED
    BY <1>5a, <1>7, <2>2, <2>3, <2>6, <2>7, <2>8 DEF WalkInv
<1> QED
  BY <1>3, <1>8, <1>9

(***************************************************************************)
(* A dump begins                                                           *)
(***************************************************************************)

(* From the head every node of a dump is ahead: what hangs on a node hangs  *)
(* on one that is in the outer list.                                        *)
AllAreDue == Nodes(phase) \subseteq Due

LEMMA AllAhead ==
  IInv /\ NotifiesHaveEntries /\ InnerIsOfAt /\ pc = "walk" /\ at = ListHead => AllAreDue
<1> SUFFICES ASSUME IInv, NotifiesHaveEntries, InnerIsOfAt, pc = "walk", at = ListHead,
                    NEW x \in Nodes(phase)
             PROVE  x \in Due
  BY DEF AllAreDue
<1>1. DueAre
  BY DueMembers
<1>2. Outer = Members(<<phase>>)
  <2>1. <<phase>> \in ListNames
    BY DEF IInv, TypeOK, ListNames
  <2> QED
    BY <2>1, WalkLists DEF Outer, Ahead, OnList, Behind, ListsAreTyped
<1>4. \/ x \in Members(<<phase>>)
      \/ \E n \in Members(<<phase>>) : \E l \in ToSet(InnerLists(n)) : x \in HangOn(l)
  <2>1. CASE phase = "handles"
    <3>1. Members(<<phase>>) = ToSet(handles)
      BY <2>1 DEF Members
    <3>2. CASE x \in ToSet(ifaces)
      <4>1. x \in Handles \X Protocols /\ x[1] \in ToSet(handles)
        BY <3>2, MembersOfSeq DEF IInv, TypeOK, ImagesStay
      <4>2. <<"on", x[1]>> \in ToSet(InnerLists(x[1]))
        BY <2>1 DEF InnerLists, ToSet
      <4>3. x \in HangOn(<<"on", x[1]>>)
        BY <4>1 DEF HangOn
      <4> QED
        BY <3>1, <4>1, <4>2, <4>3
    <3> QED
      BY <2>1, <3>1, <3>2 DEF Nodes
  <2>2. CASE phase = "protocols"
    <3>1. Members(<<phase>>) = ToSet(protocols)
      BY <2>2 DEF Members
    <3>2. ASSUME NEW n
          PROVE  <<"by", n>> \in ToSet(InnerLists(n)) /\ <<"notify", n>> \in ToSet(InnerLists(n))
      <4>1. InnerLists(n) = <<<<"by", n>>, <<"notify", n>>>>
        BY <2>2 DEF InnerLists
      <4> QED
        BY <4>1 DEF ToSet
    <3>3. CASE x \in ToSet(ifaces)
      <4>1. x \in Handles \X Protocols /\ x[2] \in ToSet(protocols)
        BY <3>3, MembersOfSeq DEF IInv, TypeOK, ImagesStay
      <4>2. x \in HangOn(<<"by", x[2]>>)
        BY <4>1 DEF HangOn
      <4> QED
        BY <3>1, <3>2, <4>1, <4>2
    <3>4. CASE x \in ToSet(notifies)
      <4>1. x \in Protocols \X Events /\ x[1] \in ToSet(protocols)
        BY <3>4, MembersOfSeq DEF IInv, TypeOK, NotifiesHaveEntries
      <4>2. x \in HangOn(<<"notify", x[1]>>)
        BY <4>1 DEF HangOn
      <4> QED
        BY <3>1, <3>2, <4>1, <4>2
    <3> QED
      BY <2>2, <3>1, <3>3, <3>4 DEF Nodes
  <2>3. CASE phase \in {"signals", "timers"}
    BY <2>3 DEF Nodes, Members
  <2> QED
    BY <2>1, <2>2, <2>3 DEF IInv, TypeOK, Phases
<1> QED
  BY <1>1, <1>2, <1>4 DEF DueAre, DueIs

(* Begin keeps the lists, but for a dummy event that goes.                  *)
LEMMA BeginWalk ==
  ASSUME IInv, IInv', WalkInv, NEW p \in Phases, Begin(p), heads'[p] = ListHead,
         NoneTwice(signals'), ToSet(signals') = ToSet(signals) \ {Dummy},
         NoneTwice(timers'), ToSet(timers') = ToSet(timers) \ {Dummy}
  PROVE  WalkInv'
<1>1. /\ phase' = p /\ pc' = "walk" /\ at' = ListHead /\ inner' = <<>>
      /\ printed' = {} /\ again' = {} /\ there' = Nodes(p) \ {Dummy}
      /\ UNCHANGED <<handles, protocols, ifaces, byProtocol, notifies, events, freed>>
  BY NodesAssumption DEF Begin
<1>2. /\ ListsAreOrders' /\ FreedIsGone' /\ LinksOfGone' /\ NotifiesHaveEntries' /\ InnerIsOfAt'
  BY <1>1 DEF WalkInv, ListsAreOrders, FreedIsGone, Listed, LinksOfGone, LinkIsOf, OnList,
     NotifiesHaveEntries, InnerIsOfAt
<1>3. there' = Nodes(phase)'
  <2>1. /\ ToSet(handles) \subseteq Handles /\ ToSet(protocols) \subseteq Protocols
        /\ ToSet(ifaces) \subseteq Handles \X Protocols /\ ToSet(notifies) \subseteq Protocols \X Events
    BY MembersOfSeq DEF IInv, TypeOK
  <2>2. Dummy \notin ToSet(handles) \cup ToSet(protocols) \cup ToSet(ifaces) \cup ToSet(notifies)
    BY <2>1, NodesAssumption DEF ListedNodes
  <2> QED
    BY <1>1, <2>2 DEF Nodes, Phases
<1>4. AllAreDue'
  <2>1. (IInv /\ NotifiesHaveEntries /\ InnerIsOfAt /\ pc = "walk" /\ at = ListHead)' => AllAreDue'
    BY AllAhead, PTL
  <2> QED
    BY <1>1, <1>2, <2>1
<1>5. ThereIsListed' /\ StillDue'
  <2>1. there' \ printed' \subseteq Due' /\ there' \cap printed' = {} /\ there' \cap again' = {}
    BY <1>1, <1>3, <1>4 DEF AllAreDue
  <2> QED
    BY <1>3, <2>1 DEF ThereIsListed, StillDue
<1>6. EveryNodeOnce' /\ StillTimersPrinted' /\ EverythingDumped'
  BY <1>1 DEF EveryNodeOnce, StillTimersPrinted, EverythingDumped
<1> QED
  BY <1>2, <1>5, <1>6 DEF WalkInv

(* Between the dumps of events the dummy is in no list.                     *)
LEMMA NoDummy ==
  ASSUME IInv, Settled
  PROVE  /\ Dummy \notin ToSet(signals) \cup ToSet(timers) \cup Events
         /\ signals \in Seq(Events) /\ timers \in Seq(Events)
<1>1. signals \in Seq(Events) /\ timers \in Seq(Events)
  BY SettledLists DEF IInv
<1>2. ToSet(signals) \subseteq Events /\ ToSet(timers) \subseteq Events
  BY <1>1, MembersOfSeq
<1> QED
  BY <1>1, <1>2, NodesAssumption DEF ListedNodes

(* The program is over: what it has found is what HeadsFound says.          *)
LEMMA DoneDumped == ASSUME IInv, pc # "lost" PROVE EverythingDumped
BY DEF IInv, HeadsFound, EverythingDumped

LEMMA EndWalk ==
  ASSUME IInv', pc' \notin {"walk", "lost"}, there' = {} \/ pc' # "end",
         ListsAreOrders', FreedIsGone', NotifiesHaveEntries'
  PROVE  WalkInv'
<1>1. EverythingDumped'
  <2>1. (IInv /\ pc # "lost")' => EverythingDumped'
    BY DoneDumped, PTL
  <2> QED
    BY <2>1
<1>2. EveryNodeOnce' /\ StillTimersPrinted'
  BY DEF EveryNodeOnce, StillTimersPrinted
<1> QED
  BY <1>1, <1>2, NotWalking

LEMMA DumpHandleListWalk == ASSUME IInv, IInv', WalkInv, DumpHandleList PROVE WalkInv'
<1>1. heads \in [Phases -> {ListHead, NULL}] /\ handles \in Seq(Handles)
  BY DEF IInv, TypeOK
<1>2. GetDxeCoreHandleList = ListHead
  BY <1>1, HeadIsFound DEF GetDxeCoreHandleList, IInv, ImagesStay
<1>3. heads'["handles"] = ListHead /\ UNCHANGED <<signals, timers>> /\ pc = "lists"
  BY <1>1, <1>2 DEF DumpHandleList, Phases
<1>4. Begin("handles") /\ "handles" \in Phases
  BY <1>3, NodesAssumption DEF DumpHandleList, Phases
<1>5. NoneTwice(signals) /\ NoneTwice(timers)
  BY DEF WalkInv, ListsAreOrders
<1>6. Dummy \notin ToSet(signals) \cup ToSet(timers)
  BY <1>3, NoDummy DEF Settled
<1> QED
  BY <1>3, <1>4, <1>5, <1>6, BeginWalk

LEMMA DumpProtocolDatabaseWalk ==
  ASSUME IInv, IInv', WalkInv, DumpProtocolDatabase PROVE WalkInv'
<1>1. heads'["protocols"] = ListHead /\ UNCHANGED <<signals, timers>> /\ pc = "end"
  BY DEF DumpProtocolDatabase, IInv, HeadsFound
<1>2. Begin("protocols") /\ "protocols" \in Phases
  BY DEF DumpProtocolDatabase, Phases
<1>3. NoneTwice(signals) /\ NoneTwice(timers)
  BY DEF WalkInv, ListsAreOrders
<1>4. Dummy \notin ToSet(signals) \cup ToSet(timers)
  BY <1>1, NoDummy DEF Settled
<1> QED
  BY <1>1, <1>2, <1>3, <1>4, BeginWalk

(* The dummy event goes into a list, where it is no node of a walk.         *)
LEMMA DummyListed ==
  ASSUME WalkInv, UNCHANGED <<handles, protocols, ifaces, byProtocol, notifies, events, freed>>,
         NoneTwice(signals'), ToSet(signals') \subseteq ToSet(signals) \cup {Dummy},
         NoneTwice(timers'), ToSet(timers') \subseteq ToSet(timers) \cup {Dummy}
  PROVE  ListsAreOrders' /\ FreedIsGone' /\ NotifiesHaveEntries'
<1>1. Dummy \notin freed
  BY NodesAssumption DEF WalkInv, FreedIsGone, ListedNodes
<1> QED
  BY <1>1 DEF WalkInv, ListsAreOrders, FreedIsGone, Listed, NotifiesHaveEntries

LEMMA CreateSignalEventWalk ==
  ASSUME IInv, IInv', WalkInv, CreateSignalEvent PROVE WalkInv'
<1> DEFINE S == Events \cup {Dummy}
           one == <<Dummy>>
<1>1. /\ pc = "end" /\ pc' = "created" /\ signals' = one \o signals /\ timers' = timers
      /\ UNCHANGED <<handles, protocols, ifaces, byProtocol, notifies, events, freed>>
  BY DEF CreateSignalEvent
<1>2. Dummy \notin ToSet(signals) /\ signals \in Seq(Events)
  BY <1>1, NoDummy DEF Settled
<1>3. signals \in Seq(S) /\ Dummy \in S
  BY <1>2, SeqMonotonic
<1>4. NoneTwice(signals) /\ NoneTwice(timers)
  BY DEF WalkInv, ListsAreOrders
<1> HIDE DEF S
<1>5. one \in Seq(S) /\ ToSet(one) = {Dummy}
  BY <1>3, SingleMembers
<1>6. NoneTwice(signals')
  BY <1>1, <1>2, <1>3, <1>4, FrontOrder
<1> HIDE DEF one
<1>7. ToSet(signals') = ToSet(signals) \cup {Dummy}
  BY <1>1, <1>3, <1>5, ConcatMembers
<1>8. ListsAreOrders' /\ FreedIsGone' /\ NotifiesHaveEntries'
  BY <1>1, <1>4, <1>6, <1>7, DummyListed
<1> QED
  BY <1>1, <1>8, EndWalk

LEMMA SetDummyTimerWalk ==
  ASSUME IInv, IInv', WalkInv, SetDummyTimer PROVE WalkInv'
<1> DEFINE S == Events \cup {Dummy}
<1>1. /\ pc = "unset" /\ pc' = "created" /\ timers' \in Insertions(timers, Dummy) /\ signals' = signals
      /\ UNCHANGED <<handles, protocols, ifaces, byProtocol, notifies, events, freed>>
  BY DEF SetDummyTimer
<1>2. Dummy \notin ToSet(timers) /\ timers \in Seq(Events)
  BY <1>1, NoDummy DEF Settled
<1>3. timers \in Seq(S) /\ Dummy \in S
  BY <1>2, SeqMonotonic
<1>4. NoneTwice(signals) /\ NoneTwice(timers)
  BY DEF WalkInv, ListsAreOrders
<1> HIDE DEF S
<1>5. NoneTwice(timers') /\ ToSet(timers') = ToSet(timers) \cup {Dummy}
  BY <1>1, <1>2, <1>3, <1>4, InsertionsMembers, InsertionOrder
<1>6. ListsAreOrders' /\ FreedIsGone' /\ NotifiesHaveEntries'
  BY <1>1, <1>4, <1>5, DummyListed
<1> QED
  BY <1>1, <1>6, EndWalk

(* The dummy event leaves its list, and the walk begins, or the program is  *)
(* over.                                                                    *)
LEMMA DumpEventListWalk ==
  ASSUME IInv, IInv', WalkInv, DumpEventList PROVE WalkInv'
<1> DEFINE S == Events \cup {Dummy}
<1>1. /\ signals' = Remaining(signals, {Dummy}) /\ timers' = Remaining(timers, {Dummy})
      /\ heads' = heads /\ heads \in [Phases -> {ListHead, NULL}] /\ phase \in Phases
  BY DEF DumpEventList, IInv, TypeOK
<1>2. signals \in Seq(EventsIn("signals")) /\ timers \in Seq(EventsIn("timers"))
  BY DEF IInv, TypeOK
<1>3. NoneTwice(signals) /\ NoneTwice(timers)
  BY DEF WalkInv, ListsAreOrders
<1>4. /\ NoneTwice(signals') /\ ToSet(signals') = ToSet(signals) \ {Dummy}
      /\ NoneTwice(timers') /\ ToSet(timers') = ToSet(timers) \ {Dummy}
  BY <1>1, <1>2, <1>3, RemainingMembers, RemainingOrder
<1>5. CASE heads[phase] # NULL
  <2>1. heads'[phase] = ListHead /\ Begin(phase)
    BY <1>1, <1>5 DEF DumpEventList
  <2> QED
    BY <1>1, <1>4, <2>1, BeginWalk
<1>6. CASE heads[phase] = NULL
  <2>1. GiveUp
    BY <1>6 DEF DumpEventList
  <2>2. /\ pc' = "done"
        /\ UNCHANGED <<handles, protocols, ifaces, byProtocol, notifies, events, freed>>
    BY <2>1 DEF GiveUp
  <2>3. ListsAreOrders' /\ FreedIsGone' /\ NotifiesHaveEntries'
    BY <1>4, <2>2, DummyListed
  <2> QED
    BY <2>2, <2>3, EndWalk
<1> QED
  BY <1>5, <1>6

(* Steps that neither walk nor touch a list.                                *)
LEMMA QuietWalk ==
  ASSUME IInv, IInv', WalkInv,
         GetLoadedImage \/ NoSignalEvent \/ CreateTimerEvent \/ NoTimerEvent \/ TimerNotSet
           \/ FindEventList \/ Exit
  PROVE  WalkInv'
<1>1. UNCHANGED core
  BY DEF GetLoadedImage, NoSignalEvent, CreateTimerEvent, NoTimerEvent, TimerNotSet, FindEventList,
     Exit
<1>2. pc' \notin {"walk", "lost"} /\ (there' = {} \/ pc' # "end")
  BY DEF GetLoadedImage, NoSignalEvent, CreateTimerEvent, NoTimerEvent, TimerNotSet, FindEventList,
     Exit
<1>3. ListsAreOrders' /\ FreedIsGone' /\ NotifiesHaveEntries'
  BY <1>1, CoreStays
<1> QED
  BY <1>2, <1>3, EndWalk

(* A cursor on freed memory is on no list.                                  *)
LEMMA LinkOverwrittenWalk ==
  ASSUME IInv, WalkInv, LinkOverwritten PROVE WalkInv'
<1>1. /\ pc = "walk" /\ pc' = "lost" /\ UNCHANGED <<core, phase, at, inner, sub>>
      /\ IF inner # <<>> THEN sub \in freed ELSE at \in freed
  BY DEF LinkOverwritten, Walking, cursor
<1>2. ASSUME NEW l \in ListNames, NEW n \in freed PROVE ~ OnList(l, n)
  <2>1. ToSet(List(l)) = Members(l) /\ NoneFreed
    BY <1>1, WalkOrders, WalkNoneFreed DEF WalkInv
  <2> QED
    BY <1>2, <2>1 DEF NoneFreed, OnList
<1>3. /\ <<phase>> \in ListNames
      /\ inner # <<>> => Head(inner) \in ListNames
  BY <1>1, Cursors DEF WalkInv
<1>4. Adrift
  BY <1>1, <1>2, <1>3 DEF Adrift
<1>5. Adrift'
  BY <1>1, <1>4, CoreStays DEF Adrift
<1>6. ListsAreOrders' /\ FreedIsGone' /\ NotifiesHaveEntries'
  BY <1>1, CoreStays
<1> QED
  BY <1>1, <1>5, <1>6, NotWalking DEF EveryNodeOnce, StillTimersPrinted, EverythingDumped

(***************************************************************************)
(* The invariant of the walks                                              *)
(***************************************************************************)

(* No handle, and no protocol, is twice in its list.                        *)
LEMMA InOrderOnce ==
  ASSUME NEW column \in {1, 2}
  PROVE  NoneTwice(InOrder(column))
<1> DEFINE L == Len(Plugged)
           all == [i \in 1 .. L |-> i]
           first == {i \in DOMAIN Plugged :
                       \A j \in 1 .. i - 1 : Plugged[j][column] # Plugged[i][column]}
           places == Where(all, first)
           M == Len(places)
           list == [k \in 1 .. M |-> Plugged[places[k]][column]]
           D == 1 .. L
<1>1. L \in Nat /\ DOMAIN Plugged = D
  BY ListsAssumption
<1>2. InOrder(column) = list
  BY DEF InOrder
<1>3. all \in Seq(D) /\ Len(all) = L /\ \A i \in D : all[i] = i
  BY <1>1
<1>4. \A i, j \in first : j < i => Plugged[j][column] # Plugged[i][column]
  BY <1>1
<1>5. first \subseteq D
  BY <1>1
<1> HIDE DEF all, first
<1>6. PICK place \in [1 .. M -> 1 .. L] :
        /\ \A j \in 1 .. M : places[j] = all[place[j]] /\ all[place[j]] \in first
        /\ \A j, k \in 1 .. M : j < k => place[j] < place[k]
  <2>1. PICK place : Places(place, all, first)
    BY <1>3, WherePlaces
  <2> QED
    BY <1>3, <2>1 DEF Places
<1>7. places \in Seq(D)
  BY <1>3, WherePlaces
<1>8. M \in Nat
  BY <1>7
<1> HIDE DEF L, places, M
<1>9. \A j \in 1 .. M : places[j] = place[j] /\ places[j] \in first
  BY <1>3, <1>6
<1>10. ASSUME NEW j \in 1 .. M, NEW k \in 1 .. M, j < k PROVE list[j] # list[k]
  BY <1>4, <1>6, <1>9, <1>10
<1>11. DOMAIN list = 1 .. M
  OBVIOUS
<1> HIDE DEF list
<1> QED
  BY <1>2, <1>10, <1>11 DEF NoneTwice, Precedes

LEMMA InitWalkInv == Init => WalkInv
<1> SUFFICES ASSUME Init PROVE WalkInv
  OBVIOUS
<1>1. ListsAreOrders
  BY InOrderOnce, ListsAssumption DEF Init, ListsAreOrders
<1>2. FreedIsGone /\ LinksOfGone
  <2>1. \A n \in ToSet(notifies) : n[2] \in events
    BY DEF Init
  <2>2. ToSet(signals) \cup ToSet(timers) \subseteq events
    BY DEF Init
  <2> QED
    BY <2>1, <2>2 DEF Init, FreedIsGone, LinksOfGone
<1>3. NotifiesHaveEntries
  <2>1. \A i \in 1 .. Len(Plugged) : Plugged[i][2] \in Protocols
    BY ListsAssumption
  <2>2. \A i \in 1 .. Len(Plugged) : Plugged[i][2] \in ToSet(protocols)
    BY <2>1, InOrderMembers DEF Init
  <2>3. \A i \in ToSet(Plugged) : i[2] \in ToSet(protocols)
    <3>1. ToSet(Plugged) = {Plugged[i] : i \in 1 .. Len(Plugged)}
      <4>1. Plugged \in Seq(Handles \X Protocols)
        BY ListsAssumption
      <4> QED
        BY <4>1, MembersOfSeq
    <3> QED
      BY <2>2, <3>1
  <2> QED
    BY <2>3, ListsAssumption DEF Init, NotifiesHaveEntries
<1> QED
  BY <1>1, <1>2, <1>3 DEF Init, WalkInv, InnerIsOfAt, ThereIsListed, StillDue, EveryNodeOnce,
     StillTimersPrinted, EverythingDumped

LEMMA NextWalkInv == IInv /\ IInv' /\ WalkInv /\ [Next]_vars => WalkInv'
<1> SUFFICES ASSUME IInv, IInv', WalkInv, [Next]_vars PROVE WalkInv'
  OBVIOUS
<1>1. CASE UNCHANGED vars
  <2>1. UNCHANGED <<core, pc, phase, at, inner, sub, printed, again, there, carried, heads, failed>>
    BY <1>1 DEF vars, cursor, report
  <2>2. Due' = Due
    <3>1. \A l, n : Ahead(l, n)' = Ahead(l, n)
      BY <2>1, CoreStays
    <3>2. \A n : Hanging(n)' = Hanging(n)
      BY <2>1 DEF Hanging, InnerLists, List, core
    <3>3. \A l : List(l)' = List(l)
      BY <2>1, CoreStays
    <3> QED
      BY <2>1, <3>1, <3>2, <3>3 DEF Due
  <2>3. StillDue'
    BY <2>1, <2>2, CoreStays DEF WalkInv, StillDue
  <2>4. InnerIsOfAt' /\ ThereIsListed' /\ EveryNodeOnce' /\ StillTimersPrinted'
    BY <2>1 DEF WalkInv, InnerIsOfAt, NodesIn, ThereIsListed, Nodes, core, EveryNodeOnce,
       StillTimersPrinted
  <2>5. LinksOfGone'
    BY <2>1, CoreStays DEF WalkInv, LinksOfGone
  <2>6. EverythingDumped'
    BY <2>1, CoreStays DEF WalkInv, EverythingDumped, Adrift
  <2> QED
    BY <2>1, <2>3, <2>4, <2>5, <2>6, CoreStays DEF WalkInv
<1> QED
  BY <1>1, InstallProtocolWalk, ReinstallProtocolWalk, UninstallProtocolWalk,
     RegisterProtocolNotifyWalk, CreateEventWalk, SetTimerWalk, CancelTimerWalk, TimerExpiresWalk,
     CloseEventWalk, DumpHandleListWalk, DumpProtocolDatabaseWalk, CreateSignalEventWalk,
     SetDummyTimerWalk, DumpEventListWalk, QuietWalk, LinkOverwrittenWalk, DumpInnerWalk,
     DumpOuterWalk DEF Next

(* In every step of a walk what is there and not printed is still ahead of  *)
(* a cursor, or the cursor's link leads to freed memory, or the walk may    *)
(* have been carried off by memory that is a node again.                    *)
THEOREM WalkInvariance == Spec => []WalkInv
<1> QED
  BY InitIInv, InitWalkInv, NextIInv, NextWalkInv, PTL DEF Spec

(* DumpHandleList, DumpProtocolDatabase and DumpEventSignalQueue print what *)
(* stays in its place from the start of a dump to its end, and print it     *)
(* once, whatever callbacks install, reinstall, register, create, free and  *)
(* use again, unless that carries the walk off.                             *)
THEOREM NodesArePrintedOnce == Spec => []EveryNodeOnce
<1>1. WalkInv => EveryNodeOnce
  BY DEF WalkInv
<1> QED
  BY <1>1, WalkInvariance, PTL

(* DumpEventTimerList prints every timer that neither expires nor is set,   *)
(* unless that carries the walk off.                                        *)
THEOREM TimersThatStayArePrinted == Spec => []StillTimersPrinted
<1>1. WalkInv => StillTimersPrinted
  BY DEF WalkInv
<1> QED
  BY <1>1, WalkInvariance, PTL

(* Every list is dumped when nothing fails, and only a walk whose node has  *)
(* been taken out of its list under it is cut short.                        *)
THEOREM NothingCutsShort == Spec => []EverythingDumped
<1>1. WalkInv => EverythingDumped
  BY DEF WalkInv
<1> QED
  BY <1>1, WalkInvariance, PTL
=============================================================================
