-------------------------- MODULE MCSmmCoreDatabase --------------------------
(* The lists of an SMM core after up to MaxInstalls InstallProtocolInterface *)
(* calls, with and without images, notifications and handlers.              *)
EXTENDS SmmCoreDatabase

CONSTANT MaxInstalls

Image(name, base) == [Name |-> name, ImageBase |-> base, ImageSize |-> 100]

(* Interfaces in either image, in none, NULL, and data whose function is in *)
(* the second image.                                                        *)
Installs ==
  { [Handle |-> h, ProtocolID |-> p, Interface |-> i[1], via |-> i[2]] :
    h \in {"h1", "h2"}, p \in {"p1", "p2"},
    i \in {<<0, 0>>, <<100, 0>>, <<399, 0>>, <<900, 0>>, <<900, 300>>} }

(* The names are interchangeable: the first call is for h1 and p1.           *)
InstallSequences ==
  {s \in UNION {[1 .. n -> Installs] : n \in 0 .. MaxInstalls} :
     s = <<>> \/ (s[1].Handle = "h1" /\ s[1].ProtocolID = "p1")}

(* The distinct keys of the records of a sequence, in their order.          *)
Keys(key(_), seq) ==
  FoldLeft(LAMBDA ks, x : IF Contains(ks, key(x)) THEN ks ELSE Append(ks, key(x)), <<>>, seq)

Handles(s) ==
  LET ks == Keys(LAMBDA x : x.Handle, s)
  IN  [i \in DOMAIN ks |->
         [Handle |-> ks[i], Protocols |-> SelectSeq(s, LAMBDA x : x.Handle = ks[i])]]

(* A notification registered for a protocol makes its entry too; the entry  *)
(* of the driver's own protocol is the last.                                *)
Entries(s, notify) ==
  LET Put(p) == [ProtocolID |-> p, Interface |-> 0, via |-> 0, Handle |-> "none"]
      ks == Keys(LAMBDA x : x.ProtocolID, s \o (IF notify = <<>> THEN <<>> ELSE <<Put("p2")>>))
  IN  Append([i \in DOMAIN ks |->
                [ ProtocolID |-> ks[i],
                  Protocols  |-> SelectSeq(s, LAMBDA x : x.ProtocolID = ks[i]),
                  Notify     |-> IF ks[i] = "p2" THEN notify ELSE <<>> ]],
             [ProtocolID |-> OwnProtocol, Protocols |-> <<>>, Notify |-> <<>>])

Smi(type, handlers) == [HandlerType |-> type, SmiHandlers |-> handlers]

Rests ==
  { [notify |-> <<>>, smis |-> <<>>, roots |-> <<>>, childLib |-> "Null", children |-> <<>>],
    [notify |-> <<>>, smis |-> <<Smi("t1", <<>>)>>, roots |-> <<100>>,
     childLib |-> "Nt32", children |-> <<>>],
    [notify |-> <<150, 900>>, smis |-> <<Smi("t1", <<310, 0>>), Smi("t2", <<199>>)>>,
     roots |-> <<300, 200>>, childLib |-> "Nt32", children |-> <<900, 399>>] }

MCLists ==
  { [ images |-> i, handles |-> Handles(s), entries |-> Entries(s, r.notify),
      smis |-> r.smis, roots |-> r.roots, childLib |-> r.childLib, children |-> r.children ] :
    i \in { <<>>, <<Image("A", 100)>>, <<Image("B", 300), Image("A", 100)>> },
    s \in InstallSequences,
    r \in Rests }
=============================================================================
