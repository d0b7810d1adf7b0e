----------------------------- MODULE DumpTransfer -----------------------------
(***************************************************************************)
(* What fetching the SMM core database promises, whatever the pieces it    *)
(* arrives in: the application holds a growing prefix of the database that *)
(* the driver built, and ends with all of it or with nothing.              *)
(***************************************************************************)
EXTENDS Integers

CONSTANTS Byte, Sizes, NULL

VARIABLES
  source,    \* NULL, or the database in SMRAM
  size,      \* its size
  copy,      \* what the application has of it
  outcome    \* "pending", "delivered" or "failed"

vars == <<source, size, copy, outcome>>

Prefix(n) == [i \in 0 .. n - 1 |-> source[i]]

Init ==
  /\ size \in Sizes
  /\ source \in {NULL} \cup [0 .. size - 1 -> Byte]
  /\ copy = Prefix(0)
  /\ outcome = "pending"

(* The prefix grows.                                                        *)
Receive ==
  /\ outcome = "pending"
  /\ source # NULL
  /\ \E n \in 1 .. size : copy' = Prefix(n) /\ DOMAIN copy \subseteq DOMAIN copy'
  /\ UNCHANGED <<source, size, outcome>>

Deliver ==
  /\ outcome = "pending"
  /\ source # NULL
  /\ copy = Prefix(size)
  /\ outcome' = "delivered"
  /\ UNCHANGED <<source, size, copy>>

Fail ==
  /\ outcome = "pending"
  /\ copy' = Prefix(0)
  /\ outcome' = "failed"
  /\ UNCHANGED <<source, size>>

Next == Receive \/ Deliver \/ Fail
Spec == Init /\ [][Next]_vars /\ WF_vars(Next)
=============================================================================
