---------------------------- MODULE StructureWalk ----------------------------
(***************************************************************************)
(* What a tool that prints a list of structures promises: each of them is  *)
(* printed, once, in the order in which the firmware has put them there,   *)
(* nothing else is, and the tool comes to the end of the list.             *)
(***************************************************************************)
EXTENDS Naturals, Sequences

VARIABLES
  published,   \* what the firmware has put there
  printed

vars == <<published, printed>>

Init == printed = <<>>

PrintNext ==
  /\ Len(printed) < Len(published)
  /\ printed' = Append(printed, published[Len(printed) + 1])
  /\ UNCHANGED published

Spec == Init /\ [][PrintNext]_vars /\ WF_vars(PrintNext)
=============================================================================
