---------------------------- MODULE MCPeiCoreDump ----------------------------
(***************************************************************************)
(* Volumes with one to three files, odd and even numbers of images among   *)
(* them, three PPIs and notifications of PEIMs, and 1024 lengths of a HOB  *)
(* for the 65536 of the code: 5 images leave room for 5 PPIs, 6 for none.  *)
(***************************************************************************)
EXTENDS PeiCoreDump

CONSTANTS file1, file2, file3, entry1, entry2, entry3

MCVolumes == {<<file1>>, <<file1, file2, file3>>}
MCEntries == {entry1, entry2, entry3}
MCProvider == [e \in MCEntries \cup {mNotifyList, EndOfPei} |-> IF e = entry2 THEN file2 ELSE file1]
=============================================================================
