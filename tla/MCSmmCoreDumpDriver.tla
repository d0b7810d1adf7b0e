------------------------ MODULE MCSmmCoreDumpDriver ------------------------
(* Two drivers in SMRAM, and three calls of other drivers.                  *)
EXTENDS SmmCoreDumpDriver

MCSmmDrivers == <<"A", "B">>
MCDxeImages  == <<"DxeCore", "C", "D">>
MCCalls      == <<"c1", "c2", "c3">>
=============================================================================
