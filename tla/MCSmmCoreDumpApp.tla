-------------------------- MODULE MCSmmCoreDumpApp --------------------------
(* Small platforms for SmmCoreDumpApp: databases of one to five bytes and   *)
(* data buffers of one to three, so that a transfer takes one to five       *)
(* pieces and the last one is full, or not; and tables in which the first   *)
(* entry, a later one, or none can be used.                                 *)
EXTENDS SmmCoreDumpApp

Region(type, size) == [Type |-> type, Size |-> size]

MCByte == {0, 1}
MCSizes == {1, 2, 3, 5}
MCCapacities == {1, 2, 3}
MCTables ==
  { <<Region("EfiConventionalMemory", 4)>>,
    <<Region("EfiReservedMemory", 9), Region("EfiConventionalMemory", 2),
      Region("EfiConventionalMemory", 5)>>,
    <<Region("EfiConventionalMemory", 6), Region("EfiConventionalMemory", 9)>>,
    <<Region("EfiReservedMemory", 9), Region("EfiConventionalMemory", 3)>> }
=============================================================================
