------------------------- MODULE MCSmmCoreDumpServer -------------------------
(* Databases of one to three bytes and data buffers of one and two: offsets *)
(* before, at and past the end, requests that fit and that do not.          *)
EXTENDS SmmCoreDumpServer

MCByte == {0, 1}
MCSizes == {1, 3}
MCCapacities == {1, 2}
=============================================================================
