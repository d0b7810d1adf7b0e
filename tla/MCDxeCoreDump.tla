---------------------------- MODULE MCDxeCoreDump ----------------------------
(***************************************************************************)
(* The DXE core, the application, a driver that may be loaded during the   *)
(* dump, and two devices, of which one is plugged from the start.          *)
(***************************************************************************)
EXTENDS DxeCoreDump

CONSTANTS driver, device1, device2, BlockIo, Private, event1, event2, event3

MCHandles == {CoreHandle, OwnHandle, driver, device1, device2}
MCDevices == {device1, device2}
MCProtocols == {LoadedImage, BlockIo, Private}
MCEvents == {event1, event2, event3}
MCImage ==
  [x \in MCHandles \cup MCEvents |->
     IF x \in {CoreHandle, OwnHandle} THEN x ELSE IF x = event1 THEN CoreHandle ELSE driver]
MCName == [h \in MCHandles \ MCDevices |-> IF h = CoreHandle THEN "DxeCore" ELSE "App"]
MCPlugged ==
  <<<<CoreHandle, LoadedImage>>, <<device1, BlockIo>>, <<device1, Private>>,
    <<device2, BlockIo>>, <<OwnHandle, LoadedImage>>>>
MCNotified == <<<<BlockIo, event1>>>>
MCSignals == <<event2, event1>>
MCTimers == <<event3, event2>>
=============================================================================
