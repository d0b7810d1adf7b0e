SPECIFICATION Spec
CONSTANTS
  OwnHandle = OwnHandle
  CoreHandle = CoreHandle
  driver = driver
  device1 = device1
  device2 = device2
  LoadedImage = LoadedImage
  BlockIo = BlockIo
  Private = Private
  event1 = event1
  event2 = event2
  event3 = event3
  Dummy = Dummy
  ListHead = ListHead
  NULL = NULL
  MaxCalls = 3
  Handles <- MCHandles
  Devices <- MCDevices
  Protocols <- MCProtocols
  Pooled = {LoadedImage, BlockIo, Private}
  mProtocolFuncStruct = {BlockIo}
  Events <- MCEvents
  Image <- MCImage
  NameOf <- MCName
  Plugged <- MCPlugged
  Notified <- MCNotified
  Signals <- MCSignals
  Timers <- MCTimers
INVARIANTS EveryNodeOnce StillTimersPrinted NothingLeftBehind NamesAreOwners EverythingDumped
CHECK_DEADLOCK FALSE
