SPECIFICATION DriverSpec
CONSTANTS
  NullPointer = NullPointer
  ChildLib = "Nt32"
  SmmDrivers <- MCSmmDrivers
  DxeImages <- MCDxeImages
  Calls <- MCCalls
INVARIANTS ListsAreThoseLocked NothingLeftBehind EveryImageIsKnown
CHECK_DEADLOCK FALSE
