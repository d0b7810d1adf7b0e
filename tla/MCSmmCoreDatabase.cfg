SPECIFICATION LayoutSpec
CONSTANTS
  MaxInstalls = 2
  OwnProtocol = "gEfiCallerIdGuid"
  SmmLists <- MCLists
INVARIANTS Tiled WalkAligned DumpComplete
CHECK_DEADLOCK FALSE
