CONSTANTS
  Byte <- MCByte
  Sizes <- MCSizes
  Capacities <- MCCapacities
  RegionTables <- MCTables
  NULL = NULL
  Zero = 0
  PageSize = 4
  CommSize = 3
SPECIFICATION Spec
INVARIANTS IInv DumpIsExact CopyStaysInside
PROPERTIES Terminates StartedIsCompleted ImplementsTransfer
