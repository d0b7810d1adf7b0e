CONSTANTS
  Byte <- MCByte
  Sizes <- MCSizes
  Capacities <- MCCapacities
  NULL = NULL
SPECIFICATION ServerSpec
INVARIANTS ReplyIsSlice
