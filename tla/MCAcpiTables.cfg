SPECIFICATION Spec
CONSTANTS
  NULL = NULL
  NoSign = NoSign
  Table <- MCTable
  Firmwares <- MCFirmwares
  Linked <- MCLinked
  MaxFuncs = 7
  MaxFiles = 4
  Signs <- MCSigns
  OldLengths = {0, 3}
INVARIANTS FullDumpIsComplete SignFiltersDump FilesHoldTables
