SPECIFICATION WalkSpec
CONSTANTS
  Tables <- MCTables
  Behind <- MCBehind
INVARIANTS ReadsItsStructure InStep
PROPERTY PrintsWhatIsThere
CHECK_DEADLOCK FALSE
