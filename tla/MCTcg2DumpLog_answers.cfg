SPECIFICATION Spec
CONSTANTS
  MAX_PCR_INDEX = 1
  MaxMeasured = 2
  MaxRuns = 3
  NULL = NULL
  Banks <- MCBanks
  Questions <- MCQuestions
  EventKinds <- MCEventKinds
  Roots <- MCRoots
  Rooms <- MCRooms
INVARIANT EveryPcrAnswered
CHECK_DEADLOCK FALSE
