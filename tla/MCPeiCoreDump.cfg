SPECIFICATION Spec
CONSTANTS
  file1 = file1
  file2 = file2
  file3 = file3
  entry1 = entry1
  entry2 = entry2
  entry3 = entry3
  mNotifyList = mNotifyList
  EndOfPei = EndOfPei
  ZeroGuid = ZeroGuid
  NULL = NULL
  HobLengths = 1024
  MaxFvCount = 3
  Volumes <- MCVolumes
  Entries <- MCEntries
  Provider <- MCProvider
INVARIANTS DumpIsCore HobHoldsAll
PROPERTIES WalkEnds
CHECK_DEADLOCK FALSE
