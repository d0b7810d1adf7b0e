SPECIFICATION MCSpec
CONSTANTS
  Paths = {"a.efi", "b.efi"}
  MaxIndex = 4
  MaxAdds = 3
  NoVariable = NoVariable
  Values = 8
  Arguments <- TheArguments
  NoCount = NoCount
INVARIANTS NoDuplicate OnlyInterruptedDangle EveryResetIsCounted StopsInTime
PROPERTIES AddLosesNothing ComesToRest
