SPECIFICATION Spec
CONSTANTS
  Platforms <- MCPlatforms
  MAX_VTD_PCI_DATA_NUMBER = 4
  VTD_ROOT_ENTRY_NUMBER = 2
  NULL = NULL
INVARIANTS UnitsOwnTheirDevices NoFalseAlarm StrayDeviceFails
CHECK_DEADLOCK FALSE
