\* Four MTRR settings, with and without fixed ranges; any allocation fails.
CONSTANTS
  FixedSizes <- Fixed
  Levels = 4
  Fan = 2
  RamRanges <- Ram
  PageSize = 4
  ApicPage = 13
  DevicePages = {4, 5, 7, 15}
  NumPreallocated = 3
  NumTables = 16
  MtrrChoices <- Settings
  MaxFaults = 5
  MaxStarts = 2
SPECIFICATION Spec
INVARIANTS
  TypeOK
  EveryTableOnce
  NothingLeaks
  MissIsDeviceMemory
  LeafIsFresh
  TypesFollowMtrrs
PROPERTIES
  ImplementsEptMap
CHECK_DEADLOCK FALSE
