\* A write-through range before a write-back one, against "MTRR Precedences".
CONSTANTS
  FixedSizes <- Fixed
  Levels = 4
  Fan = 2
  RamRanges <- Ram
  PageSize = 4
  ApicPage = 13
  DevicePages = {4, 5, 7, 15}
  NumPreallocated = 3
  NumTables = 16
  MtrrChoices <- ThroughBeforeBack
  MaxFaults = 5
  MaxStarts = 1
SPECIFICATION Spec
INVARIANTS
  TypesFollowMtrrs
CHECK_DEADLOCK FALSE
