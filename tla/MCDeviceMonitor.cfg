\* The monitor on two processors; five BARs of four devices, one missing.
CONSTANTS
  NumProcs = 2
  NumBars = 5
  DeviceOf <- Devices
  PresentBars = {1, 3, 4, 5}
  WideBars = {2, 3, 4}
  LowerOnly = {4}
  BarSize <- Sizes
  Bases <- DeviceBases
  SkipDevices = {}
  PageUnits = 2
  UlongSpan = 32
  Space = 32
  AbsentUpper = 31
  HighMark = 512
  RamFrames = {0, 1, 2}
  ScarceFrames = {6}
  Instructions <- DeviceInstructions
  NoEntry = NoEntry
  MaxMoves = 1
  MaxStarts = 1
SPECIFICATION Spec
INVARIANTS
  TypeOK
  MonitorWindow
  TrapHasEntry
  AccessIsReadOrWrite
  BarsRestored
  NothingLeftRevoked
PROPERTIES
  ReachedCyclesCaptured
