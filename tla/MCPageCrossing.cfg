\* A read across two revoked pages against the claim that every cycle is captured.
CONSTANTS
  NumProcs = 2
  NumBars = 1
  DeviceOf <- OneDevice
  PresentBars = {1}
  WideBars = {}
  LowerOnly = {}
  BarSize <- LongSize
  Bases <- LongBase
  SkipDevices = {}
  PageUnits = 2
  UlongSpan = 32
  Space = 32
  AbsentUpper = 31
  HighMark = 512
  RamFrames = {0, 1}
  ScarceFrames = {}
  Instructions <- CrossingInstructions
  NoEntry = NoEntry
  MaxMoves = 0
  MaxStarts = 0
SPECIFICATION Spec
PROPERTIES
  EveryCycleCaptured
