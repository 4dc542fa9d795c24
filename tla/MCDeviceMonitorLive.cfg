\* Liveness: two BARs on two processors; the callback of one
\* device asks to skip the instruction.
CONSTANTS
  NumProcs = 2
  NumBars = 2
  DeviceOf <- TwoDevices
  PresentBars = {1, 2}
  WideBars = {}
  LowerOnly = {}
  BarSize <- TwoSizes
  Bases <- TwoBases
  SkipDevices = {"usb"}
  PageUnits = 2
  UlongSpan = 16
  Space = 16
  AbsentUpper = 31
  HighMark = 256
  RamFrames = {0, 1}
  ScarceFrames = {6}
  Instructions <- TwoInstructions
  NoEntry = NoEntry
  MaxMoves = 1
  MaxStarts = 0
SPECIFICATION FairSpec
PROPERTIES
  ReachedCyclesCaptured
  InstructionsFinish
  MonitorCallsReturn
