\* Two processors; the tables have two entries each for three users; the
\* processors may be exchanged for each other.
CONSTANTS
  p1 = p1
  p2 = p2
  Procs <- Processors
  Rips = {1, 2, 3}
  RecordLen = 2
  PageOf <- Pages
  Written <- Writes
  GpRegs = {"eax", "rbx", "rcx"}
  NoReg = "none"
  NoRip = 0
  Locations = {"EptViolation", "Cpuid", "VmExit"}
  DataLen = 2
  NoKey = "null"
  Registers <- MachineRegisters
  None = None
  BarRegisters <- MachineBars
  UpperOf <- MachineUpper
  MaxExits = 3
SYMMETRY ProcessorSymmetry
SPECIFICATION Spec
INVARIANTS
  AnswerFits
  AnswerIsSettled
  CountsAddUp
  ConfigGoesWhereNamed
PROPERTIES
  LookupsAdvance
