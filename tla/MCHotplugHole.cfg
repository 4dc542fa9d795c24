\* Two processors are added, against the assertion at the end of VmTermination.
CONSTANTS
  NumCpus = 1
  MaxCpus = 3
  MaxLoads = 1
  MaxSuspends = 0
  FailingSteps = {}
SPECIFICATION Spec
INVARIANTS
  NotInstalledAfterTermination
CHECK_DEADLOCK FALSE
