\* Two processors and a third that may be added; one suspend.
CONSTANTS
  NumCpus = 2
  MaxCpus = 3
  MaxLoads = 1
  MaxSuspends = 1
  FailingSteps = {"subsystem", "shared", "resources"}
SPECIFICATION FairSpec
INVARIANTS
  TypeOK
  SharedDataAlive
  StartsOnce
  NotInstalledAfterTermination
  UnloadUndoesLoad
  AllOrNothing
PROPERTIES
  DriverCallsReturn
CHECK_DEADLOCK FALSE
