\* Three instructions of every kind, in every order.
CONSTANTS
  Instructions <- AllInstructions
  Configurations <- BuildsAndMachines
  MaxSteps = 3
  None = None
SPECIFICATION Spec
INVARIANTS
  TypeOK
  TranslationsAreCurrent
PROPERTIES
  ImplementsGuestProcessor
CHECK_DEADLOCK FALSE
