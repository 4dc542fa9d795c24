\* LogTermination between the test of the flag and the assertion.
CONSTANTS
  t1 = t1
  h1 = h1
  Threads = {t1}
  Handlers = {h1}
  flusher = flusher
  unloader = unloader
  None = None
  Capacity = 1
  MaxMessages <- Two
  InterruptsTouchDevices = TRUE
SPECIFICATION Spec
INVARIANTS
  FlushThreadActivated
CHECK_DEADLOCK FALSE
