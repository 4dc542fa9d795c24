\* The thread logs twice, the processor once; buffers of one message overflow;
\* the holder of the lock is interrupted too.
CONSTANTS
  t1 = t1
  h1 = h1
  Threads = {t1}
  Handlers = {h1}
  flusher = flusher
  unloader = unloader
  None = None
  Capacity = 1
  MaxMessages <- Two
  InterruptsTouchDevices = TRUE
SPECIFICATION FairSpec
INVARIANTS
  TypeOK
  NothingLost
  FileOrder
  OwedWritten
  NoUseAfterFree
PROPERTIES
  LoggersReturn
  Drained
  LogTerminationReturns
CHECK_DEADLOCK FALSE
