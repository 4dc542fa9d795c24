----------------------------- MODULE LogBuffer -----------------------------
(***************************************************************************)
(* The log of log.cpp: two buffers under a spin lock, a flush thread and   *)
(* direct writes to the file under an ERESOURCE, activation of the file    *)
(* after boot and LogTermination.  Threads log at any IRQL; VM-exit        *)
(* handlers interrupt whatever the guest is doing on their processor and   *)
(* log in VMX root mode.  DbgPrint and the text of messages are left out.  *)
(***************************************************************************)
EXTENDS Integers, Sequences

CONSTANTS
  Threads,      \* threads of the driver that log
  Handlers,     \* processors in VMX root mode that log
  flusher,      \* the thread of LogpBufferFlushThreadRoutine
  unloader,     \* the thread that calls LogTermination
  None,
  Capacity,     \* messages that fit in a buffer
  MaxMessages,  \* bound: messages of each context
  InterruptsTouchDevices \* interrupt handlers of the guest cause VM exits

Guests == Threads \union {flusher, unloader}
Contexts == Guests \union Handlers

ASSUME ContextsAssumption ==
  /\ flusher \notin Threads \union Handlers
  /\ unloader \notin Threads \union Handlers \union {flusher}
  /\ Threads \intersect Handlers = {}
  /\ None \notin Contexts

ASSUME BoundsAssumption ==
  /\ Capacity \in Nat \ {0}
  /\ MaxMessages \in [Contexts -> Nat]
  /\ InterruptsTouchDevices \in BOOLEAN

Messages == UNION {[by : {c}, n : 1 .. MaxMessages[c]] : c \in Contexts}

ASSUME NoneAssumption == None \notin Messages

VARIABLES
  head,       \* which buffer log_buffer_head is
  buffer,     \* the entries of log_buffer1 and log_buffer2
  spinLock,   \* who holds spin_lock
  resource,   \* who holds resource exclusively
  written,    \* entries of the old buffer the holder of resource has written
  file,       \* the log file
  fileOpen,   \* log_file_handle
  alive,      \* buffer_flush_thread_should_be_alive
  activation, \* how far LogpInitializeLogFile is
  closing,    \* how far LogTermination is
  pc, cur,    \* of each context: where it is and the message it logs
  over,       \* the guest context a handler has interrupted
  count,      \* counter for MaxMessages
  returned, dropped, \* history: messages whose LogpPut is over; those it did not log
  before,     \* history: the messages returned before a message was begun
  owed        \* history: the messages returned before LogTermination

buffers == <<head, buffer, written>>
locks == <<spinLock, resource>>
life == <<alive, fileOpen, activation, closing>>
history == <<returned, dropped, before, owed>>
vars == <<buffers, locks, life, file, pc, cur, over, count, history>>

Other(b) == 3 - b
Old == buffer[Other(head)]
Resting == {"idle", "loop", "none", "exited"}

\* A handler runs with its guest context stopped.
Stopped(c) == \E h \in Handlers : over[h] = c
Goto(c, label) == pc' = [pc EXCEPT ![c] = label]

\* What each context goes back to when a call of LogpPrint is over.
Rest(c) == IF c = flusher THEN "loop" ELSE "idle"

Return(c) ==
  /\ Goto(c, Rest(c))
  /\ cur' = [cur EXCEPT ![c] = None]
  /\ over' = IF c \in Handlers THEN [over EXCEPT ![c] = None] ELSE over
  /\ returned' = returned \union {cur[c]}
-----------------------------------------------------------------------------
(* LogpPrint and LogpPut.                                                  *)

\* A new message of context c.
Begin(c) ==
  LET m == [by |-> c, n |-> count[c] + 1] IN
  /\ count[c] < MaxMessages[c]
  /\ count' = [count EXCEPT ![c] = @ + 1]
  /\ Goto(c, "put")
  /\ cur' = [cur EXCEPT ![c] = m]
  /\ before' = [before EXCEPT ![m] = returned]

ThreadLogs(c) ==
  /\ c \in Threads
  /\ pc[c] = "idle" /\ ~Stopped(c) /\ closing = "no"
  /\ Begin(c)
  /\ UNCHANGED <<buffers, locks, life, file, over, returned, dropped, owed>>

\* VmmVmExitHandler on the processor where c runs.  At spin_lock's IRQL only
\* the interrupt of a monitored device leads there.
HandlerLogs(h, c) ==
  /\ h \in Handlers /\ pc[h] = "idle" /\ closing = "no"
  /\ pc[c] \notin {"none", "exited"} /\ ~Stopped(c)
  /\ spinLock = c => InterruptsTouchDevices
  /\ Begin(h)
  /\ over' = [over EXCEPT ![h] = c]
  /\ UNCHANGED <<buffers, locks, life, file, returned, dropped, owed>>

\* Handlers run at DISPATCH_LEVEL, the flush thread and the unloading thread
\* at PASSIVE_LEVEL.
CanBePassive(c) == c \notin Handlers
CanBeRaised(c) == c \in Threads \union Handlers

MutToFile(c) ==
  /\ pc[c] = "put" /\ ~Stopped(c)
  /\ CanBePassive(c) /\ alive
  /\ Goto(c, "write")
  /\ UNCHANGED <<buffers, locks, life, file, cur, over, count, history>>

ToFile(c) ==
  /\ pc[c] = "put" /\ ~Stopped(c)
  /\ CanBePassive(c) /\ alive
  /\ Goto(c, "resource")
  /\ UNCHANGED <<buffers, locks, life, file, cur, over, count, history>>

\* KeAreAllApcsDisabled: the message goes to neither the file nor a buffer.
ApcsDisabled(c) ==
  /\ c \in Threads /\ pc[c] = "put" /\ ~Stopped(c) /\ alive
  /\ dropped' = dropped \union {cur[c]}
  /\ Return(c)
  /\ UNCHANGED <<buffers, locks, life, file, count, before, owed>>

ToBuffer(c) ==
  /\ pc[c] = "put" /\ ~Stopped(c)
  /\ CanBeRaised(c) \/ ~alive
  /\ Goto(c, "buffer")
  /\ UNCHANGED <<buffers, locks, life, file, cur, over, count, history>>

MutFits == Len(buffer[head]) <= Capacity
Fits == Len(buffer[head]) < Capacity

\* LogpBufferMessage; the message is copied only if it fits.
LogpBufferMessage(c) ==
  /\ pc[c] = "buffer" /\ ~Stopped(c) /\ spinLock = None
  /\ spinLock' = c
  /\ IF Fits
     THEN /\ buffer' = [buffer EXCEPT ![head] = Append(@, cur[c])]
          /\ UNCHANGED dropped
     ELSE /\ dropped' = dropped \union {cur[c]}
          /\ UNCHANGED buffer
  /\ Goto(c, "buffered")
  /\ UNCHANGED <<head, written, resource, life, file, cur, over, count,
                 returned, before, owed>>

Buffered(c) ==
  /\ pc[c] = "buffered" /\ ~Stopped(c)
  /\ spinLock' = None
  /\ Return(c)
  /\ UNCHANGED <<buffers, resource, life, file, count, dropped, before, owed>>
-----------------------------------------------------------------------------
(* LogpFlushLogBuffer and LogpWriteMessageToFile.                          *)

AcquireResource(c) ==
  /\ pc[c] = "resource" /\ ~Stopped(c) /\ resource = None
  /\ resource' = c
  /\ Goto(c, "swap")
  /\ UNCHANGED <<buffers, spinLock, life, file, cur, over, count, history>>

MutSwap(c) ==
  /\ pc[c] = "swap" /\ ~Stopped(c) /\ spinLock = None
  /\ spinLock' = c
  /\ head' = 2
  /\ buffer' = [buffer EXCEPT ![2] = <<>>]
  /\ written' = 0
  /\ Goto(c, "swapped")
  /\ UNCHANGED <<resource, life, file, cur, over, count, history>>

Swap(c) ==
  /\ pc[c] = "swap" /\ ~Stopped(c) /\ spinLock = None
  /\ spinLock' = c
  /\ head' = Other(head)
  /\ buffer' = [buffer EXCEPT ![Other(head)] = <<>>]
  /\ written' = 0
  /\ Goto(c, "swapped")
  /\ UNCHANGED <<resource, life, file, cur, over, count, history>>

Swapped(c) ==
  /\ pc[c] = "swapped" /\ ~Stopped(c)
  /\ spinLock' = None
  /\ Goto(c, "flush")
  /\ UNCHANGED <<buffers, resource, life, file, cur, over, count, history>>

\* ZwWriteFile; its failure is ignored.
ToFileIfOpen(m) == file' = IF fileOpen THEN Append(file, m) ELSE file

WriteEntry(c) ==
  /\ pc[c] = "flush" /\ ~Stopped(c) /\ written < Len(Old)
  /\ ToFileIfOpen(Old[written + 1])
  /\ written' = written + 1
  /\ UNCHANGED <<head, buffer, locks, life, pc, cur, over, count, history>>

MutFlushed(c) ==
  /\ pc[c] = "flush" /\ ~Stopped(c) /\ written = Len(Old)
  /\ buffer' = [buffer EXCEPT ![Other(head)] = <<>>]
  /\ written' = 0
  /\ resource' = IF cur[c] = None THEN None ELSE resource
  /\ Goto(c, IF cur[c] = None THEN "loop" ELSE "write")
  /\ UNCHANGED <<head, spinLock, life, file, cur, over, count, history>>

\* The flush thread flushes for no message.
Flushed(c) ==
  /\ pc[c] = "flush" /\ ~Stopped(c) /\ written = Len(Old)
  /\ buffer' = [buffer EXCEPT ![Other(head)] = <<>>]
  /\ written' = 0
  /\ resource' = None
  /\ Goto(c, IF cur[c] = None THEN "loop" ELSE "write")
  /\ UNCHANGED <<head, spinLock, life, file, cur, over, count, history>>

LogpWriteMessageToFile(c) ==
  /\ pc[c] = "write" /\ ~Stopped(c)
  /\ ToFileIfOpen(cur[c])
  /\ dropped' = IF fileOpen THEN dropped ELSE dropped \union {cur[c]}
  /\ Return(c)
  /\ UNCHANGED <<buffers, locks, life, count, before, owed>>
-----------------------------------------------------------------------------
(* LogpInitializeLogFile, called from LogInitialization, before anybody    *)
(* else logs, or from LogpReinitializationRoutine.  If ZwCreateFile fails  *)
(* everything stays as it was.                                             *)

OpenFile ==
  /\ activation = "none" /\ closing = "no"
  /\ fileOpen' = TRUE
  /\ activation' = "opened"
  /\ UNCHANGED <<buffers, locks, alive, closing, file, pc, cur, over, count, history>>

SetAlive ==
  /\ activation = "opened"
  /\ alive' = TRUE
  /\ activation' = "alive"
  /\ UNCHANGED <<buffers, locks, fileOpen, closing, file, pc, cur, over, count, history>>

CreateThread ==
  /\ activation = "alive"
  /\ activation' = "done"
  /\ Goto(flusher, "started")
  /\ UNCHANGED <<buffers, locks, alive, fileOpen, closing, file, cur, over, count, history>>

CreateThreadFails ==
  /\ activation = "alive"
  /\ activation' = "failed"
  /\ fileOpen' = FALSE
  /\ alive' = FALSE
  /\ UNCHANGED <<buffers, locks, closing, file, pc, cur, over, count, history>>
-----------------------------------------------------------------------------
(* LogpBufferFlushThreadRoutine.                                           *)

\* "Log thread started", unless LogTermination has switched the log off.
FlusherStarts ==
  /\ pc[flusher] = "started" /\ ~Stopped(flusher)
  /\ IF closing \in {"no", "bye"}
     THEN Begin(flusher)
     ELSE Goto(flusher, "loop") /\ UNCHANGED <<cur, count, before>>
  /\ UNCHANGED <<buffers, locks, life, file, over, returned, dropped, owed>>

FlusherLoops ==
  /\ pc[flusher] = "loop" /\ ~Stopped(flusher)
  /\ Goto(flusher, IF alive THEN "assert" ELSE "exited")
  /\ UNCHANGED <<buffers, locks, life, file, cur, over, count, history>>

MutFlusherLooks ==
  /\ pc[flusher] = "assert" /\ ~Stopped(flusher)
  /\ Goto(flusher, IF Old # <<>> THEN "resource" ELSE "loop")
  /\ UNCHANGED <<buffers, locks, life, file, cur, over, count, history>>

FlusherLooks ==
  /\ pc[flusher] = "assert" /\ ~Stopped(flusher)
  /\ Goto(flusher, IF buffer[head] # <<>> THEN "resource" ELSE "loop")
  /\ UNCHANGED <<buffers, locks, life, file, cur, over, count, history>>
-----------------------------------------------------------------------------
(* LogTermination, which DriverEntry and DriverpDriverUnload call last:    *)
(* callbacks are unregistered and processors no longer virtualized.        *)

LogTermination ==
  /\ closing = "no" /\ activation \in {"none", "done", "failed"}
  /\ \A c \in Contexts \ {flusher} : pc[c] = "idle"
  /\ closing' = "bye"
  /\ owed' = returned
  /\ Begin(unloader)
  /\ UNCHANGED <<buffers, locks, alive, fileOpen, activation, file, over,
                 returned, dropped>>

\* "Bye!" is logged: kLogPutLevelDisable, then the flush thread is told to end.
MutStopFlusher ==
  /\ closing = "bye" /\ pc[unloader] = "idle"
  /\ closing' = "stop"
  /\ UNCHANGED alive
  /\ UNCHANGED <<buffers, locks, fileOpen, activation, file, pc, cur, over, count, history>>

StopFlusher ==
  /\ closing = "bye" /\ pc[unloader] = "idle"
  /\ closing' = "stop"
  /\ alive' = FALSE
  /\ UNCHANGED <<buffers, locks, fileOpen, activation, file, pc, cur, over, count, history>>

MutFreeBuffers ==
  /\ closing = "stop"
  /\ closing' = "freed"
  /\ fileOpen' = FALSE
  /\ UNCHANGED <<buffers, locks, alive, activation, file, pc, cur, over, count, history>>

\* After ZwWaitForSingleObject.
FreeBuffers ==
  /\ closing = "stop" /\ pc[flusher] \in {"none", "exited"}
  /\ closing' = "freed"
  /\ fileOpen' = FALSE
  /\ UNCHANGED <<buffers, locks, alive, activation, file, pc, cur, over, count, history>>
-----------------------------------------------------------------------------
\* LogInitialization has opened the file, or left that to the
\* reinitialization because the file system is not there yet.
Init ==
  /\ head = 1 /\ buffer = [b \in {1, 2} |-> <<>>] /\ written = 0
  /\ spinLock = None /\ resource = None
  /\ file = <<>>
  /\ closing = "no"
  /\ activation \in {"none", "done"}
  /\ alive = (activation = "done") /\ fileOpen = alive
  /\ pc = [c \in Contexts |->
             IF c # flusher THEN "idle" ELSE IF alive THEN "started" ELSE "none"]
  /\ cur = [c \in Contexts |-> None]
  /\ over = [h \in Handlers |-> None]
  /\ count = [c \in Contexts |-> 0]
  /\ returned = {} /\ dropped = {} /\ owed = {}
  /\ before = [m \in Messages |-> {}]

\* What a context does by itself once it has begun to log.
Continue(c) ==
  \/ ToFile(c) \/ ApcsDisabled(c) \/ ToBuffer(c)
  \/ LogpBufferMessage(c) \/ Buffered(c)
  \/ AcquireResource(c) \/ Swap(c) \/ Swapped(c) \/ WriteEntry(c) \/ Flushed(c)
  \/ LogpWriteMessageToFile(c)

Flush == FlusherStarts \/ FlusherLoops \/ FlusherLooks
Activate == OpenFile \/ SetAlive \/ CreateThread \/ CreateThreadFails
Terminate == LogTermination \/ StopFlusher \/ FreeBuffers

Next ==
  \/ \E c \in Threads : ThreadLogs(c)
  \/ \E h \in Handlers, c \in Guests : HandlerLogs(h, c)
  \/ \E c \in Contexts : Continue(c)
  \/ Flush \/ Activate \/ Terminate

Spec == Init /\ [][Next]_vars

\* Processors and threads are scheduled.  Nobody has to log or to unload.
FairSpec ==
  /\ Spec
  /\ \A c \in Contexts : WF_vars(Continue(c))
  /\ WF_vars(Flush)
  /\ WF_vars(SetAlive \/ CreateThread \/ CreateThreadFails)
  /\ WF_vars(StopFlusher \/ FreeBuffers)
-----------------------------------------------------------------------------
(* Properties.                                                             *)

Labels == Resting \union {"put", "buffer", "buffered", "resource", "swap",
  "swapped", "flush", "write", "started", "assert"}

\* Every variable has its type; no buffer holds more than fits in it.
TypeOK ==
  /\ head \in {1, 2} /\ written \in 0 .. Capacity
  /\ buffer \in [{1, 2} -> Seq(Messages)] /\ \A b \in {1, 2} : Len(buffer[b]) <= Capacity
  /\ spinLock \in Contexts \union {None} /\ resource \in Guests \union {None}
  /\ file \in Seq(Messages)
  /\ fileOpen \in BOOLEAN /\ alive \in BOOLEAN
  /\ activation \in {"none", "opened", "alive", "done", "failed"}
  /\ closing \in {"no", "bye", "stop", "freed"}
  /\ pc \in [Contexts -> Labels]
  /\ cur \in [Contexts -> Messages \union {None}]
  /\ over \in [Handlers -> Guests \union {None}]
  /\ count \in [Contexts -> Nat]
  /\ \A set \in {returned, dropped, owed} : set \subseteq Messages
  /\ before \in [Messages -> SUBSET Messages]

InFile(m) == \E i \in 1 .. Len(file) : file[i] = m
Pending(m) ==
  \/ \E i \in 1 .. Len(buffer[head]) : buffer[head][i] = m
  \/ \E i \in written + 1 .. Len(Old) : Old[i] = m

\* A message whose LogpPut returned, other than one dropped for want of room or
\* because APCs are disabled, is in the file or on its way there, whoever swapped
\* and wrote the buffers meanwhile (LogpFlushLogBuffer), and in one place only.
NothingLost ==
  activation # "failed" /\ closing # "freed" =>
    \A m \in returned \ dropped : InFile(m) # Pending(m)

\* The file has the messages in their order in time: one that was over when
\* another began (log.cpp:569 flushes before a direct write) comes before it.
FileOrder ==
  activation # "failed" =>
    \A i \in 1 .. Len(file) : \A m \in before[file[i]] \ dropped :
      \E j \in 1 .. i - 1 : file[j] = m

\* What was logged before LogTermination is in the file when it returns,
\* though the flush thread ends without a last flush (log.cpp:771).
OwedWritten ==
  closing = "freed" /\ activation = "done" => \A m \in owed \ dropped : InFile(m)

\* When LogpFinalizeBufferInfo frees the buffers and the resource nobody uses
\* them or is about to.
NoUseAfterFree ==
  closing = "freed" =>
    /\ \A c \in Contexts : pc[c] \in Resting
    /\ spinLock = None /\ resource = None

\* A handler waits in VMX root mode for the lock its own guest holds.
SelfLocked == \E h \in Handlers : pc[h] = "buffer" /\ over[h] # None /\ spinLock = over[h]

\* LogpPrint returns, and the flush thread finishes its pass, unless a handler
\* has interrupted the holder of spin_lock and logs itself.
LoggersReturn ==
  \A c \in Contexts : pc[c] \notin Resting ~> pc[c] \in Resting \/ SelfLocked

\* Once the file is active, what waits in a buffer gets there by the flush
\* thread alone, if nobody logs any more.
Drained ==
  \A m \in Messages :
    activation = "done" /\ m.by # flusher /\ m \in returned \ dropped
      ~> InFile(m) \/ SelfLocked

\* LogTermination returns: the flush thread ends when it is told to.
LogTerminationReturns == closing = "bye" ~> closing = "freed"

\* log.cpp:772 asserts in the loop of the flush thread that the log file is
\* activated.
FlushThreadActivated == pc[flusher] = "assert" => alive
=============================================================================
