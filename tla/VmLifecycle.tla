---------------------------- MODULE VmLifecycle ----------------------------
(***************************************************************************)
(* Loading and unloading DeviceMon: the ladder of DriverEntry and its      *)
(* unwinding (driver.cpp), virtualizing and devirtualizing the processors  *)
(* (vm.cpp), and the two callbacks that do so behind the driver's back     *)
(* (power_callback.cpp, hotplug_callback.cpp).                             *)
(*                                                                         *)
(* Three threads may be inside vm.cpp at once: the one that loads or       *)
(* unloads the driver, the one that delivers power state changes and the   *)
(* one that delivers processor changes.  Nothing but the registration of   *)
(* the two callbacks orders them.  Each step below is what a thread does   *)
(* between two points where another one can be seen to interfere.          *)
(***************************************************************************)
EXTENDS Integers, FiniteSets

CONSTANTS
  NumCpus,      \* processors at boot are 0 .. NumCpus-1
  MaxCpus,      \* bound: processors there can be after some were added
  MaxLoads,     \* bound: how often the driver is loaded
  MaxSuspends,  \* bound: how often the system is suspended
  FailingSteps  \* which of the steps in Steps may fail

Steps == {"subsystem", "shared", "processor", "resources"}

ASSUME CpusAssumption ==
  /\ NumCpus \in Nat \ {0}
  /\ MaxCpus \in Nat /\ MaxCpus >= NumCpus

ASSUME BoundsAssumption ==
  /\ MaxLoads \in Nat
  /\ MaxSuspends \in Nat
  /\ FailingSteps \subseteq Steps

VARIABLES
  active,     \* how many processors are active
  owner,      \* owner[c]: the SharedProcessorData that the ProcessorData of c
              \* points to, NoBlock when c is not virtualized
  monitored,  \* processors whose EPT hides the devices
  blocks,     \* the state of each SharedProcessorData
  refs,       \* its reference_count
  thread,     \* where each thread is
  driver,     \* where the driver is in its life
  up,         \* how many subsystems of DriverEntry's ladder are initialized
  power,      \* "on", or the half of a suspend and resume under way
  loads, suspends,  \* counters for the bounds
  known,      \* history: processors there were when VmInitialization began last
  raced,      \* history: two threads were at work at the same time
  clash       \* history: a thread was starting processors while another one
              \* was inside vm.cpp, too

vars == <<active, owner, monitored, blocks, refs, thread, driver, up, power,
          loads, suspends, known, raced, clash>>

processors == <<owner, monitored>>
memory == <<blocks, refs>>
driverState == <<driver, up, loads>>
system == <<active, power, suspends>>

Cpus == 0 .. (MaxCpus - 1)
Active == 0 .. (active - 1)
Threads == {"driver", "power", "hotplug"}
Blocks == 1 .. (MaxLoads + MaxSuspends)
NoBlock == 0

Jobs == {"none", "init", "term", "hotplug"}
Pcs == {"idle", "check", "fetch", "start", "launch", "enable", "disable",
        "stop", "free", "assert"}

\* The ladder: log, global objects, performance, utilities, power callback,
\* hot-plug callback, and the processors as the last rung.
PowerRung == 5
HotplugRung == 6
VmRung == 7

\* job is the routine of vm.cpp the thread is in, cpu and last the state of
\* the loop of UtilForEachProcessor, block the shared or processor data it has.
NoJob == [job |-> "none", pc |-> "idle", cpu |-> 0, last |-> 0,
          block |-> NoBlock]

IsVirtualized(c) == owner[c] # NoBlock

Fails(step) == step \in FailingSteps

\* Each of the threads is somewhere between the start and the end of its work.
Busy(t) ==
  CASE t = "driver" -> driver \in {"entry", "unwind"}
    [] t = "power" -> power # "on" \/ thread["power"].pc # "idle"
    [] t = "hotplug" -> thread["hotplug"].pc # "idle"

Quiet == \A t \in Threads : ~Busy(t)

\* What the history variables look for.
TwoAtWork == \E t, o \in Threads : t # o /\ Busy(t) /\ Busy(o)

StartMeetsAnother ==
  \E t, o \in Threads : /\ t # o
                         /\ thread[t].job \in {"init", "hotplug"}
                         /\ thread[o].pc # "idle"
-----------------------------------------------------------------------------
(* Helpers of vm.cpp's routines.  A definition named Mut... is a slip of   *)
(* the definition after it, used by the mutants of PROJECT.json only.      *)

Goto(t, pc) == thread' = [thread EXCEPT ![t].pc = pc]

\* A loop of UtilForEachProcessor begins: the number of processors is read
\* once.
BeginLoop(t, job, pc, block) ==
  thread' = [thread EXCEPT ![t] =
    [job |-> job, pc |-> pc, cpu |-> 0, last |-> active - 1, block |-> block]]

MutNextCpu(t, pc) ==
  thread' = [thread EXCEPT ![t].pc = pc]

NextCpu(t, pc) ==
  thread' = [thread EXCEPT ![t].pc = pc, ![t].cpu = @ + 1]

AtLast(t) == thread[t].cpu = thread[t].last

\* A routine of vm.cpp returns.  DriverEntry goes on with its result;
\* PowerCallbackpCallbackRoutine and the hot-plug routine only log it.
Return(t, ok) ==
  /\ thread' = [thread EXCEPT ![t] = NoJob]
  /\ IF t # "driver" THEN UNCHANGED <<driver, up>>
     ELSE CASE thread[t].job = "term" -> up' = VmRung - 1 /\ driver' = driver
            [] thread[t].job = "init" ->
                 /\ up' = IF ok THEN VmRung ELSE up
                 /\ driver' = IF ok THEN "loaded" ELSE "unwind"
  /\ UNCHANGED loads

\* VmpFreeSharedData.
MutReleaseAlways(b) ==
  /\ refs' = [refs EXCEPT ![b] = @ - 1]
  /\ blocks' = [blocks EXCEPT ![b] = "freed"]
MutReleaseNever(b) ==
  /\ refs' = [refs EXCEPT ![b] = @ - 1]
  /\ UNCHANGED blocks

Release(b) ==
  /\ refs' = [refs EXCEPT ![b] = @ - 1]
  /\ blocks' = [blocks EXCEPT ![b] = IF refs[b] = 1 THEN "freed" ELSE @]

\* A start failed: VmInitialization stops all processors again, and
\* VmHotplugCallback returns the error.
StartFailed(t) ==
  IF thread[t].job = "hotplug" THEN Return(t, FALSE)
  ELSE /\ BeginLoop(t, "init", "stop", NoBlock)
       /\ UNCHANGED driverState
-----------------------------------------------------------------------------
(* VmInitialization, VmTermination and VmHotplugCallback.                  *)

\* VmpIsDeviceMonInstalled and VmpIsVmxAvailable look at the processor the
\* thread happens to be on; then VmpInitializeSharedData.
Check(t) ==
  /\ thread[t].pc = "check"
  /\ \E here \in Active :
       \/ /\ IsVirtualized(here) \/ Fails("shared")
          /\ Return(t, FALSE)
          /\ UNCHANGED blocks
       \/ /\ ~IsVirtualized(here)
          /\ \E b \in Blocks :
               /\ blocks[b] = "unused"
               /\ \A other \in Blocks : blocks[other] = "unused" => b <= other
               /\ blocks' = [blocks EXCEPT ![b] = "live"]
               /\ BeginLoop(t, "init", "start", b)
          /\ UNCHANGED driverState
  /\ UNCHANGED <<processors, refs, system>>

\* VmHotplugCallback asks for the shared data with a VMCALL.  Its affinity
\* mask names no processor, so the thread stays on any one.
Fetch(t) ==
  /\ thread[t].pc = "fetch"
  /\ \E here \in Active :
       IF IsVirtualized(here)
       THEN /\ thread' = [thread EXCEPT ![t].pc = "start",
                                        ![t].block = owner[here]]
            /\ UNCHANGED driverState
       ELSE Return(t, FALSE)
  /\ UNCHANGED <<processors, memory, system>>

\* VmpInitializeVm up to the reference it takes.
Start(t) ==
  /\ thread[t].pc = "start"
  /\ \/ /\ Fails("processor")
        /\ StartFailed(t)
        /\ UNCHANGED refs
     \/ /\ refs' = [refs EXCEPT ![thread[t].block] = @ + 1]
        /\ Goto(t, "launch")
        /\ UNCHANGED driverState
  /\ UNCHANGED <<processors, blocks, system>>

\* The rest of VmpInitializeVm.  On a virtualized processor VMXON exits to
\* the VMM, which fails it.
Launch(t) ==
  LET c == thread[t].cpu IN
  /\ thread[t].pc = "launch"
  /\ \/ /\ IsVirtualized(c) \/ Fails("resources")
        /\ Release(thread[t].block)
        /\ StartFailed(t)
        /\ UNCHANGED owner
     \/ /\ ~IsVirtualized(c)
        /\ owner' = [owner EXCEPT ![c] = thread[t].block]
        /\ IF thread[t].job = "hotplug" THEN Return(t, TRUE)
           ELSE /\ IF AtLast(t) THEN BeginLoop(t, "init", "enable", NoBlock)
                   ELSE NextCpu(t, "start")
                /\ UNCHANGED driverState
        /\ UNCHANGED memory
  /\ UNCHANGED <<monitored, system>>

\* DmEnableMonitor: the VMCALL raises #UD where no VMM is, and UtilVmCall
\* turns that into an error.
MutEnable(t) ==
  LET c == thread[t].cpu IN
  /\ thread[t].pc = "enable"
  /\ IF IsVirtualized(c)
     THEN /\ monitored' = monitored \union {c}
          /\ Return(t, TRUE)
     ELSE /\ StartFailed(t)
          /\ UNCHANGED monitored
  /\ UNCHANGED <<owner, memory, system>>

Enable(t) ==
  LET c == thread[t].cpu IN
  /\ thread[t].pc = "enable"
  /\ IF IsVirtualized(c)
     THEN /\ monitored' = monitored \union {c}
          /\ IF AtLast(t) THEN Return(t, TRUE)
             ELSE NextCpu(t, "enable") /\ UNCHANGED driverState
     ELSE /\ StartFailed(t)
          /\ UNCHANGED monitored
  /\ UNCHANGED <<owner, memory, system>>

\* DmDisableMonitor, whose result VmTermination ignores.
MutDisable(t) ==
  /\ thread[t].pc = "disable"
  /\ IF IsVirtualized(thread[t].cpu)
     THEN /\ monitored' = monitored \ {thread[t].cpu}
          /\ Goto(t, "disable")
     ELSE /\ BeginLoop(t, "term", "stop", NoBlock)
          /\ UNCHANGED monitored
  /\ UNCHANGED <<owner, memory, driverState, system>>

Disable(t) ==
  LET c == thread[t].cpu IN
  /\ thread[t].pc = "disable"
  /\ IF IsVirtualized(c)
     THEN /\ monitored' = monitored \ {c}
          /\ IF AtLast(t) THEN BeginLoop(t, "term", "stop", NoBlock)
             ELSE NextCpu(t, "disable")
     ELSE /\ BeginLoop(t, "term", "stop", NoBlock)
          /\ UNCHANGED monitored
  /\ UNCHANGED <<owner, memory, driverState, system>>

\* UtilForEachProcessor(VmpStopVm) is over, one way or the other.
StopOver(t) ==
  IF thread[t].job = "init" THEN Return(t, FALSE)
  ELSE Goto(t, "assert") /\ UNCHANGED driverState

\* VmpStopVm: the VMCALL leaves VMX operation; it fails on a processor that
\* is not virtualized, which ends the loop.
Stop(t) ==
  LET c == thread[t].cpu IN
  /\ thread[t].pc = "stop"
  /\ IF IsVirtualized(c)
     THEN /\ owner' = [owner EXCEPT ![c] = NoBlock]
          /\ monitored' = monitored \ {c}
          /\ thread' = [thread EXCEPT ![t].pc = "free", ![t].block = owner[c]]
          /\ UNCHANGED driverState
     ELSE /\ StopOver(t)
          /\ UNCHANGED processors
  /\ UNCHANGED <<memory, system>>

\* VmpFreeProcessorData.
MutFree(t) ==
  /\ thread[t].pc = "free"
  /\ Release(thread[t].block)
  /\ IF thread[t].cpu + 1 >= thread[t].last THEN StopOver(t)
     ELSE NextCpu(t, "stop") /\ UNCHANGED driverState
  /\ UNCHANGED <<processors, system>>

Free(t) ==
  /\ thread[t].pc = "free"
  /\ Release(thread[t].block)
  /\ IF AtLast(t) THEN StopOver(t)
     ELSE NextCpu(t, "stop") /\ UNCHANGED driverState
  /\ UNCHANGED <<processors, system>>

\* NT_ASSERT(!VmpIsDeviceMonInstalled()) at the end of VmTermination.
Assert(t) ==
  /\ thread[t].pc = "assert"
  /\ Return(t, TRUE)
  /\ UNCHANGED <<processors, memory, system>>
-----------------------------------------------------------------------------
(* The driver's thread.                                                    *)

Load ==
  /\ driver = "absent" /\ loads < MaxLoads
  /\ driver' = "entry"
  /\ loads' = loads + 1
  /\ UNCHANGED <<processors, memory, thread, up, system>>

\* DriverEntry up to the hot-plug callback.
InitializeSubsystem ==
  /\ driver = "entry" /\ up < VmRung - 1
  /\ \/ up' = up + 1 /\ UNCHANGED driver
     \/ /\ Fails("subsystem")
        /\ driver' = IF up = 0 THEN "absent" ELSE "unwind"
        /\ UNCHANGED up
  /\ UNCHANGED <<processors, memory, thread, loads, system>>

CallVmInitialization ==
  /\ driver = "entry" /\ up = VmRung - 1
  /\ thread["driver"].pc = "idle"
  /\ thread' = [thread EXCEPT !["driver"].job = "init", !["driver"].pc = "check"]
  /\ UNCHANGED <<processors, memory, driverState, system>>

\* DriverpDriverUnload begins with VmTermination.
Unload ==
  /\ driver = "loaded"
  /\ driver' = "unwind"
  /\ BeginLoop("driver", "term", "disable", NoBlock)
  /\ UNCHANGED <<processors, memory, up, loads, system>>

\* The subsystems are terminated in reverse order.  Unregistering a callback
\* waits until it is not running.
MutTerminateSubsystem ==
  /\ driver = "unwind" /\ thread["driver"].pc = "idle" /\ up < VmRung
  /\ up = HotplugRung => thread["hotplug"].pc = "idle"
  /\ up = PowerRung => thread["power"].pc = "idle"
  /\ up' = up - 1
  /\ driver' = IF up = 0 THEN "absent" ELSE driver
  /\ UNCHANGED <<processors, memory, thread, loads, system>>

TerminateSubsystem ==
  /\ driver = "unwind" /\ thread["driver"].pc = "idle" /\ up < VmRung
  /\ up = HotplugRung => thread["hotplug"].pc = "idle"
  /\ up = PowerRung => thread["power"].pc = "idle"
  /\ up' = up - 1
  /\ driver' = IF up = 1 THEN "absent" ELSE driver
  /\ UNCHANGED <<processors, memory, thread, loads, system>>
-----------------------------------------------------------------------------
(* Power and processor changes.                                            *)

\* PO_CB_SYSTEM_STATE_LOCK, about to leave S0.
Suspend ==
  /\ power = "on" /\ thread["power"].pc = "idle"
  /\ suspends < MaxSuspends /\ up >= PowerRung
  /\ power' = "suspending"
  /\ suspends' = suspends + 1
  /\ BeginLoop("power", "term", "disable", NoBlock)
  /\ UNCHANGED <<processors, memory, driverState, active>>

\* The system sleeps and wakes; a processor loses VMX operation on the way.
Sleep ==
  /\ power = "suspending" /\ thread["power"].pc = "idle"
  /\ power' = "resuming"
  /\ owner' = [c \in Cpus |-> NoBlock]
  /\ monitored' = {}
  /\ UNCHANGED <<memory, thread, driverState, active, suspends>>

\* PO_CB_SYSTEM_STATE_LOCK, back in S0.
Resume ==
  /\ power = "resuming"
  /\ power' = "on"
  /\ thread' = IF up >= PowerRung
               THEN [thread EXCEPT !["power"].job = "init",
                                   !["power"].pc = "check"]
               ELSE thread
  /\ UNCHANGED <<processors, memory, driverState, active, suspends>>

\* A processor becomes active, and KeProcessorAddCompleteNotify is delivered
\* when the callback is registered.
AddProcessor ==
  /\ active < MaxCpus /\ thread["hotplug"].pc = "idle"
  /\ active' = active + 1
  /\ IF up >= HotplugRung
     THEN thread' = [thread EXCEPT !["hotplug"] =
            [job |-> "hotplug", pc |-> "fetch", cpu |-> active,
             last |-> active, block |-> NoBlock]]
     ELSE UNCHANGED thread
  /\ UNCHANGED <<processors, memory, driverState, power, suspends>>

Init ==
  /\ active = NumCpus
  /\ owner = [c \in Cpus |-> NoBlock]
  /\ monitored = {}
  /\ blocks = [b \in Blocks |-> "unused"]
  /\ refs = [b \in Blocks |-> 0]
  /\ thread = [t \in Threads |-> NoJob]
  /\ driver = "absent"
  /\ up = 0
  /\ power = "on"
  /\ loads = 0 /\ suspends = 0
  /\ known = NumCpus
  /\ raced = FALSE /\ clash = FALSE

Step(t) ==
  \/ Check(t) \/ Fetch(t) \/ Start(t) \/ Launch(t) \/ Enable(t)
  \/ Disable(t) \/ Stop(t) \/ Free(t) \/ Assert(t)

DriverStep == InitializeSubsystem \/ CallVmInitialization \/ TerminateSubsystem
PowerStep == Sleep \/ Resume

\* The history variables follow every step.
History ==
  /\ known' = IF \E t \in Threads : thread[t].pc = "check" /\ thread'[t].pc = "start"
              THEN active ELSE known
  /\ raced' = (raced \/ TwoAtWork')
  /\ clash' = (clash \/ StartMeetsAnother')

Next ==
  \/ \E t \in Threads : Step(t) /\ History
  \/ Load /\ History
  \/ DriverStep /\ History
  \/ Unload /\ History
  \/ Suspend /\ History
  \/ PowerStep /\ History
  \/ AddProcessor /\ History

Spec == Init /\ [][Next]_vars

\* Every thread keeps running: the scheduler starves none of them.  Nobody
\* has to load or unload the driver, suspend the system or add a processor.
Fairness ==
  /\ \A t \in Threads : WF_vars(Step(t) /\ History)
  /\ WF_vars(DriverStep /\ History)
  /\ WF_vars(PowerStep /\ History)

FairSpec == Spec /\ Fairness
-----------------------------------------------------------------------------
(* Properties.                                                             *)

\* Every variable has its type; a reference count is never negative.
TypeOK ==
  /\ active \in NumCpus .. MaxCpus
  /\ owner \in [Cpus -> Blocks \union {NoBlock}]
  /\ monitored \subseteq Cpus
  /\ blocks \in [Blocks -> {"unused", "live", "freed"}]
  /\ refs \in [Blocks -> Nat]
  /\ thread \in [Threads -> [job : Jobs, pc : Pcs, cpu : Cpus, last : Cpus,
                             block : Blocks \union {NoBlock}]]
  /\ driver \in {"absent", "entry", "loaded", "unwind"}
  /\ up \in 0 .. VmRung
  /\ power \in {"on", "suspending", "resuming"}
  /\ loads \in 0 .. MaxLoads
  /\ suspends \in 0 .. MaxSuspends
  /\ known \in NumCpus .. MaxCpus
  /\ raced \in BOOLEAN /\ clash \in BOOLEAN

\* Threads that will still use block b.
Users(b) ==
  {t \in Threads : thread[t].pc \in {"start", "launch", "free"}
                   /\ thread[t].block = b}

\* VmpFreeSharedData frees the shared data with the last reference: whoever
\* has it, a processor or a thread on its way to give it to one, has it
\* alive.  Unloading and suspending may overlap as they like; starting
\* processors must not overlap with anything, because VmInitialization and
\* VmHotplugCallback hold the shared data without a reference.
SharedDataAlive ==
  ~clash =>
    \A b \in Blocks :
      (\E c \in Cpus : owner[c] = b) \/ Users(b) # {} => blocks[b] = "live"

\* vm.cpp:356 asserts that a processor is virtualized after VmpStartVm exactly
\* if the start succeeded: no start meets a processor that is virtualized
\* already, as long as only one thread at a time is inside.
StartsOnce ==
  ~raced =>
    \A t \in Threads : thread[t].pc = "launch" => ~IsVirtualized(thread[t].cpu)

\* vm.cpp:954 asserts that the VMM is gone at the end of VmTermination, on
\* whatever processor the thread is then, as long as only one thread at a
\* time is inside.
NotInstalledAfterTermination ==
  ~raced =>
    \A t \in Threads : thread[t].pc = "assert" =>
      \A c \in Active : ~IsVirtualized(c)

\* A driver that is not loaded, because DriverEntry failed at any rung or
\* because it was unloaded, leaves no processor virtualized and no shared
\* data behind.
UnloadUndoesLoad ==
  ~raced /\ driver = "absent" =>
    /\ \A c \in Cpus : ~IsVirtualized(c)
    /\ \A b \in Blocks : blocks[b] # "live"

\* VmInitialization virtualizes and monitors all processors or none: while
\* nothing is under way, either every processor there was when it began is
\* virtualized and monitored, those added since the boot or since an earlier
\* start included, or no processor is virtualized.  What VmHotplugCallback
\* virtualizes is not monitored before the next resume (vm.cpp:1074).
AllOrNothing ==
  ~raced /\ Quiet =>
    \/ \A c \in Cpus : ~IsVirtualized(c)
    \/ \A c \in 0 .. (known - 1) : IsVirtualized(c) /\ c \in monitored

\* DriverEntry and DriverpDriverUnload return, however often callbacks run:
\* unregistering a callback does not wait for ever.
DriverCallsReturn ==
  driver \in {"entry", "unwind"} ~> driver \in {"absent", "loaded"}
=============================================================================
