--------------------------- MODULE VmSerial_proofs ---------------------------
(***************************************************************************)
(* Proofs about VmLifecycle as long as only one thread is at work, for     *)
(* every number of processors, loads and suspends, when no more than one   *)
(* processor is added: which processors each routine of vm.cpp finds       *)
(* virtualized and leaves virtualized.                                     *)
(***************************************************************************)
EXTENDS VmLifecycle_proofs

\* With a second one VmTermination may stop too early, see NotInstalledAfterTermination.
OneIsAdded == MaxCpus <= NumCpus + 1

NoneVirtualized == \A c \in Cpus : ~IsVirtualized(c)
Below(n) == \A c \in Cpus : IsVirtualized(c) <=> c < n

\* What is virtualized begins at n, without a gap.
From(n) ==
  \A c \in Cpus : IsVirtualized(c) =>
    n <= c /\ c < active /\ \A d \in n .. c : IsVirtualized(d)

Monitored(n) == \A c \in Cpus : c < n => c \in monitored

\* Where VmInitialization, VmTermination and VmHotplugCallback are when they
\* are the only ones.
LoopOK(w) ==
  /\ w.pc \in {"start", "launch"} =>
       /\ Below(w.cpu)
       /\ w.job = "init" => known = active
       /\ w.job = "hotplug" => w.cpu = active - 1 /\ known = active - 1 /\ Monitored(known)
  /\ w.pc = "enable" => known = active /\ Below(active) /\ Monitored(w.cpu)
  /\ w.pc = "disable" => From(0)
  /\ w.pc = "stop" => From(w.cpu)
  /\ w.pc = "free" => From(w.cpu + 1)
  /\ w.pc \in {"start", "launch", "enable", "disable", "stop", "free"} => w.last = active - 1

PhaseOK(w) ==
  /\ LoopOK(w)
  /\ w.pc \in {"check", "assert"} => NoneVirtualized
  /\ w.pc = "fetch" =>
       /\ w.cpu = active - 1 /\ w.last = active - 1 /\ known = active - 1
       /\ NoneVirtualized \/ (Below(known) /\ Monitored(known))

\* Nobody is inside vm.cpp.
Settled ==
  NoneVirtualized \/ ((Below(known) \/ Below(active)) /\ Monitored(known))

\* Where a thread is in each routine.
Allowed(w) ==
  /\ w.job = "hotplug" => w.pc \in {"fetch", "start", "launch"}
  /\ w.job = "term" => w.pc \in {"disable", "stop", "free", "assert"}
  /\ w.job = "init" => w.pc \in {"check", "start", "launch", "enable", "stop", "free"}
  /\ w.job = "none" => w.pc = "idle"

\* Which thread runs which routine, whoever else is at work.
DriverJobOK ==
  /\ thread["driver"].pc # "idle" =>
       /\ thread["driver"].job \in {"init", "term"}
       /\ driver = IF thread["driver"].job = "term" THEN "unwind" ELSE "entry"
  /\ thread["driver"].job = "term" => up = VmRung
  /\ thread["driver"].pc = "idle" /\ driver # "loaded" => up < VmRung
  /\ driver = "loaded" => up = VmRung
  /\ driver = "absent" => up = 0
PowerJobOK ==
  /\ thread["power"].pc # "idle" =>
       thread["power"].job = IF power = "suspending" THEN "term" ELSE "init"
  /\ power = "resuming" => thread["power"].pc = "idle"
HotplugJobOK ==
  thread["hotplug"].pc # "idle" => thread["hotplug"].job = "hotplug"
JobsOK ==
  /\ \A t \in Threads : Allowed(thread[t])
  /\ DriverJobOK /\ PowerJobOK /\ HotplugJobOK
  /\ known <= active

\* Nobody took a reference he does not hold any more.
RefsExact ==
  \A b \in Blocks : refs[b] <= Cardinality(Owners(b)) + Cardinality(Holding(b))

\* What only one at a time makes of it.
SerialOK ==
  /\ \A t \in Threads : thread[t].pc # "idle" => PhaseOK(thread[t])
  /\ (\A t \in Threads : thread[t].pc = "idle") => Settled
  /\ driver # "loaded" =>
       thread["power"].pc = "idle" /\ thread["hotplug"].pc = "idle" /\ power = "on"
  /\ driver # "loaded" /\ thread["driver"].pc = "idle" => NoneVirtualized
  /\ power # "on" /\ thread["power"].pc = "idle" => NoneVirtualized

\* No shared data is left behind, but for VmpInitializeVm without memory.
LiveUsed ==
  "processor" \notin FailingSteps =>
  \A b \in Blocks : blocks[b] = "live" =>
    refs[b] > 0 \/ \E t \in Threads : thread[t].pc = "start" /\ thread[t].block = b

RacedNoticed == TwoAtWork => raced

SerialInv == JobsOK /\ RacedNoticed /\ LiveUsed /\ (~raced => SerialOK /\ RefsExact)
-----------------------------------------------------------------------------
(* The record of the thread that moves.                                    *)

LEMMA AtWorkIn ==
  ASSUME LifeInv, NEW t \in Threads
  PROVE  /\ thread \in [Threads -> Work] /\ thread[t] \in Work /\ WorkOK(thread[t])
         /\ thread[t].cpu \in Cpus /\ thread[t].last \in Cpus /\ thread[t].job \in Jobs
         /\ thread[t].cpu <= thread[t].last
         /\ active \in NumCpus .. MaxCpus
BY TypeParts DEF LifeInv, ThreadsOK, WorkOK, Work, TypeOK

LEMMA ReturnIs ==
  ASSUME LifeInv, NEW t \in Threads, NEW ok \in BOOLEAN, Return(t, ok)
  PROVE  thread'[t] = NoJob /\ thread'[t].pc = "idle" /\ thread'[t].job = "none"
BY AtWorkIn DEF Return, NoJob

LEMMA ReturnEnds ==
  ASSUME LifeInv, NEW t \in Threads, Return(t, TRUE) \/ Return(t, FALSE)
  PROVE  thread'[t] = NoJob /\ thread'[t].pc = "idle" /\ thread'[t].job = "none"
<1>1. thread' = [thread EXCEPT ![t] = NoJob]
  BY Zenon DEF Return
<1> QED BY <1>1, AtWorkIn DEF NoJob

LEMMA BeginLoopIs ==
  ASSUME LifeInv, NEW t \in Threads, NEW job, NEW pc, NEW b, BeginLoop(t, job, pc, b)
  PROVE  /\ thread'[t].job = job /\ thread'[t].pc = pc /\ thread'[t].cpu = 0
         /\ thread'[t].last = active - 1 /\ thread'[t].block = b
BY AtWorkIn DEF BeginLoop

LEMMA NextCpuIs ==
  ASSUME LifeInv, NEW t \in Threads, NEW pc, NextCpu(t, pc)
  PROVE  /\ thread'[t].job = thread[t].job /\ thread'[t].pc = pc
         /\ thread'[t].cpu = thread[t].cpu + 1
         /\ thread'[t].last = thread[t].last /\ thread'[t].block = thread[t].block
BY AtWorkIn DEF NextCpu, Work

LEMMA GotoIs ==
  ASSUME LifeInv, NEW t \in Threads, NEW pc, Goto(t, pc)
  PROVE  /\ thread'[t].job = thread[t].job /\ thread'[t].pc = pc
         /\ thread'[t].cpu = thread[t].cpu
         /\ thread'[t].last = thread[t].last /\ thread'[t].block = thread[t].block
BY AtWorkIn DEF Goto, Work

LEMMA StepIs ==
  ASSUME LifeInv, NEW t \in Threads, Step(t)
  PROVE  /\ StepOK(t) /\ Moves(t) /\ WorkOK(thread'[t]) /\ UNCHANGED system
         /\ thread[t].pc # "idle"
<1>1. StepOK(t)
  BY CheckOK, FetchOK, StartOK, LaunchOK, EnableOK, DisableOK, StopOK, FreeOK, AssertOK
     DEF Step
<1>2. thread[t].pc # "idle"
  BY DEF Step, Check, Fetch, Start, Launch, Enable, Disable, Stop, Free, Assert
<1> QED BY <1>1, <1>2 DEF StepOK, ControlOK
-----------------------------------------------------------------------------
(* A routine goes on or returns.                                           *)

Returns(t) == \E ok \in BOOLEAN : Return(t, ok)
GoesOn(t) ==
  /\ thread'[t].pc # "idle" /\ thread'[t].job = thread[t].job /\ Allowed(thread'[t])
  /\ UNCHANGED driverState

LEMMA StartFailedEnds ==
  ASSUME LifeInv, JobsOK, NEW t \in Threads, thread[t].pc \in {"start", "launch", "enable"},
         StartFailed(t)
  PROVE  \/ thread[t].job = "hotplug" /\ Return(t, FALSE)
         \/ /\ thread[t].job = "init" /\ BeginLoop(t, "init", "stop", NoBlock)
            /\ GoesOn(t)
<1>1. CASE thread[t].job = "hotplug"
  BY <1>1 DEF StartFailed
<1>2. CASE thread[t].job # "hotplug"
  <2>1. thread[t].job = "init"
    BY <1>2, AtWorkIn DEF JobsOK, Allowed, Jobs
  <2>2. BeginLoop(t, "init", "stop", NoBlock) /\ UNCHANGED driverState
    BY <1>2 DEF StartFailed
  <2> QED BY <2>1, <2>2, BeginLoopIs DEF GoesOn, Allowed
<1> QED BY <1>1, <1>2

LEMMA StartFailedPc ==
  ASSUME LifeInv, JobsOK, NEW t \in Threads, thread[t].pc \in {"start", "launch", "enable"},
         StartFailed(t)
  PROVE  thread'[t].pc \in {"idle", "stop"}
<1>1. CASE Return(t, FALSE)
  BY <1>1, ReturnEnds
<1>2. CASE BeginLoop(t, "init", "stop", NoBlock)
  BY <1>2, BeginLoopIs
<1> QED BY <1>1, <1>2, StartFailedEnds

LEMMA StopOverEnds ==
  ASSUME LifeInv, JobsOK, NEW t \in Threads, thread[t].pc \in {"stop", "free"}, StopOver(t)
  PROVE  \/ thread[t].job = "init" /\ Return(t, FALSE)
         \/ thread[t].job = "term" /\ Goto(t, "assert") /\ GoesOn(t)
<1>1. CASE thread[t].job = "init"
  BY <1>1 DEF StopOver
<1>2. CASE thread[t].job # "init"
  <2>1. thread[t].job = "term"
    BY <1>2, AtWorkIn DEF JobsOK, Allowed, Jobs
  <2>2. Goto(t, "assert") /\ UNCHANGED driverState
    BY <1>2 DEF StopOver
  <2> QED BY <2>1, <2>2, GotoIs DEF GoesOn, Allowed
<1> QED BY <1>1, <1>2

LEMMA StepEnds ==
  ASSUME LifeInv, JobsOK, NEW t \in Threads, Step(t)
  PROVE  Returns(t) \/ GoesOn(t)
<1>0. Allowed(thread[t]) /\ WorkOK(thread[t]) /\ thread[t].job \in Jobs
  BY AtWorkIn DEF JobsOK
<1>1. CASE Check(t)
  <2>1. thread[t].job = "init"
    BY <1>0, <1>1 DEF WorkOK, Check
  <2>2. CASE Return(t, FALSE)
    BY <2>2 DEF Returns
  <2>3. CASE \E b \in Blocks : BeginLoop(t, "init", "start", b) /\ UNCHANGED driverState
    BY <2>1, <2>3, BeginLoopIs DEF GoesOn, Allowed
  <2> QED BY <1>1, <2>2, <2>3 DEF Check
<1>2. CASE Fetch(t)
  <2>1. thread[t].job = "hotplug"
    BY <1>0, <1>2 DEF WorkOK, Fetch
  <2>2. CASE Return(t, FALSE)
    BY <2>2 DEF Returns
  <2>3. CASE \E here \in Active :
               /\ thread' = [thread EXCEPT ![t].pc = "start", ![t].block = owner[here]]
               /\ UNCHANGED driverState
    <3>1. thread'[t].pc = "start" /\ thread'[t].job = thread[t].job
      BY <2>3, AtWorkIn DEF Work
    <3> QED BY <2>1, <2>3, <3>1 DEF GoesOn, Allowed
  <2> QED BY <1>2, <2>2, <2>3 DEF Fetch
<1>3. CASE Start(t)
  <2>1. CASE StartFailed(t)
    BY <1>3, <2>1, StartFailedEnds DEF Returns, Start
  <2>2. CASE Goto(t, "launch") /\ UNCHANGED driverState
    BY <1>0, <1>3, <2>2, GotoIs DEF GoesOn, Allowed, Start
  <2> QED BY <1>3, <2>1, <2>2 DEF Start
<1>4. CASE Launch(t)
  <2>1. CASE StartFailed(t)
    BY <1>4, <2>1, StartFailedEnds DEF Returns, Launch
  <2>2. CASE thread[t].job = "hotplug" /\ Return(t, TRUE)
    BY <2>2 DEF Returns
  <2>3. CASE /\ thread[t].job # "hotplug" /\ UNCHANGED driverState
             /\ BeginLoop(t, "init", "enable", NoBlock) \/ NextCpu(t, "start")
    <3>1. thread[t].job = "init"
      BY <1>0, <1>4, <2>3 DEF Allowed, Jobs, Launch
    <3> QED BY <2>3, <3>1, BeginLoopIs, NextCpuIs DEF GoesOn, Allowed
  <2> QED BY <1>4, <2>1, <2>2, <2>3 DEF Launch
<1>5. CASE Enable(t)
  <2>1. CASE StartFailed(t)
    BY <1>5, <2>1, StartFailedEnds DEF Returns, Enable
  <2>2. CASE Return(t, TRUE)
    BY <2>2 DEF Returns
  <2>3. CASE NextCpu(t, "enable") /\ UNCHANGED driverState
    BY <1>0, <1>5, <2>3, NextCpuIs DEF GoesOn, Allowed, Enable
  <2> QED BY <1>5, <2>1, <2>2, <2>3 DEF Enable
<1>6. CASE Disable(t)
  <2>1. thread[t].job = "term"
    BY <1>0, <1>6 DEF Allowed, Jobs, Disable
  <2>2. UNCHANGED driverState
        /\ (BeginLoop(t, "term", "stop", NoBlock) \/ NextCpu(t, "disable"))
    BY <1>6 DEF Disable
  <2> QED BY <2>1, <2>2, BeginLoopIs, NextCpuIs DEF GoesOn, Allowed
<1>7. CASE Stop(t)
  <2>1. CASE StopOver(t)
    BY <1>7, <2>1, StopOverEnds DEF Returns, Stop
  <2>2. CASE /\ thread' = [thread EXCEPT ![t].pc = "free", ![t].block = owner[thread[t].cpu]]
             /\ UNCHANGED driverState
    <3>1. thread'[t].pc = "free" /\ thread'[t].job = thread[t].job
      BY <2>2, AtWorkIn DEF Work
    <3> QED BY <1>0, <1>7, <2>2, <3>1 DEF GoesOn, Allowed, Stop
  <2> QED BY <1>7, <2>1, <2>2 DEF Stop
<1>8. CASE Free(t)
  <2>1. CASE StopOver(t)
    BY <1>8, <2>1, StopOverEnds DEF Returns, Free
  <2>2. CASE NextCpu(t, "stop") /\ UNCHANGED driverState
    BY <1>0, <1>8, <2>2, NextCpuIs DEF GoesOn, Allowed, Free
  <2> QED BY <1>8, <2>1, <2>2 DEF Free
<1>9. CASE Assert(t)
  BY <1>9 DEF Assert, Returns
<1> QED BY <1>1, <1>2, <1>3, <1>4, <1>5, <1>6, <1>7, <1>8, <1>9 DEF Step

LEMMA KnownFacts ==
  ASSUME LifeInv, History, active' \in {active, active + 1}, known <= active
  PROVE  known' <= active'
BY DEF History, LifeInv, TypeOK

\* What a step of t leaves of the ladder and of the three threads.
LEMMA StepJobs ==
  ASSUME LifeInv, JobsOK, NEW t \in Threads, Step(t), History
  PROVE  JobsOK'
<1>1. /\ Moves(t) /\ UNCHANGED <<active, power, suspends>> /\ thread[t].pc # "idle"
      /\ thread'[t].job \in Jobs
  BY StepIs DEF WorkOK, Work, system
<1>2. known' <= active'
  BY <1>1, KnownFacts DEF JobsOK
<1>3. CASE Returns(t)
  <2>1. PICK ok \in BOOLEAN : Return(t, ok)
    BY <1>3 DEF Returns
  <2>2. thread'[t].pc = "idle" /\ thread'[t].job = "none"
    BY <2>1, ReturnIs
  <2>3. \A o \in Threads : Allowed(thread'[o])
    BY <1>1, <2>2 DEF JobsOK, Allowed, Moves
  <2>4. DriverJobOK'
    <3>1. CASE t # "driver"
      BY <1>1, <2>1, <3>1 DEF Return, JobsOK, DriverJobOK, Moves, Threads
    <3>2. CASE t = "driver" /\ thread[t].job = "term"
      BY <1>1, <2>1, <2>2, <3>2 DEF Return, JobsOK, DriverJobOK, VmRung
    <3>3. CASE t = "driver" /\ thread[t].job = "init"
      BY <1>1, <2>1, <2>2, <3>3 DEF Return, JobsOK, DriverJobOK, VmRung, LifeInv, DriverOnLadder
    <3> QED BY <1>1, <3>1, <3>2, <3>3 DEF JobsOK, DriverJobOK
  <2>5. PowerJobOK' /\ HotplugJobOK'
    BY <1>1, <2>2 DEF JobsOK, PowerJobOK, HotplugJobOK, Moves, Threads
  <2> QED BY <1>2, <2>3, <2>4, <2>5 DEF JobsOK
<1>4. CASE GoesOn(t)
  <2>1. \A o \in Threads : Allowed(thread'[o])
    BY <1>1, <1>4 DEF JobsOK, GoesOn, Moves
  <2>2. DriverJobOK'
    BY <1>1, <1>4 DEF JobsOK, DriverJobOK, GoesOn, Moves, Threads, driverState
  <2>3. PowerJobOK' /\ HotplugJobOK'
    BY <1>1, <1>4 DEF JobsOK, PowerJobOK, HotplugJobOK, GoesOn, Moves, Threads
  <2> QED BY <1>2, <2>1, <2>2, <2>3 DEF JobsOK
<1> QED BY <1>3, <1>4, StepEnds

LEMMA JobsFacts ==
  ASSUME LifeInv, JobsOK
  PROVE  /\ "driver" \in Threads /\ "power" \in Threads /\ "hotplug" \in Threads
         /\ thread \in [Threads -> Work]
         /\ \A t \in Threads : thread[t] \in Work
         /\ driver = "entry" /\ thread["driver"].pc # "idle" => up = VmRung - 1
         /\ driver = "absent" => thread["driver"].pc = "idle"
         /\ driver = "loaded" => thread["driver"].pc = "idle" /\ up = VmRung
         /\ active \in NumCpus .. MaxCpus
BY TypeParts DEF LifeInv, TypeOK, JobsOK, DriverJobOK, Threads, DriverOnLadder, Work

\* The steps of the driver and of the system.
LEMMA LadderJobs ==
  ASSUME LifeInv, JobsOK, Load \/ InitializeSubsystem \/ TerminateSubsystem, History
  PROVE  JobsOK'
<1>1. UNCHANGED <<thread, active, power>>
  BY DEF Load, InitializeSubsystem, TerminateSubsystem, system
<1>2. /\ driver \in {"absent", "entry", "loaded", "unwind"} /\ up \in 0 .. VmRung
      /\ driver \in {"loaded", "unwind"} => up > 0
  BY TypeParts DEF LifeInv, DriverOnLadder
<1>3. DriverJobOK'
  <2>1. CASE Load
    BY <1>1, <1>2, <2>1, JobsFacts DEF Load, JobsOK, DriverJobOK, VmRung
  <2>2. CASE InitializeSubsystem
    <3>1. thread["driver"].pc = "idle"
      BY <2>2, JobsFacts DEF InitializeSubsystem, VmRung
    <3>2. thread["driver"].job # "term"
      BY <3>1, JobsFacts DEF JobsOK, Allowed
    <3> QED BY <1>1, <1>2, <2>2, <3>1, <3>2 DEF InitializeSubsystem, DriverJobOK, VmRung
  <2>3. CASE TerminateSubsystem
    <3>1. thread["driver"].pc = "idle"
      BY <2>3 DEF TerminateSubsystem
    <3>2. thread["driver"].job # "term"
      BY <3>1, JobsFacts DEF JobsOK, Allowed
    <3> QED BY <1>1, <1>2, <2>3, <3>1, <3>2 DEF TerminateSubsystem, DriverJobOK, VmRung
  <2> QED BY <2>1, <2>2, <2>3
<1>4. known' <= active'
  BY <1>1, KnownFacts DEF JobsOK
<1> QED BY <1>1, <1>3, <1>4 DEF JobsOK, PowerJobOK, HotplugJobOK

LEMMA CallVmInitializationIs ==
  ASSUME LifeInv, JobsOK, CallVmInitialization
  PROVE  /\ thread'["driver"].pc = "check" /\ thread'["driver"].job = "init"
         /\ thread'["power"] = thread["power"] /\ thread'["hotplug"] = thread["hotplug"]
BY JobsFacts DEF CallVmInitialization, Work

LEMMA CallVmInitializationJobs ==
  ASSUME LifeInv, JobsOK, CallVmInitialization, History
  PROVE  JobsOK'
<1>1. /\ UNCHANGED <<driver, up, active, power>> /\ driver = "entry" /\ up = VmRung - 1
  BY DEF CallVmInitialization, system, driverState
<1>2. known' <= active'
  BY <1>1, KnownFacts DEF JobsOK
<1> QED BY <1>1, <1>2, CallVmInitializationIs
        DEF JobsOK, DriverJobOK, PowerJobOK, HotplugJobOK, Threads, Allowed, VmRung

LEMMA UnloadIs ==
  ASSUME LifeInv, JobsOK, Unload
  PROVE  /\ thread'["driver"].pc = "disable" /\ thread'["driver"].job = "term"
         /\ thread'["driver"].last = active - 1
         /\ thread'["power"] = thread["power"] /\ thread'["hotplug"] = thread["hotplug"]
         /\ driver = "loaded" /\ driver' = "unwind" /\ up = VmRung /\ up' = up
         /\ UNCHANGED <<processors, memory, loads, system>>
         /\ thread["driver"].pc = "idle"
BY JobsFacts DEF Unload, BeginLoop

LEMMA UnloadJobs ==
  ASSUME LifeInv, JobsOK, Unload, History
  PROVE  JobsOK'
<1>1. UNCHANGED <<active, power>>
  BY UnloadIs DEF system
<1>2. known' <= active'
  BY <1>1, KnownFacts DEF JobsOK
<1> QED BY <1>1, <1>2, UnloadIs
        DEF JobsOK, DriverJobOK, PowerJobOK, HotplugJobOK, Threads, Allowed, VmRung

LEMMA SuspendIs ==
  ASSUME LifeInv, JobsOK, Suspend
  PROVE  /\ thread'["power"].pc = "disable" /\ thread'["power"].job = "term"
         /\ thread'["power"].last = active - 1
         /\ thread'["driver"] = thread["driver"] /\ thread'["hotplug"] = thread["hotplug"]
         /\ power = "on" /\ power' = "suspending" /\ thread["power"].pc = "idle"
         /\ UNCHANGED <<processors, memory, driverState, active>>
BY JobsFacts DEF Suspend, BeginLoop

LEMMA SuspendJobs ==
  ASSUME LifeInv, JobsOK, Suspend, History
  PROVE  JobsOK'
<1>1. UNCHANGED <<active, driver, up>>
  BY SuspendIs DEF driverState
<1>2. known' <= active'
  BY <1>1, KnownFacts DEF JobsOK
<1> QED BY <1>1, <1>2, SuspendIs
        DEF JobsOK, DriverJobOK, PowerJobOK, HotplugJobOK, Threads, Allowed

LEMMA SleepJobs ==
  ASSUME LifeInv, JobsOK, Sleep, History
  PROVE  JobsOK'
<1>1. /\ UNCHANGED <<active, driver, up, thread>>
      /\ power' = "resuming" /\ thread["power"].pc = "idle"
  BY DEF Sleep, driverState
<1>2. known' <= active'
  BY <1>1, KnownFacts DEF JobsOK
<1> QED BY <1>1, <1>2 DEF JobsOK, DriverJobOK, PowerJobOK, HotplugJobOK

LEMMA ResumeIs ==
  ASSUME LifeInv, JobsOK, Resume
  PROVE  /\ IF up >= PowerRung
            THEN thread'["power"].pc = "check" /\ thread'["power"].job = "init"
            ELSE thread'["power"] = thread["power"]
         /\ thread'["driver"] = thread["driver"] /\ thread'["hotplug"] = thread["hotplug"]
         /\ power = "resuming" /\ power' = "on" /\ thread["power"].pc = "idle"
         /\ UNCHANGED <<processors, memory, driverState, active>>
BY JobsFacts DEF Resume, Work, JobsOK, PowerJobOK

LEMMA ResumeJobs ==
  ASSUME LifeInv, JobsOK, Resume, History
  PROVE  JobsOK'
<1>1. UNCHANGED <<active, driver, up>>
  BY ResumeIs DEF driverState
<1>2. known' <= active'
  BY <1>1, KnownFacts DEF JobsOK
<1> QED BY <1>1, <1>2, ResumeIs
        DEF JobsOK, DriverJobOK, PowerJobOK, HotplugJobOK, Threads, Allowed

LEMMA AddProcessorIs ==
  ASSUME LifeInv, JobsOK, AddProcessor
  PROVE  /\ IF up >= HotplugRung
            THEN /\ thread'["hotplug"].pc = "fetch" /\ thread'["hotplug"].job = "hotplug"
                 /\ thread'["hotplug"].cpu = active /\ thread'["hotplug"].last = active
            ELSE thread'["hotplug"] = thread["hotplug"]
         /\ thread'["driver"] = thread["driver"] /\ thread'["power"] = thread["power"]
         /\ active' = active + 1 /\ active < MaxCpus /\ thread["hotplug"].pc = "idle"
         /\ UNCHANGED <<processors, memory, driverState, power>>
BY JobsFacts DEF AddProcessor

LEMMA AddProcessorJobs ==
  ASSUME LifeInv, JobsOK, AddProcessor, History
  PROVE  JobsOK'
<1>1. active' = active + 1 /\ UNCHANGED <<driver, up, power>>
  BY AddProcessorIs DEF driverState
<1>2. known' <= active'
  BY <1>1, KnownFacts DEF JobsOK
<1> QED BY <1>1, <1>2, AddProcessorIs
        DEF JobsOK, DriverJobOK, PowerJobOK, HotplugJobOK, Threads, Allowed
-----------------------------------------------------------------------------
(* Shared data that is alive has a reference, or is about to get one.      *)

Starts(w, b) == w.pc = "start" /\ w.block = b

LEMMA LiveKept ==
  ASSUME LiveUsed, NEW t \in Threads, Moves(t),
         "processor" \notin FailingSteps =>
           \A b \in Blocks : blocks'[b] = "live" =>
             \/ refs'[b] > 0 \/ Starts(thread'[t], b)
             \/ /\ blocks[b] = "live" /\ (refs[b] > 0 => refs'[b] > 0)
                /\ ~Starts(thread[t], b)
  PROVE  LiveUsed'
<1> SUFFICES ASSUME "processor" \notin FailingSteps, NEW b \in Blocks, blocks'[b] = "live"
             PROVE  refs'[b] > 0 \/ \E o \in Threads : Starts(thread'[o], b)
  BY DEF LiveUsed, Starts
<1>1. CASE refs'[b] > 0 \/ Starts(thread'[t], b)
  BY <1>1
<1>2. CASE /\ blocks[b] = "live" /\ (refs[b] > 0 => refs'[b] > 0)
           /\ ~Starts(thread[t], b)
  <2>1. refs[b] > 0 \/ \E o \in Threads : Starts(thread[o], b)
    BY <1>2 DEF LiveUsed, Starts
  <2>2. \A o \in Threads : Starts(thread[o], b) => Starts(thread'[o], b)
    BY <1>2 DEF Moves, Starts
  <2> QED BY <1>2, <2>1, <2>2
<1> QED BY <1>1, <1>2

\* The block keeps its state and its references, and t is not about to start.
LEMMA LiveUntouched ==
  ASSUME LiveUsed, NEW t \in Threads, Moves(t), UNCHANGED memory,
         thread[t].pc # "start"
  PROVE  LiveUsed'
BY LiveKept DEF Starts, memory

\* A reference to a block that stays alive is not the last one.
LEMMA ReleaseLive ==
  ASSUME LifeInv, LiveUsed, NEW t \in Threads, Moves(t), thread[t].pc \in {"launch", "free"},
         Release(thread[t].block)
  PROVE  LiveUsed'
<1> DEFINE r == thread[t].block
<1>1. r \in Blocks /\ Holds(thread[t], r)
  BY AtWorkIn DEF WorkOK, Holds
<1>2. refs[r] >= 1 /\ refs \in [Blocks -> Nat]
  BY <1>1, HolderCounts DEF LifeInv, TypeOK
<1>3. /\ refs' = [refs EXCEPT ![r] = @ - 1]
      /\ blocks' = [blocks EXCEPT ![r] = IF refs[r] = 1 THEN "freed" ELSE @]
      /\ blocks \in [Blocks -> {"unused", "live", "freed"}]
  BY DEF Release, LifeInv, TypeOK
<1> HIDE DEF r
<1>4. ASSUME NEW b \in Blocks, blocks'[b] = "live"
      PROVE  blocks[b] = "live" /\ (refs[b] > 0 => refs'[b] > 0)
  BY <1>1, <1>2, <1>3, <1>4
<1> QED BY <1>4, LiveKept DEF Starts

LEMMA StepLive ==
  ASSUME LifeInv, LiveUsed, NEW t \in Threads, Step(t)
  PROVE  LiveUsed'
<1>1. Moves(t)
  BY StepIs
<1>2. CASE Check(t)
  <2>1. CASE UNCHANGED memory
    BY <1>1, <1>2, <2>1, LiveUntouched DEF Check
  <2>2. CASE \E b \in Blocks : /\ blocks' = [blocks EXCEPT ![b] = "live"]
                               /\ BeginLoop(t, "init", "start", b) /\ UNCHANGED refs
    <3>1. PICK b \in Blocks : /\ blocks' = [blocks EXCEPT ![b] = "live"]
                              /\ BeginLoop(t, "init", "start", b) /\ UNCHANGED refs
      BY <2>2
    <3>2. Starts(thread'[t], b)
      BY <3>1, BeginLoopIs DEF Starts
    <3>3. \A a \in Blocks : a # b => blocks'[a] = blocks[a]
      BY <3>1 DEF LifeInv, TypeOK
    <3> QED BY <1>1, <1>2, <3>1, <3>2, <3>3, LiveKept DEF Check, Starts
  <2> QED BY <1>2, <2>1, <2>2 DEF Check, memory
<1>3. CASE Fetch(t)
  BY <1>1, <1>3, LiveUntouched DEF Fetch
<1>4. CASE Start(t)
  <2>1. CASE Fails("processor")
    BY <2>1 DEF Fails, LiveUsed
  <2>2. CASE /\ refs' = [refs EXCEPT ![thread[t].block] = @ + 1]
             /\ UNCHANGED blocks
    <3>1. refs \in [Blocks -> Nat]
      BY DEF LifeInv, TypeOK
    <3>2. \A b \in Blocks : refs'[b] > 0 \/ (refs'[b] = refs[b] /\ ~Starts(thread[t], b))
      BY <2>2, <3>1 DEF Starts
    <3> QED BY <1>1, <2>2, <3>2, LiveKept
  <2> QED BY <1>4, <2>1, <2>2 DEF Start
<1>5. CASE Launch(t)
  BY <1>1, <1>5, ReleaseLive, LiveUntouched DEF Launch
<1>6. CASE Enable(t)
  BY <1>1, <1>6, LiveUntouched DEF Enable
<1>7. CASE Disable(t)
  BY <1>1, <1>7, LiveUntouched DEF Disable
<1>8. CASE Stop(t)
  BY <1>1, <1>8, LiveUntouched DEF Stop
<1>9. CASE Free(t)
  BY <1>1, <1>9, ReleaseLive DEF Free
<1>10. CASE Assert(t)
  BY <1>1, <1>10, LiveUntouched DEF Assert
<1> QED BY <1>2, <1>3, <1>4, <1>5, <1>6, <1>7, <1>8, <1>9, <1>10 DEF Step
-----------------------------------------------------------------------------
(* The references of who is left: no reference is forgotten.               *)

LEMMA BooksExact ==
  ASSUME RefsExact, NEW t \in Threads, Moves(t),
         NEW c \in Cpus, \A d \in Cpus \ {c} : owner'[d] = owner[d],
         refs \in [Blocks -> Nat], refs' \in [Blocks -> Nat],
         \A b \in Blocks :
           refs'[b] <= refs[b] + Count(Holds(thread'[t], b)) - Count(Holds(thread[t], b))
                               + Count(owner'[c] = b) - Count(owner[c] = b)
  PROVE  RefsExact'
<1> SUFFICES ASSUME NEW b \in Blocks
             PROVE  refs'[b] <= Cardinality(Owners(b)') + Cardinality(Holding(b)')
  BY DEF RefsExact
<1>1. refs[b] <= Cardinality(Owners(b)) + Cardinality(Holding(b))
  BY DEF RefsExact
<1>2. Cardinality(Owners(b)) \in Nat /\ Cardinality(Owners(b)') \in Nat
      /\ Cardinality(Owners(b)') = Cardinality(Owners(b))
              + Count(owner'[c] = b) - Count(owner[c] = b)
  BY OwnersCount
<1>3. Cardinality(Holding(b)) \in Nat /\ Cardinality(Holding(b)') \in Nat
      /\ Cardinality(Holding(b)') = Cardinality(Holding(b))
              + Count(Holds(thread'[t], b)) - Count(Holds(thread[t], b))
  BY HoldingCount
<1>4. refs[b] \in Nat /\ refs'[b] \in Nat
  BY DEF Blocks
<1>5. /\ Count(owner'[c] = b) \in {0, 1} /\ Count(owner[c] = b) \in {0, 1}
      /\ Count(Holds(thread'[t], b)) \in {0, 1} /\ Count(Holds(thread[t], b)) \in {0, 1}
  BY DEF Count
<1>6. refs'[b] <= refs[b] + Count(Holds(thread'[t], b)) - Count(Holds(thread[t], b))
                          + Count(owner'[c] = b) - Count(owner[c] = b)
  OBVIOUS
<1> QED BY <1>1, <1>2, <1>3, <1>4, <1>5, <1>6

\* t neither takes nor gives back a reference.
LEMMA ExactUntouched ==
  ASSUME LifeInv, RefsExact, NEW t \in Threads, Moves(t), UNCHANGED <<owner, refs>>,
         \A b \in Blocks : Holds(thread'[t], b) <=> Holds(thread[t], b)
  PROVE  RefsExact'
<1>1. /\ refs \in [Blocks -> Nat] /\ refs' \in [Blocks -> Nat]
      /\ \A b \in Blocks : refs[b] \in Nat
  BY DEF LifeInv, TypeOK
<1>2. \A b \in Blocks :
        refs'[b] <= refs[b] + Count(Holds(thread'[t], b)) - Count(Holds(thread[t], b))
                            + Count(owner'[0] = b) - Count(owner[0] = b)
  BY <1>1 DEF Count
<1> QED BY <1>1, <1>2, CpuFacts, BooksExact

\* t gives back the reference it holds.
LEMMA ReleaseExact ==
  ASSUME LifeInv, RefsExact, NEW t \in Threads, Moves(t), UNCHANGED owner,
         thread[t].pc \in {"launch", "free"}, thread'[t].pc \notin {"launch", "free"},
         Release(thread[t].block), refs' \in [Blocks -> Nat]
  PROVE  RefsExact'
<1> DEFINE r == thread[t].block
<1>1. r \in Blocks /\ (\A b \in Blocks : Holds(thread[t], b) <=> b = r)
  BY AtWorkIn DEF WorkOK, Holds
<1>2. \A b \in Blocks : ~Holds(thread'[t], b)
  BY DEF Holds
<1>3. /\ refs \in [Blocks -> Nat]
      /\ refs' = [refs EXCEPT ![r] = @ - 1]
  BY DEF Release, LifeInv, TypeOK
<1> HIDE DEF r
<1>4. \A b \in Blocks :
        refs'[b] <= refs[b] + Count(Holds(thread'[t], b)) - Count(Holds(thread[t], b))
                            + Count(owner'[0] = b) - Count(owner[0] = b)
  BY <1>1, <1>2, <1>3 DEF Count
<1> QED BY <1>3, <1>4, CpuFacts, BooksExact

LEMMA StepExact ==
  ASSUME LifeInv, JobsOK, RefsExact, NEW t \in Threads, Step(t)
  PROVE  RefsExact'
<1>1. Moves(t) /\ refs \in [Blocks -> Nat] /\ refs' \in [Blocks -> Nat]
  BY StepIs DEF StepOK, MemoryOK, LifeInv, TypeOK
<1>2. ASSUME UNCHANGED <<owner, refs>>, thread[t].pc \notin {"launch", "free"},
             thread'[t].pc \notin {"launch", "free"}
      PROVE  RefsExact'
  BY <1>1, <1>2, ExactUntouched DEF Holds
<1>3. CASE Check(t)
  <2>1. CASE Return(t, FALSE)
    BY <1>2, <1>3, <2>1, ReturnEnds DEF Check, processors
  <2>2. CASE \E b \in Blocks : BeginLoop(t, "init", "start", b)
    BY <1>2, <1>3, <2>2, BeginLoopIs DEF Check, processors
  <2> QED BY <1>3, <2>1, <2>2 DEF Check
<1>4. CASE Fetch(t)
  <2>1. CASE Return(t, FALSE)
    BY <1>2, <1>4, <2>1, ReturnEnds DEF Fetch, processors, memory
  <2>2. CASE \E here \in Active :
               thread' = [thread EXCEPT ![t].pc = "start", ![t].block = owner[here]]
    <3>1. thread'[t].pc = "start"
      BY <2>2, AtWorkIn DEF Work
    <3> QED BY <1>2, <1>4, <3>1 DEF Fetch, processors, memory
  <2> QED BY <1>4, <2>1, <2>2 DEF Fetch
<1>5. CASE Start(t)
  <2>1. CASE StartFailed(t) /\ UNCHANGED refs
    <3>1. thread'[t].pc \in {"idle", "stop"}
      BY <1>5, <2>1, StartFailedPc DEF Start
    <3> QED BY <1>2, <1>5, <2>1, <3>1 DEF Start, processors
  <2>2. CASE /\ refs' = [refs EXCEPT ![thread[t].block] = @ + 1]
             /\ Goto(t, "launch")
    <3> DEFINE r == thread[t].block
    <3>1. r \in Blocks /\ thread'[t].pc = "launch" /\ thread'[t].block = r
      BY <1>5, <2>2, AtWorkIn, GotoIs DEF WorkOK, Start
    <3>2. /\ \A b \in Blocks : ~Holds(thread[t], b)
          /\ \A b \in Blocks : Holds(thread'[t], b) <=> b = r
          /\ owner' = owner
      BY <1>5, <3>1 DEF Holds, Start, processors
    <3> HIDE DEF r
    <3>3. \A b \in Blocks :
            refs'[b] <= refs[b] + Count(Holds(thread'[t], b)) - Count(Holds(thread[t], b))
                                + Count(owner'[0] = b) - Count(owner[0] = b)
      BY <1>1, <2>2, <3>1, <3>2 DEF Count, r
    <3> QED BY <1>1, <3>2, <3>3, CpuFacts, BooksExact
  <2> QED BY <1>5, <2>1, <2>2 DEF Start
<1>6. CASE Launch(t)
  <2>1. CASE Release(thread[t].block) /\ StartFailed(t) /\ UNCHANGED owner
    <3>1. thread'[t].pc \in {"idle", "stop"}
      BY <1>6, <2>1, StartFailedPc DEF Launch
    <3> QED BY <1>1, <1>6, <2>1, <3>1, ReleaseExact DEF Launch
  <2>2. CASE /\ ~IsVirtualized(thread[t].cpu) /\ UNCHANGED memory
             /\ owner' = [owner EXCEPT ![thread[t].cpu] = thread[t].block]
             /\ Return(t, TRUE) \/ BeginLoop(t, "init", "enable", NoBlock)
                \/ NextCpu(t, "start")
    <3> DEFINE r == thread[t].block
               c == thread[t].cpu
    <3>1. /\ r \in Blocks /\ c \in Cpus /\ owner[c] = NoBlock
          /\ owner \in [Cpus -> Blocks \union {NoBlock}]
      BY <1>6, <2>2, AtWorkIn DEF WorkOK, Launch, IsVirtualized, LifeInv, TypeOK
    <3>2. thread'[t].pc \in {"idle", "enable", "start"}
      <4>1. CASE Return(t, TRUE)
        BY <4>1, ReturnEnds
      <4>2. CASE BeginLoop(t, "init", "enable", NoBlock)
        BY <4>2, BeginLoopIs
      <4>3. CASE NextCpu(t, "start")
        BY <4>3, NextCpuIs
      <4> QED BY <2>2, <4>1, <4>2, <4>3
    <3>3. /\ \A b \in Blocks : Holds(thread[t], b) <=> b = r
          /\ \A b \in Blocks : ~Holds(thread'[t], b)
      BY <1>6, <3>2 DEF Holds, Launch
    <3>4. /\ owner'[c] = r /\ \A d \in Cpus \ {c} : owner'[d] = owner[d]
          /\ refs' = refs
      BY <2>2, <3>1 DEF memory
    <3> HIDE DEF r, c
    <3>5. \A b \in Blocks :
            refs'[b] <= refs[b] + Count(Holds(thread'[t], b)) - Count(Holds(thread[t], b))
                                + Count(owner'[c] = b) - Count(owner[c] = b)
      <4> SUFFICES ASSUME NEW b \in Blocks
                   PROVE  0 <= Count(Holds(thread'[t], b)) - Count(Holds(thread[t], b))
                                + Count(owner'[c] = b) - Count(owner[c] = b)
        BY <1>1, <3>4 DEF Count
      <4>1. owner[c] # b /\ (owner'[c] = b <=> Holds(thread[t], b)) /\ ~Holds(thread'[t], b)
        BY <3>1, <3>3, <3>4 DEF Blocks, NoBlock
      <4> QED BY <4>1 DEF Count
    <3> QED BY <1>1, <3>1, <3>4, <3>5, BooksExact
  <2> QED BY <1>6, <2>1, <2>2 DEF Launch
<1>7. CASE Enable(t)
  <2>1. thread'[t].pc \in {"idle", "enable", "stop"}
    <3>1. CASE StartFailed(t)
      BY <1>7, <3>1, StartFailedPc DEF Enable
    <3>2. CASE Return(t, TRUE)
      BY <3>2, ReturnEnds
    <3>3. CASE NextCpu(t, "enable")
      BY <3>3, NextCpuIs
    <3> QED BY <1>7, <3>1, <3>2, <3>3 DEF Enable
  <2> QED BY <1>2, <1>7, <2>1 DEF Enable, memory
<1>8. CASE Disable(t)
  BY <1>2, <1>8, BeginLoopIs, NextCpuIs DEF Disable, memory
<1>9. CASE Stop(t)
  <2>1. CASE StopOver(t) /\ UNCHANGED processors
    <3>1. thread'[t].pc \in {"idle", "assert"}
      BY <1>9, <2>1, StopOverEnds, ReturnEnds, GotoIs DEF Stop
    <3> QED BY <1>2, <1>9, <2>1, <3>1 DEF Stop, memory, processors
  <2>2. CASE /\ IsVirtualized(thread[t].cpu)
             /\ owner' = [owner EXCEPT ![thread[t].cpu] = NoBlock]
             /\ thread' = [thread EXCEPT ![t].pc = "free", ![t].block = owner[thread[t].cpu]]
    <3> DEFINE c == thread[t].cpu
    <3>1. /\ c \in Cpus /\ owner \in [Cpus -> Blocks \union {NoBlock}] /\ owner[c] \in Blocks
      BY <2>2, AtWorkIn DEF IsVirtualized, LifeInv, TypeOK
    <3>2. /\ owner'[c] = NoBlock /\ \A d \in Cpus \ {c} : owner'[d] = owner[d]
          /\ refs' = refs
      BY <1>9, <2>2, <3>1 DEF Stop, memory
    <3>3. thread'[t].pc = "free" /\ thread'[t].block = owner[c]
      BY <2>2, AtWorkIn DEF Work
    <3>4. /\ \A b \in Blocks : Holds(thread'[t], b) <=> owner[c] = b
          /\ \A b \in Blocks : ~Holds(thread[t], b)
      BY <1>9, <3>3 DEF Holds, Stop
    <3> HIDE DEF c
    <3>5. \A b \in Blocks :
            refs'[b] <= refs[b] + Count(Holds(thread'[t], b)) - Count(Holds(thread[t], b))
                                + Count(owner'[c] = b) - Count(owner[c] = b)
      <4> SUFFICES ASSUME NEW b \in Blocks
                   PROVE  0 <= Count(Holds(thread'[t], b)) - Count(Holds(thread[t], b))
                                + Count(owner'[c] = b) - Count(owner[c] = b)
        BY <1>1, <3>2 DEF Count
      <4> QED BY <3>4 DEF Count
    <3> QED BY <1>1, <3>1, <3>2, <3>5, BooksExact
  <2> QED BY <1>9, <2>1, <2>2 DEF Stop
<1>10. CASE Free(t)
  <2>1. thread'[t].pc \in {"idle", "assert", "stop"}
    BY <1>10, StopOverEnds, ReturnEnds, GotoIs, NextCpuIs DEF Free
  <2> QED BY <1>1, <1>10, <2>1, ReleaseExact DEF Free, processors
<1>11. CASE Assert(t)
  BY <1>2, <1>11, ReturnEnds DEF Assert, processors, memory
<1> QED BY <1>3, <1>4, <1>5, <1>6, <1>7, <1>8, <1>9, <1>10, <1>11 DEF Step
-----------------------------------------------------------------------------
(* A thread that is alone in vm.cpp.                                       *)

LEMMA BusyIs ==
  /\ Busy("driver") <=> driver \in {"entry", "unwind"}
  /\ Busy("power") <=> power # "on" \/ thread["power"].pc # "idle"
  /\ Busy("hotplug") <=> thread["hotplug"].pc # "idle"
BY DEF Busy

LEMMA BusyAtWork ==
  ASSUME JobsOK, NEW t \in Threads, thread[t].pc # "idle"
  PROVE  Busy(t)
BY BusyIs DEF Threads, JobsOK, DriverJobOK

\* All others are idle.
LEMMA AloneIs ==
  ASSUME JobsOK, RacedNoticed, ~raced, NEW t \in Threads, Busy(t)
  PROVE  /\ \A o \in Threads \ {t} : thread[o].pc = "idle" /\ ~Busy(o)
         /\ t # "driver" => driver \notin {"entry", "unwind"}
         /\ t # "power" => power = "on"
<1>1. \A o \in Threads \ {t} : ~Busy(o)
  BY DEF RacedNoticed, TwoAtWork
<1>2. \A o \in Threads \ {t} : thread[o].pc = "idle"
  BY <1>1, BusyAtWork
<1> QED BY <1>1, <1>2, BusyIs DEF Threads

LEMMA KnownStays ==
  ASSUME History,
         \A t \in Threads : ~(thread[t].pc = "check" /\ thread'[t].pc = "start")
  PROVE  known' = known
BY DEF History

\* What is left to show of a step of t: w is what it does next.
NextPhase(t) == \A w : w = thread'[t] /\ w.pc # "idle" => PhaseOK(w)'
EndPhase(t) ==
  thread'[t].pc = "idle" =>
    /\ Settled'
    /\ \/ NoneVirtualized' \/ t = "hotplug"
       \/ thread[t].job = "init" /\ (t = "driver" => driver' = "loaded")

LEMMA StepSerial ==
  ASSUME LifeInv, JobsOK, RacedNoticed, ~raced, SerialOK, NEW t \in Threads, Step(t),
         NextPhase(t), EndPhase(t)
  PROVE  SerialOK'
<1>1. /\ Moves(t) /\ UNCHANGED <<active, power, suspends>> /\ thread[t].pc # "idle"
      /\ Busy(t)
  BY StepIs, BusyAtWork DEF system
<1>2. /\ \A o \in Threads \ {t} : thread[o].pc = "idle" /\ thread'[o].pc = "idle"
      /\ t # "power" => power = "on"
  BY <1>1, AloneIs DEF Moves
<1>3. t # "driver" => driver = "loaded" /\ driver' = driver
  <2>1. t # "driver" => driver = "loaded"
    BY <1>1 DEF SerialOK, Threads
  <2>2. t # "driver" => driver' = driver
    <3>1. CASE Returns(t)
      BY <3>1 DEF Returns, Return
    <3>2. CASE GoesOn(t)
      BY <3>2 DEF GoesOn, driverState
    <3> QED BY <3>1, <3>2, StepEnds
  <2> QED BY <2>1, <2>2
<1>4. \A o \in Threads : thread'[o].pc # "idle" => PhaseOK(thread[o])'
  <2>1. thread'[t].pc # "idle" => PhaseOK(thread[t])'
    BY DEF NextPhase, PhaseOK, LoopOK
  <2> QED BY <1>2, <2>1
<1>5. (\A o \in Threads : thread'[o].pc = "idle") => Settled'
  BY DEF EndPhase
<1>6. driver' # "loaded" =>
        thread'["power"].pc = "idle" /\ thread'["hotplug"].pc = "idle" /\ power' = "on"
  BY <1>1, <1>2, <1>3 DEF Threads
<1>7. driver' # "loaded" /\ thread'["driver"].pc = "idle" => NoneVirtualized'
  BY <1>3 DEF EndPhase
<1>8. power' # "on" /\ thread'["power"].pc = "idle" => NoneVirtualized'
  <2>1. power # "on" => t = "power" /\ thread[t].job # "init"
    BY <1>1, <1>2 DEF JobsOK, PowerJobOK, Threads, LifeInv, TypeOK
  <2> QED BY <1>1, <2>1 DEF EndPhase
<1> QED BY <1>4, <1>5, <1>6, <1>7, <1>8 DEF SerialOK

LEMMA PhaseIs ==
  ASSUME LifeInv, SerialOK, NEW t \in Threads, thread[t].pc # "idle"
  PROVE  /\ PhaseOK(thread[t])
         /\ thread[t].cpu \in Cpus /\ thread[t].last \in Cpus
         /\ thread[t].cpu <= thread[t].last
         /\ active \in Nat \ {0} /\ active <= MaxCpus /\ MaxCpus \in Nat
         /\ known \in Nat \ {0}
         /\ \A c \in Cpus : c \in Nat /\ c < MaxCpus
         /\ Active \subseteq Cpus
BY AtWorkIn, CpusAssumption DEF SerialOK, LifeInv, TypeOK, Cpus, Active

\* Owners and the number of processors stay.
LEMMA SameOwners ==
  ASSUME UNCHANGED <<owner, active>>
  PROVE  /\ NoneVirtualized' <=> NoneVirtualized
         /\ \A n : Below(n)' <=> Below(n)
         /\ \A n : From(n)' <=> From(n)
BY DEF NoneVirtualized, Below, From, IsVirtualized

LEMMA BelowFrom ==
  ASSUME LifeInv, NEW n \in Nat, Below(n), n <= active
  PROVE  From(0)
BY CpusAssumption DEF Below, From, Cpus, LifeInv, TypeOK

LEMMA NoneBelow ==
  /\ NoneVirtualized => Below(0)
  /\ NoneVirtualized => \A n : From(n)
BY CpusAssumption DEF NoneVirtualized, Below, From, Cpus

LEMMA SettledFrom ==
  ASSUME LifeInv, JobsOK, Settled
  PROVE  From(0)
<1>1. active \in Nat /\ known \in Nat /\ known <= active
  BY CpusAssumption DEF LifeInv, TypeOK, JobsOK
<1> QED BY <1>1, BelowFrom, NoneBelow DEF Settled

LEMMA CheckSerial ==
  ASSUME LifeInv, SerialOK, NEW t \in Threads, Check(t), History
  PROVE  NextPhase(t) /\ EndPhase(t)
<1>1. thread[t].pc = "check" /\ NoneVirtualized /\ UNCHANGED <<owner, active>>
  BY PhaseIs DEF PhaseOK, Check, processors, system
<1>2. NoneVirtualized'
  BY <1>1, SameOwners
<1>3. CASE Return(t, FALSE)
  <2>1. thread'[t].pc = "idle"
    BY <1>3, ReturnEnds
  <2> QED BY <1>2, <2>1 DEF NextPhase, EndPhase, Settled
<1>4. CASE \E b \in Blocks : BeginLoop(t, "init", "start", b)
  <2>1. /\ thread'[t].pc = "start" /\ thread'[t].job = "init"
        /\ thread'[t].cpu = 0 /\ thread'[t].last = active - 1
    BY <1>4, BeginLoopIs
  <2>2. known' = active'
    BY <1>1, <2>1 DEF History
  <2>3. Below(0)'
    BY <1>1, SameOwners, NoneBelow
  <2> QED BY <1>1, <2>1, <2>2, <2>3 DEF NextPhase, EndPhase, PhaseOK, LoopOK
<1> QED BY <1>3, <1>4 DEF Check

LEMMA FetchSerial ==
  ASSUME LifeInv, SerialOK, NEW t \in Threads, Fetch(t), known' = known,
         thread[t].job = "hotplug", t = "hotplug"
  PROVE  NextPhase(t) /\ EndPhase(t)
<1>1. /\ thread[t].cpu = active - 1 /\ thread[t].last = active - 1 /\ known = active - 1
      /\ NoneVirtualized \/ (Below(known) /\ Monitored(known))
  BY PhaseIs DEF PhaseOK, Fetch
<1>2. UNCHANGED <<owner, active, monitored, known>>
  BY DEF Fetch, processors, system
<1>3. CASE Return(t, FALSE)
  <2>1. thread'[t].pc = "idle"
    BY <1>3, ReturnEnds
  <2>2. Settled'
    BY <1>1, <1>2, SameOwners DEF Settled, Monitored
  <2> QED BY <2>1, <2>2 DEF NextPhase, EndPhase
<1>4. CASE \E here \in Active :
             /\ IsVirtualized(here)
             /\ thread' = [thread EXCEPT ![t].pc = "start", ![t].block = owner[here]]
  <2>1. /\ thread'[t].pc = "start" /\ thread'[t].job = thread[t].job
        /\ thread'[t].cpu = thread[t].cpu /\ thread'[t].last = thread[t].last
    BY <1>4, AtWorkIn DEF Work
  <2>2. Below(known) /\ Monitored(known)
    BY <1>1, <1>4, PhaseIs DEF NoneVirtualized, Fetch
  <2>3. Below(known)' /\ Monitored(known)'
    BY <1>2, <2>2, SameOwners DEF Monitored
  <2> QED BY <1>1, <1>2, <2>1, <2>3 DEF NextPhase, EndPhase, PhaseOK, LoopOK, Monitored, Below
<1> QED BY <1>3, <1>4 DEF Fetch

\* The start of one processor failed.
LEMMA FailedSerial ==
  ASSUME LifeInv, JobsOK, SerialOK, NEW t \in Threads, thread[t].pc \in {"start", "launch"},
         StartFailed(t), UNCHANGED <<owner, active, monitored, known>>,
         thread[t].job = "hotplug" => t = "hotplug"
  PROVE  NextPhase(t) /\ EndPhase(t)
<1>1. /\ Below(thread[t].cpu) /\ thread[t].last = active - 1
      /\ thread[t].job = "hotplug" =>
           thread[t].cpu = active - 1 /\ known = active - 1 /\ Monitored(known)
  BY PhaseIs DEF PhaseOK, LoopOK
<1>2. CASE thread[t].job = "hotplug" /\ Return(t, FALSE)
  <2>1. thread'[t].pc = "idle"
    BY <1>2, ReturnEnds
  <2>2. Below(known)' /\ Monitored(known)'
    BY <1>1, <1>2, SameOwners DEF Monitored
  <2>3. Settled'
    BY <2>2 DEF Settled
  <2> QED BY <1>2, <2>1, <2>3 DEF NextPhase, EndPhase
<1>3. CASE thread[t].job = "init" /\ BeginLoop(t, "init", "stop", NoBlock)
  <2>1. /\ thread'[t].pc = "stop" /\ thread'[t].cpu = 0 /\ thread'[t].last = active - 1
    BY <1>3, BeginLoopIs
  <2>2. From(0)
    <3>1. thread[t].cpu \in Nat /\ thread[t].cpu <= active
      BY <1>1, PhaseIs DEF Cpus
    <3> QED BY <1>1, <3>1, BelowFrom
  <2>3. From(0)'
    BY <2>2, SameOwners
  <2> QED BY <2>1, <2>3 DEF NextPhase, EndPhase, PhaseOK, LoopOK
<1> QED BY <1>2, <1>3, StartFailedEnds

LEMMA StartSerial ==
  ASSUME LifeInv, JobsOK, SerialOK, NEW t \in Threads, Start(t), known' = known,
         thread[t].job = "hotplug" => t = "hotplug"
  PROVE  NextPhase(t) /\ EndPhase(t)
<1>1. UNCHANGED <<owner, active, monitored, known>> /\ thread[t].pc = "start"
  BY DEF Start, processors, system
<1>2. CASE StartFailed(t)
  BY <1>1, <1>2, FailedSerial
<1>3. CASE Goto(t, "launch")
  <2>1. /\ thread'[t].pc = "launch" /\ thread'[t].job = thread[t].job
        /\ thread'[t].cpu = thread[t].cpu /\ thread'[t].last = thread[t].last
    BY <1>3, GotoIs
  <2>2. LoopOK(thread[t])
    BY <1>1, PhaseIs DEF PhaseOK
  <2> QED BY <1>1, <2>1, <2>2
          DEF NextPhase, EndPhase, PhaseOK, LoopOK, Below, Monitored, IsVirtualized
<1> QED BY <1>2, <1>3 DEF Start

\* The processor is the first that was not virtualized, and it is now.
LEMMA LaunchSerial ==
  ASSUME LifeInv, JobsOK, SerialOK, NEW t \in Threads, Launch(t), known' = known,
         thread[t].job = "hotplug" => t = "hotplug"
  PROVE  NextPhase(t) /\ EndPhase(t)
<1>0. PICK c \in Cpus : c = thread[t].cpu
  BY AtWorkIn
<1>1. /\ UNCHANGED <<active, monitored, known>> /\ thread[t].pc = "launch"
      /\ thread[t].block \in Blocks
  BY AtWorkIn DEF Launch, system, WorkOK
<1>2. /\ Below(c) /\ thread[t].last = active - 1 /\ c \in Cpus /\ c <= thread[t].last
      /\ thread[t].job = "init" => known = active
      /\ thread[t].job = "hotplug" =>
           c = active - 1 /\ known = active - 1 /\ Monitored(known)
  BY <1>0, <1>1, PhaseIs DEF PhaseOK, LoopOK
<1>3. CASE StartFailed(t) /\ UNCHANGED owner
  BY <1>1, <1>3, FailedSerial
<1>4. CASE /\ owner' = [owner EXCEPT ![c] = thread[t].block]
           /\ IF thread[t].job = "hotplug" THEN Return(t, TRUE)
              ELSE IF AtLast(t) THEN BeginLoop(t, "init", "enable", NoBlock)
                   ELSE NextCpu(t, "start")
  <2>1. \A d \in Cpus : IsVirtualized(d)' <=> d = c \/ IsVirtualized(d)
    BY <1>0, <1>1, <1>2, <1>4 DEF IsVirtualized, Blocks, NoBlock, LifeInv, TypeOK
  <2>2. Below(c + 1)'
    <3>1. \A d \in Cpus : (d < c + 1) <=> (d = c \/ d < c)
      BY <1>2, CpusAssumption DEF Cpus
    <3> QED BY <1>2, <2>1, <3>1 DEF Below
  <2>3. c \in Nat /\ active \in Nat /\ known \in Nat
    BY <1>1, <1>2, PhaseIs DEF Cpus
  <2>4. CASE thread[t].job = "hotplug" /\ Return(t, TRUE)
    <3>1. thread'[t].pc = "idle"
      BY <2>4, ReturnEnds
    <3>2. Below(active)' /\ Monitored(known)'
      <4>1. c + 1 = active' /\ Monitored(known)
        BY <1>1, <1>2, <2>3, <2>4
      <4>2. Below(active)'
        BY <2>2, <4>1 DEF Below
      <4> QED BY <1>1, <4>1, <4>2 DEF Monitored
    <3>3. Settled'
      BY <3>2 DEF Settled
    <3> QED BY <2>4, <3>1, <3>3 DEF NextPhase, EndPhase
  <2>5. CASE thread[t].job # "hotplug" /\ AtLast(t) /\ BeginLoop(t, "init", "enable", NoBlock)
    <3>1. /\ thread'[t].pc = "enable" /\ thread'[t].cpu = 0 /\ thread'[t].last = active - 1
      BY <2>5, BeginLoopIs
    <3>2. thread[t].job = "init"
      BY <1>1, <2>5, AtWorkIn DEF WorkOK
    <3>3. c + 1 = active' /\ known' = active'
      BY <1>1, <1>2, <2>3, <2>5, <3>2, <1>0 DEF AtLast
    <3>4. Below(active)'
      BY <2>2, <3>3 DEF Below
    <3>5. Monitored(0)'
      BY CpusAssumption DEF Monitored, Cpus
    <3> QED BY <1>1, <3>1, <3>3, <3>4, <3>5
            DEF NextPhase, EndPhase, PhaseOK, LoopOK, Monitored
  <2>6. CASE thread[t].job # "hotplug" /\ NextCpu(t, "start")
    <3>1. /\ thread'[t].pc = "start" /\ thread'[t].cpu = c + 1
          /\ thread'[t].last = active - 1 /\ thread'[t].job = thread[t].job
      BY <1>2, <2>6, NextCpuIs, <1>0
    <3>2. thread[t].job = "init"
      BY <1>1, <2>6, AtWorkIn DEF WorkOK
    <3>3. Below(thread[t].cpu)'
      BY <2>2, <3>1 DEF Below
    <3> QED BY <1>1, <1>2, <3>1, <3>2, <3>3 DEF NextPhase, EndPhase, PhaseOK, LoopOK, Below
  <2> QED BY <1>4, <2>4, <2>5, <2>6
<1> QED BY <1>0, <1>3, <1>4 DEF Launch

LEMMA EnableSerial ==
  ASSUME LifeInv, JobsOK, SerialOK, NEW t \in Threads, Enable(t), known' = known
  PROVE  NextPhase(t) /\ EndPhase(t)
<1>0. PICK c \in Cpus : c = thread[t].cpu
  BY AtWorkIn
<1>1. /\ UNCHANGED <<owner, active, known>> /\ thread[t].pc = "enable"
      /\ thread[t].job = "init"
  BY AtWorkIn DEF Enable, system, WorkOK
<1>2. /\ known = active /\ Below(active) /\ Monitored(c) /\ thread[t].last = active - 1
      /\ c <= thread[t].last /\ c \in Nat /\ active \in Nat
  BY <1>0, <1>1, PhaseIs DEF PhaseOK, LoopOK
<1>3. IsVirtualized(c)
  BY <1>2 DEF Below
<1>4. monitored' = monitored \union {c}
  BY <1>0, <1>3 DEF Enable
<1>5. Below(active)' /\ Monitored(c + 1)'
  <2>1. \A d \in Cpus : d < c + 1 => d = c \/ d < c
    BY <1>2, CpusAssumption DEF Cpus
  <2> QED BY <1>1, <1>2, <1>4, <2>1, SameOwners DEF Monitored
<1>6. CASE AtLast(t) /\ Return(t, TRUE)
  <2>1. thread'[t].pc = "idle"
    BY <1>6, ReturnEnds
  <2>2. c + 1 = known' /\ known' = active'
    BY <1>0, <1>1, <1>2, <1>6 DEF AtLast
  <2>3. Settled'
    BY <1>5, <2>2 DEF Settled, Monitored
  <2>4. t = "driver" => driver' = "loaded"
    BY <1>1, <1>6 DEF Return
  <2> QED BY <1>1, <2>1, <2>3, <2>4 DEF NextPhase, EndPhase
<1>7. CASE ~AtLast(t) /\ NextCpu(t, "enable")
  <2>1. /\ thread'[t].pc = "enable" /\ thread'[t].cpu = c + 1
        /\ thread'[t].last = active - 1
    BY <1>0, <1>2, <1>7, NextCpuIs
  <2>2. Monitored(thread[t].cpu)'
    BY <1>5, <2>1 DEF Monitored
  <2> QED BY <1>1, <1>2, <1>5, <2>1, <2>2 DEF NextPhase, EndPhase, PhaseOK, LoopOK, Monitored
<1> QED BY <1>0, <1>3, <1>6, <1>7 DEF Enable

LEMMA DisableSerial ==
  ASSUME LifeInv, JobsOK, SerialOK, NEW t \in Threads, Disable(t)
  PROVE  NextPhase(t) /\ EndPhase(t)
<1>1. UNCHANGED <<owner, active>> /\ thread[t].pc = "disable"
  BY DEF Disable, system
<1>2. From(0) /\ thread[t].last = active - 1
  BY <1>1, PhaseIs DEF PhaseOK, LoopOK
<1>3. From(0)'
  BY <1>1, <1>2, SameOwners
<1>4. CASE BeginLoop(t, "term", "stop", NoBlock)
  <2>1. thread'[t].pc = "stop" /\ thread'[t].cpu = 0 /\ thread'[t].last = active - 1
    BY <1>4, BeginLoopIs
  <2> QED BY <1>1, <1>3, <2>1 DEF NextPhase, EndPhase, PhaseOK, LoopOK
<1>5. CASE NextCpu(t, "disable")
  <2>1. thread'[t].pc = "disable" /\ thread'[t].last = active - 1
    BY <1>2, <1>5, NextCpuIs
  <2> QED BY <1>1, <1>3, <2>1 DEF NextPhase, EndPhase, PhaseOK, LoopOK
<1> QED BY <1>4, <1>5 DEF Disable

\* The loop of VmpStopVm is over when no processor is virtualized.
LEMMA StoppedSerial ==
  ASSUME LifeInv, JobsOK, NEW t \in Threads, thread[t].pc \in {"stop", "free"},
         StopOver(t), UNCHANGED <<owner, active>>, NoneVirtualized
  PROVE  NextPhase(t) /\ EndPhase(t)
<1>1. NoneVirtualized'
  BY SameOwners
<1>2. CASE Return(t, FALSE)
  <2>1. thread'[t].pc = "idle"
    BY <1>2, ReturnEnds
  <2> QED BY <1>1, <2>1 DEF NextPhase, EndPhase, Settled
<1>3. CASE Goto(t, "assert")
  <2>1. thread'[t].pc = "assert"
    BY <1>3, GotoIs
  <2> QED BY <1>1, <2>1 DEF NextPhase, EndPhase, PhaseOK, LoopOK
<1> QED BY <1>2, <1>3, StopOverEnds

LEMMA StopSerial ==
  ASSUME LifeInv, JobsOK, SerialOK, NEW t \in Threads, Stop(t)
  PROVE  NextPhase(t) /\ EndPhase(t)
<1>0. PICK c \in Cpus : c = thread[t].cpu
  BY AtWorkIn
<1>1. /\ active' = active /\ thread[t].pc = "stop" /\ active \in Nat /\ c \in Nat
      /\ \A d \in Cpus : d \in Nat
  BY <1>0, PhaseIs DEF Stop, system
<1>2. From(c) /\ thread[t].last = active - 1
  BY <1>0, <1>1, PhaseIs DEF PhaseOK, LoopOK
<1>3. CASE /\ IsVirtualized(c) /\ owner' = [owner EXCEPT ![c] = NoBlock]
           /\ thread' = [thread EXCEPT ![t].pc = "free", ![t].block = owner[c]]
  <2>1. \A d : d \in Cpus => (IsVirtualized(d)' <=> d # c /\ IsVirtualized(d))
    BY <1>3 DEF IsVirtualized, LifeInv, TypeOK
  <2>2. From(c + 1)'
    <3> SUFFICES ASSUME NEW d \in Cpus, IsVirtualized(d)'
                 PROVE  /\ c + 1 <= d /\ d < active
                        /\ \A e \in (c + 1) .. d : IsVirtualized(e)'
      BY <1>1 DEF From
    <3>1. /\ d # c /\ c <= d /\ d < active
          /\ \A e \in c .. d : IsVirtualized(e)
      BY <1>2, <2>1 DEF From
    <3>2. ASSUME NEW e \in (c + 1) .. d
          PROVE  e \in c .. d /\ e # c /\ e \in Cpus
      BY <1>1, <3>1, CpusAssumption DEF Cpus
    <3>3. \A e \in (c + 1) .. d : IsVirtualized(e)'
      BY <2>1, <3>1, <3>2
    <3> QED BY <1>1, <3>1, <3>3
  <2>3. thread'[t].pc = "free" /\ thread'[t].cpu = c /\ thread'[t].last = active - 1
    BY <1>0, <1>2, <1>3, AtWorkIn DEF Work
  <2>4. From(thread[t].cpu + 1)'
    BY <2>2, <2>3 DEF From
  <2> QED BY <1>1, <2>3, <2>4 DEF NextPhase, EndPhase, PhaseOK, LoopOK
<1>4. CASE ~IsVirtualized(c) /\ StopOver(t) /\ UNCHANGED owner
  <2>1. NoneVirtualized
    <3> SUFFICES ASSUME NEW d \in Cpus, IsVirtualized(d) PROVE FALSE
      BY DEF NoneVirtualized
    <3>1. c <= d /\ \A e \in c .. d : IsVirtualized(e)
      BY <1>2 DEF From
    <3>2. c \in c .. d
      BY <1>1, <3>1
    <3> QED BY <1>4, <3>1, <3>2
  <2> QED BY <1>1, <1>4, <2>1, StoppedSerial
<1> QED BY <1>0, <1>3, <1>4 DEF Stop, processors

LEMMA FreeSerial ==
  ASSUME LifeInv, JobsOK, SerialOK, NEW t \in Threads, Free(t)
  PROVE  NextPhase(t) /\ EndPhase(t)
<1>0. PICK c \in Cpus : c = thread[t].cpu
  BY AtWorkIn
<1>1. /\ UNCHANGED <<owner, active>> /\ thread[t].pc = "free" /\ active \in Nat
      /\ c \in Nat /\ \A d \in Cpus : d \in Nat
  BY <1>0, PhaseIs DEF Free, system, processors
<1>2. From(c + 1) /\ thread[t].last = active - 1
  BY <1>0, <1>1, PhaseIs DEF PhaseOK, LoopOK
<1>3. CASE AtLast(t) /\ StopOver(t)
  <2>1. c + 1 = active
    BY <1>0, <1>1, <1>2, <1>3 DEF AtLast
  <2>2. From(active)
    BY <1>2, <2>1
  <2>3. NoneVirtualized
    BY <1>1, <2>2 DEF From, NoneVirtualized
  <2> QED BY <1>1, <1>3, <2>3, StoppedSerial
<1>4. CASE NextCpu(t, "stop")
  <2>1. thread'[t].pc = "stop" /\ thread'[t].cpu = c + 1 /\ thread'[t].last = active - 1
    BY <1>0, <1>2, <1>4, NextCpuIs
  <2>2. From(c + 1)'
    BY <1>1, <1>2, SameOwners
  <2>3. From(thread[t].cpu)'
    BY <2>1, <2>2 DEF From
  <2> QED BY <1>1, <2>1, <2>3 DEF NextPhase, EndPhase, PhaseOK, LoopOK
<1> QED BY <1>3, <1>4 DEF Free

LEMMA AssertSerial ==
  ASSUME LifeInv, SerialOK, NEW t \in Threads, Assert(t)
  PROVE  NextPhase(t) /\ EndPhase(t)
<1>1. NoneVirtualized /\ UNCHANGED <<owner, active>>
  BY PhaseIs DEF PhaseOK, Assert, processors, system
<1>2. NoneVirtualized'
  BY <1>1, SameOwners
<1>3. thread'[t].pc = "idle"
  BY ReturnEnds DEF Assert
<1> QED BY <1>2, <1>3 DEF NextPhase, EndPhase, Settled

\* Any step of a thread that is alone.
LEMMA AloneSerial ==
  ASSUME LifeInv, JobsOK, RacedNoticed, ~raced, SerialOK, NEW t \in Threads, Step(t), History
  PROVE  SerialOK'
<1>1. Moves(t) /\ thread[t].pc # "idle" /\ Busy(t)
  BY StepIs, BusyAtWork
<1>2. \A o \in Threads \ {t} : thread[o].pc = "idle"
  BY <1>1, AloneIs
<1>3. thread[t].pc # "check" => known' = known
  <2> SUFFICES ASSUME thread[t].pc # "check" PROVE known' = known
    OBVIOUS
  <2>1. \A o \in Threads : thread[o].pc # "check"
    BY <1>2
  <2> QED BY <2>1, KnownStays
<1>4. thread[t].job = "hotplug" => t = "hotplug"
  BY <1>1 DEF JobsOK, DriverJobOK, PowerJobOK, Threads
<1>5. Fetch(t) => thread[t].job = "hotplug"
  BY AtWorkIn DEF Fetch, WorkOK
<1>6. NextPhase(t) /\ EndPhase(t)
  <2>1. CASE Check(t)
    BY <2>1, CheckSerial
  <2>2. CASE Fetch(t)
    BY <1>3, <1>4, <1>5, <2>2, FetchSerial DEF Fetch
  <2>3. CASE Start(t)
    BY <1>3, <1>4, <2>3, StartSerial DEF Start
  <2>4. CASE Launch(t)
    BY <1>3, <1>4, <2>4, LaunchSerial DEF Launch
  <2>5. CASE Enable(t)
    BY <1>3, <2>5, EnableSerial DEF Enable
  <2>6. CASE Disable(t)
    BY <2>6, DisableSerial
  <2>7. CASE Stop(t)
    BY <2>7, StopSerial
  <2>8. CASE Free(t)
    BY <2>8, FreeSerial
  <2>9. CASE Assert(t)
    BY <2>9, AssertSerial
  <2> QED BY <2>1, <2>2, <2>3, <2>4, <2>5, <2>6, <2>7, <2>8, <2>9 DEF Step
<1> QED BY <1>6, StepSerial
-----------------------------------------------------------------------------
(* The steps of the driver and of the system, as long as nobody meets      *)
(* another.                                                                *)

\* The next state is one where at most one thread is at work.
LEMMA NextAlone ==
  ASSUME History, ~raced', NEW t \in Threads, Busy(t)'
  PROVE  /\ ~raced
         /\ \A o \in Threads \ {t} : ~Busy(o)'
         /\ t # "driver" => driver' \notin {"entry", "unwind"}
         /\ t # "power" => power' = "on" /\ thread'["power"].pc = "idle"
         /\ t # "hotplug" => thread'["hotplug"].pc = "idle"
BY BusyIs DEF History, TwoAtWork, Threads, Busy

\* All threads are outside vm.cpp and the processors stay as they are.
LEMMA AllIdle ==
  ASSUME SerialOK, \A t \in Threads : thread[t].pc = "idle",
         UNCHANGED <<owner, active, monitored, known>>
  PROVE  Settled'
<1>1. Settled
  BY DEF SerialOK
<1> QED BY <1>1, SameOwners DEF Settled, Monitored

LEMMA LadderSerial ==
  ASSUME LifeInv, JobsOK, SerialOK, Load \/ InitializeSubsystem \/ TerminateSubsystem, History
  PROVE  SerialOK'
<1>1. UNCHANGED <<owner, active, monitored, thread, power>> /\ driver # "loaded"
  BY DEF Load, InitializeSubsystem, TerminateSubsystem, processors, system
<1>2. known' = known
  BY <1>1, KnownStays
<1>3. \A t \in Threads : PhaseOK(thread[t])' <=> PhaseOK(thread[t])
  BY <1>1, <1>2, SameOwners DEF PhaseOK, LoopOK, Monitored
<1>4. Settled' <=> Settled
  BY <1>1, <1>2, SameOwners DEF Settled, Monitored
<1> QED BY <1>1, <1>3, <1>4, SameOwners DEF SerialOK

LEMMA CallVmInitializationSerial ==
  ASSUME LifeInv, JobsOK, SerialOK, CallVmInitialization, History
  PROVE  SerialOK'
<1>1. /\ UNCHANGED <<owner, active, driver, power>> /\ driver = "entry"
      /\ thread["driver"].pc = "idle"
  BY DEF CallVmInitialization, processors, system, driverState
<1>2. /\ thread["power"].pc = "idle" /\ thread["hotplug"].pc = "idle" /\ power = "on"
      /\ NoneVirtualized
  BY <1>1 DEF SerialOK
<1>3. NoneVirtualized'
  BY <1>1, <1>2, SameOwners
<1>4. /\ thread'["driver"].pc = "check" /\ thread'["power"].pc = "idle"
      /\ thread'["hotplug"].pc = "idle"
  BY <1>2, CallVmInitializationIs
<1> QED BY <1>1, <1>2, <1>3, <1>4 DEF SerialOK, PhaseOK, LoopOK, Settled, Threads

\* VmTermination begins when nobody is in vm.cpp.
LEMMA TerminationSerial ==
  ASSUME LifeInv, JobsOK, SerialOK, History, NEW t \in {"driver", "power"},
         \A o \in Threads : thread[o].pc = "idle",
         \A o \in Threads \ {t} : thread'[o].pc = "idle",
         thread'[t].pc = "disable", thread'[t].last = active - 1,
         UNCHANGED <<owner, active, monitored>>,
         t = "power" => driver' = "loaded",
         t = "driver" => power' = "on"
  PROVE  SerialOK'
<1>1. From(0)
  BY SettledFrom DEF SerialOK
<1>2. From(0)'
  BY <1>1, SameOwners
<1>3. PhaseOK(thread[t])'
  BY <1>2 DEF PhaseOK, LoopOK
<1> QED BY <1>3 DEF SerialOK, Threads

LEMMA UnloadSerial ==
  ASSUME LifeInv, JobsOK, SerialOK, Unload, History, ~raced'
  PROVE  SerialOK'
<1>1. Busy("driver")'
  BY UnloadIs DEF Busy
<1>2. power' = "on" /\ thread'["power"].pc = "idle" /\ thread'["hotplug"].pc = "idle"
  BY <1>1, NextAlone DEF Threads
<1> QED BY <1>2, UnloadIs, TerminationSerial DEF Threads, processors, system

LEMMA SuspendSerial ==
  ASSUME LifeInv, JobsOK, SerialOK, Suspend, History, ~raced'
  PROVE  SerialOK'
<1>1. Busy("power")'
  BY SuspendIs DEF Busy
<1>2. driver' \notin {"entry", "unwind"} /\ thread'["hotplug"].pc = "idle"
  BY <1>1, NextAlone DEF Threads
<1>3. driver = "loaded" /\ driver' = driver
  <2>1. driver # "absent" /\ driver' = driver
    BY SuspendIs DEF Suspend, PowerRung, JobsOK, DriverJobOK, driverState
  <2> QED BY <1>2, <2>1 DEF LifeInv, TypeOK
<1>4. thread["driver"].pc = "idle"
  BY <1>3, JobsFacts
<1> QED BY <1>2, <1>3, <1>4, SuspendIs, TerminationSerial DEF Threads, processors

LEMMA SleepSame ==
  ASSUME LifeInv, JobsOK, SerialOK, Sleep
  PROVE  owner' = owner /\ NoneVirtualized
<1>1. NoneVirtualized
  BY DEF SerialOK, Sleep
<1> QED BY <1>1 DEF NoneVirtualized, IsVirtualized, Sleep, LifeInv, TypeOK

LEMMA SleepSerial ==
  ASSUME LifeInv, JobsOK, RacedNoticed, ~raced, SerialOK, Sleep, History
  PROVE  SerialOK'
<1>1. UNCHANGED <<active, thread, driver>> /\ power = "suspending" /\ thread["power"].pc = "idle"
  BY DEF Sleep, driverState
<1>2. Busy("power")
  BY <1>1 DEF Busy
<1>3. \A o \in Threads : thread[o].pc = "idle"
  BY <1>1, <1>2, AloneIs DEF Threads
<1>4. NoneVirtualized'
  BY <1>1, SleepSame, SameOwners
<1>5. driver' = "loaded"
  BY <1>1 DEF SerialOK
<1> QED BY <1>1, <1>3, <1>4, <1>5 DEF SerialOK, Settled

LEMMA ResumeSerial ==
  ASSUME LifeInv, JobsOK, RacedNoticed, ~raced, SerialOK, Resume, History
  PROVE  SerialOK'
<1>1. UNCHANGED <<owner, active, driver>> /\ power = "resuming" /\ power' = "on"
      /\ thread["power"].pc = "idle"
  BY ResumeIs DEF processors, driverState
<1>2. Busy("power")
  BY <1>1 DEF Busy
<1>3. \A o \in Threads : thread[o].pc = "idle"
  BY <1>1, <1>2, AloneIs DEF Threads
<1>4. NoneVirtualized' /\ driver' = "loaded"
  BY <1>1, SameOwners DEF SerialOK
<1>5. /\ thread'["driver"].pc = "idle" /\ thread'["hotplug"].pc = "idle"
      /\ thread'["power"].pc \in {"idle", "check"}
  BY <1>3, ResumeIs DEF Threads
<1> QED BY <1>1, <1>4, <1>5 DEF SerialOK, PhaseOK, LoopOK, Settled, Threads

LEMMA AddProcessorSerial ==
  ASSUME OneIsAdded, LifeInv, JobsOK, SerialOK, AddProcessor, History, ~raced'
  PROVE  SerialOK'
<1>1. /\ active' = active + 1 /\ UNCHANGED <<owner, monitored, driver, up, power>>
      /\ thread["hotplug"].pc = "idle" /\ active \in Nat
  BY AddProcessorIs, JobsFacts, CpusAssumption DEF processors, driverState
<1>2. known = active
  BY AddProcessorIs, CpusAssumption DEF OneIsAdded, LifeInv, TypeOK, JobsOK
<1>3. NoneVirtualized' <=> NoneVirtualized
  BY <1>1 DEF NoneVirtualized, IsVirtualized
<1>4. CASE up >= HotplugRung
  <2>1. /\ thread'["hotplug"].pc = "fetch" /\ thread'["hotplug"].cpu = active
        /\ thread'["hotplug"].last = active
        /\ thread'["driver"] = thread["driver"] /\ thread'["power"] = thread["power"]
    BY <1>4, AddProcessorIs
  <2>2. Busy("hotplug")'
    BY <2>1 DEF Busy
  <2>3. /\ driver' \notin {"entry", "unwind"} /\ power' = "on"
        /\ thread'["power"].pc = "idle"
    BY <2>2, NextAlone DEF Threads
  <2>4. driver = "loaded"
    BY <1>1, <1>4, <2>3 DEF JobsOK, DriverJobOK, HotplugRung, LifeInv, TypeOK
  <2>5. thread["driver"].pc = "idle"
    BY <2>4, JobsFacts
  <2>6. Settled
    BY <1>1, <2>1, <2>3, <2>5 DEF SerialOK, Threads
  <2>7. known' = known
    BY <1>1, <2>1, <2>3, <2>5, KnownStays DEF Threads
  <2>8. NoneVirtualized' \/ (Below(known)' /\ Monitored(known)')
    BY <1>1, <1>2, <1>3, <2>6, <2>7 DEF Settled, Below, IsVirtualized, Monitored
  <2>9. PhaseOK(thread["hotplug"])'
    BY <1>1, <1>2, <2>1, <2>7, <2>8 DEF PhaseOK, LoopOK
  <2> QED BY <1>1, <2>1, <2>3, <2>4, <2>5, <2>9 DEF SerialOK, Threads
<1>5. CASE ~(up >= HotplugRung)
  <2>1. \A t \in Threads : thread'[t] = thread[t]
    BY <1>5, AddProcessorIs DEF Threads
  <2>2. driver # "loaded"
    BY <1>5 DEF JobsOK, DriverJobOK, HotplugRung, VmRung
  <2>3. thread["driver"].pc = "idle"
    BY <1>5, TypeParts DEF JobsOK, DriverJobOK, HotplugRung, VmRung, LifeInv, DriverOnLadder
  <2>4. NoneVirtualized' /\ thread["power"].pc = "idle" /\ power = "on"
    BY <1>3, <2>2, <2>3 DEF SerialOK
  <2> QED BY <1>1, <2>1, <2>2, <2>3, <2>4 DEF SerialOK, Settled, Threads
<1> QED BY <1>4, <1>5
-----------------------------------------------------------------------------
(* All together.                                                           *)

LEMMA OutsideExact ==
  ASSUME RefsExact, UNCHANGED <<owner, refs>>,
         \A t \in Threads, b \in Blocks : Holds(thread'[t], b) <=> Holds(thread[t], b)
  PROVE  RefsExact'
<1> SUFFICES ASSUME NEW b \in Blocks
             PROVE  refs'[b] <= Cardinality(Owners(b)') + Cardinality(Holding(b)')
  BY DEF RefsExact
<1>1. Owners(b)' = Owners(b) /\ Holding(b)' = Holding(b)
  BY DEF Owners, Holding, Holds
<1> QED BY <1>1 DEF RefsExact

LEMMA OutsideLive ==
  ASSUME LiveUsed, UNCHANGED memory,
         \A t \in Threads : thread[t].pc = "start" => thread'[t] = thread[t]
  PROVE  LiveUsed'
BY DEF LiveUsed, memory

\* The steps that are not a thread's in vm.cpp.
Outside ==
  \/ Load \/ InitializeSubsystem \/ CallVmInitialization \/ TerminateSubsystem
  \/ Unload \/ Suspend \/ Sleep \/ Resume \/ AddProcessor

LEMMA OutsideIs ==
  ASSUME LifeInv, JobsOK, Outside
  PROVE  /\ UNCHANGED memory
         /\ ~Sleep => UNCHANGED owner
         /\ \A t \in Threads : \/ thread'[t] = thread[t]
                               \/ /\ thread[t].pc = "idle"
                                  /\ thread'[t].pc \in {"check", "disable", "fetch"}
<1>1. CASE Load \/ InitializeSubsystem \/ TerminateSubsystem
  BY <1>1 DEF Load, InitializeSubsystem, TerminateSubsystem, processors
<1>2. CASE CallVmInitialization
  <2>1. /\ thread["driver"].pc = "idle" /\ thread'["driver"].pc = "check"
        /\ UNCHANGED <<owner, memory>>
    BY <1>2, CallVmInitializationIs DEF CallVmInitialization, processors
  <2> QED BY <1>2, <2>1, CallVmInitializationIs DEF Threads
<1>3. CASE Unload
  BY <1>3, UnloadIs DEF Threads, processors
<1>4. CASE Suspend
  BY <1>4, SuspendIs DEF Threads, processors
<1>5. CASE Sleep
  BY <1>5 DEF Sleep
<1>6. CASE Resume
  BY <1>6, ResumeIs DEF Threads, processors
<1>7. CASE AddProcessor
  BY <1>7, AddProcessorIs DEF Threads, processors
<1> QED BY <1>1, <1>2, <1>3, <1>4, <1>5, <1>6, <1>7 DEF Outside

LEMMA OutsideJobs ==
  ASSUME LifeInv, JobsOK, Outside, History
  PROVE  JobsOK'
BY LadderJobs, CallVmInitializationJobs, UnloadJobs, SuspendJobs, SleepJobs, ResumeJobs,
   AddProcessorJobs DEF Outside

LEMMA OutsideSerial ==
  ASSUME OneIsAdded, LifeInv, JobsOK, RacedNoticed, ~raced, SerialOK, Outside, History, ~raced'
  PROVE  SerialOK'
BY LadderSerial, CallVmInitializationSerial, UnloadSerial, SuspendSerial, SleepSerial,
   ResumeSerial, AddProcessorSerial DEF Outside

LEMMA InitSerial ==
  ASSUME Init
  PROVE  SerialInv
<1>1. \A t \in Threads : thread[t] = NoJob
  BY DEF Init
<1>2. /\ \A t \in Threads : thread[t].pc = "idle" /\ thread[t].job = "none"
      /\ driver = "absent" /\ up = 0 /\ power = "on" /\ known = active
      /\ \A b \in Blocks : blocks[b] # "live" /\ refs[b] = 0
  BY <1>1 DEF Init, NoJob
<1>3. JobsOK
  <2>1. known <= active
    BY CpusAssumption DEF Init
  <2> QED BY <1>2, <2>1
          DEF JobsOK, Allowed, DriverJobOK, PowerJobOK, HotplugJobOK, Threads, VmRung
<1>4. NoneVirtualized
  BY DEF NoneVirtualized, IsVirtualized, Init
<1>5. SerialOK
  BY <1>2, <1>4 DEF SerialOK, Settled, Threads
<1>6. RefsExact
  <2> SUFFICES ASSUME NEW b \in Blocks
               PROVE  refs[b] <= Cardinality(Owners(b)) + Cardinality(Holding(b))
    BY DEF RefsExact
  <2>1. Cardinality(Owners(b)) \in Nat /\ Cardinality(Holding(b)) \in Nat
    BY FiniteParts, FS_CardinalityType
  <2> QED BY <1>2, <2>1
<1>7. LiveUsed
  BY <1>2 DEF LiveUsed
<1>8. RacedNoticed
  BY <1>2, BusyIs DEF RacedNoticed, TwoAtWork, Threads
<1> QED BY <1>3, <1>5, <1>6, <1>7, <1>8 DEF SerialInv

LEMMA NextSerial ==
  ASSUME OneIsAdded, AliveInv, SerialInv, [Next]_vars
  PROVE  SerialInv'
<1>0. LifeInv /\ JobsOK /\ LiveUsed /\ RacedNoticed /\ (~raced => SerialOK /\ RefsExact)
  BY DEF AliveInv, SerialInv
<1>1. ASSUME NEW t \in Threads, Step(t), History
      PROVE  SerialInv'
  <2>1. JobsOK' /\ LiveUsed'
    BY <1>0, <1>1, StepJobs, StepLive
  <2>2. RacedNoticed' /\ (~raced' => ~raced)
    BY <1>1 DEF History, RacedNoticed
  <2>3. ~raced => SerialOK' /\ RefsExact'
    BY <1>0, <1>1, AloneSerial, StepExact
  <2> QED BY <2>1, <2>2, <2>3 DEF SerialInv
<1>2. ASSUME Outside, History
      PROVE  SerialInv'
  <2>1. /\ UNCHANGED memory
        /\ ~Sleep => UNCHANGED owner
        /\ \A t \in Threads : \/ thread'[t] = thread[t]
                              \/ /\ thread[t].pc = "idle"
                                 /\ thread'[t].pc \in {"check", "disable", "fetch"}
    BY <1>0, <1>2, OutsideIs
  <2>2. JobsOK'
    BY <1>0, <1>2, OutsideJobs
  <2>3. RacedNoticed' /\ (~raced' => ~raced)
    BY <1>2 DEF History, RacedNoticed
  <2>4. LiveUsed'
    <3>1. \A t \in Threads : thread[t].pc = "start" => thread'[t] = thread[t]
      BY <2>1
    <3> QED BY <1>0, <2>1, <3>1, OutsideLive
  <2>5. ~raced' => RefsExact'
    <3> SUFFICES ASSUME ~raced' PROVE RefsExact'
      OBVIOUS
    <3>1. UNCHANGED <<owner, refs>>
      BY <1>0, <2>1, <2>3, SleepSame DEF memory
    <3>2. \A t \in Threads, b \in Blocks : Holds(thread'[t], b) <=> Holds(thread[t], b)
      BY <2>1 DEF Holds
    <3> QED BY <1>0, <2>3, <3>1, <3>2, OutsideExact
  <2>6. ~raced' => SerialOK'
    BY <1>0, <1>2, <2>3, OutsideSerial
  <2> QED BY <2>2, <2>3, <2>4, <2>5, <2>6 DEF SerialInv
<1>3. CASE UNCHANGED vars
  <2>1. JobsOK' /\ RacedNoticed' /\ LiveUsed'
    BY <1>0, <1>3 DEF vars, JobsOK, DriverJobOK, PowerJobOK, HotplugJobOK, RacedNoticed,
                      TwoAtWork, Busy, LiveUsed
  <2>2. RefsExact' <=> RefsExact
    BY <1>3 DEF vars, RefsExact, Owners, Holding, Holds
  <2>3. SerialOK' <=> SerialOK
    <3>1. \A t \in Threads : PhaseOK(thread[t])' <=> PhaseOK(thread[t])
      BY <1>3, SameOwners DEF vars, PhaseOK, LoopOK, Monitored
    <3>2. Settled' <=> Settled
      BY <1>3, SameOwners DEF vars, Settled, Monitored
    <3> QED BY <1>3, <3>1, <3>2, SameOwners DEF vars, SerialOK
  <2>4. raced' = raced
    BY <1>3 DEF vars
  <2> QED BY <1>0, <2>1, <2>2, <2>3, <2>4 DEF SerialInv
<1> QED BY <1>1, <1>2, <1>3 DEF Next, DriverStep, PowerStep, Outside

\* What SerialInv says holds in every state, whatever the number of processors,
\* loads and suspends: which routine each thread can be in, and, as long as
\* only one is at work, which processors it finds virtualized.
THEOREM SerialInvariant ==
  ASSUME OneIsAdded
  PROVE  Spec => []SerialInv
<1>1. Init => SerialInv
  BY InitSerial
<1>2. AliveInv /\ SerialInv /\ [Next]_vars => SerialInv'
  BY NextSerial
<1> QED BY <1>1, <1>2, AliveInvariant, PTL DEF Spec

\* vm.cpp:356: as long as one thread at a time is in vm.cpp, no start meets a
\* processor that is virtualized already.
THEOREM StartsOnceHolds ==
  ASSUME OneIsAdded
  PROVE  Spec => []StartsOnce
<1>1. AliveInv /\ SerialInv => StartsOnce
  <2> SUFFICES ASSUME LifeInv, SerialOK, NEW t \in Threads, thread[t].pc = "launch"
               PROVE  ~IsVirtualized(thread[t].cpu)
    BY DEF StartsOnce, SerialInv, AliveInv
  <2>1. Below(thread[t].cpu) /\ thread[t].cpu \in Cpus /\ thread[t].cpu \in Nat
    BY PhaseIs DEF PhaseOK, LoopOK
  <2> QED BY <2>1 DEF Below
<1> QED BY <1>1, AliveInvariant, SerialInvariant, PTL

\* vm.cpp:954: as long as one thread at a time is in vm.cpp, the end of
\* VmTermination finds no processor virtualized.
THEOREM NotInstalledAfterTerminationHolds ==
  ASSUME OneIsAdded
  PROVE  Spec => []NotInstalledAfterTermination
<1>1. AliveInv /\ SerialInv => NotInstalledAfterTermination
  <2> SUFFICES ASSUME LifeInv, SerialOK, NEW t \in Threads, thread[t].pc = "assert",
                      NEW c \in Active
               PROVE  ~IsVirtualized(c)
    BY DEF NotInstalledAfterTermination, SerialInv, AliveInv
  <2>1. NoneVirtualized /\ Active \subseteq Cpus
    BY PhaseIs DEF PhaseOK
  <2> QED BY <2>1 DEF NoneVirtualized
<1> QED BY <1>1, AliveInvariant, SerialInvariant, PTL

\* VmInitialization virtualizes and monitors all processors or none, and
\* VmTermination none, as long as one thread at a time is in vm.cpp.
THEOREM AllOrNothingHolds ==
  ASSUME OneIsAdded
  PROVE  Spec => []AllOrNothing
<1>1. AliveInv /\ SerialInv => AllOrNothing
  <2> SUFFICES ASSUME LifeInv, JobsOK, SerialOK, Quiet, ~NoneVirtualized,
                      NEW c \in 0 .. (known - 1)
               PROVE  IsVirtualized(c) /\ c \in monitored
    BY DEF AllOrNothing, SerialInv, AliveInv, NoneVirtualized
  <2>1. \A t \in Threads : thread[t].pc = "idle"
    BY BusyAtWork DEF Quiet
  <2>2. (Below(known) \/ Below(active)) /\ Monitored(known)
    BY <2>1 DEF SerialOK, Settled
  <2>3. c \in Cpus /\ c < known /\ c < active
    BY CpusAssumption DEF LifeInv, TypeOK, JobsOK, Cpus
  <2> QED BY <2>2, <2>3 DEF Below, Monitored
<1> QED BY <1>1, AliveInvariant, SerialInvariant, PTL

\* A driver that is not loaded leaves no processor virtualized and no shared
\* data behind, whatever else failed on the way, as long as one thread at a
\* time was in vm.cpp.  Where VmpInitializeVm has no memory for the processor
\* data (vm.cpp:380) the shared data does stay.
THEOREM UnloadUndoesLoadHolds ==
  ASSUME OneIsAdded, "processor" \notin FailingSteps
  PROVE  Spec => []UnloadUndoesLoad
<1>1. AliveInv /\ SerialInv => UnloadUndoesLoad
  <2> SUFFICES ASSUME LifeInv, JobsOK, LiveUsed, SerialOK, RefsExact, driver = "absent"
               PROVE  NoneVirtualized /\ \A b \in Blocks : blocks[b] # "live"
    BY DEF UnloadUndoesLoad, SerialInv, AliveInv, NoneVirtualized
  <2>1. \A t \in Threads : thread[t].pc = "idle"
    BY JobsFacts DEF SerialOK, Threads
  <2>2. NoneVirtualized
    BY <2>1 DEF SerialOK, Threads
  <2>3. ASSUME NEW b \in Blocks, blocks[b] = "live"
        PROVE  FALSE
    <3>1. Owners(b) = {} /\ Holding(b) = {}
      BY <2>1, <2>2 DEF Owners, Holding, Holds, NoneVirtualized, IsVirtualized, Blocks, NoBlock
    <3>2. refs[b] <= 0
      BY <3>1, FS_EmptySet DEF RefsExact
    <3>3. refs[b] > 0
      BY <2>1, <2>3 DEF LiveUsed
    <3> QED BY <3>2, <3>3 DEF LifeInv, TypeOK
  <2> QED BY <2>2, <2>3
<1> QED BY <1>1, AliveInvariant, SerialInvariant, PTL
=============================================================================
