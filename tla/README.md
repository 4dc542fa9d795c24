# A TLA+ verification of DeviceMon

DeviceMon is a Windows driver that puts the running system into a virtual
machine and watches the memory-mapped registers of chosen PCI devices. It
hides their pages in the EPT of every processor; an access leaves to the VMM,
which calls the device's callback, opens the page, single-steps the
instruction and hides the page again. This directory models the parts of it
that keep state, checks them with TLC and proves some results with TLAPS. All
paths below are relative to `src/DeviceMon/` unless they start with `src/`.

## The system

| Component | State it keeps | Operations | What makes it correct |
|---|---|---|---|
| Device monitor (`DevMon.cpp`) | `g_MonitorDeviceList` (BAR addresses and limits), access rights of EPT entries | `DmEnableMonitor`, `DmDisableMonitor`, sizing a BAR, revoking and restoring pages, claim test, dispatch to callbacks | every access to a monitored BAR reaches the callback; BARs are as before; disabling undoes enabling |
| VM-exit handlers (`vmm.cpp`) | guest registers, `LastFaultEntry`, monitor trap flag, VMCS | one handler per exit reason | a page is open only for one reported instruction; each handler emulates its instruction |
| EPT (`ept.cpp`) | four-level tables per processor, 50 preallocated tables, `g_eptp_mtrr_entries` | build, look up, extend on a violation, destroy | identity map, no table freed twice or leaked, memory types as the MTRRs say |
| VM setup (`vm.cpp`) | `ProcessorData` per processor, reference-counted `SharedProcessorData` | `VmInitialization`, `VmTermination`, `VmHotplugCallback` | all processors or none; shared data outlives its users |
| Driver (`driver.cpp`), power and hot-plug callbacks | which subsystems are up, registrations | load with unwinding, unload, suspend, resume, new processor | unload undoes load; calls return |
| Log (`log.cpp`) | two buffers, a spin lock, an ERESOURCE, flush thread, file | `LogpPrint` from any context, flush, (re)initialization, termination | nothing accepted is lost or reordered; no use after free; no deadlock |
| Device callbacks (`Spi`, `Me`, `Usb`, `network`) | none of their own | `Callback`, `Callback2` (combine or cut a BAR) | called with a read or a write |
| Fuzzer (`Fuzzer.cpp`) | `Record` table from Rip to destination register, shared by all processors | `StartFuzz`: look up, take an entry, decode, store | the register found is the instruction's; a lookup ends |
| Utilities (`util.cpp`) | physical memory ranges | `UtilForEachProcessor`, PCI configuration access, VMCALL | see their callers |
| Performance (`perf_counter.h`, `performance.cpp`) | table of counters, shared by all processors | `AddData` at the end of every handler but VMCALL's and of `VmmpHandleVmExit`, `Terminate` | counts are lost at most, never invented |
| PCI configuration space (`util.cpp`, `x64.asm`) | the address port of the machine | `ReadPCICfg`, `WritePCICfg` with the ports in two instructions | the register named is the one reached |
| Global objects, types, x86 assembly, Capstone, Intel PT | none in this build | | |

They interact by calls, by shared memory and by VM exits. Loading calls
`VmInitialization`, which builds an EPT and launches the VMM on one processor
after the other and then enables the monitor by a VMCALL loop. From then on
the VMM runs on each processor whenever the guest there causes an exit, on top
of whatever the guest was doing, including the driver's own code. The power and
hot-plug callbacks run in threads of their own and call the same routines of
`vm.cpp` as loading and unloading. Everything logs.

Hard behaviours: the control thread of the monitor works processor by
processor while the others run the guest; handlers interrupt any code; three
threads may be in `vm.cpp` with no lock; allocation may fail at every step;
the log is written from contexts that must not wait; tables and ports are
shared by the handlers of all processors without a lock; integers are cut to
32 bits. `PROJECT.json` lists these hazards at their lines with the properties
that cover them.

## The modules

**`DeviceMonitor`** models `DevMon.cpp` with the EPT-violation and monitor-trap
handlers of `vmm.cpp`. Each processor has a `mode` (in the guest, at an
instruction boundary with the trap flag set, in VMX root), its EPT entries
(`absent`, `open`, `trapped`), `lastFault` and `mtf`. A guest instruction is a
set of accesses; `Begin`, `Retire` and `Interrupt` are the processor,
`VmmpHandleEptViolation` and `VmmpHandleMonitorTrap` the exits. The control
thread (`ctl`) goes through `SaveBar`, `WriteOnes`, `ReadSize`, `RestoreBar`,
`ReadLowerHalf`, `StoreAddress`, `StoreLimit` and `InvalidateEptPages` or
`ValidateEptPages` for each BAR on each processor, one step each, because the other
processors run in between; of a BAR with two registers the lower is read in one step
and the upper in the next. Addresses are counted in units of 16 bytes, the grain of a BAR
mask. `UlongSpan` is 2^32 in these units: a cast to ULONG is `% UlongSpan`.
That a handler is one step is justified where it touches only its own
processor's EPT and VMCS; the device list it reads is written by `StoreAddress`
and `StoreLimit` separately, so it can see one without the other.
The guest may move each BAR while the control thread sizes it or later
(`MoveBar`, counted in `moves`); then the list is stale, as in the code.
`InvalidateEptPages` makes its passes over a BAR in the order of the code
(`Passes`, `PassFrame`): pass `k` looks at page `k - 1`. Where a pass needs a table and
there is none, because the preallocated ones are used up and the pool has no
memory, the loop breaks and enabling goes on (`DevMon.cpp:315`). `ScarceFrames`
are the pages this may happen to, at any time (`MappingFails`); a violation on such a page then
leaves it unmapped, and the instruction faults again (`LeaveUnmapped`). A later violation
that gets its table maps the page open, and its cycles are not captured. Where the tables
come from is in `EptTables`.
`armed`, `reported`, `intended` and `unmapped` (the pages a processor had no table to
revoke with) are history variables.

**`VmLifecycle`** models load, unload, suspend, resume and hot-plug with three
threads in `vm.cpp`. The ladder of `DriverEntry` is a number `up`; every rung
may fail and is unwound. `UtilForEachProcessor` is the loop state
`cpu`/`last` of a thread. VMXON to VMLAUNCH of one processor is one step
(`Launch`): nothing outside that processor sees its parts. The reference count
and the state of each `SharedProcessorData` are explicit. After a hot-plug
callback sets an affinity mask that names no processor the thread may be on
any processor, the new one included. How that one processor is taken over is
in `VmExit`.

**`EptTables`** models the construction, extension and destruction of one EPT
with one step per level of `EptpConstructTables`, so that an allocation can fail
at any level; it uses **`MtrrTypes`**, the pure part: how the MTRRs are stored
and searched. **`EptMap`** is the abstract specification, a map from pages to
leaves in which a page is mapped once, to itself, and stays mapped until
everything is torn down; `EptTables!ImplementsEptMap` is the refinement, with
the walk `EptGetEptPtEntry` as the mapping. `MtrrTypes!ArchitecturalTypes` is
the reference definition of a page's memory type: the processor's precedence
rules, which do not depend on the order of ranges. Pages of RAM are distinct,
and neither they nor the APIC's page are device memory. Addresses have as many
bits as the tree has levels and slots. The pages of RAM come from the list
of byte ranges that `UtilpBuildPhysicalMemoryRanges` counts (`Runs`,
`RamPages`). `StartAgain` is `VmInitialization` after a suspend: the MTRRs may
be others, and the array of stored entries is overwritten from its start
(`Overwritten`).

**`LogBuffer`** models `log.cpp`: `LogpPut`'s two paths, the swap of buffers
under the spin lock, writing the old one under the ERESOURCE, the direct write
outside of it, the flush thread, activation at reinitialization with its
failure, and `LogTermination`. A handler starts on top of a guest context
(`over`), which is stopped until the handler has returned. It may meet the
holder of the spin lock only when `InterruptsTouchDevices`, because that
context runs at DISPATCH_LEVEL and only a device interrupt comes through.
`LogTermination` starts when no other context is logging, as in
`DriverEntry`'s failure paths and `DriverpDriverUnload`, where it is the last
call; `VmLifecycle` tells when that order protects it. Messages are of one
size.

**`VmExit`** models how one processor is taken over and then the handlers of
`vmm.cpp` that stand in for one guest instruction or pass an exception on.
`VmpEnterVmxMode`, `VmpInitializeVmcs`, `VmpSetupVmcs` and `VmpLaunchVm` are a
step each, and each may fail: `AsmInitializeVm` returns to its caller as a guest
or without a VMM. The guest fields of the VMCS are taken from the processor,
whose system registers hold either of two words at first. A VM-exit moves some of the
guest's registers into the VMCS (`vmcs`) and loads the host's; the others stay
in the processor (`hw`), where the handler may overwrite them. `Execute` runs an
instruction natively or exits, as the MSR bitmap and the execution controls
decide; there is one action per handler; `Resume` is VMRESUME, which delivers an
injected event, and `VmxOff` the way out after the termination hypercall.
`VmmpHandleIoPort` carries out IN and OUT with their string forms, where a
build or a processor makes them exit: `counters` are RCX and RDI or RSI, which the string
forms step through and leave at zero and behind the last element. `HostFault` is an RDMSR, WRMSR or XSETBV that faults when the handler repeats it: there
the model stops. **`GuestProcessor`** is the abstract specification, a processor
that executes one instruction at a time with no VMM below it, and
`VmExit!ImplementsGuestProcessor` the refinement: `View` is the guest's register
file, read in the VMCS or in the processor depending on `mode`, and the history
variable `last` tells the abstract step which instruction it has to explain.
`Kept`, `Exchanged` and `Fatal` say where the VMM is allowed to differ, because the code
does: a write to IA32_DEBUGCTL and the processor's clearing of DR7.GD may be undone by
the next entry (the exit controls do not save the debug controls), a value moved
into RSP by a handler is lost (the saved copy is not loaded), what termination does not put
back stays the host's, and a fault of the handler's own instruction is the
end. The upper half of RAX survives an IN to EAX, which only stores four bytes
of the saved register, and the fixed bits of CR0 and CR4 stay set when the VMM
cannot be started. What CPUID tells of a VMM, the hypervisor bit of leaf 1 and the vendor word of
the interface leaf 0x40000001, is meant to differ from bare hardware: `GuestProcessor`
answers these leaves (`VmmLeaves`) as below a VMM, and the refinement says that no other leaf
or bit does. Without any of the first three TLC finds the refinement violated. Register contents are a few
words that differ in the one bit a handler looks at; the hidden parts of LDTR and TR,
DR6.BS, and operand addresses are left out, and a translation cached by
the processor is the address space it belongs to.

**`SharedServices`** composes what the handlers of different processors use
without a lock. Each of its parts is a module with actions per processor and a
specification of its own, and one step is one access to the shared state:

- **`FuzzRecord`** is the hash table of `Fuzzer.cpp`. `LookHome`, `FindMoved`
  and `FindFree` are the tests and loops of `GetRegIndexByRip`, `Claim` and
  `Decode` the two stores, `Fetch` the read at its end. Decoding may fail, which
  the code does not tell from an instruction that loads nothing. `expected`
  remembers what the table said when a lookup began, `twice` the entries that two
  processors took.
- **`PerfCollector`** is the table behind `PerfCounter`; `CompareKey` and
  `TestFree` read a key each, as the loop of `GetPerfDataIndex` does. `retaken`
  remembers entries taken for two locations, and overlapping calls.
- **`PciConfigPort`** is the address port of the machine (`latch`) with the
  handlers' accesses (`vmm`) and those of the guest's HAL (`hal`), on the same
  processor too: as interrupts are enabled again by the `sti` of the port routines,
  an interrupt on top of the handler may use the ports between two accesses of
  a BAR, but not between address and data. The dword address is computed and
  taken apart with the numbers of the code. `crossed` remembers accesses whose
  address another processor has replaced.

`SharedServices` adds the VM-exits: which handler uses which service, in which
order (`DmInitBarInfo` reads, writes, reads and writes a BAR, then reads its
address and upper half), and which counters it ends with: that of its handler, which
the handler of VMCALL has not, and then that of `VmmpHandleVmExit`, which is around it
(`Innermost`, `Outer`). `Processors` only declares the set of processors.

The proofs are in modules of their own: `DeviceMonitor_proofs` and
`DeviceBars_proofs`, `VmLifecycle_proofs` and `VmSerial_proofs`,
`EptTables_proofs`, `LogBuffer_proofs`, `VmExit_proofs` and
`SharedServices_proofs`. The modules
`MCDeviceMonitor`, `MCEptTables`, `MCLogBuffer`, `MCVmExit` and
`MCSharedServices` give constants for TLC. Definitions whose names
begin with `Mut` are slips of the definition that follows each; nothing uses
them except a check that the properties notice.

## What TLC checks

| Run | Question | States |
|---|---|---|
| `monitor` | Does the monitor capture every cycle, restore BARs, and undo itself, on two processors with five BARs of every awkward kind (of several pages, above 4 GB, without an address, absent, less than a page), while memory for tables may be missing and the guest may move each of them? | 2 336 000 |
| `monitor_live` | Do instructions and monitor calls finish, and is capture kept when a callback asks to skip the instruction, a BAR is moved and a page cannot be mapped? | 210 000 |
| `last_page` (violated) | Is the last page of a long BAR monitored? | |
| `page_crossing` (violated) | Is an instruction across two revoked pages captured, and what follows it? | |
| `vm_exit` | Is a processor taken over, or left, with its own registers, and does every emulated instruction have the effect it has without the VMM, traps and faults included? | 1 006 000 |
| `shared_services` | What still holds of the tables and ports that handlers of two processors share without a lock? | 5 533 000 |
| `lifecycle` | Load, unload, power and hot-plug interleaved, with failures | 130 000 |
| `hotplug_hole` (violated) | Is the VMM gone after `VmTermination`? | |
| `ept_tables` | Is the EPT the identity map with the right types, and freed once, under any allocation failure and again after a suspend with other MTRRs? | 25 000 |
| `through_before_back` (violated) | Does the type depend on the order of overlapping ranges? | |
| `log` | Loss, order, termination and progress of the log | 135 000 |
| `flush_assert` (violated) | Does the flush thread's assertion hold? | |

The violated runs each check one property that a comment, an assertion or
`src/README.md` states, and TLC shows a behaviour of the code against it:

- `last_page`: `InvalidateEptPages` computes an address with the index of the
  pass before, so that the last page of a BAR of two or more pages is never
  revoked (`DevMon.cpp:323`).
- `page_crossing`: the second fault of an instruction overwrites
  `LastFaultEntry`, so the first page stays open (`vmm.cpp:1320`).
- `hotplug_hole`: the affinity mask in `VmHotplugCallback` is zero where its
  comment says processor 0 (`vm.cpp:1055`). The model takes the kernel to leave
  the thread where it is when the mask names no processor.
- `through_before_back`: a write-through range before a write-back one gives
  write-back (`ept.cpp:384`).
- `flush_assert`: the flag is read again inside the assertion (`log.cpp:772`).

What the properties of the passing runs leave out on purpose:

- `VmLifecycle`: `StartsOnce`, `NotInstalledAfterTermination`, `UnloadUndoesLoad` and
  `AllOrNothing` are stated for behaviours in which no two threads were at
  work at once (`~raced`), and `SharedDataAlive` for those in which no start
  overlapped anything (`~clash`). The code has no lock, and without these
  conditions TLC finds them violated; the conditions say exactly how much
  exclusion the system has to provide. `AllOrNothing` covers a processor added at run time from the next start
  on (`known`), not before. Failure of the first processor's
  allocation (`vm.cpp:380`) is left out of `FailingSteps`: it leaks the shared
  data.
- `LogBuffer`: `LoggersReturn` and `Drained` except the state `SelfLocked`, in
  which a handler spins for the lock its own guest holds: TLC reaches it as soon
  as `InterruptsTouchDevices`. `NothingLost` and `FileOrder` except when
  creating the flush thread failed.
- `ReachedCyclesCaptured`, `BarsRestored` and `NothingLeftRevoked` speak of BARs the
  guest has not moved: the list keeps the address a BAR had, a move while it is
  sized is overwritten by the restore, and disabling sizes the BARs again and so
  opens the pages of the new address. `MonitorWindow`, `TrapHasEntry` and
  `AccessIsReadOrWrite` hold for moved BARs too.
- `EveryCycleCaptured`, the purpose of the program, does not hold of the code, and only the two
  violated runs check it. `ReachedCyclesCaptured` says the same of the pages that
  `InvalidateEptPages` gets to (`Reached`), whether the instruction retires, is interrupted
  or is skipped. It excepts BARs that reach above 4 GB, whose address is cut to a ULONG
  (`DevMon.cpp:306`), the last page of a BAR of several pages (`DevMon.cpp:323`) and the
  pages for which there was no table (`DevMon.cpp:315`), although enabling returns
  STATUS_SUCCESS then, too (`DevMon.cpp:446`). All three are in the instance of `monitor`, and
  without any one of the exceptions TLC finds the property violated there. Instructions
  that touch two revoked pages are not in the instances of the passing runs;
  `page_crossing` is about them.
- `InstructionsFinish`: an instruction that touches a revoked page beside the BARs
  (`Beside`) faults for ever, as no callback claims it, and one whose page cannot be mapped
  (`Starved`) as long as there is no memory. `MonitorCallsReturn` needs
  no such exception, but assumes timer interrupts: one ends such an instruction, and the thread
  gets its turn.
- `ImplementsGuestProcessor`: the differences named above.
- `TypesFollowMtrrs`: entries that a start under more ranges left behind those of
  the current MTRRs (`NoStaleEntry`); the code clears nothing (`ept.cpp:206`).
- `AnswerFits` and `AnswerIsSettled`: entries of the table that were taken twice,
  because two processors found them free or because the table is full.
  `CountsAddUp`: no total is claimed for an entry two locations took, and exact
  totals only when calls did not overlap, as `performance.cpp:63` grants.
  `ConfigGoesWhereNamed`: an access whose address another processor replaced
  between its two instructions. Without these conditions TLC finds each of the
  four violated; the conditions say which interleavings a lock would have to
  exclude.

### Bounds

Two processors are enough for a step of the control thread or an exit on one
to meet the guest on another; a third appears only in `VmLifecycle`, where it is
the one added (`MaxCpus`). `MaxStarts = 1` lets the hypervisor start again with the
list it left. In `monitor` the guest moves each BAR once (`MaxMoves`), at any moment, and `monitor_live` too has a BAR that moves, which is half a page, so that there is a
rest of its page that nobody decodes. A page of two
units has a first and a last address and room for a BAR smaller than a page. One page of each
instance may lack a table: in `monitor` the third of a BAR of four pages, so
that the pass before it and the one after it exist. The tree of `EptTables` has its real four levels with two
slots each, and faults use up its three preallocated tables and one more; the
pages are chosen so that walks share zero, one, two or three tables. The MTRR
settings are four sets of ranges, with and without fixed ranges, and two starts meet any two of
them. One range of memory ends inside a page, and one lies behind the end of
the list. Buffers of
`LogBuffer` hold one message, so that the second overflows; one thread, the
flush thread and the unloading thread contend for the resource, and one handler
and any of them for the lock. Three instructions of `VmExit` are one to set a register (TF, CR4.DE, DR7.GD, a
cached translation), one to change it and one to observe it; its three configurations are the
controls as requested, those of a processor that forces DR7 to be saved, and every exit
a handler exists for. RCX is zero or two when a string instruction with REP begins. The guest stops after them, so deadlock is not checked there.
In `shared_services` three VM-exits (`MaxExits`) of two processors meet tables of two
entries for three users each, so that entries collide, are raced for and run
out. The two are alike, so TLC explores one of each pair of states that differ only in
their names (`ProcessorSymmetry`). The monitored BAR has a lower and an upper register, and the guest uses these and one of
two bytes on another bus, whose data port differs.
`MaxLoads`, `MaxSuspends`, `MaxFaults` and
`MaxMessages` bound how often something is begun, never what happens once it is.

### Fairness

`DeviceMonitor`: weak fairness of each processor's exits, except for want of memory
(`Starved`), of retiring an instruction and of the steps of the monitor call, because a processor that can
execute does; strong fairness of `VmCall`, because the thread of
`UtilForEachProcessor` can run only between two instructions of a processor and
the scheduler gets it there again and again. Nobody has to start instructions,
take interrupts or move BARs, and the pool need never have memory again; only
`MonitorCallsReturn` assumes, in its own statement, that an instruction that goes on faulting is interrupted. `VmLifecycle`: weak fairness of each thread that is inside a routine;
nobody has to load, suspend or add a processor. `LogBuffer`: weak fairness of
each context that has begun to log, of the flush thread (a delay of 50 ms), of
the activation once begun, and of `LogTermination` once begun. No lock is assumed
to be handed over fairly. Liveness of `EptTables` is not stated: it is
sequential. So are the handlers of `VmExit`. `SharedServices` states without
fairness that lookups end: `LookupsAdvance` says that every step of one brings
it nearer to its end, whatever the other processors store meanwhile.

## What is proved

Every invariant and action property of the passing runs, and both refinements,
are theorems, for all values of the constants that satisfy the ASSUMEs and the
hypotheses named here. Only the liveness properties stay with TLC.

### The monitor

`DeviceMonitor_proofs` and `DeviceBars_proofs`, for any number of processors, BARs, pages
and instructions:

- `TypeCorrect`: `Spec => []TypeOK`, one lemma per group of actions.
- `TrapHasEntryHolds`, from the inductive `TrapInv`: the trap flag of a
  processor is set exactly while it has a `LastFaultEntry`, and a processor is at an
  instruction boundary only with the flag set.
- `AccessIsReadOrWriteHolds`: what a claimed access reports.
- `MonitorWindowHolds`, for behaviours in which no instruction under way touches
  two revoked pages (`OneRevokedPage`); `page_crossing` shows what happens
  otherwise. `MonitorWindow` alone is not inductive: opening a page for the next access must
  not lose the page that is already open. `WindowInv` adds that `LastFaultEntry`
  names a revoked page that is open and that the instruction under way touches, that
  a processor inside a monitor VMCALL has none, and that nothing but what the monitor
  holds is trapped. So a second fault on a revoked page would be one on the open page
  (`FaultFindsNoEntry`).
- `BarsRestoredHolds`, without any hypothesis: `RegistersInv` says for every BAR that was not
  moved where its value is at each step of the sizing.
- `NothingLeftRevokedHolds`, under `OneRevokedPage`. `ListInv` says what the list holds for
  a BAR that was not moved, at each step, so that each sizing finds the same
  pages; `MovedInv` that a BAR that was moved gets only ends it could be given by its
  places (`PlacesOf`: dwords of two places mixed, a place taken for a size);
  `RevokedInv` that each trapped page is accounted for by a BAR of either kind. `PlacesOf`
  is no wider than that: pages computed past 4 GB come out at its beginning, as
  in the code.
- `ReachedCyclesCapturedHolds`, what the purpose of the program comes to in this code, under two
  hypotheses: `OneRevokedPage`, and `SameBars`, what an instruction
  reads or writes on one page belongs to the same BARs (only the first access to a page
  is reported). BARs of several pages, above 4 GB, without an address or moved by the guest,
  pages that cannot be mapped and callbacks that skip are all covered. Of BARs it takes
  that they are aligned to their size, as PCI demands
  (`AlignmentAssumption`), so that every page of one but the last is visited.
  `HiddenInv` says that, once `DmEnableMonitor` has been through a BAR on a
  processor, the BAR is in the list and its pages are among those the monitor holds
  or those it had no table for (`unmapped`);
  `ToldInv` that in a single-step the callbacks of the page have been called. Then an
  access that does not fault is to an open page, which by `WindowInv` is the
  one that was reported.

The constants of `monitor` and `monitor_live` satisfy `SameBars`,
and `OneRevokedPage` holds in all their states.

### The virtual machine

`VmLifecycle_proofs` and `VmSerial_proofs`, for any number of processors, loads and suspends
and any failing steps:

- `TypeCorrect`: `Spec => []TypeOK`. That no reference count falls below zero is not
  inductive by itself.
- `SharedDataAliveHolds`. The inductive `AliveInv` adds to `SharedDataAlive` the books of
  `VmpFreeSharedData` (`RefsCover`): the processors that have a shared data and the threads
  on their way to give it to one or to release it are together at most its reference
  count. Hence with the last reference no processor and no other thread has it; a
  thread about to start a processor may still want it without a reference, which is
  the overlap that `ClashNoticed` records. It is an inequality because a suspend takes
  processors out of VMX operation without `VmpStopVm`.
- `StartsOnceHolds`, `NotInstalledAfterTerminationHolds`, `AllOrNothingHolds` and
  `UnloadUndoesLoadHolds`, from `SerialInv`: as long as no two threads were at work at once,
  at most one thread is inside a routine, and `SerialOK` says for each place it can be at
  which processors are virtualized (those below its loop counter, or all, or
  none) and `RefsExact` that the reference counts are exact. All need
  `OneIsAdded`, at most one processor is added at run time: once `VmHotplugCallback` has
  missed one (`hotplug_hole`), those virtualized are no longer the first so many, which is
  what `SerialOK` rests on. `UnloadUndoesLoadHolds` also needs
  that the allocation of the first processor does not fail (`vm.cpp:380` leaks then).

`EptTables_proofs`, for any number of levels, slots, pages and preallocated tables:

- `TypeCorrect`, `EveryTableOnceHolds`, `NothingLeaksHolds`, `MissIsDeviceMemoryHolds` and
  `LeafIsFreshHolds`, from `EptInv`: `TreeInv` says that the entries of the tables in use
  form a tree whose nodes lie on their levels and are reached over one entry each,
  `WalkInv` where the construction is in it, `PagesInv` which pages have been
  mapped when, `StageInv` which tables are in use meanwhile. The walk is a
  recursive function over the levels; facts about it are proved by taking the
  least level at which they would fail.
- `ImplementsEptMapHolds`: each step of the construction is a step of `EptMap` or
  leaves the map as it is, as only the last level stores a leaf.
- `TypesFollowMtrrsHolds`, if no write-through range precedes a write-back
  one it overlaps (`ThroughBehindBack`), which `through_before_back` shows
  to be necessary.

`VmExit_proofs`, for any instructions (`GuestAssumption` gives their forms), words and
configurations of the processor:

- `TypeCorrect` and `TranslationsAreCurrentHolds`, from `VmExitInv`: which registers
  hold the guest's values in which mode, what a pending exit or event remembers of
  the instruction, and that a cached translation is of the current address space.
- `ImplementsGuestProcessorHolds`: every behaviour of the processor with the VMM below it is one of
  `GuestProcessor`. Each handler has a lemma that compares what the registers
  are after VMRESUME with what `Effect` makes of them; an exit and the steps of the
  handler before it leave the view alone.

### Log and shared services

`LogBuffer_proofs`, for any contexts, messages and processors: `TypeCorrect`, `NothingLostHolds`,
`FileOrderHolds`, `OwedWrittenHolds` and `NoUseAfterFreeHolds`, from `LogInv`. `Frame`
is mutual exclusion of the spin lock and of the ERESOURCE and who may be where during
activation and termination; `Places` says that each message accepted is in exactly one place,
the active buffer, the one being written, a direct writer's hands or the file; `Kept`
that their order is the order of acceptance.

`SharedServices_proofs`, for any number of processors and VM-exits, any
instructions, tables of any length and any configuration registers:

- `RecordTypeCorrect`: the table and the lookups keep their types.
- `AnswerFitsHolds`. `AnswerFits` looks at one processor at its last step; the
  inductive `FitInv` says of every entry not taken twice that it is free, or
  that its register is one its instruction loads or not known, and of every
  processor that has found or taken an entry that the entry is its
  instruction's.
- `AnswerIsSettledHolds`. `WayInv` says that the entries on the way from an
  instruction's home to its entry are in use for ever, so that a lookup finds what the one
  before found.
- `LookupsAdvanceHolds`, from the types alone: the measure `StepsLeft` falls.
- `CountsAddUpHolds`. A total and the additions under way to it are at most what was
  added for the location, and exactly that as long as no two calls
  overlapped (`CountsInv`).
- `ConfigGoesWhereNamedHolds`. The inductive `PortInv` says that the address port holds
  the address of every access under way that was not crossed, and that a handler
  between its two instructions has interrupts disabled. That an address names
  one register is arithmetic over bus, device, function and offset
  (`SelectedIsNamed`).

`SpecUsesRecord`, `SpecUsesPorts` and `SpecUsesCollector` show that the composition takes only
steps of its parts, so that what is proved of a part holds in it.

### What stays with TLC

`InstructionsFinish` and `MonitorCallsReturn`, `DriverCallsReturn`, and `LoggersReturn`,
`Drained` and `LogTerminationReturns`: they rest on fairness, which is beyond the prover.
The inductive invariants were checked on the runs' instances before they were proved.

## Plan

Modelled: `DeviceMonitor`, `VmLifecycle`, `EptTables` with `MtrrTypes` and
`EptMap`, `LogBuffer`, `VmExit` with `GuestProcessor`, and `SharedServices` with
`FuzzRecord`, `PerfCollector` and `PciConfigPort`. What is left, in this order:

1. The safety parts of the liveness properties: no state in which a thread of
   `VmLifecycle` or a context of `LogBuffer` other than `SelfLocked` waits for one that waits
   for it, and measures that fall with each step of a monitor call.
2. A processor added at run time in `DeviceMonitor`: it joins without revoked pages until
   the next resume (`vm.cpp:1074`), so that its accesses go unreported.

## Not modelled

Formatting of messages, DbgPrint and register dumps; segment descriptors, the I/O
bitmaps (no control asks for them) and the host-state area in `VmpSetupVmcs`;
CLTS and LMSW, which the x64 build never intercepts, and the exits that only end
in a bug check; memory faults of the handler of INS and OUTS, and the 64-bit count it cuts to 32
bits; `LogIrpShutdownHandler` and DPC queueing, which
nothing calls; global objects, of which the driver has none with a
constructor; the 32-bit assembly; the declarations of hardware structures in
`ia32_type.h`; Capstone, of which the repository has only
headers and libraries; `IntelPt.cpp`, which is empty. Windows, the PCI bus, the
processor's MTRR rules and instruction execution are modelled from how the
code uses them and marked external. The Capstone headers and `ia32_type.h` are most of
the repository's lines.
