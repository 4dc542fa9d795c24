--------------------------- MODULE DeviceMonitor ---------------------------
(***************************************************************************)
(* The device monitor: DevMon.cpp with the two VM-exit handlers that serve *)
(* it (VmmpHandleEptViolation and VmmpHandleMonitorTrap in vmm.cpp).       *)
(*                                                                         *)
(* Every processor has an EPT of its own.  Enabling the monitor sizes each *)
(* BAR of g_MonitorDeviceList and revokes read and write access to its     *)
(* pages, one processor after the other.  A guest access to such a page    *)
(* leaves to the VMM, which calls the device's callback, opens the page,   *)
(* remembers it in LastFaultEntry and single-steps the instruction with    *)
(* the monitor trap flag (MTF); the MTF exit revokes the page again.       *)
(*                                                                         *)
(* Addresses are counted in units of 16 bytes, the grain that the mask     *)
(* 0xFFFFFFF0 leaves of a BAR; PageUnits of them make a page and           *)
(* UlongSpan of them are the 4 GB that a ULONG can tell apart.  A BAR's    *)
(* upper dword counts multiples of UlongSpan.                              *)
(***************************************************************************)
EXTENDS Integers

CONSTANTS
  NumProcs,    \* processors are 0 .. NumProcs-1, in UtilForEachProcessor's order
  NumBars,     \* BARs are 1 .. NumBars, in the order of g_MonitorDeviceList
  DeviceOf,    \* the device a BAR belongs to; a device's BARs are consecutive
  PresentBars, \* BARs of devices the machine has; the others read all ones
  WideBars,    \* BARs with PCI_BAR_64BIT
  LowerOnly,   \* wide BARs whose Callback2 is IntelNicHandleBarCallback
  BarSize,     \* what the BAR decodes; 0 for a register that is hardwired to 0
  Bases,       \* Bases[b]: the <<lower, upper>> values the platform may assign
  SkipDevices, \* devices whose callback asks to skip the instruction
  PageUnits, UlongSpan, Space,
  AbsentUpper, \* an all-ones upper dword
  HighMark,    \* addresses with bits 44..63 all ones start here
  RamFrames,   \* frames that EptInitialization maps
  ScarceFrames,\* frames whose EPT tables must come from the pool, which may fail
  Instructions,\* what guest instructions touch: sets of [addr, kind]
  NoEntry,     \* LastFaultEntry == nullptr
  MaxMoves,    \* bound: how often the guest moves one BAR
  MaxStarts    \* bound: how often the hypervisor is started again

Procs == 0 .. (NumProcs - 1)
Bars == 1 .. NumBars
Addresses == 0 .. (Space - 1)
Kinds == {"read", "write", "update", "fetch"}
Accesses == [addr : Addresses, kind : Kinds]

\* What a callback is told, and which device's callback it is.
Reports == [addr : Addresses, device : {DeviceOf[b] : b \in Bars},
            access : 0 .. 2]

Frame(a) == a \div PageUnits
Frames == {Frame(a) : a \in Addresses}

ASSUME SizesAssumption ==
  /\ NumProcs \in Nat \ {0}
  /\ NumBars \in Nat \ {0}
  /\ PageUnits \in Nat \ {0}
  /\ UlongSpan \in Nat \ {0}
  /\ Space \in Nat /\ Space >= UlongSpan
  /\ HighMark \in Nat /\ HighMark >= UlongSpan
  /\ AbsentUpper \in Nat
  /\ MaxMoves \in Nat
  /\ MaxStarts \in Nat

ASSUME DevicesAssumption ==
  /\ PresentBars \subseteq Bars
  /\ WideBars \subseteq Bars
  /\ LowerOnly \subseteq WideBars
  /\ BarSize \in [Bars -> 0 .. UlongSpan]
  /\ Bases \in [Bars -> SUBSET ((0 .. (UlongSpan - 1)) \X Nat)]
  /\ RamFrames \subseteq Frames
  /\ ScarceFrames \subseteq Frames

\* As PCI aligns BARs: to their size, which is a power of two.  So a BAR lies
\* on one page or consists of whole pages.
ASSUME AlignmentAssumption ==
  \A b \in PresentBars : \A base \in Bases[b] :
    \/ (base[1] % PageUnits) + BarSize[b] <= PageUnits
    \/ base[1] % PageUnits = 0 /\ BarSize[b] % PageUnits = 0

ASSUME InstructionsAssumption ==
  /\ Instructions \subseteq SUBSET Accesses
  /\ {} \notin Instructions
  /\ NoEntry \notin Frames

VARIABLES
  barLo, barHi,  \* the BAR registers in the devices' configuration space
  intended,      \* history: <<lower, upper>> the guest last wrote
  barAddress,    \* g_MonitorDeviceList[].BarAddress
  barLimit,      \* g_MonitorDeviceList[].BarLimit
  ept,           \* ept[p][f]: the EPT entry of frame f on processor p
  lastFault,     \* processor_data->LastFaultEntry
  mtf,           \* the monitor trap flag in processor p's VMCS
  mode,          \* where processor p is: see Modes
  instr,         \* accesses of the instruction p is executing, {} between two
  reported,      \* history: callbacks made for that instruction
  armed,         \* history: frames the monitor holds revoked on p
  unmapped,      \* history: frames it left out because p's EPT had no table
  phase,         \* how far the monitor is: see Phases
  ctl,           \* the thread inside DmEnableMonitor or DmDisableMonitor
  moves, starts  \* counters for MaxMoves (per BAR) and MaxStarts

vars == <<barLo, barHi, intended, barAddress, barLimit, ept, lastFault, mtf,
          mode, instr, reported, armed, unmapped, phase, ctl, moves, starts>>

registers == <<barLo, barHi, intended, moves>>
deviceList == <<barAddress, barLimit>>
control == <<phase, ctl, starts>>
guest == <<mode, instr, reported>>
trap == <<ept, lastFault, mtf, armed, unmapped>>

\* The value a BAR's lower dword holds after 0xFFFFFFFF was written to it.
AllOnes == -1

EntryStates == {"absent", "open", "trapped"}
Modes == {"guest", "boundary", "root"}
Phases == {"virtualized", "monitored", "unmonitored"}
Pcs == {"migrate", "save", "ones", "size", "restore", "address", "upper",
        "limit", "pages"}

\* Where the thread is: the processor, the step and the BAR, and the values of
\* DmGetDeviceBarSize's BaseAddr and Size and of DmInitBarInfo's LowerPa or,
\* later, PciBarPa.
ControlStates ==
  [op : {"idle", "enable", "disable"}, cpu : Procs, pc : Pcs, bar : Bars,
   saved : 0 .. (UlongSpan - 1), size : 0 .. (UlongSpan - 1), addr : Nat]

NoControl == [op |-> "idle", cpu |-> 0, pc |-> "migrate", bar |-> 1,
              saved |-> 0, size |-> 0, addr |-> 0]
-----------------------------------------------------------------------------
(* The arithmetic of DevMon.cpp.                                           *)

\* The conversion to ULONG.
Ulong(a) == a % UlongSpan

\* DmGetDeviceBarAddress keeps 0xFFFFFFF0 of the upper dword as well, where
\* the four bits it drops are address bits 32 to 35.
MaskUpper(u) == u - (u % 16)

\* A configuration read of the lower dword.  After all ones were written,
\* the device answers with its size mask.
ReadLower(b) ==
  IF b \notin PresentBars THEN UlongSpan - 1
  ELSE IF barLo[b] = AllOnes THEN Ulong(UlongSpan - BarSize[b])
  ELSE barLo[b]

ReadUpper(b) == IF b \in PresentBars THEN barHi[b] ELSE AbsentUpper

\* DmGetDeviceBarSize: the two's complement of what it read back.
SizeFrom(value) == Ulong(UlongSpan - value)

\* DmInitBarInfo: one dword, or what Callback2 makes of it and the upper one.
CombinedAddress(b, lower) ==
  IF b \in WideBars \ LowerOnly
  THEN MaskUpper(ReadUpper(b)) * UlongSpan + lower
  ELSE lower

\* The check after DmInitBarInfo that makes enabling and disabling skip a BAR.
BarFoundError(b) ==
  \/ barAddress[b] = 0
  \/ barLimit[b] = 0
  \/ barAddress[b] >= HighMark
  \/ barLimit[b] < barAddress[b]

SpanPages(size) == (size + PageUnits - 1) \div PageUnits

\* The page that pass k of InvalidateEptPages or ValidateEptPages looks at.
\* The loop computes the next page at its end and from the k it is about to
\* leave, so that pass k looks at page k - 1, and at page 0 again in pass 1.
PassFrame(address, k) ==
  Frame(Ulong(Ulong(address) + PageUnits * (IF k = 0 THEN 0 ELSE k - 1)))

\* How many passes there are for a BAR; none after "PCIBAR Found Error".
Passes(b) ==
  IF BarFoundError(b) THEN 0 ELSE SpanPages(Ulong(barLimit[b] - barAddress[b]))

\* The frames of its first n passes, and of all.
FirstFrames(b, n) == {PassFrame(barAddress[b], k) : k \in 0 .. (n - 1)}
VisitedFrames(b) == FirstFrames(b, Passes(b))

\* Definitions named Mut... are slips of the definition after them; the
\* mutants of PROJECT.json use them and nothing else does.
MutExclusiveStart(a) ==
  \E b \in Bars : /\ Ulong(a) > Ulong(barAddress[b])
                  /\ Ulong(a) <= Ulong(barLimit[b])

\* DmIsMonitoredDevice: both ends belong to the BAR, all three are ULONGs.
DmIsMonitoredDevice(a) ==
  \E b \in Bars : /\ Ulong(a) >= Ulong(barAddress[b])
                  /\ Ulong(a) <= Ulong(barLimit[b])

\* DmExecuteCallback compares the whole MmioAddress with the two ULONGs.
CalledBars(a) ==
  {b \in Bars : a >= Ulong(barAddress[b]) /\ a <= Ulong(barLimit[b])}

\* Each device that matches is called; the last answer is the result.
CallbackSkips(a) ==
  \E b \in CalledBars(a) : /\ DeviceOf[b] \in SkipDevices
                           /\ \A c \in CalledBars(a) : c <= b \/ DeviceOf[c] = DeviceOf[b]

\* VmmpHandleMmio: 1 for a read (also when the access writes too), 2 for a
\* write, 0 for an instruction fetch.
AccessCode(kind) ==
  CASE kind \in {"read", "update"} -> 1
    [] kind = "write" -> 2
    [] kind = "fetch" -> 0
-----------------------------------------------------------------------------
(* The guest on processor p.                                               *)

\* What the EPT lets through: a revoked entry keeps execute access.
MutPermits(entry, kind) == entry = "open"
Permits(entry, kind) ==
  \/ entry = "open"
  \/ entry = "trapped" /\ kind = "fetch"

Faults(p, acc) == ~Permits(ept[p][Frame(acc.addr)], acc.kind)

\* The next instruction starts.
Begin(p) ==
  /\ mode[p] = "guest" /\ instr[p] = {}
  /\ \E i \in Instructions : instr' = [instr EXCEPT ![p] = i]
  /\ reported' = [reported EXCEPT ![p] = {}]
  /\ UNCHANGED <<registers, deviceList, control, trap, mode>>

\* No access of the instruction faults any more.  With the trap flag set the
\* processor leaves to the VMM at the instruction boundary.
Retire(p) ==
  /\ mode[p] = "guest" /\ instr[p] # {}
  /\ \A acc \in instr[p] : ~Faults(p, acc)
  /\ instr' = [instr EXCEPT ![p] = {}]
  /\ mode' = [mode EXCEPT ![p] = IF mtf[p] THEN "boundary" ELSE "guest"]
  /\ UNCHANGED <<registers, deviceList, control, trap, reported>>

\* An interrupt is delivered first; the instruction will be started again.
\* Its delivery, too, ends in an MTF exit when the flag is set.
Interrupt(p) ==
  /\ mode[p] = "guest" /\ instr[p] # {}
  /\ instr' = [instr EXCEPT ![p] = {}]
  /\ mode' = [mode EXCEPT ![p] = IF mtf[p] THEN "boundary" ELSE "guest"]
  /\ UNCHANGED <<registers, deviceList, control, trap, reported>>

-----------------------------------------------------------------------------
(* VM exits of processor p.                                                *)

\* VmmpHandleMmio goes on to the callback.
Claimed(p, acc) ==
  /\ DmIsMonitoredDevice(acc.addr)
  /\ ept[p][Frame(acc.addr)] # "absent"

Report(p, acc) ==
  reported' = [reported EXCEPT ![p] = @ \union
                 {[addr |-> acc.addr, device |-> DeviceOf[b],
                   access |-> AccessCode(acc.kind)] : b \in CalledBars(acc.addr)}]

MutOpenPage(p, acc) ==
  /\ Claimed(p, acc) /\ ~CallbackSkips(acc.addr)
  /\ Report(p, acc)
  /\ ept' = [ept EXCEPT ![p][Frame(acc.addr)] = "open"]
  /\ mtf' = [mtf EXCEPT ![p] = TRUE]
  /\ UNCHANGED <<registers, deviceList, control, armed, unmapped, mode, instr, lastFault>>

\* VmmpHandleMmio when the callback lets the access happen.
OpenPage(p, acc) ==
  /\ Claimed(p, acc) /\ ~CallbackSkips(acc.addr)
  /\ Report(p, acc)
  /\ ept' = [ept EXCEPT ![p][Frame(acc.addr)] = "open"]
  /\ lastFault' = [lastFault EXCEPT ![p] = Frame(acc.addr)]
  /\ mtf' = [mtf EXCEPT ![p] = TRUE]
  /\ UNCHANGED <<registers, deviceList, control, armed, unmapped, mode, instr>>

MutSkipInstruction(p, acc) ==
  /\ Claimed(p, acc) /\ CallbackSkips(acc.addr)
  /\ instr' = [instr EXCEPT ![p] = {}]
  /\ UNCHANGED <<registers, deviceList, control, trap, mode, reported>>

\* VmmpHandleMmio when the callback asks to step over the instruction.
SkipInstruction(p, acc) ==
  /\ Claimed(p, acc) /\ CallbackSkips(acc.addr)
  /\ Report(p, acc)
  /\ instr' = [instr EXCEPT ![p] = {}]
  /\ UNCHANGED <<registers, deviceList, control, trap, mode>>

\* EptHandleEptViolation, EPT entry miss: EptpConstructTables maps the page.
MapPage(p, acc) ==
  /\ ept[p][Frame(acc.addr)] = "absent"
  /\ ept' = [ept EXCEPT ![p][Frame(acc.addr)] = "open"]
  /\ UNCHANGED <<registers, deviceList, control, guest, lastFault, mtf, armed,
                 unmapped>>

\* A table that frame f needs cannot be had: the preallocated ones are used up
\* and the pool has no memory.
MappingFails(p, f) == f \in ScarceFrames /\ ept[p][f] = "absent"

\* EptpConstructTables returns null, nobody looks, the instruction faults again.
LeaveUnmapped(p, acc) ==
  /\ MappingFails(p, Frame(acc.addr))
  /\ UNCHANGED vars

\* EptHandleEptViolation with a revoked entry that no BAR claims: it logs
\* [UNK1] and returns, and the instruction faults again.
LeaveFaulting(p, acc) ==
  /\ ~DmIsMonitoredDevice(acc.addr)
  /\ ept[p][Frame(acc.addr)] # "absent"
  /\ UNCHANGED vars

VmmpHandleEptViolation(p) ==
  \E acc \in instr[p] :
    /\ mode[p] = "guest" /\ Faults(p, acc)
    /\ \/ OpenPage(p, acc)
       \/ SkipInstruction(p, acc)
       \/ MapPage(p, acc)
       \/ LeaveUnmapped(p, acc)
       \/ LeaveFaulting(p, acc)

MutMonitorTrap(p) ==
  /\ mode[p] = "boundary"
  /\ lastFault' = [lastFault EXCEPT ![p] = NoEntry]
  /\ mtf' = [mtf EXCEPT ![p] = FALSE]
  /\ mode' = [mode EXCEPT ![p] = "guest"]
  /\ UNCHANGED <<registers, deviceList, control, ept, armed, unmapped, instr,
                 reported>>

VmmpHandleMonitorTrap(p) ==
  /\ mode[p] = "boundary"
  /\ ept' = [ept EXCEPT ![p][lastFault[p]] = "trapped"]
  /\ lastFault' = [lastFault EXCEPT ![p] = NoEntry]
  /\ mtf' = [mtf EXCEPT ![p] = FALSE]
  /\ mode' = [mode EXCEPT ![p] = "guest"]
  /\ UNCHANGED <<registers, deviceList, control, armed, unmapped, instr,
                 reported>>
-----------------------------------------------------------------------------
(* DmEnableMonitor and DmDisableMonitor: a VMCALL on each processor in     *)
(* turn.  Its handler stays in VMX root while it walks the BARs; only the  *)
(* other processors run meanwhile.                                         *)

StartEnable ==
  /\ phase = "virtualized" /\ ctl.op = "idle"
  /\ ctl' = [NoControl EXCEPT !.op = "enable"]
  /\ UNCHANGED <<registers, deviceList, trap, guest, phase, starts>>

StartDisable ==
  /\ phase = "monitored" /\ ctl.op = "idle"
  /\ phase' = "unmonitored"
  /\ ctl' = [NoControl EXCEPT !.op = "disable"]
  /\ UNCHANGED <<registers, deviceList, trap, guest, starts>>

VmCall ==
  /\ ctl.op # "idle" /\ ctl.pc = "migrate"
  /\ mode[ctl.cpu] = "guest" /\ instr[ctl.cpu] = {}
  /\ mode' = [mode EXCEPT ![ctl.cpu] = "root"]
  /\ ctl' = [ctl EXCEPT !.pc = "save"]
  /\ UNCHANGED <<registers, deviceList, trap, instr, reported, phase, starts>>

\* The configuration accesses of DmGetDeviceBarSize, one step each.
SaveBar ==
  /\ ctl.pc = "save"
  /\ ctl' = [ctl EXCEPT !.pc = "ones", !.saved = ReadLower(ctl.bar)]
  /\ UNCHANGED <<registers, deviceList, trap, guest, phase, starts>>

WriteOnes ==
  /\ ctl.pc = "ones"
  /\ barLo' = IF ctl.bar \in PresentBars
              THEN [barLo EXCEPT ![ctl.bar] = AllOnes] ELSE barLo
  /\ ctl' = [ctl EXCEPT !.pc = "size"]
  /\ UNCHANGED <<barHi, intended, moves, deviceList, trap, guest, phase, starts>>

ReadSize ==
  /\ ctl.pc = "size"
  /\ ctl' = [ctl EXCEPT !.pc = "restore", !.size = SizeFrom(ReadLower(ctl.bar))]
  /\ UNCHANGED <<registers, deviceList, trap, guest, phase, starts>>

MutRestoreBar ==
  /\ ctl.pc = "restore"
  /\ barLo' = IF ctl.bar \in PresentBars
              THEN [barLo EXCEPT ![ctl.bar] = ctl.size] ELSE barLo
  /\ ctl' = [ctl EXCEPT !.pc = IF ctl.size = 0 THEN "pages" ELSE "address"]
  /\ UNCHANGED <<barHi, intended, moves, deviceList, trap, guest, phase, starts>>

\* DmInitBarInfo returns for a size of zero and leaves the list as it is.
RestoreBar ==
  /\ ctl.pc = "restore"
  /\ barLo' = IF ctl.bar \in PresentBars
              THEN [barLo EXCEPT ![ctl.bar] = ctl.saved] ELSE barLo
  /\ ctl' = [ctl EXCEPT !.pc = IF ctl.size = 0 THEN "pages" ELSE "address"]
  /\ UNCHANGED <<barHi, intended, moves, deviceList, trap, guest, phase, starts>>

\* DmGetDeviceBarAddress for the lower register of a BAR with two.
ReadLowerHalf ==
  /\ ctl.pc = "address" /\ ctl.bar \in WideBars
  /\ ctl' = [ctl EXCEPT !.pc = "upper", !.addr = ReadLower(ctl.bar)]
  /\ UNCHANGED <<registers, deviceList, trap, guest, phase, starts>>

\* DmGetDeviceBarAddress for the only register or the upper one, and the store
\* to BarAddress; an address of zero makes DmInitBarInfo return before it.
StoreAddress ==
  /\ ctl.pc = IF ctl.bar \in WideBars THEN "upper" ELSE "address"
  /\ LET lower == IF ctl.bar \in WideBars THEN ctl.addr ELSE ReadLower(ctl.bar)
         pa == CombinedAddress(ctl.bar, lower) IN
     /\ barAddress' = IF pa = 0 THEN barAddress
                      ELSE [barAddress EXCEPT ![ctl.bar] = pa]
     /\ ctl' = [ctl EXCEPT !.pc = IF pa = 0 THEN "pages" ELSE "limit",
                           !.addr = pa]
  /\ UNCHANGED <<registers, barLimit, trap, guest, phase, starts>>

StoreLimit ==
  /\ ctl.pc = "limit"
  /\ barLimit' = [barLimit EXCEPT ![ctl.bar] = ctl.addr + ctl.size]
  /\ ctl' = [ctl EXCEPT !.pc = "pages"]
  /\ UNCHANGED <<registers, barAddress, trap, guest, phase, starts>>

\* After the last BAR the handler returns to the guest; after the last
\* processor UtilForEachProcessor returns.
MutLastBar == ctl.bar > NumBars
LastBar == ctl.bar = NumBars
LastCpu == ctl.cpu = NumProcs - 1

MutNextBar ==
  /\ ctl' = IF ~LastBar THEN [ctl EXCEPT !.pc = "save", !.bar = @ + 1]
            ELSE IF ~LastCpu
            THEN [NoControl EXCEPT !.op = ctl.op, !.cpu = ctl.cpu]
            ELSE NoControl
  /\ mode' = IF LastBar THEN [mode EXCEPT ![ctl.cpu] = "guest"] ELSE mode

NextBar ==
  /\ ctl' = IF ~LastBar THEN [ctl EXCEPT !.pc = "save", !.bar = @ + 1]
            ELSE IF ~LastCpu
            THEN [NoControl EXCEPT !.op = ctl.op, !.cpu = ctl.cpu + 1]
            ELSE NoControl
  /\ mode' = IF LastBar THEN [mode EXCEPT ![ctl.cpu] = "guest"] ELSE mode

\* Revoking goes on to the next page although one could not be mapped.
MutInvalidateEptPages ==
  /\ ctl.op = "enable" /\ ctl.pc = "pages"
  /\ LET hidden == {f \in VisitedFrames(ctl.bar) : ept[ctl.cpu][f] # "absent"} IN
     /\ ept' = [ept EXCEPT ![ctl.cpu] =
                  [f \in Frames |-> IF f \in hidden THEN "trapped" ELSE @[f]]]
     /\ armed' = [armed EXCEPT ![ctl.cpu] = @ \union hidden]
  /\ NextBar
  /\ phase' = IF LastBar /\ LastCpu THEN "monitored" ELSE phase
  /\ UNCHANGED <<registers, deviceList, lastFault, mtf, unmapped, instr, reported,
                 starts>>

\* A page without an entry is mapped first.  When that fails, in pass n, the
\* loop breaks and the rest of the BAR stays as it is, for which nobody looks:
\* DmEnableDeviceMonitor goes on and returns STATUS_SUCCESS.
InvalidateEptPages ==
  /\ ctl.op = "enable" /\ ctl.pc = "pages"
  /\ \E n \in 0 .. Passes(ctl.bar) :
       LET hidden == FirstFrames(ctl.bar, n)
           failing == PassFrame(barAddress[ctl.bar], n) IN
       /\ n < Passes(ctl.bar) => failing \notin hidden /\ MappingFails(ctl.cpu, failing)
       /\ ept' = [ept EXCEPT ![ctl.cpu] =
                    [f \in Frames |-> IF f \in hidden THEN "trapped" ELSE @[f]]]
       /\ armed' = [armed EXCEPT ![ctl.cpu] = @ \union hidden]
       /\ unmapped' = [unmapped EXCEPT ![ctl.cpu] =
                         (@ \union VisitedFrames(ctl.bar)) \ armed'[ctl.cpu]]
  /\ NextBar
  /\ phase' = IF LastBar /\ LastCpu THEN "monitored" ELSE phase
  /\ UNCHANGED <<registers, deviceList, lastFault, mtf, instr, reported, starts>>

MutValidateEptPages ==
  /\ ctl.op = "disable" /\ ctl.pc = "pages"
  /\ LET shown == IF ctl.bar = 1 THEN {} ELSE VisitedFrames(ctl.bar) IN
     /\ ept' = [ept EXCEPT ![ctl.cpu] =
                  [f \in Frames |-> IF f \in shown /\ @[f] # "absent"
                                    THEN "open" ELSE @[f]]]
     /\ armed' = [armed EXCEPT ![ctl.cpu] = @ \ shown]
  /\ NextBar
  /\ UNCHANGED <<registers, deviceList, lastFault, mtf, unmapped, instr, reported,
                 phase, starts>>

ValidateEptPages ==
  /\ ctl.op = "disable" /\ ctl.pc = "pages"
  /\ LET shown == VisitedFrames(ctl.bar) IN
     /\ ept' = [ept EXCEPT ![ctl.cpu] =
                  [f \in Frames |-> IF f \in shown /\ @[f] # "absent"
                                    THEN "open" ELSE @[f]]]
     /\ armed' = [armed EXCEPT ![ctl.cpu] = @ \ shown]
  /\ NextBar
  /\ UNCHANGED <<registers, deviceList, lastFault, mtf, unmapped, instr, reported,
                 phase, starts>>
-----------------------------------------------------------------------------
(* The surroundings.                                                       *)

\* The guest writes a BAR, as resource rebalancing does.
MoveBar(b) ==
  /\ moves[b] < MaxMoves
  /\ b \in PresentBars
  /\ \E base \in Bases[b] :
       /\ base # intended[b]
       /\ barLo' = [barLo EXCEPT ![b] = base[1]]
       /\ barHi' = [barHi EXCEPT ![b] = base[2]]
       /\ intended' = [intended EXCEPT ![b] = base]
  /\ moves' = [moves EXCEPT ![b] = @ + 1]
  /\ UNCHANGED <<deviceList, control, trap, guest>>

\* The end of VmTermination and, on resume, the start of VmInitialization:
\* the processors get new EPTs and VMCSs, g_MonitorDeviceList stays.
StartAgain ==
  /\ phase = "unmonitored" /\ ctl.op = "idle"
  /\ starts < MaxStarts
  /\ \A p \in Procs : mode[p] = "guest" /\ instr[p] = {}
  /\ starts' = starts + 1
  /\ phase' = "virtualized"
  /\ ept' = [p \in Procs |->
               [f \in Frames |-> IF f \in RamFrames THEN "open" ELSE "absent"]]
  /\ lastFault' = [p \in Procs |-> NoEntry]
  /\ mtf' = [p \in Procs |-> FALSE]
  /\ armed' = [p \in Procs |-> {}]
  /\ unmapped' = [p \in Procs |-> {}]
  /\ UNCHANGED <<registers, deviceList, guest, ctl>>

Init ==
  /\ \E base \in [Bars -> UNION {Bases[b] : b \in Bars}] :
       /\ \A b \in Bars : base[b] \in Bases[b]
       /\ barLo = [b \in Bars |-> base[b][1]]
       /\ barHi = [b \in Bars |-> base[b][2]]
       /\ intended = base
  /\ barAddress = [b \in Bars |-> 0]
  /\ barLimit = [b \in Bars |-> 0]
  /\ ept = [p \in Procs |->
              [f \in Frames |-> IF f \in RamFrames THEN "open" ELSE "absent"]]
  /\ lastFault = [p \in Procs |-> NoEntry]
  /\ mtf = [p \in Procs |-> FALSE]
  /\ mode = [p \in Procs |-> "guest"]
  /\ instr = [p \in Procs |-> {}]
  /\ reported = [p \in Procs |-> {}]
  /\ armed = [p \in Procs |-> {}]
  /\ unmapped = [p \in Procs |-> {}]
  /\ phase = "virtualized"
  /\ ctl = NoControl
  /\ moves = [b \in Bars |-> 0] /\ starts = 0

Guest(p) == Begin(p) \/ Retire(p) \/ Interrupt(p)
Exit(p) == VmmpHandleEptViolation(p) \/ VmmpHandleMonitorTrap(p)

Handler ==
  \/ SaveBar \/ WriteOnes \/ ReadSize \/ RestoreBar
  \/ ReadLowerHalf \/ StoreAddress \/ StoreLimit
  \/ InvalidateEptPages \/ ValidateEptPages

Next ==
  \/ \E p \in Procs : Guest(p) \/ Exit(p)
  \/ StartEnable \/ StartDisable \/ VmCall \/ Handler
  \/ \E b \in Bars : MoveBar(b)
  \/ StartAgain

Spec == Init /\ [][Next]_vars

\* The instruction touches a page that cannot be mapped for want of memory.
Starved(p) == \E acc \in instr[p] : MappingFails(p, Frame(acc.addr))

\* A processor keeps executing, a VM-exit handler runs to its end, and the
\* scheduler gets the thread inside UtilForEachProcessor onto every
\* processor again and again.  Nothing makes the guest start instructions,
\* take interrupts or move BARs, and the pool need never have memory.
Fairness ==
  /\ \A p \in Procs : WF_vars(Retire(p)) /\ WF_vars(~Starved(p) /\ Exit(p))
  /\ WF_vars(Handler)
  /\ SF_vars(VmCall)

FairSpec == Spec /\ Fairness
-----------------------------------------------------------------------------
(* Properties.                                                             *)

\* Every variable has its type; what the frames hold is one of three entries.
TypeOK ==
  /\ barLo \in [Bars -> (0 .. (UlongSpan - 1)) \union {AllOnes}]
  /\ barHi \in [Bars -> Nat]
  /\ intended \in [Bars -> (0 .. (UlongSpan - 1)) \X Nat]
  /\ barAddress \in [Bars -> Nat]
  /\ barLimit \in [Bars -> Nat]
  /\ ept \in [Procs -> [Frames -> EntryStates]]
  /\ lastFault \in [Procs -> Frames \union {NoEntry}]
  /\ mtf \in [Procs -> BOOLEAN]
  /\ mode \in [Procs -> Modes]
  /\ instr \in [Procs -> SUBSET Accesses]
  /\ reported \in [Procs -> SUBSET Reports]
  /\ armed \in [Procs -> SUBSET Frames]
  /\ unmapped \in [Procs -> SUBSET Frames]
  /\ phase \in Phases
  /\ ctl \in ControlStates
  /\ moves \in [Bars -> 0 .. MaxMoves]
  /\ starts \in 0 .. MaxStarts

\* A page the monitor has revoked on a processor (DmEnableDeviceMonitor) is
\* accessible there only while that processor single-steps the one
\* instruction whose access was reported: LastFaultEntry names the page and
\* the trap flag is set, so that VmmpHandleMonitorTrap will revoke it again.
MonitorWindow ==
  \A p \in Procs : \A f \in armed[p] :
    ept[p][f] = "open" => lastFault[p] = f /\ mtf[p]

\* vmm.cpp:362 asserts that a monitor trap finds a LastFaultEntry, and vmm.cpp
\* writes through it; VmmpHandleMmio sets both and only the MTF exit clears
\* them, whatever BARs, devices and other processors do.
TrapHasEntry ==
  \A p \in Procs : mode[p] = "boundary" => lastFault[p] # NoEntry

\* A callback is told of a read (1) or a write (2): Spi.cpp:128 indexes a
\* two-element table with Access - 1, and a fetch would give index -1.
AccessIsReadOrWrite ==
  \A p \in Procs : \A r \in reported[p] : r.access \in {1, 2}

\* The BAR of a device decodes what the guest last wrote to it, except while
\* DmGetDeviceBarSize has the register in its hands.  A BAR the guest has
\* moved is excepted: a write that falls between SaveBar and RestoreBar is lost.
BarsRestored ==
  \A b \in PresentBars :
    moves[b] = 0 /\ ~(ctl.bar = b /\ ctl.pc \in {"size", "restore"}) => barLo[b] = intended[b][1]

\* The frames that a BAR with these ends in the list covers.
FramesFor(address, limit) ==
  IF address = 0 \/ limit = 0 \/ address >= HighMark \/ limit < address THEN {}
  ELSE {PassFrame(address, k) : k \in 0 .. (SpanPages(Ulong(limit - address)) - 1)}

\* The frames the list may give a BAR that is moved about: a move between two
\* configuration accesses mixes the dwords of two places, and one while the
\* BAR reads as its size mask makes the driver take the new place for the mask.
LowersOf(b) == {base[1] : base \in Bases[b]}
AddressesOf(b) ==
  IF b \in WideBars \ LowerOnly
  THEN {MaskUpper(base[2]) * UlongSpan + lower : base \in Bases[b], lower \in LowersOf(b)}
  ELSE LowersOf(b)
SizesOf(b) ==
  {SizeFrom(Ulong(UlongSpan - BarSize[b]))} \union {SizeFrom(lower) : lower \in LowersOf(b)}
PlacesOf(b) == UNION {FramesFor(a, a + s) : a \in AddressesOf(b), s \in SizesOf(b)}

\* Once DmDisableMonitor has returned, no processor has a revoked page left:
\* ValidateEptPages finds every page InvalidateEptPages revoked, though both
\* size the BARs anew.  Only a BAR that was moved leaves something behind, and
\* only from where it has been (DevMon.cpp:406 forgets where that was).
NothingLeftRevoked ==
  phase = "unmonitored" /\ ctl.op = "idle" =>
    \A p \in Procs : \A f \in Frames :
      ept[p][f] = "trapped" => \E b \in Bars : moves[b] > 0 /\ f \in PlacesOf(b)

\* The addresses a device's BAR decodes; none while it has no address.
BaseOf(b) == intended[b][2] * UlongSpan + intended[b][1]
Decodes(b, a) ==
  /\ b \in PresentBars
  /\ BaseOf(b) # 0 /\ BaseOf(b) <= a /\ a < BaseOf(b) + BarSize[b]

\* The access is one to BAR b, which has not been moved, and the instruction
\* gets as far as that: it does not fault, or the callback has it skipped.
Cycle(p, b, acc) ==
  /\ acc.kind # "fetch" /\ moves[b] = 0 /\ Decodes(b, acc.addr)
  /\ ~Faults(p, acc) \/ SkipInstruction(p, acc)

\* The callback of b's device has been called for the page of a.
Called(p, b, a) ==
  \E r \in reported[p] : r.device = DeviceOf[b] /\ Frame(r.addr) = Frame(a)

\* README.md:9 "anyone who sends a cycle to the SPI controller will captured
\* by DeviceMon": while the monitor is enabled, an instruction that reads or
\* writes a monitored device does not end, by retiring, by an interrupt between
\* two of its accesses or by being skipped, before the device's callback was
\* called for the page it touched, unless that very BAR has been moved.
EveryCycleCaptured ==
  [][\A p \in Procs : phase = "monitored" /\ instr'[p] # instr[p] =>
       \A acc \in instr[p] : \A b \in Bars :
         Cycle(p, b, acc) => Called(p, b, acc.addr)']_vars

\* What InvalidateEptPages gets to on processor p: BARs that lie below 4 GB
\* (DevMon.cpp:306), of longer ones all pages but the last (DevMon.cpp:323), and
\* of these the ones it could map (DevMon.cpp:315).
Reached(p, b, a) ==
  /\ BaseOf(b) + BarSize[b] < UlongSpan
  /\ SpanPages(BarSize[b]) > 1 => Frame(a) # Frame(BaseOf(b) + BarSize[b] - 1)
  /\ Frame(a) \notin unmapped[p]

\* The same for the pages it gets to: there it holds whatever else is in the
\* list and wherever memory was missing, on the retiring and the skipping path.
ReachedCyclesCaptured ==
  [][\A p \in Procs : phase = "monitored" /\ instr'[p] # instr[p] =>
       \A acc \in instr[p] : \A b \in Bars :
         Cycle(p, b, acc) /\ Reached(p, b, acc.addr) => Called(p, b, acc.addr)']_vars

\* The instruction touches a revoked page at a place no BAR decodes that has
\* stayed where it was: EptHandleEptViolation leaves it faulting.
Beside(p) ==
  \E acc \in instr[p] : /\ ept[p][Frame(acc.addr)] = "trapped"
                        /\ ~\E b \in Bars : moves[b] = 0 /\ Decodes(b, acc.addr)

\* The guest's instructions get done: none that touches only what the monitor
\* watches, or does not, faults on the same page for ever (ept.cpp:653), however
\* often it is interrupted and BARs are moved, and the single-step of one ends.
\* It may have to wait for memory.
InstructionsFinish ==
  \A p \in Procs : instr[p] # {} ~> instr[p] = {} \/ Beside(p) \/ Starved(p)

\* DmEnableMonitor and DmDisableMonitor return, provided that the timer goes on
\* interrupting processors: one whose instruction faults for ever has to let the
\* thread of UtilForEachProcessor in.
MonitorCallsReturn ==
  (\A p \in Procs : WF_vars(Interrupt(p))) => (ctl.op # "idle" ~> ctl.op = "idle")

\* No instruction under way touches two revoked pages: LastFaultEntry has room
\* for one.
OneRevokedPage ==
  \A p \in Procs : \A x, y \in instr[p] :
    Frame(x.addr) \in armed[p] /\ Frame(y.addr) \in armed[p] =>
      Frame(x.addr) = Frame(y.addr)
=============================================================================
