------------------------ MODULE DeviceMonitor_proofs ------------------------
(***************************************************************************)
(* Proofs about DeviceMonitor, for any number of processors, BARs, pages   *)
(* and instructions.                                                       *)
(***************************************************************************)
EXTENDS DeviceMonitor, TLAPS

\* A conversion to ULONG gives a ULONG (DevMon.cpp casts addresses and sizes).
LEMMA UlongRange ==
  ASSUME NEW a \in Int
  PROVE  Ulong(a) \in 0 .. (UlongSpan - 1)
BY SizesAssumption DEF Ulong

\* What DmGetDeviceBarAddress keeps of an upper dword is a natural number.
LEMMA MaskUpperNat ==
  ASSUME NEW u \in Nat
  PROVE  MaskUpper(u) \in Nat
<1>1. u % 16 \in 0 .. 15 /\ u % 16 <= u
  OBVIOUS
<1>2. QED BY <1>1 DEF MaskUpper

LEMMA ProductNat ==
  ASSUME NEW a \in Nat, NEW b \in Nat
  PROVE  a * b \in Nat
OBVIOUS

\* The frame of an address is a frame.
LEMMA FrameOfAddress ==
  ASSUME NEW a \in Addresses
  PROVE  Frame(a) \in Frames
BY DEF Frames

\* InvalidateEptPages and ValidateEptPages touch frames of the machine only.
LEMMA PassFrameIn ==
  ASSUME NEW address \in Int, NEW k \in Nat
  PROVE  PassFrame(address, k) \in Frames
<1> DEFINE j == IF k = 0 THEN 0 ELSE k - 1
<1>1. j \in Int
  OBVIOUS
<1> HIDE DEF j
<1>2. Ulong(address) \in Int /\ PageUnits * j \in Int
  BY <1>1, UlongRange, SizesAssumption
<1>3. Ulong(Ulong(address) + PageUnits * j) \in 0 .. (UlongSpan - 1)
  BY <1>2, UlongRange
<1>4. Ulong(Ulong(address) + PageUnits * j) \in Addresses
  BY <1>3, SizesAssumption DEF Addresses
<1>5. PassFrame(address, k) = Frame(Ulong(Ulong(address) + PageUnits * j))
  BY DEF PassFrame, j
<1> QED BY <1>4, <1>5, FrameOfAddress

LEMMA PassesNat ==
  ASSUME TypeOK, NEW b \in Bars
  PROVE  Passes(b) \in Nat
<1>1. Ulong(barLimit[b] - barAddress[b]) \in Nat
  <2>1. barLimit[b] - barAddress[b] \in Int
    BY DEF TypeOK
  <2> QED BY <2>1, UlongRange, SizesAssumption
<1>2. \A size \in Nat : SpanPages(size) \in Nat
  BY SizesAssumption DEF SpanPages
<1> QED BY <1>1, <1>2 DEF Passes

LEMMA FirstAreFrames ==
  ASSUME TypeOK, NEW b \in Bars, NEW n \in Nat
  PROVE  FirstFrames(b, n) \subseteq Frames
BY PassFrameIn DEF FirstFrames, TypeOK

LEMMA VisitedAreFrames ==
  ASSUME TypeOK, NEW b \in Bars
  PROVE  VisitedFrames(b) \subseteq Frames
BY PassesNat, FirstAreFrames DEF VisitedFrames

\* What revoking does to the pages, and to what the monitor holds: some of the
\* BAR's frames, all unless a table is missing, are revoked.
LEMMA Revokes ==
  ASSUME TypeOK, InvalidateEptPages
  PROVE  /\ ctl.cpu \in Procs /\ ctl.bar \in Bars
         /\ \E hidden \in SUBSET VisitedFrames(ctl.bar) :
              /\ ept' = [ept EXCEPT ![ctl.cpu] =
                   [f \in Frames |-> IF f \in hidden THEN "trapped" ELSE ept[ctl.cpu][f]]]
              /\ armed' = [armed EXCEPT ![ctl.cpu] = armed[ctl.cpu] \union hidden]
              /\ unmapped' = [unmapped EXCEPT ![ctl.cpu] =
                   (unmapped[ctl.cpu] \union VisitedFrames(ctl.bar)) \ armed'[ctl.cpu]]
<1>1. PICK n \in 0 .. Passes(ctl.bar) :
        /\ ept' = [ept EXCEPT ![ctl.cpu] =
             [f \in Frames |-> IF f \in FirstFrames(ctl.bar, n) THEN "trapped"
                               ELSE ept[ctl.cpu][f]]]
        /\ armed' = [armed EXCEPT ![ctl.cpu] = armed[ctl.cpu] \union FirstFrames(ctl.bar, n)]
        /\ unmapped' = [unmapped EXCEPT ![ctl.cpu] =
             (unmapped[ctl.cpu] \union VisitedFrames(ctl.bar)) \ armed'[ctl.cpu]]
  BY DEF InvalidateEptPages
<1>2. ctl.cpu \in Procs /\ ctl.bar \in Bars
  BY DEF TypeOK, ControlStates
<1>3. FirstFrames(ctl.bar, n) \in SUBSET VisitedFrames(ctl.bar)
  BY <1>2, PassesNat DEF FirstFrames, VisitedFrames
<1> QED BY <1>1, <1>2, <1>3

LEMMA ReadLowerRange ==
  ASSUME TypeOK, NEW b \in Bars
  PROVE  ReadLower(b) \in 0 .. (UlongSpan - 1)
<1>1. BarSize[b] \in Int
  BY DevicesAssumption, SizesAssumption
<1>2. Ulong(UlongSpan - BarSize[b]) \in 0 .. (UlongSpan - 1)
  BY <1>1, UlongRange, SizesAssumption
<1>3. barLo[b] # AllOnes => barLo[b] \in 0 .. (UlongSpan - 1)
  BY DEF TypeOK
<1>4. UlongSpan - 1 \in 0 .. (UlongSpan - 1)
  BY SizesAssumption
<1>5. QED
  BY <1>2, <1>3, <1>4 DEF ReadLower

LEMMA CombinedAddressNat ==
  ASSUME TypeOK, NEW b \in Bars, NEW lower \in Nat
  PROVE  CombinedAddress(b, lower) \in Nat
<1>1. ReadUpper(b) \in Nat
  BY SizesAssumption DEF ReadUpper, TypeOK
<1>2. MaskUpper(ReadUpper(b)) * UlongSpan \in Nat
  BY <1>1, MaskUpperNat, ProductNat, SizesAssumption
<1> QED BY <1>2 DEF CombinedAddress
-----------------------------------------------------------------------------
(* Type correctness.                                                       *)

LEMMA ControlFields ==
  ASSUME TypeOK
  PROVE  /\ ctl.op \in {"idle", "enable", "disable"}
         /\ ctl.cpu \in Procs
         /\ ctl.pc \in Pcs
         /\ ctl.bar \in Bars
         /\ ctl.saved \in 0 .. (UlongSpan - 1)
         /\ ctl.size \in 0 .. (UlongSpan - 1)
         /\ ctl.addr \in Nat
BY DEF TypeOK, ControlStates

\* NoControl with any operation and processor is a state of the thread.
LEMMA NoControlState ==
  ASSUME NEW op \in {"idle", "enable", "disable"}, NEW p \in Procs
  PROVE  /\ NoControl \in ControlStates
         /\ [NoControl EXCEPT !.op = op] \in ControlStates
         /\ [NoControl EXCEPT !.op = op, !.cpu = p] \in ControlStates
<1>1. /\ 0 \in Procs
      /\ 1 \in Bars
      /\ 0 \in 0 .. (UlongSpan - 1)
      /\ 0 \in Nat
  BY SizesAssumption DEF Procs, Bars
<1>2. QED
  BY <1>1 DEF NoControl, ControlStates, Pcs

LEMMA InitTypeOK == Init => TypeOK
<1> SUFFICES ASSUME Init PROVE TypeOK
  OBVIOUS
<1>1. PICK base \in [Bars -> UNION {Bases[b] : b \in Bars}] :
        /\ \A b \in Bars : base[b] \in Bases[b]
        /\ barLo = [b \in Bars |-> base[b][1]]
        /\ barHi = [b \in Bars |-> base[b][2]]
        /\ intended = base
  BY DEF Init
<1>2. \A b \in Bars : base[b] \in (0 .. (UlongSpan - 1)) \X Nat
  BY <1>1, DevicesAssumption
<1>3. /\ barLo \in [Bars -> (0 .. (UlongSpan - 1)) \union {AllOnes}]
      /\ barHi \in [Bars -> Nat]
      /\ intended \in [Bars -> (0 .. (UlongSpan - 1)) \X Nat]
  BY <1>1, <1>2
<1>4. ctl \in ControlStates
  <2>1. 0 \in Procs
    BY SizesAssumption DEF Procs
  <2>2. QED
    BY <2>1, NoControlState DEF Init
<1>5. /\ ept \in [Procs -> [Frames -> EntryStates]]
      /\ barAddress \in [Bars -> Nat]
      /\ barLimit \in [Bars -> Nat]
  BY DEF Init, EntryStates
<1>6. moves \in [Bars -> 0 .. MaxMoves] /\ starts \in 0 .. MaxStarts
  BY SizesAssumption DEF Init
<1>7. /\ lastFault \in [Procs -> Frames \union {NoEntry}]
      /\ mtf \in [Procs -> BOOLEAN]
      /\ mode \in [Procs -> Modes]
      /\ instr \in [Procs -> SUBSET Accesses]
      /\ reported \in [Procs -> SUBSET Reports]
      /\ armed \in [Procs -> SUBSET Frames]
      /\ unmapped \in [Procs -> SUBSET Frames]
      /\ phase \in Phases
  BY DEF Init, Modes, Phases
<1>8. QED
  BY <1>3, <1>4, <1>5, <1>6, <1>7 DEF TypeOK

\* The guest's own steps change no more than which instruction runs.
LEMMA GuestTypeOK ==
  ASSUME TypeOK, NEW p \in Procs, Guest(p)
  PROVE  TypeOK'
<1>1. CASE Begin(p)
  BY <1>1, InstructionsAssumption
  DEF Begin, TypeOK, registers, deviceList, control, trap
<1>2. CASE Retire(p)
  BY <1>2 DEF Retire, TypeOK, Modes, registers, deviceList, control, trap
<1>3. CASE Interrupt(p)
  BY <1>3 DEF Interrupt, TypeOK, Modes, registers, deviceList, control, trap
<1>4. QED
  BY <1>1, <1>2, <1>3 DEF Guest

LEMMA ReportType ==
  ASSUME TypeOK, NEW p \in Procs, NEW acc \in Accesses, Report(p, acc)
  PROVE  reported' \in [Procs -> SUBSET Reports]
<1>1. AccessCode(acc.kind) \in 0 .. 2
  <2>1. acc.kind \in {"read", "write", "update", "fetch"}
    BY DEF Accesses, Kinds
  <2>2. QED
    BY <2>1 DEF AccessCode
<1>2. {[addr |-> acc.addr, device |-> DeviceOf[b],
        access |-> AccessCode(acc.kind)] : b \in CalledBars(acc.addr)}
        \subseteq Reports
  BY <1>1 DEF Accesses, Reports, CalledBars
<1>3. QED
  BY <1>2 DEF Report, TypeOK

LEMMA ExitTypeOK ==
  ASSUME TypeOK, NEW p \in Procs, Exit(p)
  PROVE  TypeOK'
<1>1. CASE VmmpHandleEptViolation(p)
  <2>1. PICK acc \in instr[p] : OpenPage(p, acc) \/ SkipInstruction(p, acc)
                                \/ MapPage(p, acc) \/ LeaveUnmapped(p, acc)
                                \/ LeaveFaulting(p, acc)
    BY <1>1 DEF VmmpHandleEptViolation
  <2>2. acc \in Accesses /\ Frame(acc.addr) \in Frames
    BY FrameOfAddress DEF TypeOK, Accesses
  <2>3. CASE OpenPage(p, acc)
    BY <2>2, <2>3, ReportType DEF OpenPage, TypeOK, EntryStates, registers, deviceList, control
  <2>4. CASE SkipInstruction(p, acc)
    BY <2>2, <2>4, ReportType DEF SkipInstruction, TypeOK, registers, deviceList, control, trap
  <2>5. CASE MapPage(p, acc)
    BY <2>2, <2>5 DEF MapPage, TypeOK, EntryStates, registers, deviceList,
                      control, guest
  <2>6. CASE LeaveUnmapped(p, acc) \/ LeaveFaulting(p, acc)
    BY <2>6 DEF LeaveUnmapped, LeaveFaulting, TypeOK, vars
  <2>7. QED
    BY <2>1, <2>3, <2>4, <2>5, <2>6
<1>2. CASE VmmpHandleMonitorTrap(p)
  BY <1>2 DEF VmmpHandleMonitorTrap, TypeOK, EntryStates, Modes, registers,
              deviceList, control
<1>3. QED
  BY <1>1, <1>2 DEF Exit

LEMMA NextBarTypeOK ==
  ASSUME TypeOK, NextBar
  PROVE  /\ mode' \in [Procs -> Modes]
         /\ ctl' \in ControlStates
<1>1. mode' \in [Procs -> Modes]
  BY DEF NextBar, TypeOK, Modes
<1>2. CASE ~LastBar
  <2>1. ctl.bar + 1 \in Bars
    BY <1>2, ControlFields, SizesAssumption DEF LastBar, Bars
  <2>2. ctl' = [ctl EXCEPT !.pc = "save", !.bar = ctl.bar + 1]
    BY <1>2 DEF NextBar
  <2>3. QED
    BY <1>1, <2>1, <2>2 DEF TypeOK, ControlStates, Pcs
<1>3. CASE LastBar /\ ~LastCpu
  <2>1. ctl.cpu + 1 \in Procs
    BY <1>3, ControlFields, SizesAssumption DEF LastCpu, Procs
  <2>2. ctl' = [NoControl EXCEPT !.op = ctl.op, !.cpu = ctl.cpu + 1]
    BY <1>3 DEF NextBar
  <2>3. QED
    BY <1>1, <2>1, <2>2, ControlFields, NoControlState
<1>4. CASE LastBar /\ LastCpu
  BY <1>1, <1>4, ControlFields, NoControlState DEF NextBar
<1>5. QED
  BY <1>2, <1>3, <1>4

LEMMA HandlerTypeOK ==
  ASSUME TypeOK, Handler
  PROVE  TypeOK'
<1>1. CASE SaveBar
  <2>1. ReadLower(ctl.bar) \in 0 .. (UlongSpan - 1)
    BY ReadLowerRange, ControlFields
  <2>2. QED
    BY <1>1, <2>1 DEF SaveBar, TypeOK, ControlStates, Pcs, registers, deviceList, trap, guest
<1>2. CASE WriteOnes
  BY <1>2 DEF WriteOnes, TypeOK, ControlStates, Pcs, deviceList, trap, guest
<1>3. CASE ReadSize
  <2>1. ReadLower(ctl.bar) \in Int
    BY ReadLowerRange, ControlFields
  <2>2. SizeFrom(ReadLower(ctl.bar)) \in 0 .. (UlongSpan - 1)
    BY <2>1, UlongRange, SizesAssumption DEF SizeFrom
  <2>3. QED
    BY <1>3, <2>2 DEF ReadSize, TypeOK, ControlStates, Pcs, registers, deviceList, trap, guest
<1>4. CASE RestoreBar
  BY <1>4 DEF RestoreBar, TypeOK, ControlStates, Pcs, deviceList, trap, guest
<1>5. CASE ReadLowerHalf \/ StoreAddress
  <2>1. ReadLower(ctl.bar) \in Nat
    BY ReadLowerRange, ControlFields, SizesAssumption
  <2>2. CASE ReadLowerHalf
    BY <2>1, <2>2 DEF ReadLowerHalf, TypeOK, ControlStates, Pcs, registers, deviceList, trap,
                      guest
  <2>3. CASE StoreAddress
    <3> DEFINE lower == IF ctl.bar \in WideBars THEN ctl.addr ELSE ReadLower(ctl.bar)
    <3>1. lower \in Nat
      BY <2>1, ControlFields
    <3> HIDE DEF lower
    <3>2. CombinedAddress(ctl.bar, lower) \in Nat
      BY <3>1, CombinedAddressNat, ControlFields
    <3> QED BY <2>3, <3>2 DEF StoreAddress, TypeOK, ControlStates, Pcs, registers, trap, guest,
                              lower
  <2> QED BY <1>5, <2>2, <2>3
<1>6. CASE StoreLimit
  <2>1. ctl.addr + ctl.size \in Nat
    BY ControlFields, SizesAssumption
  <2>2. QED
    BY <1>6, <2>1 DEF StoreLimit, TypeOK, ControlStates, Pcs, registers, trap, guest
<1>7. CASE InvalidateEptPages
  <2>1. VisitedFrames(ctl.bar) \subseteq Frames
    BY VisitedAreFrames, ControlFields
  <2>2. PICK hidden \in SUBSET VisitedFrames(ctl.bar) :
          /\ ept' = [ept EXCEPT ![ctl.cpu] =
               [f \in Frames |-> IF f \in hidden THEN "trapped" ELSE ept[ctl.cpu][f]]]
          /\ armed' = [armed EXCEPT ![ctl.cpu] = armed[ctl.cpu] \union hidden]
          /\ unmapped' = [unmapped EXCEPT ![ctl.cpu] =
               (unmapped[ctl.cpu] \union VisitedFrames(ctl.bar)) \ armed'[ctl.cpu]]
    BY <1>7, Revokes
  <2>3. /\ ept' \in [Procs -> [Frames -> EntryStates]]
        /\ armed' \in [Procs -> SUBSET Frames]
        /\ unmapped' \in [Procs -> SUBSET Frames]
    BY <2>1, <2>2 DEF TypeOK, EntryStates
  <2>4. NextBar
    BY <1>7 DEF InvalidateEptPages
  <2> QED BY <1>7, <2>3, <2>4, NextBarTypeOK
          DEF InvalidateEptPages, TypeOK, Phases, registers, deviceList
<1>8. CASE ValidateEptPages
  <2>1. NextBar
    BY <1>8 DEF ValidateEptPages
  <2>2. QED
    BY <1>8, <2>1, NextBarTypeOK
    DEF ValidateEptPages, TypeOK, EntryStates, registers, deviceList
<1>9. QED
  BY <1>1, <1>2, <1>3, <1>4, <1>5, <1>6, <1>7, <1>8 DEF Handler

LEMMA OtherTypeOK ==
  ASSUME TypeOK,
         \/ StartEnable \/ StartDisable \/ VmCall
         \/ \E b \in Bars : MoveBar(b)
         \/ StartAgain
  PROVE  TypeOK'
<1>1. CASE StartEnable \/ StartDisable
  <2>1. 0 \in Procs
    BY SizesAssumption DEF Procs
  <2>2. ctl' \in ControlStates
    BY <1>1, <2>1, NoControlState DEF StartEnable, StartDisable
  <2>3. QED
    BY <1>1, <2>2
    DEF StartEnable, StartDisable, TypeOK, Phases, registers, deviceList, trap,
        guest
<1>2. CASE VmCall
  BY <1>2 DEF VmCall, TypeOK, ControlStates, Modes, Pcs, registers, deviceList, trap
<1>3. ASSUME NEW b \in Bars, MoveBar(b) PROVE TypeOK'
  <2>1. PICK base \in Bases[b] : /\ barLo' = [barLo EXCEPT ![b] = base[1]]
                                 /\ barHi' = [barHi EXCEPT ![b] = base[2]]
                                 /\ intended' = [intended EXCEPT ![b] = base]
    BY <1>3 DEF MoveBar
  <2>2. base \in (0 .. (UlongSpan - 1)) \X Nat
    BY DevicesAssumption
  <2>3. /\ barLo' \in [Bars -> (0 .. (UlongSpan - 1)) \union {AllOnes}]
        /\ barHi' \in [Bars -> Nat]
        /\ intended' \in [Bars -> (0 .. (UlongSpan - 1)) \X Nat]
    BY <2>1, <2>2 DEF TypeOK
  <2>4. moves' \in [Bars -> 0 .. MaxMoves]
    BY <1>3, SizesAssumption DEF MoveBar, TypeOK
  <2>5. QED
    BY <1>3, <2>3, <2>4 DEF MoveBar, TypeOK, deviceList, control, trap, guest
<1>4. CASE StartAgain
  BY <1>4, SizesAssumption
  DEF StartAgain, TypeOK, EntryStates, Phases, registers, deviceList, guest
<1>5. QED
  BY <1>1, <1>2, <1>3, <1>4

LEMMA StepTypeOK == TypeOK /\ [Next]_vars => TypeOK'
<1> SUFFICES ASSUME TypeOK, [Next]_vars PROVE TypeOK'
  OBVIOUS
<1>1. CASE UNCHANGED vars
  BY <1>1 DEF vars, TypeOK
<1>2. CASE Next
  BY <1>2, GuestTypeOK, ExitTypeOK, HandlerTypeOK, OtherTypeOK DEF Next
<1>3. QED
  BY <1>1, <1>2

\* Every variable of the monitor has its type (DevMon.cpp, vmm.cpp:355-1346).
THEOREM TypeCorrect == Spec => []TypeOK
BY InitTypeOK, StepTypeOK, PTL DEF Spec
-----------------------------------------------------------------------------
(* LastFaultEntry and the trap flag.                                       *)

\* VmmpHandleMmio sets LastFaultEntry and the flag together,
\* VmmpHandleMonitorTrap clears both, and only a set flag makes a processor
\* leave at an instruction boundary.
TrapInv ==
  \A p \in Procs :
    /\ mtf[p] <=> lastFault[p] # NoEntry
    /\ mode[p] = "boundary" => mtf[p]

LEMMA InitTrapInv == Init => TrapInv
BY DEF Init, TrapInv

\* Outside the exits of p itself, p's flag, LastFaultEntry and ties to the
\* instruction boundary are left alone.
LEMMA HandlerModes ==
  ASSUME TypeOK, Handler
  PROVE  /\ UNCHANGED <<mtf, lastFault>>
         /\ \A p \in Procs : mode'[p] = mode[p] \/ mode'[p] = "guest"
<1>1. NextBar => \A p \in Procs : mode'[p] = mode[p] \/ mode'[p] = "guest"
  BY DEF NextBar, TypeOK
<1>2. QED
  BY <1>1 DEF Handler, SaveBar, WriteOnes, ReadSize, RestoreBar, ReadLowerHalf, StoreAddress,
     StoreLimit, InvalidateEptPages, ValidateEptPages, trap, guest

LEMMA StepTrapInv == TypeOK /\ TrapInv /\ [Next]_vars => TrapInv'
<1> SUFFICES ASSUME TypeOK, TrapInv, [Next]_vars PROVE TrapInv'
  OBVIOUS
<1>1. CASE UNCHANGED vars
  BY <1>1 DEF vars, TrapInv
<1>2. ASSUME NEW p \in Procs, Guest(p) PROVE TrapInv'
  BY <1>2 DEF Guest, Begin, Retire, Interrupt, TrapInv, TypeOK, trap
<1>3. ASSUME NEW p \in Procs, VmmpHandleEptViolation(p) PROVE TrapInv'
  <2>1. PICK acc \in instr[p] : OpenPage(p, acc) \/ SkipInstruction(p, acc)
                                \/ MapPage(p, acc) \/ LeaveUnmapped(p, acc)
                                \/ LeaveFaulting(p, acc)
    BY <1>3 DEF VmmpHandleEptViolation
  <2>2. Frame(acc.addr) # NoEntry
    BY FrameOfAddress, InstructionsAssumption DEF TypeOK, Accesses
  <2>3. CASE OpenPage(p, acc)
    BY <2>2, <2>3 DEF OpenPage, TrapInv, TypeOK
  <2>4. CASE SkipInstruction(p, acc) \/ MapPage(p, acc)
            \/ LeaveUnmapped(p, acc) \/ LeaveFaulting(p, acc)
    BY <2>4 DEF SkipInstruction, MapPage, LeaveUnmapped, LeaveFaulting, TrapInv, TypeOK, trap,
                guest, vars
  <2>5. QED
    BY <2>1, <2>3, <2>4
<1>4. ASSUME NEW p \in Procs, VmmpHandleMonitorTrap(p) PROVE TrapInv'
  BY <1>4 DEF VmmpHandleMonitorTrap, TrapInv, TypeOK
<1>5. CASE Handler
  BY <1>5, HandlerModes DEF TrapInv
<1>6. CASE StartEnable \/ StartDisable \/ VmCall \/ (\E b \in Bars : MoveBar(b))
  BY <1>6 DEF StartEnable, StartDisable, VmCall, MoveBar, TrapInv, TypeOK, trap,
              guest
<1>7. CASE StartAgain
  BY <1>7 DEF StartAgain, TrapInv, TypeOK, guest
<1>8. QED
  BY <1>1, <1>2, <1>3, <1>4, <1>5, <1>6, <1>7 DEF Next, Exit

LEMMA TrapInvHolds == Spec => []TrapInv
<1>1. Spec => [](TypeOK /\ TrapInv)
  BY InitTypeOK, StepTypeOK, InitTrapInv, StepTrapInv, PTL DEF Spec
<1>2. QED
  BY <1>1, PTL

\* The assertion of vmm.cpp:362, and the write through LastFaultEntry after
\* it, hold for every set of devices, BARs and instructions, whatever the
\* guest writes to its BARs while they are sized.
THEOREM TrapHasEntryHolds == Spec => []TrapHasEntry
<1>1. TrapInv => TrapHasEntry
  BY DEF TrapInv, TrapHasEntry
<1>2. QED
  BY <1>1, TrapInvHolds, PTL
-----------------------------------------------------------------------------
(* What the callbacks are told.                                            *)

LEMMA StepAccessIsReadOrWrite ==
  TypeOK /\ AccessIsReadOrWrite /\ [Next]_vars => AccessIsReadOrWrite'
<1> SUFFICES ASSUME TypeOK, AccessIsReadOrWrite, [Next]_vars
             PROVE  AccessIsReadOrWrite'
  OBVIOUS
<1>1. ASSUME NEW p \in Procs, VmmpHandleEptViolation(p)
      PROVE  AccessIsReadOrWrite'
  <2>1. PICK acc \in instr[p] : /\ Faults(p, acc)
                                /\ \/ OpenPage(p, acc)
                                   \/ SkipInstruction(p, acc)
                                   \/ MapPage(p, acc)
                                   \/ LeaveUnmapped(p, acc)
                                   \/ LeaveFaulting(p, acc)
    BY <1>1 DEF VmmpHandleEptViolation
  <2>2. acc \in Accesses /\ Frame(acc.addr) \in Frames
    BY FrameOfAddress DEF TypeOK, Accesses
  <2>3. Claimed(p, acc) => AccessCode(acc.kind) \in {1, 2}
    <3>1. Claimed(p, acc) => acc.kind # "fetch"
      BY <2>1, <2>2 DEF Claimed, Faults, Permits, TypeOK, EntryStates
    <3>2. acc.kind \in {"read", "write", "update", "fetch"}
      BY <2>2 DEF Accesses, Kinds
    <3>3. QED
      BY <3>1, <3>2 DEF AccessCode
  <2>4. CASE OpenPage(p, acc) \/ SkipInstruction(p, acc)
    <3>1. Claimed(p, acc) /\ Report(p, acc)
      BY <2>4 DEF OpenPage, SkipInstruction
    <3> DEFINE told == {[addr |-> acc.addr, device |-> DeviceOf[b],
                         access |-> AccessCode(acc.kind)] : b \in CalledBars(acc.addr)}
    <3>2. \A r \in told : r.access \in {1, 2}
      BY <2>3, <3>1
    <3>3. reported' = [reported EXCEPT ![p] = reported[p] \union told]
      BY <3>1 DEF Report
    <3> HIDE DEF told
    <3>4. QED
      BY <3>2, <3>3 DEF AccessIsReadOrWrite, TypeOK
  <2>5. CASE MapPage(p, acc) \/ LeaveUnmapped(p, acc) \/ LeaveFaulting(p, acc)
    BY <2>5 DEF MapPage, LeaveUnmapped, LeaveFaulting, AccessIsReadOrWrite, guest, vars
  <2>6. QED
    BY <2>1, <2>4, <2>5
<1>2. ASSUME NEW p \in Procs, Guest(p) PROVE AccessIsReadOrWrite'
  BY <1>2 DEF Guest, Begin, Retire, Interrupt, AccessIsReadOrWrite, TypeOK
<1>3. ASSUME ~\E p \in Procs : Guest(p) \/ VmmpHandleEptViolation(p)
      PROVE  UNCHANGED reported
  BY <1>3 DEF Next, Exit, VmmpHandleMonitorTrap, StartEnable, StartDisable,
     VmCall, Handler, SaveBar, WriteOnes, ReadSize, RestoreBar, ReadLowerHalf, StoreAddress,
     StoreLimit, InvalidateEptPages, ValidateEptPages, MoveBar, StartAgain,
     guest, vars
<1>4. QED
  BY <1>1, <1>2, <1>3 DEF AccessIsReadOrWrite

\* No callback is ever told of a fetch: a revoked page stays executable, so
\* that Access - 1 (Spi.cpp:128) indexes AccessStr within its two elements.
THEOREM AccessIsReadOrWriteHolds == Spec => []AccessIsReadOrWrite
<1>1. Init => AccessIsReadOrWrite
  BY DEF Init, AccessIsReadOrWrite
<1>2. Spec => [](TypeOK /\ AccessIsReadOrWrite)
  BY <1>1, InitTypeOK, StepTypeOK, StepAccessIsReadOrWrite, PTL DEF Spec
<1>3. QED
  BY <1>2, PTL
-----------------------------------------------------------------------------
(* The single-step window.                                                 *)

\* While LastFaultEntry names a page, it is a revoked page that is open and that
\* the instruction under way touches; a processor inside a monitor VMCALL has
\* no LastFaultEntry; of the revoked pages only that one can be open, and no
\* other pages are trapped.
WindowInv ==
  /\ ctl.pc # "migrate" => mode[ctl.cpu] = "root"
  /\ \A p \in Procs :
       /\ instr[p] \in Instructions \union {{}}
       /\ lastFault[p] # NoEntry =>
            /\ ept[p][lastFault[p]] = "open" /\ lastFault[p] \in armed[p]
            /\ mode[p] # "root"
            /\ mode[p] = "guest" => \E acc \in instr[p] : Frame(acc.addr) = lastFault[p]
       /\ \A f \in armed[p] :
            /\ ept[p][f] # "absent"
            /\ ept[p][f] = "open" => lastFault[p] = f
       /\ \A f \in Frames : ept[p][f] = "trapped" => f \in armed[p]

LEMMA InitWindowInv == Init => WindowInv
BY DEF Init, WindowInv, NoControl

LEMMA GuestWindowInv ==
  ASSUME TypeOK, TrapInv, WindowInv, NEW p \in Procs, Guest(p)
  PROVE  WindowInv'
<1>1. CASE Begin(p)
  BY <1>1 DEF Begin, WindowInv, TypeOK, control, trap
<1>2. CASE Retire(p) \/ Interrupt(p)
  <2>1. /\ mode[p] = "guest"
        /\ instr' = [instr EXCEPT ![p] = {}]
        /\ mode' = [mode EXCEPT ![p] = IF mtf[p] THEN "boundary" ELSE "guest"]
        /\ UNCHANGED <<ctl, ept, lastFault, armed>>
    BY <1>2 DEF Retire, Interrupt, control, trap
  <2>2. ctl.pc # "migrate" => mode'[ctl.cpu] = "root"
    BY <2>1, ControlFields DEF WindowInv, TypeOK
  <2>3. lastFault[p] # NoEntry => mode'[p] = "boundary"
    BY <2>1 DEF TrapInv, TypeOK
  <2>4. \A q \in Procs : q # p => mode'[q] = mode[q] /\ instr'[q] = instr[q]
    BY <2>1 DEF TypeOK
  <2>5. instr'[p] = {}
    BY <2>1 DEF TypeOK
  <2>6. QED
    BY <2>1, <2>2, <2>3, <2>4, <2>5 DEF WindowInv
<1>3. QED
  BY <1>1, <1>2 DEF Guest

\* A page that faults because it is revoked is the only revoked one that the
\* instruction touches, so that no page is open for it yet.
LEMMA FaultFindsNoEntry ==
  ASSUME TypeOK, WindowInv, OneRevokedPage, NEW p \in Procs, NEW acc \in instr[p],
         mode[p] = "guest", Faults(p, acc), ept[p][Frame(acc.addr)] # "absent"
  PROVE  /\ ept[p][Frame(acc.addr)] = "trapped" /\ Frame(acc.addr) \in armed[p]
         /\ lastFault[p] = NoEntry
<1>1. acc \in Accesses /\ Frame(acc.addr) \in Frames
  BY FrameOfAddress DEF TypeOK, Accesses
<1>2. ept[p][Frame(acc.addr)] = "trapped"
  BY <1>1 DEF Faults, Permits, TypeOK, EntryStates
<1>3. Frame(acc.addr) \in armed[p]
  BY <1>1, <1>2 DEF WindowInv
<1>4. ASSUME lastFault[p] # NoEntry
      PROVE  FALSE
  <2>1. PICK y \in instr[p] : Frame(y.addr) = lastFault[p]
    BY <1>4 DEF WindowInv
  <2>2. lastFault[p] \in armed[p] /\ ept[p][lastFault[p]] = "open"
    BY <1>4 DEF WindowInv
  <2> QED BY <1>2, <1>3, <2>1, <2>2 DEF OneRevokedPage
<1> QED BY <1>2, <1>3, <1>4

LEMMA ExitWindowInv ==
  ASSUME TypeOK, TrapInv, WindowInv, OneRevokedPage, NEW p \in Procs, Exit(p)
  PROVE  WindowInv'
<1>1. CASE VmmpHandleEptViolation(p)
  <2>1. PICK acc \in instr[p] : /\ mode[p] = "guest"
                                /\ Faults(p, acc)
                                /\ \/ OpenPage(p, acc)
                                   \/ SkipInstruction(p, acc)
                                   \/ MapPage(p, acc)
                                   \/ LeaveUnmapped(p, acc)
                                   \/ LeaveFaulting(p, acc)
    BY <1>1 DEF VmmpHandleEptViolation
  <2>2. acc \in Accesses /\ Frame(acc.addr) \in Frames
    BY FrameOfAddress DEF TypeOK, Accesses
  <2>3. Claimed(p, acc) => /\ Frame(acc.addr) \in armed[p] /\ lastFault[p] = NoEntry
    BY <2>1, FaultFindsNoEntry DEF Claimed
  <2>4. CASE OpenPage(p, acc)
    <3> DEFINE g == Frame(acc.addr)
    <3>1. /\ lastFault' = [lastFault EXCEPT ![p] = g]
          /\ ept' = [ept EXCEPT ![p][g] = "open"]
          /\ UNCHANGED <<ctl, armed, mode, instr>>
      BY <2>4 DEF OpenPage, control
    <3>2. g \in Frames /\ g \in armed[p] /\ \E x \in instr[p] : Frame(x.addr) = g
      BY <2>2, <2>3, <2>4 DEF OpenPage
    <3> HIDE DEF g
    <3>3. /\ lastFault'[p] = g
          /\ ept'[p][g] = "open"
          /\ \A f \in Frames : f # g => ept'[p][f] = ept[p][f]
      BY <3>1, <3>2 DEF TypeOK
    <3>4. \A q \in Procs : q # p => lastFault'[q] = lastFault[q] /\ ept'[q] = ept[q]
      BY <3>1 DEF TypeOK
    <3>5. armed[p] \subseteq Frames
      BY DEF TypeOK
    <3>6. \A f \in armed[p] : f # g => ept[p][f] # "absent" /\ ept[p][f] # "open"
      BY <2>3, <2>4, <3>5, InstructionsAssumption DEF OpenPage, WindowInv
    <3>7. QED
      BY <2>1, <3>1, <3>2, <3>3, <3>4, <3>5, <3>6 DEF WindowInv
  <2>5. CASE SkipInstruction(p, acc)
    <3>1. lastFault[p] = NoEntry
      BY <2>3, <2>5 DEF SkipInstruction
    <3> QED BY <2>5, <3>1 DEF SkipInstruction, WindowInv, TypeOK, control, trap
  <2>6. CASE MapPage(p, acc)
    <3>1. Frame(acc.addr) \notin armed[p]
      BY <2>6 DEF MapPage, WindowInv
    <3> QED BY <2>2, <2>6, <3>1 DEF MapPage, WindowInv, TypeOK, control, guest
  <2>7. CASE LeaveUnmapped(p, acc) \/ LeaveFaulting(p, acc)
    BY <2>7 DEF LeaveUnmapped, LeaveFaulting, WindowInv, vars
  <2>8. QED
    BY <2>1, <2>4, <2>5, <2>6, <2>7
<1>2. CASE VmmpHandleMonitorTrap(p)
  <2>1. lastFault[p] \in Frames /\ lastFault[p] \in armed[p] /\ lastFault[p] # NoEntry
    BY <1>2 DEF VmmpHandleMonitorTrap, TrapInv, TypeOK, WindowInv
  <2>2. QED
    BY <1>2, <2>1 DEF VmmpHandleMonitorTrap, WindowInv, TypeOK, control
<1>3. QED
  BY <1>1, <1>2 DEF Exit

LEMMA HandlerWindowInv ==
  ASSUME TypeOK, WindowInv, Handler
  PROVE  WindowInv'
<1>1. CASE SaveBar \/ WriteOnes \/ ReadSize \/ RestoreBar \/ ReadLowerHalf
            \/ StoreAddress \/ StoreLimit
  <2>1. ctl'.cpu = ctl.cpu /\ ctl.pc # "migrate" /\ ctl'.pc # "migrate"
    BY <1>1 DEF SaveBar, WriteOnes, ReadSize, RestoreBar, ReadLowerHalf, StoreAddress,
                StoreLimit, TypeOK, ControlStates
  <2>2. UNCHANGED <<ept, lastFault, armed, mode, instr>>
    BY <1>1 DEF SaveBar, WriteOnes, ReadSize, RestoreBar, ReadLowerHalf, StoreAddress,
                StoreLimit, trap, guest
  <2>3. QED
    BY <2>1, <2>2 DEF WindowInv
<1>2. CASE InvalidateEptPages \/ ValidateEptPages
  <2>1. ctl.cpu \in Procs /\ mode[ctl.cpu] = "root" /\ lastFault[ctl.cpu] = NoEntry
    BY <1>2, ControlFields DEF InvalidateEptPages, ValidateEptPages, WindowInv
  <2>2. UNCHANGED <<lastFault, instr>> /\ NextBar
    BY <1>2 DEF InvalidateEptPages, ValidateEptPages
  <2>3. mode' \in [Procs -> Modes] /\ \A p \in Procs : p # ctl.cpu => mode'[p] = mode[p]
    BY <2>2, NextBarTypeOK DEF NextBar, TypeOK
  <2>4. ctl'.pc # "migrate" => mode'[ctl'.cpu] = "root"
    <3>1. CASE ~LastBar
      BY <2>1, <2>2, <3>1 DEF NextBar, TypeOK, ControlStates
    <3>2. CASE LastBar
      BY <2>2, <3>2 DEF NextBar, NoControl
    <3>3. QED
      BY <3>1, <3>2
  <2>5. /\ \A p \in Procs : \A f \in armed'[p] :
             /\ ept'[p][f] # "absent"
             /\ ept'[p][f] = "open" => lastFault[p] = f
        /\ \A p \in Procs : p # ctl.cpu => ept'[p] = ept[p] /\ armed'[p] = armed[p]
        /\ \A f \in Frames : ept'[ctl.cpu][f] = "trapped" => f \in armed'[ctl.cpu]
    <3>1. CASE InvalidateEptPages
      <4>1. PICK hidden \in SUBSET VisitedFrames(ctl.bar) :
              /\ ept' = [ept EXCEPT ![ctl.cpu] =
                   [f \in Frames |-> IF f \in hidden THEN "trapped" ELSE ept[ctl.cpu][f]]]
              /\ armed' = [armed EXCEPT ![ctl.cpu] = armed[ctl.cpu] \union hidden]
        BY <3>1, Revokes
      <4>2. hidden \subseteq Frames
        BY VisitedAreFrames, ControlFields
      <4>3. QED
        BY <2>1, <4>1, <4>2 DEF WindowInv, TypeOK
    <3>2. CASE ValidateEptPages
      BY <2>1, <3>2 DEF ValidateEptPages, WindowInv, TypeOK
    <3>3. QED
      BY <1>2, <3>1, <3>2
  <2>6. QED
    BY <2>1, <2>2, <2>3, <2>4, <2>5 DEF WindowInv
<1>3. QED
  BY <1>1, <1>2 DEF Handler

LEMMA OtherWindowInv ==
  ASSUME TypeOK, WindowInv,
         \/ StartEnable \/ StartDisable \/ VmCall
         \/ \E b \in Bars : MoveBar(b)
         \/ StartAgain
  PROVE  WindowInv'
<1>1. CASE StartEnable \/ StartDisable
  <2>1. ctl'.pc = "migrate"
    BY <1>1 DEF StartEnable, StartDisable, NoControl
  <2>2. QED
    BY <1>1, <2>1 DEF StartEnable, StartDisable, WindowInv, trap, guest
<1>2. CASE VmCall
  <2>1. ctl.cpu \in Procs /\ ctl'.cpu = ctl.cpu
    BY <1>2, ControlFields DEF VmCall, TypeOK, ControlStates
  <2>2. lastFault[ctl.cpu] = NoEntry
    BY <1>2, <2>1 DEF VmCall, WindowInv
  <2>3. QED
    BY <1>2, <2>1, <2>2 DEF VmCall, WindowInv, TypeOK, trap
<1>3. CASE \E b \in Bars : MoveBar(b)
  BY <1>3 DEF MoveBar, WindowInv, control, trap, guest
<1>4. CASE StartAgain
  BY <1>4 DEF StartAgain, WindowInv, TypeOK, guest
<1>5. QED
  BY <1>1, <1>2, <1>3, <1>4

LEMMA StepWindowInv ==
  TypeOK /\ TrapInv /\ WindowInv /\ OneRevokedPage /\ [Next]_vars => WindowInv'
<1> SUFFICES ASSUME TypeOK, TrapInv, WindowInv, OneRevokedPage, [Next]_vars PROVE WindowInv'
  OBVIOUS
<1>1. CASE UNCHANGED vars
  BY <1>1 DEF vars, WindowInv
<1>2. CASE Next
  BY <1>2, GuestWindowInv, ExitWindowInv, HandlerWindowInv, OtherWindowInv DEF Next
<1>3. QED
  BY <1>1, <1>2

LEMMA WindowInvHolds == Spec /\ []OneRevokedPage => [](TypeOK /\ TrapInv /\ WindowInv)
BY InitTypeOK, StepTypeOK, InitTrapInv, StepTrapInv, InitWindowInv, StepWindowInv,
   PTL DEF Spec

\* While no instruction touches two revoked pages, a page that
\* DmEnableDeviceMonitor revoked is never accessible on that processor but in the
\* single-step of an instruction it reported, whatever the other processors, the
\* callbacks' answers and the guest's writes to the BARs are.
THEOREM MonitorWindowHolds == Spec /\ []OneRevokedPage => []MonitorWindow
<1>1. TrapInv /\ TypeOK /\ WindowInv => MonitorWindow
  <2> SUFFICES ASSUME TrapInv, TypeOK, WindowInv,
                      NEW p \in Procs, NEW f \in armed[p], ept[p][f] = "open"
               PROVE  lastFault[p] = f /\ mtf[p]
    BY DEF MonitorWindow
  <2>1. f # NoEntry
    BY InstructionsAssumption DEF TypeOK
  <2>2. QED
    BY <2>1 DEF WindowInv, TrapInv
<1>2. QED
  BY <1>1, WindowInvHolds, PTL
=============================================================================
