--------------------------- MODULE DeviceBars_proofs ---------------------------
(***************************************************************************)
(* Proofs about DeviceMonitor, for any number of processors, BARs, pages   *)
(* and instructions: what sizing a BAR does to its register, to            *)
(* g_MonitorDeviceList and to the pages revoked for it, and that therefore *)
(* accesses to a device are reported to its callback.                      *)
(***************************************************************************)
EXTENDS DeviceMonitor_proofs

\* While nobody has moved it, the BAR register holds what the platform gave
\* it or, where DmGetDeviceBarSize has it, BaseAddr does.
RegisterOK(b) ==
  LET inHand == ctl.bar = b /\ ctl.pc \in {"size", "restore"} IN
  /\ barHi[b] = intended[b][2]
  /\ barLo[b] = IF inHand THEN AllOnes ELSE intended[b][1]
  /\ ctl.bar = b /\ ctl.pc \in {"ones", "size", "restore"} => ctl.saved = intended[b][1]

RegistersInv == \A b \in PresentBars : moves[b] = 0 => RegisterOK(b)

\* What DmInitBarInfo finds for a BAR that nobody moves.
LowerOf(b) == IF b \in PresentBars THEN intended[b][1] ELSE UlongSpan - 1
UpperOf(b) == IF b \in PresentBars THEN intended[b][2] ELSE AbsentUpper
AddressOf(b) ==
  IF b \in WideBars \ LowerOnly
  THEN MaskUpper(UpperOf(b)) * UlongSpan + LowerOf(b)
  ELSE LowerOf(b)
SizeOf(b) ==
  SizeFrom(IF b \in PresentBars THEN Ulong(UlongSpan - BarSize[b]) ELSE UlongSpan - 1)

\* With no size or no address it leaves the list as it is.
Listed(b) == SizeOf(b) # 0 /\ AddressOf(b) # 0
Found(b) ==
  /\ barAddress[b] = IF Listed(b) THEN AddressOf(b) ELSE 0
  /\ barLimit[b] = IF Listed(b) THEN AddressOf(b) + SizeOf(b) ELSE 0

\* The frames it covers then.
PagesOf(b) ==
  FramesFor(IF Listed(b) THEN AddressOf(b) ELSE 0,
            IF Listed(b) THEN AddressOf(b) + SizeOf(b) ELSE 0)

\* Where DmInitBarInfo is, the values it has are those.
EntryOK(b) ==
  /\ ~Listed(b) => barAddress[b] = 0 /\ barLimit[b] = 0
  /\ ctl.bar = b =>
       /\ ctl.pc = "restore" => ctl.size = SizeOf(b)
       /\ ctl.pc \in {"address", "upper"} => ctl.size = SizeOf(b) /\ ctl.size # 0
       /\ ctl.pc = "upper" => ctl.addr = LowerOf(b)
       /\ ctl.pc = "limit" => /\ Listed(b) /\ ctl.size = SizeOf(b)
                              /\ ctl.addr = AddressOf(b) /\ barAddress[b] = AddressOf(b)
       /\ ctl.pc = "pages" => Found(b)

ListInv == \A b \in Bars : moves[b] = 0 => EntryOK(b)

\* The thread inside UtilForEachProcessor and the phase.
PhaseInv ==
  /\ ctl.op = "enable" => phase = "virtualized"
  /\ ctl.op = "disable" => phase = "unmonitored"
  /\ ctl.op = "idle" => ctl.pc = "migrate"

\* DmDisableMonitor has been through BAR b on processor p.
Shown(p, b) ==
  /\ phase = "unmonitored"
  /\ \/ ctl.op = "idle" \/ p < ctl.cpu
     \/ p = ctl.cpu /\ b < ctl.bar

\* What the registers and the list hold for a BAR that may have been moved.
MovedOK(b) ==
  LET inHand == ctl.bar = b /\ ctl.pc \in {"size", "restore"} IN
  /\ intended[b] \in Bases[b]
  /\ barLo[b] \in LowersOf(b) \/ (inHand /\ barLo[b] = AllOnes)
  /\ \E base \in Bases[b] : barHi[b] = base[2]
  /\ ctl.bar = b /\ ctl.pc \in {"ones", "size", "restore"} => ctl.saved \in LowersOf(b)
  /\ ctl.bar = b /\ ctl.pc \in {"restore", "address", "upper", "limit"}
       => ctl.size \in SizesOf(b)
  /\ ctl.bar = b /\ ctl.pc = "upper" => ctl.addr \in LowersOf(b)
  /\ IF ctl.bar = b /\ ctl.pc = "limit"
     THEN ctl.addr \in AddressesOf(b) /\ barAddress[b] = ctl.addr
     ELSE \/ barAddress[b] = 0
          \/ barAddress[b] \in AddressesOf(b)
             /\ \E s \in SizesOf(b) : barLimit[b] = barAddress[b] + s

MovedInv == \A b \in Bars : IF b \in PresentBars THEN MovedOK(b) ELSE moves[b] = 0

\* A page is revoked, or about to be revoked again by the monitor trap, only
\* for a BAR that DmDisableMonitor has still to come to, or that was moved.
RevokedInv ==
  \A p \in Procs : \A f \in Frames :
    ept[p][f] = "trapped" \/ lastFault[p] = f =>
      \E b \in Bars : \/ moves[b] = 0 /\ f \in PagesOf(b) /\ ~Shown(p, b)
                      \/ moves[b] > 0 /\ f \in PlacesOf(b)

BarsInv == PhaseInv /\ RegistersInv /\ ListInv /\ MovedInv /\ RevokedInv
-----------------------------------------------------------------------------
(* The BAR registers.                                                      *)

\* The steps that are not one of DevMon.cpp's.
Surroundings ==
  \/ \E p \in Procs : Guest(p) \/ Exit(p)
  \/ StartEnable \/ StartDisable \/ VmCall \/ StartAgain

LEMMA ExitKeeps ==
  ASSUME NEW p \in Procs, Exit(p)
  PROVE  UNCHANGED <<registers, deviceList, control>>
BY DEF Exit, VmmpHandleEptViolation, OpenPage, SkipInstruction, MapPage, LeaveUnmapped, LeaveFaulting,
       VmmpHandleMonitorTrap, vars, registers, deviceList, control

\* They leave the registers and the list alone, and do not size a BAR.
LEMMA SurroundingsKeep ==
  ASSUME TypeOK, PhaseInv, Surroundings
  PROVE  /\ UNCHANGED <<registers, deviceList>>
         /\ \/ UNCHANGED ctl
            \/ ctl.pc = "migrate" /\ ctl'.pc \in {"migrate", "save"}
<1>1. CASE \E p \in Procs : Guest(p) \/ Exit(p)
  BY <1>1, ExitKeeps DEF Guest, Begin, Retire, Interrupt, registers, deviceList, control
<1>2. CASE StartEnable \/ StartDisable
  BY <1>2 DEF StartEnable, StartDisable, NoControl, PhaseInv, registers, deviceList
<1>3. CASE VmCall
  BY <1>3 DEF VmCall, registers, deviceList, TypeOK, ControlStates
<1>4. CASE StartAgain
  BY <1>4 DEF StartAgain, registers, deviceList
<1> QED BY <1>1, <1>2, <1>3, <1>4 DEF Surroundings

LEMMA NextBarPc ==
  ASSUME TypeOK, NextBar
  PROVE  ctl'.pc \in {"save", "migrate"}
BY DEF NextBar, NoControl, TypeOK, ControlStates

LEMMA StepPhaseInv ==
  ASSUME TypeOK, PhaseInv, Next
  PROVE  PhaseInv'
<1>1. CASE \E p \in Procs : Guest(p) \/ Exit(p)
  BY <1>1, ExitKeeps DEF Guest, Begin, Retire, Interrupt, control, PhaseInv
<1>2. CASE StartEnable \/ StartDisable \/ VmCall \/ StartAgain
  BY <1>2 DEF StartEnable, StartDisable, VmCall, StartAgain, NoControl, PhaseInv,
              TypeOK, ControlStates
<1>3. CASE \E b \in Bars : MoveBar(b)
  BY <1>3 DEF MoveBar, control, PhaseInv
<1>4. CASE SaveBar \/ WriteOnes \/ ReadSize \/ RestoreBar \/ ReadLowerHalf
            \/ StoreAddress \/ StoreLimit
  BY <1>4 DEF SaveBar, WriteOnes, ReadSize, RestoreBar, ReadLowerHalf, StoreAddress, StoreLimit,
              PhaseInv, TypeOK, ControlStates
<1>5. CASE InvalidateEptPages \/ ValidateEptPages
  <2>1. NextBar /\ ctl.op \in {"enable", "disable"}
    BY <1>5 DEF InvalidateEptPages, ValidateEptPages
  <2>2. /\ ctl'.op \in {"idle", ctl.op}
        /\ ctl'.op = "idle" => ctl'.pc = "migrate"
        /\ LastBar /\ LastCpu => ctl'.op = "idle"
    BY <2>1 DEF NextBar, NoControl, TypeOK, ControlStates
  <2> QED BY <1>5, <2>1, <2>2 DEF InvalidateEptPages, ValidateEptPages, PhaseInv
<1> QED BY <1>1, <1>2, <1>3, <1>4, <1>5 DEF Next, Handler

LEMMA RegisterTypes ==
  ASSUME TypeOK, NEW b \in Bars
  PROVE  /\ intended[b][1] \in 0 .. (UlongSpan - 1) /\ intended[b][1] # AllOnes
         /\ intended[b][2] \in Nat
BY SizesAssumption DEF TypeOK, AllOnes

\* What a configuration read of an unmoved BAR answers.
LEMMA ReadLowerIs ==
  ASSUME TypeOK, NEW b \in Bars, b \in PresentBars => RegisterOK(b)
  PROVE  /\ ~(ctl.bar = b /\ ctl.pc \in {"size", "restore"}) => ReadLower(b) = LowerOf(b)
         /\ ctl.bar = b /\ ctl.pc = "size" => SizeFrom(ReadLower(b)) = SizeOf(b)
         /\ ReadUpper(b) = UpperOf(b)
BY RegisterTypes DEF ReadLower, LowerOf, SizeOf, ReadUpper, UpperOf, RegisterOK

LEMMA StepRegistersInv ==
  ASSUME TypeOK, PhaseInv, RegistersInv, Next
  PROVE  RegistersInv'
<1> SUFFICES ASSUME NEW b \in PresentBars, moves'[b] = 0
             PROVE  RegisterOK(b)'
  BY DEF RegistersInv
<1>0. b \in Bars
  BY DevicesAssumption
<1>1. CASE Surroundings
  <2>1. RegisterOK(b)
    BY <1>1, SurroundingsKeep DEF RegistersInv, registers
  <2> QED BY <1>1, <2>1, SurroundingsKeep DEF RegisterOK, registers
<1>2. CASE \E c \in Bars : MoveBar(c)
  <2>1. PICK c \in Bars : MoveBar(c)
    BY <1>2
  <2>2. PICK base : /\ barLo' = [barLo EXCEPT ![c] = base[1]]
                    /\ barHi' = [barHi EXCEPT ![c] = base[2]]
                    /\ intended' = [intended EXCEPT ![c] = base]
    BY <2>1 DEF MoveBar
  <2>3. moves' = [moves EXCEPT ![c] = moves[c] + 1] /\ UNCHANGED ctl
    BY <2>1 DEF MoveBar, control
  <2>4. c # b
    BY <1>0, <2>3, SizesAssumption DEF TypeOK
  <2>5. RegisterOK(b)
    BY <1>0, <2>3, <2>4 DEF RegistersInv, TypeOK
  <2> QED BY <1>0, <2>2, <2>3, <2>4, <2>5 DEF RegisterOK, TypeOK
<1>3. ASSUME Handler
      PROVE  RegisterOK(b)'
  <2>1. UNCHANGED <<moves, barHi, intended>>
    BY <1>3 DEF Handler, SaveBar, WriteOnes, ReadSize, RestoreBar, ReadLowerHalf, StoreAddress, StoreLimit,
       InvalidateEptPages, ValidateEptPages, registers
  <2>2. RegisterOK(b)
    BY <2>1 DEF RegistersInv
  <2>3. CASE SaveBar
    <3>1. ctl.bar = b => ReadLower(b) = intended[b][1]
      BY <1>0, <2>2, <2>3, ReadLowerIs DEF SaveBar, LowerOf
    <3> QED BY <2>1, <2>2, <2>3, <3>1 DEF SaveBar, RegisterOK, TypeOK, ControlStates, registers
  <2>4. CASE WriteOnes
    BY <1>0, <2>1, <2>2, <2>4 DEF WriteOnes, RegisterOK, TypeOK, ControlStates
  <2>5. CASE ReadSize
    BY <2>1, <2>2, <2>5 DEF ReadSize, RegisterOK, TypeOK, ControlStates, registers
  <2>6. CASE RestoreBar
    BY <1>0, <2>1, <2>2, <2>6 DEF RestoreBar, RegisterOK, TypeOK, ControlStates
  <2>7. CASE ReadLowerHalf \/ StoreAddress \/ StoreLimit
    BY <2>1, <2>2, <2>7 DEF ReadLowerHalf, StoreAddress, StoreLimit, RegisterOK, TypeOK, ControlStates,
                            registers
  <2>8. CASE InvalidateEptPages \/ ValidateEptPages
    <3>1. ctl.pc = "pages" /\ ctl'.pc \in {"save", "migrate"} /\ UNCHANGED registers
      BY <2>8, NextBarPc DEF InvalidateEptPages, ValidateEptPages
    <3> QED BY <2>2, <3>1 DEF RegisterOK, registers
  <2> QED BY <1>3, <2>3, <2>4, <2>5, <2>6, <2>7, <2>8 DEF Handler
<1> QED BY <1>1, <1>2, <1>3 DEF Next, Surroundings

LEMMA InitRegisters ==
  ASSUME Init
  PROVE  PhaseInv /\ RegistersInv
<1>1. PhaseInv
  BY DEF Init, PhaseInv, NoControl
<1>2. PICK base \in [Bars -> UNION {Bases[b] : b \in Bars}] :
        /\ barLo = [b \in Bars |-> base[b][1]]
        /\ barHi = [b \in Bars |-> base[b][2]]
        /\ intended = base
  BY DEF Init
<1> QED BY <1>1, <1>2, DevicesAssumption DEF RegistersInv, RegisterOK, Init, NoControl

LEMMA StepRegisters ==
  TypeOK /\ PhaseInv /\ RegistersInv /\ [Next]_vars => PhaseInv' /\ RegistersInv'
<1> SUFFICES ASSUME TypeOK, PhaseInv, RegistersInv, [Next]_vars
             PROVE  PhaseInv' /\ RegistersInv'
  OBVIOUS
<1>1. CASE UNCHANGED vars
  BY <1>1 DEF vars, PhaseInv, RegistersInv, RegisterOK
<1> QED BY <1>1, StepPhaseInv, StepRegistersInv

\* Sizing a BAR puts back what it held, on every processor and every time the
\* monitor is enabled or disabled, for any devices: unless the guest has moved
\* that BAR, it reads as the platform left it but in the two steps between
\* writing the ones and the restore (DmGetDeviceBarSize).
THEOREM BarsRestoredHolds == Spec => []BarsRestored
<1>1. RegistersInv => BarsRestored
  BY DEF RegistersInv, RegisterOK, BarsRestored
<1> QED BY <1>1, InitTypeOK, StepTypeOK, InitRegisters, StepRegisters, PTL DEF Spec
-----------------------------------------------------------------------------
(* The entries of the list that belong to BARs nobody has moved.           *)

\* What there is to find depends on the place of the BAR alone.
LEMMA SamePlace ==
  ASSUME NEW b, intended'[b] = intended[b]
  PROVE  /\ SizeOf(b)' = SizeOf(b) /\ AddressOf(b)' = AddressOf(b)
         /\ LowerOf(b)' = LowerOf(b)
         /\ Listed(b)' = Listed(b) /\ PagesOf(b)' = PagesOf(b)
<1>1. /\ SizeOf(b)' = SizeOf(b) /\ AddressOf(b)' = AddressOf(b)
      /\ LowerOf(b)' = LowerOf(b)
  BY DEF SizeOf, AddressOf, LowerOf, UpperOf
<1> QED BY <1>1 DEF Listed, PagesOf

\* A step that is not a move of b leaves b where it is.
LEMMA StaysPut ==
  ASSUME TypeOK, Next, NEW b \in Bars, moves'[b] = 0
  PROVE  /\ moves[b] = 0 /\ intended'[b] = intended[b]
         /\ \/ Surroundings \/ Handler
            \/ UNCHANGED <<deviceList, control, trap, guest>>
<1>1. CASE \E c \in Bars : MoveBar(c)
  <2>1. PICK c \in Bars : MoveBar(c)
    BY <1>1
  <2>2. /\ moves' = [moves EXCEPT ![c] = moves[c] + 1]
        /\ UNCHANGED <<deviceList, control, trap, guest>>
        /\ \E base : intended' = [intended EXCEPT ![c] = base]
    BY <2>1 DEF MoveBar
  <2>3. c # b
    BY <2>2, SizesAssumption DEF TypeOK
  <2> QED BY <2>2, <2>3 DEF TypeOK
<1>2. CASE Surroundings
  <2>1. UNCHANGED <<moves, intended>>
    BY <1>2 DEF Surroundings, Guest, Begin, Retire, Interrupt, Exit, VmmpHandleEptViolation,
       OpenPage, SkipInstruction, MapPage, LeaveUnmapped, LeaveFaulting, VmmpHandleMonitorTrap, StartEnable,
       StartDisable, VmCall, StartAgain, registers, vars
  <2> QED BY <1>2, <2>1
<1>3. CASE Handler
  <2>1. UNCHANGED <<moves, intended>>
    BY <1>3 DEF Handler, SaveBar, WriteOnes, ReadSize, RestoreBar, ReadLowerHalf, StoreAddress, StoreLimit,
       InvalidateEptPages, ValidateEptPages, registers
  <2> QED BY <1>3, <2>1
<1> QED BY <1>1, <1>2, <1>3 DEF Next, Surroundings

\* Sizing b once more finds what is in the list already.
LEMMA StepEntryOK ==
  ASSUME TypeOK, PhaseInv, NEW b \in Bars, b \in PresentBars => RegisterOK(b), EntryOK(b),
         intended'[b] = intended[b],
         Surroundings \/ Handler \/ UNCHANGED <<deviceList, control, trap, guest>>
  PROVE  EntryOK(b)' /\ (Found(b) => Found(b)')
<1>0. /\ SizeOf(b)' = SizeOf(b) /\ AddressOf(b)' = AddressOf(b)
      /\ LowerOf(b)' = LowerOf(b) /\ Listed(b)' = Listed(b)
  BY SamePlace
<1>1. CASE Surroundings \/ UNCHANGED <<deviceList, control, trap, guest>>
  <2>1. /\ UNCHANGED deviceList
        /\ UNCHANGED ctl \/ ctl'.pc \in {"migrate", "save"}
    BY <1>1, SurroundingsKeep DEF control
  <2> QED BY <1>0, <2>1 DEF EntryOK, Found, deviceList
<1>2. CASE SaveBar \/ WriteOnes
  <2>1. UNCHANGED deviceList /\ ctl'.pc \in {"ones", "size"}
    BY <1>2 DEF SaveBar, WriteOnes, TypeOK, ControlStates
  <2> QED BY <1>0, <2>1 DEF EntryOK, Found, deviceList
<1>3. CASE ReadSize
  <2>1. /\ UNCHANGED deviceList
        /\ ctl'.pc = "restore" /\ ctl'.bar = ctl.bar
        /\ ctl'.size = SizeFrom(ReadLower(ctl.bar)) /\ ctl.pc = "size"
    BY <1>3 DEF ReadSize, TypeOK, ControlStates
  <2>2. ctl.bar = b => ctl'.size = SizeOf(b)
    BY <2>1, ReadLowerIs
  <2> QED BY <1>0, <2>1, <2>2 DEF EntryOK, Found, deviceList
<1>4. CASE RestoreBar
  <2>1. /\ UNCHANGED deviceList /\ ctl.pc = "restore"
        /\ ctl'.pc = IF ctl.size = 0 THEN "pages" ELSE "address"
        /\ ctl'.bar = ctl.bar /\ ctl'.size = ctl.size
    BY <1>4 DEF RestoreBar, TypeOK, ControlStates
  <2>2. ctl.bar = b => ctl.size = SizeOf(b)
    BY <2>1 DEF EntryOK
  <2>3. ctl.bar = b /\ ctl.size = 0 => Found(b)
    BY <2>2 DEF EntryOK, Found, Listed
  <2> QED BY <1>0, <2>1, <2>2, <2>3 DEF EntryOK, Found, deviceList
<1>8. CASE ReadLowerHalf
  <2>1. /\ UNCHANGED deviceList /\ ctl.pc = "address" /\ ctl'.pc = "upper"
        /\ ctl'.bar = ctl.bar /\ ctl'.size = ctl.size /\ ctl'.addr = ReadLower(ctl.bar)
    BY <1>8 DEF ReadLowerHalf, TypeOK, ControlStates
  <2>2. ctl.bar = b => ctl'.addr = LowerOf(b)
    BY <2>1, ReadLowerIs
  <2> QED BY <1>0, <2>1, <2>2 DEF EntryOK, Found, deviceList
<1>5. CASE StoreAddress
  <2> DEFINE lower == IF ctl.bar \in WideBars THEN ctl.addr ELSE ReadLower(ctl.bar)
             pa == CombinedAddress(ctl.bar, lower)
  <2>1. /\ ctl.pc = (IF ctl.bar \in WideBars THEN "upper" ELSE "address")
        /\ barLimit' = barLimit /\ ctl'.bar = ctl.bar
        /\ barAddress' = IF pa = 0 THEN barAddress ELSE [barAddress EXCEPT ![ctl.bar] = pa]
        /\ ctl'.pc = IF pa = 0 THEN "pages" ELSE "limit"
        /\ ctl'.addr = pa /\ ctl'.size = ctl.size
    BY <1>5 DEF StoreAddress, TypeOK, ControlStates
  <2>4. ctl.bar = b => lower = LowerOf(b)
    BY <2>1, ReadLowerIs DEF EntryOK
  <2>5. ctl.bar = b => pa = AddressOf(b)
    BY <2>4, ReadLowerIs DEF CombinedAddress, AddressOf
  <2> HIDE DEF pa
  <2>2. CASE ctl.bar # b
    <3>1. barAddress'[b] = barAddress[b]
      BY <2>1, <2>2 DEF TypeOK
    <3> QED BY <1>0, <2>1, <2>2, <3>1 DEF EntryOK, Found
  <2>3. CASE ctl.bar = b
    <3>1. ctl.size = SizeOf(b) /\ ctl.size # 0
      BY <2>1, <2>3 DEF EntryOK
    <3>2. pa = AddressOf(b)
      BY <2>3, <2>5
    <3>3. CASE AddressOf(b) = 0
      <4>1. Found(b) /\ UNCHANGED deviceList
        BY <2>1, <2>3, <3>2, <3>3 DEF EntryOK, Found, Listed, deviceList
      <4> QED BY <1>0, <2>1, <2>3, <3>2, <3>3, <4>1 DEF EntryOK, Found, deviceList
    <3>4. CASE AddressOf(b) # 0
      <4>1. Listed(b) /\ barAddress'[b] = AddressOf(b)
        BY <2>1, <2>3, <3>1, <3>2, <3>4 DEF Listed, TypeOK
      <4> QED BY <1>0, <2>1, <2>3, <3>1, <3>2, <3>4, <4>1 DEF EntryOK, Found
    <3> QED BY <3>3, <3>4
  <2> QED BY <2>2, <2>3
<1>6. CASE StoreLimit
  <2>1. /\ ctl.pc = "limit" /\ barAddress' = barAddress
        /\ barLimit' = [barLimit EXCEPT ![ctl.bar] = ctl.addr + ctl.size]
        /\ ctl'.pc = "pages" /\ ctl'.bar = ctl.bar
    BY <1>6 DEF StoreLimit, TypeOK, ControlStates
  <2>2. CASE ctl.bar # b
    <3>1. barLimit'[b] = barLimit[b]
      BY <2>1, <2>2 DEF TypeOK
    <3> QED BY <1>0, <2>1, <2>2, <3>1 DEF EntryOK, Found
  <2>3. CASE ctl.bar = b
    <3>1. /\ Listed(b) /\ ctl.size = SizeOf(b) /\ ctl.addr = AddressOf(b)
          /\ barAddress[b] = AddressOf(b)
      BY <2>1, <2>3 DEF EntryOK
    <3>2. barLimit'[b] = AddressOf(b) + SizeOf(b)
      BY <2>1, <2>3, <3>1 DEF TypeOK
    <3> QED BY <1>0, <2>1, <2>3, <3>1, <3>2 DEF EntryOK, Found
  <2> QED BY <2>2, <2>3
<1>7. CASE InvalidateEptPages \/ ValidateEptPages
  <2>1. UNCHANGED deviceList /\ ctl'.pc \in {"save", "migrate"}
    BY <1>7, NextBarPc DEF InvalidateEptPages, ValidateEptPages
  <2> QED BY <1>0, <2>1 DEF EntryOK, Found, deviceList
<1> QED BY <1>1, <1>2, <1>3, <1>4, <1>5, <1>6, <1>7, <1>8 DEF Handler

LEMMA StepListInv ==
  ASSUME TypeOK, PhaseInv, RegistersInv, ListInv, Next
  PROVE  ListInv'
<1> SUFFICES ASSUME NEW b \in Bars, moves'[b] = 0
             PROVE  EntryOK(b)'
  BY DEF ListInv
<1> QED BY StaysPut, StepEntryOK DEF ListInv, RegistersInv

-----------------------------------------------------------------------------
(* BARs that have been moved.                                              *)

LEMMA NoMove ==
  ASSUME TypeOK, Surroundings \/ Handler
  PROVE  UNCHANGED <<moves, intended>>
<1>1. CASE Surroundings
  BY <1>1 DEF Surroundings, Guest, Begin, Retire, Interrupt, Exit, VmmpHandleEptViolation,
     OpenPage, SkipInstruction, MapPage, LeaveUnmapped, LeaveFaulting, VmmpHandleMonitorTrap, StartEnable,
     StartDisable, VmCall, StartAgain, registers, vars
<1>2. CASE Handler
  BY <1>2 DEF Handler, SaveBar, WriteOnes, ReadSize, RestoreBar, ReadLowerHalf, StoreAddress, StoreLimit,
     InvalidateEptPages, ValidateEptPages, registers
<1> QED BY <1>1, <1>2

\* A present BAR reads as one of its places, except for its size mask.
LEMMA ReadMoved ==
  ASSUME TypeOK, NEW b \in PresentBars, MovedOK(b)
  PROVE  /\ ~(ctl.bar = b /\ ctl.pc \in {"size", "restore"}) => ReadLower(b) \in LowersOf(b)
         /\ SizeFrom(ReadLower(b)) \in SizesOf(b)
<1>1. AllOnes \notin LowersOf(b)
  BY SizesAssumption, DevicesAssumption DEF LowersOf, AllOnes
<1>2. CASE barLo[b] \in LowersOf(b)
  <2>1. ReadLower(b) = barLo[b]
    BY <1>1, <1>2 DEF ReadLower
  <2> QED BY <1>2, <2>1 DEF SizesOf
<1>3. CASE barLo[b] = AllOnes
  <2>1. ReadLower(b) = Ulong(UlongSpan - BarSize[b])
    BY <1>3 DEF ReadLower
  <2>2. SizeFrom(ReadLower(b)) \in SizesOf(b)
    BY <2>1 DEF SizesOf
  <2> QED BY <1>1, <1>3, <2>2 DEF MovedOK
<1> QED BY <1>2, <1>3 DEF MovedOK

LEMMA CombinedMoved ==
  ASSUME TypeOK, NEW b \in PresentBars, MovedOK(b), NEW lower \in LowersOf(b)
  PROVE  CombinedAddress(b, lower) \in AddressesOf(b)
<1>1. PICK base \in Bases[b] : ReadUpper(b) = base[2]
  BY DEF MovedOK, ReadUpper
<1> QED BY <1>1 DEF CombinedAddress, AddressesOf

LEMMA StepMovedOK ==
  ASSUME TypeOK, PhaseInv, Next, NEW b \in PresentBars, MovedOK(b)
  PROVE  MovedOK(b)'
<1>0. b \in Bars /\ MovedOK(b)
  BY DevicesAssumption
<1>1. CASE Surroundings
  <2>1. /\ UNCHANGED <<barLo, barHi, intended, barAddress, barLimit>>
        /\ UNCHANGED ctl \/ (ctl.pc = "migrate" /\ ctl'.pc \in {"migrate", "save"})
    BY <1>1, SurroundingsKeep DEF registers, deviceList
  <2> QED BY <1>0, <2>1 DEF MovedOK
<1>2. CASE \E c \in Bars : MoveBar(c)
  <2>0. PICK c \in Bars : MoveBar(c)
    BY <1>2
  <2>1. PICK base \in Bases[c] :
          /\ barLo' = [barLo EXCEPT ![c] = base[1]]
          /\ barHi' = [barHi EXCEPT ![c] = base[2]]
          /\ intended' = [intended EXCEPT ![c] = base]
          /\ UNCHANGED <<barAddress, barLimit, ctl>>
    BY <2>0 DEF MoveBar, deviceList, control
  <2>2. CASE c = b
    <3>1. barLo'[b] = base[1] /\ barHi'[b] = base[2] /\ intended'[b] = base
      BY <1>0, <2>1, <2>2 DEF TypeOK
    <3>2. barLo'[b] \in LowersOf(b)
      BY <2>2, <3>1 DEF LowersOf
    <3> QED BY <1>0, <2>1, <2>2, <3>1, <3>2 DEF MovedOK
  <2>3. CASE c # b
    <3>1. barLo'[b] = barLo[b] /\ barHi'[b] = barHi[b] /\ intended'[b] = intended[b]
      BY <1>0, <2>1, <2>3 DEF TypeOK
    <3> QED BY <1>0, <2>1, <3>1 DEF MovedOK
  <2> QED BY <2>2, <2>3
<1>3. CASE SaveBar
  <2>1. /\ UNCHANGED <<barLo, barHi, intended, barAddress, barLimit>> /\ ctl.pc = "save"
        /\ ctl'.pc = "ones" /\ ctl'.bar = ctl.bar /\ ctl'.saved = ReadLower(ctl.bar)
    BY <1>3 DEF SaveBar, registers, deviceList, TypeOK, ControlStates
  <2>2. ctl.bar = b => ctl'.saved \in LowersOf(b)
    BY <1>0, <2>1, ReadMoved
  <2> QED BY <1>0, <2>1, <2>2 DEF MovedOK
<1>4. CASE WriteOnes
  <2>1. /\ UNCHANGED <<barHi, intended, barAddress, barLimit>> /\ ctl.pc = "ones"
        /\ ctl'.pc = "size" /\ ctl'.bar = ctl.bar /\ ctl'.saved = ctl.saved
        /\ barLo'[b] = IF ctl.bar = b THEN AllOnes ELSE barLo[b]
    BY <1>0, <1>4 DEF WriteOnes, deviceList, TypeOK, ControlStates
  <2> QED BY <1>0, <2>1 DEF MovedOK
<1>5. CASE ReadSize
  <2>1. /\ UNCHANGED <<barLo, barHi, intended, barAddress, barLimit>> /\ ctl.pc = "size"
        /\ ctl'.pc = "restore" /\ ctl'.bar = ctl.bar /\ ctl'.saved = ctl.saved
        /\ ctl'.size = SizeFrom(ReadLower(ctl.bar))
    BY <1>5 DEF ReadSize, registers, deviceList, TypeOK, ControlStates
  <2>2. ctl.bar = b => ctl'.size \in SizesOf(b)
    BY <1>0, <2>1, ReadMoved
  <2> QED BY <1>0, <2>1, <2>2 DEF MovedOK
<1>6. CASE RestoreBar
  <2>1. /\ UNCHANGED <<barHi, intended, barAddress, barLimit>> /\ ctl.pc = "restore"
        /\ ctl'.pc \in {"pages", "address"} /\ ctl'.bar = ctl.bar /\ ctl'.size = ctl.size
        /\ barLo'[b] = IF ctl.bar = b THEN ctl.saved ELSE barLo[b]
    BY <1>0, <1>6 DEF RestoreBar, deviceList, TypeOK, ControlStates
  <2> QED BY <1>0, <2>1 DEF MovedOK
<1>7. CASE ReadLowerHalf \/ StoreAddress
  <2>1. CASE ReadLowerHalf
    <3>1. /\ UNCHANGED <<barLo, barHi, intended, barAddress, barLimit>> /\ ctl.pc = "address"
          /\ ctl'.pc = "upper" /\ ctl'.bar = ctl.bar /\ ctl'.size = ctl.size
          /\ ctl'.addr = ReadLower(ctl.bar)
      BY <2>1 DEF ReadLowerHalf, registers, deviceList, TypeOK, ControlStates
    <3>2. ctl.bar = b => ctl'.addr \in LowersOf(b)
      BY <1>0, <3>1, ReadMoved
    <3> QED BY <1>0, <3>1, <3>2 DEF MovedOK
  <2>2. CASE StoreAddress
    <3> DEFINE lower == IF ctl.bar \in WideBars THEN ctl.addr ELSE ReadLower(ctl.bar)
               pa == CombinedAddress(ctl.bar, lower)
    <3>1. /\ UNCHANGED <<barLo, barHi, intended, barLimit>>
          /\ ctl.pc = (IF ctl.bar \in WideBars THEN "upper" ELSE "address")
          /\ ctl'.pc = IF pa = 0 THEN "pages" ELSE "limit"
          /\ ctl'.bar = ctl.bar /\ ctl'.size = ctl.size /\ ctl'.addr = pa
          /\ barAddress'[b] = IF ctl.bar = b /\ pa # 0 THEN pa ELSE barAddress[b]
      BY <1>0, <2>2 DEF StoreAddress, registers, TypeOK, ControlStates
    <3>2. ctl.bar = b => lower \in LowersOf(b)
      BY <1>0, <3>1, ReadMoved DEF MovedOK
    <3> HIDE DEF lower
    <3>3. ctl.bar = b => pa \in AddressesOf(b)
      BY <1>0, <3>2, CombinedMoved
    <3> HIDE DEF pa
    <3> QED BY <1>0, <3>1, <3>3 DEF MovedOK
  <2> QED BY <1>7, <2>1, <2>2
<1>8. CASE StoreLimit
  <2>1. /\ UNCHANGED <<barLo, barHi, intended, barAddress>> /\ ctl.pc = "limit"
        /\ ctl'.pc = "pages" /\ ctl'.bar = ctl.bar
        /\ barLimit'[b] = IF ctl.bar = b THEN ctl.addr + ctl.size ELSE barLimit[b]
    BY <1>0, <1>8 DEF StoreLimit, registers, TypeOK, ControlStates
  <2> QED BY <1>0, <2>1 DEF MovedOK
<1>9. CASE InvalidateEptPages \/ ValidateEptPages
  <2>1. /\ UNCHANGED <<barLo, barHi, intended, barAddress, barLimit>> /\ ctl.pc = "pages"
        /\ ctl'.pc \in {"save", "migrate"}
    BY <1>9, NextBarPc DEF InvalidateEptPages, ValidateEptPages, registers, deviceList
  <2> QED BY <1>0, <2>1 DEF MovedOK
<1> QED BY <1>1, <1>2, <1>3, <1>4, <1>5, <1>6, <1>7, <1>8, <1>9
        DEF Next, Handler, Surroundings

LEMMA StepMovedInv ==
  ASSUME TypeOK, PhaseInv, MovedInv, Next
  PROVE  MovedInv'
<1> SUFFICES ASSUME NEW b \in Bars, b \notin PresentBars
             PROVE  moves'[b] = 0
  BY StepMovedOK DEF MovedInv
<1>1. moves[b] = 0
  BY DEF MovedInv
<1>2. CASE \E c \in Bars : MoveBar(c)
  BY <1>1, <1>2 DEF MoveBar, TypeOK
<1>3. CASE Surroundings \/ Handler
  BY <1>1, <1>3, NoMove
<1> QED BY <1>2, <1>3 DEF Next, Surroundings
-----------------------------------------------------------------------------
(* The pages.                                                              *)

LEMMA VisitedAre ==
  ASSUME NEW b
  PROVE  VisitedFrames(b) = FramesFor(barAddress[b], barLimit[b])
<1>1. CASE BarFoundError(b)
  BY <1>1 DEF BarFoundError, VisitedFrames, FirstFrames, Passes, FramesFor
<1>2. CASE ~BarFoundError(b)
  BY <1>2 DEF BarFoundError, VisitedFrames, FirstFrames, Passes, FramesFor
<1> QED BY <1>1, <1>2

LEMMA FoundPages ==
  ASSUME NEW b \in Bars, Found(b)
  PROVE  VisitedFrames(b) = PagesOf(b)
BY VisitedAre DEF Found, PagesOf

LEMMA NoFrames ==
  ASSUME NEW limit
  PROVE  FramesFor(0, limit) = {}
BY DEF FramesFor

\* A moved BAR gets pages of its places only.
LEMMA VisitedPlaces ==
  ASSUME NEW b \in PresentBars, MovedOK(b), ctl.pc = "pages"
  PROVE  VisitedFrames(b) \subseteq PlacesOf(b)
<1>1. CASE barAddress[b] = 0
  BY <1>1, VisitedAre, NoFrames
<1>2. CASE barAddress[b] # 0
  <2>1. PICK s \in SizesOf(b) : barAddress[b] \in AddressesOf(b)
                                /\ barLimit[b] = barAddress[b] + s
    BY <1>2 DEF MovedOK
  <2>2. FramesFor(barAddress[b], barAddress[b] + s) \subseteq PlacesOf(b)
    BY <2>1 DEF PlacesOf
  <2> QED BY <2>1, <2>2, VisitedAre
<1> QED BY <1>1, <1>2

\* Nor does one that has not been moved, so that a move leaves only those.
LEMMA PagesPlaces ==
  ASSUME NEW b \in PresentBars, intended[b] \in Bases[b]
  PROVE  PagesOf(b) \subseteq PlacesOf(b)
<1>1. CASE Listed(b)
  <2>1. AddressOf(b) \in AddressesOf(b) /\ SizeOf(b) \in SizesOf(b)
    <3>1. LowerOf(b) \in LowersOf(b) /\ UpperOf(b) = intended[b][2]
      BY DEF UpperOf, LowerOf, LowersOf
    <3>2. AddressOf(b) \in AddressesOf(b)
      BY <3>1 DEF AddressOf, AddressesOf
    <3>3. SizeOf(b) \in SizesOf(b)
      BY DEF SizeOf, SizesOf
    <3> QED BY <3>2, <3>3
  <2>2. FramesFor(AddressOf(b), AddressOf(b) + SizeOf(b)) \subseteq PlacesOf(b)
    BY <2>1 DEF PlacesOf
  <2> QED BY <1>1, <2>2 DEF PagesOf
<1>2. CASE ~Listed(b)
  BY <1>2, NoFrames DEF PagesOf
<1> QED BY <1>1, <1>2

LEMMA SamePlaces ==
  ASSUME intended' = intended
  PROVE  \A b : PagesOf(b)' = PagesOf(b)
BY SamePlace

\* The BAR for which f is revoked on p.
Accounts(b, p, f) ==
  \/ moves[b] = 0 /\ f \in PagesOf(b) /\ ~Shown(p, b)
  \/ moves[b] > 0 /\ f \in PlacesOf(b)

\* Steps that revoke nothing, and after which DmDisableMonitor has been
\* nowhere it was not before.
LEMMA RevokedStays ==
  ASSUME RevokedInv, UNCHANGED <<moves, intended>>,
         \A p \in Procs : \A f \in Frames :
           ept'[p][f] = "trapped" \/ lastFault'[p] = f =>
             ept[p][f] = "trapped" \/ lastFault[p] = f,
         \A p \in Procs : \A b \in Bars : Shown(p, b)' => Shown(p, b)
  PROVE  RevokedInv'
<1> SUFFICES ASSUME NEW p \in Procs, NEW f \in Frames,
                    ept'[p][f] = "trapped" \/ lastFault'[p] = f
             PROVE  \E b \in Bars : Accounts(b, p, f)'
  BY DEF RevokedInv, Accounts
<1>1. PICK b \in Bars : Accounts(b, p, f)
  BY DEF RevokedInv, Accounts
<1>2. Accounts(b, p, f)'
  BY <1>1, SamePlaces DEF Accounts
<1> QED BY <1>2

\* A page becomes LastFaultEntry only while it is revoked, and is revoked
\* again only as LastFaultEntry.
LEMMA ExitRevokes ==
  ASSUME TypeOK, NEW q \in Procs, Exit(q)
  PROVE  \A p \in Procs : \A f \in Frames :
           ept'[p][f] = "trapped" \/ lastFault'[p] = f =>
             ept[p][f] = "trapped" \/ lastFault[p] = f
<1>1. CASE VmmpHandleEptViolation(q)
  <2>1. PICK acc \in instr[q] : /\ Faults(q, acc)
                                /\ \/ OpenPage(q, acc)
                                   \/ SkipInstruction(q, acc)
                                   \/ MapPage(q, acc)
                                   \/ LeaveUnmapped(q, acc)
                                   \/ LeaveFaulting(q, acc)
    BY <1>1 DEF VmmpHandleEptViolation
  <2>2. acc \in Accesses /\ Frame(acc.addr) \in Frames
    BY FrameOfAddress DEF TypeOK, Accesses
  <2>3. CASE OpenPage(q, acc)
    <3>1. ept[q][Frame(acc.addr)] = "trapped"
      BY <2>1, <2>2, <2>3 DEF OpenPage, Claimed, Faults, Permits, TypeOK, EntryStates
    <3>2. /\ ept' = [ept EXCEPT ![q][Frame(acc.addr)] = "open"]
          /\ lastFault' = [lastFault EXCEPT ![q] = Frame(acc.addr)]
      BY <2>3 DEF OpenPage
    <3> QED BY <2>2, <3>1, <3>2 DEF TypeOK
  <2>4. CASE MapPage(q, acc)
    <3>1. /\ ept' = [ept EXCEPT ![q][Frame(acc.addr)] = "open"]
          /\ lastFault' = lastFault
      BY <2>4 DEF MapPage
    <3> QED BY <2>2, <3>1 DEF TypeOK
  <2>5. CASE SkipInstruction(q, acc) \/ LeaveUnmapped(q, acc) \/ LeaveFaulting(q, acc)
    BY <2>5 DEF SkipInstruction, LeaveUnmapped, LeaveFaulting, trap, vars
  <2> QED BY <2>1, <2>3, <2>4, <2>5
<1>2. CASE VmmpHandleMonitorTrap(q)
  <2>1. /\ ept' = [ept EXCEPT ![q][lastFault[q]] = "trapped"]
        /\ lastFault' = [lastFault EXCEPT ![q] = NoEntry]
    BY <1>2 DEF VmmpHandleMonitorTrap
  <2> QED BY <2>1, InstructionsAssumption DEF TypeOK
<1> QED BY <1>1, <1>2 DEF Exit

\* The pages of one BAR on one processor.
LEMMA PagesRevoked ==
  ASSUME TypeOK, PhaseInv, WindowInv, ListInv, MovedInv, RevokedInv,
         UNCHANGED <<moves, intended>>, InvalidateEptPages \/ ValidateEptPages
  PROVE  RevokedInv'
<1> SUFFICES ASSUME NEW p \in Procs, NEW f \in Frames,
                    ept'[p][f] = "trapped" \/ lastFault'[p] = f
             PROVE  \E b \in Bars : Accounts(b, p, f)'
  BY DEF RevokedInv, Accounts
<1>1. PICK b \in Bars, q \in Procs : b = ctl.bar /\ q = ctl.cpu
  BY ControlFields
<1>2. /\ ctl.pc = "pages" /\ NextBar /\ lastFault' = lastFault
      /\ b \in Nat /\ q \in Nat /\ NumBars \in Nat /\ NumProcs \in Nat
  BY SizesAssumption DEF InvalidateEptPages, ValidateEptPages, Bars, Procs
<1> DEFINE visited == VisitedFrames(b)
<1>3. moves[b] = 0 => visited = PagesOf(b)
  BY <1>1, <1>2, FoundPages DEF ListInv, EntryOK
<1>4. lastFault[q] = NoEntry
  BY <1>1, <1>2 DEF WindowInv
<1>5. CASE InvalidateEptPages
  <2>1. PICK hidden \in SUBSET visited :
          ept' = [ept EXCEPT ![q] = [g \in Frames |-> IF g \in hidden THEN "trapped"
                                                      ELSE ept[q][g]]]
    BY <1>1, <1>5, Revokes
  <2>2. phase = "virtualized" /\ phase' # "unmonitored"
    BY <1>5 DEF InvalidateEptPages, PhaseInv
  <2>3. \A o, c : ~Shown(o, c)'
    BY <2>2 DEF Shown
  <2>4. CASE p = q /\ f \in hidden
    <3>1. moves[b] # 0 => b \in PresentBars /\ moves[b] > 0
      BY SizesAssumption DEF TypeOK, MovedInv
    <3>2. moves[b] # 0 => f \in PlacesOf(b)
      BY <1>2, <2>4, <3>1, VisitedPlaces DEF MovedInv
    <3>3. Accounts(b, p, f)'
      BY <1>3, <2>3, <2>4, <3>1, <3>2, SamePlaces DEF Accounts
    <3> QED BY <3>3
  <2>5. CASE ~(p = q /\ f \in hidden)
    <3>1. ept[p][f] = "trapped" \/ lastFault[p] = f
      BY <1>2, <2>1, <2>5 DEF TypeOK
    <3>2. PICK c \in Bars : Accounts(c, p, f)
      BY <3>1 DEF RevokedInv, Accounts
    <3>3. Accounts(c, p, f)'
      BY <2>3, <3>2, SamePlaces DEF Accounts
    <3> QED BY <3>3
  <2> QED BY <2>4, <2>5
<1>6. CASE ValidateEptPages
  <2>1. ept' = [ept EXCEPT ![q] = [g \in Frames |->
                  IF g \in visited /\ ept[q][g] # "absent" THEN "open" ELSE ept[q][g]]]
    BY <1>1, <1>6 DEF ValidateEptPages
  <2>2. phase = "unmonitored" /\ phase' = phase /\ ctl.op = "disable"
    BY <1>6 DEF ValidateEptPages, PhaseInv
  <2>3. /\ ept[p][f] = "trapped" \/ lastFault[p] = f
        /\ p = q => f \notin visited
    BY <1>2, <1>4, <2>1, InstructionsAssumption DEF TypeOK
  <2>4. PICK c \in Bars : Accounts(c, p, f)
    BY <2>3 DEF RevokedInv, Accounts
  <2>5. CASE moves[c] > 0 /\ f \in PlacesOf(c)
    <3>1. Accounts(c, p, f)'
      BY <2>5 DEF Accounts
    <3> QED BY <3>1
  <2>6. CASE moves[c] = 0 /\ f \in PagesOf(c) /\ ~Shown(p, c)
    <3>1. /\ p \in Nat /\ c \in Nat /\ p < NumProcs /\ c <= NumBars
          /\ ~(p < q) /\ ~(p = q /\ c < b) /\ ~(p = q /\ c = b)
      BY <1>1, <1>3, <2>2, <2>3, <2>6, SizesAssumption DEF Shown, Procs, Bars
    <3>2. ~Shown(p, c)'
      <4>1. CASE ~LastBar
        <5>1. ctl'.op = "disable" /\ ctl'.cpu = q /\ ctl'.bar = b + 1
          BY <1>1, <1>2, <2>2, <4>1 DEF NextBar, TypeOK, ControlStates
        <5> QED BY <1>2, <3>1, <5>1 DEF Shown
      <4>2. CASE LastBar /\ ~LastCpu
        <5>1. ctl'.op = "disable" /\ ctl'.cpu = q + 1 /\ ctl'.bar = 1
          BY <1>1, <1>2, <2>2, <4>2 DEF NextBar, NoControl
        <5>2. p # q /\ c >= 1
          BY <1>1, <3>1, <4>2 DEF LastBar, Bars
        <5> QED BY <1>2, <3>1, <5>1, <5>2 DEF Shown
      <4>3. CASE LastBar /\ LastCpu
        BY <1>1, <1>2, <3>1, <4>3 DEF LastBar, LastCpu
      <4> QED BY <4>1, <4>2, <4>3
    <3>3. Accounts(c, p, f)'
      BY <2>6, <3>2, SamePlaces DEF Accounts
    <3> QED BY <3>3
  <2> QED BY <2>4, <2>5, <2>6 DEF Accounts
<1> QED BY <1>5, <1>6

LEMMA StepRevokedInv ==
  ASSUME TypeOK, PhaseInv, WindowInv, ListInv, MovedInv, RevokedInv, Surroundings \/ Handler
  PROVE  RevokedInv'
<1>0. UNCHANGED <<moves, intended>>
  BY NoMove
<1>1. ASSUME NEW q \in Procs, Guest(q)
      PROVE  RevokedInv'
  <2>1. UNCHANGED <<ept, lastFault, phase, ctl>>
    BY <1>1 DEF Guest, Begin, Retire, Interrupt, trap, control
  <2> QED BY <2>1, <1>0, RevokedStays DEF Shown
<1>2. ASSUME NEW q \in Procs, Exit(q)
      PROVE  RevokedInv'
  <2>1. UNCHANGED <<phase, ctl>>
    BY <1>2, ExitKeeps DEF control
  <2> QED BY <1>2, <2>1, ExitRevokes, <1>0, RevokedStays DEF Shown
<1>3. CASE StartEnable
  <2>1. UNCHANGED <<ept, lastFault, phase>> /\ phase = "virtualized"
    BY <1>3 DEF StartEnable, trap
  <2> QED BY <2>1, <1>0, RevokedStays DEF Shown
<1>4. CASE StartDisable
  <2>1. /\ UNCHANGED <<ept, lastFault>>
        /\ ctl'.op = "disable" /\ ctl'.cpu = 0 /\ ctl'.bar = 1
    BY <1>4 DEF StartDisable, trap, NoControl
  <2>2. \A p \in Procs : \A b \in Bars : ~Shown(p, b)'
    BY <2>1, SizesAssumption DEF Shown, Procs, Bars
  <2> QED BY <2>1, <2>2, <1>0, RevokedStays
<1>5. CASE VmCall
  <2>1. /\ UNCHANGED <<ept, lastFault, phase>>
        /\ ctl'.op = ctl.op /\ ctl'.cpu = ctl.cpu /\ ctl'.bar = ctl.bar
    BY <1>5 DEF VmCall, trap, TypeOK, ControlStates
  <2> QED BY <2>1, <1>0, RevokedStays DEF Shown
<1>6. CASE StartAgain
  BY <1>6, InstructionsAssumption DEF StartAgain, RevokedInv
<1>7. CASE SaveBar \/ WriteOnes \/ ReadSize \/ RestoreBar \/ ReadLowerHalf
            \/ StoreAddress \/ StoreLimit
  <2>1. /\ UNCHANGED <<ept, lastFault, phase>>
        /\ ctl'.op = ctl.op /\ ctl'.cpu = ctl.cpu /\ ctl'.bar = ctl.bar
    BY <1>7 DEF SaveBar, WriteOnes, ReadSize, RestoreBar, ReadLowerHalf, StoreAddress, StoreLimit, trap,
                TypeOK, ControlStates
  <2> QED BY <2>1, <1>0, RevokedStays DEF Shown
<1>8. CASE InvalidateEptPages \/ ValidateEptPages
  BY <1>0, <1>8, PagesRevoked
<1> QED BY <1>1, <1>2, <1>3, <1>4, <1>5, <1>6, <1>7, <1>8 DEF Surroundings, Handler

\* A move leaves the pages that were revoked for the BAR.
LEMMA MoveRevokedInv ==
  ASSUME TypeOK, MovedInv, RevokedInv, NEW c \in Bars, MoveBar(c)
  PROVE  RevokedInv'
<1> SUFFICES ASSUME NEW p \in Procs, NEW f \in Frames,
                    ept'[p][f] = "trapped" \/ lastFault'[p] = f
             PROVE  \E b \in Bars : Accounts(b, p, f)'
  BY DEF RevokedInv, Accounts
<1>1. /\ UNCHANGED <<ept, lastFault, phase, ctl>> /\ c \in PresentBars
      /\ moves' = [moves EXCEPT ![c] = moves[c] + 1]
      /\ \E base : intended' = [intended EXCEPT ![c] = base]
  BY DEF MoveBar, control, trap
<1>2. PICK b \in Bars : Accounts(b, p, f)
  BY <1>1 DEF RevokedInv, Accounts
<1>3. CASE b = c
  <2>1. moves'[c] > 0
    BY <1>1, SizesAssumption DEF TypeOK
  <2>2. f \in PlacesOf(c)
    BY <1>1, <1>2, <1>3, PagesPlaces DEF Accounts, MovedInv, MovedOK
  <2>3. Accounts(c, p, f)'
    BY <2>1, <2>2 DEF Accounts
  <2> QED BY <2>3
<1>4. CASE b # c
  <2>1. moves'[b] = moves[b] /\ intended'[b] = intended[b]
    BY <1>1, <1>4 DEF TypeOK
  <2>2. PagesOf(b)' = PagesOf(b)
    BY <2>1, SamePlace
  <2>3. Shown(p, b)' = Shown(p, b)
    BY <1>1 DEF Shown
  <2>4. Accounts(b, p, f)'
    BY <1>2, <2>1, <2>2, <2>3 DEF Accounts
  <2> QED BY <2>4
<1> QED BY <1>3, <1>4

LEMMA InitBars ==
  ASSUME Init
  PROVE  ListInv /\ MovedInv /\ RevokedInv
<1>1. /\ \A b \in Bars : barAddress[b] = 0 /\ barLimit[b] = 0
      /\ ctl.pc = "migrate"
      /\ \A p \in Procs : \A f \in Frames : ept[p][f] # "trapped" /\ lastFault[p] # f
  BY InstructionsAssumption DEF Init, NoControl
<1>2. PICK base \in [Bars -> UNION {Bases[b] : b \in Bars}] :
        /\ \A b \in Bars : base[b] \in Bases[b]
        /\ barLo = [b \in Bars |-> base[b][1]]
        /\ barHi = [b \in Bars |-> base[b][2]]
        /\ intended = base
  BY DEF Init
<1>3. MovedInv
  BY <1>1, <1>2, DevicesAssumption DEF Init, MovedInv, MovedOK, LowersOf
<1> QED BY <1>1, <1>3 DEF ListInv, EntryOK, RevokedInv

LEMMA StepBars ==
  ASSUME TypeOK, WindowInv, BarsInv, [Next]_vars
  PROVE  BarsInv'
<1>1. PhaseInv' /\ RegistersInv'
  BY StepRegisters DEF BarsInv
<1>2. CASE UNCHANGED vars
  <2>1. /\ UNCHANGED <<intended, moves, barLo, barHi, barAddress, barLimit>>
        /\ UNCHANGED <<ctl, ept, lastFault, phase>>
    BY <1>2 DEF vars
  <2>2. (ListInv' <=> ListInv) /\ (RevokedInv' <=> RevokedInv)
    BY <2>1, SamePlace DEF ListInv, EntryOK, RevokedInv, Found, Shown
  <2>3. MovedInv' <=> MovedInv
    BY <2>1 DEF MovedInv, MovedOK
  <2> QED BY <1>1, <2>2, <2>3 DEF BarsInv
<1>3. CASE Next
  <2>1. ListInv' /\ MovedInv'
    BY <1>3, StepListInv, StepMovedInv DEF BarsInv
  <2>2. RevokedInv'
    BY <1>3, StepRevokedInv, MoveRevokedInv DEF BarsInv, Next, Surroundings
  <2> QED BY <1>1, <2>1, <2>2 DEF BarsInv
<1> QED BY <1>2, <1>3

LEMMA BarsInvHolds == Spec /\ []OneRevokedPage => [](TypeOK /\ BarsInv)
<1>1. Init => BarsInv
  BY InitRegisters, InitBars DEF BarsInv
<1>2. TypeOK /\ WindowInv /\ BarsInv /\ [Next]_vars => BarsInv'
  BY StepBars
<1> QED BY <1>1, <1>2, InitTypeOK, WindowInvHolds, PTL DEF Spec

\* DmDisableMonitor opens every page that DmEnableMonitor revoked, on every
\* processor, although each of its calls sizes the BARs anew, other processors
\* single-step meanwhile and the guest moves BARs at any moment: for any
\* devices, BARs and pages, as long as no instruction touches two revoked
\* pages, only a BAR that was moved gets a page left behind, and only one the
\* list could give it.
THEOREM NothingLeftRevokedHolds == Spec /\ []OneRevokedPage => []NothingLeftRevoked
<1>1. TypeOK /\ BarsInv => NothingLeftRevoked
  <2> SUFFICES ASSUME TypeOK, BarsInv, phase = "unmonitored", ctl.op = "idle",
                      NEW p \in Procs, NEW f \in Frames, ept[p][f] = "trapped"
               PROVE  \E b \in Bars : moves[b] > 0 /\ f \in PlacesOf(b)
    BY DEF NothingLeftRevoked
  <2>1. \A b \in Bars : Shown(p, b)
    BY DEF Shown
  <2> QED BY <2>1 DEF BarsInv, RevokedInv
<1> QED BY <1>1, BarsInvHolds, PTL
-----------------------------------------------------------------------------
(* What is captured.                                                       *)

\* The addresses a BAR decodes when it is given this base.
Within(b, base, a) == base[1] <= a /\ a < base[1] + BarSize[b]

\* What an instruction reads or writes on one page belongs to the same BARs:
\* the first access is reported, the others go with its window.
SameBars ==
  \A i \in Instructions : \A x, y \in i : \A b \in PresentBars : \A base \in Bases[b] :
    /\ x.kind # "fetch" /\ y.kind # "fetch" /\ Frame(x.addr) = Frame(y.addr)
    /\ Within(b, base, x.addr)
    => Within(b, base, y.addr)

\* A BAR below 4 GB (DevMon.cpp:306), where the platform put it.
Placed(b) ==
  /\ b \in PresentBars /\ moves[b] = 0 /\ BarSize[b] # 0
  /\ intended[b][1] # 0 /\ intended[b][2] = 0
  /\ intended[b][1] + BarSize[b] < UlongSpan

\* The pages of it that the loop of InvalidateEptPages comes to: of several all
\* but the last one (DevMon.cpp:323).
Watched(b, a) ==
  /\ Within(b, intended[b], a)
  /\ SpanPages(BarSize[b]) > 1 => Frame(a) # Frame(intended[b][1] + BarSize[b] - 1)

\* DmEnableMonitor has been through BAR b on processor p, and DmDisableMonitor
\* has not begun.
Hidden(p, b) ==
  \/ phase = "monitored"
  \/ /\ phase = "virtualized" /\ ctl.op = "enable"
     /\ \/ p < ctl.cpu
        \/ p = ctl.cpu /\ b < ctl.bar

\* It is in the list, and the monitor holds its pages, but for those that it
\* had no table to map with (DevMon.cpp:315).
HiddenInv ==
  \A p \in Procs : \A b \in Bars :
    Placed(b) /\ Hidden(p, b) =>
      /\ Found(b)
      /\ \A a \in Addresses : Watched(b, a) => Frame(a) \in armed[p] \union unmapped[p]

Told(p, b, f) == \E r \in reported[p] : r.device = DeviceOf[b] /\ Frame(r.addr) = f

\* In the single-step of an instruction, its accesses have been reported to
\* the BARs they belong to.
ToldInv ==
  \A p \in Procs : lastFault[p] # NoEntry /\ mode[p] = "guest" =>
    \A x \in instr[p] : \A b \in Bars :
      /\ x.kind # "fetch" /\ Frame(x.addr) = lastFault[p]
      /\ Placed(b) /\ Hidden(p, b) /\ Within(b, intended[b], x.addr)
      => Told(p, b, lastFault[p])

LEMMA SmallUlong ==
  ASSUME NEW a \in 0 .. (UlongSpan - 1)
  PROVE  Ulong(a) = a
BY SizesAssumption DEF Ulong

\* An address is a number of whole pages and the rest.
LEMMA PageOf ==
  ASSUME NEW a \in Int
  PROVE  /\ a \div PageUnits \in Int /\ a % PageUnits \in 0 .. (PageUnits - 1)
         /\ a = PageUnits * (a \div PageUnits) + (a % PageUnits)
BY SizesAssumption

LEMMA Distributes ==
  ASSUME NEW x \in Int, NEW y \in Int
  PROVE  /\ PageUnits * (x - y) = PageUnits * x - PageUnits * y
         /\ PageUnits * (x + y) = PageUnits * x + PageUnits * y
BY SizesAssumption

LEMMA SmallMultiple ==
  ASSUME NEW d \in Int, PageUnits * d < PageUnits, -PageUnits < PageUnits * d
  PROVE  d = 0
BY SizesAssumption

LEMMA FrameIs ==
  ASSUME NEW m \in Int, NEW a \in Int, PageUnits * m <= a, a < PageUnits * m + PageUnits
  PROVE  Frame(a) = m
<1>1. PICK q \in Int, r \in 0 .. (PageUnits - 1) : q = a \div PageUnits /\ a = PageUnits * q + r
  BY PageOf
<1>2. PageUnits * (q - m) = PageUnits * q - PageUnits * m
  BY Distributes
<1>3. PageUnits * (q - m) < PageUnits /\ -PageUnits < PageUnits * (q - m)
  BY <1>1, <1>2, SizesAssumption
<1>4. q - m = 0
  BY <1>3, SmallMultiple
<1> QED BY <1>1, <1>4 DEF Frame

\* A BAR of n whole pages spans n of them.
LEMMA WholePages ==
  ASSUME NEW n \in Int
  PROVE  SpanPages(PageUnits * n) = n
<1> DEFINE top == PageUnits * n + PageUnits - 1
<1>1. top \in Int /\ PageUnits * n <= top /\ top < PageUnits * n + PageUnits
  BY SizesAssumption
<1>2. Frame(top) = n
  BY <1>1, FrameIs
<1> QED BY <1>2 DEF SpanPages, Frame

\* Some pass of the loop looks at each page of a BAR, except for the last of
\* several: the first two look at its first page.
LEMMA SomePass ==
  ASSUME NEW lo \in Nat, NEW s \in Nat, s # 0, lo + s < UlongSpan,
         \/ (lo % PageUnits) + s <= PageUnits
         \/ lo % PageUnits = 0 /\ s % PageUnits = 0,
         NEW a \in Int, lo <= a, a < lo + s,
         SpanPages(s) > 1 => Frame(a) # Frame(lo + s - 1)
  PROVE  \E k \in 0 .. (SpanPages(s) - 1) : PassFrame(lo, k) = Frame(a)
<1>1. PICK q \in Int, r \in 0 .. (PageUnits - 1) :
        q = lo \div PageUnits /\ r = lo % PageUnits /\ lo = PageUnits * q + r
  BY PageOf
<1>2. UlongSpan \in Nat /\ PageUnits \in Nat \ {0} /\ UlongSpan # 0
  BY SizesAssumption
<1>3. \A i \in 0 .. (UlongSpan - 1) : Ulong(i) = i
  BY SmallUlong
<1>4. PassFrame(lo, 0) = Frame(lo)
  <2>1. Ulong(lo) = lo /\ lo + PageUnits * 0 = lo
    BY <1>2, <1>3
  <2> QED BY <2>1 DEF PassFrame
<1>5. CASE r + s <= PageUnits
  <2>1. Frame(a) = q /\ Frame(lo) = q
    BY <1>1, <1>2, <1>5, FrameIs
  <2>2. SpanPages(s) >= 1 /\ SpanPages(s) \in Int
    <3>1. (s + PageUnits - 1) \div PageUnits >= 1 /\ (s + PageUnits - 1) \div PageUnits \in Int
      BY <1>2
    <3> QED BY <3>1 DEF SpanPages
  <2> QED BY <1>4, <2>1, <2>2
<1>6. CASE r = 0 /\ s % PageUnits = 0
  <2>1. PICK n \in Int : s = PageUnits * n
    <3>1. s \div PageUnits \in Int /\ s = PageUnits * (s \div PageUnits) + 0
      BY <1>6, PageOf
    <3>2. s = PageUnits * (s \div PageUnits)
      BY <1>2, <3>1
    <3> QED BY <3>1, <3>2
  <2>2. SpanPages(s) = n
    BY <2>1, WholePages
  <2>3. PICK f \in Int, o \in 0 .. (PageUnits - 1) :
          f = a \div PageUnits /\ a = PageUnits * f + o
    BY PageOf
  <2>4. Frame(a) = f
    BY <2>3 DEF Frame
  <2> DEFINE j == f - q
  <2>5. PageUnits * j = PageUnits * f - PageUnits * q
    BY Distributes
  <2>6. 0 <= j
    <3>1. PageUnits * j + o >= 0
      BY <1>1, <1>2, <1>6, <2>3, <2>5
    <3>2. PageUnits * j > -PageUnits
      BY <1>2, <2>3, <3>1
    <3> HIDE DEF j
    <3>3. j \in Int
      BY <1>1, <2>3 DEF j
    <3> QED BY <1>2, <3>2, <3>3
  <2>7. j < n
    <3>1. PageUnits * j < PageUnits * n
      BY <1>1, <1>2, <1>6, <2>1, <2>3, <2>5
    <3>2. j \in Int
      BY <1>1, <2>3
    <3> HIDE DEF j
    <3> QED BY <1>2, <2>1, <3>1, <3>2
  <2>8. j \in Int /\ n >= 1
    BY <1>1, <2>3, <2>6, <2>7
  <2>9. CASE j = 0
    <3>1. Frame(lo) = q
      BY <1>1, <1>2, <1>6, FrameIs
    <3> QED BY <1>1, <1>4, <2>2, <2>3, <2>4, <2>8, <2>9, <3>1
  <2>10. CASE j # 0
    <3>1. Frame(lo + s - 1) = q + n - 1
      <4>1. PageUnits * (q + n - 1) = PageUnits * q + PageUnits * n - PageUnits
        <5>1. PageUnits * (q + (n - 1)) = PageUnits * q + PageUnits * (n - 1)
          BY <1>1, <2>1, Distributes
        <5>2. PageUnits * (n - 1) = PageUnits * n - PageUnits * 1
          BY <2>1, Distributes
        <5>3. q + (n - 1) = q + n - 1
          BY <1>1, <2>1
        <5> QED BY <1>1, <1>2, <2>1, <5>1, <5>2, <5>3
      <4>2. lo + s - 1 = PageUnits * (q + n - 1) + PageUnits - 1
        BY <1>1, <1>2, <1>6, <2>1, <4>1
      <4>3. q + n - 1 \in Int /\ lo + s - 1 \in Int /\ PageUnits * (q + n - 1) \in Int
        BY <1>1, <1>2, <2>1
      <4> DEFINE m == q + n - 1
      <4>4. PageUnits * m <= lo + s - 1 /\ lo + s - 1 < PageUnits * m + PageUnits
        BY <1>2, <4>2, <4>3
      <4>5. m \in Int
        BY <4>3
      <4> HIDE DEF m
      <4>6. Frame(lo + s - 1) = m
        BY <4>3, <4>4, <4>5, FrameIs
      <4> QED BY <4>6 DEF m
    <3>2. j + 1 \in 0 .. (SpanPages(s) - 1)
      <4>1. n > 1
        BY <2>6, <2>7, <2>8, <2>10
      <4>2. f # q + n - 1
        BY <2>2, <2>4, <3>1, <4>1
      <4> QED BY <1>1, <2>1, <2>2, <2>3, <2>6, <2>7, <4>2
    <3>3. lo + PageUnits * j = PageUnits * f
      BY <1>1, <1>2, <1>6, <2>3, <2>5
    <3>4. PageUnits * f \in 0 .. (UlongSpan - 1)
      <4>1. PageUnits * f <= a /\ PageUnits * f \in Int
        BY <1>2, <2>3
      <4>2. PageUnits * j >= 0
        BY <1>2, <2>6, <2>8
      <4> HIDE DEF j
      <4> QED BY <1>2, <2>8, <3>3, <4>1, <4>2
    <3>5. PassFrame(lo, j + 1) = Frame(Ulong(Ulong(lo) + PageUnits * j))
      <4>1. j + 1 # 0 /\ j + 1 - 1 = j
        BY <2>6, <2>8
      <4> HIDE DEF j
      <4> QED BY <1>2, <2>8, <4>1 DEF PassFrame
    <3>6. Ulong(Ulong(lo) + PageUnits * j) = PageUnits * f
      <4>1. Ulong(lo) = lo
        BY <1>2, <1>3
      <4> HIDE DEF j
      <4> QED BY <1>3, <3>3, <3>4, <4>1
    <3>7. Frame(PageUnits * f) = f
      BY <1>2, <2>3, <3>4, FrameIs
    <3> HIDE DEF j
    <3> QED BY <2>4, <3>2, <3>5, <3>6, <3>7
  <2> QED BY <2>9, <2>10
<1> QED BY <1>1, <1>5, <1>6

\* What the list and the pages of such a BAR come to.
LEMMA PlacedEntry ==
  ASSUME TypeOK, NEW b \in Bars, intended[b] \in Bases[b], Placed(b)
  PROVE  /\ Listed(b) /\ AddressOf(b) = intended[b][1] /\ SizeOf(b) = BarSize[b]
         /\ Found(b) => \A a \in Addresses : Within(b, intended[b], a) => b \in CalledBars(a)
         /\ \A a \in Addresses : Watched(b, a) => Frame(a) \in PagesOf(b)
<1> DEFINE lo == intended[b][1]
           s == BarSize[b]
<1>1. /\ b \in PresentBars /\ s # 0 /\ s \in 0 .. UlongSpan
      /\ lo \in 0 .. (UlongSpan - 1) /\ UlongSpan \in Nat
      /\ intended[b][2] = 0 /\ lo # 0 /\ lo + s < UlongSpan
      /\ HighMark \in Nat /\ HighMark >= UlongSpan
  BY SizesAssumption, DevicesAssumption DEF Placed, TypeOK
<1>3. SizeOf(b) = s
  <2>1. UlongSpan - s \in 0 .. (UlongSpan - 1) /\ UlongSpan - (UlongSpan - s) = s
        /\ s \in 0 .. (UlongSpan - 1)
    BY <1>1
  <2>2. Ulong(UlongSpan - s) = UlongSpan - s /\ Ulong(s) = s
    BY <2>1, SmallUlong
  <2> QED BY <1>1, <2>1, <2>2 DEF SizeOf, SizeFrom
<1>4. AddressOf(b) = lo
  <2>1. MaskUpper(0) = 0
    BY DEF MaskUpper
  <2>2. MaskUpper(0) * UlongSpan + lo = lo
    BY <1>1, <2>1
  <2> QED BY <1>1, <2>2 DEF AddressOf, UpperOf, LowerOf
<1>5. Listed(b)
  BY <1>1, <1>3, <1>4 DEF Listed
<1>6. \/ (lo % PageUnits) + s <= PageUnits
      \/ lo % PageUnits = 0 /\ s % PageUnits = 0
  BY <1>1, AlignmentAssumption
<1>7. \A a \in Addresses : a \in Int
  BY SizesAssumption DEF Addresses
<1>8. \A a : /\ Within(b, intended[b], a) => lo <= a /\ a < lo + s
             /\ Watched(b, a) => Within(b, intended[b], a)
                                 /\ (SpanPages(s) > 1 => Frame(a) # Frame(lo + s - 1))
  BY DEF Within, Watched
<1> HIDE DEF lo, s
<1>9. /\ lo \in 0 .. (UlongSpan - 1) /\ lo + s \in 0 .. (UlongSpan - 1)
      /\ s \in 0 .. (UlongSpan - 1) /\ lo \in Nat /\ s \in Nat
  BY <1>1
<1>10. Ulong(lo) = lo /\ Ulong(lo + s) = lo + s /\ Ulong(s) = s
  BY <1>9, SmallUlong
<1>11. ASSUME NEW a \in Addresses, Watched(b, a)
       PROVE  Frame(a) \in PagesOf(b)
  <2>1. PagesOf(b) = FramesFor(lo, lo + s)
    BY <1>3, <1>4, <1>5 DEF PagesOf
  <2>2. PICK k \in 0 .. (SpanPages(s) - 1) : PassFrame(lo, k) = Frame(a)
    BY <1>1, <1>6, <1>7, <1>8, <1>9, <1>11, SomePass
  <2>3. ~(lo = 0 \/ lo + s = 0 \/ lo >= HighMark \/ lo + s < lo)
    BY <1>1, <1>9
  <2>4. Ulong(lo + s - lo) = s
    BY <1>9, <1>10
  <2> DEFINE top == lo + s
  <2> HIDE DEF top
  <2>5. ~(lo = 0 \/ top = 0 \/ lo >= HighMark \/ top < lo) /\ Ulong(top - lo) = s
    BY <1>9, <2>3, <2>4 DEF top
  <2>6. FramesFor(lo, top) = {PassFrame(lo, j) : j \in 0 .. (SpanPages(Ulong(top - lo)) - 1)}
    BY <2>5 DEF FramesFor
  <2>7. Frame(a) \in FramesFor(lo, top)
    BY <2>2, <2>5, <2>6
  <2> QED BY <2>1, <2>7 DEF top
<1>12. ASSUME Found(b), NEW a \in Addresses, Within(b, intended[b], a)
       PROVE  b \in CalledBars(a)
  <2>1. barAddress[b] = lo /\ barLimit[b] = lo + s
    BY <1>3, <1>4, <1>5, <1>12 DEF Found
  <2>2. lo <= a /\ a < lo + s /\ a \in Int
    BY <1>7, <1>8, <1>12
  <2> QED BY <1>9, <1>10, <2>1, <2>2 DEF CalledBars
<1> QED BY <1>3, <1>4, <1>5, <1>11, <1>12 DEF lo, s

\* What ReachedCyclesCaptured says of an access to a device, as the loop of
\* InvalidateEptPages and DmExecuteCallback see it.
LEMMA DecodesWithin ==
  ASSUME TypeOK, NEW b \in Bars, intended[b] \in Bases[b], moves[b] = 0, NEW p,
         NEW a \in Addresses, Decodes(b, a), Reached(p, b, a)
  PROVE  Placed(b) /\ Within(b, intended[b], a) /\ Watched(b, a) /\ Frame(a) \notin unmapped[p]
<1> DEFINE lo == intended[b][1]
           up == intended[b][2]
<1>1. /\ b \in PresentBars /\ BarSize[b] \in Nat /\ a \in Int
      /\ lo \in Nat /\ up \in Nat /\ UlongSpan \in Nat
      /\ up * UlongSpan + lo # 0 /\ up * UlongSpan + lo <= a
      /\ a < up * UlongSpan + lo + BarSize[b]
      /\ up * UlongSpan + lo + BarSize[b] < UlongSpan
  BY SizesAssumption, DevicesAssumption DEF Decodes, Reached, BaseOf, TypeOK, Addresses
<1>2. BarSize[b] # 0 /\ up * UlongSpan < UlongSpan
  <2>1. up * UlongSpan \in Nat
    BY <1>1, ProductNat
  <2> QED BY <1>1, <2>1
<1>3. up = 0
  BY <1>1, <1>2
<1>4. BaseOf(b) = lo
  BY <1>1, <1>3 DEF BaseOf
<1>5. lo # 0 /\ lo <= a /\ a < lo + BarSize[b] /\ lo + BarSize[b] < UlongSpan
  BY <1>1, <1>3
<1> QED BY <1>1, <1>2, <1>3, <1>4, <1>5 DEF Placed, Within, Watched, Reached

\* A BAR becomes hidden on a processor by the one step that revokes its pages.
LEMMA HiddenOnly ==
  ASSUME TypeOK, PhaseInv, Next, NEW p \in Procs, NEW b \in Bars,
         Hidden(p, b)', ~Hidden(p, b)
  PROVE  InvalidateEptPages /\ p = ctl.cpu /\ b = ctl.bar
<1>0. /\ p \in Nat /\ b \in Nat /\ p < NumProcs /\ b <= NumBars /\ b >= 1
      /\ ctl.cpu \in Nat /\ ctl.bar \in Nat /\ NumProcs \in Nat /\ NumBars \in Nat
  BY ControlFields, SizesAssumption DEF Procs, Bars
<1>1. CASE \E q \in Procs : Guest(q) \/ Exit(q)
  <2>1. UNCHANGED control
    BY <1>1, ExitKeeps DEF Guest, Begin, Retire, Interrupt
  <2> QED BY <2>1 DEF Hidden, control
<1>2. CASE StartEnable
  <2>1. phase' = "virtualized" /\ ctl'.cpu = 0 /\ ctl'.bar = 1
    BY <1>2 DEF StartEnable, NoControl
  <2> QED BY <1>0, <2>1 DEF Hidden
<1>3. CASE StartDisable
  BY <1>3 DEF StartDisable, Hidden
<1>4. CASE VmCall \/ SaveBar \/ WriteOnes \/ ReadSize \/ RestoreBar \/ ReadLowerHalf
            \/ StoreAddress \/ StoreLimit
  <2>1. phase' = phase /\ ctl'.op = ctl.op /\ ctl'.cpu = ctl.cpu /\ ctl'.bar = ctl.bar
    BY <1>4 DEF VmCall, SaveBar, WriteOnes, ReadSize, RestoreBar, ReadLowerHalf, StoreAddress, StoreLimit,
                TypeOK, ControlStates
  <2> QED BY <2>1 DEF Hidden
<1>5. CASE ValidateEptPages
  <2>1. phase = "unmonitored" /\ phase' = phase
    BY <1>5 DEF ValidateEptPages, PhaseInv
  <2> QED BY <2>1 DEF Hidden
<1>6. CASE InvalidateEptPages
  <2>1. NextBar /\ phase = "virtualized" /\ ctl.op = "enable"
    BY <1>6 DEF InvalidateEptPages, PhaseInv
  <2>2. ~(p < ctl.cpu) /\ ~(p = ctl.cpu /\ b < ctl.bar)
    BY <2>1 DEF Hidden
  <2>3. CASE ~LastBar
    <3>1. phase' = phase /\ ctl'.cpu = ctl.cpu /\ ctl'.bar = ctl.bar + 1
      BY <1>6, <2>1, <2>3 DEF InvalidateEptPages, NextBar, TypeOK, ControlStates
    <3> QED BY <1>0, <1>6, <2>1, <2>2, <3>1 DEF Hidden
  <2>4. CASE LastBar /\ ~LastCpu
    <3>1. phase' = phase /\ ctl'.cpu = ctl.cpu + 1 /\ ctl'.bar = 1
      BY <1>6, <2>1, <2>4 DEF InvalidateEptPages, NextBar, NoControl
    <3> QED BY <1>0, <1>6, <2>1, <2>2, <2>4, <3>1 DEF Hidden, LastBar
  <2>5. CASE LastBar /\ LastCpu
    BY <1>0, <1>6, <2>2, <2>5 DEF LastBar, LastCpu
  <2> QED BY <2>3, <2>4, <2>5
<1>7. CASE \E c \in Bars : MoveBar(c)
  BY <1>7 DEF MoveBar, control, Hidden
<1>8. CASE StartAgain
  BY <1>8 DEF StartAgain, Hidden
<1> QED BY <1>1, <1>2, <1>3, <1>4, <1>5, <1>6, <1>7, <1>8 DEF Next, Handler

\* Only DmDisableMonitor and a new start give pages back, and a page that could
\* not be mapped is one the monitor does not hold until it revokes it after all.
LEMMA HeldGrows ==
  ASSUME TypeOK, NEW p \in Procs, InvalidateEptPages
  PROVE  /\ armed[p] \union unmapped[p] \subseteq armed'[p] \union unmapped'[p]
         /\ p = ctl.cpu => VisitedFrames(ctl.bar) \subseteq armed'[p] \union unmapped'[p]
<1>1. PICK hidden \in SUBSET VisitedFrames(ctl.bar) :
        /\ armed' = [armed EXCEPT ![ctl.cpu] = armed[ctl.cpu] \union hidden]
        /\ unmapped' = [unmapped EXCEPT ![ctl.cpu] =
             (unmapped[ctl.cpu] \union VisitedFrames(ctl.bar)) \ armed'[ctl.cpu]]
  BY Revokes
<1>2. CASE p = ctl.cpu
  <2>1. /\ armed'[p] = armed[p] \union hidden
        /\ unmapped'[p] = (unmapped[p] \union VisitedFrames(ctl.bar)) \ armed'[p]
    BY <1>1, <1>2 DEF TypeOK
  <2> QED BY <2>1
<1>3. CASE p # ctl.cpu
  <2>1. armed'[p] = armed[p] /\ unmapped'[p] = unmapped[p]
    BY <1>1, <1>3 DEF TypeOK
  <2> QED BY <1>3, <2>1
<1> QED BY <1>2, <1>3

LEMMA HeldStays ==
  ASSUME TypeOK, PhaseInv, Next, NEW p \in Procs, phase # "unmonitored"
  PROVE  armed[p] \union unmapped[p] \subseteq armed'[p] \union unmapped'[p]
<1>1. ~ValidateEptPages /\ ~StartAgain
  BY DEF ValidateEptPages, StartAgain, PhaseInv
<1>2. CASE InvalidateEptPages
  BY <1>2, HeldGrows
<1>3. CASE ~InvalidateEptPages
  <2>1. UNCHANGED <<armed, unmapped>>
    BY <1>1, <1>3 DEF Next, Handler, Guest, Begin, Retire, Interrupt, Exit,
       VmmpHandleEptViolation, OpenPage, SkipInstruction, MapPage, LeaveUnmapped, LeaveFaulting,
       VmmpHandleMonitorTrap, StartEnable, StartDisable, VmCall, MoveBar, SaveBar, WriteOnes,
       ReadSize, RestoreBar, ReadLowerHalf, StoreAddress, StoreLimit, trap, vars
  <2> QED BY <2>1
<1> QED BY <1>2, <1>3

LEMMA StepHiddenInv ==
  ASSUME TypeOK, PhaseInv, RegistersInv, ListInv, MovedInv, HiddenInv, Next
  PROVE  HiddenInv'
<1> SUFFICES ASSUME NEW p \in Procs, NEW b \in Bars, Placed(b)', Hidden(p, b)'
             PROVE  /\ Found(b)'
                    /\ \A a \in Addresses :
                         Watched(b, a)' => Frame(a) \in armed'[p] \union unmapped'[p]
  BY DEF HiddenInv
<1>1. moves'[b] = 0
  BY DEF Placed
<1>2. /\ moves[b] = 0 /\ intended'[b] = intended[b]
      /\ Surroundings \/ Handler \/ UNCHANGED <<deviceList, control, trap, guest>>
  BY <1>1, StaysPut
<1>3. Placed(b) /\ \A a \in Addresses : Watched(b, a)' => Watched(b, a)
  BY <1>2 DEF Placed, Watched, Within
<1>4. EntryOK(b) /\ (b \in PresentBars => RegisterOK(b))
  BY <1>2 DEF ListInv, RegistersInv
<1>5. Found(b) => Found(b)'
  BY <1>2, <1>4, StepEntryOK
<1>6. CASE Hidden(p, b)
  <2>1. /\ Found(b)
        /\ \A a \in Addresses : Watched(b, a) => Frame(a) \in armed[p] \union unmapped[p]
    BY <1>3, <1>6 DEF HiddenInv
  <2>2. armed[p] \union unmapped[p] \subseteq armed'[p] \union unmapped'[p]
    BY <1>6, HeldStays DEF Hidden
  <2> QED BY <1>3, <1>5, <2>1, <2>2
<1>7. CASE ~Hidden(p, b)
  <2>1. InvalidateEptPages /\ p = ctl.cpu /\ b = ctl.bar
    BY <1>7, HiddenOnly
  <2>2. Found(b)
    BY <1>4, <2>1 DEF InvalidateEptPages, EntryOK
  <2>3. VisitedFrames(b) = PagesOf(b)
    BY <2>2, FoundPages
  <2>4. VisitedFrames(b) \subseteq armed'[p] \union unmapped'[p]
    BY <2>1, HeldGrows
  <2>5. \A a \in Addresses : Watched(b, a) => Frame(a) \in PagesOf(b)
    BY <1>3, PlacedEntry DEF Placed, MovedInv, MovedOK
  <2> QED BY <1>3, <1>5, <2>2, <2>3, <2>4, <2>5
<1> QED BY <1>6, <1>7

\* A step leaves a processor's single-step alone, unless it begins or ends it.
LEMMA SingleStepStays ==
  ASSUME TypeOK, TrapInv, WindowInv, OneRevokedPage, Next, NEW p \in Procs,
         lastFault'[p] # NoEntry, mode'[p] = "guest"
  PROVE  \/ \E acc \in instr[p] : Faults(p, acc) /\ OpenPage(p, acc)
         \/ /\ mode[p] = "guest" /\ lastFault'[p] = lastFault[p]
            /\ instr'[p] = instr[p] /\ reported'[p] = reported[p]
<1>1. ASSUME NEW q \in Procs, Guest(q)
      PROVE  /\ mode[p] = "guest" /\ lastFault'[p] = lastFault[p]
             /\ instr'[p] = instr[p] /\ reported'[p] = reported[p]
  <2>1. lastFault' = lastFault
    BY <1>1 DEF Guest, Begin, Retire, Interrupt, trap
  <2>2. CASE q = p /\ Begin(q)
    BY <2>1, <2>2 DEF Begin, WindowInv
  <2>3. CASE q = p /\ (Retire(q) \/ Interrupt(q))
    <3>1. mode' = [mode EXCEPT ![q] = IF mtf[q] THEN "boundary" ELSE "guest"]
      BY <2>3 DEF Retire, Interrupt
    <3> QED BY <2>1, <2>3, <3>1 DEF TrapInv, TypeOK
  <2>4. CASE q # p
    BY <1>1, <2>1, <2>4 DEF Guest, Begin, Retire, Interrupt, TypeOK
  <2> QED BY <1>1, <2>2, <2>3, <2>4 DEF Guest
<1>2. ASSUME NEW q \in Procs, VmmpHandleEptViolation(q)
      PROVE  \/ \E acc \in instr[p] : Faults(p, acc) /\ OpenPage(p, acc)
             \/ /\ mode[p] = "guest" /\ lastFault'[p] = lastFault[p]
                /\ instr'[p] = instr[p] /\ reported'[p] = reported[p]
  <2>1. PICK acc \in instr[q] : /\ mode[q] = "guest" /\ Faults(q, acc)
                                /\ \/ OpenPage(q, acc)
                                   \/ SkipInstruction(q, acc)
                                   \/ MapPage(q, acc)
                                   \/ LeaveUnmapped(q, acc)
                                   \/ LeaveFaulting(q, acc)
    BY <1>2 DEF VmmpHandleEptViolation
  <2>2. CASE OpenPage(q, acc)
    <3>1. CASE q = p
      BY <2>1, <2>2, <3>1
    <3>2. CASE q # p
      BY <2>2, <3>2 DEF OpenPage, Report, TypeOK
    <3> QED BY <3>1, <3>2
  <2>3. CASE SkipInstruction(q, acc)
    <3>1. CASE q = p
      <4>1. lastFault' = lastFault /\ Claimed(q, acc)
        BY <2>3 DEF SkipInstruction, trap
      <4> QED BY <2>1, <3>1, <4>1, FaultFindsNoEntry DEF Claimed
    <3>2. CASE q # p
      BY <2>3, <3>2 DEF SkipInstruction, Report, trap, TypeOK
    <3> QED BY <3>1, <3>2
  <2>4. CASE MapPage(q, acc) \/ LeaveUnmapped(q, acc) \/ LeaveFaulting(q, acc)
    BY <2>4 DEF MapPage, LeaveUnmapped, LeaveFaulting, guest, vars
  <2> QED BY <2>1, <2>2, <2>3, <2>4
<1>3. ASSUME NEW q \in Procs, VmmpHandleMonitorTrap(q)
      PROVE  /\ mode[p] = "guest" /\ lastFault'[p] = lastFault[p]
             /\ instr'[p] = instr[p] /\ reported'[p] = reported[p]
  BY <1>3 DEF VmmpHandleMonitorTrap, TypeOK
<1>4. CASE StartEnable \/ StartDisable \/ \E c \in Bars : MoveBar(c)
  BY <1>4 DEF StartEnable, StartDisable, MoveBar, trap, guest
<1>5. CASE VmCall
  BY <1>5 DEF VmCall, trap, TypeOK
<1>6. CASE Handler
  <2>1. UNCHANGED <<lastFault, instr, reported>> /\ ctl.pc # "migrate"
    BY <1>6 DEF Handler, SaveBar, WriteOnes, ReadSize, RestoreBar, ReadLowerHalf, StoreAddress, StoreLimit,
       InvalidateEptPages, ValidateEptPages, trap, guest
  <2>2. p # ctl.cpu
    BY <2>1 DEF WindowInv
  <2>3. mode'[p] = mode[p]
    BY <1>6, <2>2 DEF Handler, SaveBar, WriteOnes, ReadSize, RestoreBar, ReadLowerHalf, StoreAddress, StoreLimit,
       InvalidateEptPages, ValidateEptPages, NextBar, guest, TypeOK
  <2> QED BY <2>1, <2>3
<1>7. CASE StartAgain
  BY <1>7 DEF StartAgain
<1> QED BY <1>1, <1>2, <1>3, <1>4, <1>5, <1>6, <1>7 DEF Next, Exit

LEMMA StepToldInv ==
  ASSUME TypeOK, TrapInv, WindowInv, OneRevokedPage, PhaseInv, MovedInv, SameBars,
         HiddenInv, ToldInv, Next
  PROVE  ToldInv'
<1> SUFFICES ASSUME NEW p \in Procs, lastFault'[p] # NoEntry, mode'[p] = "guest",
                    NEW x \in instr'[p], NEW b \in Bars,
                    x.kind # "fetch", Frame(x.addr) = lastFault'[p],
                    Placed(b)', Hidden(p, b)', Within(b, intended'[b], x.addr)
             PROVE  Told(p, b, lastFault[p])'
  BY DEF ToldInv
<1>1. moves[b] = 0 /\ intended'[b] = intended[b] /\ Placed(b)
  <2>1. moves'[b] = 0
    BY DEF Placed
  <2> QED BY <2>1, StaysPut DEF Placed
<1>2. CASE \E acc \in instr[p] : Faults(p, acc) /\ OpenPage(p, acc)
  <2>1. PICK acc \in instr[p] : Faults(p, acc) /\ OpenPage(p, acc)
    BY <1>2
  <2>2. /\ instr' = instr /\ UNCHANGED control
        /\ lastFault' = [lastFault EXCEPT ![p] = Frame(acc.addr)]
        /\ Claimed(p, acc) /\ Report(p, acc)
    BY <2>1 DEF OpenPage
  <2>3. acc \in Accesses /\ acc.addr \in Addresses /\ Frame(acc.addr) \in Frames
        /\ instr[p] \in Instructions
    BY FrameOfAddress DEF TypeOK, Accesses, WindowInv
  <2>4. acc.kind # "fetch"
    BY <2>1, <2>2, <2>3 DEF Claimed, Faults, Permits, TypeOK, EntryStates
  <2>5. Found(b) /\ intended[b] \in Bases[b]
    <3>1. Hidden(p, b)
      BY <2>2 DEF Hidden, control
    <3> QED BY <1>1, <3>1 DEF HiddenInv, Placed, MovedInv, MovedOK
  <2>6. lastFault'[p] = Frame(acc.addr)
    BY <2>2 DEF TypeOK
  <2>7. Within(b, intended[b], acc.addr)
    BY <1>1, <2>2, <2>3, <2>4, <2>5, <2>6 DEF SameBars, Placed
  <2>8. b \in CalledBars(acc.addr)
    BY <1>1, <2>3, <2>5, <2>7, PlacedEntry
  <2> DEFINE r == [addr |-> acc.addr, device |-> DeviceOf[b], access |-> AccessCode(acc.kind)]
  <2>9. r \in reported'[p]
    BY <2>2, <2>8 DEF Report, TypeOK
  <2>10. r.device = DeviceOf[b] /\ Frame(r.addr) = Frame(acc.addr)
    OBVIOUS
  <2> QED BY <2>9, <2>10, <2>6 DEF Told
<1>3. CASE /\ mode[p] = "guest" /\ lastFault'[p] = lastFault[p]
           /\ instr'[p] = instr[p] /\ reported'[p] = reported[p]
  <2>1. Hidden(p, b)
    <3>1. ~(InvalidateEptPages /\ p = ctl.cpu)
      BY <1>3 DEF InvalidateEptPages, WindowInv
    <3> QED BY <3>1, HiddenOnly
  <2>2. Told(p, b, lastFault[p])
    BY <1>1, <1>3, <2>1 DEF ToldInv
  <2> QED BY <1>3, <2>2 DEF Told
<1> QED BY <1>2, <1>3, SingleStepStays

LEMMA InitCapture ==
  ASSUME Init
  PROVE  HiddenInv /\ ToldInv
<1>1. /\ phase = "virtualized" /\ ctl.op = "idle"
      /\ \A p \in Procs : lastFault[p] = NoEntry
  BY DEF Init, NoControl
<1> QED BY <1>1 DEF HiddenInv, ToldInv, Hidden

LEMMA StepCapture ==
  ASSUME TypeOK, TrapInv, WindowInv, OneRevokedPage, BarsInv, HiddenInv, ToldInv,
         SameBars, [Next]_vars
  PROVE  HiddenInv' /\ ToldInv'
<1>1. CASE UNCHANGED vars
  BY <1>1, SamePlace DEF vars, HiddenInv, ToldInv, Hidden, Placed, Watched, Found, Told
<1>2. CASE Next
  BY <1>2, StepHiddenInv, StepToldInv DEF BarsInv
<1> QED BY <1>1, <1>2

\* An access to a page the monitor has revoked goes through only when it has
\* been reported.
LEMMA OpenIsTold ==
  ASSUME TypeOK, WindowInv, HiddenInv, ToldInv, NEW p \in Procs, NEW acc \in instr[p],
         NEW b \in Bars, mode[p] = "guest", acc.kind # "fetch", ~Faults(p, acc),
         Hidden(p, b), Placed(b), Within(b, intended[b], acc.addr), Watched(b, acc.addr),
         Frame(acc.addr) \notin unmapped[p]
  PROVE  Called(p, b, acc.addr)
<1>1. acc.addr \in Addresses
  BY DEF TypeOK, Accesses
<1>2. Frame(acc.addr) \in armed[p]
  BY <1>1 DEF HiddenInv
<1>3. ept[p][Frame(acc.addr)] = "open"
  BY DEF Faults, Permits
<1>4. lastFault[p] = Frame(acc.addr) /\ lastFault[p] # NoEntry
  BY <1>1, <1>2, <1>3, FrameOfAddress, InstructionsAssumption DEF WindowInv
<1>5. Told(p, b, lastFault[p])
  BY <1>4 DEF ToldInv
<1> QED BY <1>4, <1>5 DEF Told, Called

\* An instruction comes to an end on p in one of three ways, and no end of one
\* takes back what a callback was told.
LEMMA EndOfInstruction ==
  ASSUME TypeOK, Next, NEW p \in Procs, instr[p] # {}, instr'[p] # instr[p]
  PROVE  mode[p] = "guest" /\ reported[p] \subseteq reported'[p]
<1>1. ASSUME NEW q \in Procs, Guest(q)
      PROVE  mode[p] = "guest" /\ reported[p] \subseteq reported'[p]
  <2>1. q = p /\ ~Begin(q)
    BY <1>1 DEF Guest, Begin, Retire, Interrupt, TypeOK
  <2> QED BY <1>1, <2>1 DEF Guest, Retire, Interrupt
<1>2. ASSUME NEW q \in Procs, VmmpHandleEptViolation(q)
      PROVE  mode[p] = "guest" /\ reported[p] \subseteq reported'[p]
  <2>1. PICK acc \in instr[q] : /\ mode[q] = "guest"
                                /\ \/ OpenPage(q, acc)
                                   \/ SkipInstruction(q, acc)
                                   \/ MapPage(q, acc)
                                   \/ LeaveUnmapped(q, acc)
                                   \/ LeaveFaulting(q, acc)
    BY <1>2 DEF VmmpHandleEptViolation
  <2>2. CASE SkipInstruction(q, acc)
    <3>1. q = p
      BY <2>2 DEF SkipInstruction, TypeOK
    <3> QED BY <2>1, <2>2, <3>1 DEF SkipInstruction, Report, TypeOK
  <2>3. CASE ~SkipInstruction(q, acc)
    <3>1. instr' = instr
      BY <2>1, <2>3 DEF OpenPage, MapPage, LeaveUnmapped, LeaveFaulting, guest, vars
    <3> QED BY <3>1
  <2> QED BY <2>2, <2>3
<1>3. CASE ~\E q \in Procs : Guest(q) \/ VmmpHandleEptViolation(q)
  <2>1. instr' = instr
    BY <1>3 DEF Next, Exit, VmmpHandleMonitorTrap, StartEnable, StartDisable, VmCall, MoveBar,
       StartAgain, Handler, SaveBar, WriteOnes, ReadSize, RestoreBar, ReadLowerHalf, StoreAddress,
       StoreLimit, InvalidateEptPages, ValidateEptPages, guest
  <2> QED BY <2>1
<1> QED BY <1>1, <1>2, <1>3

\* While the monitor is enabled, no instruction that reads or writes a page that
\* InvalidateEptPages gets to ends before the device's callback has been called
\* for that page, whether it retires, is interrupted or is skipped: for any
\* number of processors, devices and pages, any of whose EPT tables may be
\* missing, BARs that are absent, of several pages, above 4 GB, without an address
\* or moved by the guest among them, and whatever callbacks answer, if no
\* instruction touches two revoked pages and what one reads or writes on one page
\* belongs to the same BARs.
THEOREM ReachedCyclesCapturedHolds ==
  SameBars => (Spec /\ []OneRevokedPage => ReachedCyclesCaptured)
<1> SUFFICES ASSUME SameBars PROVE Spec /\ []OneRevokedPage => ReachedCyclesCaptured
  OBVIOUS
<1>1. Init => HiddenInv /\ ToldInv
  BY InitCapture
<1>2. TypeOK /\ TrapInv /\ WindowInv /\ OneRevokedPage /\ BarsInv /\ HiddenInv /\ ToldInv
        /\ [Next]_vars => HiddenInv' /\ ToldInv'
  BY StepCapture
<1> DEFINE Judged == \A p \in Procs : phase = "monitored" /\ instr'[p] # instr[p] =>
                       \A acc \in instr[p] : \A b \in Bars :
                         Cycle(p, b, acc) /\ Reached(p, b, acc.addr)
                           => Called(p, b, acc.addr)'
<1>3. TypeOK /\ WindowInv /\ BarsInv /\ HiddenInv /\ ToldInv /\ [Next]_vars => Judged
  <2> SUFFICES ASSUME TypeOK, WindowInv, BarsInv, HiddenInv, ToldInv, [Next]_vars,
                      phase = "monitored", NEW p \in Procs, instr'[p] # instr[p],
                      NEW acc \in instr[p], NEW b \in Bars,
                      Cycle(p, b, acc), Reached(p, b, acc.addr)
               PROVE  Called(p, b, acc.addr)'
    OBVIOUS
  <2>1. /\ acc.addr \in Addresses /\ acc.kind # "fetch" /\ moves[b] = 0
        /\ Decodes(b, acc.addr) /\ intended[b] \in Bases[b]
    BY DEF TypeOK, Accesses, BarsInv, MovedInv, MovedOK, Cycle, Decodes
  <2>2. /\ Placed(b) /\ Within(b, intended[b], acc.addr) /\ Watched(b, acc.addr)
        /\ Frame(acc.addr) \notin unmapped[p]
    BY <2>1, DecodesWithin
  <2>3. Hidden(p, b)
    BY DEF Hidden
  <2>4. Next /\ mode[p] = "guest" /\ reported[p] \subseteq reported'[p]
    <3>1. Next
      BY DEF vars
    <3> QED BY <3>1, EndOfInstruction
  <2>5. CASE ~Faults(p, acc)
    <3>1. Called(p, b, acc.addr)
      BY <2>1, <2>2, <2>3, <2>4, <2>5, OpenIsTold
    <3> QED BY <2>4, <3>1 DEF Called
  <2>6. CASE SkipInstruction(p, acc)
    <3>1. b \in CalledBars(acc.addr)
      BY <2>1, <2>2, <2>3, PlacedEntry DEF HiddenInv
    <3> DEFINE r == [addr |-> acc.addr, device |-> DeviceOf[b], access |-> AccessCode(acc.kind)]
    <3>2. r \in reported'[p]
      BY <2>6, <3>1 DEF SkipInstruction, Report, TypeOK
    <3>3. r.device = DeviceOf[b] /\ Frame(r.addr) = Frame(acc.addr)
      OBVIOUS
    <3> QED BY <3>2, <3>3 DEF Called
  <2> QED BY <2>5, <2>6 DEF Cycle
<1>4. Spec /\ []OneRevokedPage => [][Judged]_vars
  <2>1. TypeOK /\ WindowInv /\ BarsInv /\ HiddenInv /\ ToldInv /\ [Next]_vars => [Judged]_vars
    BY <1>3
  <2> HIDE DEF Judged
  <2> QED BY <1>1, <1>2, <2>1, WindowInvHolds, BarsInvHolds, PTL DEF Spec
<1> QED BY <1>4 DEF ReachedCyclesCaptured
=============================================================================
