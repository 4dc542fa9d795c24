------------------------------- MODULE VmExit -------------------------------
(***************************************************************************)
(* One processor that the VMM takes over (vm.cpp) and the VM-exit handlers *)
(* of vmm.cpp that then stand in for one guest instruction or pass an      *)
(* exception on.  EPT violations and monitor traps are in DeviceMonitor.   *)
(*                                                                         *)
(* Each register of the guest is in one of two places while the VMM runs:  *)
(* a VM-exit moves some into the VMCS and loads the host's, the others     *)
(* stay in the processor.  A handler has to know which.                    *)
(***************************************************************************)
EXTENDS Integers

CONSTANTS
  Instructions,    \* what the guest executes: records with an op
  Configurations,  \* sets of controls that may be in force beside those requested
  MaxSteps,        \* bound: instructions the guest executes
  None             \* no exit, no event

VARIABLES
  controls,   \* what is in force besides the controls the VMM requests:
              \* "save_debug" (the VM-exit control that stores DR7 and
              \* IA32_DEBUGCTL), "cr" (exits on all control registers),
              \* "rdtsc", "invlpg", "io" and the exceptions in the bitmap
  mode,       \* "native" before the VMM starts, "vmxon", "clear" and "set up"
              \* while it does; "guest", "root" before and "handled" after the
              \* handler, "leaving" when the VMM ends, "off", "dead"
  hw,         \* the registers of the processor and of the guest's gp_regs
  vmcs,       \* the guest-state area of the VMCS
  exit,       \* the instruction that caused the VM-exit
  guest_cr8,  \* guest_context.cr8
  gp_regs,    \* the volatile registers that VMXOFF is to find
  inject,     \* VM-entry interruption information, None when not valid
  entryLen,   \* VM-entry instruction length
  pending,    \* exception the processor delivers next
  last,       \* history: the instruction executed last
  steps       \* instructions executed

context == <<guest_cr8, gp_regs>>
vars == <<controls, mode, hw, vmcs, exit, context, inject, entryLen, pending, last,
          steps>>

\* Registers that have a field in the guest-state area.
Debug == {"dr7", "debugctl"}
InVmcs == Debug \cup {"ip", "sp", "tf", "error", "cr0", "cr3", "cr4", "gdtr",
                     "idtr", "ldtr", "tr", "sysenter"}

\* Those whose host value is nothing the guest has ever seen.
HostOwned == InVmcs \ (Debug \cup {"ip", "sp", "tf", "error"})

\* No guest has started yet, or there is none any more.
Starting == {"native", "vmxon", "clear", "set up"}
Bare == Starting \cup {"off"}

\* PASSIVE_LEVEL is the zero word.
Levels == {"zero", "dispatch", "high"}

Msrs == {"sysenter", "debugctl", "plain", "outside", "hole", "absent"}
Tables == {"gdtr", "idtr", "ldtr", "tr"}

\* Where the VM entry will deliver an injected event: a software exception
\* after the instruction, all others at it.
Injected ==
  IF inject = None THEN None
  ELSE [vector |-> inject.vector,
        at |-> vmcs.ip + (IF inject.software THEN entryLen ELSE 0)]

(* The processor as the guest sees it: outside the guest the VMCS has what *)
(* a VM-exit takes away, and without "save_debug" it always has DR7 and    *)
(* IA32_DEBUGCTL, which the guest cannot read without a VM-exit.           *)
View ==
  [r \in DOMAIN hw |->
    IF /\ r \in InVmcs /\ mode \notin Bare
       /\ mode # "guest" \/ (r \in Debug /\ "save_debug" \notin controls)
    THEN vmcs[r]
    ELSE IF r = "cr8" /\ mode \notin Bare \cup {"guest"} THEN guest_cr8 ELSE hw[r]]

ViewPending == IF mode = "handled" THEN Injected ELSE pending

Power ==
  CASE mode \in Starting -> "native" [] mode = "off" -> "unloaded"
    [] mode = "dead" -> "stopped" [] mode \notin Bare \cup {"dead"} -> "on"

Guest == INSTANCE GuestProcessor WITH
           cpu <- View, pending <- ViewPending, power <- Power

\* What a guest may execute and what may be in force, which is all that the
\* handlers below have a case for.
InstructionForms ==
  [op : {"popf"}, trap : BOOLEAN]
  \cup [op : {"touch"}, fault : BOOLEAN, word : Guest!Words]
  \cup [op : {"int3", "invlpg", "invd", "vmx"}]
  \cup [op : {"mov_to_dr"}, dr : {0, 5, 7}, word : Guest!DrWords, cpl : 0 .. 3]
  \cup [op : {"mov_to_dr"}, dr : {4, 6}, word : Guest!DrWords \ {"enabled"}, cpl : 0 .. 3]
  \cup [op : {"mov_from_dr"}, dr : {0, 4, 5, 6, 7}, dst : {"reg", "sp"}, cpl : 0 .. 3]
  \cup [op : {"mov_to_cr"}, cr : {0, 3, 4}, word : Guest!Words]
  \cup [op : {"mov_to_cr"}, cr : {8}, word : Levels]
  \cup [op : {"mov_from_cr"}, cr : {3, 8}, dst : {"reg", "sp"}]
  \cup [op : {"rdmsr"}, msr : Msrs]
  \cup [op : {"wrmsr"}, msr : Msrs, word : Guest!Words]
  \cup [op : {"load"}, table : Tables, word : Guest!Words]
  \cup [op : {"store"}, table : Tables]
  \cup [op : {"xsetbv"}, word : Guest!Words \cup {"high"}]
  \cup [op : {"cpuid"}, leaf : Nat, word : Guest!Words]
  \cup [op : {"rdtsc"}, word : Guest!Words]
  \cup [op : {"in", "out"}, string : BOOLEAN, rep : BOOLEAN, df : BOOLEAN,
        word : Guest!Words]
  \cup [op : {"vmcall"}, number : {"terminate", "ping", "get_shared", "unsupported"},
        cpl : 0 .. 3]

Vectors == {"#DB", "#BP", "#UD", "#GP", "#PF"}

ASSUME GuestAssumption ==
  /\ Instructions \subseteq InstructionForms
  /\ Configurations \subseteq SUBSET ({"save_debug", "cr", "rdtsc", "invlpg", "io"}
                                     \cup (Vectors \ {"#DB", "#UD"}))
  /\ MaxSteps \in Nat
  /\ None \notin Instructions
  /\ None \notin [vector : Vectors, software : BOOLEAN]
  /\ None \notin [vector : Vectors, at : Nat]

-----------------------------------------------------------------------------
(* VmpInitializeVm, which a kernel thread calls through AsmInitializeVm.   *)
(* Both ways out end in the same epilogue: the registers pushed before the *)
(* call are popped, and the result says which way it was.                  *)
Returned(registers, result) ==
  [registers EXCEPT !.ip = hw.ip + 1, !.sp = hw.sp, !.reg = result]

Failed(registers) == mode' = "off" /\ hw' = Returned(registers, "zero")

\* The fixed bits of CR0 and CR4 are not put back when VMXON fails or later.
VmpEnterVmxMode ==
  /\ mode = "native"
  /\ LET fixed == [hw EXCEPT !.fixed = TRUE] IN
       \/ mode' = "vmxon" /\ hw' = [fixed EXCEPT !.tlb = "none"]
       \/ Failed(fixed)
  /\ UNCHANGED <<controls, vmcs, exit, context, inject, entryLen, pending, last, steps>>

\* VMCLEAR and VMPTRLD.
VmpInitializeVmcs ==
  /\ mode = "vmxon"
  /\ mode' = "clear"
  /\ UNCHANGED <<controls, hw, vmcs, exit, context, inject, entryLen, pending, last,
                 steps>>

\* The guest gets what the processor has now, and starts in the epilogue of
\* AsmInitializeVm.  The processor may force controls nobody asked for.
VmpSetupVmcs ==
  /\ mode = "clear"
  /\ mode' = "set up"
  /\ controls' \in Configurations
  /\ vmcs' = [r \in InVmcs |-> IF r = "ip" THEN hw.ip + 1 ELSE hw[r]]
  /\ UNCHANGED <<hw, exit, context, inject, entryLen, pending, last, steps>>

\* VMLAUNCH loads the debug controls too.
VmpLaunchVm ==
  /\ mode = "set up"
  /\ mode' = "guest"
  /\ hw' = Returned([r \in DOMAIN hw |-> IF r \in InVmcs THEN vmcs[r] ELSE hw[r]], "flag")
  /\ UNCHANGED <<controls, vmcs, exit, context, inject, entryLen, pending, last, steps>>

\* VMCLEAR, VMPTRLD, a VMWRITE or VMLAUNCH fails: VMXOFF.
VmpInitializeVmExit ==
  /\ mode \in Starting \ {"native"}
  /\ Failed(hw)
  /\ UNCHANGED <<controls, vmcs, exit, context, inject, entryLen, pending, last, steps>>

VmpInitializeVm ==
  \/ VmpEnterVmxMode \/ VmpInitializeVmcs \/ VmpSetupVmcs \/ VmpLaunchVm
  \/ VmpInitializeVmExit

-----------------------------------------------------------------------------
(* Which instructions exit.  CPUID, INVD, XSETBV and the VMX instructions  *)
(* always do, MOV DR, MOV to CR3 and the descriptor tables on request; the *)
(* MSR bitmap has the reads of the MSRs that exist below 1000, and of all  *)
(* others up to 1fff and from c0000000 to c0001fff.  MSRs outside those    *)
(* ranges ("outside", and "absent" with no such MSR) exit for writes too.  *)
Exits(i) ==
  \/ i.op \in {"cpuid", "invd", "xsetbv", "vmx", "vmcall", "mov_to_dr",
               "mov_from_dr", "load", "store"}
  \/ i.op \in {"rdtsc", "invlpg"} \cap controls
  \/ i.op \in {"in", "out"} /\ "io" \in controls
  \/ i.op = "rdmsr" /\ i.msr # "hole"
  \/ i.op = "wrmsr" /\ i.msr \in {"absent", "outside"}
  \/ i.op = "mov_to_cr" /\ (i.cr = 3 \/ "cr" \in controls)
  \/ i.op = "mov_from_cr" /\ "cr" \in controls

\* VM-exit, and the start of VmmVmExitHandler: the guest's registers go to
\* the VMCS, the host's come, and the IRQL is at least DISPATCH_LEVEL.
VmmVmExitHandler(i) ==
  /\ mode' = "root"
  /\ exit' = i
  /\ vmcs' = [r \in InVmcs |->
               IF r \in Debug /\ "save_debug" \notin controls THEN vmcs[r] ELSE hw[r]]
  /\ guest_cr8' = hw.cr8
  /\ hw' = [r \in DOMAIN hw |->
             IF r \in Debug THEN "zero"
             ELSE IF r \in HostOwned THEN "host"
             ELSE IF r = "cr8" /\ hw.cr8 = "zero" THEN "dispatch"
             ELSE hw[r]]
  /\ UNCHANGED <<controls, gp_regs, inject, entryLen, pending, last>>

\* An instruction that runs in the guest to its end or to an exception that
\* is delivered there.  The processor clears DR7.GD when it raises #DB.
Native(i) ==
  LET e == Guest!Effect(hw, i)
      trapped == e.pending # None /\ e.pending.vector = "#DB" IN
  /\ hw' = IF trapped THEN [e.cpu EXCEPT !.dr7 = Guest!WithoutGd(@)] ELSE e.cpu
  /\ pending' = e.pending
  /\ last' = i
  /\ UNCHANGED <<controls, mode, vmcs, exit, context, inject, entryLen>>

Intercepted(i) ==
  LET raised == Guest!Effect(hw, i).pending IN
  raised # None /\ raised.vector \in controls

Execute(i) ==
  /\ mode = "guest" /\ pending = None /\ steps < MaxSteps
  /\ steps' = steps + 1
  /\ IF Exits(i) \/ Intercepted(i) THEN VmmVmExitHandler(i) ELSE Native(i)

\* The guest's handler of an exception returns.
Deliver ==
  /\ mode \in {"guest", "off"} /\ pending # None
  /\ hw' = [hw EXCEPT !.ip = Guest!Resumes(pending)]
  /\ pending' = None
  /\ UNCHANGED <<controls, mode, vmcs, exit, context, inject, entryLen, last, steps>>

-----------------------------------------------------------------------------
(* What the handlers share.                                                *)

VmmpInjectInterruption(vector, software) ==
  inject' = [vector |-> vector, software |-> software]

\* A handler that raises an exception leaves the instruction pointer alone.
Refuse(vector) ==
  VmmpInjectInterruption(vector, FALSE) /\ UNCHANGED entryLen

\* VmmpAdjustGuestInstructionPointer, after other fields have become v's.
VmmpAdjustGuestInstructionPointer(v) ==
  /\ vmcs' = [v EXCEPT !.ip = vmcs.ip + 1]
  /\ IF vmcs.tf
     THEN VmmpInjectInterruption("#DB", FALSE) /\ entryLen' = 1
     ELSE UNCHANGED <<inject, entryLen>>

\* The copy of RSP that VmmpSelectRegister gives out is not loaded again.
VmmpSelectRegister(dst, word) ==
  IF dst = "sp" THEN hw ELSE [hw EXCEPT ![dst] = word]

VmmpHandleVmExit(ops) ==
  /\ mode = "root" /\ exit.op \in ops
  /\ mode' = "handled"
  /\ last' = exit
  /\ UNCHANGED <<controls, exit, gp_regs, pending, steps>>

-----------------------------------------------------------------------------
\* #PF, #GP and #BP, when the exception bitmap has them.
VmmpHandleException ==
  LET vector == Guest!Effect(View, exit).pending.vector IN
  /\ mode = "root" /\ ~Exits(exit)
  /\ VmmpHandleVmExit({"touch", "int3", "rdmsr", "wrmsr"})
  /\ VmmpInjectInterruption(vector, vector = "#BP")
  /\ entryLen' = IF vector = "#BP" THEN 1 ELSE entryLen
  /\ hw' = IF vector = "#PF" THEN [hw EXCEPT !.cr2 = exit.word] ELSE hw
  /\ UNCHANGED <<vmcs, guest_cr8>>

\* The hypervisor bit and the name of the VMM are put in the answers.
VmmpHandleCpuid ==
  /\ VmmpHandleVmExit({"cpuid"})
  /\ hw' = [hw EXCEPT !.reg = IF exit.leaf \in Guest!VmmLeaves THEN "flag" ELSE exit.word]
  /\ VmmpAdjustGuestInstructionPointer(vmcs)
  /\ UNCHANGED guest_cr8

\* RDTSC and RDTSCP.
VmmpHandleRdtsc ==
  /\ VmmpHandleVmExit({"rdtsc"})
  /\ hw' = [hw EXCEPT !.reg = exit.word]
  /\ VmmpAdjustGuestInstructionPointer(vmcs)
  /\ UNCHANGED guest_cr8

\* The VMM executes the guest's RDMSR, WRMSR and XSETBV itself, and has no
\* handler for the exception they may raise.
HostFaults == Guest!Fatal(View, exit)

VmmpHandleXsetbv ==
  /\ VmmpHandleVmExit({"xsetbv"}) /\ ~HostFaults
  /\ hw' = [hw EXCEPT !.xcr0 = exit.word]
  /\ VmmpAdjustGuestInstructionPointer(vmcs)
  /\ UNCHANGED guest_cr8

\* MSRs that have a field in the VMCS are read there, others in the processor.
VmmpHandleMsrAccess ==
  /\ mode = "root" /\ Exits(exit) /\ ~HostFaults
  /\ VmmpHandleVmExit({"rdmsr", "wrmsr"})
  /\ LET inVmcs == exit.msr \in InVmcs IN
     IF exit.op = "rdmsr"
     THEN /\ hw' = [hw EXCEPT !.reg = IF inVmcs THEN vmcs[exit.msr] ELSE hw[exit.msr]]
          /\ VmmpAdjustGuestInstructionPointer(vmcs)
     ELSE /\ hw' = IF inVmcs THEN hw ELSE [hw EXCEPT ![exit.msr] = exit.word]
          /\ VmmpAdjustGuestInstructionPointer(
               IF inVmcs THEN [vmcs EXCEPT ![exit.msr] = exit.word] ELSE vmcs)
  /\ UNCHANGED guest_cr8

HostFault ==
  /\ mode = "root" /\ Exits(exit) /\ HostFaults
  /\ mode' = "dead"
  /\ last' = exit
  /\ UNCHANGED <<controls, hw, vmcs, exit, context, inject, entryLen, pending, steps>>

\* LGDT, LIDT, SGDT and SIDT.
VmmpHandleGdtrOrIdtrAccess ==
  /\ mode = "root" /\ exit.op \in {"load", "store"} /\ exit.table \in {"gdtr", "idtr"}
  /\ VmmpHandleVmExit({"load", "store"})
  /\ hw' = IF exit.op = "store" THEN [hw EXCEPT !.reg = vmcs[exit.table]] ELSE hw
  /\ VmmpAdjustGuestInstructionPointer(
       IF exit.op = "store" THEN vmcs ELSE [vmcs EXCEPT ![exit.table] = exit.word])
  /\ UNCHANGED guest_cr8

\* LLDT, LTR, SLDT and STR: the selectors, and the busy bit of the TSS.
VmmpHandleLdtrOrTrAccess ==
  /\ mode = "root" /\ exit.op \in {"load", "store"} /\ exit.table \in {"ldtr", "tr"}
  /\ VmmpHandleVmExit({"load", "store"})
  /\ hw' = IF exit.op = "store" THEN [hw EXCEPT !.reg = vmcs[exit.table]]
           ELSE [hw EXCEPT !.busy = @ \/ exit.table = "tr"]
  /\ VmmpAdjustGuestInstructionPointer(
       IF exit.op = "store" THEN vmcs ELSE [vmcs EXCEPT ![exit.table] = exit.word])
  /\ UNCHANGED guest_cr8

-----------------------------------------------------------------------------
(* MOV to and from a debug register.                                       *)
InvalidAlias == exit.dr \in {4, 5} /\ vmcs.cr4 = "flag"

DebugRegister == IF exit.dr \in {4, 5} THEN exit.dr + 2 ELSE exit.dr

UpperBitsSet ==
  exit.op = "mov_to_dr" /\ DebugRegister \in {6, 7} /\ exit.word = "high"

\* A slip: the reserved bits are stored as they come.
MutEnforced(word) == word

\* Bits of DR6 and DR7 that are always 0 or always 1 are forced.
Enforced(word) == IF word = "junk" THEN "zero" ELSE word

\* DR7 is in the VMCS, the others are in the processor.
WriteDr ==
  /\ hw' = CASE DebugRegister = 0 -> [hw EXCEPT !.dr0 = exit.word]
             [] DebugRegister = 6 -> [hw EXCEPT !.dr6 = Enforced(exit.word)]
             [] DebugRegister = 7 -> hw
  /\ VmmpAdjustGuestInstructionPointer(
       IF DebugRegister = 7 THEN [vmcs EXCEPT !.dr7 = Enforced(exit.word)] ELSE vmcs)

\* A slip: DR7 read in the processor, where it is the host's.
MutReadDr ==
  /\ hw' = VmmpSelectRegister(exit.dst,
             CASE DebugRegister = 0 -> hw.dr0
               [] DebugRegister = 6 -> hw.dr6
               [] DebugRegister = 7 -> hw.dr7)
  /\ VmmpAdjustGuestInstructionPointer(vmcs)

ReadDr ==
  /\ hw' = VmmpSelectRegister(exit.dst,
             CASE DebugRegister = 0 -> hw.dr0
               [] DebugRegister = 6 -> hw.dr6
               [] DebugRegister = 7 -> vmcs.dr7)
  /\ VmmpAdjustGuestInstructionPointer(vmcs)

\* General detect: the bits the processor would change with the exception.
GeneralDetect ==
  /\ hw' = [hw EXCEPT !.dr6 = "flag"]
  /\ vmcs' = [vmcs EXCEPT !.dr7 = Guest!WithoutGd(@)]
  /\ Refuse("#DB")

VmmpHandleDrAccess ==
  /\ VmmpHandleVmExit({"mov_to_dr", "mov_from_dr"})
  /\ UNCHANGED guest_cr8
  /\ IF exit.cpl # 0 THEN Refuse("#GP") /\ UNCHANGED <<hw, vmcs>>
     ELSE IF InvalidAlias THEN Refuse("#UD") /\ UNCHANGED <<hw, vmcs>>
     ELSE IF vmcs.dr7 = "flag" THEN GeneralDetect
     ELSE IF UpperBitsSet THEN Refuse("#GP") /\ UNCHANGED <<hw, vmcs>>
     ELSE IF exit.op = "mov_to_dr" THEN WriteDr ELSE ReadDr

-----------------------------------------------------------------------------
\* IN leaves the part of RAX above its operand as it was, EAX included.
VmmpIoWrapper(count) ==
  IF exit.string /\ count = 0 THEN hw
  ELSE IF exit.op = "out" THEN [hw EXCEPT !.port = exit.word]
  ELSE IF exit.string THEN [hw EXCEPT !.memory = hw.port]
  ELSE [hw EXCEPT !.reg = IF @ = "high" THEN @ ELSE hw.port]

\* IN, OUT, and with REP or alone INS and OUTS.
VmmpHandleIoPort ==
  /\ VmmpHandleVmExit({"in", "out"})
  /\ LET rcx == hw.counters.rcx
         index == hw.counters.index
         count == IF exit.rep THEN rcx ELSE 1 IN
     hw' = [VmmpIoWrapper(count) EXCEPT
              !.counters = IF ~exit.string THEN @
                           ELSE [rcx |-> IF exit.rep THEN 0 ELSE rcx,
                                 index |-> IF exit.df THEN index - count
                                           ELSE index + count]]
  /\ VmmpAdjustGuestInstructionPointer(vmcs)
  /\ UNCHANGED guest_cr8

-----------------------------------------------------------------------------
\* A slip: INVVPID for CR4 only.
MutCrAccess ==
  /\ VmmpHandleVmExit({"mov_to_cr", "mov_from_cr"})
  /\ IF exit.op = "mov_to_cr"
     THEN /\ hw' = [hw EXCEPT !.tlb = IF exit.cr = 4 THEN "none" ELSE @]
          /\ guest_cr8' = IF exit.cr = 8 THEN exit.word ELSE guest_cr8
          /\ VmmpAdjustGuestInstructionPointer(
               IF exit.cr = 8 THEN vmcs
               ELSE [vmcs EXCEPT ![Guest!CrName(exit.cr)] = exit.word])
     ELSE /\ hw' = VmmpSelectRegister(exit.dst,
                     IF exit.cr = 8 THEN guest_cr8 ELSE vmcs.cr3)
          /\ VmmpAdjustGuestInstructionPointer(vmcs)
          /\ UNCHANGED guest_cr8

\* MOV to and from CR0, CR3, CR4 and CR8.  Translations are tagged with the
\* processor and survive VM entries: those of the old address space must go.
VmmpHandleCrAccess ==
  /\ VmmpHandleVmExit({"mov_to_cr", "mov_from_cr"})
  /\ IF exit.op = "mov_to_cr"
     THEN /\ hw' = [hw EXCEPT !.tlb = IF exit.cr \in {3, 4} THEN "none" ELSE @]
          /\ guest_cr8' = IF exit.cr = 8 THEN exit.word ELSE guest_cr8
          /\ VmmpAdjustGuestInstructionPointer(
               IF exit.cr = 8 THEN vmcs
               ELSE [vmcs EXCEPT ![Guest!CrName(exit.cr)] = exit.word])
     ELSE /\ hw' = VmmpSelectRegister(exit.dst,
                     IF exit.cr = 8 THEN guest_cr8 ELSE vmcs.cr3)
          /\ VmmpAdjustGuestInstructionPointer(vmcs)
          /\ UNCHANGED guest_cr8

VmmpHandleInvalidateInternalCaches ==
  /\ VmmpHandleVmExit({"invd"})
  /\ VmmpAdjustGuestInstructionPointer(vmcs)
  /\ UNCHANGED <<hw, guest_cr8>>

VmmpHandleInvalidateTlbEntry ==
  /\ VmmpHandleVmExit({"invlpg"})
  /\ hw' = [hw EXCEPT !.tlb = "none"]
  /\ VmmpAdjustGuestInstructionPointer(vmcs)
  /\ UNCHANGED guest_cr8

\* VMX instructions other than VMCALL fail without a status.
VmmpHandleVmx ==
  /\ VmmpHandleVmExit({"vmx"})
  /\ VmmpAdjustGuestInstructionPointer([vmcs EXCEPT !.error = TRUE])
  /\ UNCHANGED <<hw, guest_cr8>>

-----------------------------------------------------------------------------
VmmpIndicateSuccessfulVmcall ==
  VmmpAdjustGuestInstructionPointer([vmcs EXCEPT !.error = FALSE])

VmmpIndicateUnsuccessfulVmcall ==
  VmmpInjectInterruption("#UD", FALSE) /\ entryLen' = 1 /\ UNCHANGED vmcs

Terminates == exit.op = "vmcall" /\ exit.number = "terminate" /\ exit.cpl = 0

VmmpHandleVmCall ==
  /\ mode = "root" /\ ~Terminates
  /\ VmmpHandleVmExit({"vmcall"})
  /\ IF exit.number \in {"unsupported", "terminate"}
     THEN VmmpIndicateUnsuccessfulVmcall /\ UNCHANGED hw
     ELSE /\ VmmpIndicateSuccessfulVmcall
          /\ hw' = [hw EXCEPT !.shared = @ \/ exit.number = "get_shared"]
  /\ UNCHANGED guest_cr8

\* The VMM is to leave: the descriptor tables come back from the VMCS at once,
\* the rest of the context goes through volatile registers.
VmmpHandleVmCallTermination ==
  /\ mode = "root" /\ Terminates
  /\ mode' = "leaving"
  /\ hw' = [hw EXCEPT !.gdtr = vmcs.gdtr, !.idtr = vmcs.idtr]
  /\ gp_regs' = [cx |-> vmcs.ip + 1, dx |-> vmcs.sp,
                 ax |-> [tf |-> vmcs.tf, error |-> FALSE]]
  /\ UNCHANGED <<controls, vmcs, exit, guest_cr8, inject, entryLen, pending, last, steps>>

-----------------------------------------------------------------------------
\* The end of VmmVmExitHandler and VMRESUME: IRQL and CR8 are the guest's
\* again, an injected event is delivered with the entry.
Resume ==
  /\ mode = "handled"
  /\ mode' = "guest"
  /\ hw' = [r \in DOMAIN hw |->
             IF r \in InVmcs THEN vmcs[r] ELSE IF r = "cr8" THEN guest_cr8 ELSE hw[r]]
  /\ pending' = Injected
  /\ inject' = None
  /\ exit' = None
  /\ UNCHANGED <<controls, vmcs, context, entryLen, last, steps>>

\* The other end: caches dropped, VMXOFF, then flags, stack and address from
\* the volatile registers.  With TF the processor traps after the RET; what the
\* guest sees of the two instructions between POPFQ and RET is left out.
VmxOff ==
  /\ mode = "leaving"
  /\ mode' = "off"
  /\ last' = exit
  /\ hw' = [hw EXCEPT !.ip = gp_regs.cx, !.sp = gp_regs.dx, !.tf = gp_regs.ax.tf,
                      !.error = gp_regs.ax.error, !.cr8 = guest_cr8, !.tlb = "none"]
  /\ pending' = IF gp_regs.ax.tf THEN Guest!Raise("#DB", gp_regs.cx) ELSE None
  /\ exit' = None
  /\ UNCHANGED <<controls, vmcs, context, inject, entryLen, steps>>

Handle ==
  \/ VmmpHandleException \/ VmmpHandleCpuid \/ VmmpHandleRdtsc \/ VmmpHandleXsetbv
  \/ VmmpHandleMsrAccess \/ HostFault \/ VmmpHandleGdtrOrIdtrAccess
  \/ VmmpHandleLdtrOrTrAccess \/ VmmpHandleDrAccess \/ VmmpHandleIoPort
  \/ VmmpHandleCrAccess
  \/ VmmpHandleInvalidateInternalCaches \/ VmmpHandleInvalidateTlbEntry
  \/ VmmpHandleVmx \/ VmmpHandleVmCall \/ VmmpHandleVmCallTermination

Next ==
  \/ \E i \in Instructions : Execute(i)
  \/ VmpInitializeVm \/ Deliver \/ Handle \/ Resume \/ VmxOff

\* A processor whose system registers hold w when VmpInitializeVm is called.
\* The translations are those an earlier run of the VMM left for its guest.
Processor(w) ==
  [ip |-> 0, sp |-> "stack", tf |-> FALSE, error |-> FALSE, reg |-> "zero",
   dr0 |-> w, dr6 |-> w, dr7 |-> "zero", cr0 |-> w, cr2 |-> w, cr3 |-> "zero",
   cr4 |-> "zero", cr8 |-> "zero", tlb |-> "flag", gdtr |-> w, idtr |-> w,
   ldtr |-> w, tr |-> w, sysenter |-> w, debugctl |-> w, plain |-> w, outside |-> w,
   xcr0 |-> w, busy |-> FALSE, shared |-> FALSE, fixed |-> FALSE,
   port |-> w, memory |-> "zero",
   counters |-> [rcx |-> IF w = "zero" THEN 0 ELSE 2, index |-> 0]]

Init ==
  /\ hw \in {Processor(w) : w \in Guest!Words}
  /\ vmcs = [r \in InVmcs |-> Processor("zero")[r]]
  /\ controls = {} /\ mode = "native" /\ guest_cr8 = "zero" /\ gp_regs = None
  /\ exit = None /\ inject = None /\ entryLen = 0 /\ pending = None
  /\ last = None /\ steps = 0

Spec == Init /\ [][Next]_vars

-----------------------------------------------------------------------------
(* Properties.                                                             *)

HostWords == Guest!Words \cup {"host"}

RegisterType ==
  /\ hw.ip \in 0 .. MaxSteps + 2
  /\ hw.sp \in Guest!DrWords \cup Levels \cup {"stack"}
  /\ {hw.tf, hw.error, hw.busy, hw.shared, hw.fixed} \subseteq BOOLEAN
  /\ hw.reg \in Guest!DrWords \cup Levels /\ hw.dr0 \in Guest!DrWords
  /\ hw.dr7 \in Guest!Dr7Words
  /\ {hw.dr6, hw.debugctl, hw.cr2, hw.plain, hw.outside, hw.xcr0, hw.port, hw.memory}
        \subseteq Guest!Words
  /\ \A r \in HostOwned : hw[r] \in HostWords
  /\ hw.tlb \in HostWords \cup {"none"}
  /\ hw.cr8 \in Levels
  /\ hw.counters \in [rcx : Nat, index : Int]

\* Type invariant: the registers of the guest in the VMCS never hold a value of
\* the host, and an event is only waiting in the VMCS after a handler ran.
TypeOK ==
  /\ controls \in Configurations \cup {{}}
  /\ mode \in Bare \cup {"guest", "root", "handled", "leaving", "dead"}
  /\ RegisterType
  /\ \A r \in HostOwned \cup {"debugctl"} : vmcs[r] \in Guest!Words
  /\ vmcs.dr7 \in Guest!Dr7Words
  /\ guest_cr8 \in Levels /\ entryLen \in 0 .. 1 /\ steps \in 0 .. MaxSteps
  /\ (exit # None) <=> mode \in {"root", "handled", "leaving", "dead"}
  /\ inject # None => mode = "handled"
  /\ last \in Instructions \cup {None}

\* What the guest runs on is the processor of GuestProcessor: an instruction
\* that exits has the effect it has without the VMM (vmm.cpp:436-1255).
ImplementsGuestProcessor == Guest!Spec

\* A translation that the processor uses for the guest is one of the guest's
\* current address space, although VM entries keep them (vmm.cpp:1121).
TranslationsAreCurrent == Power = "on" => View.tlb \in {"none", View.cr3}

=============================================================================
