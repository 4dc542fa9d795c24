--------------------------- MODULE GuestProcessor ---------------------------
(***************************************************************************)
(* What a guest may rely on while DeviceMonitor runs below it: a processor *)
(* that executes one instruction at a time, delivers the exception an      *)
(* instruction raises before the next one starts.  It goes on after the    *)
(* call that started the VMM, whether it did or not, and after the VMCALL  *)
(* that tells it to leave.                                                 *)
(*                                                                         *)
(* Effect says what the instruction does on a processor of its own; Kept   *)
(* says which part of that survives the VMM.                               *)
(***************************************************************************)
EXTENDS Integers

CONSTANTS
  Instructions,  \* the instructions a guest executes, as records with an op
  None           \* no exception

VARIABLES
  cpu,      \* the registers as the guest sees them
  pending,  \* the exception to deliver before the next instruction
  last,     \* the instruction executed last, None at first
  power     \* "native" before the VMM, "on" below it, "unloaded" without it
            \* again, "stopped" for good

view == <<cpu, pending, last, power>>

(* Register contents.  "flag" has the one bit set that matters in that     *)
(* register (DR6.BD, DR7.GD, CR4.DE, CPUID.1:ECX[31], ...), "enabled" bits  *)
(* of DR7 that enable a breakpoint, "high" a bit above bit 31 and "junk" a *)
(* reserved bit of DR6 or DR7.  Below a VMM, CPUID has a flag of its own:   *)
(* the hypervisor bit, or the word that names the VMM.                     *)
Words == {"zero", "flag"}
Dr7Words == Words \cup {"enabled"}
DrWords == Dr7Words \cup {"high", "junk"}

Raise(vector, at) == [vector |-> vector, at |-> at]

Faults(c, vector) == [cpu |-> c, pending |-> Raise(vector, c.ip)]

\* Instruction boundary after the instruction that turned c into d: with TF
\* set the processor traps.
Completes(c, d) ==
  [cpu |-> [d EXCEPT !.ip = c.ip + 1],
   pending |-> IF c.tf THEN Raise("#DB", c.ip + 1) ELSE None]

Sets(c, register, word) == Completes(c, [c EXCEPT ![register] = word])

\* CPUID leaf 1 and the interface leaf, 40000001.
VmmLeaves == {1, 1073741825}

-----------------------------------------------------------------------------
\* DR4 and DR5 are DR6 and DR7 unless CR4.DE says otherwise; one field stands
\* for DR0 to DR3.
DrName(n) == CASE n = 0 -> "dr0" [] n \in {4, 6} -> "dr6" [] n \in {5, 7} -> "dr7"

WithoutGd(word) == IF word = "flag" THEN "zero" ELSE word

DrWritten(n, word) == IF n # 0 /\ word = "junk" THEN "zero" ELSE word

MovDr(c, i) ==
  CASE i.cpl # 0 -> Faults(c, "#GP")
    [] i.cpl = 0 /\ i.dr \in {4, 5} /\ c.cr4 = "flag" -> Faults(c, "#UD")
    [] i.cpl = 0 /\ ~(i.dr \in {4, 5} /\ c.cr4 = "flag") ->
         IF c.dr7 = "flag"
         THEN Faults([c EXCEPT !.dr6 = "flag", !.dr7 = WithoutGd(@)], "#DB")
         ELSE IF i.op = "mov_from_dr" THEN Sets(c, i.dst, c[DrName(i.dr)])
         ELSE IF i.dr # 0 /\ i.word = "high" THEN Faults(c, "#GP")
         ELSE Sets(c, DrName(i.dr), DrWritten(i.dr, i.word))

CrName(n) == CASE n = 0 -> "cr0" [] n = 3 -> "cr3" [] n = 4 -> "cr4" [] n = 8 -> "cr8"

\* A MOV to CR3 or CR4 leaves no cached translation behind.
MovToCr(c, i) ==
  Completes(c, [c EXCEPT ![CrName(i.cr)] = i.word,
                         !.tlb = IF i.cr \in {3, 4} THEN "none" ELSE @])

\* A hypercall: the first number asks the VMM to leave, unknown ones and that
\* one from an application are invalid opcodes.
Vmcall(c, i) ==
  IF i.number = "unsupported" \/ (i.number = "terminate" /\ i.cpl # 0)
  THEN Faults(c, "#UD")
  ELSE Completes(c, [c EXCEPT !.error = FALSE,
                              !.shared = @ \/ i.number = "get_shared"])

\* An access to memory that a page fault refuses or that caches a translation
\* of the address space in use.
Touch(c, i) ==
  IF i.fault THEN Faults([c EXCEPT !.cr2 = i.word], "#PF")
  ELSE Sets(c, "tlb", c.cr3)

\* IN or OUT, or their string forms, with REP as often as RCX says: the last
\* word stands for all, index for RDI or RSI.  i.df is EFLAGS.DF.
Repeats(c, i) == IF i.string /\ i.rep THEN c.counters.rcx ELSE 1

Counted(c, i) ==
  [rcx |-> IF i.string /\ i.rep THEN 0 ELSE c.counters.rcx,
   index |-> c.counters.index + (IF ~i.string THEN 0
                                 ELSE IF i.df THEN -Repeats(c, i) ELSE Repeats(c, i))]

PortAccess(c, i) ==
  LET n == Repeats(c, i)
      d == [c EXCEPT !.counters = Counted(c, i)] IN
  Completes(c,
    CASE n = 0 -> d
      [] n # 0 /\ i.op = "out" -> [d EXCEPT !.port = i.word]
      [] n # 0 /\ i.op = "in" /\ i.string -> [d EXCEPT !.memory = c.port]
      [] n # 0 /\ i.op = "in" /\ ~i.string -> [d EXCEPT !.reg = c.port])

Effect(c, i) ==
  CASE i.op = "popf" -> Sets(c, "tf", i.trap)
    [] i.op = "touch" -> Touch(c, i)
    [] i.op = "int3" -> [cpu |-> c, pending |-> Raise("#BP", c.ip + 1)]
    [] i.op \in {"mov_to_dr", "mov_from_dr"} -> MovDr(c, i)
    [] i.op = "mov_to_cr" -> MovToCr(c, i)
    [] i.op = "mov_from_cr" -> Sets(c, i.dst, c[CrName(i.cr)])
    [] i.op = "wrmsr" /\ i.msr \in {"absent", "hole"} -> Faults(c, "#GP")
    [] i.op = "wrmsr" /\ i.msr \notin {"absent", "hole"} -> Sets(c, i.msr, i.word)
    [] i.op = "rdmsr" /\ i.msr \in {"absent", "hole"} -> Faults(c, "#GP")
    [] i.op = "rdmsr" /\ i.msr \notin {"absent", "hole"} -> Sets(c, "reg", c[i.msr])
    [] i.op = "load" -> Completes(c, [c EXCEPT ![i.table] = i.word,
                                               !.busy = @ \/ i.table = "tr"])
    [] i.op = "store" -> Sets(c, "reg", c[i.table])
    [] i.op = "xsetbv" /\ i.word = "high" -> Faults(c, "#GP")
    [] i.op = "xsetbv" /\ i.word # "high" -> Sets(c, "xcr0", i.word)
    [] i.op = "cpuid" -> Sets(c, "reg", IF i.leaf \in VmmLeaves THEN "flag" ELSE i.word)
    [] i.op = "rdtsc" -> Sets(c, "reg", i.word)
    [] i.op \in {"in", "out"} -> PortAccess(c, i)
    [] i.op = "invlpg" -> Sets(c, "tlb", "none")
    [] i.op = "invd" -> Completes(c, c)
    [] i.op = "vmx" -> Sets(c, "error", TRUE)
    [] i.op = "vmcall" -> Vmcall(c, i)

-----------------------------------------------------------------------------
(* What the VMM leaves open: whether DR7.GD is still set in the handler of  *)
(* a single step (vmm.cpp:884), whether a write to IA32_DEBUGCTL lasts,    *)
(* whether a value moved into RSP arrives and whether an IN to EAX clears  *)
(* the upper half of RAX.                                                  *)
With(c, d, m, s, g) ==
  [c EXCEPT !.dr7 = d, !.debugctl = m, !.sp = s, !.reg = g]

Kept(old, i, e) ==
  {With(e.cpu, d, m, s, g) :
     d \in {e.cpu.dr7} \cup (IF e.pending # None /\ e.pending.vector = "#DB"
                             THEN {WithoutGd(e.cpu.dr7)} ELSE {}),
     m \in {old.debugctl, e.cpu.debugctl},
     s \in {old.sp, e.cpu.sp},
     g \in {e.cpu.reg} \cup (IF i.op = "in" /\ old.reg = "high" THEN {"high"} ELSE {})}

Leaves(i) == i.op = "vmcall" /\ i.number = "terminate" /\ i.cpl = 0

\* Instructions the VMM repeats on its own account although they fault.
Fatal(c, i) ==
  \/ i.op \in {"rdmsr", "wrmsr"} /\ i.msr = "absent"
  \/ i.op = "xsetbv" /\ i.word = "high"

Execute(i) ==
  /\ power = "on" /\ pending = None /\ ~Leaves(i)
  /\ last' = i
  /\ LET e == Effect(cpu, i) IN
       /\ cpu' \in Kept(cpu, i, e)
       /\ pending' = e.pending
  /\ UNCHANGED power

\* What the VMM has exchanged for its own when it leaves; it gives back the
\* instruction pointer, the stack, the flags and the descriptor tables.
Exchanged ==
  {"cr0", "cr3", "cr4", "dr7", "debugctl", "sysenter", "ldtr", "tr", "tlb"}

Leave(i) ==
  /\ power = "on" /\ pending = None /\ Leaves(i)
  /\ last' = i
  /\ LET e == Effect(cpu, i) IN
       /\ \A r \in DOMAIN cpu \ Exchanged : cpu'[r] = e.cpu[r]
       /\ DOMAIN cpu' = DOMAIN cpu
       /\ pending' = e.pending
  /\ power' = "unloaded"

\* The handler of the guest returns to the saved address; it steps over an
\* instruction that it cannot make succeed.
Resumes(e) == IF e.vector \in {"#GP", "#UD"} THEN e.at + 1 ELSE e.at

Deliver ==
  /\ pending # None
  /\ cpu' = [cpu EXCEPT !.ip = Resumes(pending)]
  /\ pending' = None
  /\ UNCHANGED <<last, power>>

Stop(i) ==
  /\ power = "on" /\ Fatal(cpu, i)
  /\ last' = i
  /\ power' = "stopped"
  /\ UNCHANGED <<cpu, pending>>

\* The VMM sets the bits that VMX wants in CR0 and CR4, and drops translations.
Prepare ==
  /\ power = "native"
  /\ cpu' = [cpu EXCEPT !.fixed = TRUE, !.tlb = "none"]
  /\ UNCHANGED <<pending, last, power>>

\* The call that started the VMM returns, with everything but its result and
\* those bits as it was.
Start ==
  /\ power = "native"
  /\ \/ power' = "on" /\ cpu' = [cpu EXCEPT !.ip = @ + 1, !.reg = "flag"]
     \/ power' = "unloaded"
        /\ cpu' = [cpu EXCEPT !.ip = @ + 1, !.reg = "zero", !.fixed = TRUE]
  /\ UNCHANGED <<pending, last>>

Next == Prepare \/ Start \/ (\E i \in Instructions : Execute(i) \/ Leave(i) \/ Stop(i)) \/ Deliver

\* A processor that the VMM is about to take over.
Init == pending = None /\ last = None /\ power = "native"

Spec == Init /\ [][Next]_view
=============================================================================
