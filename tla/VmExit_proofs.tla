---------------------------- MODULE VmExit_proofs ----------------------------
(***************************************************************************)
(* Proofs about VmExit for any guest program, any of the controls and any  *)
(* number of instructions: what the VMM makes of a processor is the        *)
(* processor of GuestProcessor.                                            *)
(***************************************************************************)
EXTENDS VmExit, TLAPS
-----------------------------------------------------------------------------
(* The invariant.                                                          *)

Words == {"zero", "flag"}
Dr7Words == Words \cup {"enabled"}
DrWords == Dr7Words \cup {"high", "junk"}

\* The registers, and what a guest may find in them.
Flags == {"tf", "error", "busy", "shared", "fixed"}
Plain == {"dr6", "cr0", "cr2", "cr3", "cr4", "gdtr", "idtr", "ldtr", "tr", "sysenter",
          "debugctl", "plain", "outside", "xcr0", "port", "memory"}
Regs == Flags \cup Plain \cup {"ip", "sp", "reg", "dr0", "dr7", "cr8", "tlb", "counters"}

Fits(r, v) ==
  /\ r = "ip" => v \in Nat
  /\ r = "sp" => v \in DrWords \cup Levels \cup {"stack"}
  /\ r \in Flags => v \in BOOLEAN
  /\ r \in Plain => v \in Words
  /\ r = "reg" => v \in DrWords \cup Levels
  /\ r = "dr0" => v \in DrWords
  /\ r = "dr7" => v \in Dr7Words
  /\ r = "cr8" => v \in Levels
  /\ r = "tlb" => v \in Words \cup {"none"}
  /\ r = "counters" => v \in [rcx : Nat, index : Int]

IsFile(f, S) == f = [r \in S |-> f[r]]

FileOK ==
  /\ IsFile(hw, Regs) /\ IsFile(vmcs, InVmcs)
  /\ \A r \in Regs : Fits(r, hw[r]) \/ (r \in HostOwned /\ hw[r] = "host")
  /\ mode \in Starting \cup {"guest"} => \A r \in Regs : Fits(r, hw[r])
  /\ \A r \in InVmcs : Fits(r, vmcs[r])

EventOK ==
  /\ pending = None \/ pending \in [vector : Vectors, at : Nat]
  /\ inject = None \/ inject \in [vector : Vectors, software : BOOLEAN]
  /\ pending # None => mode \in {"guest", "off"}
  /\ inject # None => mode = "handled"
  /\ entryLen \in 0 .. 1

ExitOK ==
  /\ exit # None => exit \in Instructions
  /\ (exit # None) <=> mode \in {"root", "handled", "leaving", "dead"}
  /\ mode = "root" =>
       Exits(exit) \/ (LET raised == Guest!Effect(View, exit).pending IN
                       raised # None /\ raised.vector \in controls)

IpOK ==
  /\ steps \in 0 .. MaxSteps
  /\ hw.ip <= steps + 1
  /\ mode \in Starting => hw.ip = 0
  /\ pending # None => Guest!Resumes(pending) <= steps + 1
  /\ mode \in {"root", "leaving"} => vmcs.ip <= steps
  /\ mode = "handled" => vmcs.ip <= steps + 1
  /\ inject # None => Guest!Resumes(Injected) <= steps + 1

ModeOK ==
  /\ mode \in Bare \cup {"guest", "root", "handled", "leaving", "dead"}
  /\ mode \in Starting \ {"native"} => hw.fixed = TRUE /\ hw.tlb = "none"
  /\ mode = "set up" =>
       \A r \in InVmcs : vmcs[r] = IF r = "ip" THEN hw.ip + 1 ELSE hw[r]
  /\ mode \in {"guest", "root", "handled", "leaving"} => View.tlb \in {"none", View.cr3}
  /\ mode = "leaving" =>
       /\ Terminates
       /\ hw.gdtr = vmcs.gdtr /\ hw.idtr = vmcs.idtr
       /\ gp_regs = [cx |-> vmcs.ip + 1, dx |-> vmcs.sp,
                     ax |-> [tf |-> vmcs.tf, error |-> FALSE]]

OtherOK ==
  /\ controls \in Configurations \cup {{}}
  /\ guest_cr8 \in Levels
  /\ last \in Instructions \cup {None}

VmExitInv == FileOK /\ EventOK /\ ExitOK /\ IpOK /\ ModeOK /\ OtherOK
-----------------------------------------------------------------------------
(* Register files.                                                         *)

LEMMA Names ==
  /\ Guest!Words = Words /\ Guest!Dr7Words = Dr7Words /\ Guest!DrWords = DrWords
  /\ InVmcs \subseteq Regs /\ HostOwned \subseteq InVmcs /\ HostOwned \subseteq Plain
BY DEF Guest!Words, Guest!Dr7Words, Guest!DrWords, Words, Dr7Words, DrWords, InVmcs, Regs,
       HostOwned, Debug, Flags, Plain

\* The view in the VMM: what the VM-exit has taken, the rest in the processor.
HostView(h, v, cr8) ==
  [r \in Regs |-> IF r \in InVmcs THEN v[r] ELSE IF r = "cr8" THEN cr8 ELSE h[r]]

\* And in the guest: DR7 and IA32_DEBUGCTL may be what the next entry will load.
GuestView(h, v, c) ==
  [r \in Regs |-> IF r \in Debug /\ "save_debug" \notin c THEN v[r] ELSE h[r]]

InHost == mode \in {"root", "handled", "leaving", "dead"}

LEMMA ViewIs ==
  ASSUME IsFile(hw, Regs)
  PROVE  /\ InHost => View = HostView(hw, vmcs, guest_cr8)
         /\ mode = "guest" => View = GuestView(hw, vmcs, controls)
         /\ mode \in Bare => View = hw
<1> DOMAIN hw = Regs
  BY DEF IsFile
<1>1. InHost => View = HostView(hw, vmcs, guest_cr8)
  BY DEF InHost, View, HostView, Bare, Starting
<1>2. mode = "guest" => View = GuestView(hw, vmcs, controls)
  BY Names DEF View, GuestView, Bare, Starting, Debug, InVmcs
<1>3. mode \in Bare => View = hw
  BY DEF View, IsFile
<1> QED BY <1>1, <1>2, <1>3

LEMMA ViewIsNext ==
  ASSUME IsFile(hw', Regs)
  PROVE  /\ InHost' => View' = HostView(hw', vmcs', guest_cr8')
         /\ mode' = "guest" => View' = GuestView(hw', vmcs', controls')
         /\ mode' \in Bare => View' = hw'
<1> DOMAIN hw' = Regs
  BY DEF IsFile
<1>1. InHost' => View' = HostView(hw', vmcs', guest_cr8')
  BY DEF InHost, View, HostView, Bare, Starting
<1>2. mode' = "guest" => View' = GuestView(hw', vmcs', controls')
  BY Names DEF View, GuestView, Bare, Starting, Debug, InVmcs
<1>3. mode' \in Bare => View' = hw'
  BY DEF View, IsFile
<1> QED BY <1>1, <1>2, <1>3

LEMMA PowerIs ==
  /\ mode \in Starting => Power = "native"
  /\ mode \in {"guest", "root", "handled", "leaving"} => Power = "on"
  /\ mode = "off" => Power = "unloaded"
  /\ mode = "dead" => Power = "stopped"
BY DEF Power, Starting, Bare

LEMMA PowerIsNext ==
  /\ mode' \in Starting => Power' = "native"
  /\ mode' \in {"guest", "root", "handled", "leaving"} => Power' = "on"
  /\ mode' = "off" => Power' = "unloaded"
  /\ mode' = "dead" => Power' = "stopped"
BY DEF Power, Starting, Bare

\* Two files that agree everywhere are the same.
LEMMA SameFile ==
  ASSUME NEW S, NEW f, NEW g, IsFile(f, S), IsFile(g, S), \A r \in S : f[r] = g[r]
  PROVE  f = g
BY DEF IsFile

LEMMA FileExcept ==
  ASSUME NEW S, NEW f, IsFile(f, S), NEW x \in S, NEW w
  PROVE  /\ IsFile([f EXCEPT ![x] = w], S)
         /\ [f EXCEPT ![x] = w][x] = w
         /\ \A r \in S \ {x} : [f EXCEPT ![x] = w][r] = f[r]
BY DEF IsFile
-----------------------------------------------------------------------------
(* Instructions: what a processor of its own makes of them.                *)

LEMMA Forms ==
  ASSUME NEW i \in InstructionForms
  PROVE  /\ i.op \in {"popf", "touch", "int3", "invlpg", "invd", "vmx", "mov_to_dr",
                      "mov_from_dr", "mov_to_cr", "mov_from_cr", "rdmsr", "wrmsr", "load",
                      "store", "xsetbv", "cpuid", "rdtsc", "in", "out", "vmcall"}
         /\ i.op = "popf" => i.trap \in BOOLEAN
         /\ i.op = "touch" => i.fault \in BOOLEAN /\ i.word \in Words
         /\ i.op = "mov_to_dr" => /\ i.dr \in {0, 4, 5, 6, 7} /\ i.word \in DrWords
                                  /\ i.dr \in {4, 6} => i.word # "enabled"
         /\ i.op = "mov_from_dr" => i.dr \in {0, 4, 5, 6, 7} /\ i.dst \in {"reg", "sp"}
         /\ i.op = "mov_to_cr" => /\ i.cr \in {0, 3, 4, 8}
                                  /\ i.word \in IF i.cr = 8 THEN Levels ELSE Words
         /\ i.op = "mov_from_cr" => i.cr \in {3, 8} /\ i.dst \in {"reg", "sp"}
         /\ i.op \in {"rdmsr", "wrmsr"} => i.msr \in Msrs
         /\ i.op = "wrmsr" => i.word \in Words
         /\ i.op \in {"load", "store"} => i.table \in Tables
         /\ i.op = "load" => i.word \in Words
         /\ i.op = "xsetbv" => i.word \in Words \cup {"high"}
         /\ i.op = "cpuid" => i.word \in Words
         /\ i.op = "rdtsc" => i.word \in Words
         /\ i.op \in {"in", "out"} => /\ i.string \in BOOLEAN /\ i.rep \in BOOLEAN
                                      /\ i.df \in BOOLEAN /\ i.word \in Words
         /\ i.op = "vmcall" => i.number \in {"terminate", "ping", "get_shared", "unsupported"}
BY Names DEF InstructionForms

Typed(c) == IsFile(c, Regs) /\ \A r \in Regs : Fits(r, c[r])
\* The translations kept are those of the address space in use.
Current(c) == c.tlb \in {"none", c.cr3}

\* What an instruction may leave behind, started in c.
Sound(c, e) ==
  /\ Typed(e.cpu)
  /\ e.cpu.ip <= c.ip + 1
  /\ Current(c) => Current(e.cpu)
  /\ \/ e.pending = None
     \/ e.pending \in [vector : Vectors, at : Nat] /\ Guest!Resumes(e.pending) <= c.ip + 1

LEMMA RegisterSets ==
  /\ {"ip", "sp", "tf", "error", "reg", "dr0", "dr6", "dr7", "cr0", "cr2", "cr3", "cr4",
      "cr8", "tlb", "gdtr", "idtr", "ldtr", "tr", "sysenter", "debugctl", "plain",
      "outside", "xcr0", "busy", "shared", "fixed", "port", "memory", "counters"} = Regs
  /\ Msrs \ {"hole", "absent"} \subseteq Plain /\ Tables \subseteq Plain
  /\ Plain \subseteq Regs /\ Flags \subseteq Regs
  /\ \A r \in Plain : r \notin Flags \cup {"ip", "sp", "reg", "dr0", "dr7", "cr8", "tlb", "counters"}
BY DEF Regs, Flags, Plain, Msrs, Tables

LEMMA PlainFits ==
  ASSUME NEW r \in Plain, NEW w
  PROVE  Fits(r, w) <=> w \in Words
BY DEF Fits, Plain, Flags

LEMMA TypedExcept ==
  ASSUME NEW c, Typed(c), NEW r \in Regs, NEW w, Fits(r, w)
  PROVE  /\ Typed([c EXCEPT ![r] = w])
         /\ [c EXCEPT ![r] = w][r] = w
         /\ \A q \in Regs \ {r} : [c EXCEPT ![r] = w][q] = c[q]
<1> DEFINE d == [c EXCEPT ![r] = w]
<1>1. IsFile(d, Regs) /\ d[r] = w /\ \A q \in Regs \ {r} : d[q] = c[q]
  BY FileExcept DEF Typed
<1>2. \A q \in Regs : Fits(q, d[q])
  <2> HIDE DEF d
  <2> QED BY <1>1 DEF Typed
<1> QED BY <1>1, <1>2 DEF Typed

LEMMA CompletesSound ==
  ASSUME NEW c, NEW d, Typed(c), Typed(d), Current(c) => Current(d)
  PROVE  /\ Sound(c, Guest!Completes(c, d))
         /\ Guest!Completes(c, d).cpu.ip = c.ip + 1
         /\ Guest!Completes(c, d).pending =
              IF c.tf THEN [vector |-> "#DB", at |-> c.ip + 1] ELSE None
         /\ \A q \in Regs \ {"ip"} : Guest!Completes(c, d).cpu[q] = d[q]
<1> DEFINE f == [d EXCEPT !["ip"] = c.ip + 1]
           p == IF c.tf THEN [vector |-> "#DB", at |-> c.ip + 1] ELSE None
           e == Guest!Completes(c, d)
<1>1. c.ip \in Nat /\ c.ip + 1 \in Nat /\ c.tf \in BOOLEAN
  BY RegisterSets DEF Typed, Fits, Flags
<1>2. "ip" \in Regs /\ "tlb" \in Regs \ {"ip"} /\ "cr3" \in Regs \ {"ip"}
  BY RegisterSets
<1>3. Fits("ip", c.ip + 1)
  BY <1>1 DEF Fits, Flags, Plain
<1>4. Typed(f) /\ f.ip = c.ip + 1 /\ \A q \in Regs \ {"ip"} : f[q] = d[q]
  BY <1>2, <1>3, TypedExcept
<1>5. e.cpu = f /\ e.pending = p
  BY DEF Guest!Completes, Guest!Raise
<1>6. p = None \/ (p \in [vector : Vectors, at : Nat] /\ Guest!Resumes(p) <= c.ip + 1)
  BY <1>1 DEF Vectors, Guest!Resumes
<1>7. f.tlb = d.tlb /\ f.cr3 = d.cr3
  BY <1>4, <1>2
<1> HIDE DEF f, p, e
<1>8. Sound(c, e)
  BY <1>1, <1>4, <1>5, <1>6, <1>7 DEF Sound, Current
<1> QED BY <1>4, <1>5, <1>8 DEF p, e

LEMMA SetsSound ==
  ASSUME NEW c, Typed(c), NEW r \in Regs \ {"ip", "cr3"}, NEW w, Fits(r, w),
         r = "tlb" => w \in {"none", c.cr3}
  PROVE  /\ Sound(c, Guest!Sets(c, r, w))
         /\ Guest!Sets(c, r, w).cpu.ip = c.ip + 1
         /\ Guest!Sets(c, r, w).cpu[r] = w
         /\ Guest!Sets(c, r, w).pending =
              IF c.tf THEN [vector |-> "#DB", at |-> c.ip + 1] ELSE None
         /\ \A q \in Regs \ {"ip", r} : Guest!Sets(c, r, w).cpu[q] = c[q]
<1> DEFINE d == [c EXCEPT ![r] = w]
<1>1. Typed(d) /\ d[r] = w /\ \A q \in Regs \ {r} : d[q] = c[q]
  BY TypedExcept
<1>2. Guest!Sets(c, r, w) = Guest!Completes(c, d)
  BY DEF Guest!Sets
<1>3. Current(c) => Current(d)
  <2>1. d.cr3 = c.cr3 /\ (r # "tlb" => d.tlb = c.tlb)
    BY <1>1, RegisterSets
  <2> HIDE DEF d
  <2> QED BY <1>1, <2>1 DEF Current
<1> HIDE DEF d
<1> QED BY <1>1, <1>2, <1>3, CompletesSound

LEMMA FaultsSound ==
  ASSUME NEW c, NEW d, Typed(c), Typed(d), Current(c) => Current(d), d.ip = c.ip,
         NEW vector \in Vectors
  PROVE  /\ Sound(c, Guest!Faults(d, vector))
         /\ Guest!Faults(d, vector).cpu = d
         /\ Guest!Faults(d, vector).pending = [vector |-> vector, at |-> c.ip]
<1> DEFINE p == [vector |-> vector, at |-> c.ip]
           e == Guest!Faults(d, vector)
<1>1. c.ip \in Nat
  BY RegisterSets DEF Typed, Fits
<1>2. e.cpu = d /\ e.pending = p
  BY DEF Guest!Faults, Guest!Raise
<1>3. p \in [vector : Vectors, at : Nat] /\ Guest!Resumes(p) <= c.ip + 1
  BY <1>1 DEF Guest!Resumes
<1>4. Sound(c, e)
  <2> HIDE DEF e, p
  <2> QED BY <1>1, <1>2, <1>3 DEF Sound
<1> QED BY <1>2, <1>4

LEMMA EffectOf ==
  ASSUME NEW c, NEW i \in InstructionForms
  PROVE  LET e == Guest!Effect(c, i) IN
         /\ i.op = "popf" => e = Guest!Sets(c, "tf", i.trap)
         /\ i.op = "touch" => e = Guest!Touch(c, i)
         /\ i.op = "int3" => e = [cpu |-> c, pending |-> Guest!Raise("#BP", c.ip + 1)]
         /\ i.op \in {"mov_to_dr", "mov_from_dr"} => e = Guest!MovDr(c, i)
         /\ i.op = "mov_to_cr" => e = Guest!MovToCr(c, i)
         /\ i.op = "mov_from_cr" => e = Guest!Sets(c, i.dst, c[Guest!CrName(i.cr)])
         /\ i.op \in {"rdmsr", "wrmsr"} /\ i.msr \in {"absent", "hole"} =>
              e = Guest!Faults(c, "#GP")
         /\ i.op = "wrmsr" /\ i.msr \notin {"absent", "hole"} =>
              e = Guest!Sets(c, i.msr, i.word)
         /\ i.op = "rdmsr" /\ i.msr \notin {"absent", "hole"} =>
              e = Guest!Sets(c, "reg", c[i.msr])
         /\ i.op = "load" => e = Guest!Completes(c, [c EXCEPT ![i.table] = i.word,
                                                         !.busy = @ \/ i.table = "tr"])
         /\ i.op = "store" => e = Guest!Sets(c, "reg", c[i.table])
         /\ i.op = "xsetbv" /\ i.word = "high" => e = Guest!Faults(c, "#GP")
         /\ i.op = "xsetbv" /\ i.word # "high" => e = Guest!Sets(c, "xcr0", i.word)
         /\ i.op = "cpuid" =>
              e = Guest!Sets(c, "reg", IF i.leaf \in Guest!VmmLeaves THEN "flag" ELSE i.word)
         /\ i.op = "rdtsc" => e = Guest!Sets(c, "reg", i.word)
         /\ i.op \in {"in", "out"} => e = Guest!PortAccess(c, i)
         /\ i.op = "invlpg" => e = Guest!Sets(c, "tlb", "none")
         /\ i.op = "invd" => e = Guest!Completes(c, c)
         /\ i.op = "vmx" => e = Guest!Sets(c, "error", TRUE)
         /\ i.op = "vmcall" => e = Guest!Vmcall(c, i)
<1>1. CASE i.op \in {"popf", "touch", "int3", "invlpg", "invd", "vmx"}
  BY <1>1 DEF Guest!Effect
<1>2. CASE i.op \in {"mov_to_dr", "mov_from_dr", "mov_to_cr", "mov_from_cr"}
  BY <1>2 DEF Guest!Effect
<1>3. CASE i.op \in {"rdmsr", "wrmsr"}
  BY <1>3 DEF Guest!Effect
<1>4. CASE i.op \in {"load", "store", "xsetbv"}
  BY <1>4 DEF Guest!Effect
<1>5. CASE i.op \in {"cpuid", "rdtsc", "in", "out", "vmcall"}
  BY <1>5 DEF Guest!Effect
<1> QED BY <1>1, <1>2, <1>3, <1>4, <1>5, Forms

\* What the registers named hold.
LEMMA TypedRegisters ==
  ASSUME NEW c, Typed(c)
  PROVE  /\ c.ip \in Nat /\ c.counters \in [rcx : Nat, index : Int]
         /\ c.tf \in BOOLEAN /\ c.error \in BOOLEAN /\ c.busy \in BOOLEAN
         /\ c.shared \in BOOLEAN /\ c.fixed \in BOOLEAN
         /\ c.sp \in DrWords \cup Levels \cup {"stack"}
         /\ c.reg \in DrWords \cup Levels /\ c.dr0 \in DrWords /\ c.dr7 \in Dr7Words
         /\ c.cr8 \in Levels
         /\ c.tlb \in Words \cup {"none"}
         /\ \A r \in Plain : c[r] \in Words
<1>1. \A r \in Regs : Fits(r, c[r])
  BY DEF Typed
<1>2. \A r \in Plain : c[r] \in Words
  BY <1>1, PlainFits, RegisterSets
<1> QED BY <1>1, <1>2, RegisterSets DEF Fits, Flags

LEMMA FaultsHere ==
  ASSUME NEW c, Typed(c), NEW vector \in Vectors
  PROVE  /\ Sound(c, Guest!Faults(c, vector))
         /\ Guest!Faults(c, vector).cpu = c
         /\ Guest!Faults(c, vector).pending = [vector |-> vector, at |-> c.ip]
BY FaultsSound

\* One register of a file changed, and two at once.
Put(f, r, w) == [f EXCEPT ![r] = w]
Both(c, q, v, r, w) == [c EXCEPT ![q] = v, ![r] = w]

LEMMA TwoExcept ==
  ASSUME NEW c, Typed(c), NEW q \in Regs, NEW r \in Regs, q # r, NEW v, NEW w,
         Fits(q, v), Fits(r, w)
  PROVE  LET d == Both(c, q, v, r, w) IN
         /\ Typed(d) /\ d[q] = v /\ d[r] = w
         /\ \A s \in Regs \ {q, r} : d[s] = c[s]
<1> DEFINE f == [c EXCEPT ![q] = v]
           g == [f EXCEPT ![r] = w]
<1>1. Typed(f) /\ f[q] = v /\ \A s \in Regs \ {q} : f[s] = c[s]
  BY TypedExcept
<1>2. Typed(g) /\ g[r] = w /\ \A s \in Regs \ {r} : g[s] = f[s]
  <2> HIDE DEF f
  <2> QED BY <1>1, TypedExcept
<1>3. Both(c, q, v, r, w) = g
  BY DEF Both, Typed, IsFile
<1> HIDE DEF f, g
<1> QED BY <1>1, <1>2, <1>3

LEMMA MovDrSound ==
  ASSUME NEW c, Typed(c), NEW i \in InstructionForms, i.op \in {"mov_to_dr", "mov_from_dr"}
  PROVE  Sound(c, Guest!MovDr(c, i))
<1> DEFINE blind == c.dr7 = "flag"
           alias == i.dr \in {4, 5} /\ c.cr4 = "flag"
<1> {"#GP", "#UD", "#DB"} \subseteq Vectors
  BY DEF Vectors
<1>t. i.dr \in {0, 4, 5, 6, 7}
  BY Forms
<1>n. Guest!DrName(i.dr) = IF i.dr = 0 THEN "dr0" ELSE IF i.dr \in {4, 6} THEN "dr6" ELSE "dr7"
  BY <1>t DEF Guest!DrName
<1>1. CASE i.cpl # 0
  <2>1. Guest!MovDr(c, i) = Guest!Faults(c, "#GP")
    BY <1>1 DEF Guest!MovDr
  <2> QED BY <2>1, FaultsHere
<1>2. CASE i.cpl = 0 /\ alias
  <2>1. Guest!MovDr(c, i) = Guest!Faults(c, "#UD")
    BY <1>2 DEF Guest!MovDr
  <2> QED BY <2>1, FaultsHere
<1>3. CASE i.cpl = 0 /\ ~alias /\ blind
  <2> DEFINE d == [c EXCEPT !["dr6"] = "flag", !["dr7"] = "zero"]
  <2>1. Guest!MovDr(c, i) = Guest!Faults(d, "#DB")
    BY <1>3, RegisterSets DEF Guest!MovDr, Guest!WithoutGd, Typed, IsFile
  <2>2. Fits("dr6", "flag") /\ Fits("dr7", "zero")
    BY DEF Fits, Flags, Plain, Words, Dr7Words
  <2>3. "dr6" \in Regs /\ "dr7" \in Regs /\ "dr6" # "dr7"
    BY RegisterSets
  <2>4. Typed(d) /\ \A s \in Regs \ {"dr6", "dr7"} : d[s] = c[s]
    <3>1. d = Both(c, "dr6", "flag", "dr7", "zero")
      BY DEF Both
    <3> HIDE DEF d
    <3> QED BY <2>2, <2>3, <3>1, TwoExcept
  <2> HIDE DEF d
  <2>5. d.ip = c.ip /\ (Current(c) => Current(d))
    BY <2>4, RegisterSets DEF Current
  <2>6. Sound(c, Guest!Faults(d, "#DB"))
    BY <2>4, <2>5, FaultsSound
  <2> QED BY <2>1, <2>6
<1>4. CASE i.cpl = 0 /\ ~alias /\ ~blind /\ i.op = "mov_from_dr"
  <2>1. Guest!MovDr(c, i) = Guest!Sets(c, i.dst, c[Guest!DrName(i.dr)])
    BY <1>4 DEF Guest!MovDr
  <2>2. c[Guest!DrName(i.dr)] \in DrWords
    BY <1>n, TypedRegisters DEF DrWords, Dr7Words, Plain
  <2>3. i.dst \in {"reg", "sp"}
    BY <1>4, Forms
  <2>4. Fits(i.dst, c[Guest!DrName(i.dr)])
    BY <2>2, <2>3 DEF Fits, Flags, Plain
  <2>5. i.dst \in Regs \ {"ip", "cr3"} /\ i.dst # "tlb"
    BY <2>3, RegisterSets
  <2>6. Sound(c, Guest!Sets(c, i.dst, c[Guest!DrName(i.dr)]))
    BY <2>4, <2>5, SetsSound
  <2> QED BY <2>1, <2>6
<1>5. CASE i.cpl = 0 /\ ~alias /\ ~blind /\ i.op = "mov_to_dr" /\ i.dr # 0 /\ i.word = "high"
  <2>1. Guest!MovDr(c, i) = Guest!Faults(c, "#GP")
    BY <1>5 DEF Guest!MovDr
  <2> QED BY <2>1, FaultsHere
<1>6. CASE /\ i.cpl = 0 /\ ~alias /\ ~blind /\ i.op = "mov_to_dr"
           /\ ~(i.dr # 0 /\ i.word = "high")
  <2> DEFINE w == Guest!DrWritten(i.dr, i.word)
             r == Guest!DrName(i.dr)
  <2>1. Guest!MovDr(c, i) = Guest!Sets(c, r, w)
    BY <1>6 DEF Guest!MovDr
  <2>2. i.word \in DrWords /\ (i.dr \in {4, 6} => i.word # "enabled")
    BY <1>6, Forms
  <2>3. r \in {"dr0", "dr6", "dr7"}
    BY <1>n
  <2>4. Fits(r, w)
    BY <1>6, <1>n, <1>t, <2>2 DEF Fits, Flags, Plain, Guest!DrWritten, DrWords, Dr7Words, Words
  <2>5. r \in Regs \ {"ip", "cr3"} /\ r # "tlb"
    BY <2>3, RegisterSets
  <2> HIDE DEF r, w
  <2>6. Sound(c, Guest!Sets(c, r, w))
    BY <2>4, <2>5, SetsSound
  <2> QED BY <2>1, <2>6
<1> QED BY <1>1, <1>2, <1>3, <1>4, <1>5, <1>6

LEMMA MovToCrSound ==
  ASSUME NEW c, Typed(c), NEW i \in InstructionForms, i.op = "mov_to_cr"
  PROVE  LET d == Both(c, Guest!CrName(i.cr), i.word, "tlb",
                       IF i.cr \in {3, 4} THEN "none" ELSE c.tlb) IN
         /\ Guest!MovToCr(c, i) = Guest!Completes(c, d)
         /\ Guest!CrName(i.cr) \in {"cr0", "cr3", "cr4", "cr8"}
         /\ Typed(d) /\ (Current(c) => Current(d))
         /\ d[Guest!CrName(i.cr)] = i.word
         /\ d.tlb = IF i.cr \in {3, 4} THEN "none" ELSE c.tlb
         /\ \A s \in Regs \ {Guest!CrName(i.cr), "tlb"} : d[s] = c[s]
<1> DEFINE r == Guest!CrName(i.cr)
           w == IF i.cr \in {3, 4} THEN "none" ELSE c.tlb
           d == Both(c, r, i.word, "tlb", w)
<1>1. i.cr \in {0, 3, 4, 8} /\ i.word \in (IF i.cr = 8 THEN Levels ELSE Words)
  BY Forms
<1>2. r = IF i.cr = 0 THEN "cr0" ELSE IF i.cr = 3 THEN "cr3" ELSE IF i.cr = 4 THEN "cr4"
          ELSE "cr8"
  BY <1>1 DEF Guest!CrName
<1>3. Fits(r, i.word)
  BY <1>1, <1>2 DEF Fits, Flags, Plain
<1>4. r \in Regs /\ "tlb" \in Regs /\ "tlb" # r /\ r \in {"cr0", "cr3", "cr4", "cr8"}
  BY <1>2, RegisterSets
<1>5. Fits("tlb", w)
  BY TypedRegisters DEF Fits, Flags, Plain
<1>6. Guest!MovToCr(c, i) = Guest!Completes(c, d)
  BY <1>4 DEF Guest!MovToCr, Typed, IsFile, Both
<1>7. Typed(d) /\ d[r] = i.word /\ d.tlb = w /\ \A s \in Regs \ {r, "tlb"} : d[s] = c[s]
  <2> HIDE DEF w, r
  <2> QED BY <1>3, <1>4, <1>5, TwoExcept
<1>8. Current(c) => Current(d)
  <2>1. i.cr \notin {3, 4} => d.cr3 = c.cr3
    <3> HIDE DEF d
    <3> QED BY <1>1, <1>2, <1>7, RegisterSets
  <2> HIDE DEF d
  <2> QED BY <1>7, <2>1 DEF Current
<1> QED BY <1>4, <1>6, <1>7, <1>8

LEMMA LoadSound ==
  ASSUME NEW c, Typed(c), NEW i \in InstructionForms, i.op = "load"
  PROVE  LET d == Both(c, i.table, i.word, "busy", c.busy \/ i.table = "tr") IN
         /\ Guest!Effect(c, i) = Guest!Completes(c, d)
         /\ i.table \in Tables /\ Typed(d) /\ (Current(c) => Current(d))
         /\ d[i.table] = i.word /\ d.busy = (c.busy \/ i.table = "tr")
         /\ \A s \in Regs \ {i.table, "busy"} : d[s] = c[s]
<1> DEFINE b == c.busy \/ i.table = "tr"
           d == Both(c, i.table, i.word, "busy", b)
<1>1. i.table \in Tables /\ i.word \in Words
  BY Forms
<1>2. i.table \in Plain /\ i.table \in Regs /\ "busy" \in Regs /\ i.table # "busy"
  BY <1>1, RegisterSets DEF Tables
<1>3. Fits(i.table, i.word)
  BY <1>1, <1>2, PlainFits
<1>4. Fits("busy", b)
  BY DEF Fits, Flags, Plain
<1>5. Guest!Effect(c, i) = Guest!Completes(c, d)
  BY <1>2, EffectOf DEF Typed, IsFile, Both
<1>6. Typed(d) /\ d[i.table] = i.word /\ d.busy = b
      /\ \A s \in Regs \ {i.table, "busy"} : d[s] = c[s]
  <2> HIDE DEF b
  <2> QED BY <1>2, <1>3, <1>4, TwoExcept
<1>7. d.tlb = c.tlb /\ d.cr3 = c.cr3
  <2> HIDE DEF d
  <2> QED BY <1>1, <1>6, RegisterSets DEF Tables
<1> QED BY <1>1, <1>5, <1>6, <1>7 DEF Current

\* The data of a completed IN or OUT.
PortWritten(c, i) ==
  IF Guest!Repeats(c, i) = 0 THEN c
  ELSE IF i.op = "out" THEN Put(c, "port", i.word)
  ELSE IF i.string THEN Put(c, "memory", c.port)
  ELSE Put(c, "reg", c.port)

LEMMA PortAccessSound ==
  ASSUME NEW c, Typed(c), NEW i \in InstructionForms, i.op \in {"in", "out"}
  PROVE  LET d == Put(PortWritten(c, i), "counters", Guest!Counted(c, i)) IN
         /\ Guest!PortAccess(c, i) = Guest!Completes(c, d)
         /\ Typed(d) /\ (Current(c) => Current(d))
         /\ d.counters = Guest!Counted(c, i)
         /\ \A s \in Regs \ {"counters"} : d[s] = PortWritten(c, i)[s]
         /\ \A s \in Regs \ {"port", "memory", "reg"} : PortWritten(c, i)[s] = c[s]
<1> DEFINE f == PortWritten(c, i)
           n == Guest!Counted(c, i)
           d == Put(f, "counters", n)
<1>1. i.string \in BOOLEAN /\ i.rep \in BOOLEAN /\ i.df \in BOOLEAN /\ i.word \in Words
  BY Forms
<1>2. n \in [rcx : Nat, index : Int]
  BY <1>1, TypedRegisters DEF Guest!Counted, Guest!Repeats
<1>3. /\ Typed(f)
      /\ \A s \in Regs \ {"port", "memory", "reg"} : f[s] = c[s]
  <2> DEFINE f1 == Put(c, "port", i.word)
             f2 == Put(c, "memory", c.port)
             f3 == Put(c, "reg", c.port)
  <2>1. c.port \in Words
    BY TypedRegisters DEF Plain
  <2>2. Fits("port", i.word) /\ Fits("memory", c.port) /\ Fits("reg", c.port)
    BY <1>1, <2>1 DEF Fits, Flags, Plain, DrWords, Dr7Words
  <2>3. {"port", "memory", "reg"} \subseteq Regs
    BY RegisterSets
  <2>4. Typed(f1) /\ \A s \in Regs \ {"port"} : f1[s] = c[s]
    BY <2>2, <2>3, TypedExcept DEF Put
  <2>5. Typed(f2) /\ \A s \in Regs \ {"memory"} : f2[s] = c[s]
    BY <2>2, <2>3, TypedExcept DEF Put
  <2>6. Typed(f3) /\ \A s \in Regs \ {"reg"} : f3[s] = c[s]
    BY <2>2, <2>3, TypedExcept DEF Put
  <2>7. f \in {c, f1, f2, f3}
    BY DEF PortWritten
  <2> HIDE DEF f, f1, f2, f3
  <2> QED BY <2>4, <2>5, <2>6, <2>7
<1>4. Guest!PortAccess(c, i) = Guest!Completes(c, d)
  <2> DEFINE e == [c EXCEPT !.counters = n]
             g == CASE Guest!Repeats(c, i) = 0 -> e
                    [] Guest!Repeats(c, i) # 0 /\ i.op = "out" -> [e EXCEPT !.port = i.word]
                    [] Guest!Repeats(c, i) # 0 /\ i.op = "in" /\ i.string ->
                         [e EXCEPT !.memory = c.port]
                    [] Guest!Repeats(c, i) # 0 /\ i.op = "in" /\ ~i.string ->
                         [e EXCEPT !.reg = c.port]
  <2>1. Guest!PortAccess(c, i) = Guest!Completes(c, g)
    BY DEF Guest!PortAccess
  <2>2. IsFile(c, Regs) /\ {"counters", "port", "memory", "reg"} \subseteq Regs
    BY RegisterSets DEF Typed
  <2>3. CASE Guest!Repeats(c, i) = 0
    BY <2>3, <2>1, <2>2 DEF IsFile, PortWritten, Put
  <2>4. CASE Guest!Repeats(c, i) # 0 /\ i.op = "out"
    <3>1. g = [e EXCEPT !.port = i.word]
      BY <2>4
    <3>2. g = d
      BY <2>4, <2>2, <3>1 DEF IsFile, PortWritten, Put
    <3> QED BY <2>1, <3>2
  <2>5. CASE Guest!Repeats(c, i) # 0 /\ i.op = "in" /\ i.string = TRUE
    <3>1. g = [e EXCEPT !.memory = c.port]
      BY <2>5
    <3>2. g = d
      BY <2>5, <2>2, <3>1 DEF IsFile, PortWritten, Put
    <3> QED BY <2>1, <3>2
  <2>6. CASE Guest!Repeats(c, i) # 0 /\ i.op = "in" /\ i.string = FALSE
    <3>1. g = [e EXCEPT !.reg = c.port]
      BY <2>6
    <3>2. g = d
      BY <2>6, <2>2, <3>1 DEF IsFile, PortWritten, Put
    <3> QED BY <2>1, <3>2
  <2> QED BY <1>1, <2>3, <2>4, <2>5, <2>6
<1>5. Typed(d) /\ d.counters = n /\ \A s \in Regs \ {"counters"} : d[s] = f[s]
  <2>1. Fits("counters", n) /\ "counters" \in Regs
    BY <1>2, RegisterSets DEF Fits, Flags, Plain
  <2> HIDE DEF f, n
  <2> QED BY <1>3, <2>1, TypedExcept DEF Put
<1>6. Current(c) => Current(d)
  <2>1. d.tlb = c.tlb /\ d.cr3 = c.cr3
    <3> HIDE DEF f, d
    <3> QED BY <1>3, <1>5, RegisterSets
  <2> HIDE DEF d
  <2> QED BY <2>1 DEF Current
<1> QED BY <1>3, <1>4, <1>5, <1>6

LEMMA TouchSound ==
  ASSUME NEW c, Typed(c), NEW i \in InstructionForms, i.op = "touch"
  PROVE  Sound(c, Guest!Touch(c, i))
<1>1. i.fault \in BOOLEAN /\ i.word \in Words
  BY Forms
<1>2. CASE i.fault
  <2> DEFINE d == [c EXCEPT !["cr2"] = i.word]
  <2>1. Fits("cr2", i.word) /\ "cr2" \in Regs
    BY <1>1, RegisterSets DEF Fits, Flags, Plain
  <2>2. Typed(d) /\ \A s \in Regs \ {"cr2"} : d[s] = c[s]
    BY <2>1, TypedExcept
  <2>3. Guest!Touch(c, i) = Guest!Faults(d, "#PF")
    BY <1>2 DEF Guest!Touch
  <2> HIDE DEF d
  <2>4. d.ip = c.ip /\ (Current(c) => Current(d))
    BY <2>2, RegisterSets DEF Current
  <2>5. "#PF" \in Vectors
    BY DEF Vectors
  <2>6. Sound(c, Guest!Faults(d, "#PF"))
    BY <2>2, <2>4, <2>5, FaultsSound
  <2> QED BY <2>3, <2>6
<1>3. CASE ~i.fault
  <2>1. Guest!Touch(c, i) = Guest!Sets(c, "tlb", c.cr3)
    BY <1>3 DEF Guest!Touch
  <2>2. Fits("tlb", c.cr3) /\ "tlb" \in Regs \ {"ip", "cr3"}
    BY TypedRegisters, RegisterSets DEF Fits, Flags, Plain
  <2>3. Sound(c, Guest!Sets(c, "tlb", c.cr3))
    BY <2>2, SetsSound
  <2> QED BY <2>1, <2>3
<1> QED BY <1>1, <1>2, <1>3

LEMMA VmcallSound ==
  ASSUME NEW c, Typed(c), NEW i \in InstructionForms, i.op = "vmcall"
  PROVE  LET d == Both(c, "error", FALSE, "shared", c.shared \/ i.number = "get_shared") IN
         /\ Guest!Vmcall(c, i) =
              IF i.number = "unsupported" \/ (i.number = "terminate" /\ i.cpl # 0)
              THEN Guest!Faults(c, "#UD") ELSE Guest!Completes(c, d)
         /\ Typed(d) /\ (Current(c) => Current(d))
         /\ d.error = FALSE /\ d.shared = (c.shared \/ i.number = "get_shared")
         /\ \A s \in Regs \ {"error", "shared"} : d[s] = c[s]
         /\ Sound(c, Guest!Vmcall(c, i))
<1> DEFINE no == FALSE
           b == c.shared \/ i.number = "get_shared"
           d == Both(c, "error", no, "shared", b)
<1>1. Guest!Vmcall(c, i) =
        IF i.number = "unsupported" \/ (i.number = "terminate" /\ i.cpl # 0)
        THEN Guest!Faults(c, "#UD") ELSE Guest!Completes(c, d)
  BY RegisterSets DEF Guest!Vmcall, Both, Typed, IsFile
<1>2. Fits("error", no) /\ Fits("shared", b)
  BY DEF Fits, Flags, Plain
<1>3. "error" \in Regs /\ "shared" \in Regs
  BY RegisterSets
<1>4. Typed(d) /\ d.error = no /\ d.shared = b
      /\ \A s \in Regs \ {"error", "shared"} : d[s] = c[s]
  <2> HIDE DEF b, no
  <2> QED BY <1>2, <1>3, TwoExcept
<1>5. Current(c) => Current(d)
  <2>1. d.tlb = c.tlb /\ d.cr3 = c.cr3
    <3> HIDE DEF d
    <3> QED BY <1>4, RegisterSets
  <2> HIDE DEF d
  <2> QED BY <2>1 DEF Current
<1>6. Sound(c, Guest!Faults(c, "#UD"))
  BY FaultsHere DEF Vectors
<1>7. Sound(c, Guest!Completes(c, d))
  <2> HIDE DEF d
  <2> QED BY <1>4, <1>5, CompletesSound
<1>8. Sound(c, Guest!Vmcall(c, i))
  <2> HIDE DEF d
  <2> QED BY <1>1, <1>6, <1>7
<1> QED BY <1>1, <1>4, <1>5, <1>8

\* Whatever the instruction: registers hold what they may, the address of the
\* next instruction is at most one further on, no translation is out of date.
LEMMA EffectSound ==
  ASSUME NEW c, Typed(c), NEW i \in InstructionForms
  PROVE  Sound(c, Guest!Effect(c, i))
<1> DEFINE e == Guest!Effect(c, i)
<1>v. {"#GP", "#UD", "#DB", "#BP", "#PF"} = Vectors
  BY DEF Vectors
<1>r. "reg" \in Regs \ {"ip", "cr3", "tlb"} /\ \A w \in DrWords \cup Levels : Fits("reg", w)
  BY RegisterSets DEF Fits, Flags, Plain
<1>g. \A w \in DrWords \cup Levels : Sound(c, Guest!Sets(c, "reg", w))
  BY <1>r, SetsSound
<1>w. Words \subseteq DrWords /\ \A r \in Plain : c[r] \in Words
  BY TypedRegisters DEF DrWords, Dr7Words
<1>p. \A r \in Plain \ {"cr3"}, w \in Words : Sound(c, Guest!Sets(c, r, w))
  <2>1. SUFFICES ASSUME NEW r \in Plain \ {"cr3"}, NEW w \in Words
                 PROVE  Sound(c, Guest!Sets(c, r, w))
    OBVIOUS
  <2>2. r \in Regs \ {"ip", "cr3"} /\ r # "tlb" /\ Fits(r, w)
    BY RegisterSets, PlainFits
  <2> QED BY <2>2, SetsSound
<1>b. \A r \in {"tf", "error"}, w \in BOOLEAN : Sound(c, Guest!Sets(c, r, w))
  <2>1. SUFFICES ASSUME NEW r \in {"tf", "error"}, NEW w \in BOOLEAN
                 PROVE  Sound(c, Guest!Sets(c, r, w))
    OBVIOUS
  <2>2. r \in Regs \ {"ip", "cr3"} /\ r # "tlb"
    BY RegisterSets
  <2>3. Fits(r, w)
    BY DEF Fits, Flags, Plain
  <2> QED BY <2>2, <2>3, SetsSound
<1>f. \A x \in Vectors : Sound(c, Guest!Faults(c, x))
  BY FaultsHere
<1>1. CASE i.op = "popf"
  <2>1. e = Guest!Sets(c, "tf", i.trap) /\ i.trap \in BOOLEAN
    BY <1>1, EffectOf, Forms
  <2> QED BY <2>1, <1>b
<1>2. CASE i.op = "touch"
  BY <1>2, EffectOf, TouchSound
<1>3. CASE i.op = "int3"
  <2> DEFINE p == [vector |-> "#BP", at |-> c.ip + 1]
  <2>1. e = [cpu |-> c, pending |-> p]
    BY <1>3, EffectOf DEF Guest!Raise
  <2>2. c.ip \in Nat
    BY TypedRegisters
  <2>3. p \in [vector : Vectors, at : Nat] /\ Guest!Resumes(p) = c.ip + 1
    BY <2>2, <1>v DEF Guest!Resumes
  <2>4. e.cpu = c /\ e.pending = p
    BY <2>1
  <2>5. Sound(c, e)
    <3> HIDE DEF p, e
    <3> QED BY <2>2, <2>3, <2>4 DEF Sound
  <2> QED BY <2>5
<1>4. CASE i.op \in {"mov_to_dr", "mov_from_dr"}
  BY <1>4, EffectOf, MovDrSound
<1>5. CASE i.op = "mov_to_cr"
  <2> DEFINE d == Both(c, Guest!CrName(i.cr), i.word, "tlb",
                       IF i.cr \in {3, 4} THEN "none" ELSE c.tlb)
  <2>1. Guest!MovToCr(c, i) = Guest!Completes(c, d)
        /\ Typed(d) /\ (Current(c) => Current(d))
    BY <1>5, MovToCrSound
  <2>2. e = Guest!MovToCr(c, i)
    BY <1>5, EffectOf
  <2> HIDE DEF d
  <2>3. Sound(c, Guest!Completes(c, d))
    BY <2>1, CompletesSound
  <2> QED BY <2>1, <2>2, <2>3
<1>6. CASE i.op = "mov_from_cr"
  <2> DEFINE w == c[Guest!CrName(i.cr)]
  <2>1. i.cr \in {3, 8} /\ i.dst \in {"reg", "sp"}
    BY <1>6, Forms
  <2>2. Guest!CrName(i.cr) = IF i.cr = 3 THEN "cr3" ELSE "cr8"
    BY <2>1 DEF Guest!CrName
  <2>3. w \in Words \cup Levels
    BY <2>2, TypedRegisters DEF Plain
  <2>4. i.dst \in Regs \ {"ip", "cr3", "tlb"} /\ Fits(i.dst, w)
    BY <2>1, <2>3, RegisterSets, <1>w DEF Fits, Flags, Plain
  <2>5. e = Guest!Sets(c, i.dst, w)
    BY <1>6, EffectOf
  <2> HIDE DEF w, e
  <2>6. Sound(c, Guest!Sets(c, i.dst, w))
    BY <2>4, SetsSound
  <2> QED BY <2>5, <2>6 DEF e
<1>7. CASE i.op \in {"rdmsr", "wrmsr"} /\ i.msr \in {"absent", "hole"}
  BY <1>7, <1>f, <1>v, EffectOf
<1>8. CASE i.op = "wrmsr" /\ i.msr \notin {"absent", "hole"}
  <2>1. i.msr \in Plain \ {"cr3"} /\ i.word \in Words
    BY <1>8, Forms, RegisterSets DEF Msrs
  <2>2. e = Guest!Sets(c, i.msr, i.word)
    BY <1>8, EffectOf
  <2> QED BY <2>1, <2>2, <1>p
<1>9. CASE i.op = "rdmsr" /\ i.msr \notin {"absent", "hole"}
  <2>1. i.msr \in Plain
    BY <1>9, Forms, RegisterSets
  <2>2. e = Guest!Sets(c, "reg", c[i.msr])
    BY <1>9, EffectOf
  <2> QED BY <2>1, <2>2, <1>g, <1>w
<1>10. CASE i.op = "load"
  <2> DEFINE d == Both(c, i.table, i.word, "busy", c.busy \/ i.table = "tr")
  <2>1. e = Guest!Completes(c, d) /\ Typed(d) /\ (Current(c) => Current(d))
    BY <1>10, LoadSound
  <2> HIDE DEF d
  <2> QED BY <2>1, CompletesSound
<1>11. CASE i.op = "store"
  <2>1. i.table \in Plain
    BY <1>11, Forms, RegisterSets
  <2>2. e = Guest!Sets(c, "reg", c[i.table])
    BY <1>11, EffectOf
  <2> QED BY <2>1, <2>2, <1>g, <1>w
<1>12. CASE i.op = "xsetbv"
  <2>1. i.word = "high" => e = Guest!Faults(c, "#GP")
    BY <1>12, EffectOf
  <2>2. i.word # "high" => e = Guest!Sets(c, "xcr0", i.word) /\ i.word \in Words
    BY <1>12, EffectOf, Forms
  <2>3. "xcr0" \in Plain \ {"cr3"}
    BY DEF Plain
  <2> QED BY <2>1, <2>2, <2>3, <1>f, <1>v, <1>p
<1>13. CASE i.op \in {"cpuid", "rdtsc"}
  <2> DEFINE w == IF i.op = "cpuid" /\ i.leaf \in Guest!VmmLeaves THEN "flag" ELSE i.word
  <2>1. w \in Words
    BY <1>13, Forms DEF Words
  <2>2. e = Guest!Sets(c, "reg", w)
    BY <1>13, EffectOf
  <2> QED BY <2>1, <2>2, <1>g, <1>w
<1>14. CASE i.op \in {"in", "out"}
  <2> DEFINE d == Put(PortWritten(c, i), "counters", Guest!Counted(c, i))
  <2>1. Guest!PortAccess(c, i) = Guest!Completes(c, d)
        /\ Typed(d) /\ (Current(c) => Current(d))
    BY <1>14, PortAccessSound
  <2>2. e = Guest!PortAccess(c, i)
    BY <1>14, EffectOf
  <2> HIDE DEF d
  <2>3. Sound(c, Guest!Completes(c, d))
    BY <2>1, CompletesSound
  <2> QED BY <2>1, <2>2, <2>3
<1>15. CASE i.op = "invlpg"
  <2>1. Fits("tlb", "none") /\ "tlb" \in Regs \ {"ip", "cr3"}
    BY RegisterSets DEF Fits, Flags, Plain
  <2>2. Sound(c, Guest!Sets(c, "tlb", "none"))
    BY <2>1, SetsSound
  <2> QED BY <1>15, <2>2, EffectOf
<1>16. CASE i.op = "invd"
  <2>1. e = Guest!Completes(c, c)
    BY <1>16, EffectOf
  <2>2. Sound(c, Guest!Completes(c, c))
    BY CompletesSound
  <2> QED BY <2>1, <2>2
<1>17. CASE i.op = "vmx"
  <2>1. Sound(c, Guest!Sets(c, "error", TRUE))
    BY <1>b
  <2> QED BY <1>17, <2>1, EffectOf
<1>18. CASE i.op = "vmcall"
  <2>1. e = Guest!Vmcall(c, i)
    BY <1>18, EffectOf
  <2>2. Sound(c, Guest!Vmcall(c, i))
    BY <1>18, VmcallSound
  <2> QED BY <2>1, <2>2
<1> QED BY <1>1, <1>2, <1>3, <1>4, <1>5, <1>6, <1>7, <1>8, <1>9, <1>10, <1>11, <1>12,
           <1>13, <1>14, <1>15, <1>16, <1>17, <1>18, Forms
-----------------------------------------------------------------------------
(* What the VMM may leave of an instruction's effect.                      *)

\* Register by register, a member of Kept.
Survives(old, i, e, new) ==
  /\ \A r \in Regs \ {"dr7", "debugctl", "sp", "reg"} : new[r] = e.cpu[r]
  /\ \/ new.dr7 = e.cpu.dr7
     \/ /\ e.pending # None /\ e.pending.vector = "#DB"
        /\ new.dr7 = Guest!WithoutGd(e.cpu.dr7)
  /\ new.debugctl \in {old.debugctl, e.cpu.debugctl}
  /\ new.sp \in {old.sp, e.cpu.sp}
  /\ \/ new.reg = e.cpu.reg
     \/ i.op = "in" /\ old.reg = "high" /\ new.reg = "high"

LEMMA SurvivesKept ==
  ASSUME NEW old, NEW i, NEW e, NEW new, IsFile(e.cpu, Regs), IsFile(new, Regs),
         Survives(old, i, e, new)
  PROVE  new \in Guest!Kept(old, i, e)
<1> DEFINE d == new.dr7
           m == new.debugctl
           s == new.sp
           g == new.reg
           f == Guest!With(e.cpu, d, m, s, g)
<1>1. {"dr7", "debugctl", "sp", "reg"} \subseteq Regs
  BY RegisterSets
<1>2. IsFile(f, Regs)
  BY DEF IsFile, Guest!With
<1>3. \A r \in Regs : f[r] = new[r]
  BY <1>1 DEF IsFile, Survives, Guest!With
<1>4. f = new
  <2> HIDE DEF f
  <2> QED BY <1>2, <1>3, SameFile
<1>5. /\ d \in {e.cpu.dr7} \cup (IF e.pending # None /\ e.pending.vector = "#DB"
                                THEN {Guest!WithoutGd(e.cpu.dr7)} ELSE {})
      /\ m \in {old.debugctl, e.cpu.debugctl}
      /\ s \in {old.sp, e.cpu.sp}
      /\ g \in {e.cpu.reg} \cup (IF i.op = "in" /\ old.reg = "high" THEN {"high"} ELSE {})
  BY DEF Survives
<1>6. f \in Guest!Kept(old, i, e)
  <2> HIDE DEF d, m, s, g
  <2> QED BY <1>5 DEF Guest!Kept
<1> QED BY <1>4, <1>6

LEMMA SurvivesSound ==
  ASSUME NEW old, NEW i, NEW e, NEW new, Typed(old), Sound(old, e), IsFile(new, Regs),
         Survives(old, i, e, new)
  PROVE  /\ Typed(new)
         /\ new.ip = e.cpu.ip /\ new.cr8 = e.cpu.cr8
         /\ Current(old) => Current(new)
<1> DEFINE c == e.cpu
<1>1. Typed(c)
  BY DEF Sound
<1>2. \A r \in Regs \ {"dr7", "debugctl", "sp", "reg"} : new[r] = c[r]
  BY DEF Survives
<1>3. new.dr7 \in Dr7Words
  <2>1. c.dr7 \in Dr7Words
    BY <1>1, TypedRegisters
  <2> QED BY <2>1 DEF Survives, Guest!WithoutGd, Dr7Words, Words
<1>4. new.debugctl \in Words
  <2>1. old.debugctl \in Words /\ c.debugctl \in Words
    BY <1>1, TypedRegisters DEF Plain
  <2> QED BY <2>1 DEF Survives
<1>5. new.sp \in DrWords \cup Levels \cup {"stack"}
  <2>1. {old.sp, c.sp} \subseteq DrWords \cup Levels \cup {"stack"}
    BY <1>1, TypedRegisters
  <2> QED BY <2>1 DEF Survives
<1>6. new.reg \in DrWords \cup Levels
  <2>1. c.reg \in DrWords \cup Levels
    BY <1>1, TypedRegisters
  <2> QED BY <2>1 DEF Survives, Levels
<1>7. Fits("dr7", new.dr7) /\ Fits("debugctl", new.debugctl) /\ Fits("sp", new.sp)
      /\ Fits("reg", new.reg)
  BY <1>3, <1>4, <1>5, <1>6 DEF Fits, Flags, Plain
<1>8. \A r \in Regs : Fits(r, new[r])
  <2>1. ASSUME NEW r \in Regs PROVE Fits(r, new[r])
    <3>1. CASE r \in {"dr7", "debugctl", "sp", "reg"}
      BY <3>1, <1>7
    <3>2. CASE r \notin {"dr7", "debugctl", "sp", "reg"}
      BY <3>2, <1>2, <1>1 DEF Typed
    <3> QED BY <3>1, <3>2
  <2> QED BY <2>1
<1>9. new.ip = c.ip /\ new.cr8 = c.cr8 /\ new.tlb = c.tlb /\ new.cr3 = c.cr3
  BY <1>2, RegisterSets
<1>10. Current(old) => Current(c)
  BY DEF Sound
<1> HIDE DEF c
<1> QED BY <1>8, <1>9, <1>10 DEF Typed, Current, c
-----------------------------------------------------------------------------
(* Handlers.                                                               *)

LEMMA HostViewAt ==
  ASSUME NEW h, NEW v, NEW cr8
  PROVE  /\ IsFile(HostView(h, v, cr8), Regs)
         /\ \A r \in InVmcs : HostView(h, v, cr8)[r] = v[r]
         /\ HostView(h, v, cr8).cr8 = cr8
         /\ \A r \in Regs \ (InVmcs \cup {"cr8"}) : HostView(h, v, cr8)[r] = h[r]
<1>1. InVmcs \subseteq Regs /\ "cr8" \in Regs /\ "cr8" \notin InVmcs
  BY Names, RegisterSets DEF InVmcs, Debug
<1> QED BY <1>1 DEF HostView, IsFile

\* What a handler finds.
LEMMA RootState ==
  ASSUME VmExitInv, mode = "root"
  PROVE  /\ View = HostView(hw, vmcs, guest_cr8)
         /\ Typed(View) /\ Current(View) /\ View.ip <= steps
         /\ ViewPending = None /\ inject = None /\ Power = "on"
         /\ exit \in Instructions /\ exit \in InstructionForms
         /\ Sound(View, Guest!Effect(View, exit))
<1> USE DEF VmExitInv
<1>1. View = HostView(hw, vmcs, guest_cr8)
  BY ViewIs DEF FileOK, InHost
<1>2. Typed(View)
  <2>1. IsFile(View, Regs)
    BY <1>1, HostViewAt
  <2>2. ASSUME NEW r \in Regs PROVE Fits(r, View[r])
    <3>1. CASE r \in InVmcs
      <4>1. View[r] = vmcs[r]
        BY <3>1, <1>1, HostViewAt
      <4> QED BY <3>1, <4>1 DEF FileOK
    <3>2. CASE r = "cr8"
      <4>1. View[r] = guest_cr8 /\ guest_cr8 \in Levels
        BY <3>2, <1>1, HostViewAt DEF OtherOK
      <4> QED BY <3>2, <4>1 DEF Fits, Flags, Plain
    <3>3. CASE r \notin InVmcs \cup {"cr8"}
      <4>1. View[r] = hw[r]
        BY <3>3, <1>1, HostViewAt
      <4>2. r \notin HostOwned
        BY <3>3, Names
      <4> QED BY <4>1, <4>2 DEF FileOK
    <3> QED BY <3>1, <3>2, <3>3
  <2> QED BY <2>1, <2>2 DEF Typed
<1>3. Current(View)
  BY DEF ModeOK, Current
<1>4. View.ip <= steps
  <2>1. View.ip = vmcs.ip
    BY <1>1, HostViewAt DEF InVmcs
  <2> QED BY <2>1 DEF IpOK
<1>5. ViewPending = None /\ inject = None
  BY DEF ViewPending, EventOK
<1>6. Power = "on"
  BY PowerIs
<1>7. exit \in Instructions /\ exit \in InstructionForms
  BY GuestAssumption DEF ExitOK
<1>8. Sound(View, Guest!Effect(View, exit))
  BY <1>2, <1>7, EffectSound
<1> QED BY <1>1, <1>2, <1>3, <1>4, <1>5, <1>6, <1>7, <1>8

\* A handler that leaves the guest what the instruction would have left it.
LEMMA HandlerStep ==
  ASSUME VmExitInv, mode = "root", ~Terminates, mode' = "handled", last' = exit,
         UNCHANGED <<controls, exit, gp_regs, pending, steps>>,
         IsFile(hw', Regs), IsFile(vmcs', InVmcs),
         \A r \in InVmcs \cup {"cr8"} : hw'[r] = hw[r],
         entryLen' \in 0 .. 1,
         inject' = None \/ inject' \in [vector : Vectors, software : BOOLEAN],
         Survives(View, exit, Guest!Effect(View, exit), HostView(hw', vmcs', guest_cr8')),
         Injected' = Guest!Effect(View, exit).pending
  PROVE  VmExitInv' /\ Guest!Execute(exit)
<1> DEFINE c == View
           e == Guest!Effect(View, exit)
           new == HostView(hw', vmcs', guest_cr8')
<1>0. Survives(c, exit, e, new)
  OBVIOUS
<1>1. /\ c = HostView(hw, vmcs, guest_cr8)
      /\ Typed(c) /\ Current(c) /\ c.ip <= steps
      /\ ViewPending = None /\ Power = "on"
      /\ exit \in Instructions /\ exit \in InstructionForms /\ Sound(c, e)
  BY RootState
<1>2. View' = new
  BY ViewIsNext DEF InHost
<1>3. IsFile(new, Regs)
  BY HostViewAt
<1>4. Typed(new) /\ new.ip = e.cpu.ip /\ Current(new)
  <2> HIDE DEF c, e, new
  <2> QED BY <1>0, <1>1, <1>3, SurvivesSound
<1>5. IsFile(e.cpu, Regs)
  BY <1>1 DEF Sound, Typed
<1>6. new \in Guest!Kept(c, exit, e)
  <2> HIDE DEF c, e, new
  <2> QED BY <1>0, <1>3, <1>5, SurvivesKept
<1>7. Guest!Execute(exit)
  <2>1. Power' = "on"
    BY PowerIsNext
  <2>2. ~Guest!Leaves(exit)
    BY DEF Terminates, Guest!Leaves
  <2>3. ViewPending' = e.pending
    BY DEF ViewPending
  <2> QED BY <1>1, <1>2, <1>6, <2>1, <2>2, <2>3 DEF Guest!Execute
<1>8. /\ \A r \in InVmcs : new[r] = vmcs'[r]
      /\ new.cr8 = guest_cr8'
      /\ \A r \in Regs \ (InVmcs \cup {"cr8"}) : new[r] = hw'[r]
  BY HostViewAt
<1>9. FileOK'
  <2>1. ASSUME NEW r \in Regs
        PROVE  Fits(r, hw'[r]) \/ (r \in HostOwned /\ hw'[r] = "host")
    <3>1. CASE r \in InVmcs \cup {"cr8"}
      BY <3>1 DEF VmExitInv, FileOK
    <3>2. CASE r \notin InVmcs \cup {"cr8"}
      <4>1. hw'[r] = new[r]
        BY <3>2, <1>8
      <4> HIDE DEF new
      <4> QED BY <4>1, <1>4 DEF Typed
    <3> QED BY <3>1, <3>2
  <2>2. ASSUME NEW r \in InVmcs PROVE Fits(r, vmcs'[r])
    <3>1. r \in Regs
      BY Names
    <3> HIDE DEF new
    <3> QED BY <1>8, <1>4, <3>1 DEF Typed
  <2> QED BY <2>1, <2>2 DEF FileOK, Starting
<1>10. EventOK'
  BY DEF VmExitInv, EventOK
<1>11. ExitOK'
  BY DEF VmExitInv, ExitOK
<1>12. IpOK'
  <2>1. vmcs'.ip = new.ip /\ hw'.ip = hw.ip
    BY <1>8 DEF InVmcs
  <2>2. vmcs'.ip <= steps + 1 /\ vmcs'.ip \in Nat
    <3>1. new.ip \in Nat /\ c.ip \in Nat /\ steps \in Nat
      <4> HIDE DEF new, c
      <4> QED BY <1>1, <1>4, TypedRegisters, GuestAssumption DEF VmExitInv, IpOK
    <3>2. e.cpu.ip <= c.ip + 1
      BY <1>1 DEF Sound
    <3> HIDE DEF new, c, e
    <3> QED BY <1>1, <1>4, <2>1, <3>1, <3>2
  <2>3. inject' # None => Guest!Resumes(Injected') <= steps + 1
    <3>1. SUFFICES ASSUME inject' # None PROVE Guest!Resumes(Injected') <= steps + 1
      OBVIOUS
    <3>2. Injected' \in [vector : Vectors, at : Nat]
      BY <2>2, <3>1 DEF Injected
    <3>3. e.pending # None
      BY <3>2, GuestAssumption
    <3>4. e.pending \in [vector : Vectors, at : Nat] /\ Guest!Resumes(e.pending) <= c.ip + 1
      BY <3>3, <1>1 DEF Sound
    <3>5. Guest!Resumes(e.pending) \in Nat
      BY <3>4 DEF Guest!Resumes
    <3>6. c.ip \in Nat /\ steps \in Nat
      <4> HIDE DEF c
      <4> QED BY <1>1, TypedRegisters, GuestAssumption DEF VmExitInv, IpOK
    <3>7. Injected' = e.pending
      OBVIOUS
    <3>8. Guest!Resumes(e.pending) <= steps + 1
      <4> HIDE DEF e, c
      <4> QED BY <1>1, <3>4, <3>5, <3>6
    <3> QED BY <3>7, <3>8
  <2>4. pending' = None
    BY DEF VmExitInv, EventOK
  <2> QED BY <2>1, <2>2, <2>3, <2>4 DEF VmExitInv, IpOK, Starting
<1>13. ModeOK'
  <2>1. View'.tlb \in {"none", View'.cr3}
    BY <1>2, <1>4 DEF Current
  <2> QED BY <2>1 DEF ModeOK, Starting
<1>14. OtherOK'
  <2>1. guest_cr8' \in Levels
    <3>1. new.cr8 \in Levels
      <4> HIDE DEF new
      <4> QED BY <1>4, TypedRegisters
    <3> QED BY <3>1, <1>8
  <2> QED BY <2>1, <1>1 DEF VmExitInv, OtherOK
<1> QED BY <1>7, <1>9, <1>10, <1>11, <1>12, <1>13, <1>14 DEF VmExitInv

\* Register by register, what a handler has made of a completed instruction
\* before it moves the instruction pointer on.
Agrees(old, i, d, new) ==
  /\ \A r \in Regs \ {"ip", "debugctl", "sp", "reg"} : new[r] = d[r]
  /\ new.debugctl \in {old.debugctl, d.debugctl}
  /\ new.sp \in {old.sp, d.sp}
  /\ \/ new.reg = d.reg
     \/ i.op = "in" /\ old.reg = "high" /\ new.reg = "high"

\* The handlers that complete the instruction.
LEMMA AdvanceStep ==
  ASSUME VmExitInv, NEW ops, VmmpHandleVmExit(ops), ~Terminates,
         NEW d, Typed(d), Current(View) => Current(d),
         Guest!Effect(View, exit) = Guest!Completes(View, d),
         NEW v, IsFile(v, InVmcs), VmmpAdjustGuestInstructionPointer(v),
         IsFile(hw', Regs), \A r \in InVmcs \cup {"cr8"} : hw'[r] = hw[r],
         Agrees(View, exit, d, HostView(hw', v, guest_cr8'))
  PROVE  VmExitInv' /\ Guest!Execute(exit)
<1> DEFINE c == View
           e == Guest!Effect(View, exit)
           new == HostView(hw', vmcs', guest_cr8')
           new0 == HostView(hw', v, guest_cr8')
<1>1. /\ mode = "root" /\ mode' = "handled" /\ last' = exit
      /\ UNCHANGED <<controls, exit, gp_regs, pending, steps>>
  BY DEF VmmpHandleVmExit
<1>2. /\ c = HostView(hw, vmcs, guest_cr8) /\ Typed(c) /\ Current(c)
      /\ inject = None
  BY <1>1, RootState
<1>3. c.ip = vmcs.ip /\ c.tf = vmcs.tf /\ c.ip \in Nat
  <2>1. c.ip = vmcs.ip /\ c.tf = vmcs.tf
    BY <1>2, HostViewAt DEF InVmcs
  <2>2. c.ip \in Nat
    <3> HIDE DEF c
    <3> QED BY <1>2, TypedRegisters
  <2> QED BY <2>1, <2>2
<1>4. /\ e.cpu.ip = c.ip + 1
      /\ e.pending = IF c.tf THEN [vector |-> "#DB", at |-> c.ip + 1] ELSE None
      /\ \A q \in Regs \ {"ip"} : e.cpu[q] = d[q]
  <2>1. /\ Guest!Completes(c, d).cpu.ip = c.ip + 1
        /\ Guest!Completes(c, d).pending =
             IF c.tf THEN [vector |-> "#DB", at |-> c.ip + 1] ELSE None
        /\ \A q \in Regs \ {"ip"} : Guest!Completes(c, d).cpu[q] = d[q]
    <3>1. Current(c) => Current(d)
      OBVIOUS
    <3> HIDE DEF c
    <3> QED BY <1>2, <3>1, CompletesSound
  <2> QED BY <2>1
<1>5. /\ IsFile(vmcs', InVmcs) /\ vmcs'.ip = c.ip + 1
      /\ \A r \in InVmcs \ {"ip"} : vmcs'[r] = v[r]
  <2>1. vmcs' = [v EXCEPT !["ip"] = vmcs.ip + 1] /\ "ip" \in InVmcs
    BY DEF VmmpAdjustGuestInstructionPointer, InVmcs
  <2> QED BY <2>1, <1>3 DEF IsFile
<1>6. new.ip = c.ip + 1 /\ \A r \in Regs \ {"ip"} : new[r] = new0[r]
  <2>1. "ip" \in InVmcs
    BY DEF InVmcs
  <2>2. ASSUME NEW r \in Regs \ {"ip"} PROVE new[r] = new0[r]
    <3>1. CASE r \in InVmcs
      BY <3>1, <1>5, HostViewAt
    <3>2. CASE r = "cr8"
      BY <3>2, HostViewAt
    <3>3. CASE r \notin InVmcs \cup {"cr8"}
      BY <3>3, HostViewAt
    <3> QED BY <3>1, <3>2, <3>3
  <2>3. new.ip = c.ip + 1
    BY <1>5, <2>1, HostViewAt
  <2> QED BY <2>2, <2>3
<1>7. Survives(c, exit, e, new)
  <2>1. Agrees(c, exit, d, new0)
    OBVIOUS
  <2> HIDE DEF c, e, new, new0
  <2>2. \A r \in Regs \ {"dr7", "debugctl", "sp", "reg"} : new[r] = e.cpu[r]
    BY <1>4, <1>6, <2>1 DEF Agrees
  <2>3. new.dr7 = e.cpu.dr7
    BY <1>4, <1>6, <2>1, RegisterSets DEF Agrees
  <2>4. new.debugctl \in {c.debugctl, e.cpu.debugctl} /\ new.sp \in {c.sp, e.cpu.sp}
        /\ (new.reg = e.cpu.reg \/ (exit.op = "in" /\ c.reg = "high" /\ new.reg = "high"))
    BY <1>4, <1>6, <2>1, RegisterSets DEF Agrees
  <2> QED BY <2>2, <2>3, <2>4 DEF Survives
<1>8. /\ entryLen' \in 0 .. 1
      /\ inject' = None \/ inject' \in [vector : Vectors, software : BOOLEAN]
      /\ Injected' = e.pending
  <2>1. CASE vmcs.tf
    <3>1. inject' = [vector |-> "#DB", software |-> FALSE] /\ entryLen' = 1
      BY <2>1 DEF VmmpAdjustGuestInstructionPointer, VmmpInjectInterruption
    <3>2. inject' \in [vector : Vectors, software : BOOLEAN]
      BY <3>1 DEF Vectors
    <3>5. inject' # None /\ inject'.vector = "#DB" /\ inject'.software = FALSE
      BY <3>1, <3>2, GuestAssumption
    <3>6. vmcs'.ip + 0 = vmcs'.ip
      <4>1. vmcs'.ip \in Nat
        BY <1>3, <1>5
      <4> QED BY <4>1
    <3>3. Injected' = [vector |-> "#DB", at |-> vmcs'.ip]
      BY <3>5, <3>6 DEF Injected
    <3>4. e.pending = [vector |-> "#DB", at |-> c.ip + 1]
      BY <2>1, <1>3, <1>4
    <3> QED BY <3>1, <3>2, <3>3, <3>4, <1>5
  <2>2. CASE ~vmcs.tf
    <3>1. inject' = None /\ entryLen' = entryLen
      BY <2>2, <1>2 DEF VmmpAdjustGuestInstructionPointer
    <3>2. e.pending = None
      BY <2>2, <1>3, <1>4
    <3> QED BY <3>1, <3>2 DEF Injected, VmExitInv, EventOK
  <2> QED BY <2>1, <2>2
<1> QED BY <1>1, <1>5, <1>7, <1>8, HandlerStep

\* The handlers that refuse it: the instruction pointer stays.
LEMMA RefuseStep ==
  ASSUME VmExitInv, NEW ops, VmmpHandleVmExit(ops), ~Terminates,
         NEW vector \in Vectors, NEW software \in BOOLEAN,
         VmmpInjectInterruption(vector, software), entryLen' \in 0 .. 1,
         Guest!Effect(View, exit).pending =
           [vector |-> vector, at |-> vmcs.ip + IF software THEN entryLen' ELSE 0],
         IsFile(vmcs', InVmcs), vmcs'.ip = vmcs.ip,
         IsFile(hw', Regs), \A r \in InVmcs \cup {"cr8"} : hw'[r] = hw[r],
         Survives(View, exit, Guest!Effect(View, exit), HostView(hw', vmcs', guest_cr8'))
  PROVE  VmExitInv' /\ Guest!Execute(exit)
<1>1. /\ mode = "root" /\ mode' = "handled" /\ last' = exit
      /\ UNCHANGED <<controls, exit, gp_regs, pending, steps>>
  BY DEF VmmpHandleVmExit
<1>2. inject' = [vector |-> vector, software |-> software]
  BY DEF VmmpInjectInterruption
<1>3. inject' \in [vector : Vectors, software : BOOLEAN]
  BY <1>2
<1>4. inject' # None /\ inject'.vector = vector /\ inject'.software = software
  BY <1>2, <1>3, GuestAssumption
<1>5. Injected' = [vector |-> vector, at |-> vmcs.ip + IF software THEN entryLen' ELSE 0]
  BY <1>4 DEF Injected
<1> QED BY <1>1, <1>3, <1>5, HandlerStep

LEMMA PutFile ==
  ASSUME NEW S, NEW f, IsFile(f, S), NEW r \in S, NEW w
  PROVE  /\ IsFile(Put(f, r, w), S) /\ Put(f, r, w)[r] = w
         /\ \A q \in S \ {r} : Put(f, r, w)[q] = f[q]
BY DEF IsFile, Put

LEMMA PutTyped ==
  ASSUME NEW c, Typed(c), NEW r \in Regs, NEW w, Fits(r, w)
  PROVE  /\ Typed(Put(c, r, w)) /\ Put(c, r, w)[r] = w
         /\ \A q \in Regs \ {r} : Put(c, r, w)[q] = c[q]
         /\ r \notin {"tlb", "cr3"} /\ Current(c) => Current(Put(c, r, w))
<1> DEFINE d == Put(c, r, w)
<1>1. Typed(d) /\ d[r] = w /\ \A q \in Regs \ {r} : d[q] = c[q]
  BY TypedExcept DEF Put
<1>2. r \notin {"tlb", "cr3"} /\ Current(c) => Current(d)
  <2> HIDE DEF d
  <2> QED BY <1>1, RegisterSets DEF Current
<1> QED BY <1>1, <1>2

LEMMA SetsIs ==
  ASSUME NEW c, NEW r, NEW w
  PROVE  Guest!Sets(c, r, w) = Guest!Completes(c, Put(c, r, w))
BY DEF Guest!Sets, Put

\* A register changed where it is kept is changed in the view.
LEMMA HostViewPutHw ==
  ASSUME NEW h, IsFile(h, Regs), NEW v, IsFile(v, InVmcs), NEW cr8,
         NEW r \in Regs \ (InVmcs \cup {"cr8"}), NEW w
  PROVE  HostView(Put(h, r, w), v, cr8) = Put(HostView(h, v, cr8), r, w)
<1>0. InVmcs \subseteq Regs /\ "cr8" \in Regs /\ "cr8" \notin InVmcs
  BY Names, RegisterSets DEF InVmcs, Debug
<1>1. /\ IsFile(HostView(Put(h, r, w), v, cr8), Regs)
      /\ IsFile(Put(HostView(h, v, cr8), r, w), Regs)
  BY <1>0, HostViewAt, PutFile
<1>2. \A q \in Regs : HostView(Put(h, r, w), v, cr8)[q] = Put(HostView(h, v, cr8), r, w)[q]
  BY <1>0 DEF HostView, Put, IsFile
<1> QED BY <1>1, <1>2, SameFile

LEMMA HostViewPutVmcs ==
  ASSUME NEW h, IsFile(h, Regs), NEW v, IsFile(v, InVmcs), NEW cr8,
         NEW r \in InVmcs, NEW w
  PROVE  HostView(h, Put(v, r, w), cr8) = Put(HostView(h, v, cr8), r, w)
<1>0. InVmcs \subseteq Regs /\ "cr8" \in Regs /\ "cr8" \notin InVmcs
  BY Names, RegisterSets DEF InVmcs, Debug
<1>1. IsFile(HostView(h, Put(v, r, w), cr8), Regs) /\ IsFile(Put(HostView(h, v, cr8), r, w), Regs)
  BY <1>0, HostViewAt, PutFile
<1>2. \A q \in Regs : HostView(h, Put(v, r, w), cr8)[q] = Put(HostView(h, v, cr8), r, w)[q]
  BY <1>0 DEF HostView, Put, IsFile
<1> QED BY <1>1, <1>2, SameFile

LEMMA HostViewPutCr8 ==
  ASSUME NEW h, IsFile(h, Regs), NEW v, IsFile(v, InVmcs), NEW cr8,
         NEW w
  PROVE  HostView(h, v, w) = Put(HostView(h, v, cr8), "cr8", w)
<1>0. InVmcs \subseteq Regs /\ "cr8" \in Regs /\ "cr8" \notin InVmcs
  BY Names, RegisterSets DEF InVmcs, Debug
<1>1. IsFile(HostView(h, v, w), Regs) /\ IsFile(Put(HostView(h, v, cr8), "cr8", w), Regs)
  BY <1>0, HostViewAt, PutFile
<1>2. \A q \in Regs : HostView(h, v, w)[q] = Put(HostView(h, v, cr8), "cr8", w)[q]
  BY <1>0 DEF HostView, Put, IsFile
<1> QED BY <1>1, <1>2, SameFile

\* Where the registers a handler changes are kept.
LEMMA KeptWhere ==
  /\ {"reg", "xcr0", "outside", "plain", "cr2", "dr0", "dr6", "tlb", "busy", "shared",
      "port", "memory", "counters"} \subseteq Regs \ (InVmcs \cup {"cr8"})
  /\ InVmcs \subseteq Regs /\ "cr8" \in Regs \ InVmcs
  /\ {"ip", "sp", "tf", "error", "dr7", "cr0", "cr3", "cr4", "sysenter", "debugctl"}
       \cup Tables \subseteq InVmcs
BY Names, RegisterSets DEF InVmcs, Debug, Tables

\* A handler that does to the view what the instruction does.
LEMMA CompleteStep ==
  ASSUME VmExitInv, NEW ops, VmmpHandleVmExit(ops), ~Terminates,
         NEW d, Typed(d), Current(View) => Current(d),
         Guest!Effect(View, exit) = Guest!Completes(View, d),
         NEW v, IsFile(v, InVmcs), VmmpAdjustGuestInstructionPointer(v),
         IsFile(hw', Regs), \A r \in InVmcs \cup {"cr8"} : hw'[r] = hw[r],
         HostView(hw', v, guest_cr8') = d
  PROVE  VmExitInv' /\ Guest!Execute(exit)
<1>1. Agrees(View, exit, d, d)
  BY DEF Agrees
<1>2. Agrees(View, exit, d, HostView(hw', v, guest_cr8'))
  BY <1>1
<1> HIDE DEF VmExitInv
<1> QED BY <1>2, AdvanceStep

\* ... that keeps to the registers of the processor or of the VMCS.
LEMMA PutStep ==
  ASSUME VmExitInv, NEW ops, VmmpHandleVmExit(ops), ~Terminates,
         NEW r \in Regs \ {"ip", "cr3", "tlb", "cr8"}, NEW w, Fits(r, w),
         Guest!Effect(View, exit) = Guest!Sets(View, r, w),
         guest_cr8' = guest_cr8,
         NEW v, VmmpAdjustGuestInstructionPointer(v),
         \/ r \in InVmcs /\ v = Put(vmcs, r, w) /\ hw' = hw
         \/ r \notin InVmcs /\ v = vmcs /\ hw' = Put(hw, r, w)
  PROVE  VmExitInv' /\ Guest!Execute(exit)
<1> DEFINE d == Put(View, r, w)
<1>1. mode = "root"
  BY DEF VmmpHandleVmExit
<1>2. View = HostView(hw, vmcs, guest_cr8) /\ Typed(View)
  BY <1>1, RootState
<1>3. Typed(d) /\ (Current(View) => Current(d))
  BY <1>2, PutTyped
<1>4. Guest!Effect(View, exit) = Guest!Completes(View, d)
  BY SetsIs
<1>5. IsFile(hw, Regs) /\ IsFile(vmcs, InVmcs)
  BY DEF VmExitInv, FileOK
<1>6. HostView(hw', v, guest_cr8') = d
  BY <1>2, <1>5, KeptWhere, HostViewPutHw, HostViewPutVmcs
<1>7. /\ IsFile(v, InVmcs) /\ IsFile(hw', Regs)
      /\ \A q \in InVmcs \cup {"cr8"} : hw'[q] = hw[q]
  BY <1>5, KeptWhere, PutFile
<1> HIDE DEF d
<1> QED BY <1>3, <1>4, <1>6, <1>7, CompleteStep

LEMMA CpuidStep ==
  ASSUME VmExitInv, VmmpHandleCpuid
  PROVE  VmExitInv' /\ Guest!Execute(exit)
<1> DEFINE w == IF exit.leaf \in Guest!VmmLeaves THEN "flag" ELSE exit.word
<1>1. /\ VmmpHandleVmExit({"cpuid"}) /\ mode = "root" /\ exit.op = "cpuid"
      /\ hw' = Put(hw, "reg", w) /\ VmmpAdjustGuestInstructionPointer(vmcs)
      /\ guest_cr8' = guest_cr8
  BY DEF VmmpHandleCpuid, VmmpHandleVmExit, Put
<1>2. exit \in InstructionForms
  BY <1>1, RootState
<1>3. Guest!Effect(View, exit) = Guest!Sets(View, "reg", w)
  BY <1>1, <1>2, EffectOf
<1>4. Fits("reg", w)
  <2>1. w \in Words
    BY <1>1, <1>2, Forms DEF Words
  <2> QED BY <2>1 DEF Fits, Flags, Plain, DrWords, Dr7Words
<1>5. "reg" \in Regs \ {"ip", "cr3", "tlb", "cr8"} /\ "reg" \notin InVmcs
  BY KeptWhere
<1>6. ~Terminates
  BY <1>1 DEF Terminates
<1> HIDE DEF w
<1> QED BY <1>1, <1>3, <1>4, <1>5, <1>6, PutStep

LEMMA RdtscStep ==
  ASSUME VmExitInv, VmmpHandleRdtsc
  PROVE  VmExitInv' /\ Guest!Execute(exit)
<1>1. /\ VmmpHandleVmExit({"rdtsc"}) /\ mode = "root" /\ exit.op = "rdtsc"
      /\ hw' = Put(hw, "reg", exit.word) /\ VmmpAdjustGuestInstructionPointer(vmcs)
      /\ guest_cr8' = guest_cr8
  BY DEF VmmpHandleRdtsc, VmmpHandleVmExit, Put
<1>2. exit \in InstructionForms
  BY <1>1, RootState
<1>3. Guest!Effect(View, exit) = Guest!Sets(View, "reg", exit.word)
  BY <1>1, <1>2, EffectOf
<1>4. Fits("reg", exit.word)
  <2>1. exit.word \in Words
    BY <1>1, <1>2, Forms
  <2> QED BY <2>1 DEF Fits, Flags, Plain, DrWords, Dr7Words
<1>5. "reg" \in Regs \ {"ip", "cr3", "tlb", "cr8"} /\ "reg" \notin InVmcs
  BY KeptWhere
<1>6. ~Terminates
  BY <1>1 DEF Terminates
<1> QED BY <1>1, <1>3, <1>4, <1>5, <1>6, PutStep

LEMMA XsetbvStep ==
  ASSUME VmExitInv, VmmpHandleXsetbv
  PROVE  VmExitInv' /\ Guest!Execute(exit)
<1>1. /\ VmmpHandleVmExit({"xsetbv"}) /\ mode = "root" /\ exit.op = "xsetbv"
      /\ exit.word # "high"
      /\ hw' = Put(hw, "xcr0", exit.word) /\ VmmpAdjustGuestInstructionPointer(vmcs)
      /\ guest_cr8' = guest_cr8
  BY DEF VmmpHandleXsetbv, VmmpHandleVmExit, Put, HostFaults, Guest!Fatal
<1>2. exit \in InstructionForms
  BY <1>1, RootState
<1>3. Guest!Effect(View, exit) = Guest!Sets(View, "xcr0", exit.word)
  BY <1>1, <1>2, EffectOf
<1>4. Fits("xcr0", exit.word)
  <2>1. exit.word \in Words
    BY <1>1, <1>2, Forms
  <2> QED BY <2>1 DEF Fits, Flags, Plain
<1>5. "xcr0" \in Regs \ {"ip", "cr3", "tlb", "cr8"} /\ "xcr0" \notin InVmcs
  BY KeptWhere
<1>6. ~Terminates
  BY <1>1 DEF Terminates
<1> QED BY <1>1, <1>3, <1>4, <1>5, <1>6, PutStep

\* RDMSR looks where the guest's value is; the only writes that exit are to
\* MSRs without a field.
LEMMA MsrAccessStep ==
  ASSUME VmExitInv, VmmpHandleMsrAccess
  PROVE  VmExitInv' /\ Guest!Execute(exit)
<1>1. /\ VmmpHandleVmExit({"rdmsr", "wrmsr"}) /\ mode = "root"
      /\ exit.op \in {"rdmsr", "wrmsr"} /\ Exits(exit)
      /\ exit.msr # "absent" /\ guest_cr8' = guest_cr8
  BY DEF VmmpHandleMsrAccess, VmmpHandleVmExit, HostFaults, Guest!Fatal
<1>2. exit \in InstructionForms /\ View = HostView(hw, vmcs, guest_cr8) /\ Typed(View)
  BY <1>1, RootState
<1>6. ~Terminates
  BY <1>1 DEF Terminates
<1>3. exit.op = "rdmsr" => exit.msr \in {"sysenter", "debugctl", "plain", "outside"}
  <2>1. exit.op = "rdmsr" => exit.msr # "hole" /\ exit.msr \in Msrs
    BY <1>1, <1>2, Forms DEF Exits
  <2> QED BY <2>1, <1>1 DEF Msrs
<1>4. exit.op = "wrmsr" => exit.msr = "outside"
  BY <1>1 DEF Exits
<1>5. CASE exit.op = "rdmsr"
  <2> DEFINE w == IF exit.msr \in InVmcs THEN vmcs[exit.msr] ELSE hw[exit.msr]
  <2>1. hw' = Put(hw, "reg", w) /\ VmmpAdjustGuestInstructionPointer(vmcs)
    BY <1>5 DEF VmmpHandleMsrAccess, Put
  <2>2. Guest!Effect(View, exit) = Guest!Sets(View, "reg", View[exit.msr])
    BY <1>5, <1>2, <1>3, EffectOf
  <2>3. w = View[exit.msr]
    <3>1. exit.msr \in Regs /\ exit.msr # "cr8"
      BY <1>5, <1>3, KeptWhere
    <3> QED BY <3>1, <1>2, HostViewAt
  <2>4. Fits("reg", w)
    <3>1. exit.msr \in Plain
      BY <1>5, <1>3 DEF Plain
    <3>2. w \in Words
      BY <2>3, <3>1, <1>2, TypedRegisters
    <3> QED BY <3>2 DEF Fits, Flags, Plain, DrWords, Dr7Words
  <2>5. "reg" \in Regs \ {"ip", "cr3", "tlb", "cr8"} /\ "reg" \notin InVmcs
    BY KeptWhere
  <2>6. Guest!Effect(View, exit) = Guest!Sets(View, "reg", w)
    BY <2>2, <2>3
  <2> HIDE DEF w
  <2> QED BY <1>1, <1>6, <2>1, <2>4, <2>5, <2>6, PutStep
<1>7. CASE exit.op = "wrmsr"
  <2>1. "outside" \in Regs \ {"ip", "cr3", "tlb", "cr8"} /\ "outside" \notin InVmcs
    BY KeptWhere
  <2>2. hw' = Put(hw, "outside", exit.word) /\ VmmpAdjustGuestInstructionPointer(vmcs)
    BY <1>7, <1>4, <2>1 DEF VmmpHandleMsrAccess, Put
  <2>3. Guest!Effect(View, exit) = Guest!Sets(View, "outside", exit.word)
    BY <1>7, <1>2, <1>4, EffectOf
  <2>4. Fits("outside", exit.word)
    <3>1. exit.word \in Words
      BY <1>7, <1>2, Forms
    <3> QED BY <3>1 DEF Fits, Flags, Plain
  <2> QED BY <1>1, <1>6, <2>1, <2>2, <2>3, <2>4, PutStep
<1> QED BY <1>1, <1>5, <1>7

\* What TABLE the selector or the descriptor table register is loaded with.
LEMMA GdtrOrIdtrStep ==
  ASSUME VmExitInv, VmmpHandleGdtrOrIdtrAccess
  PROVE  VmExitInv' /\ Guest!Execute(exit)
<1>1. /\ VmmpHandleVmExit({"load", "store"}) /\ mode = "root"
      /\ exit.op \in {"load", "store"} /\ exit.table \in {"gdtr", "idtr"}
      /\ guest_cr8' = guest_cr8
  BY DEF VmmpHandleGdtrOrIdtrAccess, VmmpHandleVmExit
<1>2. exit \in InstructionForms /\ View = HostView(hw, vmcs, guest_cr8) /\ Typed(View)
  BY <1>1, RootState
<1>3. ~Terminates
  BY <1>1 DEF Terminates
<1>4. exit.table \in InVmcs /\ exit.table \in Plain /\ exit.table \in Regs
  BY <1>1, KeptWhere, RegisterSets DEF Tables
<1>5. CASE exit.op = "store"
  <2>1. /\ hw' = Put(hw, "reg", vmcs[exit.table])
        /\ VmmpAdjustGuestInstructionPointer(vmcs)
    BY <1>5 DEF VmmpHandleGdtrOrIdtrAccess, Put
  <2>2. vmcs[exit.table] = View[exit.table]
    BY <1>2, <1>4, HostViewAt
  <2>3. Guest!Effect(View, exit) = Guest!Sets(View, "reg", vmcs[exit.table])
    BY <1>5, <1>2, <2>2, EffectOf
  <2>4. Fits("reg", vmcs[exit.table])
    <3>1. vmcs[exit.table] \in Words
      BY <2>2, <1>2, <1>4, TypedRegisters
    <3> QED BY <3>1 DEF Fits, Flags, Plain, DrWords, Dr7Words
  <2>5. "reg" \in Regs \ {"ip", "cr3", "tlb", "cr8"} /\ "reg" \notin InVmcs
    BY KeptWhere
  <2> QED BY <1>1, <1>3, <2>1, <2>3, <2>4, <2>5, PutStep
<1>6. CASE exit.op = "load"
  <2> DEFINE d == Both(View, exit.table, exit.word, "busy",
                       View.busy \/ exit.table = "tr")
             v == Put(vmcs, exit.table, exit.word)
  <2>1. hw' = hw /\ VmmpAdjustGuestInstructionPointer(v)
    BY <1>6 DEF VmmpHandleGdtrOrIdtrAccess, Put
  <2>2. /\ Guest!Effect(View, exit) = Guest!Completes(View, d)
        /\ Typed(d) /\ (Current(View) => Current(d))
        /\ d[exit.table] = exit.word /\ d.busy = (View.busy \/ exit.table = "tr")
        /\ \A s \in Regs \ {exit.table, "busy"} : d[s] = View[s]
    <3>1. Typed(View) /\ exit \in InstructionForms
      BY <1>2
    <3> QED BY <1>6, <3>1, LoadSound
  <2>3. IsFile(hw, Regs) /\ IsFile(vmcs, InVmcs)
    BY DEF VmExitInv, FileOK
  <2>4. HostView(hw', v, guest_cr8') = Put(View, exit.table, exit.word)
    <3>1. HostView(hw, v, guest_cr8) = Put(HostView(hw, vmcs, guest_cr8), exit.table, exit.word)
      BY <1>4, <2>3, HostViewPutVmcs
    <3> QED BY <1>1, <1>2, <2>1, <3>1
  <2>5. Put(View, exit.table, exit.word) = d
    <3>1. View.busy \in BOOLEAN /\ exit.table # "tr" /\ IsFile(View, Regs)
      BY <1>1, <1>2, TypedRegisters DEF Typed
    <3>2. d.busy = View.busy
      BY <3>1, <2>2
    <3>3. IsFile(d, Regs)
      BY <2>2 DEF Typed
    <3>4. exit.table # "busy"
      BY <1>1
    <3>5. \A q \in Regs : Put(View, exit.table, exit.word)[q] = d[q]
      <4> HIDE DEF d
      <4> QED BY <2>2, <3>1, <3>2, <1>4, PutFile
    <3>6. IsFile(Put(View, exit.table, exit.word), Regs)
      BY <3>1, <1>4, PutFile
    <3> HIDE DEF d
    <3> QED BY <3>3, <3>5, <3>6, SameFile
  <2>6. IsFile(v, InVmcs) /\ IsFile(hw', Regs) /\ \A q \in InVmcs \cup {"cr8"} : hw'[q] = hw[q]
    BY <1>4, <2>1, <2>3, PutFile
  <2> HIDE DEF d, v
  <2> QED BY <1>1, <1>3, <2>1, <2>2, <2>4, <2>5, <2>6, CompleteStep
<1> QED BY <1>1, <1>5, <1>6

LEMMA BothIsPuts ==
  ASSUME NEW c, Typed(c), NEW q \in Regs, NEW r \in Regs, q # r, NEW v, NEW w
  PROVE  Both(c, q, v, r, w) = Put(Put(c, q, v), r, w)
BY DEF Both, Put, Typed, IsFile

LEMMA LdtrOrTrStep ==
  ASSUME VmExitInv, VmmpHandleLdtrOrTrAccess
  PROVE  VmExitInv' /\ Guest!Execute(exit)
<1>1. /\ VmmpHandleVmExit({"load", "store"}) /\ mode = "root"
      /\ exit.op \in {"load", "store"} /\ exit.table \in {"ldtr", "tr"}
      /\ guest_cr8' = guest_cr8
  BY DEF VmmpHandleLdtrOrTrAccess, VmmpHandleVmExit
<1>2. exit \in InstructionForms /\ View = HostView(hw, vmcs, guest_cr8) /\ Typed(View)
  BY <1>1, RootState
<1>3. ~Terminates
  BY <1>1 DEF Terminates
<1>4. exit.table \in InVmcs /\ exit.table \in Plain /\ exit.table \in Regs
  BY <1>1, KeptWhere, RegisterSets DEF Tables
<1>5. CASE exit.op = "store"
  <2>1. /\ hw' = Put(hw, "reg", vmcs[exit.table])
        /\ VmmpAdjustGuestInstructionPointer(vmcs)
    BY <1>5 DEF VmmpHandleLdtrOrTrAccess, Put
  <2>2. vmcs[exit.table] = View[exit.table]
    BY <1>2, <1>4, HostViewAt
  <2>3. Guest!Effect(View, exit) = Guest!Sets(View, "reg", vmcs[exit.table])
    BY <1>5, <1>2, <2>2, EffectOf
  <2>4. Fits("reg", vmcs[exit.table])
    <3>1. vmcs[exit.table] \in Words
      BY <2>2, <1>2, <1>4, TypedRegisters
    <3> QED BY <3>1 DEF Fits, Flags, Plain, DrWords, Dr7Words
  <2>5. "reg" \in Regs \ {"ip", "cr3", "tlb", "cr8"} /\ "reg" \notin InVmcs
    BY KeptWhere
  <2> QED BY <1>1, <1>3, <2>1, <2>3, <2>4, <2>5, PutStep
<1>6. CASE exit.op = "load"
  <2> DEFINE b == View.busy \/ exit.table = "tr"
             d == Both(View, exit.table, exit.word, "busy", b)
             v == Put(vmcs, exit.table, exit.word)
  <2>0. "busy" \in Regs \ (InVmcs \cup {"cr8"}) /\ exit.table # "busy"
    BY <1>1, KeptWhere
  <2>1. hw' = Put(hw, "busy", b) /\ VmmpAdjustGuestInstructionPointer(v)
    <3>1. View.busy = hw.busy
      BY <1>2, <2>0, HostViewAt
    <3> QED BY <1>6, <3>1 DEF VmmpHandleLdtrOrTrAccess, Put
  <2>2. /\ Guest!Effect(View, exit) = Guest!Completes(View, d)
        /\ Typed(d) /\ (Current(View) => Current(d))
    <3>1. Typed(View) /\ exit \in InstructionForms
      BY <1>2
    <3> QED BY <1>6, <3>1, LoadSound
  <2>3. IsFile(hw, Regs) /\ IsFile(vmcs, InVmcs)
    BY DEF VmExitInv, FileOK
  <2>4. IsFile(v, InVmcs) /\ IsFile(hw', Regs) /\ \A q \in InVmcs \cup {"cr8"} : hw'[q] = hw[q]
    <3>1. \A w : /\ IsFile(Put(hw, "busy", w), Regs)
                 /\ \A q \in InVmcs \cup {"cr8"} : Put(hw, "busy", w)[q] = hw[q]
      BY <2>0, <2>3, KeptWhere, PutFile
    <3>2. IsFile(v, InVmcs)
      BY <1>4, <2>3, PutFile
    <3> HIDE DEF b, v
    <3> QED BY <2>1, <3>1, <3>2
  <2>5. HostView(hw', v, guest_cr8') = d
    <3> HIDE DEF b
    <3>1. HostView(hw, v, guest_cr8) = Put(HostView(hw, vmcs, guest_cr8), exit.table, exit.word)
      BY <1>4, <2>3, HostViewPutVmcs
    <3>2. HostView(Put(hw, "busy", b), v, guest_cr8) = Put(HostView(hw, v, guest_cr8), "busy", b)
      <4>1. \A w : HostView(Put(hw, "busy", w), v, guest_cr8)
                      = Put(HostView(hw, v, guest_cr8), "busy", w)
        <5> HIDE DEF v
        <5> QED BY <2>0, <2>3, <2>4, HostViewPutHw
      <4> HIDE DEF v
      <4> QED BY <4>1
    <3>3. d = Put(Put(View, exit.table, exit.word), "busy", b)
      BY <1>2, <1>4, <2>0, BothIsPuts
    <3> HIDE DEF v, d
    <3> QED BY <1>1, <1>2, <2>1, <3>1, <3>2, <3>3
  <2> HIDE DEF d, v, b
  <2> QED BY <1>1, <1>3, <2>1, <2>2, <2>4, <2>5, CompleteStep
<1> QED BY <1>1, <1>5, <1>6

LEMMA InvalidateInternalCachesStep ==
  ASSUME VmExitInv, VmmpHandleInvalidateInternalCaches
  PROVE  VmExitInv' /\ Guest!Execute(exit)
<1>1. /\ VmmpHandleVmExit({"invd"}) /\ mode = "root" /\ exit.op = "invd"
      /\ hw' = hw /\ guest_cr8' = guest_cr8 /\ VmmpAdjustGuestInstructionPointer(vmcs)
  BY DEF VmmpHandleInvalidateInternalCaches, VmmpHandleVmExit
<1>2. exit \in InstructionForms /\ View = HostView(hw, vmcs, guest_cr8) /\ Typed(View)
  BY <1>1, RootState
<1>3. Guest!Effect(View, exit) = Guest!Completes(View, View)
  BY <1>1, <1>2, EffectOf
<1>4. IsFile(hw, Regs) /\ IsFile(vmcs, InVmcs)
  BY DEF VmExitInv, FileOK
<1>5. ~Terminates
  BY <1>1 DEF Terminates
<1>6. HostView(hw', vmcs, guest_cr8') = View
  BY <1>1, <1>2
<1>7. Typed(View) /\ IsFile(hw', Regs) /\ \A q \in InVmcs \cup {"cr8"} : hw'[q] = hw[q]
  BY <1>1, <1>2, <1>4
<1> QED BY <1>1, <1>3, <1>4, <1>5, <1>6, <1>7, CompleteStep

LEMMA InvalidateTlbEntryStep ==
  ASSUME VmExitInv, VmmpHandleInvalidateTlbEntry
  PROVE  VmExitInv' /\ Guest!Execute(exit)
<1> DEFINE d == Put(View, "tlb", "none")
<1>1. /\ VmmpHandleVmExit({"invlpg"}) /\ mode = "root" /\ exit.op = "invlpg"
      /\ hw' = Put(hw, "tlb", "none") /\ guest_cr8' = guest_cr8
      /\ VmmpAdjustGuestInstructionPointer(vmcs)
  BY DEF VmmpHandleInvalidateTlbEntry, VmmpHandleVmExit, Put
<1>2. exit \in InstructionForms /\ View = HostView(hw, vmcs, guest_cr8) /\ Typed(View)
  BY <1>1, RootState
<1>3. Guest!Effect(View, exit) = Guest!Completes(View, d)
  <2>1. Guest!Effect(View, exit) = Guest!Sets(View, "tlb", "none")
    BY <1>1, <1>2, EffectOf
  <2> QED BY <2>1, SetsIs
<1>4. IsFile(hw, Regs) /\ IsFile(vmcs, InVmcs)
  BY DEF VmExitInv, FileOK
<1>5. ~Terminates
  BY <1>1 DEF Terminates
<1>6. "tlb" \in Regs \ (InVmcs \cup {"cr8"}) /\ Fits("tlb", "none")
  BY KeptWhere DEF Fits, Flags, Plain
<1>7. Typed(d) /\ Current(d)
  <2>1. Typed(d) /\ d.tlb = "none"
    BY <1>2, <1>6, PutTyped
  <2> QED BY <2>1 DEF Current
<1>8. HostView(hw', vmcs, guest_cr8') = d
  <2>1. HostView(Put(hw, "tlb", "none"), vmcs, guest_cr8) =
          Put(HostView(hw, vmcs, guest_cr8), "tlb", "none")
    BY <1>4, <1>6, HostViewPutHw
  <2> QED BY <1>1, <1>2, <2>1
<1>9. IsFile(hw', Regs) /\ \A q \in InVmcs \cup {"cr8"} : hw'[q] = hw[q]
  BY <1>1, <1>4, <1>6, KeptWhere, PutFile
<1> HIDE DEF d
<1> QED BY <1>1, <1>3, <1>4, <1>5, <1>7, <1>8, <1>9, CompleteStep

LEMMA VmxStep ==
  ASSUME VmExitInv, VmmpHandleVmx
  PROVE  VmExitInv' /\ Guest!Execute(exit)
<1> DEFINE yes == TRUE
<1>1. /\ VmmpHandleVmExit({"vmx"}) /\ mode = "root" /\ exit.op = "vmx"
      /\ hw' = hw /\ guest_cr8' = guest_cr8
      /\ VmmpAdjustGuestInstructionPointer(Put(vmcs, "error", yes))
  BY DEF VmmpHandleVmx, VmmpHandleVmExit, Put
<1>2. exit \in InstructionForms
  BY <1>1, RootState
<1>3. Guest!Effect(View, exit) = Guest!Sets(View, "error", yes)
  BY <1>1, <1>2, EffectOf
<1>4. Fits("error", yes)
  BY DEF Fits, Flags, Plain
<1>5. "error" \in Regs \ {"ip", "cr3", "tlb", "cr8"} /\ "error" \in InVmcs
  BY KeptWhere
<1>6. ~Terminates
  BY <1>1 DEF Terminates
<1> DEFINE v == Put(vmcs, "error", yes)
<1>7. "error" \in InVmcs /\ v = Put(vmcs, "error", yes) /\ hw' = hw
  BY <1>1, <1>5
<1> HIDE DEF yes
<1>8. VmmpAdjustGuestInstructionPointer(v)
  BY <1>1
<1> HIDE DEF v
<1> QED BY <1>1, <1>3, <1>4, <1>5, <1>6, <1>7, <1>8, PutStep

\* A handler that injects the fault the instruction raises, and no more.
LEMMA FaultStep ==
  ASSUME VmExitInv, NEW ops, VmmpHandleVmExit(ops), ~Terminates,
         NEW vector \in Vectors, Guest!Effect(View, exit) = Guest!Faults(View, vector),
         VmmpInjectInterruption(vector, FALSE), entryLen' \in 0 .. 1,
         UNCHANGED <<hw, vmcs, guest_cr8>>
  PROVE  VmExitInv' /\ Guest!Execute(exit)
<1>1. mode = "root"
  BY DEF VmmpHandleVmExit
<1>2. View = HostView(hw, vmcs, guest_cr8) /\ Typed(View)
  BY <1>1, RootState
<1>3. IsFile(hw, Regs) /\ IsFile(vmcs, InVmcs)
  BY DEF VmExitInv, FileOK
<1>4. /\ Guest!Effect(View, exit).cpu = View
      /\ Guest!Effect(View, exit).pending = [vector |-> vector, at |-> View.ip]
  <2>1. Typed(View)
    BY <1>2
  <2> QED BY <2>1, FaultsHere
<1>5. View.ip = vmcs.ip /\ View.ip \in Nat
  <2>1. View.ip = vmcs.ip
    BY <1>2, HostViewAt, KeptWhere
  <2>2. Typed(View)
    BY <1>2
  <2> QED BY <2>1, <2>2, TypedRegisters
<1>6. vmcs.ip + (IF FALSE THEN entryLen' ELSE 0) = View.ip
  BY <1>5
<1>7. Survives(View, exit, Guest!Effect(View, exit), HostView(hw', vmcs', guest_cr8'))
  <2>1. HostView(hw', vmcs', guest_cr8') = View
    BY <1>2
  <2>2. Survives(View, exit, Guest!Effect(View, exit), View)
    BY <1>4 DEF Survives
  <2> QED BY <2>1, <2>2
<1> DEFINE no == FALSE
<1>8. /\ VmmpInjectInterruption(vector, no) /\ no \in BOOLEAN
      /\ Guest!Effect(View, exit).pending =
           [vector |-> vector, at |-> vmcs.ip + IF no THEN entryLen' ELSE 0]
  BY <1>4, <1>6
<1>9. IsFile(vmcs', InVmcs) /\ vmcs'.ip = vmcs.ip /\ IsFile(hw', Regs)
      /\ \A r \in InVmcs \cup {"cr8"} : hw'[r] = hw[r]
  BY <1>3
<1> HIDE DEF no
<1> QED BY <1>7, <1>8, <1>9, RefuseStep

LEMMA VmCallStep ==
  ASSUME VmExitInv, VmmpHandleVmCall
  PROVE  VmExitInv' /\ Guest!Execute(exit)
<1> DEFINE no == FALSE
           b == View.shared \/ exit.number = "get_shared"
           d == Both(View, "error", no, "shared", b)
<1>1. /\ VmmpHandleVmExit({"vmcall"}) /\ mode = "root" /\ exit.op = "vmcall"
      /\ ~Terminates /\ guest_cr8' = guest_cr8
  BY DEF VmmpHandleVmCall, VmmpHandleVmExit
<1>2. exit \in InstructionForms /\ Typed(View)
  BY <1>1, RootState
<1>3. View = HostView(hw, vmcs, guest_cr8)
  BY <1>1, RootState
<1>4. Guest!Effect(View, exit) = Guest!Vmcall(View, exit)
  BY <1>1, <1>2, EffectOf
<1>5. /\ Guest!Vmcall(View, exit) =
           IF exit.number = "unsupported" \/ (exit.number = "terminate" /\ exit.cpl # 0)
           THEN Guest!Faults(View, "#UD") ELSE Guest!Completes(View, d)
      /\ Typed(d) /\ (Current(View) => Current(d))
  BY <1>1, <1>2, VmcallSound
<1>6. CASE exit.number \in {"unsupported", "terminate"}
  <2>1. Guest!Effect(View, exit) = Guest!Faults(View, "#UD")
    <3> HIDE DEF d
    <3> QED BY <1>1, <1>4, <1>5, <1>6 DEF Terminates
  <2>2. VmmpInjectInterruption("#UD", FALSE) /\ entryLen' \in 0 .. 1
        /\ UNCHANGED <<hw, vmcs, guest_cr8>>
    <3>1. VmmpIndicateUnsuccessfulVmcall /\ hw' = hw /\ guest_cr8' = guest_cr8
      BY <1>6 DEF VmmpHandleVmCall
    <3>2. entryLen' = 1 /\ vmcs' = vmcs /\ VmmpInjectInterruption("#UD", FALSE)
      BY <3>1, Zenon DEF VmmpIndicateUnsuccessfulVmcall
    <3>3. entryLen' \in 0 .. 1
      BY <3>2
    <3> QED BY <3>1, <3>2, <3>3, Zenon
  <2>3. "#UD" \in Vectors
    BY DEF Vectors
  <2> QED BY <1>1, <2>1, <2>2, <2>3, FaultStep
<1>7. CASE exit.number \notin {"unsupported", "terminate"}
  <2> DEFINE v == Put(vmcs, "error", no)
  <2>1. Guest!Effect(View, exit) = Guest!Completes(View, d)
    <3> HIDE DEF d
    <3> QED BY <1>4, <1>5, <1>7
  <2>2. "shared" \in Regs \ (InVmcs \cup {"cr8"}) /\ "error" \in InVmcs /\ "error" \in Regs
    BY KeptWhere
  <2>3. IsFile(hw, Regs) /\ IsFile(vmcs, InVmcs)
    BY DEF VmExitInv, FileOK
  <2>4. VmmpAdjustGuestInstructionPointer(v)
    BY <1>7 DEF VmmpHandleVmCall, VmmpIndicateSuccessfulVmcall, Put
  <2>5. hw' = Put(hw, "shared", b)
    <3>1. View.shared = hw.shared
      BY <1>3, <2>2, HostViewAt
    <3> QED BY <1>7, <3>1 DEF VmmpHandleVmCall, Put
  <2>6. IsFile(v, InVmcs)
    <3> HIDE DEF no
    <3> QED BY <2>2, <2>3, PutFile
  <2>7. IsFile(hw', Regs) /\ \A q \in InVmcs \cup {"cr8"} : hw'[q] = hw[q]
    <3>1. \A w : /\ IsFile(Put(hw, "shared", w), Regs)
                 /\ \A q \in InVmcs \cup {"cr8"} : Put(hw, "shared", w)[q] = hw[q]
      BY <2>2, <2>3, KeptWhere, PutFile
    <3> HIDE DEF b
    <3> QED BY <2>5, <3>1
  <2>8. HostView(hw', v, guest_cr8') = d
    <3>1. HostView(hw, v, guest_cr8) = Put(HostView(hw, vmcs, guest_cr8), "error", no)
      <4> HIDE DEF no
      <4> QED BY <2>2, <2>3, HostViewPutVmcs
    <3>2. HostView(Put(hw, "shared", b), v, guest_cr8) = Put(HostView(hw, v, guest_cr8), "shared", b)
      <4>1. \A w : HostView(Put(hw, "shared", w), v, guest_cr8)
                     = Put(HostView(hw, v, guest_cr8), "shared", w)
        <5>1. ASSUME NEW w
              PROVE  HostView(Put(hw, "shared", w), v, guest_cr8)
                       = Put(HostView(hw, v, guest_cr8), "shared", w)
          <6> HIDE DEF v
          <6> QED BY <2>2, <2>3, <2>6, HostViewPutHw
        <5> QED BY <5>1
      <4> HIDE DEF v, b
      <4> QED BY <4>1
    <3>3. d = Put(Put(View, "error", no), "shared", b)
      <4> HIDE DEF no, b
      <4> QED BY <1>2, <2>2, BothIsPuts
    <3> HIDE DEF v, d, no, b
    <3> QED BY <1>1, <1>3, <2>5, <3>1, <3>2, <3>3
  <2> HIDE DEF d, v, no, b
  <2> QED BY <1>1, <1>2, <1>5, <2>1, <2>4, <2>6, <2>7, <2>8, CompleteStep
<1> QED BY <1>6, <1>7

\* A handler that gives a register of the guest out; what goes to RSP is lost.
LEMMA SelectStep ==
  ASSUME VmExitInv, NEW ops, VmmpHandleVmExit(ops), ~Terminates,
         NEW dst \in {"reg", "sp"}, NEW w, Fits(dst, w),
         Guest!Effect(View, exit) = Guest!Sets(View, dst, w),
         hw' = VmmpSelectRegister(dst, w), guest_cr8' = guest_cr8,
         VmmpAdjustGuestInstructionPointer(vmcs)
  PROVE  VmExitInv' /\ Guest!Execute(exit)
<1>1. mode = "root"
  BY DEF VmmpHandleVmExit
<1>2. IsFile(hw, Regs) /\ IsFile(vmcs, InVmcs)
  BY DEF VmExitInv, FileOK
<1>3. CASE dst = "reg"
  <2>1. hw' = Put(hw, "reg", w)
    BY <1>3 DEF VmmpSelectRegister, Put
  <2>2. "reg" \in Regs \ {"ip", "cr3", "tlb", "cr8"} /\ "reg" \notin InVmcs
    BY KeptWhere
  <2> QED BY <1>3, <2>1, <2>2, PutStep
<1>4. CASE dst = "sp"
  <2> DEFINE d == Put(View, "sp", w)
  <2>1. View = HostView(hw, vmcs, guest_cr8) /\ Typed(View)
    BY <1>1, RootState
  <2>2. "sp" \in Regs /\ Fits("sp", w)
    BY <1>4, KeptWhere
  <2>3. /\ Typed(d) /\ (Current(View) => Current(d))
        /\ \A q \in Regs \ {"sp"} : d[q] = View[q]
    <3>1. Typed(View)
      BY <2>1
    <3> QED BY <2>2, <3>1, PutTyped
  <2>4. Guest!Effect(View, exit) = Guest!Completes(View, d)
    BY <1>4, SetsIs
  <2>5. HostView(hw', vmcs, guest_cr8') = View
    BY <1>4, <2>1 DEF VmmpSelectRegister
  <2>6. Agrees(View, exit, d, View)
    <3>1. View.debugctl = d.debugctl /\ View.reg = d.reg
      BY <2>3, KeptWhere
    <3> HIDE DEF d
    <3> QED BY <2>3, <3>1 DEF Agrees
  <2>7. Agrees(View, exit, d, HostView(hw', vmcs, guest_cr8'))
    BY <2>5, <2>6
  <2>8. IsFile(hw', Regs) /\ \A r \in InVmcs \cup {"cr8"} : hw'[r] = hw[r]
    BY <1>2, <1>4 DEF VmmpSelectRegister
  <2> HIDE DEF d
  <2> QED BY <1>2, <2>3, <2>4, <2>7, <2>8, AdvanceStep
<1> QED BY <1>3, <1>4

\* CR8 is in the context, the others in the VMCS; the translations of an address
\* space that the guest leaves are dropped.
LEMMA CrAccessStep ==
  ASSUME VmExitInv, VmmpHandleCrAccess
  PROVE  VmExitInv' /\ Guest!Execute(exit)
<1>1. /\ VmmpHandleVmExit({"mov_to_cr", "mov_from_cr"}) /\ mode = "root"
      /\ exit.op \in {"mov_to_cr", "mov_from_cr"}
  BY DEF VmmpHandleCrAccess, VmmpHandleVmExit
<1>2. exit \in InstructionForms /\ Typed(View)
  BY <1>1, RootState
<1>3. View = HostView(hw, vmcs, guest_cr8)
  BY <1>1, RootState
<1>4. ~Terminates
  BY <1>1 DEF Terminates
<1>5. CASE exit.op = "mov_from_cr"
  <2> DEFINE w == IF exit.cr = 8 THEN guest_cr8 ELSE vmcs.cr3
  <2>1. /\ hw' = VmmpSelectRegister(exit.dst, w) /\ guest_cr8' = guest_cr8
        /\ VmmpAdjustGuestInstructionPointer(vmcs)
    BY <1>5 DEF VmmpHandleCrAccess
  <2>2. exit.cr \in {3, 8} /\ exit.dst \in {"reg", "sp"}
    BY <1>5, <1>2, Forms
  <2>3. w = View[Guest!CrName(exit.cr)]
    <3>1. Guest!CrName(exit.cr) = IF exit.cr = 3 THEN "cr3" ELSE "cr8"
      BY <2>2 DEF Guest!CrName
    <3>2. View.cr3 = vmcs.cr3 /\ View.cr8 = guest_cr8
      BY <1>3, HostViewAt, KeptWhere
    <3> QED BY <2>2, <3>1, <3>2
  <2>4. Guest!Effect(View, exit) = Guest!Sets(View, exit.dst, w)
    <3>1. Guest!Effect(View, exit) =
            Guest!Sets(View, exit.dst, View[Guest!CrName(exit.cr)])
      BY <1>5, <1>2, EffectOf
    <3> HIDE DEF w
    <3> QED BY <2>3, <3>1
  <2>5. Fits(exit.dst, w)
    <3>1. View.cr3 \in Words /\ View.cr8 \in Levels
      BY <1>2, TypedRegisters DEF Plain
    <3>2. View.cr3 = vmcs.cr3 /\ View.cr8 = guest_cr8
      BY <1>3, HostViewAt, KeptWhere
    <3>3. w \in Words \cup Levels
      BY <3>1, <3>2
    <3> HIDE DEF w
    <3> QED BY <2>2, <3>3 DEF Fits, Flags, Plain, DrWords, Dr7Words
  <2> HIDE DEF w
  <2> QED BY <1>1, <1>4, <2>1, <2>2, <2>4, <2>5, SelectStep
<1>6. CASE exit.op = "mov_to_cr"
  <2> DEFINE r == Guest!CrName(exit.cr)
             t == IF exit.cr \in {3, 4} THEN "none" ELSE View.tlb
             d == Both(View, r, exit.word, "tlb", t)
             v == IF exit.cr = 8 THEN vmcs ELSE Put(vmcs, r, exit.word)
             cr8 == IF exit.cr = 8 THEN exit.word ELSE guest_cr8
  <2>1. /\ Guest!MovToCr(View, exit) = Guest!Completes(View, d)
        /\ Typed(d) /\ (Current(View) => Current(d))
    BY <1>6, <1>2, MovToCrSound
  <2>2. Guest!Effect(View, exit) = Guest!Completes(View, d)
    <3>1. Guest!Effect(View, exit) = Guest!MovToCr(View, exit)
      BY <1>6, <1>2, EffectOf
    <3> HIDE DEF d
    <3> QED BY <2>1, <3>1
  <2>3. exit.cr \in {0, 3, 4, 8}
    BY <1>6, <1>2, Forms
  <2>4. r = IF exit.cr = 0 THEN "cr0" ELSE IF exit.cr = 3 THEN "cr3"
            ELSE IF exit.cr = 4 THEN "cr4" ELSE "cr8"
    BY <2>3 DEF Guest!CrName
  <2>5. /\ exit.cr = 8 => r = "cr8"
        /\ exit.cr # 8 => r \in InVmcs
        /\ r \in Regs /\ r # "tlb" /\ "tlb" \in Regs \ (InVmcs \cup {"cr8"})
    BY <2>3, <2>4, KeptWhere
  <2>6. IsFile(hw, Regs) /\ IsFile(vmcs, InVmcs)
    BY DEF VmExitInv, FileOK
  <2>7. hw' = Put(hw, "tlb", t)
    <3>1. View.tlb = hw.tlb
      BY <1>3, <2>5, HostViewAt
    <3> QED BY <1>6, <3>1 DEF VmmpHandleCrAccess, Put
  <2>8. VmmpAdjustGuestInstructionPointer(v) /\ guest_cr8' = cr8
    BY <1>6 DEF VmmpHandleCrAccess, Put
  <2>9. IsFile(v, InVmcs)
    <3> HIDE DEF r
    <3> QED BY <2>5, <2>6, PutFile
  <2>10. IsFile(hw', Regs) /\ \A q \in InVmcs \cup {"cr8"} : hw'[q] = hw[q]
    <3> HIDE DEF t
    <3> QED BY <2>5, <2>6, <2>7, KeptWhere, PutFile
  <2>11. HostView(hw', v, guest_cr8') = d
    <3>1. HostView(hw, v, cr8) = Put(View, r, exit.word)
      <4>1. CASE exit.cr = 8
        <5>1. HostView(hw, vmcs, exit.word) = Put(HostView(hw, vmcs, guest_cr8), "cr8", exit.word)
          BY <2>6, HostViewPutCr8
        <5> HIDE DEF r
        <5> QED BY <4>1, <5>1, <2>5, <1>3
      <4>2. CASE exit.cr # 8
        <5> HIDE DEF r
        <5>1. HostView(hw, Put(vmcs, r, exit.word), guest_cr8)
                = Put(HostView(hw, vmcs, guest_cr8), r, exit.word)
          BY <4>2, <2>5, <2>6, HostViewPutVmcs
        <5> QED BY <4>2, <5>1, <1>3
      <4> QED BY <4>1, <4>2
    <3>2. HostView(Put(hw, "tlb", t), v, cr8) = Put(HostView(hw, v, cr8), "tlb", t)
      <4> HIDE DEF t, v, cr8
      <4> QED BY <2>5, <2>6, <2>9, HostViewPutHw
    <3>3. d = Put(Put(View, r, exit.word), "tlb", t)
      <4> HIDE DEF r, t
      <4> QED BY <1>2, <2>5, BothIsPuts
    <3> HIDE DEF v, d, r, t, cr8
    <3> QED BY <2>7, <2>8, <3>1, <3>2, <3>3
  <2> HIDE DEF d, v, r, t, cr8
  <2> QED BY <1>1, <1>4, <2>1, <2>2, <2>8, <2>9, <2>10, <2>11, CompleteStep
<1> QED BY <1>1, <1>5, <1>6

\* IN to EAX leaves the upper half of RAX, and the handler all of it when it
\* is not empty.
LEMMA IoPortStep ==
  ASSUME VmExitInv, VmmpHandleIoPort
  PROVE  VmExitInv' /\ Guest!Execute(exit)
<1> DEFINE count == Guest!Repeats(View, exit)
           given == IF exit.rep THEN hw.counters.rcx ELSE 1
           W == VmmpIoWrapper(given)
           P == PortWritten(View, exit)
           n == Guest!Counted(View, exit)
           d == Put(P, "counters", n)
<1>1. /\ VmmpHandleVmExit({"in", "out"}) /\ mode = "root" /\ exit.op \in {"in", "out"}
      /\ VmmpAdjustGuestInstructionPointer(vmcs) /\ guest_cr8' = guest_cr8
  BY DEF VmmpHandleIoPort, VmmpHandleVmExit
<1>2. exit \in InstructionForms /\ Typed(View)
  BY <1>1, RootState
<1>3. View = HostView(hw, vmcs, guest_cr8)
  BY <1>1, RootState
<1>4. ~Terminates
  BY <1>1 DEF Terminates
<1>5. IsFile(hw, Regs) /\ IsFile(vmcs, InVmcs)
  BY DEF VmExitInv, FileOK
<1>6. {"reg", "port", "memory", "counters"} \subseteq Regs \ (InVmcs \cup {"cr8"})
  BY KeptWhere
<1>7. View.port = hw.port /\ View.counters = hw.counters /\ View.reg = hw.reg
  BY <1>3, <1>6, HostViewAt
<1>8. /\ exit.string \in BOOLEAN /\ exit.rep \in BOOLEAN /\ exit.df \in BOOLEAN
      /\ View.counters \in [rcx : Nat, index : Int]
  BY <1>1, <1>2, Forms, TypedRegisters
<1>c. IF exit.string THEN count = given ELSE count = 1
  BY <1>7 DEF Guest!Repeats
<1>9. /\ Guest!PortAccess(View, exit) = Guest!Completes(View, d)
      /\ Typed(d) /\ (Current(View) => Current(d))
      /\ \A s \in Regs \ {"counters"} : d[s] = P[s]
      /\ d.counters = n
  BY <1>1, <1>2, PortAccessSound
<1>10. Guest!Effect(View, exit) = Guest!Completes(View, d)
  <2>1. Guest!Effect(View, exit) = Guest!PortAccess(View, exit)
    BY <1>1, <1>2, EffectOf
  <2> HIDE DEF d
  <2> QED BY <1>9, <2>1
\* The data arrives, or RAX stays as it was.
<1>11. /\ IsFile(W, Regs)
       /\ \A q \in Regs \ {"port", "memory", "reg"} : W[q] = hw[q]
       /\ \/ HostView(W, vmcs, guest_cr8) = P
          \/ /\ exit.op = "in" /\ View.reg = "high"
             /\ P = Put(View, "reg", View.port)
             /\ HostView(W, vmcs, guest_cr8) = View
  <2>1. CASE count = 0
    <3>1. W = hw /\ P = View
      BY <2>1, <1>c DEF VmmpIoWrapper, PortWritten
    <3> QED BY <3>1, <1>3, <1>5
  <2>2. CASE count # 0 /\ exit.op = "out"
    <3>1. W = Put(hw, "port", exit.word) /\ P = Put(View, "port", exit.word)
      BY <2>2, <1>c DEF VmmpIoWrapper, PortWritten, Put
    <3>2. HostView(Put(hw, "port", exit.word), vmcs, guest_cr8)
            = Put(HostView(hw, vmcs, guest_cr8), "port", exit.word)
      BY <1>5, <1>6, HostViewPutHw
    <3>3. /\ IsFile(Put(hw, "port", exit.word), Regs)
          /\ \A q \in Regs \ {"port"} : Put(hw, "port", exit.word)[q] = hw[q]
      BY <1>5, <1>6, PutFile
    <3> HIDE DEF W, P
    <3> QED BY <3>1, <3>2, <3>3, <1>3
  <2>3. CASE count # 0 /\ exit.op = "in" /\ exit.string = TRUE
    <3>1. W = Put(hw, "memory", hw.port) /\ P = Put(View, "memory", hw.port)
      BY <2>3, <1>7, <1>c DEF VmmpIoWrapper, PortWritten, Put
    <3>2. HostView(Put(hw, "memory", hw.port), vmcs, guest_cr8)
            = Put(HostView(hw, vmcs, guest_cr8), "memory", hw.port)
      BY <1>5, <1>6, HostViewPutHw
    <3>3. /\ IsFile(Put(hw, "memory", hw.port), Regs)
          /\ \A q \in Regs \ {"memory"} : Put(hw, "memory", hw.port)[q] = hw[q]
      BY <1>5, <1>6, PutFile
    <3> HIDE DEF W, P
    <3> QED BY <3>1, <3>2, <3>3, <1>3
  <2>4. CASE count # 0 /\ exit.op = "in" /\ exit.string = FALSE /\ hw.reg # "high"
    <3>1. W = Put(hw, "reg", hw.port) /\ P = Put(View, "reg", hw.port)
      BY <2>4, <1>7, <1>c DEF VmmpIoWrapper, PortWritten, Put
    <3>2. HostView(Put(hw, "reg", hw.port), vmcs, guest_cr8)
            = Put(HostView(hw, vmcs, guest_cr8), "reg", hw.port)
      BY <1>5, <1>6, HostViewPutHw
    <3>3. /\ IsFile(Put(hw, "reg", hw.port), Regs)
          /\ \A q \in Regs \ {"reg"} : Put(hw, "reg", hw.port)[q] = hw[q]
      BY <1>5, <1>6, PutFile
    <3> HIDE DEF W, P
    <3> QED BY <3>1, <3>2, <3>3, <1>3
  <2>5. CASE count # 0 /\ exit.op = "in" /\ exit.string = FALSE /\ hw.reg = "high"
    <3>1. W = [hw EXCEPT !.reg = "high"] /\ P = Put(View, "reg", View.port)
      BY <2>5, <1>c DEF VmmpIoWrapper, PortWritten
    <3>2. [hw EXCEPT !.reg = "high"] = hw
      BY <2>5, <1>5 DEF IsFile
    <3>3. W = hw
      BY <3>1, <3>2
    <3> HIDE DEF W, P
    <3> QED BY <2>5, <3>1, <3>3, <1>3, <1>5, <1>7
  <2> QED BY <1>1, <1>8, <2>1, <2>2, <2>3, <2>4, <2>5
<1>12. hw' = Put(W, "counters", n)
  <2>1. W.counters = hw.counters
    <3> HIDE DEF W
    <3> QED BY <1>6, <1>11
  <2> DEFINE rcx == hw.counters.rcx
             index == hw.counters.index
             m == IF ~exit.string THEN W.counters
                  ELSE [rcx |-> IF exit.rep THEN 0 ELSE rcx,
                        index |-> IF exit.df THEN index - count ELSE index + count]
  <2>2. n = m
    BY <1>7, <1>8, <2>1 DEF Guest!Counted, Guest!Repeats
  <2>4. hw' = Put(W, "counters", m)
    <3>1. m = IF ~exit.string THEN W.counters
              ELSE [rcx |-> IF exit.rep THEN 0 ELSE rcx,
                    index |-> IF exit.df THEN index - given ELSE index + given]
      BY <1>c
    <3> HIDE DEF m, count
    <3> QED BY <3>1 DEF VmmpHandleIoPort, Put
  <2> HIDE DEF n, m, W
  <2> QED BY <2>2, <2>4
<1>13. /\ IsFile(hw', Regs) /\ \A q \in InVmcs \cup {"cr8"} : hw'[q] = hw[q]
  <2> HIDE DEF W, n
  <2>1. IsFile(Put(W, "counters", n), Regs) /\ \A q \in Regs \ {"counters"} : Put(W, "counters", n)[q] = W[q]
    BY <1>6, <1>11, PutFile
  <2> QED BY <1>6, <1>11, <1>12, <2>1, KeptWhere
<1>14. HostView(hw', vmcs, guest_cr8') = Put(HostView(W, vmcs, guest_cr8), "counters", n)
  <2> HIDE DEF W, n
  <2>1. HostView(Put(W, "counters", n), vmcs, guest_cr8)
          = Put(HostView(W, vmcs, guest_cr8), "counters", n)
    BY <1>5, <1>6, <1>11, HostViewPutHw
  <2> QED BY <1>1, <1>12, <2>1
<1>15. Agrees(View, exit, d, HostView(hw', vmcs, guest_cr8'))
  <2>1. CASE HostView(W, vmcs, guest_cr8) = P
    <3>1. HostView(hw', vmcs, guest_cr8') = d
      <4> HIDE DEF W, P, n
      <4> QED BY <1>14, <2>1
    <3>2. Agrees(View, exit, d, d)
      BY DEF Agrees
    <3> HIDE DEF d
    <3> QED BY <3>1, <3>2
  <2>2. CASE /\ exit.op = "in" /\ View.reg = "high"
             /\ P = Put(View, "reg", View.port)
             /\ HostView(W, vmcs, guest_cr8) = View
    <3> DEFINE new == Put(View, "counters", n)
    <3>1. HostView(hw', vmcs, guest_cr8') = new
      <4> HIDE DEF W, n
      <4> QED BY <1>14, <2>2
    <3>2. IsFile(View, Regs)
      BY <1>2 DEF Typed
    <3>3. new.counters = n /\ \A q \in Regs \ {"counters"} : new[q] = View[q]
      <4> HIDE DEF n
      <4> QED BY <3>2, <1>6, PutFile
    <3>4. \A q \in Regs \ {"reg"} : P[q] = View[q]
      <4>1. \A q \in Regs \ {"reg"} : Put(View, "reg", View.port)[q] = View[q]
        BY <3>2, <1>6, PutFile
      <4> HIDE DEF P
      <4> QED BY <2>2, <4>1
    <3>5. Agrees(View, exit, d, new)
      <4> HIDE DEF d, P, n, new
      <4>1. \A q \in Regs \ {"reg"} : new[q] = d[q]
        BY <1>9, <3>3, <3>4
      <4>2. new.reg = "high" /\ new.debugctl = d.debugctl /\ new.sp = d.sp
        BY <1>6, <2>2, <3>3, <4>1, KeptWhere
      <4> QED BY <2>2, <4>1, <4>2 DEF Agrees
    <3> HIDE DEF d, new
    <3> QED BY <3>1, <3>5
  <2> HIDE DEF W, P, d
  <2> QED BY <1>11, <2>1, <2>2
<1> HIDE DEF d
<1> QED BY <1>1, <1>4, <1>5, <1>9, <1>10, <1>13, <1>15, AdvanceStep

\* DR7 is read and written where the guest's is; the checks come in the order
\* in which the processor makes them.
LEMMA DrAccessStep ==
  ASSUME VmExitInv, VmmpHandleDrAccess
  PROVE  VmExitInv' /\ Guest!Execute(exit)
<1> DEFINE r == Guest!DrName(exit.dr)
<1>1. /\ VmmpHandleVmExit({"mov_to_dr", "mov_from_dr"}) /\ mode = "root"
      /\ exit.op \in {"mov_to_dr", "mov_from_dr"} /\ guest_cr8' = guest_cr8
  BY DEF VmmpHandleDrAccess, VmmpHandleVmExit
<1>2. exit \in InstructionForms /\ Typed(View)
  BY <1>1, RootState
<1>3. View = HostView(hw, vmcs, guest_cr8)
  BY <1>1, RootState
<1>4. ~Terminates
  BY <1>1 DEF Terminates
<1>5. IsFile(hw, Regs) /\ IsFile(vmcs, InVmcs)
  BY DEF VmExitInv, FileOK
<1>6. {"dr0", "dr6"} \subseteq Regs \ (InVmcs \cup {"cr8"}) /\ "dr7" \in InVmcs
      /\ "cr4" \in InVmcs /\ "dr7" \in Regs
  BY KeptWhere
<1>7. /\ View.cr4 = vmcs.cr4 /\ View.dr7 = vmcs.dr7 /\ View.dr0 = hw.dr0
      /\ View.dr6 = hw.dr6
  BY <1>3, <1>6, HostViewAt
<1>8. Guest!Effect(View, exit) = Guest!MovDr(View, exit)
  BY <1>1, <1>2, EffectOf
<1>9. /\ exit.dr \in {0, 4, 5, 6, 7}
      /\ exit.op = "mov_to_dr" => /\ exit.word \in DrWords
                                  /\ exit.dr \in {4, 6} => exit.word # "enabled"
      /\ exit.op = "mov_from_dr" => exit.dst \in {"reg", "sp"}
  BY <1>1, <1>2, Forms
<1>10. /\ DebugRegister = IF exit.dr = 0 THEN 0 ELSE IF exit.dr \in {4, 6} THEN 6 ELSE 7
       /\ r = IF exit.dr = 0 THEN "dr0" ELSE IF exit.dr \in {4, 6} THEN "dr6" ELSE "dr7"
  BY <1>9 DEF DebugRegister, Guest!DrName
<1>11. InvalidAlias = (exit.dr \in {4, 5} /\ View.cr4 = "flag")
  BY <1>7 DEF InvalidAlias
<1>v. {"#GP", "#UD", "#DB"} \subseteq Vectors
  BY DEF Vectors
<1>e. entryLen \in 0 .. 1
  BY DEF VmExitInv, EventOK
<1>12. ASSUME NEW vector \in Vectors, Refuse(vector), UNCHANGED <<hw, vmcs>>,
              Guest!MovDr(View, exit) = Guest!Faults(View, vector)
       PROVE  VmExitInv' /\ Guest!Execute(exit)
  <2>1. VmmpInjectInterruption(vector, FALSE) /\ entryLen' = entryLen
    BY <1>12, Zenon DEF Refuse
  <2>2. entryLen' \in 0 .. 1
    BY <2>1, <1>e
  <2>3. UNCHANGED <<hw, vmcs, guest_cr8>>
    BY <1>1, <1>12
  <2>4. Guest!Effect(View, exit) = Guest!Faults(View, vector)
    BY <1>8, <1>12
  <2> QED BY <1>1, <1>4, <2>1, <2>2, <2>3, <2>4, FaultStep
<1>13. CASE exit.cpl # 0
  <2>1. Guest!MovDr(View, exit) = Guest!Faults(View, "#GP")
    BY <1>13 DEF Guest!MovDr
  <2>2. Refuse("#GP") /\ UNCHANGED <<hw, vmcs>>
    BY <1>13, Zenon DEF VmmpHandleDrAccess
  <2> QED BY <1>12, <1>v, <2>1, <2>2
<1>14. CASE exit.cpl = 0 /\ InvalidAlias
  <2>1. Guest!MovDr(View, exit) = Guest!Faults(View, "#UD")
    BY <1>11, <1>14 DEF Guest!MovDr
  <2>2. Refuse("#UD") /\ UNCHANGED <<hw, vmcs>>
    BY <1>14, Zenon DEF VmmpHandleDrAccess
  <2> QED BY <1>12, <1>v, <2>1, <2>2
\* General detect: DR6.BD set and DR7.GD cleared on the way to #DB.
<1>15. CASE exit.cpl = 0 /\ ~InvalidAlias /\ vmcs.dr7 = "flag"
  <2> DEFINE c == Both(View, "dr6", "flag", "dr7", "zero")
             no == FALSE
  <2>1. Guest!MovDr(View, exit) = Guest!Faults(c, "#DB")
    <3>1. IsFile(View, Regs)
      BY <1>2 DEF Typed
    <3>2. [View EXCEPT !.dr6 = "flag", !.dr7 = Guest!WithoutGd(@)] = c
      BY <1>6, <1>7, <1>15, <3>1 DEF Both, Guest!WithoutGd, IsFile
    <3> HIDE DEF c
    <3> QED BY <1>7, <1>11, <1>15, <3>2 DEF Guest!MovDr
  <2>2. /\ hw' = Put(hw, "dr6", "flag") /\ vmcs' = Put(vmcs, "dr7", "zero")
    <3>1. GeneralDetect
      BY <1>15, Zenon DEF VmmpHandleDrAccess
    <3> QED BY <1>15, <3>1 DEF GeneralDetect, Put, Guest!WithoutGd
  <2>3. VmmpInjectInterruption("#DB", no) /\ entryLen' = entryLen
    <3>1. GeneralDetect
      BY <1>15, Zenon DEF VmmpHandleDrAccess
    <3> QED BY <3>1, Zenon DEF GeneralDetect, Refuse
  <2>4. HostView(hw', vmcs', guest_cr8') = c
    <3>1. IsFile(vmcs', InVmcs)
      BY <1>5, <1>6, <2>2, PutFile
    <3>2. HostView(Put(hw, "dr6", "flag"), vmcs, guest_cr8)
            = Put(HostView(hw, vmcs, guest_cr8), "dr6", "flag")
      BY <1>5, <1>6, HostViewPutHw
    <3>3. IsFile(Put(hw, "dr6", "flag"), Regs)
      BY <1>5, <1>6, PutFile
    <3>4. HostView(Put(hw, "dr6", "flag"), Put(vmcs, "dr7", "zero"), guest_cr8)
            = Put(HostView(Put(hw, "dr6", "flag"), vmcs, guest_cr8), "dr7", "zero")
      BY <1>5, <1>6, <3>3, HostViewPutVmcs
    <3>5. c = Put(Put(View, "dr6", "flag"), "dr7", "zero")
      BY <1>2, <1>6, BothIsPuts
    <3> HIDE DEF c
    <3> QED BY <1>1, <1>3, <2>2, <3>2, <3>4, <3>5
  <2>5. Typed(c) /\ \A s \in Regs \ {"dr6", "dr7"} : c[s] = View[s]
    <3>1. Fits("dr6", "flag") /\ Fits("dr7", "zero")
      BY DEF Fits, Flags, Plain, Words, Dr7Words
    <3> QED BY <1>2, <1>6, <3>1, TwoExcept
  <2>6. c.ip = View.ip /\ (Current(View) => Current(c))
    <3> HIDE DEF c
    <3> QED BY <2>5, RegisterSets DEF Current
  <2>7. /\ Guest!Effect(View, exit).cpu = c
        /\ Guest!Effect(View, exit).pending = [vector |-> "#DB", at |-> View.ip]
    <3> HIDE DEF c
    <3>1. /\ Guest!Faults(c, "#DB").cpu = c
          /\ Guest!Faults(c, "#DB").pending = [vector |-> "#DB", at |-> View.ip]
      BY <1>2, <1>v, <2>5, <2>6, FaultsSound
    <3> QED BY <1>8, <2>1, <3>1
  <2>8. Survives(View, exit, Guest!Effect(View, exit), HostView(hw', vmcs', guest_cr8'))
    <3>1. Survives(View, exit, Guest!Effect(View, exit), c)
      <4> HIDE DEF c
      <4> QED BY <2>7 DEF Survives
    <3> HIDE DEF c
    <3> QED BY <2>4, <3>1
  <2>9. Guest!Effect(View, exit).pending =
          [vector |-> "#DB", at |-> vmcs.ip + IF no THEN entryLen' ELSE 0]
    <3>1. View.ip = vmcs.ip /\ View.ip \in Nat
      BY <1>2, <1>3, HostViewAt, KeptWhere, TypedRegisters
    <3> QED BY <2>7, <3>1
  <2>10. /\ IsFile(vmcs', InVmcs) /\ vmcs'.ip = vmcs.ip /\ IsFile(hw', Regs)
         /\ \A s \in InVmcs \cup {"cr8"} : hw'[s] = hw[s]
    BY <1>5, <1>6, <2>2, KeptWhere, PutFile
  <2>11. no \in BOOLEAN /\ entryLen' \in 0 .. 1
    BY <2>3, <1>e
  <2> HIDE DEF c, no
  <2> QED BY <1>1, <1>4, <1>v, <2>3, <2>8, <2>9, <2>10, <2>11, RefuseStep
<1>16. CASE exit.cpl = 0 /\ ~InvalidAlias /\ vmcs.dr7 # "flag" /\ UpperBitsSet
  <2>1. exit.op = "mov_to_dr" /\ exit.dr # 0 /\ exit.word = "high"
    BY <1>10, <1>16 DEF UpperBitsSet
  <2>2. Guest!MovDr(View, exit) = Guest!Faults(View, "#GP")
    BY <1>7, <1>11, <1>16, <2>1 DEF Guest!MovDr
  <2>3. Refuse("#GP") /\ UNCHANGED <<hw, vmcs>>
    BY <1>16, Zenon DEF VmmpHandleDrAccess
  <2> QED BY <1>12, <1>v, <2>2, <2>3
<1>17. CASE /\ exit.cpl = 0 /\ ~InvalidAlias /\ vmcs.dr7 # "flag" /\ ~UpperBitsSet
            /\ exit.op = "mov_to_dr"
  <2> DEFINE w == Guest!DrWritten(exit.dr, exit.word)
             v == IF exit.dr \in {5, 7} THEN Put(vmcs, r, w) ELSE vmcs
  <2>1. ~(exit.dr # 0 /\ exit.word = "high")
    BY <1>9, <1>10, <1>17 DEF UpperBitsSet
  <2>2. Guest!MovDr(View, exit) = Guest!Sets(View, r, w)
    BY <1>7, <1>11, <1>17, <2>1 DEF Guest!MovDr
  <2>3. Fits(r, w)
    BY <1>9, <1>10, <1>17, <2>1
       DEF Fits, Flags, Plain, Guest!DrWritten, DrWords, Dr7Words, Words
  <2>4. /\ exit.dr = 0 => w = exit.word
        /\ exit.dr # 0 => w = Enforced(exit.word)
    BY DEF Guest!DrWritten, Enforced
  <2>5. WriteDr
    BY <1>17, Zenon DEF VmmpHandleDrAccess
  <2>6. /\ exit.dr \in {5, 7} => hw' = hw
        /\ exit.dr \notin {5, 7} => hw' = Put(hw, r, w)
    BY <1>9, <1>10, <2>4, <2>5 DEF WriteDr, Put
  <2>7. VmmpAdjustGuestInstructionPointer(v)
    <3>1. v = IF DebugRegister = 7 THEN [vmcs EXCEPT !.dr7 = Enforced(exit.word)] ELSE vmcs
      <4> HIDE DEF w
      <4> QED BY <1>9, <1>10, <2>4 DEF Put
    <3>2. VmmpAdjustGuestInstructionPointer(
            IF DebugRegister = 7 THEN [vmcs EXCEPT !.dr7 = Enforced(exit.word)] ELSE vmcs)
      BY <2>5, Zenon DEF WriteDr
    <3> HIDE DEF v
    <3> QED BY <3>1, <3>2
  <2>8. /\ r \in Regs \ {"ip", "cr3", "tlb", "cr8"}
        /\ \/ r \in InVmcs /\ v = Put(vmcs, r, w) /\ hw' = hw
           \/ r \notin InVmcs /\ v = vmcs /\ hw' = Put(hw, r, w)
    <3>1. r \in InVmcs <=> exit.dr \in {5, 7}
      BY <1>6, <1>9, <1>10
    <3>2. r \in Regs \ {"ip", "cr3", "tlb", "cr8"}
      BY <1>6, <1>10
    <3> HIDE DEF r, w
    <3> QED BY <2>6, <3>1, <3>2
  <2>9. Guest!Effect(View, exit) = Guest!Sets(View, r, w)
    BY <1>8, <2>2
  <2> HIDE DEF r, w, v
  <2> QED BY <1>1, <1>4, <2>3, <2>7, <2>8, <2>9, PutStep
<1>18. CASE /\ exit.cpl = 0 /\ ~InvalidAlias /\ vmcs.dr7 # "flag" /\ ~UpperBitsSet
            /\ exit.op = "mov_from_dr"
  <2> DEFINE w == View[r]
  <2>1. Guest!MovDr(View, exit) = Guest!Sets(View, exit.dst, w)
    BY <1>7, <1>11, <1>18 DEF Guest!MovDr
  <2>2. Guest!Effect(View, exit) = Guest!Sets(View, exit.dst, w)
    BY <1>8, <2>1
  <2>3. ReadDr
    BY <1>18, Zenon DEF VmmpHandleDrAccess
  <2>4. hw' = VmmpSelectRegister(exit.dst, w)
    <3>1. w = CASE DebugRegister = 0 -> hw.dr0
                [] DebugRegister = 6 -> hw.dr6
                [] DebugRegister = 7 -> vmcs.dr7
      BY <1>7, <1>9, <1>10
    <3> HIDE DEF w
    <3> QED BY <2>3, <3>1 DEF ReadDr
  <2>5. VmmpAdjustGuestInstructionPointer(vmcs)
    BY <2>3, Zenon DEF ReadDr
  <2>6. Fits(exit.dst, w)
    <3>1. w \in DrWords
      BY <1>2, <1>10, TypedRegisters DEF DrWords, Dr7Words, Plain
    <3> HIDE DEF w
    <3> QED BY <1>9, <1>18, <3>1 DEF Fits, Flags, Plain
  <2>7. exit.dst \in {"reg", "sp"}
    BY <1>9, <1>18
  <2> HIDE DEF w
  <2> QED BY <1>1, <1>4, <2>2, <2>4, <2>5, <2>6, <2>7, SelectStep
<1> QED BY <1>1, <1>13, <1>14, <1>15, <1>16, <1>17, <1>18

\* The exceptions of the bitmap: none is one that a completed instruction or
\* the VMM itself may raise.
LEMMA ExceptionStep ==
  ASSUME VmExitInv, VmmpHandleException
  PROVE  VmExitInv' /\ Guest!Execute(exit)
<1> DEFINE e == Guest!Effect(View, exit)
<1>1. /\ VmmpHandleVmExit({"touch", "int3", "rdmsr", "wrmsr"}) /\ mode = "root"
      /\ exit.op \in {"touch", "int3", "rdmsr", "wrmsr"} /\ ~Exits(exit)
      /\ guest_cr8' = guest_cr8 /\ vmcs' = vmcs
  BY DEF VmmpHandleException, VmmpHandleVmExit
<1>2. exit \in InstructionForms /\ Typed(View)
  BY <1>1, RootState
<1>3. View = HostView(hw, vmcs, guest_cr8)
  BY <1>1, RootState
<1>4. ~Terminates
  BY <1>1 DEF Terminates
<1>5. IsFile(hw, Regs) /\ IsFile(vmcs, InVmcs)
  BY DEF VmExitInv, FileOK
<1>6. e.pending # None /\ e.pending.vector \in controls /\ "#DB" \notin controls
  <2>1. "#DB" \notin controls
    BY GuestAssumption DEF VmExitInv, OtherOK, Vectors
  <2> HIDE DEF e
  <2> QED BY <1>1, <2>1 DEF VmExitInv, ExitOK, e
<1>7. View.ip = vmcs.ip /\ View.ip \in Nat
  BY <1>2, <1>3, HostViewAt, KeptWhere, TypedRegisters
<1>s. ASSUME NEW r \in Regs \ {"ip", "cr3"}, NEW w, Fits(r, w),
             r = "tlb" => w \in {"none", View.cr3}
      PROVE  e # Guest!Sets(View, r, w)
  <2>1. Guest!Sets(View, r, w).pending =
          IF View.tf THEN [vector |-> "#DB", at |-> View.ip + 1] ELSE None
    BY <1>2, <1>s, SetsSound
  <2> HIDE DEF e
  <2> QED BY <1>6, <2>1
<1>i. ASSUME NEW x \in Vectors, e.pending.vector = x
      PROVE  /\ x = "#BP" => inject' = [vector |-> x, software |-> TRUE]
             /\ x # "#BP" => inject' = [vector |-> x, software |-> FALSE]
  <2> DEFINE b == x = "#BP"
  <2>1. inject' = [vector |-> x, software |-> b]
    BY <1>i DEF VmmpHandleException, VmmpInjectInterruption
  <2>2. b \in BOOLEAN
    OBVIOUS
  <2>3. CASE b
    <3>1. b = TRUE
      BY <2>2, <2>3
    <3>2. x = "#BP"
      BY <2>3
    <3> HIDE DEF b
    <3> QED BY <2>1, <3>1, <3>2
  <2>4. CASE ~b
    <3>1. b = FALSE
      BY <2>2, <2>4
    <3>2. x # "#BP"
      BY <2>4
    <3> HIDE DEF b
    <3> QED BY <2>1, <3>1, <3>2
  <2> QED BY <2>2, <2>3, <2>4
<1>8. CASE exit.op = "touch"
  <2> DEFINE d == Put(View, "cr2", exit.word)
  <2>1. e = Guest!Touch(View, exit) /\ exit.fault \in BOOLEAN /\ exit.word \in Words
    BY <1>2, <1>8, EffectOf, Forms
  <2>2. exit.fault
    <3>1. SUFFICES ASSUME ~exit.fault PROVE FALSE
      OBVIOUS
    <3>2. e = Guest!Sets(View, "tlb", View.cr3)
      BY <2>1, <3>1 DEF Guest!Touch
    <3>3. Fits("tlb", View.cr3) /\ "tlb" \in Regs \ {"ip", "cr3"}
      BY <1>2, TypedRegisters, RegisterSets DEF Fits, Flags, Plain
    <3> HIDE DEF e
    <3> QED BY <1>s, <3>2, <3>3
  <2>3. e = Guest!Faults(d, "#PF")
    BY <2>1, <2>2 DEF Guest!Touch, Put
  <2>4. "cr2" \in Regs \ (InVmcs \cup {"cr8"}) /\ Fits("cr2", exit.word)
    BY <2>1, KeptWhere DEF Fits, Flags, Plain
  <2>5. Typed(d) /\ (Current(View) => Current(d)) /\ d.ip = View.ip
    BY <1>2, <2>4, KeptWhere, PutTyped
  <2>6. "#PF" \in Vectors
    BY DEF Vectors
  <2>7. e.cpu = d /\ e.pending = [vector |-> "#PF", at |-> View.ip]
    <3>1. /\ Guest!Faults(d, "#PF").cpu = d
          /\ Guest!Faults(d, "#PF").pending = [vector |-> "#PF", at |-> View.ip]
      <4> HIDE DEF d
      <4> QED BY <1>2, <2>5, <2>6, FaultsSound
    <3> HIDE DEF d, e
    <3> QED BY <2>3, <3>1
  <2>8. hw' = Put(hw, "cr2", exit.word) /\ entryLen' = entryLen
    BY <2>7 DEF VmmpHandleException, Put
  <2> DEFINE no == FALSE
  <2>9. VmmpInjectInterruption("#PF", no)
    BY <1>i, <2>6, <2>7 DEF VmmpInjectInterruption
  <2>10. e.pending = [vector |-> "#PF", at |-> vmcs.ip + IF no THEN entryLen' ELSE 0]
    BY <1>7, <2>7
  <2>11. HostView(hw', vmcs', guest_cr8') = d
    <3>1. HostView(Put(hw, "cr2", exit.word), vmcs, guest_cr8)
            = Put(HostView(hw, vmcs, guest_cr8), "cr2", exit.word)
      BY <1>5, <2>4, HostViewPutHw
    <3> QED BY <1>1, <1>3, <2>8, <3>1
  <2>12. Survives(View, exit, e, HostView(hw', vmcs', guest_cr8'))
    <3>1. Survives(View, exit, e, d)
      <4> HIDE DEF d, e
      <4> QED BY <2>7 DEF Survives
    <3> HIDE DEF d, e
    <3> QED BY <2>11, <3>1
  <2>13. /\ IsFile(vmcs', InVmcs) /\ vmcs'.ip = vmcs.ip /\ IsFile(hw', Regs)
         /\ \A s \in InVmcs \cup {"cr8"} : hw'[s] = hw[s]
    BY <1>1, <1>5, <2>4, <2>8, KeptWhere, PutFile
  <2>14. no \in BOOLEAN /\ entryLen' \in 0 .. 1
    BY <2>8 DEF VmExitInv, EventOK
  <2> HIDE DEF no
  <2> QED BY <1>1, <1>4, <2>6, <2>9, <2>10, <2>12, <2>13, <2>14, RefuseStep
<1>9. CASE exit.op = "int3"
  <2> DEFINE yes == TRUE
  <2>1. e.cpu = View /\ e.pending = [vector |-> "#BP", at |-> View.ip + 1]
    <3>1. e = [cpu |-> View, pending |-> Guest!Raise("#BP", View.ip + 1)]
      BY <1>2, <1>9, EffectOf
    <3> HIDE DEF e
    <3> QED BY <3>1 DEF Guest!Raise
  <2>2. hw' = hw /\ entryLen' = 1
    BY <2>1 DEF VmmpHandleException
  <2>3. VmmpInjectInterruption("#BP", yes)
    BY <1>i, <2>1 DEF VmmpInjectInterruption, Vectors
  <2>4. e.pending = [vector |-> "#BP", at |-> vmcs.ip + IF yes THEN entryLen' ELSE 0]
    BY <1>7, <2>1, <2>2
  <2>5. Survives(View, exit, e, HostView(hw', vmcs', guest_cr8'))
    <3>1. Survives(View, exit, e, View)
      <4> HIDE DEF e
      <4> QED BY <2>1 DEF Survives
    <3>2. HostView(hw', vmcs', guest_cr8') = View
      BY <1>1, <1>3, <2>2
    <3> HIDE DEF e
    <3> QED BY <3>1, <3>2
  <2>6. /\ IsFile(vmcs', InVmcs) /\ vmcs'.ip = vmcs.ip /\ IsFile(hw', Regs)
        /\ \A s \in InVmcs \cup {"cr8"} : hw'[s] = hw[s]
    BY <1>1, <1>5, <2>2
  <2>7. yes \in BOOLEAN /\ entryLen' \in 0 .. 1 /\ "#BP" \in Vectors
    BY <2>2 DEF Vectors
  <2> HIDE DEF yes
  <2> QED BY <1>1, <1>4, <2>3, <2>4, <2>5, <2>6, <2>7, RefuseStep
<1>10. CASE exit.op \in {"rdmsr", "wrmsr"}
  <2>1. exit.msr \in Msrs /\ (exit.op = "wrmsr" => exit.word \in Words)
    BY <1>2, <1>10, Forms
  <2>2. exit.msr \in {"absent", "hole"}
    <3>1. SUFFICES ASSUME exit.msr \notin {"absent", "hole"} PROVE FALSE
      OBVIOUS
    <3>2. exit.msr \in Plain \ {"cr3"} /\ exit.msr \in Regs \ {"ip", "cr3", "tlb"}
      BY <2>1, <3>1, RegisterSets DEF Msrs
    <3>3. CASE exit.op = "wrmsr"
      <4>1. e = Guest!Sets(View, exit.msr, exit.word)
        BY <1>2, <3>1, <3>3, EffectOf
      <4>2. Fits(exit.msr, exit.word)
        BY <2>1, <3>2, <3>3, PlainFits
      <4> HIDE DEF e
      <4> QED BY <1>s, <3>2, <4>1, <4>2
    <3>4. CASE exit.op = "rdmsr"
      <4>1. e = Guest!Sets(View, "reg", View[exit.msr])
        BY <1>2, <3>1, <3>4, EffectOf
      <4>2. Fits("reg", View[exit.msr]) /\ "reg" \in Regs \ {"ip", "cr3"}
        <5>1. View[exit.msr] \in Words
          BY <1>2, <3>2, TypedRegisters
        <5> QED BY <5>1, RegisterSets DEF Fits, Flags, Plain, DrWords, Dr7Words
      <4> HIDE DEF e
      <4> QED BY <1>s, <4>1, <4>2
    <3> QED BY <1>10, <3>3, <3>4
  <2>3. e = Guest!Faults(View, "#GP")
    BY <1>2, <1>10, <2>2, EffectOf
  <2>4. "#GP" \in Vectors
    BY DEF Vectors
  <2>5. e.pending = [vector |-> "#GP", at |-> View.ip]
    <3>1. Guest!Faults(View, "#GP").pending = [vector |-> "#GP", at |-> View.ip]
      BY <1>2, <2>4, FaultsHere
    <3> HIDE DEF e
    <3> QED BY <2>3, <3>1
  <2>6. hw' = hw /\ entryLen' = entryLen
    BY <2>5 DEF VmmpHandleException
  <2>7. VmmpInjectInterruption("#GP", FALSE)
    <3>1. e.pending.vector = "#GP"
      BY <2>5
    <3>2. inject' = [vector |-> "#GP", software |-> FALSE]
      BY <1>i, <2>4, <3>1
    <3> QED BY <3>2, Zenon DEF VmmpInjectInterruption
  <2>8. entryLen' \in 0 .. 1 /\ UNCHANGED <<hw, vmcs, guest_cr8>>
    BY <1>1, <2>6 DEF VmExitInv, EventOK
  <2> QED BY <1>1, <1>4, <2>3, <2>4, <2>7, <2>8, FaultStep
<1> QED BY <1>1, <1>8, <1>9, <1>10
-----------------------------------------------------------------------------
(* The steps between the handlers.                                         *)

\* A step the guest does not notice.
Unnoticed == View' = View /\ ViewPending' = ViewPending /\ last' = last /\ Power' = Power

\* Outside the guest, whatever the VMM is at.
LEMMA HostState ==
  ASSUME VmExitInv, InHost
  PROVE  View = HostView(hw, vmcs, guest_cr8) /\ Typed(View)
<1> USE DEF VmExitInv
<1>1. View = HostView(hw, vmcs, guest_cr8)
  BY ViewIs DEF FileOK
<1>2. IsFile(View, Regs)
  BY <1>1, HostViewAt
<1>3. ASSUME NEW r \in Regs PROVE Fits(r, View[r])
  <2>1. CASE r \in InVmcs
    <3>1. View[r] = vmcs[r]
      BY <2>1, <1>1, HostViewAt
    <3> QED BY <2>1, <3>1 DEF FileOK
  <2>2. CASE r = "cr8"
    <3>1. View[r] = guest_cr8 /\ guest_cr8 \in Levels
      BY <2>2, <1>1, HostViewAt DEF OtherOK
    <3> QED BY <2>2, <3>1 DEF Fits, Flags, Plain
  <2>3. CASE r \notin InVmcs \cup {"cr8"}
    <3>1. View[r] = hw[r]
      BY <2>3, <1>1, HostViewAt
    <3>2. r \notin HostOwned
      BY <2>3, Names
    <3> QED BY <3>1, <3>2 DEF FileOK
  <2> QED BY <2>1, <2>2, <2>3
<1> QED BY <1>1, <1>2, <1>3 DEF Typed

\* In the guest.
LEMMA GuestState ==
  ASSUME VmExitInv, mode = "guest"
  PROVE  /\ View = GuestView(hw, vmcs, controls) /\ Typed(hw) /\ Typed(View)
         /\ Current(View) /\ \A r \in Regs \ Debug : View[r] = hw[r]
         /\ "save_debug" \in controls => View = hw
         /\ "save_debug" \notin controls => \A r \in Debug : View[r] = vmcs[r]
         /\ ViewPending = pending /\ Power = "on"
<1> USE DEF VmExitInv
<1>0. Debug \subseteq InVmcs /\ Debug \subseteq Regs
  BY Names DEF InVmcs
<1>1. View = GuestView(hw, vmcs, controls)
  BY ViewIs DEF FileOK
<1>2. Typed(hw)
  BY DEF FileOK, Typed
<1>3. IsFile(View, Regs)
  BY <1>1 DEF GuestView, IsFile
<1>4. \A r \in Regs \ Debug : View[r] = hw[r]
  BY <1>1 DEF GuestView
<1>5. "save_debug" \notin controls => \A r \in Debug : View[r] = vmcs[r]
  BY <1>0, <1>1 DEF GuestView
<1>6. "save_debug" \in controls => View = hw
  <2>1. "save_debug" \in controls => \A r \in Regs : View[r] = hw[r]
    BY <1>1 DEF GuestView
  <2> QED BY <1>2, <1>3, <2>1, SameFile DEF Typed
<1>7. ASSUME NEW r \in Regs PROVE Fits(r, View[r])
  <2>1. CASE r \in Debug /\ "save_debug" \notin controls
    <3>1. View[r] = vmcs[r]
      BY <1>5, <2>1
    <3> QED BY <1>0, <2>1, <3>1 DEF FileOK
  <2>2. CASE ~(r \in Debug /\ "save_debug" \notin controls)
    <3>1. View[r] = hw[r]
      BY <1>4, <1>6, <2>2
    <3> QED BY <1>2, <3>1 DEF Typed
  <2> QED BY <2>1, <2>2
<1>8. Typed(View)
  BY <1>3, <1>7 DEF Typed
<1>9. Current(View)
  BY DEF ModeOK, Current
<1>10. ViewPending = pending /\ Power = "on"
  BY PowerIs DEF ViewPending
<1> QED BY <1>1, <1>2, <1>4, <1>5, <1>6, <1>8, <1>9, <1>10

\* The VMM repeats an RDMSR, a WRMSR or an XSETBV that faults.
LEMMA HostFaultStep ==
  ASSUME VmExitInv, HostFault
  PROVE  VmExitInv' /\ Guest!Stop(exit) /\ exit \in Instructions
<1>1. /\ mode = "root" /\ Guest!Fatal(View, exit) /\ mode' = "dead" /\ last' = exit
      /\ UNCHANGED <<controls, hw, vmcs, exit, guest_cr8, gp_regs, inject, entryLen,
                     pending, steps>>
  BY DEF HostFault, HostFaults, context
<1>2. View = HostView(hw, vmcs, guest_cr8) /\ ViewPending = None /\ Power = "on"
      /\ exit \in Instructions /\ inject = None
  BY <1>1, RootState
<1>3. IsFile(hw', Regs)
  BY <1>1 DEF VmExitInv, FileOK
<1>4. View' = View
  BY <1>1, <1>2, <1>3, ViewIsNext DEF InHost
<1>5. ViewPending' = ViewPending
  BY <1>1 DEF ViewPending
<1>6. Power' = "stopped"
  BY <1>1, PowerIsNext
<1>7. Guest!Stop(exit)
  BY <1>1, <1>2, <1>4, <1>5, <1>6 DEF Guest!Stop
<1>8. FileOK' /\ EventOK'
  <2>1. FileOK'
    BY <1>1 DEF VmExitInv, FileOK, Starting
  <2>2. EventOK'
    BY <1>1, <1>2 DEF VmExitInv, EventOK
  <2> QED BY <2>1, <2>2
<1>9. ExitOK'
  BY <1>1 DEF VmExitInv, ExitOK
<1>10. IpOK'
  <2>1. pending' = None /\ inject' = None
    BY <1>1, <1>2 DEF VmExitInv, EventOK
  <2> QED BY <1>1, <2>1 DEF VmExitInv, IpOK, Starting
<1>11. ModeOK' /\ OtherOK'
  <2>1. ModeOK'
    BY <1>1 DEF ModeOK, Starting
  <2>2. OtherOK'
    BY <1>1, <1>2 DEF VmExitInv, OtherOK
  <2> QED BY <2>1, <2>2
<1> QED BY <1>2, <1>7, <1>8, <1>9, <1>10, <1>11 DEF VmExitInv

\* The descriptor tables are given back before the guest can notice.
LEMMA TerminationStep ==
  ASSUME VmExitInv, VmmpHandleVmCallTermination
  PROVE  VmExitInv' /\ Unnoticed
<1>1. /\ mode = "root" /\ Terminates /\ mode' = "leaving"
      /\ hw' = Both(hw, "gdtr", vmcs.gdtr, "idtr", vmcs.idtr)
      /\ gp_regs' = [cx |-> vmcs.ip + 1, dx |-> vmcs.sp,
                     ax |-> [tf |-> vmcs.tf, error |-> FALSE]]
      /\ UNCHANGED <<controls, vmcs, exit, guest_cr8, inject, entryLen, pending, last, steps>>
  BY DEF VmmpHandleVmCallTermination, Both
<1>2. View = HostView(hw, vmcs, guest_cr8) /\ ViewPending = None /\ Power = "on"
      /\ exit \in Instructions /\ inject = None /\ Current(View)
  BY <1>1, RootState
<1>3. IsFile(hw, Regs) /\ {"gdtr", "idtr"} \subseteq InVmcs /\ InVmcs \subseteq Regs
      /\ "cr8" \notin InVmcs
  BY KeptWhere DEF VmExitInv, FileOK, Tables
<1>4. /\ IsFile(hw', Regs) /\ hw'.gdtr = vmcs.gdtr /\ hw'.idtr = vmcs.idtr
      /\ \A r \in Regs \ {"gdtr", "idtr"} : hw'[r] = hw[r]
  BY <1>1, <1>3 DEF Both, IsFile
<1>5. View' = View
  <2>1. View' = HostView(hw', vmcs', guest_cr8')
    BY <1>1, <1>4, ViewIsNext DEF InHost
  <2>2. \A r \in Regs : HostView(hw', vmcs', guest_cr8')[r] = HostView(hw, vmcs, guest_cr8)[r]
    BY <1>1, <1>3, <1>4 DEF HostView
  <2>3. HostView(hw', vmcs', guest_cr8') = HostView(hw, vmcs, guest_cr8)
    BY <2>2, HostViewAt, SameFile
  <2> QED BY <1>2, <2>1, <2>3
<1>6. ViewPending' = ViewPending
  BY <1>1 DEF ViewPending
<1>7. Power' = Power
  BY <1>1, <1>2, PowerIsNext
<1>8. FileOK'
  <2>1. ASSUME NEW r \in Regs
        PROVE  Fits(r, hw'[r]) \/ (r \in HostOwned /\ hw'[r] = "host")
    <3>1. CASE r \in {"gdtr", "idtr"}
      <4>1. hw'[r] = vmcs[r] /\ Fits(r, vmcs[r])
        BY <1>3, <1>4, <3>1 DEF VmExitInv, FileOK
      <4> QED BY <4>1
    <3>2. CASE r \notin {"gdtr", "idtr"}
      BY <1>4, <3>2 DEF VmExitInv, FileOK
    <3> QED BY <3>1, <3>2
  <2> QED BY <1>1, <1>4, <2>1 DEF VmExitInv, FileOK, Starting
<1>9. EventOK' /\ ExitOK'
  <2>1. EventOK'
    BY <1>1, <1>2 DEF VmExitInv, EventOK
  <2>2. ExitOK'
    BY <1>1 DEF VmExitInv, ExitOK
  <2> QED BY <2>1, <2>2
<1>10. IpOK'
  <2>1. pending' = None /\ inject' = None
    BY <1>1, <1>2 DEF VmExitInv, EventOK
  <2>2. hw'.ip = hw.ip
    BY <1>4, KeptWhere
  <2> QED BY <1>1, <2>1, <2>2 DEF VmExitInv, IpOK, Starting
<1>11. ModeOK'
  <2>1. View'.tlb \in {"none", View'.cr3}
    BY <1>2, <1>5 DEF Current
  <2>2. Terminates' = Terminates
    BY <1>1 DEF Terminates
  <2> QED BY <1>1, <1>4, <2>1, <2>2 DEF ModeOK, Starting
<1>12. OtherOK'
  BY <1>1 DEF VmExitInv, OtherOK
<1> QED BY <1>1, <1>5, <1>6, <1>7, <1>8, <1>9, <1>10, <1>11, <1>12 DEF VmExitInv, Unnoticed
-----------------------------------------------------------------------------
(* Instructions that run in the guest.                                     *)

\* The processor and the view may differ in the debug controls, and nothing
\* that runs without a VM-exit depends on those.
Alike(c, d) == \A r \in Regs \ Debug : c[r] = d[r]

SameEffect(d, e, f) ==
  e.pending = f.pending /\ Alike(e.cpu, f.cpu) /\ f.cpu.dr7 = d.dr7

LEMMA PutAlike ==
  ASSUME NEW c, NEW d, Typed(c), Typed(d), Alike(c, d), NEW r \in Regs \ {"dr7"}, NEW w
  PROVE  Alike(Put(c, r, w), Put(d, r, w)) /\ Put(d, r, w).dr7 = d.dr7
         /\ IsFile(Put(c, r, w), Regs) /\ IsFile(Put(d, r, w), Regs)
<1>1. /\ IsFile(Put(c, r, w), Regs) /\ Put(c, r, w)[r] = w
      /\ \A q \in Regs \ {r} : Put(c, r, w)[q] = c[q]
  BY PutFile DEF Typed
<1>2. /\ IsFile(Put(d, r, w), Regs) /\ Put(d, r, w)[r] = w
      /\ \A q \in Regs \ {r} : Put(d, r, w)[q] = d[q]
  BY PutFile DEF Typed
<1> QED BY <1>1, <1>2, KeptWhere DEF Alike

LEMMA CompletesAlike ==
  ASSUME NEW c, NEW d, NEW c1, NEW d1, Alike(c, d), Alike(c1, d1), d1.dr7 = d.dr7,
         IsFile(c1, Regs), IsFile(d1, Regs)
  PROVE  SameEffect(d, Guest!Completes(c, c1), Guest!Completes(d, d1))
<1>1. c.ip = d.ip /\ c.tf = d.tf
  BY KeptWhere DEF Alike, Debug
<1> DEFINE n == c.ip + 1
           c2 == Put(c1, "ip", n)
           d2 == Put(d1, "ip", n)
<1>2. /\ Guest!Completes(c, c1).cpu = c2 /\ Guest!Completes(d, d1).cpu = d2
      /\ Guest!Completes(c, c1).pending = Guest!Completes(d, d1).pending
  BY <1>1 DEF Guest!Completes, Put
<1> HIDE DEF n
<1>3. "ip" \in Regs /\ "dr7" \in Regs \ {"ip"}
  BY RegisterSets
<1>4. c2.ip = n /\ \A q \in Regs \ {"ip"} : c2[q] = c1[q]
  BY <1>3, PutFile
<1>5. d2.ip = n /\ \A q \in Regs \ {"ip"} : d2[q] = d1[q]
  BY <1>3, PutFile
<1> HIDE DEF c2, d2
<1>6. Alike(c2, d2)
  BY <1>4, <1>5 DEF Alike
<1>7. d2.dr7 = d.dr7
  BY <1>3, <1>5
<1> QED BY <1>2, <1>6, <1>7 DEF SameEffect

LEMMA SetsAlike ==
  ASSUME NEW c, NEW d, Typed(c), Typed(d), Alike(c, d), NEW r \in Regs \ {"dr7"}, NEW w
  PROVE  SameEffect(d, Guest!Sets(c, r, w), Guest!Sets(d, r, w))
<1>1. /\ Alike(Put(c, r, w), Put(d, r, w)) /\ Put(d, r, w).dr7 = d.dr7
      /\ IsFile(Put(c, r, w), Regs) /\ IsFile(Put(d, r, w), Regs)
  BY PutAlike
<1>2. SameEffect(d, Guest!Completes(c, Put(c, r, w)), Guest!Completes(d, Put(d, r, w)))
  BY <1>1, CompletesAlike
<1> QED BY <1>2, SetsIs

LEMMA FaultsAlike ==
  ASSUME NEW c, NEW d, Alike(c, d), d.dr7 = d.dr7, NEW vector
  PROVE  SameEffect(d, Guest!Faults(c, vector), Guest!Faults(d, vector))
<1>1. c.ip = d.ip
  BY KeptWhere DEF Alike, Debug
<1>2. /\ Guest!Faults(c, vector).cpu = c /\ Guest!Faults(d, vector).cpu = d
      /\ Guest!Faults(c, vector).pending = Guest!Faults(d, vector).pending
  BY <1>1 DEF Guest!Faults, Guest!Raise
<1> QED BY <1>2 DEF SameEffect

LEMMA NativeOps ==
  ASSUME NEW i \in InstructionForms, ~Exits(i)
  PROVE  /\ i.op \in {"popf", "touch", "int3", "invlpg", "rdtsc", "in", "out",
                      "mov_to_cr", "mov_from_cr", "rdmsr", "wrmsr"}
         /\ i.op = "rdmsr" => i.msr = "hole"
         /\ i.op = "mov_to_cr" => i.cr # 3
BY Forms DEF Exits

LEMMA NativeAlike ==
  ASSUME NEW c, NEW d, Typed(c), Typed(d), Alike(c, d),
         NEW i \in InstructionForms, ~Exits(i)
  PROVE  SameEffect(d, Guest!Effect(c, i), Guest!Effect(d, i))
<1>r. \A r \in Regs \ Debug : c[r] = d[r]
  BY DEF Alike
<1>n. {"ip", "tf", "tlb", "reg", "cr3", "cr8", "port", "memory", "counters", "cr2"}
        \subseteq Regs \ Debug
  BY RegisterSets DEF Debug
<1>s. \A w : \A r \in Regs \ {"dr7"} : SameEffect(d, Guest!Sets(c, r, w), Guest!Sets(d, r, w))
  BY SetsAlike
<1>1. CASE i.op = "popf"
  <2>1. Guest!Effect(c, i) = Guest!Sets(c, "tf", i.trap)
    BY <1>1, EffectOf
  <2>2. Guest!Effect(d, i) = Guest!Sets(d, "tf", i.trap)
    BY <1>1, EffectOf
  <2> QED BY <2>1, <2>2, <1>n, <1>s DEF Debug
<1>2. CASE i.op = "touch"
  <2>1. Guest!Effect(c, i) = Guest!Touch(c, i)
    BY <1>2, EffectOf
  <2>2. Guest!Effect(d, i) = Guest!Touch(d, i)
    BY <1>2, EffectOf
  <2>3. CASE i.fault
    <3>1. /\ Guest!Touch(c, i) = Guest!Faults(Put(c, "cr2", i.word), "#PF")
          /\ Guest!Touch(d, i) = Guest!Faults(Put(d, "cr2", i.word), "#PF")
      BY <2>3 DEF Guest!Touch, Put
    <3>2. Alike(Put(c, "cr2", i.word), Put(d, "cr2", i.word))
          /\ Put(d, "cr2", i.word).dr7 = d.dr7
      BY <1>n, PutAlike DEF Debug
    <3>3. SameEffect(Put(d, "cr2", i.word), Guest!Faults(Put(c, "cr2", i.word), "#PF"),
                     Guest!Faults(Put(d, "cr2", i.word), "#PF"))
      BY <3>2, FaultsAlike
    <3> QED BY <2>1, <2>2, <3>1, <3>2, <3>3 DEF SameEffect
  <2>4. CASE ~i.fault
    <3>1. /\ Guest!Touch(c, i) = Guest!Sets(c, "tlb", c.cr3)
          /\ Guest!Touch(d, i) = Guest!Sets(d, "tlb", d.cr3)
      BY <2>4 DEF Guest!Touch
    <3>2. c.cr3 = d.cr3
      BY <1>r, <1>n
    <3>3. SameEffect(d, Guest!Sets(c, "tlb", c.cr3), Guest!Sets(d, "tlb", c.cr3))
      BY <1>n, <1>s DEF Debug
    <3> QED BY <2>1, <2>2, <3>1, <3>2, <3>3
  <2> QED BY <2>3, <2>4
<1>3. CASE i.op = "int3"
  <2>1. Guest!Effect(c, i) = [cpu |-> c, pending |-> Guest!Raise("#BP", c.ip + 1)]
    BY <1>3, EffectOf
  <2>2. Guest!Effect(d, i) = [cpu |-> d, pending |-> Guest!Raise("#BP", d.ip + 1)]
    BY <1>3, EffectOf
  <2>3. c.ip = d.ip
    BY <1>r, <1>n
  <2> QED BY <2>1, <2>2, <2>3 DEF SameEffect
<1>4. CASE i.op = "invlpg"
  <2>1. Guest!Effect(c, i) = Guest!Sets(c, "tlb", "none")
    BY <1>4, EffectOf
  <2>2. Guest!Effect(d, i) = Guest!Sets(d, "tlb", "none")
    BY <1>4, EffectOf
  <2> QED BY <2>1, <2>2, <1>n, <1>s DEF Debug
<1>5. CASE i.op = "rdtsc"
  <2>1. Guest!Effect(c, i) = Guest!Sets(c, "reg", i.word)
    BY <1>5, EffectOf
  <2>2. Guest!Effect(d, i) = Guest!Sets(d, "reg", i.word)
    BY <1>5, EffectOf
  <2> QED BY <2>1, <2>2, <1>n, <1>s DEF Debug
<1>6. CASE i.op \in {"in", "out"}
  <2> DEFINE n == Guest!Counted(c, i)
             c0 == PortWritten(c, i)
             d0 == PortWritten(d, i)
             c1 == Put(c0, "counters", n)
             d1 == Put(d0, "counters", n)
  <2>1. Guest!Effect(c, i) = Guest!Completes(c, c1)
    <3>1. Guest!Effect(c, i) = Guest!PortAccess(c, i)
      BY <1>6, EffectOf
    <3>2. Guest!PortAccess(c, i) = Guest!Completes(c, c1)
      BY <1>6, PortAccessSound
    <3> HIDE DEF c1
    <3> QED BY <3>1, <3>2
  <2>2. Guest!Effect(d, i) = Guest!Completes(d, d1)
    <3>1. Guest!Effect(d, i) = Guest!PortAccess(d, i)
      BY <1>6, EffectOf
    <3>2. Guest!PortAccess(d, i) =
            Guest!Completes(d, Put(PortWritten(d, i), "counters", Guest!Counted(d, i)))
      BY <1>6, PortAccessSound
    <3>3. Guest!Counted(c, i) = Guest!Counted(d, i)
      BY <1>r, <1>n DEF Guest!Counted, Guest!Repeats
    <3> QED BY <3>1, <3>2, <3>3
  <2>3. Alike(c0, d0) /\ d0.dr7 = d.dr7 /\ IsFile(c0, Regs) /\ IsFile(d0, Regs)
    <3>1. c.port = d.port /\ Guest!Repeats(c, i) = Guest!Repeats(d, i)
      BY <1>r, <1>n DEF Guest!Repeats
    <3>2. {"port", "memory", "reg"} \subseteq Regs \ {"dr7"}
      BY <1>n DEF Debug
    <3>3. \A w : \A r \in {"port", "memory", "reg"} :
            /\ Alike(Put(c, r, w), Put(d, r, w)) /\ Put(d, r, w).dr7 = d.dr7
            /\ IsFile(Put(c, r, w), Regs) /\ IsFile(Put(d, r, w), Regs)
      BY <3>2, PutAlike
    <3>4. CASE Guest!Repeats(c, i) = 0
      <4>1. c0 = c /\ d0 = d
        BY <3>1, <3>4 DEF PortWritten
      <4> HIDE DEF c0, d0
      <4> QED BY <4>1 DEF Typed
    <3>5. CASE Guest!Repeats(c, i) # 0 /\ i.op = "out"
      <4>1. c0 = Put(c, "port", i.word) /\ d0 = Put(d, "port", i.word)
        BY <3>1, <3>5 DEF PortWritten
      <4> HIDE DEF c0, d0
      <4> QED BY <4>1, <3>3
    <3>6. CASE Guest!Repeats(c, i) # 0 /\ i.op # "out" /\ i.string
      <4>1. c0 = Put(c, "memory", c.port) /\ d0 = Put(d, "memory", c.port)
        BY <3>1, <3>6 DEF PortWritten
      <4> HIDE DEF c0, d0
      <4> QED BY <4>1, <3>3
    <3>7. CASE Guest!Repeats(c, i) # 0 /\ i.op # "out" /\ ~i.string
      <4>1. c0 = Put(c, "reg", c.port) /\ d0 = Put(d, "reg", c.port)
        BY <3>1, <3>7 DEF PortWritten
      <4> HIDE DEF c0, d0
      <4> QED BY <4>1, <3>3
    <3> QED BY <3>4, <3>5, <3>6, <3>7
  <2>4. Alike(c1, d1) /\ d1.dr7 = d.dr7 /\ IsFile(c1, Regs) /\ IsFile(d1, Regs)
    <3> HIDE DEF n, c0, d0
    <3>1. /\ IsFile(c1, Regs) /\ c1.counters = n /\ \A q \in Regs \ {"counters"} : c1[q] = c0[q]
      BY <2>3, <1>n, PutFile
    <3>2. /\ IsFile(d1, Regs) /\ d1.counters = n /\ \A q \in Regs \ {"counters"} : d1[q] = d0[q]
      BY <2>3, <1>n, PutFile
    <3> HIDE DEF c1, d1
    <3>3. Alike(c1, d1)
      BY <2>3, <3>1, <3>2 DEF Alike
    <3>4. d1.dr7 = d.dr7
      BY <2>3, <3>2, KeptWhere
    <3> QED BY <3>1, <3>2, <3>3, <3>4
  <2> HIDE DEF c1, d1
  <2>5. SameEffect(d, Guest!Completes(c, c1), Guest!Completes(d, d1))
    BY <2>4, CompletesAlike
  <2> QED BY <2>1, <2>2, <2>5
<1>7. CASE i.op = "mov_to_cr"
  <2> DEFINE r == Guest!CrName(i.cr)
             t == IF i.cr \in {3, 4} THEN "none" ELSE c.tlb
             c1 == Put(Put(c, r, i.word), "tlb", t)
             d1 == Put(Put(d, r, i.word), "tlb", t)
  <2>1. r \in {"cr0", "cr3", "cr4", "cr8"}
    BY <1>7, MovToCrSound
  <2>2. r \in Regs \ {"dr7"} /\ r # "tlb" /\ "tlb" \in Regs \ {"dr7"}
    <3> HIDE DEF r
    <3> QED BY <2>1, RegisterSets
  <2>3. c.tlb = d.tlb
    BY <1>r, <1>n
  <2>4. Guest!Effect(c, i) = Guest!Completes(c, c1)
    <3>1. Guest!Effect(c, i) = Guest!MovToCr(c, i)
      BY <1>7, EffectOf
    <3>2. Guest!MovToCr(c, i) = Guest!Completes(c, Both(c, r, i.word, "tlb", t))
      BY <1>7, MovToCrSound
    <3>3. Both(c, r, i.word, "tlb", t) = c1
      <4> HIDE DEF r, t
      <4> QED BY <2>2, BothIsPuts
    <3> HIDE DEF r, t, c1
    <3> QED BY <3>1, <3>2, <3>3
  <2>5. Guest!Effect(d, i) = Guest!Completes(d, d1)
    <3>1. Guest!Effect(d, i) = Guest!MovToCr(d, i)
      BY <1>7, EffectOf
    <3>2. Guest!MovToCr(d, i) = Guest!Completes(d, Both(d, r, i.word, "tlb", t))
      <4>1. Guest!MovToCr(d, i) =
              Guest!Completes(d, Both(d, r, i.word, "tlb",
                                      IF i.cr \in {3, 4} THEN "none" ELSE d.tlb))
        BY <1>7, MovToCrSound
      <4> QED BY <4>1, <2>3
    <3>3. Both(d, r, i.word, "tlb", t) = d1
      <4> HIDE DEF r, t
      <4> QED BY <2>2, BothIsPuts
    <3> HIDE DEF r, t, d1
    <3> QED BY <3>1, <3>2, <3>3
  <2>6. Alike(c1, d1) /\ d1.dr7 = d.dr7 /\ IsFile(c1, Regs) /\ IsFile(d1, Regs)
    <3> HIDE DEF r, t
    <3>1. /\ IsFile(Put(c, r, i.word), Regs) /\ IsFile(Put(d, r, i.word), Regs)
          /\ Alike(Put(c, r, i.word), Put(d, r, i.word))
          /\ Put(d, r, i.word).dr7 = d.dr7
      BY <2>2, PutAlike
    <3> DEFINE c0 == Put(c, r, i.word)
               d0 == Put(d, r, i.word)
    <3> HIDE DEF c0, d0
    <3>2. /\ IsFile(c1, Regs) /\ c1.tlb = t /\ \A q \in Regs \ {"tlb"} : c1[q] = c0[q]
      BY <3>1, <1>n, PutFile DEF c0
    <3>3. /\ IsFile(d1, Regs) /\ d1.tlb = t /\ \A q \in Regs \ {"tlb"} : d1[q] = d0[q]
      BY <3>1, <1>n, PutFile DEF d0
    <3>4. Alike(c0, d0) /\ d0.dr7 = d.dr7
      BY <3>1 DEF c0, d0
    <3> HIDE DEF c1, d1
    <3>5. Alike(c1, d1)
      BY <3>2, <3>3, <3>4 DEF Alike
    <3>6. d1.dr7 = d.dr7
      BY <3>3, <3>4, KeptWhere
    <3> QED BY <3>2, <3>3, <3>5, <3>6
  <2> HIDE DEF c1, d1
  <2>7. SameEffect(d, Guest!Completes(c, c1), Guest!Completes(d, d1))
    BY <2>6, CompletesAlike
  <2> QED BY <2>4, <2>5, <2>7
<1>8. CASE i.op = "mov_from_cr"
  <2> DEFINE r == Guest!CrName(i.cr)
  <2>1. i.cr \in {3, 8} /\ i.dst \in {"reg", "sp"}
    BY <1>8, Forms
  <2>2. r \in {"cr3", "cr8"}
    BY <2>1 DEF Guest!CrName
  <2>3. c[r] = d[r]
    <3> HIDE DEF r
    <3> QED BY <2>2, <1>r, <1>n
  <2>4. Guest!Effect(c, i) = Guest!Sets(c, i.dst, c[r])
    BY <1>8, EffectOf
  <2>5. Guest!Effect(d, i) = Guest!Sets(d, i.dst, d[r])
    BY <1>8, EffectOf
  <2>6. i.dst \in Regs \ {"dr7"}
    BY <2>1, RegisterSets
  <2> HIDE DEF r
  <2>7. SameEffect(d, Guest!Sets(c, i.dst, c[r]), Guest!Sets(d, i.dst, c[r]))
    BY <2>6, <1>s
  <2> QED BY <2>3, <2>4, <2>5, <2>7
<1>9. CASE i.op \in {"rdmsr", "wrmsr"} /\ i.msr \in {"absent", "hole"}
  <2>1. Guest!Effect(c, i) = Guest!Faults(c, "#GP")
    BY <1>9, EffectOf
  <2>2. Guest!Effect(d, i) = Guest!Faults(d, "#GP")
    BY <1>9, EffectOf
  <2>3. SameEffect(d, Guest!Faults(c, "#GP"), Guest!Faults(d, "#GP"))
    BY FaultsAlike
  <2> QED BY <2>1, <2>2, <2>3
<1>10. CASE i.op = "wrmsr" /\ i.msr \notin {"absent", "hole"}
  <2>1. Guest!Effect(c, i) = Guest!Sets(c, i.msr, i.word)
    BY <1>10, EffectOf
  <2>2. Guest!Effect(d, i) = Guest!Sets(d, i.msr, i.word)
    BY <1>10, EffectOf
  <2>3. i.msr \in Regs \ {"dr7"}
    <3>1. i.msr \in {"sysenter", "debugctl", "plain", "outside"}
      BY <1>10, Forms DEF Msrs
    <3> QED BY <3>1, RegisterSets
  <2> QED BY <2>1, <2>2, <2>3, <1>s
<1> QED BY <1>1, <1>2, <1>3, <1>4, <1>5, <1>6, <1>7, <1>8, <1>9, <1>10, NativeOps
-----------------------------------------------------------------------------
\* An instruction that does not exit.
LEMMA NativeStep ==
  ASSUME VmExitInv, mode = "guest", pending = None, steps < MaxSteps, steps' = steps + 1,
         NEW i \in Instructions, ~Exits(i), Native(i)
  PROVE  VmExitInv' /\ Guest!Execute(i)
<1> DEFINE c == View
           e == Guest!Effect(hw, i)
           f == Guest!Effect(View, i)
           new == View'
<1>0. i \in InstructionForms /\ steps \in Nat /\ MaxSteps \in Nat
  BY GuestAssumption DEF VmExitInv, IpOK
<1>1. /\ Typed(hw) /\ Typed(c) /\ Current(c) /\ \A r \in Regs \ Debug : c[r] = hw[r]
      /\ "save_debug" \in controls => c = hw
      /\ "save_debug" \notin controls => \A r \in Debug : c[r] = vmcs[r]
      /\ ViewPending = None /\ Power = "on"
  BY GuestState
<1>2. SameEffect(c, e, f)
  <2>1. Alike(hw, c)
    BY <1>1 DEF Alike
  <2> HIDE DEF c
  <2> QED BY <1>0, <1>1, <2>1, NativeAlike DEF c
<1>3. Sound(hw, e) /\ Sound(c, f)
  <2> HIDE DEF c
  <2> QED BY <1>0, <1>1, EffectSound DEF c
<1>4. /\ mode' = "guest" /\ pending' = e.pending /\ last' = i
      /\ UNCHANGED <<controls, vmcs, exit, guest_cr8, gp_regs, inject, entryLen>>
  BY DEF Native, context
<1>5. /\ IsFile(hw', Regs) /\ \A r \in Regs \ {"dr7"} : hw'[r] = e.cpu[r]
      /\ \/ hw'.dr7 = e.cpu.dr7
         \/ /\ e.pending # None /\ e.pending.vector = "#DB"
            /\ hw'.dr7 = Guest!WithoutGd(e.cpu.dr7)
  <2> DEFINE trapped == e.pending # None /\ e.pending.vector = "#DB"
             w == Guest!WithoutGd(e.cpu.dr7)
             k == e.cpu
  <2>1. hw' = IF trapped THEN Put(k, "dr7", w) ELSE k
    BY DEF Native, Put
  <2>2. IsFile(k, Regs) /\ "dr7" \in Regs
    BY <1>3, RegisterSets DEF Sound, Typed
  <2> HIDE DEF w, k
  <2>3. /\ IsFile(Put(k, "dr7", w), Regs) /\ Put(k, "dr7", w)["dr7"] = w
        /\ \A r \in Regs \ {"dr7"} : Put(k, "dr7", w)[r] = k[r]
    BY <2>2, PutFile
  <2>4. CASE trapped
    <3>1. hw' = Put(k, "dr7", w)
      BY <2>1, <2>4
    <3> QED BY <2>3, <2>4, <3>1 DEF w, k
  <2>5. CASE ~trapped
    <3>1. hw' = k
      BY <2>1, <2>5
    <3> QED BY <2>2, <3>1 DEF k
  <2> QED BY <2>4, <2>5
<1>6. Typed(hw') /\ hw'.ip = e.cpu.ip
  <2>1. Survives(hw, i, e, hw')
    <3>1. {"debugctl", "sp", "reg"} \subseteq Regs \ {"dr7"}
      BY RegisterSets
    <3> HIDE DEF e
    <3> QED BY <1>5, <3>1 DEF Survives
  <2> HIDE DEF e
  <2> QED BY <1>1, <1>3, <1>5, <2>1, SurvivesSound
<1>7. /\ IsFile(new, Regs) /\ \A r \in Regs \ Debug : new[r] = hw'[r]
      /\ "save_debug" \in controls => new = hw'
      /\ "save_debug" \notin controls => \A r \in Debug : new[r] = vmcs[r]
  <2>1. new = GuestView(hw', vmcs, controls)
    BY <1>4, <1>5, ViewIsNext
  <2>2. IsFile(new, Regs) /\ Debug \subseteq Regs
    BY <2>1, RegisterSets DEF GuestView, IsFile, Debug
  <2> HIDE DEF new
  <2>3. "save_debug" \in controls => new = hw'
    <3>1. "save_debug" \in controls => \A r \in Regs : new[r] = hw'[r]
      BY <2>1 DEF GuestView
    <3> QED BY <2>2, <3>1, <1>5, SameFile
  <2>4. \A r \in Regs \ Debug : new[r] = hw'[r]
    BY <2>1 DEF GuestView
  <2>5. "save_debug" \notin controls => \A r \in Debug : new[r] = vmcs[r]
    BY <2>1, <2>2 DEF GuestView
  <2> QED BY <2>2, <2>3, <2>4, <2>5
<1>d. /\ "dr7" \in Debug /\ "debugctl" \in Debug /\ Debug \subseteq Regs
      /\ Regs \ {"dr7", "debugctl"} = Regs \ Debug
      /\ {"sp", "reg", "ip", "tlb", "cr3"} \subseteq Regs \ Debug
  BY RegisterSets DEF Debug
<1>8. Survives(c, i, f, new)
  <2>1. CASE "save_debug" \in controls
    <3>1. c = hw /\ f = e /\ new = hw'
      BY <2>1, <1>1, <1>7
    <3> HIDE DEF c, e, f, new
    <3> QED BY <3>1, <1>5, <1>d DEF Survives
  <2>2. CASE "save_debug" \notin controls
    <3> HIDE DEF c, e, f, new
    <3>1. \A r \in Regs \ Debug : new[r] = f.cpu[r]
      BY <1>2, <1>5, <1>7, <1>d DEF SameEffect, Alike
    <3>2. new.dr7 = c.dr7 /\ new.debugctl = c.debugctl
      BY <1>1, <1>7, <1>d, <2>2
    <3>3. f.cpu.dr7 = c.dr7
      BY <1>2 DEF SameEffect
    <3> QED BY <3>1, <3>2, <3>3, <1>d DEF Survives
  <2> QED BY <2>1, <2>2
<1>9. new \in Guest!Kept(c, i, f) /\ Current(new)
  <2>1. IsFile(f.cpu, Regs)
    BY <1>3 DEF Sound, Typed
  <2> HIDE DEF c, f, new
  <2> QED BY <1>1, <1>3, <1>7, <1>8, <2>1, SurvivesKept, SurvivesSound
<1>10. Guest!Execute(i)
  <2>1. Power' = "on"
    BY <1>4, PowerIsNext
  <2>2. ~Guest!Leaves(i)
    BY DEF Exits, Guest!Leaves
  <2>3. ViewPending' = f.pending
    <3>1. ViewPending' = e.pending
      BY <1>4 DEF ViewPending
    <3> HIDE DEF e, f, c
    <3> QED BY <1>2, <3>1 DEF SameEffect
  <2> QED BY <1>1, <1>4, <1>9, <2>1, <2>2, <2>3 DEF Guest!Execute
<1>11. FileOK'
  BY <1>4, <1>6 DEF VmExitInv, FileOK, Typed
<1>12. EventOK'
  <2>1. pending' = None \/ pending' \in [vector : Vectors, at : Nat]
    <3> HIDE DEF e
    <3> QED BY <1>3, <1>4 DEF Sound
  <2> QED BY <1>4, <2>1 DEF VmExitInv, EventOK
<1>13. ExitOK'
  BY <1>4 DEF VmExitInv, ExitOK
<1>14. IpOK'
  <2>1. hw.ip \in Nat /\ hw.ip <= steps + 1
    BY <1>1, TypedRegisters DEF VmExitInv, IpOK
  <2>2. hw'.ip \in Nat /\ hw'.ip <= hw.ip + 1
    <3>1. hw'.ip \in Nat
      BY <1>6, TypedRegisters
    <3> HIDE DEF e
    <3> QED BY <1>3, <1>6, <3>1 DEF Sound
  <2>3. pending' # None => Guest!Resumes(pending') \in Nat /\ Guest!Resumes(pending') <= hw.ip + 1
    <3>1. SUFFICES ASSUME pending' # None
                   PROVE  Guest!Resumes(pending') \in Nat /\ Guest!Resumes(pending') <= hw.ip + 1
      OBVIOUS
    <3> HIDE DEF e
    <3>2. pending' \in [vector : Vectors, at : Nat] /\ Guest!Resumes(pending') <= hw.ip + 1
      BY <1>3, <1>4, <3>1 DEF Sound
    <3>3. Guest!Resumes(pending') \in Nat
      BY <3>2 DEF Guest!Resumes
    <3> QED BY <3>2, <3>3
  <2>4. inject' = None
    BY <1>4 DEF VmExitInv, EventOK
  <2> QED BY <1>0, <1>4, <2>1, <2>2, <2>3, <2>4 DEF IpOK, Starting
<1>15. ModeOK' /\ OtherOK'
  <2>1. ModeOK'
    BY <1>4, <1>9 DEF Current, ModeOK, Starting
  <2>2. OtherOK'
    BY <1>4 DEF VmExitInv, OtherOK
  <2> QED BY <2>1, <2>2
<1> QED BY <1>10, <1>11, <1>12, <1>13, <1>14, <1>15 DEF VmExitInv

\* A VM-exit takes registers away from the processor and keeps what the guest sees.
LEMMA ExitStep ==
  ASSUME VmExitInv, mode = "guest", pending = None, steps < MaxSteps, steps' = steps + 1,
         NEW i \in Instructions, Exits(i) \/ Intercepted(i), VmmVmExitHandler(i)
  PROVE  VmExitInv' /\ Unnoticed
<1> DEFINE c == View
<1>0. i \in InstructionForms /\ steps \in Nat /\ MaxSteps \in Nat /\ i # None
  BY GuestAssumption DEF VmExitInv, IpOK
<1>1. /\ Typed(hw) /\ Typed(c) /\ Current(c) /\ \A r \in Regs \ Debug : c[r] = hw[r]
      /\ "save_debug" \in controls => c = hw
      /\ "save_debug" \notin controls => \A r \in Debug : c[r] = vmcs[r]
      /\ ViewPending = pending /\ Power = "on"
  BY GuestState
<1>2. /\ mode' = "root" /\ exit' = i /\ guest_cr8' = hw.cr8
      /\ vmcs' = [r \in InVmcs |->
                   IF r \in Debug /\ "save_debug" \notin controls THEN vmcs[r] ELSE hw[r]]
      /\ UNCHANGED <<controls, gp_regs, inject, entryLen, pending, last>>
  BY DEF VmmVmExitHandler
<1>3. hw' = [r \in Regs |->
             IF r \in Debug THEN "zero"
             ELSE IF r \in HostOwned THEN "host"
             ELSE IF r = "cr8" /\ hw.cr8 = "zero" THEN "dispatch"
             ELSE hw[r]]
  <2>1. DOMAIN hw = Regs
    BY <1>1 DEF Typed, IsFile
  <2> QED BY <2>1 DEF VmmVmExitHandler
<1>n. /\ Debug \subseteq InVmcs /\ InVmcs \subseteq Regs /\ HostOwned \subseteq InVmcs
      /\ "cr8" \in Regs \ InVmcs /\ "ip" \in Regs \ (Debug \cup HostOwned \cup {"cr8"})
      /\ "ip" \in InVmcs /\ Debug = {"dr7", "debugctl"} /\ "zero" \in Words \cap Dr7Words
  BY Names, KeptWhere DEF InVmcs, Debug, HostOwned, Words, Dr7Words
<1>4. /\ IsFile(hw', Regs) /\ IsFile(vmcs', InVmcs)
      /\ hw'.ip = hw.ip
      /\ \A r \in Regs \ (InVmcs \cup {"cr8"}) : hw'[r] = hw[r]
  BY <1>2, <1>3, <1>n DEF IsFile
<1>5. \A r \in InVmcs : vmcs'[r] = c[r]
  <2> HIDE DEF c
  <2> QED BY <1>1, <1>2, <1>n
<1>6. View' = c
  <2>1. View' = HostView(hw', vmcs', guest_cr8')
    BY <1>2, <1>4, ViewIsNext DEF InHost
  <2> DEFINE h == HostView(hw', vmcs', guest_cr8')
  <2>2. /\ IsFile(h, Regs) /\ \A r \in InVmcs : h[r] = vmcs'[r]
        /\ \A r \in Regs \ (InVmcs \cup {"cr8"}) : h[r] = hw'[r]
    BY HostViewAt, <1>n
  <2>3. h.cr8 = guest_cr8'
    BY HostViewAt
  <2>4. c.cr8 = hw.cr8
    BY <1>1, <1>n
  <2> HIDE DEF h, c
  <2>5. \A r \in Regs : h[r] = c[r]
    BY <1>1, <1>2, <1>4, <1>5, <1>n, <2>2, <2>3, <2>4
  <2>6. h = c
    BY <1>1, <2>2, <2>5, SameFile DEF Typed
  <2> QED BY <2>1, <2>6 DEF h
<1>7. Unnoticed
  <2>1. ViewPending' = ViewPending
    BY <1>1, <1>2 DEF ViewPending
  <2>2. Power' = Power
    BY <1>1, <1>2, PowerIsNext
  <2> QED BY <1>2, <1>6, <2>1, <2>2 DEF Unnoticed
<1>8. FileOK'
  <2>1. ASSUME NEW r \in Regs
        PROVE  Fits(r, hw'[r]) \/ (r \in HostOwned /\ hw'[r] = "host")
    <3>1. CASE r \in Debug
      <4>1. hw'[r] = "zero"
        BY <1>3, <3>1
      <4>2. Fits("dr7", "zero") /\ Fits("debugctl", "zero")
        BY <1>n DEF Fits, Flags, Plain
      <4> QED BY <1>n, <3>1, <4>1, <4>2
    <3>2. CASE r \in HostOwned \ Debug
      BY <1>3, <3>2
    <3>3. CASE r = "cr8"
      <4>1. hw'[r] \in Levels
        <5>1. hw.cr8 \in Levels
          BY <1>1, TypedRegisters
        <5> QED BY <1>3, <1>n, <3>3, <5>1 DEF Levels
      <4> QED BY <3>3, <4>1 DEF Fits, Flags, Plain
    <3>4. CASE r \notin Debug \cup HostOwned \cup {"cr8"}
      <4>1. hw'[r] = hw[r]
        BY <1>3, <3>4
      <4> QED BY <1>1, <4>1 DEF Typed
    <3> QED BY <3>1, <3>2, <3>3, <3>4
  <2>2. \A r \in InVmcs : Fits(r, vmcs'[r])
    <3> HIDE DEF c
    <3> QED BY <1>1, <1>5, <1>n DEF Typed
  <2> QED BY <1>2, <1>4, <2>1, <2>2 DEF FileOK, Starting
<1>9. EventOK'
  BY <1>2 DEF VmExitInv, EventOK
<1>10. ExitOK'
  <2>1. CASE Exits(i)
    <3>1. Exits(exit)'
      BY <1>2, <2>1 DEF Exits
    <3> QED BY <1>0, <1>2, <3>1 DEF ExitOK
  <2>2. CASE ~Exits(i)
    <3>1. Alike(hw, c)
      BY <1>1 DEF Alike
    <3>2. SameEffect(c, Guest!Effect(hw, i), Guest!Effect(c, i))
      <4> HIDE DEF c
      <4> QED BY <1>0, <1>1, <2>2, <3>1, NativeAlike
    <3>3. Guest!Effect(View, exit)' = Guest!Effect(c, i)
      <4>1. View' = View
        BY <1>6
      <4> QED BY <1>2, <4>1 DEF Guest!Effect, Guest!Sets, Guest!Completes, Guest!Faults,
              Guest!Raise, Guest!Touch, Guest!MovDr, Guest!MovToCr, Guest!PortAccess,
              Guest!Vmcall, Guest!DrName, Guest!CrName, Guest!WithoutGd, Guest!DrWritten
    <3>4. LET raised == Guest!Effect(hw, i).pending IN
          raised # None /\ raised.vector \in controls
      BY <2>2 DEF Intercepted
    <3>5. Guest!Effect(hw, i).pending = Guest!Effect(c, i).pending
      BY <3>2 DEF SameEffect
    <3>6. LET raised == Guest!Effect(c, i).pending IN
          raised # None /\ raised.vector \in controls
      BY <3>4, <3>5
    <3>7. (LET raised == Guest!Effect(View, exit).pending IN
           raised # None /\ raised.vector \in controls)'
      BY <1>2, <3>3, <3>6
    <3> QED BY <1>0, <1>2, <3>7 DEF ExitOK
  <2> QED BY <2>1, <2>2
<1>11. IpOK'
  <2>1. hw.ip \in Nat /\ hw.ip <= steps + 1
    BY <1>1, TypedRegisters DEF VmExitInv, IpOK
  <2>2. vmcs'.ip = hw.ip
    BY <1>2, <1>n
  <2>3. inject' = None
    BY <1>2 DEF VmExitInv, EventOK
  <2> QED BY <1>0, <1>2, <1>4, <2>1, <2>2, <2>3 DEF IpOK, Starting
<1>12. ModeOK' /\ OtherOK'
  <2>1. ModeOK'
    BY <1>1, <1>2, <1>6 DEF Current, ModeOK, Starting
  <2>2. guest_cr8' \in Levels
    BY <1>1, <1>2, TypedRegisters
  <2>3. OtherOK'
    BY <1>2, <2>2 DEF VmExitInv, OtherOK
  <2> QED BY <2>1, <2>3
<1> QED BY <1>7, <1>8, <1>9, <1>10, <1>11, <1>12 DEF VmExitInv
-----------------------------------------------------------------------------
\* The guest's handler of an exception returns, below the VMM or without it.
LEMMA DeliverStep ==
  ASSUME VmExitInv, Deliver
  PROVE  VmExitInv' /\ Guest!Deliver
<1> DEFINE n == Guest!Resumes(pending)
<1>1. /\ mode \in {"guest", "off"} /\ pending # None /\ hw' = Put(hw, "ip", n)
      /\ pending' = None
      /\ UNCHANGED <<controls, mode, vmcs, exit, guest_cr8, gp_regs, inject, entryLen,
                     last, steps>>
  BY DEF Deliver, context, Put
<1>2. /\ pending \in [vector : Vectors, at : Nat] /\ n \in Nat /\ n <= steps + 1
      /\ inject = None
  <2>1. pending \in [vector : Vectors, at : Nat] /\ inject = None
    BY <1>1 DEF VmExitInv, EventOK
  <2>2. n \in Nat
    BY <2>1 DEF Guest!Resumes
  <2> QED BY <1>1, <2>1, <2>2 DEF VmExitInv, IpOK
<1> HIDE DEF n
<1>n. "ip" \in Regs \ Debug /\ "ip" \notin HostOwned /\ {"tlb", "cr3"} \subseteq Regs \ {"ip"}
  BY RegisterSets DEF Debug, HostOwned
<1>3. IsFile(hw, Regs)
  BY DEF VmExitInv, FileOK
<1>4. IsFile(hw', Regs) /\ hw'.ip = n /\ \A r \in Regs \ {"ip"} : hw'[r] = hw[r]
  BY <1>1, <1>3, <1>n, PutFile
<1>5. View' = Put(View, "ip", n)
  <2>1. CASE mode = "off"
    <3>1. View = hw /\ View' = hw'
      BY <1>1, <1>3, <1>4, <2>1, ViewIs, ViewIsNext DEF Bare
    <3> QED BY <1>1, <3>1
  <2>2. CASE mode = "guest"
    <3> DEFINE g == GuestView(hw, vmcs, controls)
               h == GuestView(hw', vmcs, controls)
    <3>1. View = g /\ View' = h
      BY <1>1, <1>3, <1>4, <2>2, ViewIs, ViewIsNext
    <3>2. /\ IsFile(g, Regs) /\ IsFile(h, Regs)
          /\ \A r \in Regs : g[r] = IF r \in Debug /\ "save_debug" \notin controls
                                    THEN vmcs[r] ELSE hw[r]
          /\ \A r \in Regs : h[r] = IF r \in Debug /\ "save_debug" \notin controls
                                    THEN vmcs[r] ELSE hw'[r]
      BY DEF GuestView, IsFile
    <3> HIDE DEF g, h
    <3>3. /\ IsFile(Put(g, "ip", n), Regs) /\ Put(g, "ip", n)["ip"] = n
          /\ \A r \in Regs \ {"ip"} : Put(g, "ip", n)[r] = g[r]
      BY <3>2, <1>n, PutFile
    <3>4. \A r \in Regs : h[r] = Put(g, "ip", n)[r]
      BY <3>2, <3>3, <1>4, <1>n
    <3>5. h = Put(g, "ip", n)
      BY <3>2, <3>3, <3>4, SameFile
    <3> QED BY <3>1, <3>5
  <2> QED BY <1>1, <2>1, <2>2
<1>6. IsFile(View, Regs)
  <2>1. View = hw \/ View = GuestView(hw, vmcs, controls)
    BY <1>1, <1>3, ViewIs DEF Bare
  <2>2. IsFile(GuestView(hw, vmcs, controls), Regs)
    BY DEF GuestView, IsFile
  <2> QED BY <2>1, <2>2, <1>3
<1>7. Guest!Deliver
  <2>1. ViewPending = pending /\ ViewPending' = None
    BY <1>1 DEF ViewPending
  <2>2. Power' = Power
    BY <1>1 DEF Power
  <2>3. View' = [View EXCEPT !.ip = Guest!Resumes(pending)]
    BY <1>5 DEF Put, n
  <2> QED BY <1>1, <2>1, <2>2, <2>3 DEF Guest!Deliver
<1>8. FileOK'
  <2>1. Fits("ip", n)
    BY <1>2 DEF Fits, Flags, Plain
  <2>2. ASSUME NEW r \in Regs
        PROVE  /\ Fits(r, hw'[r]) \/ (r \in HostOwned /\ hw'[r] = "host")
               /\ mode \in Starting \cup {"guest"} => Fits(r, hw'[r])
    <3>1. CASE r = "ip"
      BY <1>4, <2>1, <3>1
    <3>2. CASE r # "ip"
      <4>1. hw'[r] = hw[r]
        BY <1>4, <3>2
      <4> QED BY <4>1 DEF VmExitInv, FileOK
    <3> QED BY <3>1, <3>2
  <2> QED BY <1>1, <1>4, <2>2 DEF VmExitInv, FileOK
<1>9. EventOK' /\ ExitOK'
  <2>1. EventOK'
    BY <1>1 DEF VmExitInv, EventOK
  <2>2. ExitOK'
    BY <1>1 DEF VmExitInv, ExitOK
  <2> QED BY <2>1, <2>2
<1>10. IpOK'
  BY <1>1, <1>2, <1>4 DEF VmExitInv, IpOK, Starting
<1>11. ModeOK' /\ OtherOK'
  <2>1. View'.tlb = View.tlb /\ View'.cr3 = View.cr3
    <3>1. \A r \in Regs \ {"ip"} : Put(View, "ip", n)[r] = View[r]
      BY <1>6, <1>n, PutFile
    <3> QED BY <1>5, <1>n, <3>1
  <2>2. ModeOK'
    BY <1>1, <2>1 DEF VmExitInv, ModeOK, Starting
  <2>3. OtherOK'
    BY <1>1 DEF VmExitInv, OtherOK
  <2> QED BY <2>2, <2>3
<1> QED BY <1>7, <1>8, <1>9, <1>10, <1>11 DEF VmExitInv

\* The VM entry puts everything back.
LEMMA ResumeStep ==
  ASSUME VmExitInv, Resume
  PROVE  VmExitInv' /\ Unnoticed
<1> DEFINE c == View
<1>1. /\ mode = "handled" /\ mode' = "guest" /\ pending' = Injected /\ inject' = None
      /\ exit' = None
      /\ UNCHANGED <<controls, vmcs, guest_cr8, gp_regs, entryLen, last, steps>>
  BY DEF Resume, context
<1>2. c = HostView(hw, vmcs, guest_cr8) /\ Typed(c)
  BY <1>1, HostState DEF InHost
<1>3. hw' = c
  <2>1. DOMAIN hw = Regs
    BY DEF VmExitInv, FileOK, IsFile
  <2>2. hw' = HostView(hw, vmcs, guest_cr8)
    BY <2>1 DEF Resume, HostView
  <2> QED BY <1>2, <2>2
<1>4. View' = c
  <2>1. View' = GuestView(hw', vmcs, controls)
    BY <1>1, <1>2, <1>3, ViewIsNext DEF Typed
  <2> DEFINE g == GuestView(hw', vmcs, controls)
  <2>2. /\ IsFile(g, Regs)
        /\ \A r \in Regs : g[r] = IF r \in Debug /\ "save_debug" \notin controls
                                  THEN vmcs[r] ELSE hw'[r]
    BY DEF GuestView, IsFile
  <2>3. \A r \in Debug : c[r] = vmcs[r]
    BY <1>2, HostViewAt DEF InVmcs
  <2> HIDE DEF g, c
  <2>4. \A r \in Regs : g[r] = c[r]
    BY <1>3, <2>2, <2>3
  <2>5. g = c
    BY <1>2, <2>2, <2>4, SameFile DEF Typed
  <2> QED BY <2>1, <2>5 DEF g
<1>5. Unnoticed
  <2>1. ViewPending' = ViewPending
    BY <1>1 DEF ViewPending
  <2>2. Power' = Power
    BY <1>1, PowerIs, PowerIsNext
  <2> QED BY <1>1, <1>4, <2>1, <2>2 DEF Unnoticed
<1>6. c.ip = vmcs.ip /\ c.ip \in Nat /\ entryLen \in 0 .. 1
  <2>1. c.ip = vmcs.ip
    BY <1>2, HostViewAt DEF InVmcs
  <2>2. c.ip \in Nat
    <3> HIDE DEF c
    <3> QED BY <1>2, TypedRegisters
  <2> QED BY <2>1, <2>2 DEF VmExitInv, EventOK
<1>7. pending' = None \/ pending' \in [vector : Vectors, at : Nat]
  <2>1. CASE inject = None
    BY <1>1, <2>1 DEF Injected
  <2>2. CASE inject # None
    <3>1. inject \in [vector : Vectors, software : BOOLEAN]
      BY <2>2 DEF VmExitInv, EventOK
    <3> HIDE DEF c
    <3>2. vmcs.ip + (IF inject.software THEN entryLen ELSE 0) \in Nat
      BY <1>6
    <3>3. Injected = [vector |-> inject.vector,
                      at |-> vmcs.ip + (IF inject.software THEN entryLen ELSE 0)]
      BY <2>2 DEF Injected
    <3> QED BY <1>1, <3>1, <3>2, <3>3
  <2> QED BY <2>1, <2>2
<1>8. FileOK'
  BY <1>1, <1>2, <1>3 DEF VmExitInv, FileOK, Typed
<1>9. EventOK' /\ ExitOK'
  <2>1. EventOK'
    BY <1>1, <1>7 DEF VmExitInv, EventOK
  <2>2. ExitOK'
    BY <1>1 DEF VmExitInv, ExitOK
  <2> QED BY <2>1, <2>2
<1>10. IpOK'
  <2>1. hw'.ip <= steps + 1
    BY <1>1, <1>3, <1>6 DEF VmExitInv, IpOK
  <2>2. pending' # None => Guest!Resumes(pending') <= steps + 1
    BY <1>1 DEF VmExitInv, IpOK, Injected
  <2> QED BY <1>1, <2>1, <2>2 DEF VmExitInv, IpOK, Starting
<1>11. ModeOK' /\ OtherOK'
  <2>1. View'.tlb \in {"none", View'.cr3}
    BY <1>1, <1>4 DEF VmExitInv, ModeOK
  <2>2. ModeOK'
    BY <1>1, <2>1 DEF ModeOK, Starting
  <2>3. OtherOK'
    BY <1>1 DEF VmExitInv, OtherOK
  <2> QED BY <2>2, <2>3
<1> QED BY <1>5, <1>8, <1>9, <1>10, <1>11 DEF VmExitInv
-----------------------------------------------------------------------------
\* What the VMCALL that ends the VMM does on a processor of its own.
LEMMA LeaveEffect ==
  ASSUME NEW c, Typed(c), NEW i \in InstructionForms, Guest!Leaves(i)
  PROVE  LET e == Guest!Effect(c, i) IN
         /\ e.cpu.ip = c.ip + 1 /\ e.cpu.error = FALSE
         /\ \A r \in Regs \ {"ip", "error"} : e.cpu[r] = c[r]
         /\ e.pending = IF c.tf THEN Guest!Raise("#DB", c.ip + 1) ELSE None
<1> DEFINE b == c.shared \/ i.number = "get_shared"
           d == Both(c, "error", FALSE, "shared", b)
           e == Guest!Effect(c, i)
<1>1. i.op = "vmcall" /\ i.number = "terminate" /\ i.cpl = 0
  BY DEF Guest!Leaves
<1>2. e = Guest!Vmcall(c, i)
  BY <1>1, EffectOf
<1>3. /\ Guest!Vmcall(c, i) =
              IF i.number = "unsupported" \/ (i.number = "terminate" /\ i.cpl # 0)
              THEN Guest!Faults(c, "#UD") ELSE Guest!Completes(c, d)
      /\ Typed(d) /\ (Current(c) => Current(d))
      /\ d.error = FALSE /\ d.shared = b
      /\ \A r \in Regs \ {"error", "shared"} : d[r] = c[r]
  BY <1>1, VmcallSound
<1>4. c.shared \in BOOLEAN /\ b = c.shared
  BY <1>1, TypedRegisters
<1>5. {"error", "shared"} \subseteq Regs \ {"ip"}
  BY RegisterSets
<1> HIDE DEF d, b
<1>6. e = Guest!Completes(c, d)
  <2> HIDE DEF e
  <2> QED BY <1>1, <1>2, <1>3
<1>t. Typed(d) /\ (Current(c) => Current(d))
  BY <1>3
<1>7. /\ Guest!Completes(c, d).cpu.ip = c.ip + 1
      /\ Guest!Completes(c, d).pending =
           IF c.tf THEN [vector |-> "#DB", at |-> c.ip + 1] ELSE None
      /\ \A q \in Regs \ {"ip"} : Guest!Completes(c, d).cpu[q] = d[q]
  BY <1>t, CompletesSound
<1>8. Guest!Completes(c, d).pending = IF c.tf THEN Guest!Raise("#DB", c.ip + 1) ELSE None
  BY <1>7 DEF Guest!Raise
<1> HIDE DEF e
<1> QED BY <1>3, <1>4, <1>5, <1>6, <1>7, <1>8 DEF e

\* The VMM leaves.
LEMMA VmxOffStep ==
  ASSUME VmExitInv, VmxOff
  PROVE  VmExitInv' /\ Guest!Leave(exit) /\ exit \in Instructions
<1> DEFINE c == View
           e == Guest!Effect(c, exit)
           at == vmcs.ip + 1
<1>1. /\ mode = "leaving" /\ mode' = "off" /\ last' = exit /\ exit' = None
      /\ hw' = [hw EXCEPT !.ip = gp_regs.cx, !.sp = gp_regs.dx, !.tf = gp_regs.ax.tf,
                          !.error = gp_regs.ax.error, !.cr8 = guest_cr8, !.tlb = "none"]
      /\ pending' = IF gp_regs.ax.tf THEN Guest!Raise("#DB", gp_regs.cx) ELSE None
      /\ UNCHANGED <<controls, vmcs, guest_cr8, gp_regs, inject, entryLen, steps>>
  BY DEF VmxOff, context
<1>2. /\ c = HostView(hw, vmcs, guest_cr8) /\ Typed(c)
      /\ Terminates /\ hw.gdtr = vmcs.gdtr /\ hw.idtr = vmcs.idtr
      /\ gp_regs.cx = at /\ gp_regs.dx = vmcs.sp /\ gp_regs.ax.tf = vmcs.tf
      /\ gp_regs.ax.error = FALSE
      /\ pending = None /\ inject = None /\ vmcs.ip <= steps
      /\ exit \in Instructions /\ exit \in InstructionForms
      /\ Power = "on" /\ ViewPending = None
  <2>1. c = HostView(hw, vmcs, guest_cr8) /\ Typed(c)
    BY <1>1, HostState DEF InHost
  <2>2. Terminates /\ hw.gdtr = vmcs.gdtr /\ hw.idtr = vmcs.idtr
    BY <1>1 DEF VmExitInv, ModeOK
  <2>3. gp_regs = [cx |-> vmcs.ip + 1, dx |-> vmcs.sp,
                   ax |-> [tf |-> vmcs.tf, error |-> FALSE]]
    BY <1>1 DEF VmExitInv, ModeOK
  <2>4. pending = None /\ inject = None /\ vmcs.ip <= steps
    BY <1>1 DEF VmExitInv, EventOK, IpOK
  <2>5. exit \in Instructions /\ exit \in InstructionForms
    BY <1>1, GuestAssumption DEF VmExitInv, ExitOK
  <2>6. Power = "on" /\ ViewPending = None
    BY <1>1, <2>4, PowerIs DEF ViewPending
  <2>7. /\ gp_regs.cx = at /\ gp_regs.dx = vmcs.sp /\ gp_regs.ax.tf = vmcs.tf
        /\ gp_regs.ax.error = FALSE
    BY <2>3
  <2> QED BY <2>1, <2>2, <2>4, <2>5, <2>6, <2>7
<1>n. /\ {"ip", "sp", "tf", "error", "cr8", "tlb"} \subseteq Regs
      /\ {"ip", "sp", "tf", "error", "cr0", "cr3", "cr4", "dr7", "debugctl", "sysenter",
          "gdtr", "idtr", "ldtr", "tr"} = InVmcs
      /\ InVmcs \subseteq Regs /\ "cr8" \notin InVmcs /\ "tlb" \notin InVmcs
      /\ "shared" \in Regs \ (InVmcs \cup {"cr8"})
  BY RegisterSets, KeptWhere DEF InVmcs, Debug
<1>3. /\ IsFile(hw', Regs) /\ hw'.ip = at /\ hw'.sp = vmcs.sp /\ hw'.tf = vmcs.tf
      /\ hw'.error = FALSE /\ hw'.cr8 = guest_cr8 /\ hw'.tlb = "none"
      /\ \A r \in Regs \ {"ip", "sp", "tf", "error", "cr8", "tlb"} : hw'[r] = hw[r]
  <2>1. IsFile(hw, Regs)
    BY DEF VmExitInv, FileOK
  <2> DEFINE tf == gp_regs.ax.tf
             error == gp_regs.ax.error
             cx == gp_regs.cx
             dx == gp_regs.dx
  <2>2. hw' = [hw EXCEPT !.ip = cx, !.sp = dx, !.tf = tf, !.error = error,
                         !.cr8 = guest_cr8, !.tlb = "none"]
    BY <1>1
  <2> HIDE DEF tf, error, cx, dx
  <2>3. /\ IsFile(hw', Regs) /\ hw'.ip = cx /\ hw'.sp = dx /\ hw'.tf = tf
        /\ hw'.error = error /\ hw'.cr8 = guest_cr8 /\ hw'.tlb = "none"
        /\ \A r \in Regs \ {"ip", "sp", "tf", "error", "cr8", "tlb"} : hw'[r] = hw[r]
    BY <1>n, <2>1, <2>2 DEF IsFile
  <2>4. cx = at /\ dx = vmcs.sp /\ tf = vmcs.tf /\ error = FALSE
    BY <1>2 DEF cx, dx, tf, error
  <2> QED BY <2>3, <2>4
<1>4. View' = hw'
  BY <1>1, <1>3, ViewIsNext DEF Bare
<1>5. /\ \A r \in InVmcs : c[r] = vmcs[r]
      /\ c.cr8 = guest_cr8 /\ \A r \in Regs \ (InVmcs \cup {"cr8"}) : c[r] = hw[r]
  BY <1>2, HostViewAt
<1>6. /\ c.shared \in BOOLEAN /\ c.ip = vmcs.ip /\ c.ip \in Nat /\ c.tf = vmcs.tf
      /\ c.tf \in BOOLEAN
  <2>1. c.shared \in BOOLEAN /\ c.ip \in Nat /\ c.tf \in BOOLEAN
    <3> HIDE DEF c
    <3> QED BY <1>2, TypedRegisters
  <2> QED BY <1>5, <1>n, <2>1
<1>9. /\ e.cpu.ip = at /\ e.cpu.error = FALSE
      /\ \A r \in Regs \ {"ip", "error"} : e.cpu[r] = c[r]
      /\ e.pending = IF vmcs.tf THEN Guest!Raise("#DB", at) ELSE None
  <2>1. Guest!Leaves(exit)
    BY <1>2 DEF Terminates, Guest!Leaves
  <2> HIDE DEF c
  <2>2. /\ e.cpu.ip = c.ip + 1 /\ e.cpu.error = FALSE
        /\ \A r \in Regs \ {"ip", "error"} : e.cpu[r] = c[r]
        /\ e.pending = IF c.tf THEN Guest!Raise("#DB", c.ip + 1) ELSE None
    BY <1>2, <2>1, LeaveEffect
  <2> HIDE DEF e
  <2> QED BY <1>6, <2>2
<1>10. Guest!Leave(exit)
  <2>1. DOMAIN View = Regs /\ DOMAIN View' = Regs
    BY <1>2, <1>3, <1>4 DEF Typed, IsFile
  <2>2. ASSUME NEW r \in Regs \ Guest!Exchanged PROVE View'[r] = e.cpu[r]
    <3>1. r \in Regs \ {"cr0", "cr3", "cr4", "dr7", "debugctl", "sysenter", "ldtr", "tr", "tlb"}
      BY DEF Guest!Exchanged
    <3> HIDE DEF c, e
    <3>2. CASE r = "ip"
      BY <3>2, <1>3, <1>4, <1>9
    <3>3. CASE r \in {"sp", "tf"}
      BY <3>1, <3>3, <1>n, <1>3, <1>4, <1>5, <1>9
    <3>4. CASE r = "error"
      BY <3>1, <3>4, <1>n, <1>3, <1>4, <1>9
    <3>5. CASE r \in {"gdtr", "idtr"}
      <4>1. r \in InVmcs /\ hw[r] = vmcs[r]
        BY <3>5, <1>2, <1>n
      <4>2. View'[r] = vmcs[r]
        BY <3>1, <3>5, <4>1, <1>3, <1>4
      <4>3. e.cpu[r] = c[r]
        BY <3>1, <3>5, <1>9
      <4> QED BY <4>1, <4>2, <4>3, <1>5
    <3>6. CASE r = "cr8"
      BY <3>1, <3>6, <1>n, <1>3, <1>4, <1>5, <1>9
    <3>7. CASE r = "shared"
      BY <3>1, <3>7, <1>n, <1>3, <1>4, <1>5, <1>9
    <3>8. CASE r \notin {"ip", "sp", "tf", "error", "gdtr", "idtr", "cr8", "shared"}
      <4>1. r \notin InVmcs /\ r \notin {"ip", "sp", "tf", "error", "cr8", "tlb"}
        BY <3>1, <3>8, <1>n
      <4>2. View'[r] = hw[r]
        BY <3>1, <4>1, <1>3, <1>4
      <4>3. e.cpu[r] = c[r]
        BY <3>1, <3>8, <1>9
      <4>4. c[r] = hw[r]
        BY <3>1, <3>8, <4>1, <1>5
      <4> QED BY <4>2, <4>3, <4>4
    <3> QED BY <3>2, <3>3, <3>4, <3>5, <3>6, <3>7, <3>8
  <2>3. ViewPending' = e.pending
    <3>1. ViewPending' = pending'
      BY <1>1 DEF ViewPending
    <3>2. pending' = IF vmcs.tf THEN Guest!Raise("#DB", at) ELSE None
      <4> HIDE DEF at
      <4> QED BY <1>1, <1>2
    <3> QED BY <1>9, <3>1, <3>2
  <2>4. Power' = "unloaded"
    BY <1>1, PowerIsNext
  <2>5. Guest!Leaves(exit)
    BY <1>2 DEF Terminates, Guest!Leaves
  <2> HIDE DEF e
  <2> QED BY <1>1, <1>2, <2>1, <2>2, <2>3, <2>4, <2>5 DEF Guest!Leave, e
<1>11. FileOK'
  <2>1. ASSUME NEW r \in Regs
        PROVE  Fits(r, hw'[r]) \/ (r \in HostOwned /\ hw'[r] = "host")
    <3>1. CASE r \in {"sp", "tf"}
      <4>1. hw'[r] = vmcs[r] /\ r \in InVmcs
        BY <3>1, <1>3, <1>n
      <4> QED BY <4>1 DEF VmExitInv, FileOK
    <3>2. CASE r = "ip"
      <4>1. hw'.ip \in Nat
        BY <1>3, <1>6
      <4> QED BY <3>2, <4>1 DEF Fits, Flags, Plain
    <3>3. CASE r = "error"
      BY <3>3, <1>3 DEF Fits, Flags, Plain
    <3>4. CASE r = "cr8"
      BY <3>4, <1>3 DEF VmExitInv, OtherOK, Fits, Flags, Plain
    <3>5. CASE r = "tlb"
      BY <3>5, <1>3 DEF Fits, Flags, Plain
    <3>6. CASE r \notin {"ip", "sp", "tf", "error", "cr8", "tlb"}
      <4>1. hw'[r] = hw[r]
        BY <3>6, <1>3
      <4> QED BY <4>1 DEF VmExitInv, FileOK
    <3> QED BY <3>1, <3>2, <3>3, <3>4, <3>5, <3>6
  <2> QED BY <1>1, <1>3, <2>1 DEF VmExitInv, FileOK, Starting
<1>12. pending' = None \/ (pending' \in [vector : Vectors, at : Nat] /\ pending'.at <= steps + 1
                           /\ Guest!Resumes(pending') <= steps + 1)
  <2>1. at \in Nat /\ at <= steps + 1
    <3>1. steps \in Nat
      BY GuestAssumption DEF VmExitInv, IpOK
    <3> QED BY <1>2, <1>6, <3>1
  <2>2. CASE vmcs.tf
    <3>1. pending' = [vector |-> "#DB", at |-> at]
      <4> HIDE DEF at
      <4> QED BY <1>1, <1>2, <2>2 DEF Guest!Raise
    <3> HIDE DEF at
    <3> QED BY <2>1, <3>1 DEF Vectors, Guest!Resumes
  <2>3. CASE ~vmcs.tf
    <3> HIDE DEF at
    <3> QED BY <1>1, <1>2, <2>3
  <2> QED BY <2>2, <2>3
<1>13. EventOK' /\ ExitOK'
  <2>1. EventOK'
    BY <1>1, <1>2, <1>12 DEF VmExitInv, EventOK
  <2>2. ExitOK'
    BY <1>1 DEF VmExitInv, ExitOK
  <2> QED BY <2>1, <2>2
<1>14. IpOK'
  <2>1. at <= steps + 1
    <3>1. steps \in Nat
      BY GuestAssumption DEF VmExitInv, IpOK
    <3> QED BY <1>2, <1>6, <3>1
  <2> HIDE DEF at
  <2> QED BY <1>1, <1>2, <1>3, <1>12, <2>1 DEF VmExitInv, IpOK, Starting
<1>15. ModeOK' /\ OtherOK'
  <2>1. ModeOK'
    BY <1>1 DEF ModeOK, Starting, Bare
  <2>2. OtherOK'
    BY <1>1, <1>2 DEF VmExitInv, OtherOK
  <2> QED BY <2>1, <2>2
<1> QED BY <1>2, <1>10, <1>11, <1>13, <1>14, <1>15 DEF VmExitInv
-----------------------------------------------------------------------------
(* Starting the VMM.                                                       *)

\* Before the guest runs.
LEMMA StartingState ==
  ASSUME VmExitInv, mode \in Starting
  PROVE  /\ View = hw /\ Typed(hw) /\ hw.ip = 0 /\ Power = "native"
         /\ pending = None /\ inject = None /\ exit = None /\ ViewPending = None
         /\ steps \in Nat
<1>1. Typed(hw)
  BY DEF VmExitInv, FileOK, Typed
<1>2. View = hw
  BY <1>1, ViewIs DEF Typed, Bare
<1>3. hw.ip = 0 /\ steps \in Nat
  BY GuestAssumption DEF VmExitInv, IpOK
<1>4. pending = None /\ inject = None /\ exit = None
  BY DEF VmExitInv, EventOK, ExitOK, Starting
<1>5. ViewPending = None
  BY <1>4 DEF ViewPending, Starting
<1> QED BY <1>1, <1>2, <1>3, <1>4, <1>5, PowerIs

\* What the call that starts the VMM changes by returning.
Back(c, n, w) == [c EXCEPT !.ip = n, !.sp = c.sp, !.reg = w]

LEMMA ReturnedIs ==
  ASSUME NEW c, Typed(c), NEW n \in Nat, NEW w \in Words
  PROVE  LET d == Back(c, n, w) IN
         /\ Typed(d) /\ d.ip = n /\ d.reg = w
         /\ \A r \in Regs \ {"ip", "reg"} : d[r] = c[r]
<1> DEFINE d == Back(c, n, w)
<1>1. {"ip", "sp", "reg"} \subseteq Regs
  BY RegisterSets
<1>2. IsFile(d, Regs) /\ d.ip = n /\ d.reg = w /\ \A r \in Regs \ {"ip", "reg"} : d[r] = c[r]
  BY <1>1 DEF Typed, IsFile, Back
<1> HIDE DEF d
<1>3. Fits("ip", n) /\ Fits("reg", w)
  <2>1. w \in DrWords
    BY DEF DrWords, Dr7Words
  <2> QED BY <2>1 DEF Fits, Flags, Plain
<1>4. \A r \in Regs : Fits(r, d[r])
  BY <1>2, <1>3 DEF Typed
<1> QED BY <1>2, <1>4 DEF Typed, d

\* The call returns without a guest.
LEMMA FailedStep ==
  ASSUME VmExitInv, mode \in Starting, NEW c, Typed(c), Failed(c), c.fixed = TRUE,
         \A r \in Regs \ {"fixed"} : c[r] = hw[r],
         UNCHANGED <<controls, vmcs, exit, guest_cr8, gp_regs, inject, entryLen, pending,
                     last, steps>>
  PROVE  VmExitInv' /\ Guest!Start
<1> DEFINE n == hw.ip + 1
<1>1. /\ View = hw /\ Typed(hw) /\ hw.ip = 0 /\ Power = "native"
      /\ pending = None /\ inject = None /\ exit = None /\ ViewPending = None
      /\ steps \in Nat
  BY StartingState
<1>n. {"ip", "sp", "reg"} \subseteq Regs \ {"fixed"} /\ "fixed" \in Regs
  BY RegisterSets
<1>2. n = c.ip + 1 /\ c.sp = hw.sp /\ n = 1
  BY <1>1, <1>n
<1>3. mode' = "off" /\ hw' = [c EXCEPT !.ip = n, !.sp = c.sp, !.reg = "zero"]
  BY <1>2 DEF Failed, Returned
<1> HIDE DEF n
<1>4. /\ Typed(hw') /\ hw'.ip = n /\ hw'.reg = "zero"
      /\ \A r \in Regs \ {"ip", "reg"} : hw'[r] = c[r]
  <2> DEFINE d == Back(c, n, "zero")
  <2>1. /\ Typed(d) /\ d.ip = n /\ d.reg = "zero"
        /\ \A r \in Regs \ {"ip", "reg"} : d[r] = c[r]
    <3>1. "zero" \in Words
      BY DEF Words
    <3>2. n \in Nat
      BY <1>2
    <3> QED BY <3>1, <3>2, ReturnedIs
  <2> HIDE DEF d
  <2>2. hw' = d
    BY <1>3 DEF d, Back
  <2> QED BY <2>1, <2>2
<1>5. View' = hw'
  BY <1>3, <1>4, ViewIsNext DEF Bare, Typed
<1>6. hw' = [hw EXCEPT !.ip = n, !.reg = "zero", !.fixed = TRUE]
  <2> DEFINE d == [hw EXCEPT !.ip = n, !.reg = "zero", !.fixed = TRUE]
  <2>1. /\ IsFile(d, Regs) /\ d.ip = n /\ d.reg = "zero" /\ d.fixed = TRUE
        /\ \A r \in Regs \ {"ip", "reg", "fixed"} : d[r] = hw[r]
    BY <1>1, <1>n DEF Typed, IsFile
  <2> HIDE DEF d
  <2>2. \A r \in Regs : hw'[r] = d[r]
    BY <1>4, <1>n, <2>1
  <2>3. hw' = d
    BY <1>4, <2>1, <2>2, SameFile DEF Typed
  <2> QED BY <2>3 DEF d
<1>7. Guest!Start
  <2>1. Power' = "unloaded" /\ ViewPending' = ViewPending
    BY <1>1, <1>3, PowerIsNext DEF ViewPending
  <2>2. View' = [View EXCEPT !.ip = View.ip + 1, !.reg = "zero", !.fixed = TRUE]
    BY <1>1, <1>5, <1>6 DEF n
  <2> QED BY <1>1, <2>1, <2>2 DEF Guest!Start
<1>8. FileOK'
  BY <1>3, <1>4 DEF VmExitInv, FileOK, Typed
<1>9. EventOK' /\ ExitOK'
  <2>1. EventOK'
    BY <1>1 DEF VmExitInv, EventOK
  <2>2. ExitOK'
    BY <1>1, <1>3 DEF ExitOK
  <2> QED BY <2>1, <2>2
<1>10. IpOK'
  <2>1. n <= steps + 1
    BY <1>1, <1>2
  <2> QED BY <1>1, <1>3, <1>4, <2>1 DEF VmExitInv, IpOK, Starting
<1>11. ModeOK' /\ OtherOK'
  <2>1. ModeOK'
    BY <1>3 DEF ModeOK, Starting, Bare
  <2>2. OtherOK'
    BY DEF VmExitInv, OtherOK
  <2> QED BY <2>1, <2>2
<1> QED BY <1>7, <1>8, <1>9, <1>10, <1>11 DEF VmExitInv

LEMMA EnterVmxModeStep ==
  ASSUME VmExitInv, VmpEnterVmxMode
  PROVE  VmExitInv' /\ (Guest!Prepare \/ Guest!Start)
<1> DEFINE f == [hw EXCEPT !.fixed = TRUE]
<1>1. /\ mode = "native" /\ mode \in Starting
      /\ \/ mode' = "vmxon" /\ hw' = [f EXCEPT !.tlb = "none"]
         \/ Failed(f)
      /\ UNCHANGED <<controls, vmcs, exit, guest_cr8, gp_regs, inject, entryLen, pending,
                     last, steps>>
  BY DEF VmpEnterVmxMode, context, Starting
<1>2. /\ View = hw /\ Typed(hw) /\ hw.ip = 0 /\ Power = "native"
      /\ pending = None /\ inject = None /\ exit = None /\ ViewPending = None
      /\ steps \in Nat
  BY <1>1, StartingState
<1>3. Typed(f) /\ f.fixed = TRUE /\ \A r \in Regs \ {"fixed"} : f[r] = hw[r]
  <2> DEFINE yes == TRUE
             g == Put(hw, "fixed", yes)
  <2>1. "fixed" \in Regs /\ Fits("fixed", yes)
    BY RegisterSets DEF Fits, Flags, Plain
  <2>2. f = g
    BY DEF Put
  <2> HIDE DEF yes
  <2>3. Typed(g) /\ g["fixed"] = yes /\ \A r \in Regs \ {"fixed"} : g[r] = hw[r]
    BY <1>2, <2>1, PutTyped
  <2> HIDE DEF f, g
  <2> QED BY <2>2, <2>3 DEF yes
<1>4. CASE Failed(f)
  <2> HIDE DEF f
  <2> QED BY <1>1, <1>3, <1>4, FailedStep
<1>5. CASE mode' = "vmxon" /\ hw' = [f EXCEPT !.tlb = "none"]
  <2>1. /\ Typed(hw') /\ hw'.tlb = "none" /\ \A r \in Regs \ {"tlb"} : hw'[r] = f[r]
    <3> HIDE DEF f
    <3>1. "tlb" \in Regs /\ Fits("tlb", "none")
      BY RegisterSets DEF Fits, Flags, Plain
    <3> DEFINE g == Put(f, "tlb", "none")
    <3>2. hw' = g
      BY <1>5 DEF Put
    <3>3. Typed(g) /\ g["tlb"] = "none" /\ \A r \in Regs \ {"tlb"} : g[r] = f[r]
      BY <1>3, <3>1, PutTyped
    <3> HIDE DEF g
    <3> QED BY <3>2, <3>3
  <2>2. hw'.fixed = TRUE /\ hw'.ip = 0
    <3>1. {"ip", "fixed"} \subseteq Regs \ {"tlb"} /\ "ip" \in Regs \ {"fixed"}
      BY RegisterSets
    <3> HIDE DEF f
    <3> QED BY <1>2, <1>3, <2>1, <3>1
  <2>3. View' = hw'
    BY <1>5, <2>1, ViewIsNext DEF Bare, Starting, Typed
  <2>4. Guest!Prepare
    <3>1. Power' = Power /\ ViewPending' = ViewPending
      BY <1>1, <1>2, <1>5, PowerIsNext DEF ViewPending, Starting
    <3>2. View' = [View EXCEPT !.fixed = TRUE, !.tlb = "none"]
      BY <1>2, <1>5, <2>3
    <3> QED BY <1>1, <1>2, <3>1, <3>2 DEF Guest!Prepare
  <2>5. FileOK'
    BY <1>1, <2>1 DEF VmExitInv, FileOK, Typed
  <2>6. EventOK' /\ ExitOK'
    <3>1. EventOK'
      BY <1>1, <1>2 DEF VmExitInv, EventOK
    <3>2. ExitOK'
      BY <1>1, <1>2, <1>5 DEF ExitOK
    <3> QED BY <3>1, <3>2
  <2>7. IpOK'
    BY <1>1, <1>2, <1>5, <2>2 DEF VmExitInv, IpOK, Starting
  <2>8. ModeOK' /\ OtherOK'
    <3>1. ModeOK'
      BY <1>5, <2>1, <2>2 DEF ModeOK, Starting, Bare
    <3>2. OtherOK'
      BY <1>1 DEF VmExitInv, OtherOK
    <3> QED BY <3>1, <3>2
  <2> QED BY <2>4, <2>5, <2>6, <2>7, <2>8 DEF VmExitInv
<1> QED BY <1>1, <1>4, <1>5

LEMMA InitializeVmcsStep ==
  ASSUME VmExitInv, VmpInitializeVmcs
  PROVE  VmExitInv' /\ Unnoticed
<1>1. /\ mode = "vmxon" /\ mode \in Starting /\ mode' = "clear" /\ mode' \in Starting
      /\ UNCHANGED <<controls, hw, vmcs, exit, guest_cr8, gp_regs, inject, entryLen,
                     pending, last, steps>>
  BY DEF VmpInitializeVmcs, context, Starting
<1>2. /\ View = hw /\ Typed(hw) /\ pending = None /\ inject = None /\ exit = None
      /\ Power = "native"
  BY <1>1, StartingState
<1>3. Unnoticed
  <2>1. View' = View
    BY <1>1, <1>2, ViewIsNext DEF Bare, Typed
  <2>2. ViewPending' = ViewPending /\ Power' = Power
    BY <1>1, <1>2, PowerIsNext DEF ViewPending
  <2> QED BY <1>1, <2>1, <2>2 DEF Unnoticed
<1>4. FileOK' /\ IpOK'
  <2>1. FileOK'
    BY <1>1 DEF VmExitInv, FileOK
  <2>2. IpOK'
    BY <1>1, <1>2 DEF VmExitInv, IpOK
  <2> QED BY <2>1, <2>2
<1>5. EventOK' /\ ExitOK'
  <2>1. EventOK'
    BY <1>1, <1>2 DEF VmExitInv, EventOK
  <2>2. ExitOK'
    BY <1>1, <1>2 DEF ExitOK
  <2> QED BY <2>1, <2>2
<1>6. ModeOK' /\ OtherOK'
  <2>1. ModeOK'
    BY <1>1 DEF VmExitInv, ModeOK, Starting, Bare
  <2>2. OtherOK'
    BY <1>1 DEF VmExitInv, OtherOK
  <2> QED BY <2>1, <2>2
<1> QED BY <1>3, <1>4, <1>5, <1>6 DEF VmExitInv

LEMMA SetupVmcsStep ==
  ASSUME VmExitInv, VmpSetupVmcs
  PROVE  VmExitInv' /\ Unnoticed
<1>1. /\ mode = "clear" /\ mode \in Starting /\ mode' = "set up" /\ mode' \in Starting
      /\ controls' \in Configurations
      /\ vmcs' = [r \in InVmcs |-> IF r = "ip" THEN hw.ip + 1 ELSE hw[r]]
      /\ UNCHANGED <<hw, exit, guest_cr8, gp_regs, inject, entryLen, pending, last, steps>>
  BY DEF VmpSetupVmcs, context, Starting
<1>2. /\ View = hw /\ Typed(hw) /\ pending = None /\ inject = None /\ exit = None
      /\ Power = "native" /\ hw.ip = 0
  BY <1>1, StartingState
<1>3. Unnoticed
  <2>1. View' = View
    BY <1>1, <1>2, ViewIsNext DEF Bare, Typed
  <2>2. ViewPending' = ViewPending /\ Power' = Power
    BY <1>1, <1>2, PowerIsNext DEF ViewPending
  <2> QED BY <1>1, <2>1, <2>2 DEF Unnoticed
<1>4. FileOK'
  <2>1. ASSUME NEW r \in InVmcs PROVE Fits(r, vmcs'[r])
    <3>1. CASE r = "ip"
      <4>1. vmcs'[r] = 1
        <5>1. vmcs'[r] = hw.ip + 1
          BY <1>1, <3>1
        <5>2. hw.ip + 1 = 1
          BY <1>2
        <5> QED BY ONLY <5>1, <5>2
      <4> QED BY <3>1, <4>1 DEF Fits, Flags, Plain
    <3>2. CASE r # "ip"
      <4>1. vmcs'[r] = hw[r] /\ r \in Regs
        BY <1>1, <3>2, Names
      <4> QED BY <1>2, <4>1 DEF Typed
    <3> QED BY <3>1, <3>2
  <2>2. IsFile(vmcs', InVmcs)
    BY <1>1 DEF IsFile
  <2> QED BY <1>1, <1>2, <2>1, <2>2 DEF FileOK, Typed
<1>5. EventOK' /\ ExitOK'
  <2>1. EventOK'
    BY <1>1, <1>2 DEF VmExitInv, EventOK
  <2>2. ExitOK'
    BY <1>1, <1>2 DEF ExitOK
  <2> QED BY <2>1, <2>2
<1>6. IpOK'
  BY <1>1, <1>2 DEF VmExitInv, IpOK
<1>7. ModeOK' /\ OtherOK'
  <2>1. ModeOK'
    BY <1>1 DEF VmExitInv, ModeOK, Starting, Bare
  <2>2. OtherOK'
    BY <1>1 DEF VmExitInv, OtherOK
  <2> QED BY <2>1, <2>2
<1> QED BY <1>3, <1>4, <1>5, <1>6, <1>7 DEF VmExitInv

\* The guest starts where the call returns.
LEMMA LaunchVmStep ==
  ASSUME VmExitInv, VmpLaunchVm
  PROVE  VmExitInv' /\ Guest!Start
<1> DEFINE n == hw.ip + 1
           k == [r \in Regs |-> IF r \in InVmcs THEN vmcs[r] ELSE hw[r]]
<1>1. /\ mode = "set up" /\ mode \in Starting /\ mode' = "guest"
      /\ UNCHANGED <<controls, vmcs, exit, guest_cr8, gp_regs, inject, entryLen, pending,
                     last, steps>>
  BY DEF VmpLaunchVm, context, Starting
<1>2. /\ View = hw /\ Typed(hw) /\ hw.ip = 0 /\ Power = "native"
      /\ pending = None /\ inject = None /\ exit = None /\ ViewPending = None
      /\ steps \in Nat
  BY <1>1, StartingState
<1>3. /\ \A r \in InVmcs : vmcs[r] = IF r = "ip" THEN n ELSE hw[r]
      /\ hw.tlb = "none"
  BY <1>1 DEF VmExitInv, ModeOK, Starting
<1>n. /\ {"ip", "sp", "reg"} \subseteq Regs /\ InVmcs \subseteq Regs /\ "reg" \notin InVmcs
      /\ Debug \subseteq InVmcs /\ "reg" \notin Debug /\ "ip" \notin Debug
      /\ {"tlb", "cr3"} \subseteq Regs \ {"ip", "reg"}
  BY RegisterSets, KeptWhere DEF Debug, InVmcs
<1>4. hw' = [k EXCEPT !.ip = n, !.sp = hw.sp, !.reg = "flag"]
  <2>1. DOMAIN hw = Regs
    BY <1>2 DEF Typed, IsFile
  <2> QED BY <2>1 DEF VmpLaunchVm, Returned
<1>5. /\ IsFile(hw', Regs) /\ hw'.ip = n /\ hw'.reg = "flag"
      /\ \A r \in Regs \ {"ip", "reg"} : hw'[r] = hw[r]
  <2>1. IsFile(k, Regs) /\ \A r \in Regs \ {"ip"} : k[r] = hw[r]
    BY <1>3, <1>n DEF IsFile
  <2> HIDE DEF k, n
  <2> QED BY <1>4, <1>n, <2>1 DEF IsFile
<1> HIDE DEF k
<1>6. hw' = [hw EXCEPT !.ip = n, !.reg = "flag"]
  <2> HIDE DEF n
  <2> DEFINE d == [hw EXCEPT !.ip = n, !.reg = "flag"]
  <2>1. /\ IsFile(d, Regs) /\ d.ip = n /\ d.reg = "flag"
        /\ \A r \in Regs \ {"ip", "reg"} : d[r] = hw[r]
    BY <1>2, <1>n DEF Typed, IsFile
  <2> HIDE DEF d
  <2>2. \A r \in Regs : hw'[r] = d[r]
    BY <1>5, <2>1
  <2>3. hw' = d
    BY <1>5, <2>1, <2>2, SameFile
  <2> QED BY <2>3 DEF d
<1>7. View' = hw'
  <2> DEFINE g == GuestView(hw', vmcs, controls)
  <2>1. View' = g
    BY <1>1, <1>5, ViewIsNext
  <2>2. /\ IsFile(g, Regs)
        /\ \A r \in Regs : g[r] = IF r \in Debug /\ "save_debug" \notin controls
                                  THEN vmcs[r] ELSE hw'[r]
    BY DEF GuestView, IsFile
  <2>3. \A r \in Debug : vmcs[r] = hw'[r]
    <3> HIDE DEF n
    <3> QED BY <1>3, <1>5, <1>n
  <2> HIDE DEF g
  <2>4. g = hw'
    BY <1>5, <2>2, <2>3, SameFile
  <2> QED BY <2>1, <2>4
<1>8. Typed(hw')
  <2>1. Fits("ip", n) /\ Fits("reg", "flag")
    <3>1. n \in Nat /\ "flag" \in DrWords
      BY <1>2 DEF DrWords, Dr7Words, Words
    <3> QED BY <3>1 DEF Fits, Flags, Plain
  <2> HIDE DEF n
  <2>2. \A r \in Regs : Fits(r, hw'[r])
    BY <1>2, <1>5, <2>1 DEF Typed
  <2> QED BY <1>5, <2>2 DEF Typed
<1>9. Guest!Start
  <2>1. Power' = "on" /\ ViewPending' = ViewPending
    BY <1>1, <1>2, PowerIsNext DEF ViewPending
  <2>2. View' = [View EXCEPT !.ip = View.ip + 1, !.reg = "flag"]
    BY <1>2, <1>6, <1>7
  <2> QED BY <1>1, <1>2, <2>1, <2>2 DEF Guest!Start
<1>10. FileOK'
  BY <1>1, <1>8 DEF VmExitInv, FileOK, Typed
<1>11. EventOK' /\ ExitOK'
  <2>1. EventOK'
    BY <1>1, <1>2 DEF VmExitInv, EventOK
  <2>2. ExitOK'
    BY <1>1, <1>2 DEF ExitOK
  <2> QED BY <2>1, <2>2
<1>12. IpOK'
  <2>1. hw'.ip <= steps + 1
    BY <1>2, <1>5
  <2> QED BY <1>1, <1>2, <2>1 DEF VmExitInv, IpOK, Starting
<1>13. ModeOK' /\ OtherOK'
  <2>1. View'.tlb = "none"
    BY <1>3, <1>5, <1>7, <1>n
  <2>2. ModeOK'
    BY <1>1, <2>1 DEF ModeOK, Starting
  <2>3. OtherOK'
    BY <1>1 DEF VmExitInv, OtherOK
  <2> QED BY <2>2, <2>3
<1> QED BY <1>9, <1>10, <1>11, <1>12, <1>13 DEF VmExitInv

LEMMA InitializeVmExitStep ==
  ASSUME VmExitInv, VmpInitializeVmExit
  PROVE  VmExitInv' /\ Guest!Start
<1>1. /\ mode \in Starting \ {"native"} /\ Failed(hw)
      /\ UNCHANGED <<controls, vmcs, exit, guest_cr8, gp_regs, inject, entryLen, pending,
                     last, steps>>
  BY DEF VmpInitializeVmExit, context
<1>2. Typed(hw)
  BY <1>1, StartingState
<1>3. hw.fixed = TRUE
  BY <1>1 DEF VmExitInv, ModeOK
<1> QED BY <1>1, <1>2, <1>3, FailedStep
-----------------------------------------------------------------------------
(* The invariant, and the processor that the guest runs on.                *)

LEMMA InitFile ==
  ASSUME NEW w \in Words
  PROVE  Typed(Processor(w)) /\ Processor(w).ip = 0
<1> DEFINE c == Processor(w)
<1>1. IsFile(c, Regs) /\ c.ip = 0
  <2>1. DOMAIN c = Regs
    BY RegisterSets DEF Processor
  <2>2. c = [r \in DOMAIN c |-> c[r]]
    BY DEF Processor
  <2> QED BY <2>1, <2>2 DEF IsFile, Processor
<1>2. /\ \A r \in Flags : c[r] = FALSE
      /\ c.sp = "stack" /\ c.counters \in [rcx : Nat, index : Int] /\ c.tlb = "flag" /\ c.reg = "zero"
      /\ c.dr0 = w /\ c.dr7 = "zero" /\ c.cr8 = "zero"
  BY DEF Processor, Flags
<1>3. \A r \in Plain : c[r] \in Words
  BY DEF Processor, Plain, Words
<1> HIDE DEF c
<1>4. ASSUME NEW r \in Regs PROVE Fits(r, c[r])
  <2>1. /\ "stack" \in DrWords \cup Levels \cup {"stack"} /\ "flag" \in Words \cup {"none"}
        /\ "zero" \in DrWords \cup Levels /\ "zero" \in Dr7Words /\ "zero" \in Levels
        /\ w \in DrWords
    BY DEF Words, Dr7Words, DrWords, Levels
  <2>2. r \in Flags => c[r] \in BOOLEAN
    BY <1>2
  <2> QED BY <1>1, <1>2, <1>3, <2>1, <2>2 DEF Fits
<1> QED BY <1>1, <1>4 DEF Typed, c

LEMMA Initially == Init => VmExitInv /\ Guest!Init
<1> SUFFICES ASSUME Init PROVE VmExitInv /\ Guest!Init
  OBVIOUS
<1>1. /\ mode = "native" /\ mode \in Starting /\ controls = {} /\ guest_cr8 = "zero"
      /\ exit = None /\ inject = None /\ entryLen = 0 /\ pending = None /\ last = None
      /\ steps = 0 /\ vmcs = [r \in InVmcs |-> Processor("zero")[r]]
  BY DEF Init, Starting
<1>2. Typed(hw) /\ hw.ip = 0
  <2>1. PICK w \in Words : hw = Processor(w)
    BY Names DEF Init
  <2> QED BY <2>1, InitFile
<1>3. FileOK
  <2>1. Typed(Processor("zero"))
    BY InitFile DEF Words
  <2>2. IsFile(vmcs, InVmcs) /\ \A r \in InVmcs : vmcs[r] = Processor("zero")[r]
    BY <1>1 DEF IsFile
  <2>3. \A r \in InVmcs : Fits(r, vmcs[r])
    BY <2>1, <2>2, Names DEF Typed
  <2> QED BY <1>2, <2>2, <2>3 DEF FileOK, Typed
<1>4. EventOK /\ ExitOK
  <2>1. EventOK
    BY <1>1 DEF EventOK
  <2>2. ExitOK
    BY <1>1 DEF ExitOK
  <2> QED BY <2>1, <2>2
<1>5. IpOK
  BY <1>1, <1>2, GuestAssumption DEF IpOK
<1>6. ModeOK /\ OtherOK
  <2>1. ModeOK
    BY <1>1 DEF ModeOK, Starting, Bare
  <2>2. OtherOK
    BY <1>1 DEF OtherOK, Levels
  <2> QED BY <2>1, <2>2
<1>7. Guest!Init
  BY <1>1, PowerIs DEF Guest!Init, ViewPending
<1> QED BY <1>3, <1>4, <1>5, <1>6, <1>7 DEF VmExitInv

\* What a step of the VMM is to the guest: nothing, or a step of its processor.
LEMMA NextStep ==
  VmExitInv /\ [Next]_vars => VmExitInv' /\ [Guest!Next]_(Guest!view)
<1> SUFFICES ASSUME VmExitInv, [Next]_vars PROVE VmExitInv' /\ [Guest!Next]_(Guest!view)
  OBVIOUS
<1>u. Unnoticed => [Guest!Next]_(Guest!view)
  BY DEF Unnoticed, Guest!view
<1>e. ASSUME NEW ops, VmmpHandleVmExit(ops) PROVE exit \in Instructions
  BY <1>e, RootState DEF VmmpHandleVmExit
<1>1. ASSUME NEW i \in Instructions, Execute(i)
      PROVE  VmExitInv' /\ [Guest!Next]_(Guest!view)
  <2>1. CASE Exits(i) \/ Intercepted(i)
    BY <1>1, <1>u, <2>1, ExitStep DEF Execute
  <2>2. CASE ~(Exits(i) \/ Intercepted(i))
    BY <1>1, <2>2, NativeStep DEF Execute, Guest!Next
  <2> QED BY <2>1, <2>2
<1>2. CASE VmpInitializeVm
  <2>1. CASE VmpEnterVmxMode
    BY <2>1, EnterVmxModeStep DEF Guest!Next
  <2>2. CASE VmpInitializeVmcs
    BY <1>u, <2>2, InitializeVmcsStep
  <2>3. CASE VmpSetupVmcs
    BY <1>u, <2>3, SetupVmcsStep
  <2>4. CASE VmpLaunchVm
    BY <2>4, LaunchVmStep DEF Guest!Next
  <2>5. CASE VmpInitializeVmExit
    BY <2>5, InitializeVmExitStep DEF Guest!Next
  <2> QED BY <1>2, <2>1, <2>2, <2>3, <2>4, <2>5 DEF VmpInitializeVm
<1>3. CASE Deliver
  BY <1>3, DeliverStep DEF Guest!Next
<1>4. CASE Handle
  <2>h. exit \in Instructions /\ VmExitInv' /\ Guest!Execute(exit)
          => VmExitInv' /\ [Guest!Next]_(Guest!view)
    BY DEF Guest!Next
  <2>1. CASE VmmpHandleException
    BY <1>e, <2>h, <2>1, ExceptionStep DEF VmmpHandleException
  <2>2. CASE VmmpHandleCpuid
    BY <1>e, <2>h, <2>2, CpuidStep DEF VmmpHandleCpuid
  <2>3. CASE VmmpHandleRdtsc
    BY <1>e, <2>h, <2>3, RdtscStep DEF VmmpHandleRdtsc
  <2>4. CASE VmmpHandleXsetbv
    BY <1>e, <2>h, <2>4, XsetbvStep DEF VmmpHandleXsetbv
  <2>5. CASE VmmpHandleMsrAccess
    BY <1>e, <2>h, <2>5, MsrAccessStep DEF VmmpHandleMsrAccess
  <2>6. CASE HostFault
    BY <2>6, HostFaultStep DEF Guest!Next
  <2>7. CASE VmmpHandleGdtrOrIdtrAccess
    BY <1>e, <2>h, <2>7, GdtrOrIdtrStep DEF VmmpHandleGdtrOrIdtrAccess
  <2>8. CASE VmmpHandleLdtrOrTrAccess
    BY <1>e, <2>h, <2>8, LdtrOrTrStep DEF VmmpHandleLdtrOrTrAccess
  <2>9. CASE VmmpHandleDrAccess
    BY <1>e, <2>h, <2>9, DrAccessStep DEF VmmpHandleDrAccess
  <2>10. CASE VmmpHandleIoPort
    BY <1>e, <2>h, <2>10, IoPortStep DEF VmmpHandleIoPort
  <2>11. CASE VmmpHandleCrAccess
    BY <1>e, <2>h, <2>11, CrAccessStep DEF VmmpHandleCrAccess
  <2>12. CASE VmmpHandleInvalidateInternalCaches
    BY <1>e, <2>h, <2>12, InvalidateInternalCachesStep DEF VmmpHandleInvalidateInternalCaches
  <2>13. CASE VmmpHandleInvalidateTlbEntry
    BY <1>e, <2>h, <2>13, InvalidateTlbEntryStep DEF VmmpHandleInvalidateTlbEntry
  <2>14. CASE VmmpHandleVmx
    BY <1>e, <2>h, <2>14, VmxStep DEF VmmpHandleVmx
  <2>15. CASE VmmpHandleVmCall
    BY <1>e, <2>h, <2>15, VmCallStep DEF VmmpHandleVmCall
  <2>16. CASE VmmpHandleVmCallTermination
    BY <1>u, <2>16, TerminationStep
  <2> QED BY <1>4, <2>1, <2>2, <2>3, <2>4, <2>5, <2>6, <2>7, <2>8, <2>9, <2>10, <2>11,
             <2>12, <2>13, <2>14, <2>15, <2>16 DEF Handle
<1>5. CASE Resume
  BY <1>5, <1>u, ResumeStep
<1>6. CASE VmxOff
  BY <1>6, VmxOffStep DEF Guest!Next
<1>7. CASE UNCHANGED vars
  <2>1. UNCHANGED <<controls, mode, hw, vmcs, exit, guest_cr8, gp_regs, inject, entryLen,
                    pending, last, steps>>
    BY <1>7 DEF vars, context
  <2>2. Unnoticed
    BY <2>1 DEF Unnoticed, View, ViewPending, Power, Injected
  <2>3. FileOK'
    BY <2>1 DEF VmExitInv, FileOK
  <2>4. EventOK'
    BY <2>1 DEF VmExitInv, EventOK
  <2>5. ExitOK'
    <3>1. View' = View
      BY <2>2 DEF Unnoticed
    <3>2. Guest!Effect(View, exit)' = Guest!Effect(View, exit)
      BY <2>1, <3>1 DEF Guest!Effect, Guest!Sets, Guest!Completes, Guest!Faults,
           Guest!Raise, Guest!Touch, Guest!MovDr, Guest!MovToCr, Guest!PortAccess,
           Guest!Vmcall, Guest!DrName, Guest!CrName, Guest!WithoutGd, Guest!DrWritten
    <3>3. Exits(exit)' = Exits(exit)
      BY <2>1 DEF Exits
    <3> QED BY <2>1, <3>2, <3>3 DEF VmExitInv, ExitOK
  <2>6. IpOK'
    <3>1. Injected' = Injected
      BY <2>1 DEF Injected
    <3> QED BY <2>1, <3>1 DEF VmExitInv, IpOK
  <2>7. ModeOK'
    <3>1. View' = View /\ Terminates' = Terminates
      BY <2>1, <2>2 DEF Unnoticed, Terminates
    <3> QED BY <2>1, <3>1 DEF VmExitInv, ModeOK
  <2>8. OtherOK'
    BY <2>1 DEF VmExitInv, OtherOK
  <2> QED BY <1>u, <2>2, <2>3, <2>4, <2>5, <2>6, <2>7, <2>8 DEF VmExitInv
<1> QED BY <1>1, <1>2, <1>3, <1>4, <1>5, <1>6, <1>7 DEF Next

\* Which register is where: the registers that a VM-exit takes away are the
\* guest's in the VMCS and the host's in the processor, all others stay, and an
\* event waits in the VMCS only between a handler and the VM entry.  From this
\* each handler of vmm.cpp can be seen to look in the right place.
THEOREM VmExitInvariant == Spec => []VmExitInv
<1>1. Init => VmExitInv
  BY Initially
<1>2. VmExitInv /\ [Next]_vars => VmExitInv'
  BY NextStep
<1> QED BY <1>1, <1>2, PTL DEF Spec

LEMMA TypesHold == VmExitInv => TypeOK
<1> SUFFICES ASSUME VmExitInv PROVE TypeOK
  OBVIOUS
<1>n. /\ {"ip", "sp", "tf", "error", "busy", "shared", "fixed", "reg", "dr0", "dr7", "dr6",
          "debugctl", "cr2", "plain", "outside", "xcr0", "port", "memory", "tlb", "cr8", "counters"}
           \subseteq Regs \ HostOwned
      /\ HostOwned \subseteq Regs /\ HostOwned \subseteq Plain
      /\ HostOwned \cup {"debugctl", "dr7"} \subseteq InVmcs
      /\ "debugctl" \in Plain
  BY RegisterSets, Names, KeptWhere DEF HostOwned, Debug, InVmcs, Plain
<1>1. \A r \in Regs \ HostOwned : Fits(r, hw[r])
  BY DEF VmExitInv, FileOK
<1>2. hw.ip \in 0 .. MaxSteps + 2
  <2>1. hw.ip \in Nat
    BY <1>1, <1>n DEF Fits
  <2> QED BY <2>1, GuestAssumption DEF VmExitInv, IpOK
<1>3. /\ hw.sp \in DrWords \cup Levels \cup {"stack"}
      /\ hw.reg \in DrWords \cup Levels /\ hw.dr0 \in DrWords /\ hw.dr7 \in Dr7Words
      /\ hw.tlb \in Words \cup {"none"} /\ hw.cr8 \in Levels
      /\ hw.counters \in [rcx : Nat, index : Int]
  BY <1>1, <1>n DEF Fits
<1>4. {hw.tf, hw.error, hw.busy, hw.shared, hw.fixed} \subseteq BOOLEAN
  BY <1>1, <1>n DEF Fits, Flags
<1>5. {hw.dr6, hw.debugctl, hw.cr2, hw.plain, hw.outside, hw.xcr0, hw.port, hw.memory}
         \subseteq Words
  BY <1>1, <1>n DEF Fits, Plain
<1>6. \A r \in HostOwned : hw[r] \in Words \cup {"host"}
  BY <1>n DEF VmExitInv, FileOK, Fits
<1>7. RegisterType
  BY <1>2, <1>3, <1>4, <1>5, <1>6, Names DEF RegisterType, HostWords
<1>8. /\ \A r \in HostOwned \cup {"debugctl"} : vmcs[r] \in Words
      /\ vmcs.dr7 \in Dr7Words
  BY <1>n DEF VmExitInv, FileOK, Fits
<1> QED BY <1>7, <1>8, Names DEF VmExitInv, EventOK, ExitOK, IpOK, ModeOK, OtherOK, TypeOK

\* The types of the registers in both places: whatever a guest executes, the
\* VMCS never gets a register of the host, the bits of DR6 and DR7 that are fixed
\* are, and nothing is injected but by a handler.
THEOREM TypeCorrect == Spec => []TypeOK
<1> QED BY VmExitInvariant, TypesHold, PTL

\* No VM entry resumes a guest with a translation of an address space it has
\* left: MOV to CR3 and CR4 drop them, and so does VMXON what an earlier run of
\* the VMM had cached.
THEOREM TranslationsAreCurrentHolds == Spec => []TranslationsAreCurrent
<1>1. VmExitInv => TranslationsAreCurrent
  BY DEF VmExitInv, ModeOK, TranslationsAreCurrent, Power, Bare
<1> QED BY <1>1, VmExitInvariant, PTL

\* The processor that the guest sees is a processor of its own up to what Kept
\* and Exchanged leave open: every instruction that exits, at any number of them,
\* with and without a trap after it, has the effect it has without the VMM, and
\* starting and leaving change nothing else.
THEOREM ImplementsGuestProcessorHolds == Spec => ImplementsGuestProcessor
<1>1. Init => Guest!Init
  BY Initially
<1>2. VmExitInv /\ [Next]_vars => [Guest!Next]_(Guest!view)
  BY NextStep
<1>3. Spec => Guest!Spec
  BY <1>1, <1>2, VmExitInvariant, PTL DEF Spec, Guest!Spec
<1> QED BY <1>3 DEF ImplementsGuestProcessor
=============================================================================
