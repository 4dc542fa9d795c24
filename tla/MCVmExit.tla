------------------------------ MODULE MCVmExit ------------------------------
(***************************************************************************)
(* A guest for VmExit that executes every kind of instruction it handles.  *)
(***************************************************************************)
EXTENDS VmExit

W == {"zero", "flag"}

DrInstructions ==
  {[op |-> "mov_to_dr", dr |-> n, word |-> w, cpl |-> 0] :
     n \in {0, 5, 6}, w \in {"flag", "high", "junk"}}
  \cup {[op |-> "mov_to_dr", dr |-> 7, word |-> w, cpl |-> 0] : w \in W \cup {"enabled"}}
  \cup {[op |-> "mov_from_dr", dr |-> n, dst |-> "reg", cpl |-> 0] : n \in {0, 4, 6, 7}}
  \cup {[op |-> "mov_from_dr", dr |-> 7, dst |-> "sp", cpl |-> 0],
        [op |-> "mov_from_dr", dr |-> 7, dst |-> "reg", cpl |-> 3]}

CrInstructions ==
  {[op |-> "mov_to_cr", cr |-> n, word |-> w] : n \in {0, 3, 4}, w \in W}
  \cup {[op |-> "mov_to_cr", cr |-> 8, word |-> w] : w \in {"zero", "high"}}
  \cup {[op |-> "mov_from_cr", cr |-> n, dst |-> "reg"] : n \in {3, 8}}

SystemInstructions ==
  {[op |-> "rdmsr", msr |-> m] :
     m \in {"sysenter", "debugctl", "plain", "outside", "hole", "absent"}}
  \cup {[op |-> "wrmsr", msr |-> m, word |-> "flag"] :
          m \in {"sysenter", "debugctl", "plain", "outside", "hole", "absent"}}
  \cup {[op |-> "load", table |-> t, word |-> "flag"] : t \in {"gdtr", "idtr", "ldtr", "tr"}}
  \cup {[op |-> "store", table |-> t] : t \in {"gdtr", "idtr", "ldtr", "tr"}}
  \cup {[op |-> "xsetbv", word |-> w] : w \in {"flag", "high"}}

OtherInstructions ==
  {[op |-> "popf", trap |-> t] : t \in BOOLEAN}
  \cup {[op |-> "touch", fault |-> f, word |-> "flag"] : f \in BOOLEAN}
  \cup {[op |-> "cpuid", leaf |-> n, word |-> "zero"] : n \in {0, 1, 1073741825}}
  \cup {[op |-> o] : o \in {"int3", "invlpg", "invd", "vmx"}}
  \cup {[op |-> "rdtsc", word |-> "flag"]}
  \cup {[op |-> "vmcall", number |-> n, cpl |-> p] :
          n \in {"terminate", "ping", "get_shared", "unsupported"}, p \in {0, 3}}

PortInstructions ==
  {[op |-> o, string |-> FALSE, rep |-> FALSE, df |-> FALSE, word |-> "flag"] :
     o \in {"in", "out"}}
  \cup {[op |-> "in", string |-> TRUE, rep |-> r, df |-> d, word |-> "flag"] :
          r \in BOOLEAN, d \in BOOLEAN}
  \cup {[op |-> "out", string |-> TRUE, rep |-> TRUE, df |-> FALSE, word |-> "flag"]}

AllInstructions ==
  DrInstructions \cup CrInstructions \cup SystemInstructions \cup PortInstructions
  \cup OtherInstructions

\* The controls as requested, on a machine that forces DR7 to be saved, and
\* with everything that vmm.cpp has a handler for.
BuildsAndMachines ==
  {{}, {"save_debug"}, {"save_debug", "cr", "rdtsc", "invlpg", "io", "#PF", "#GP", "#BP"}}
=============================================================================
