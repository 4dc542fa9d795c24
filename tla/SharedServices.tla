--------------------------- MODULE SharedServices ---------------------------
(***************************************************************************)
(* What the VM-exit handlers of different processors share without a lock, *)
(* put together: the table of destination registers (FuzzRecord), the      *)
(* performance counters (PerfCollector) and the ports of PCI configuration *)
(* space (PciConfigPort).                                                  *)
(*                                                                         *)
(* A processor is in one handler at a time.  A read of a monitored USB or  *)
(* network device looks up the instruction; the VMCALL that enables or     *)
(* disables the monitor sizes a BAR; any other exit is over at once.  The  *)
(* last thing a handler does is the destructor of its PerfCounter, if it   *)
(* has one, and then comes that of VmmpHandleVmExit around it.             *)
(***************************************************************************)
EXTENDS FuzzRecord, PerfCollector, PciConfigPort

CONSTANTS
  BarRegisters,  \* registers of the monitored BARs
  UpperOf,       \* UpperOf[r]: the register of the upper half, None for 32 bits
  MaxExits       \* bound: how many VM exits there are

Handlers == {"EptViolation", "VmCall", "Cpuid"}

\* The PerfCounter that is destroyed first when handler h is over: the handler
\* of VMCALL has none.  The last one is that of VmmpHandleVmExit.
Innermost(h) == IF h = "VmCall" THEN "VmExit" ELSE h
Outer(scope) == IF scope = "VmExit" THEN "none" ELSE "VmExit"

ASSUME ServicesAssumption ==
  /\ Locations = {Innermost(h) : h \in Handlers}
  /\ BarRegisters \subseteq Registers
  /\ UpperOf \in [BarRegisters -> Registers \union {None}]
  /\ MaxExits \in Nat

VARIABLES
  handler,       \* handler[p]: the handler processor p is in, "none" in the guest
  counting,      \* counting[p]: the location of its innermost PerfCounter
  exits          \* counter for MaxExits

exitVars == <<handler, counting, exits>>
vars == <<recordVars, collectorVars, portVars, exitVars>>
-----------------------------------------------------------------------------
\* A VM exit of processor p to handler h.
VmExit(p, h) ==
  /\ handler[p] = "none" /\ hal[p] = None
  /\ exits < MaxExits
  /\ handler' = [handler EXCEPT ![p] = h]
  /\ counting' = [counting EXCEPT ![p] = Innermost(h)]
  /\ exits' = exits + 1
  /\ UNCHANGED collectorVars

\* IntelUsb3HandleMmioAccessCallback and IntelNicHandleMmioAccessCallback call
\* StartFuzz for a read below DIRQL.
MmioRead(p) ==
  /\ VmExit(p, "EptViolation")
  /\ \E r \in Rips : StartLookup(p, r)
  /\ UNCHANGED portVars

\* DmInitBarInfo: DmGetDeviceBarSize reads, writes, reads and writes the BAR;
\* unless its size is 0, DmGetDeviceBarAddress reads it and its upper half.
BarAccesses(r) ==
  LET size == <<r, r, r, r>>
      address == IF UpperOf[r] = None THEN <<r>> ELSE <<r, UpperOf[r]>>
  IN  {size, size \o address}

\* The VMCALL that enables or disables the monitor goes through all BARs.
MonitorCall(p) ==
  /\ VmExit(p, "VmCall")
  /\ \E r \in BarRegisters : \E registers \in BarAccesses(r) : StartConfig(p, registers, TRUE)
  /\ UNCHANGED recordVars

NextBar(p) ==
  /\ handler[p] = "VmCall" /\ counting[p] # "none"
  /\ \E r \in BarRegisters : \E registers \in BarAccesses(r) : StartConfig(p, registers, FALSE)
  /\ UNCHANGED <<recordVars, collectorVars, exitVars>>

OtherExit(p) ==
  /\ VmExit(p, "Cpuid")
  /\ UNCHANGED <<recordVars, portVars>>

\* ~PerfCounter, at the end of the handler and of VmmpHandleVmExit.
EndOfScope(p) ==
  /\ counting[p] # "none"
  /\ Idle(p) /\ vmm[p].pc = "idle" /\ hal[p] = None
  /\ StartAdd(p, counting[p])
  /\ counting' = [counting EXCEPT ![p] = Outer(@)]
  /\ UNCHANGED <<recordVars, portVars, handler, exits>>

\* VMRESUME.
ReturnToGuest(p) ==
  /\ handler[p] # "none" /\ counting[p] = "none"
  /\ add[p].pc = "idle" /\ hal[p] = None
  /\ handler' = [handler EXCEPT ![p] = "none"]
  /\ UNCHANGED <<recordVars, collectorVars, portVars, counting, exits>>
-----------------------------------------------------------------------------
Lookup(p) == LookupStep(p) /\ UNCHANGED <<collectorVars, portVars, exitVars>>
Count(p) == hal[p] = None /\ AddStep(p) /\ UNCHANGED <<recordVars, portVars, exitVars>>
Config(p) == ConfigStep(p) /\ UNCHANGED <<recordVars, collectorVars, exitVars>>

\* The guest uses the ports; in VMX root mode an interrupt does, once the
\* handler has executed sti.
Hal(p) ==
  /\ handler[p] \in {"none", "VmCall"}
  /\ HalStep(p)
  /\ UNCHANGED <<recordVars, collectorVars, exitVars>>

Init ==
  /\ RecordInit /\ CollectorInit /\ PortInit
  /\ handler = [p \in Procs |-> "none"]
  /\ counting = [p \in Procs |-> "none"]
  /\ exits = 0

Next ==
  \E p \in Procs :
    \/ MmioRead(p) \/ MonitorCall(p) \/ NextBar(p) \/ OtherExit(p)
    \/ Lookup(p) \/ Config(p) \/ EndOfScope(p) \/ Count(p) \/ ReturnToGuest(p)
    \/ Hal(p)

Spec == Init /\ [][Next]_vars

=============================================================================
