---------------------------- MODULE PciConfigPort ---------------------------
(***************************************************************************)
(* Access to PCI configuration space through the ports 0xCF8 (address) and *)
(* 0xCFC (data): ReadPCICfg and WritePCICfg of util.cpp with the routines  *)
(* of x64.asm, which DmInitBarInfo calls in VMX root mode, against the     *)
(* accesses of the guest's HAL.                                            *)
(*                                                                         *)
(* The address port is one register of the machine.  cli keeps interrupts  *)
(* of the same processor out from between the two instructions; nothing    *)
(* keeps out the other processors, because the VMM does not take the HAL's *)
(* lock.  sti leaves interrupts enabled in VMX root mode.                  *)
(***************************************************************************)
EXTENDS Processors, Integers, Sequences

CONSTANTS
  Registers,     \* configuration registers that are accessed
  None           \* no register

\* The address bits of bus, device and function; bit 31, the enable bit, is
\* set in every address and left out.
Locatable == [bus : 0 .. 255, dev : 0 .. 31, fun : 0 .. 7, off : 0 .. 255]

ASSUME PortsAssumption ==
  /\ Registers \subseteq Locatable
  /\ None \notin Registers

VARIABLES
  latch,         \* what the address port holds
  vmm,           \* vmm[p]: the handler's access and the ones it has still to make
  hal,           \* hal[p]: the register the guest, or an interrupt on top of the
                 \* handler, has put into the address port, None between
  flag,          \* flag[p]: interrupts are enabled on processor p
  crossed        \* history: accesses under way whose address another processor
                 \* has replaced

portVars == <<latch, vmm, hal, flag, crossed>>

NoAccess == [pc |-> "idle", left |-> <<>>]
Contexts == Procs \X {"vmm", "hal"}
-----------------------------------------------------------------------------
\* ReadPCICfg and WritePCICfg: the dword that holds the register, and the port
\* of its first byte.  The operands of the | have no bit in common.
ConfigAddress(r) == r.bus * 65536 + r.dev * 2048 + r.fun * 256 + (r.off - (r.off % 4))
DataPort(r) == 3324 + (r.off % 4)

\* The register an access of a data port reaches.
Selected(address, port) ==
  [bus |-> address \div 65536, dev |-> (address \div 2048) % 32,
   fun |-> (address \div 256) % 8, off |-> (address % 256) + (port - 3324)]

\* The register whose address context c has put into the port, None if it is
\* not between its two instructions.
Pending(c) ==
  IF c[2] = "hal" THEN hal[c[1]]
  ELSE IF vmm[c[1]].pc = "data" THEN Head(vmm[c[1]].left) ELSE None

\* out 0CF8h on processor p.
PutAddress(p, c, r) ==
  /\ latch' = ConfigAddress(r)
  /\ crossed' = (crossed \ {c}) \union
       {d \in Contexts : d[1] # p /\ Pending(d) # None}
-----------------------------------------------------------------------------
(* The handler of processor p.                                             *)

\* The handler has these accesses to make, the first ones since the VM exit,
\* which disabled interrupts, or further ones.
StartConfig(p, registers, first) ==
  /\ vmm[p].pc = "idle" /\ hal[p] = None
  /\ registers # <<>>
  /\ vmm' = [vmm EXCEPT ![p] = [pc |-> "ready", left |-> registers]]
  /\ flag' = [flag EXCEPT ![p] = flag[p] /\ ~first]
  /\ UNCHANGED <<latch, hal, crossed>>

\* cli and the first instruction.  An interrupt that came before runs to its end.
MutOutAddress(p) ==
  /\ vmm[p].pc = "ready" /\ hal[p] = None
  /\ PutAddress(p, <<p, "vmm">>, Head(vmm[p].left))
  /\ vmm' = [vmm EXCEPT ![p].pc = "data"]
  /\ UNCHANGED <<hal, flag>>

OutAddress(p) ==
  /\ vmm[p].pc = "ready" /\ hal[p] = None
  /\ PutAddress(p, <<p, "vmm">>, Head(vmm[p].left))
  /\ vmm' = [vmm EXCEPT ![p].pc = "data"]
  /\ flag' = [flag EXCEPT ![p] = FALSE]
  /\ UNCHANGED hal

\* in or out on the data port, and sti, after which interrupts stay enabled for
\* the rest of the handler and for the BARs it sizes next.
AccessData(p) ==
  /\ vmm[p].pc = "data" /\ hal[p] = None
  /\ vmm' = [vmm EXCEPT ![p] =
               IF Len(@.left) = 1 THEN NoAccess
               ELSE [pc |-> "ready", left |-> Tail(@.left)]]
  /\ flag' = [flag EXCEPT ![p] = TRUE]
  /\ UNCHANGED <<latch, hal, crossed>>
-----------------------------------------------------------------------------
(* The guest, or an interrupt service routine in VMX root mode.  Both go   *)
(* through the HAL, whose lock one processor holds at a time.              *)

HalOutAddress(p) ==
  /\ flag[p]
  /\ \A q \in Procs : hal[q] = None
  /\ \E r \in Registers :
       /\ PutAddress(p, <<p, "hal">>, r)
       /\ hal' = [hal EXCEPT ![p] = r]
  /\ UNCHANGED <<vmm, flag>>

HalAccessData(p) ==
  /\ hal[p] # None
  /\ hal' = [hal EXCEPT ![p] = None]
  /\ UNCHANGED <<latch, vmm, flag, crossed>>
-----------------------------------------------------------------------------
ConfigStep(p) == OutAddress(p) \/ AccessData(p)
HalStep(p) == HalOutAddress(p) \/ HalAccessData(p)

PortInit ==
  /\ latch = 0
  /\ vmm = [p \in Procs |-> NoAccess]
  /\ hal = [p \in Procs |-> None]
  /\ flag = [p \in Procs |-> TRUE]
  /\ crossed = {}

PortNext ==
  \E p \in Procs :
    \/ ConfigStep(p) \/ HalStep(p)
    \/ \E registers \in Seq(Registers), first \in BOOLEAN : StartConfig(p, registers, first)

PortSpec == PortInit /\ [][PortNext]_portVars
-----------------------------------------------------------------------------
(* Properties.                                                             *)

PortTypeOK ==
  /\ latch \in Nat
  /\ vmm \in [Procs -> [pc : {"idle", "ready", "data"}, left : Seq(Registers)]]
  /\ \A p \in Procs : vmm[p].pc = "idle" \/ vmm[p].left # <<>>
  /\ hal \in [Procs -> Registers \union {None}]
  /\ flag \in [Procs -> BOOLEAN]
  /\ crossed \subseteq Contexts

\* An access to a data port reaches the register its caller named: what cli in
\* x64.asm is for.  Only another processor can come in between, and then the
\* handler may size, and fill with ones, a register it never named.
ConfigGoesWhereNamed ==
  \A c \in Contexts :
    Pending(c) # None /\ c \notin crossed =>
      Selected(latch, DataPort(Pending(c))) = Pending(c)
=============================================================================
