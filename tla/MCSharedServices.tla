-------------------------- MODULE MCSharedServices --------------------------
(* A small machine for SharedServices. *)
EXTENDS SharedServices, TLC

CONSTANTS p1, p2  \* the processors
Processors == {p1, p2}
ProcessorSymmetry == Permutations(Processors)

\* Three instructions of two pages for a table of two: two of them collide at
\* home, the third finds its home taken or the table full.  One writes a flag
\* before its register, one only flags.
Pages == (1 :> 4) @@ (2 :> 4) @@ (3 :> 5)
Writes == (1 :> <<"flags", "eax">>) @@ (2 :> <<"flags">>) @@ (3 :> <<"rbx", "rcx">>)

\* The 64-bit BAR of xHCI and a two-byte register of a bridge.
XhciBar == [bus |-> 0, dev |-> 20, fun |-> 0, off |-> 16]
XhciUpperBar == [bus |-> 0, dev |-> 20, fun |-> 0, off |-> 20]
BridgeControl == [bus |-> 3, dev |-> 31, fun |-> 5, off |-> 62]
MachineRegisters == {XhciBar, XhciUpperBar, BridgeControl}
MachineBars == {XhciBar}
MachineUpper == (XhciBar :> XhciUpperBar)
=============================================================================
