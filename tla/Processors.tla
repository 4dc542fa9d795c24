----------------------------- MODULE Processors -----------------------------
(* The processors of the machine: VM-exit handlers run on all of them. *)
EXTENDS FiniteSets

CONSTANT Procs

ASSUME ProcsAssumption == IsFiniteSet(Procs)
=============================================================================
