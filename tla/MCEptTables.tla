---------------------------- MODULE MCEptTables ----------------------------
(***************************************************************************)
(* A tree of four levels with two entries each, sixteen pages: memory in   *)
(* pages 0, 1, 2 and 9, devices in 4, 5, 7 and 15, the APIC in 13.  A page *)
(* has four bytes; memory ends in the middle of page 2, and the list of    *)
(* ranges before its last element.                                         *)
(***************************************************************************)
EXTENDS EptTables

Ram == <<[base |-> 0, bytes |-> 10], [base |-> 36, bytes |-> 4],
         [base |-> 0, bytes |-> 0], [base |-> 16, bytes |-> 4]>>
Fixed == <<2, 1>>

Range(valid, type, base, pages) ==
  [valid |-> valid, type |-> type, base |-> base, pages |-> pages]
Mtrrs(on, variable) ==
  [fixedOn |-> on, fixed |-> <<"WC", "WP">>, variable |-> variable,
   default |-> "UC"]

\* Everything write-back; over it write-through and uncacheable ranges in
\* either order; a range that is not valid; with and without fixed ranges.
Settings ==
  {Mtrrs(on, variable) : on \in BOOLEAN, variable \in {
     <<>>,
     <<Range(TRUE, "WB", 0, 16)>>,
     <<Range(TRUE, "WB", 0, 16), Range(TRUE, "WT", 0, 8), Range(TRUE, "UC", 4, 4)>>,
     <<Range(TRUE, "UC", 8, 8), Range(TRUE, "WB", 0, 16), Range(FALSE, "UC", 0, 4)>>}}

\* The write-through range comes first.
ThroughBeforeBack ==
  {Mtrrs(FALSE, <<Range(TRUE, "WT", 0, 8), Range(TRUE, "WB", 0, 16)>>)}
=============================================================================
