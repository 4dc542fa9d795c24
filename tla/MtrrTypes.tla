----------------------------- MODULE MtrrTypes -----------------------------
(***************************************************************************)
(* Memory types: how EptInitializeMtrrEntries copies the MTRRs into        *)
(* g_eptp_mtrr_entries and how EptpGetMemoryType finds the type of an      *)
(* address there (ept.cpp).  Addresses are counted in pages.               *)
(***************************************************************************)
EXTENDS Integers, Sequences

CONSTANT FixedSizes  \* pages each fixed range covers, from page 0 upwards

ASSUME FixedSizesAssumption == FixedSizes \in Seq(Nat \ {0})

MemoryTypes == {"UC", "WC", "WT", "WP", "WB"}
NoType == "none"

\* The MTRRs of a processor are a record: fixedOn, when fixed ranges are supported and
\* enabled; fixed, their types; variable, the other ranges with the validity
\* and length that their mask gives; and default.

\* Where each fixed range begins, and where the last one ends.
FixedBase == [i \in 1 .. Len(FixedSizes) + 1 |->
  LET Sum[k \in 0 .. Len(FixedSizes)] ==
        IF k = 0 THEN 0 ELSE Sum[k - 1] + FixedSizes[k]
  IN Sum[i - 1]]

FixedEntries(mtrrs) ==
  IF ~mtrrs.fixedOn THEN <<>>
  ELSE [i \in 1 .. Len(FixedSizes) |->
          [fixed |-> TRUE, type |-> mtrrs.fixed[i],
           first |-> FixedBase[i], last |-> FixedBase[i + 1] - 1]]

VariableEntry(range) ==
  [fixed |-> FALSE, type |-> range.type, first |-> range.base,
   last |-> range.base + range.pages - 1]

\* The loop over the variable ranges leaves out those that are not valid.
VariableEntries(mtrrs) ==
  LET Upto[k \in 0 .. Len(mtrrs.variable)] ==
        IF k = 0 THEN <<>>
        ELSE IF mtrrs.variable[k].valid
        THEN Append(Upto[k - 1], VariableEntry(mtrrs.variable[k]))
        ELSE Upto[k - 1]
  IN Upto[Len(mtrrs.variable)]

\* EptInitializeMtrrEntries: fixed ranges first.
StoredEntries(mtrrs) == FixedEntries(mtrrs) \o VariableEntries(mtrrs)

Covers(entry, page) == entry.first <= page /\ page <= entry.last

\* What one turn of EptpGetMemoryType's loop makes of the result so far.
\* stop is the break of the loop.
MutCombine(result, entry) ==
  CASE entry.fixed -> [type |-> entry.type, stop |-> TRUE]
    [] ~entry.fixed /\ entry.type = "WT" /\ result = "WB" ->
         [type |-> "WT", stop |-> FALSE]
    [] OTHER -> [type |-> entry.type, stop |-> FALSE]

Combine(result, entry) ==
  CASE entry.fixed \/ entry.type = "UC" -> [type |-> entry.type, stop |-> TRUE]
    [] ~entry.fixed /\ entry.type = "WT" /\ result = "WB" ->
         [type |-> "WT", stop |-> FALSE]
    [] OTHER -> [type |-> entry.type, stop |-> FALSE]

EptpGetMemoryType(entries, default, page) ==
  LET After[k \in 0 .. Len(entries)] ==
        IF k = 0 THEN [type |-> NoType, stop |-> FALSE]
        ELSE IF After[k - 1].stop \/ ~Covers(entries[k], page) THEN After[k - 1]
        ELSE Combine(After[k - 1].type, entries[k])
      result == After[Len(entries)].type
  IN IF result = NoType THEN default ELSE result
-----------------------------------------------------------------------------
(* The processor's own rule, "MTRR Precedences" in the architecture's      *)
(* manual, which the comments of EptpGetMemoryType refer to.  It depends   *)
(* on the set of ranges that cover the page and not on their order; where  *)
(* it leaves the type undefined any type will do.                          *)

CoveringTypes(mtrrs, page) ==
  {mtrrs.variable[i].type : i \in
     {j \in 1 .. Len(mtrrs.variable) :
        /\ mtrrs.variable[j].valid
        /\ mtrrs.variable[j].base <= page
        /\ page < mtrrs.variable[j].base + mtrrs.variable[j].pages}}

ArchitecturalTypes(mtrrs, page) ==
  LET fixedRanges == {i \in 1 .. Len(FixedSizes) :
                        FixedBase[i] <= page /\ page < FixedBase[i + 1]}
      types == CoveringTypes(mtrrs, page)
  IN IF mtrrs.fixedOn /\ fixedRanges # {}
     THEN {mtrrs.fixed[i] : i \in fixedRanges}
     ELSE CASE types = {} -> {mtrrs.default}
            [] "UC" \in types -> {"UC"}
            [] types = {"WT", "WB"} -> {"WT"}
            [] types \in {{t} : t \in MemoryTypes \ {"UC"}} -> types
            [] OTHER -> MemoryTypes
=============================================================================
