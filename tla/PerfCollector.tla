---------------------------- MODULE PerfCollector ---------------------------
(***************************************************************************)
(* perf_counter.h and performance.cpp: with the performance counters built *)
(* in, the destructor of a PerfCounter at the end of every handler adds    *)
(* the time it took to a table with one entry per source location, taken   *)
(* first come, first served.  PerfInitialization gives PerfCollector no    *)
(* lock routine ("race condition here is not an issue").                   *)
(*                                                                         *)
(* A step is one access to the shared table.  total_execution_count++ and  *)
(* total_elapsed_time += are a load and a store each and lose updates in   *)
(* the same way; the model has one total, to which a call adds one.        *)
(***************************************************************************)
EXTENDS Processors, Integers

CONSTANTS
  Locations,     \* location_name: one string literal per measured scope
  DataLen,       \* kMaxNumberOfDataEntries
  NoKey          \* nullptr

Entries == 1 .. DataLen

ASSUME CollectorAssumption ==
  /\ DataLen \in Nat \ {0}
  /\ NoKey \notin Locations

VARIABLES
  data,          \* data_: key and total of every entry
  add,           \* add[p]: where processor p is in AddData
  ran,           \* history: ran[l] is how often AddData(l) had an entry for it
  retaken        \* history: entries whose key was stored more than once, and
                 \* whether two calls of AddData ever ran at once

collectorVars == <<data, add, ran, retaken>>

NoAdd == [pc |-> "idle", key |-> NoKey, index |-> 1, value |-> 0]
-----------------------------------------------------------------------------
\* AddData is entered.  NoLockRoutine excludes nobody.
StartAdd(p, l) ==
  /\ add[p].pc = "idle"
  /\ add' = [add EXCEPT ![p] = [NoAdd EXCEPT !.pc = "compare", !.key = l]]
  /\ retaken' = [retaken EXCEPT !.overlap = @ \/ \E q \in Procs : add[q].pc # "idle"]
  /\ UNCHANGED <<data, ran>>

\* An entry is this location's.
Enter(p) ==
  /\ add' = [add EXCEPT ![p].pc = "load"]
  /\ ran' = [ran EXCEPT ![add[p].key] = @ + 1]

\* One turn of GetPerfDataIndex reads the key twice: is it this location's,
MutCompareKey(p) ==
  /\ add[p].pc = "compare"
  /\ IF data[add[p].index].key = NoKey
     THEN add' = [add EXCEPT ![p].pc = "test"] /\ ran' = ran
     ELSE Enter(p)
  /\ UNCHANGED <<data, retaken>>

CompareKey(p) ==
  /\ add[p].pc = "compare"
  /\ IF data[add[p].index].key = add[p].key THEN Enter(p)
     ELSE add' = [add EXCEPT ![p].pc = "test"] /\ ran' = ran
  /\ UNCHANGED <<data, retaken>>

\* and is it nobody's?  After the last entry AddData returns false.
TestFree(p) ==
  /\ add[p].pc = "test"
  /\ add' = [add EXCEPT ![p] =
               CASE data[@.index].key = NoKey -> [@ EXCEPT !.pc = "take"]
                 [] data[@.index].key # NoKey /\ @.index < DataLen ->
                      [@ EXCEPT !.pc = "compare", !.index = add[p].index + 1]
                 [] OTHER -> NoAdd]
  /\ UNCHANGED <<data, ran, retaken>>

TakeEntry(p) ==
  /\ add[p].pc = "take"
  /\ LET i == add[p].index IN
     /\ data' = [data EXCEPT ![i].key = add[p].key]
     /\ retaken' = IF data[i].key = NoKey THEN retaken
                   ELSE [retaken EXCEPT !.entries = @ \union {i}]
  /\ Enter(p)

LoadTotal(p) ==
  /\ add[p].pc = "load"
  /\ add' = [add EXCEPT ![p].pc = "store",
                        ![p].value = data[add[p].index].total + 1]
  /\ UNCHANGED <<data, ran, retaken>>

StoreTotal(p) ==
  /\ add[p].pc = "store"
  /\ data' = [data EXCEPT ![add[p].index].total = add[p].value]
  /\ add' = [add EXCEPT ![p] = NoAdd]
  /\ UNCHANGED <<ran, retaken>>
-----------------------------------------------------------------------------
AddStep(p) == CompareKey(p) \/ TestFree(p) \/ TakeEntry(p) \/ LoadTotal(p) \/ StoreTotal(p)

\* PerfCollector::Initialize clears the table.
CollectorInit ==
  /\ data = [i \in Entries |-> [key |-> NoKey, total |-> 0]]
  /\ add = [p \in Procs |-> NoAdd]
  /\ ran = [l \in Locations |-> 0]
  /\ retaken = [entries |-> {}, overlap |-> FALSE]

CollectorNext ==
  \E p \in Procs : AddStep(p) \/ \E l \in Locations : StartAdd(p, l)

CollectorSpec == CollectorInit /\ [][CollectorNext]_collectorVars

\* PerfCollector::Terminate prints the entries up to the first free one.
MutPrinted == {i \in Entries : \A j \in 1 .. (i + 1) : j \in Entries /\ data[j].key # NoKey}
Printed == {i \in Entries : \A j \in 1 .. i : data[j].key # NoKey}
-----------------------------------------------------------------------------
\* "race condition here is not an issue" (performance.cpp:63): a race may lose
\* counts and never invents them.  No total of a location that was given an
\* entry of its own exceeds how often the location ran, every entry in use is
\* printed, and when no two calls of AddData ever overlapped the totals printed are exact.
CountsAddUp ==
  /\ \A i \in Entries : data[i].key # NoKey => i \in Printed
  /\ \A i \in Printed \ retaken.entries : data[i].total <= ran[data[i].key]
  /\ ~retaken.overlap /\ (\A p \in Procs : add[p].pc = "idle") =>
       \A l \in Locations : ran[l] > 0 =>
         \E i \in Printed : data[i] = [key |-> l, total |-> ran[l]]
=============================================================================
