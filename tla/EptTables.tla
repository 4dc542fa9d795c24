----------------------------- MODULE EptTables -----------------------------
(***************************************************************************)
(* The EPT of one processor (ept.cpp): EptInitialization builds the        *)
(* four-level tree for all physical memory, EPT violations extend it from  *)
(* preallocated tables, EptTermination frees it.  Any allocation may fail. *)
(* After a suspend VmInitialization does it all again, maybe under other   *)
(* MTRRs.                                                                  *)
(*                                                                         *)
(* Addresses are page numbers.  A table has Fan slots (512 in the code);   *)
(* child[t][i] is the table that slot i of table t points to, and in a     *)
(* table of the lowest level leaf[t][i] is the page slot i maps.           *)
(***************************************************************************)
EXTENDS MtrrTypes, FiniteSets

CONSTANTS
  Levels, Fan,   \* 4 levels of 512 entries in the code
  RamRanges,     \* what MmGetPhysicalMemoryRanges returns, in bytes
  PageSize,      \* bytes of a page
  ApicPage,      \* the page of IA32_APIC_BASE
  DevicePages,   \* pages of device memory the guest touches
  NumPreallocated, \* kEptpNumberOfPreallocatedEntries
  NumTables,     \* tables the pool has at most
  MtrrChoices,   \* MTRR settings the firmware may have made
  MaxFaults,     \* bound: EPT violations that are handled
  MaxStarts      \* bound: how often VmInitialization is called

\* How many pages a table of each level maps.
Span[level \in 0 .. Levels] == IF level = 0 THEN 1 ELSE Fan * Span[level - 1]

Pages == 0 .. (Span[Levels] - 1)
Slots == 0 .. (Fan - 1)
TableIds == 1 .. NumTables
NoTable == 0

ASSUME TreeAssumption ==
  /\ Levels \in Nat \ {0, 1}
  /\ Fan \in Nat \ {0, 1}
  /\ NumPreallocated \in Nat
  /\ NumTables \in Nat
  /\ MaxFaults \in Nat
  /\ MaxStarts \in Nat \ {0}
  /\ PageSize \in Nat \ {0}
  /\ RamRanges \in Seq([base : Nat, bytes : Nat])

\* The settings are those of MTRRs; a range that is in use has a length.
ASSUME MtrrAssumption ==
  \A m \in MtrrChoices :
    /\ m.fixedOn \in BOOLEAN
    /\ m.fixed \in [1 .. Len(FixedSizes) -> MemoryTypes]
    /\ m.variable \in Seq([valid : BOOLEAN, type : MemoryTypes,
                           base : Nat, pages : Nat \ {0}])
    /\ m.default \in MemoryTypes

\* UtilpBuildPhysicalMemoryRanges: the list ends at an empty range at address
\* 0; a range is counted in pages, its last one as a whole.
Runs ==
  LET Ends(i) == RamRanges[i].base = 0 /\ RamRanges[i].bytes = 0
      used == {i \in 1 .. Len(RamRanges) : \A j \in 1 .. i : ~Ends(j)}
  IN  [i \in used |-> [first |-> RamRanges[i].base \div PageSize,
                       count |-> (RamRanges[i].bytes + PageSize - 1) \div PageSize]]

\* The loops of EptInitialization over the runs and their pages.
RamPages ==
  LET Upto[k \in 0 .. Len(Runs)] ==
        IF k = 0 THEN <<>>
        ELSE Upto[k - 1] \o [j \in 1 .. Runs[k].count |-> Runs[k].first + j - 1]
  IN  Upto[Len(Runs)]

\* Physical memory ranges are disjoint and hold neither the APIC's page nor
\* device memory.
ASSUME PagesAssumption ==
  /\ RamPages \in Seq(Pages)
  /\ \A i, j \in 1 .. Len(RamPages) : RamPages[i] = RamPages[j] => i = j
  /\ DevicePages \subseteq Pages
  /\ ApicPage \in Pages
  /\ \A i \in 1 .. Len(RamPages) : RamPages[i] \notin DevicePages \union {ApicPage}

VARIABLES
  mtrrs,      \* the processor's MTRRs
  stored,     \* g_eptp_mtrr_entries
  pc,         \* how far EptInitialization and the EPT's life are
  todo,       \* pages EptInitialization has still to map
  allocated,  \* tables taken from the pool and not freed
  root,       \* ept_pml4
  child, leaf,
  pre,        \* preallocated_entries
  preCount,   \* preallocated_entries_count
  array,      \* whether the array preallocated_entries is held
  walk,       \* the call of EptpConstructTables under way
  faults,     \* counter for MaxFaults
  starts      \* counter for MaxStarts

vars == <<mtrrs, stored, pc, todo, allocated, root, child, leaf, pre, preCount,
          array, walk, faults, starts>>

tree == <<root, child, leaf>>
preallocation == <<pre, preCount, array>>

NoLeaf == [present |-> FALSE, page |-> 0, type |-> NoType]

\* level 0 stands for no call; pool for a call without an EptData, which
\* allocates from the pool.
NoWalk == [level |-> 0, table |-> NoTable, page |-> 0, pool |-> TRUE]

Pcs == {"mtrrs", "pml4", "map", "array", "fill", "ready", "failed", "freed"}
-----------------------------------------------------------------------------
(* The tree.                                                               *)

\* EptpAddressToPxeIndex and its siblings: nine bits of the address.
MutIndex(level, page) == (page \div Span[level - 1]) % (Fan - 1)
Index(level, page) == (page \div Span[level - 1]) % Fan

\* EptpGetEptPtEntry: the table reached for page at each level, and the entry.
Path(page) ==
  LET At[level \in 1 .. Levels] ==
        IF level = Levels THEN root
        ELSE IF At[level + 1] = NoTable THEN NoTable
        ELSE child[At[level + 1]][Index(level + 1, page)]
  IN At

TableAt(page) == Path(page)[1]

EptGetEptPtEntry(page) ==
  IF TableAt(page) = NoTable THEN NoLeaf
  ELSE leaf[TableAt(page)][Index(1, page)]

\* The tables EptpDestructTables goes through: level by level what the
\* entries of the level above point to.
Reached ==
  LET At[level \in 1 .. Levels] ==
        IF level = Levels THEN {root} \ {NoTable}
        ELSE {child[t][i] : t \in At[level + 1], i \in Slots} \ {NoTable}
  IN At

TreeTables == UNION {Reached[level] : level \in 1 .. Levels}

\* Preallocated tables EptpFreeUnusedPreAllocatedEntries frees.
MutUnusedPreallocated(count) == {pre[i] : i \in (count + 2) .. Len(pre)}
UnusedPreallocated(count) == {pre[i] : i \in (count + 1) .. Len(pre)}

FreeTables == TableIds \ allocated
NextFree == CHOOSE t \in FreeTables : \A other \in FreeTables : t <= other

\* EptpAllocateEptEntryFromPool; the table is zeroed.
TakeFromPool(t) ==
  /\ FreeTables # {} /\ t = NextFree
  /\ allocated' = allocated \union {t}

\* EptpDestructTables and the release of ept_data.
Destruct(alsoFreed) ==
  /\ allocated' = allocated \ (TreeTables \union alsoFreed)
  /\ root' = NoTable
  /\ child' = [t \in TableIds |-> [i \in Slots |-> NoTable]]
  /\ leaf' = [t \in TableIds |-> [i \in Slots |-> NoLeaf]]
  /\ pre' = <<>>
  /\ array' = FALSE
-----------------------------------------------------------------------------
(* EptInitializeMtrrEntries and EptInitialization.                         *)

\* The array is overwritten from its start, and nothing is cleared behind.
Overwritten(new) ==
  [i \in 1 .. Len(new) + IF Len(stored) > Len(new) THEN Len(stored) - Len(new) ELSE 0 |->
     IF i <= Len(new) THEN new[i] ELSE stored[i]]

EptInitializeMtrrEntries ==
  /\ pc = "mtrrs"
  /\ stored' = Overwritten(StoredEntries(mtrrs))
  /\ pc' = "pml4"
  /\ UNCHANGED <<mtrrs, todo, allocated, tree, preallocation, walk, faults, starts>>

AllocatePml4 ==
  /\ pc = "pml4"
  /\ \/ \E t \in TableIds :
          /\ TakeFromPool(t)
          /\ root' = t
          /\ pc' = "map"
     \/ /\ pc' = "failed"
        /\ UNCHANGED <<allocated, root>>
  /\ UNCHANGED <<mtrrs, stored, todo, child, leaf, preallocation, walk, faults, starts>>

\* The next page of physical memory, or the APIC's page after them.
MapNextPage ==
  /\ pc = "map" /\ walk = NoWalk
  /\ walk' = [level |-> Levels, table |-> root, page |-> Head(todo), pool |-> TRUE]
  /\ UNCHANGED <<mtrrs, stored, pc, todo, allocated, tree, preallocation, faults, starts>>

AllocateArray ==
  /\ pc = "array"
  /\ \/ /\ array' = TRUE
        /\ pc' = IF NumPreallocated = 0 THEN "ready" ELSE "fill"
        /\ UNCHANGED <<allocated, tree, pre>>
     \/ /\ pc' = "failed"
        /\ Destruct({})
  /\ UNCHANGED <<mtrrs, stored, todo, preCount, walk, faults, starts>>

MutFillOneMore ==
  /\ pc = "fill"
  /\ \/ \E t \in TableIds :
          /\ TakeFromPool(t)
          /\ pre' = Append(pre, t)
          /\ pc' = IF Len(pre) = NumPreallocated THEN "ready" ELSE "fill"
          /\ UNCHANGED <<tree, array>>
     \/ /\ pc' = "failed"
        /\ Destruct(UnusedPreallocated(0))
  /\ UNCHANGED <<mtrrs, stored, todo, preCount, walk, faults, starts>>

FillPreallocated ==
  /\ pc = "fill"
  /\ \/ \E t \in TableIds :
          /\ TakeFromPool(t)
          /\ pre' = Append(pre, t)
          /\ pc' = IF Len(pre) + 1 = NumPreallocated THEN "ready" ELSE "fill"
          /\ UNCHANGED <<tree, array>>
     \/ /\ pc' = "failed"
        /\ Destruct(UnusedPreallocated(0))
  /\ UNCHANGED <<mtrrs, stored, todo, preCount, walk, faults, starts>>
-----------------------------------------------------------------------------
(* EptpConstructTables, one step per level.                                *)

\* EptpAllocateEptEntryFromPreAllocated counts every call and turns to the
\* pool when the preallocated tables have run out.
MutTakePreallocated(t) ==
  /\ preCount' = preCount + 1
  /\ IF preCount < NumPreallocated
     THEN t = pre[1] /\ UNCHANGED allocated
     ELSE TakeFromPool(t)

TakePreallocated(t) ==
  /\ preCount' = preCount + 1
  /\ IF preCount < NumPreallocated
     THEN t = pre[preCount + 1] /\ UNCHANGED allocated
     ELSE TakeFromPool(t)

EptpAllocateEptEntry(t) ==
  IF walk.pool THEN TakeFromPool(t) /\ UNCHANGED preCount
  ELSE TakePreallocated(t)

Descend ==
  LET slot == Index(walk.level, walk.page)
      next == child[walk.table][slot]
  IN
  /\ walk.level > 1 /\ next # NoTable
  /\ walk' = [walk EXCEPT !.level = @ - 1, !.table = next]
  /\ UNCHANGED <<mtrrs, stored, pc, todo, allocated, tree, preallocation, faults, starts>>

AddTable ==
  LET slot == Index(walk.level, walk.page) IN
  /\ walk.level > 1 /\ child[walk.table][slot] = NoTable
  /\ \E t \in TableIds :
       /\ EptpAllocateEptEntry(t)
       /\ child' = [child EXCEPT ![walk.table][slot] = t]
       /\ walk' = [walk EXCEPT !.level = @ - 1, !.table = t]
  /\ UNCHANGED <<mtrrs, stored, pc, todo, root, leaf, pre, array, faults, starts>>

\* No table: EptInitialization gives up, EptHandleEptViolation just returns
\* to the guest, whose instruction will fault again.
AllocationFails ==
  /\ walk.level > 1
  /\ child[walk.table][Index(walk.level, walk.page)] = NoTable
  /\ walk.pool \/ preCount >= NumPreallocated
  /\ walk' = NoWalk
  /\ IF pc = "map" THEN pc' = "failed" /\ Destruct({}) /\ UNCHANGED preCount
     ELSE /\ preCount' = preCount + 1
          /\ UNCHANGED <<pc, allocated, tree, pre, array>>
  /\ UNCHANGED <<mtrrs, stored, todo, faults, starts>>

MutSetLeaf ==
  /\ walk.level = 1
  /\ leaf' = [leaf EXCEPT ![walk.table][Index(1, walk.page)] =
       [present |-> TRUE, page |-> walk.page,
        type |-> EptpGetMemoryType(stored, mtrrs.default, walk.page)]]
  /\ walk' = NoWalk
  /\ IF pc = "map"
     THEN /\ todo' = Tail(todo)
          /\ pc' = IF Len(todo) = 2 THEN "array" ELSE "map"
     ELSE UNCHANGED <<todo, pc>>
  /\ UNCHANGED <<mtrrs, stored, allocated, root, child, preallocation, faults, starts>>

\* EptpInitTableEntry for the lowest level.
SetLeaf ==
  /\ walk.level = 1
  /\ leaf' = [leaf EXCEPT ![walk.table][Index(1, walk.page)] =
       [present |-> TRUE, page |-> walk.page,
        type |-> EptpGetMemoryType(stored, mtrrs.default, walk.page)]]
  /\ walk' = NoWalk
  /\ IF pc = "map"
     THEN /\ todo' = Tail(todo)
          /\ pc' = IF Len(todo) = 1 THEN "array" ELSE "map"
     ELSE UNCHANGED <<todo, pc>>
  /\ UNCHANGED <<mtrrs, stored, allocated, root, child, preallocation, faults, starts>>
-----------------------------------------------------------------------------
(* The EPT in use.                                                         *)

\* EptHandleEptViolation, or InvalidateEptPages in DevMon.cpp, on a page
\* without an entry.  The guest touches memory and devices, as it likes.
HandleMiss(page) ==
  /\ pc = "ready" /\ walk = NoWalk /\ faults < MaxFaults
  /\ ~EptGetEptPtEntry(page).present
  /\ walk' = [level |-> Levels, table |-> root, page |-> page, pool |-> FALSE]
  /\ faults' = faults + 1
  /\ UNCHANGED <<mtrrs, stored, pc, todo, allocated, tree, preallocation, starts>>

EptTermination ==
  /\ pc = "ready" /\ walk = NoWalk
  /\ Destruct(UnusedPreallocated(preCount))
  /\ pc' = "freed"
  /\ UNCHANGED <<mtrrs, stored, todo, preCount, walk, faults, starts>>

\* VmInitialization once more, when the machine resumes and the firmware has
\* set the MTRRs again.  A driver whose first start fails is not loaded.
StartAgain ==
  /\ pc \in {"freed", "failed"} /\ starts < MaxStarts
  /\ pc = "failed" => starts > 1
  /\ mtrrs' \in MtrrChoices
  /\ pc' = "mtrrs"
  /\ todo' = Append(RamPages, ApicPage)
  /\ preCount' = 0
  /\ faults' = 0
  /\ starts' = starts + 1
  /\ UNCHANGED <<stored, allocated, tree, pre, array, walk>>

Touched == DevicePages \union {ApicPage} \union {RamPages[i] : i \in 1 .. Len(RamPages)}

Init ==
  /\ mtrrs \in MtrrChoices
  /\ stored = <<>>
  /\ pc = "mtrrs"
  /\ todo = Append(RamPages, ApicPage)
  /\ allocated = {}
  /\ root = NoTable
  /\ child = [t \in TableIds |-> [i \in Slots |-> NoTable]]
  /\ leaf = [t \in TableIds |-> [i \in Slots |-> NoLeaf]]
  /\ pre = <<>> /\ preCount = 0 /\ array = FALSE
  /\ walk = NoWalk
  /\ faults = 0
  /\ starts = 1

Next ==
  \/ EptInitializeMtrrEntries \/ AllocatePml4 \/ MapNextPage
  \/ AllocateArray \/ FillPreallocated
  \/ Descend \/ AddTable \/ AllocationFails \/ SetLeaf
  \/ \E page \in Touched : HandleMiss(page)
  \/ EptTermination \/ StartAgain

Spec == Init /\ [][Next]_vars
-----------------------------------------------------------------------------
(* Properties.                                                             *)

\* Every variable has its type; the array preallocated_entries never holds
\* more tables than EptInitialization made room for.
TypeOK ==
  /\ mtrrs \in MtrrChoices
  /\ stored \in Seq([fixed : BOOLEAN, type : MemoryTypes, first : Nat, last : Nat])
  /\ pc \in Pcs
  /\ todo \in Seq(Pages)
  /\ allocated \subseteq TableIds
  /\ root \in TableIds \union {NoTable}
  /\ child \in [TableIds -> [Slots -> TableIds \union {NoTable}]]
  /\ leaf \in [TableIds -> [Slots -> [present : BOOLEAN, page : Pages,
                                      type : MemoryTypes \union {NoType}]]]
  /\ pre \in Seq(TableIds) /\ Len(pre) <= NumPreallocated
  /\ preCount \in Nat
  /\ array \in BOOLEAN
  /\ walk \in [level : 0 .. Levels, table : TableIds \union {NoTable},
               page : Pages, pool : BOOLEAN]
  /\ faults \in 0 .. MaxFaults
  /\ starts \in 1 .. MaxStarts

\* The EPT as its users see it implements EptMap: each page maps to itself
\* with its memory type, whatever order the tables were created in, and
\* creating tables for one page (EptpConstructTables) never changes another.
Map == INSTANCE EptMap WITH
  Unmapped <- NoLeaf,
  typeOf <- [p \in Pages |-> EptpGetMemoryType(stored, mtrrs.default, p)],
  translation <- [p \in Pages |-> EptGetEptPtEntry(p)]
ImplementsEptMap == Map!MapSpec

\* EptpDestructTables frees every table of the tree once: no table is the
\* target of two entries, the root is nobody's child, and a preallocated
\* table not used yet is not in the tree.
EveryTableOnce ==
  LET Parents(t) == {s \in TreeTables \X Slots : child[s[1]][s[2]] = t} IN
  /\ \A t \in TreeTables : Cardinality(Parents(t)) = (IF t = root THEN 0 ELSE 1)
  /\ UnusedPreallocated(preCount) \intersect TreeTables = {}
  /\ TreeTables \union UnusedPreallocated(preCount) \subseteq allocated

\* After EptTermination, and after EptInitialization has failed at whatever
\* allocation, no table is left allocated.
NothingLeaks == pc \in {"failed", "freed"} => allocated = {} /\ ~array

\* ept.cpp:670 asserts that an EPT violation without an entry is for device
\* memory: all physical memory, and the APIC's page, have an entry before the
\* EPT is used and for as long as it is.
MissIsDeviceMemory ==
  pc = "ready" /\ walk.level > 0 => walk.page \in DevicePages

\* ept.cpp:552 asserts that the lowest-level entry EptpConstructTables fills
\* in is still empty: no two calls are ever for the same page.
LeafIsFresh ==
  walk.level = 1 => ~leaf[walk.table][Index(1, walk.page)].present

\* The entries behind those of the current MTRRs are of an earlier start.
NoStaleEntry == Len(stored) = Len(StoredEntries(mtrrs))

\* A mapped page has the memory type the processor's MTRRs give it, if they
\* define one ("MTRR Precedences", ept.cpp:366), also after a new start under
\* other MTRRs, unless these are fewer than at an earlier one.
TypesFollowMtrrs ==
  pc # "mtrrs" /\ NoStaleEntry => \A p \in Pages : EptGetEptPtEntry(p).present =>
    EptGetEptPtEntry(p).type \in ArchitecturalTypes(mtrrs, p)
=============================================================================
