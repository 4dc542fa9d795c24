------------------------- MODULE VmLifecycle_proofs -------------------------
(***************************************************************************)
(* Proofs about VmLifecycle, for every number of processors and every      *)
(* interleaving of the three threads: types, and the lifetime of the       *)
(* shared data.                                                            *)
(***************************************************************************)
EXTENDS VmLifecycle, FiniteSetTheorems, TLAPS

Work == [job : Jobs, pc : Pcs, cpu : Cpus, last : Cpus,
         block : Blocks \union {NoBlock}]

\* Where a thread may be in the routines it calls.
WorkOK(w) ==
  /\ w \in Work
  /\ w.cpu <= w.last
  /\ w.pc \in {"start", "launch", "free"} => w.block \in Blocks
  /\ w.pc \in {"start", "launch"} => w.job \in {"init", "hotplug"}
  /\ w.pc = "fetch" => w.job = "hotplug"
  /\ w.pc \in {"check", "enable"} => w.job = "init"

ThreadsOK == \A t \in Threads : WorkOK(thread[t])

\* Where the driver's thread is on its ladder.
DriverOnLadder ==
  /\ thread["driver"].job \in {"none", "init", "term"}
  /\ thread["driver"].job = "none" <=> thread["driver"].pc = "idle"
  /\ thread["driver"].job = "init" => up = VmRung - 1
  /\ driver \in {"loaded", "unwind"} => up > 0

\* Who has taken a reference to b and not released it.
Owners(b) == {c \in Cpus : owner[c] = b}
Holds(w, b) == w.pc \in {"launch", "free"} /\ w.block = b
Holding(b) == {t \in Threads : Holds(thread[t], b)}

RefsCover ==
  \A b \in Blocks : Cardinality(Owners(b)) + Cardinality(Holding(b)) <= refs[b]

ClashNoticed == StartMeetsAnother => clash

LifeInv == TypeOK /\ ThreadsOK /\ DriverOnLadder /\ RefsCover
-----------------------------------------------------------------------------
(* Counting.                                                               *)

Count(condition) == IF condition THEN 1 ELSE 0

\* A set from which x may go and to which it may come.
LEMMA OneElement ==
  ASSUME NEW S, IsFiniteSet(S), NEW x, NEW T,
         \A y : y # x => (y \in T <=> y \in S)
  PROVE  /\ IsFiniteSet(T)
         /\ Cardinality(S) \in Nat /\ Cardinality(T) \in Nat
         /\ Cardinality(T) = Cardinality(S) + Count(x \in T) - Count(x \in S)
<1>1. Cardinality(S) \in Nat
  BY FS_CardinalityType
<1>2. CASE x \in S <=> x \in T
  <2>1. S = T
    BY <1>2
  <2> QED BY <1>1, <1>2, <2>1 DEF Count
<1>3. CASE x \in T /\ x \notin S
  <2>1. T = S \union {x}
    BY <1>3
  <2>2. IsFiniteSet(T) /\ Cardinality(T) = Cardinality(S) + 1
    BY <1>3, <2>1, FS_AddElement
  <2> QED BY <1>1, <1>3, <2>2 DEF Count
<1>4. CASE x \in S /\ x \notin T
  <2>1. T = S \ {x}
    BY <1>4
  <2>2. IsFiniteSet(T) /\ Cardinality(T) = Cardinality(S) - 1
    BY <1>4, <2>1, FS_RemoveElement
  <2>3. Cardinality(T) \in Nat
    BY <2>2, FS_CardinalityType
  <2> QED BY <1>1, <1>4, <2>2, <2>3 DEF Count
<1> QED BY <1>2, <1>3, <1>4

LEMMA FiniteParts ==
  ASSUME NEW b
  PROVE  IsFiniteSet(Owners(b)) /\ IsFiniteSet(Holding(b))
<1>1. IsFiniteSet(Cpus)
  BY CpusAssumption, FS_Interval DEF Cpus
<1>2. IsFiniteSet({}) /\ IsFiniteSet({"driver"})
  BY FS_EmptySet, FS_Singleton
<1>3. IsFiniteSet({"driver"} \union {"power"} \union {"hotplug"})
  BY <1>2, FS_AddElement
<1>4. Threads = {"driver"} \union {"power"} \union {"hotplug"}
  BY DEF Threads
<1>5. Owners(b) \subseteq Cpus /\ Holding(b) \subseteq Threads
  BY DEF Owners, Holding
<1> QED BY <1>1, <1>3, <1>4, <1>5, FS_Subset

\* Only thread t moves.
Moves(t) == \A o \in Threads \ {t} : thread'[o] = thread[o]

LEMMA HoldingCount ==
  ASSUME NEW b, NEW t \in Threads, Moves(t)
  PROVE  /\ Cardinality(Holding(b)) \in Nat /\ Cardinality(Holding(b)') \in Nat
         /\ Cardinality(Holding(b)') = Cardinality(Holding(b))
              + Count(Holds(thread'[t], b)) - Count(Holds(thread[t], b))
<1>1. \A y : y # t => (y \in Holding(b)' <=> y \in Holding(b))
  BY DEF Moves, Holding
<1>2. /\ t \in Holding(b)' <=> Holds(thread'[t], b)
      /\ t \in Holding(b) <=> Holds(thread[t], b)
  BY DEF Holding, Holds
<1>3. Cardinality(Holding(b)') = Cardinality(Holding(b))
              + Count(t \in Holding(b)') - Count(t \in Holding(b))
      /\ Cardinality(Holding(b)) \in Nat /\ Cardinality(Holding(b)') \in Nat
  BY <1>1, FiniteParts, OneElement
<1> QED BY <1>2, <1>3 DEF Count

LEMMA OwnersCount ==
  ASSUME NEW b, NEW c \in Cpus, \A d \in Cpus \ {c} : owner'[d] = owner[d]
  PROVE  /\ Cardinality(Owners(b)) \in Nat /\ Cardinality(Owners(b)') \in Nat
         /\ Cardinality(Owners(b)') = Cardinality(Owners(b))
              + Count(owner'[c] = b) - Count(owner[c] = b)
<1>1. \A y : y # c => (y \in Owners(b)' <=> y \in Owners(b))
  BY DEF Owners
<1>2. /\ c \in Owners(b)' <=> owner'[c] = b
      /\ c \in Owners(b) <=> owner[c] = b
  BY DEF Owners
<1>3. Cardinality(Owners(b)') = Cardinality(Owners(b))
              + Count(c \in Owners(b)') - Count(c \in Owners(b))
      /\ Cardinality(Owners(b)) \in Nat /\ Cardinality(Owners(b)') \in Nat
  BY <1>1, FiniteParts, OneElement
<1> QED BY <1>2, <1>3 DEF Count
-----------------------------------------------------------------------------
(* What a step of one thread leaves of the routines and of the ladder.     *)

ControlOK(t) ==
  /\ thread' \in [Threads -> Work]
  /\ Moves(t)
  /\ WorkOK(thread'[t])
  /\ driver' \in {"absent", "entry", "loaded", "unwind"}
  /\ up' \in 0 .. VmRung
  /\ DriverOnLadder'

LEMMA CpuFacts ==
  /\ NumCpus \in Nat \ {0} /\ MaxCpus \in Nat
  /\ 0 \in Cpus
  /\ \A n \in NumCpus .. MaxCpus : n - 1 \in Cpus
BY CpusAssumption DEF Cpus

LEMMA TypeParts ==
  ASSUME TypeOK
  PROVE  /\ thread \in [Threads -> Work]
         /\ driver \in {"absent", "entry", "loaded", "unwind"}
         /\ up \in 0 .. VmRung
BY DEF TypeOK, Work

\* A routine returns.
LEMMA ReturnOK ==
  ASSUME LifeInv, NEW t \in Threads, NEW ok \in BOOLEAN,
         thread[t].pc # "idle", Return(t, ok)
  PROVE  ControlOK(t) /\ loads' = loads /\ thread'[t].pc = "idle"
<1>0. loads' = loads /\ NoJob.pc = "idle"
  BY DEF Return, NoJob
<1>1. NoJob \in Work /\ WorkOK(NoJob)
  BY CpuFacts DEF NoJob, Work, WorkOK, Jobs, Pcs
<1>2. thread' = [thread EXCEPT ![t] = NoJob] /\ thread \in [Threads -> Work]
  BY TypeParts DEF LifeInv, Return
<1>3. thread' \in [Threads -> Work] /\ Moves(t) /\ thread'[t] = NoJob
  BY <1>1, <1>2 DEF Moves
<1>4. CASE t # "driver"
  <2>1. UNCHANGED <<driver, up>> /\ thread'["driver"] = thread["driver"]
    BY <1>2, <1>4 DEF Return, Threads
  <2> QED BY <1>0, <1>1, <1>3, <2>1, TypeParts DEF LifeInv, ControlOK, DriverOnLadder
<1>5. CASE t = "driver"
  <2>1. thread["driver"].job \in {"init", "term"}
    BY <1>5 DEF LifeInv, DriverOnLadder
  <2>2. CASE thread["driver"].job = "term"
    <3>1. up' = VmRung - 1 /\ driver' = driver
      BY <1>5, <2>2 DEF Return
    <3> QED BY <1>0, <1>1, <1>3, <1>5, <3>1, TypeParts
            DEF LifeInv, ControlOK, DriverOnLadder, VmRung, NoJob
  <2>3. CASE thread["driver"].job = "init"
    <3>1. /\ up' = IF ok THEN VmRung ELSE up
          /\ driver' = IF ok THEN "loaded" ELSE "unwind"
          /\ up = VmRung - 1
      BY <1>5, <2>3 DEF Return, LifeInv, DriverOnLadder
    <3> QED BY <1>0, <1>1, <1>3, <1>5, <3>1, TypeParts
            DEF LifeInv, ControlOK, DriverOnLadder, VmRung, NoJob
  <2> QED BY <2>1, <2>2, <2>3
<1> QED BY <1>0, <1>3, <1>4, <1>5

\* A thread goes on inside its routine.
LEMMA WorkOn ==
  ASSUME LifeInv, NEW t \in Threads, NEW w \in Work, WorkOK(w),
         thread' = [thread EXCEPT ![t] = w], up' = up,
         driver' = driver \/ (driver = "loaded" /\ driver' = "unwind"),
         t = "driver" => /\ w.pc # "idle"
                         /\ w.job \in {"init", "term"}
                         /\ w.job = "init" => up = VmRung - 1
  PROVE  ControlOK(t) /\ thread'[t] = w
<1>1. thread \in [Threads -> Work] /\ "driver" \in Threads
  BY TypeParts DEF LifeInv, Threads
<1>2. thread' \in [Threads -> Work] /\ Moves(t) /\ thread'[t] = w
  BY <1>1 DEF Moves
<1>3. DriverOnLadder'
  BY <1>1, <1>2 DEF LifeInv, DriverOnLadder, Moves
<1> QED BY <1>2, <1>3, TypeParts DEF LifeInv, ControlOK

LEMMA BeginLoopOK ==
  ASSUME LifeInv, NEW t \in Threads, NEW job \in {"init", "term"},
         NEW pc \in {"start", "enable", "disable", "stop"},
         NEW b \in Blocks \union {NoBlock},
         pc = "start" => job = "init" /\ b \in Blocks,
         pc = "enable" => job = "init",
         t = "driver" /\ job = "init" => thread[t].job = "init",
         BeginLoop(t, job, pc, b), up' = up,
         driver' = driver \/ (driver = "loaded" /\ driver' = "unwind")
  PROVE  ControlOK(t) /\ thread'[t].pc = pc /\ thread'[t].block = b
<1> DEFINE w == [job |-> job, pc |-> pc, cpu |-> 0, last |-> active - 1, block |-> b]
<1>1. active - 1 \in Cpus /\ 0 \in Cpus /\ 0 <= active - 1
  BY CpuFacts DEF LifeInv, TypeOK, Cpus
<1>2. w \in Work /\ WorkOK(w)
  BY <1>1 DEF Work, WorkOK, Jobs, Pcs
<1>3. thread' = [thread EXCEPT ![t] = w]
  BY DEF BeginLoop
<1> HIDE DEF w
<1>4. w.job = job /\ w.pc = pc /\ w.block = b
  BY DEF w
<1> QED BY <1>2, <1>3, <1>4, WorkOn DEF LifeInv, DriverOnLadder

LEMMA NextCpuOK ==
  ASSUME LifeInv, NEW t \in Threads, thread[t].pc # "idle", ~AtLast(t),
         NEW pc \in {"start", "enable", "disable", "stop"},
         pc = "start" => thread[t].pc = "launch",
         pc = "enable" => thread[t].pc = "enable",
         NextCpu(t, pc), UNCHANGED <<driver, up>>
  PROVE  ControlOK(t) /\ thread'[t].pc = pc /\ thread'[t].block = thread[t].block
<1> DEFINE w == [thread[t] EXCEPT !.pc = pc, !.cpu = @ + 1]
<1>1. thread[t] \in Work /\ WorkOK(thread[t]) /\ thread \in [Threads -> Work]
  BY TypeParts DEF LifeInv, ThreadsOK
<1>2. thread[t].cpu + 1 \in Cpus /\ thread[t].cpu + 1 <= thread[t].last
  BY <1>1, CpuFacts DEF AtLast, WorkOK, Work, Cpus
<1>3. /\ w.job = thread[t].job /\ w.pc = pc /\ w.cpu = thread[t].cpu + 1
      /\ w.last = thread[t].last /\ w.block = thread[t].block
      /\ w \in Work
  BY <1>1, <1>2 DEF Work, Pcs
<1>4. thread' = [thread EXCEPT ![t] = w]
  BY <1>1 DEF NextCpu, Work
<1> HIDE DEF w
<1>5. WorkOK(w)
  BY <1>1, <1>2, <1>3 DEF WorkOK
<1>6. t = "driver" => /\ thread[t].job \in {"init", "term"}
                      /\ thread[t].job = "init" => up = VmRung - 1
  BY DEF LifeInv, DriverOnLadder
<1> QED BY <1>3, <1>4, <1>5, <1>6, WorkOn

\* The rest of a thread's record stays.
LEMMA GotoOK ==
  ASSUME LifeInv, NEW t \in Threads, NEW pc \in {"launch", "assert"},
         thread[t].pc # "idle",
         pc = "launch" => thread[t].pc = "start",
         Goto(t, pc), UNCHANGED <<driver, up>>
  PROVE  /\ ControlOK(t) /\ thread'[t].pc = pc
         /\ thread'[t].block = thread[t].block
<1> DEFINE w == [thread[t] EXCEPT !.pc = pc]
<1>1. thread[t] \in Work /\ WorkOK(thread[t]) /\ thread \in [Threads -> Work]
  BY TypeParts DEF LifeInv, ThreadsOK
<1>2. /\ w.job = thread[t].job /\ w.pc = pc /\ w.cpu = thread[t].cpu
      /\ w.last = thread[t].last /\ w.block = thread[t].block
      /\ w \in Work
  BY <1>1 DEF Work, Pcs
<1>3. thread' = [thread EXCEPT ![t] = w]
  BY <1>1 DEF Goto, Work
<1> HIDE DEF w
<1>4. WorkOK(w)
  BY <1>1, <1>2 DEF WorkOK
<1>5. t = "driver" => /\ thread[t].job \in {"init", "term"}
                      /\ thread[t].job = "init" => up = VmRung - 1
  BY DEF LifeInv, DriverOnLadder
<1> QED BY <1>2, <1>3, <1>4, <1>5, WorkOn

LEMMA StartFailedOK ==
  ASSUME LifeInv, NEW t \in Threads,
         thread[t].pc \in {"start", "launch", "enable"},
         t = "driver" /\ thread[t].job # "hotplug" => thread[t].job = "init",
         StartFailed(t)
  PROVE  ControlOK(t) /\ loads' = loads /\ thread'[t].pc \in {"idle", "stop"}
<1>1. CASE thread[t].job = "hotplug"
  <2>1. Return(t, FALSE)
    BY <1>1 DEF StartFailed
  <2> QED BY <2>1, ReturnOK
<1>2. CASE thread[t].job # "hotplug"
  <2>1. BeginLoop(t, "init", "stop", NoBlock) /\ UNCHANGED <<driver, up, loads>>
    BY <1>2 DEF StartFailed, driverState
  <2> QED BY <1>2, <2>1, BeginLoopOK
<1> QED BY <1>1, <1>2

LEMMA StopOverOK ==
  ASSUME LifeInv, NEW t \in Threads, thread[t].pc \in {"stop", "free"}, StopOver(t)
  PROVE  ControlOK(t) /\ loads' = loads /\ thread'[t].pc \in {"idle", "assert"}
<1>1. CASE thread[t].job = "init"
  <2>1. Return(t, FALSE)
    BY <1>1 DEF StopOver
  <2> QED BY <2>1, ReturnOK
<1>2. CASE thread[t].job # "init"
  <2>1. Goto(t, "assert") /\ UNCHANGED <<driver, up, loads>>
    BY <1>2 DEF StopOver, driverState
  <2> QED BY <2>1, GotoOK
<1> QED BY <1>1, <1>2
-----------------------------------------------------------------------------
(* References.                                                             *)

\* A step of thread t that changes the owner of at most processor c keeps the
\* books when the count grows at least by what t and c take.
LEMMA BooksKept ==
  ASSUME RefsCover, NEW t \in Threads, Moves(t),
         NEW c \in Cpus, \A d \in Cpus \ {c} : owner'[d] = owner[d],
         refs \in [Blocks -> Nat], refs' \in [Blocks -> Nat],
         \A b \in Blocks :
           refs'[b] >= refs[b] + Count(Holds(thread'[t], b)) - Count(Holds(thread[t], b))
                               + Count(owner'[c] = b) - Count(owner[c] = b)
  PROVE  RefsCover'
<1> SUFFICES ASSUME NEW b \in Blocks
             PROVE  Cardinality(Owners(b)') + Cardinality(Holding(b)') <= refs'[b]
  BY DEF RefsCover
<1>1. Cardinality(Owners(b)) + Cardinality(Holding(b)) <= refs[b]
  BY DEF RefsCover
<1>2. Cardinality(Owners(b)) \in Nat /\ Cardinality(Owners(b)') \in Nat
      /\ Cardinality(Owners(b)') = Cardinality(Owners(b))
              + Count(owner'[c] = b) - Count(owner[c] = b)
  BY OwnersCount
<1>3. Cardinality(Holding(b)) \in Nat /\ Cardinality(Holding(b)') \in Nat
      /\ Cardinality(Holding(b)') = Cardinality(Holding(b))
              + Count(Holds(thread'[t], b)) - Count(Holds(thread[t], b))
  BY HoldingCount
<1>4. refs[b] \in Nat /\ refs'[b] \in Nat
  BY DEF Blocks
<1>5. /\ Count(owner'[c] = b) \in {0, 1} /\ Count(owner[c] = b) \in {0, 1}
      /\ Count(Holds(thread'[t], b)) \in {0, 1} /\ Count(Holds(thread[t], b)) \in {0, 1}
  BY DEF Count
<1>6. refs'[b] >= refs[b] + Count(Holds(thread'[t], b)) - Count(Holds(thread[t], b))
                          + Count(owner'[c] = b) - Count(owner[c] = b)
  OBVIOUS
<1> QED BY <1>1, <1>2, <1>3, <1>4, <1>5, <1>6

\* Whoever holds a reference is counted, and with a count of one is alone.
LEMMA HolderCounts ==
  ASSUME LifeInv, NEW t \in Threads, NEW b \in Blocks, Holds(thread[t], b)
  PROVE  /\ refs[b] >= 1
         /\ refs[b] = 1 => Owners(b) = {} /\ Holding(b) = {t}
<1>1. /\ IsFiniteSet(Owners(b)) /\ IsFiniteSet(Holding(b))
      /\ IsFiniteSet(Holding(b) \ {t})
      /\ Cardinality(Owners(b)) \in Nat
      /\ Cardinality(Holding(b) \ {t}) \in Nat
  BY FiniteParts, FS_Subset, FS_CardinalityType
<1>2. t \in Holding(b)
  BY DEF Holding
<1>3. Cardinality(Holding(b) \ {t}) = Cardinality(Holding(b)) - 1
      /\ Cardinality(Holding(b)) \in Nat
  BY <1>1, <1>2, FS_RemoveElement, FS_CardinalityType
<1>4. Cardinality(Owners(b)) + Cardinality(Holding(b)) <= refs[b] /\ refs[b] \in Nat
  BY DEF LifeInv, RefsCover, TypeOK
<1>5. refs[b] >= 1
  BY <1>1, <1>3, <1>4
<1>6. ASSUME refs[b] = 1
      PROVE  Cardinality(Owners(b)) = 0 /\ Cardinality(Holding(b) \ {t}) = 0
  BY <1>1, <1>3, <1>4, <1>6
<1>7. ASSUME refs[b] = 1
      PROVE  Owners(b) = {} /\ Holding(b) \ {t} = {}
  BY <1>1, <1>6, <1>7, FS_EmptySet
<1> QED BY <1>2, <1>5, <1>7
-----------------------------------------------------------------------------
(* The invariant in parts, and what one step keeps of them.                *)

MemoryOK ==
  /\ owner \in [Cpus -> Blocks \union {NoBlock}]
  /\ monitored \subseteq Cpus
  /\ blocks \in [Blocks -> {"unused", "live", "freed"}]
  /\ refs \in [Blocks -> Nat]
  /\ RefsCover

SystemOK ==
  /\ active \in NumCpus .. MaxCpus
  /\ power \in {"on", "suspending", "resuming"}
  /\ loads \in 0 .. MaxLoads
  /\ suspends \in 0 .. MaxSuspends
  /\ known \in NumCpus .. MaxCpus
  /\ raced \in BOOLEAN /\ clash \in BOOLEAN

\* A step that leaves clash FALSE keeps the shared data alive.
AliveKept == SharedDataAlive /\ ClashNoticed /\ (clash => clash') => SharedDataAlive'

Uses(w, b) == w.pc \in {"start", "launch", "free"} /\ w.block = b
Owned(b) == \E c \in Cpus : owner[c] = b

LEMMA MemoryTypes ==
  ASSUME LifeInv
  PROVE  MemoryOK /\ SystemOK
BY DEF LifeInv, TypeOK, MemoryOK, SystemOK

LEMMA Parts ==
  ASSUME LifeInv, NEW t \in Threads, ControlOK(t), MemoryOK', SystemOK'
  PROVE  LifeInv'
<1>1. TypeOK'
  BY DEF TypeOK, ControlOK, MemoryOK, SystemOK, Work
<1>2. ThreadsOK'
  BY DEF LifeInv, ControlOK, ThreadsOK, Moves
<1> QED BY <1>1, <1>2 DEF LifeInv, ControlOK, MemoryOK

\* Nothing that was alive is freed, and what comes into use was in use, had
\* an owner or is alive anyway.
LEMMA KeptAlive ==
  ASSUME NEW t \in Threads, Moves(t),
         \A b \in Blocks : Owned(b)' => Owned(b) \/ Uses(thread[t], b),
         \A b \in Blocks : Uses(thread'[t], b) =>
           Uses(thread[t], b) \/ Owned(b) \/ blocks'[b] = "live",
         \A b \in Blocks : blocks[b] = "live" => blocks'[b] = "live"
  PROVE  AliveKept
<1> SUFFICES ASSUME SharedDataAlive, clash => clash', ~clash', NEW b \in Blocks,
                    Owned(b)' \/ Users(b)' # {}
             PROVE  blocks'[b] = "live"
  BY DEF AliveKept, SharedDataAlive, Owned
<1>1. Owned(b) \/ Users(b) # {} => blocks[b] = "live"
  BY DEF SharedDataAlive, Owned
<1>2. Uses(thread[t], b) => t \in Users(b)
  BY DEF Users, Uses
<1>3. CASE Owned(b)'
  BY <1>1, <1>2, <1>3
<1>4. CASE Users(b)' # {}
  <2>1. PICK o \in Threads : Uses(thread'[o], b)
    BY <1>4 DEF Users, Uses
  <2>2. CASE o = t
    BY <1>1, <1>2, <2>1, <2>2
  <2>3. CASE o # t
    <3>1. o \in Users(b)
      BY <2>1, <2>3 DEF Moves, Users, Uses
    <3> QED BY <1>1, <3>1
  <2> QED BY <2>2, <2>3
<1> QED BY <1>3, <1>4

\* Owners and counts stay, and t takes no reference.
LEMMA NothingTaken ==
  ASSUME LifeInv, NEW t \in Threads, Moves(t),
         UNCHANGED <<owner, blocks, refs>>, monitored' \subseteq Cpus,
         \A b \in Blocks : Holds(thread'[t], b) => Holds(thread[t], b),
         \A b \in Blocks : Uses(thread'[t], b) => Uses(thread[t], b) \/ Owned(b)
  PROVE  MemoryOK' /\ AliveKept
<1>1. MemoryOK
  BY MemoryTypes
<1>2. \A b \in Blocks : refs[b] \in Nat
  BY <1>1 DEF MemoryOK
<1>3. RefsCover'
  <2>1. \A b \in Blocks :
           refs'[b] >= refs[b] + Count(Holds(thread'[t], b)) - Count(Holds(thread[t], b))
                               + Count(owner'[0] = b) - Count(owner[0] = b)
    BY <1>2 DEF Count
  <2> QED BY <1>1, <2>1, CpuFacts, BooksKept DEF MemoryOK
<1>4. AliveKept
  BY KeptAlive DEF Owned
<1> QED BY <1>1, <1>3, <1>4 DEF MemoryOK

\* A reference is given back: with the last one the block goes, and nobody
\* is left who would use it, unless a start overlaps.
LEMMA ReleaseOK ==
  ASSUME LifeInv, NEW t \in Threads, ControlOK(t),
         thread[t].pc \in {"launch", "free"},
         thread'[t].pc \in {"idle", "stop", "assert"},
         Release(thread[t].block), UNCHANGED <<owner, monitored>>
  PROVE  MemoryOK' /\ AliveKept
<1> DEFINE r == thread[t].block
<1>1. MemoryOK /\ Moves(t)
  BY MemoryTypes DEF ControlOK
<1>2. r \in Blocks /\ Holds(thread[t], r)
  BY DEF LifeInv, ThreadsOK, WorkOK, Holds
<1>3. refs[r] >= 1 /\ (refs[r] = 1 => Owners(r) = {} /\ Holding(r) = {t})
  BY <1>2, HolderCounts
<1>4. /\ refs' = [refs EXCEPT ![r] = @ - 1]
      /\ blocks' = [blocks EXCEPT ![r] = IF refs[r] = 1 THEN "freed" ELSE @]
  BY DEF Release
<1>5. \A b : ~Holds(thread'[t], b) /\ ~Uses(thread'[t], b)
  BY DEF Holds, Uses
<1>6. \A b : Holds(thread[t], b) <=> b = r
  BY <1>2 DEF Holds
<1> HIDE DEF r
<1>7. /\ refs' \in [Blocks -> Nat]
      /\ blocks' \in [Blocks -> {"unused", "live", "freed"}]
  BY <1>1, <1>2, <1>3, <1>4 DEF MemoryOK
<1>8. RefsCover'
  <2>1. \A b \in Blocks :
           refs'[b] >= refs[b] + Count(Holds(thread'[t], b)) - Count(Holds(thread[t], b))
                               + Count(owner'[0] = b) - Count(owner[0] = b)
    BY <1>1, <1>2, <1>4, <1>5, <1>6 DEF Count, MemoryOK
  <2> QED BY <1>1, <1>7, <2>1, CpuFacts, BooksKept DEF MemoryOK
<1>9. AliveKept
  <2>1. CASE refs[r] # 1
    <3>1. \A b \in Blocks : blocks'[b] = blocks[b]
      BY <1>1, <1>4, <2>1 DEF MemoryOK
    <3> QED BY <1>1, <1>5, <3>1, KeptAlive DEF Owned
  <2>2. CASE refs[r] = 1
    <3> SUFFICES ASSUME SharedDataAlive, ClashNoticed, clash => clash', ~clash',
                        NEW b \in Blocks, Owned(b)' \/ Users(b)' # {}
                 PROVE  blocks'[b] = "live"
      BY DEF AliveKept, SharedDataAlive, Owned
    <3>1. ~StartMeetsAnother
      BY DEF ClashNoticed
    <3>2. ASSUME Users(b)' # {}
          PROVE  Users(b) # {} /\ b # r
      <4>1. PICK o \in Threads : Uses(thread'[o], b)
        BY <3>2 DEF Users, Uses
      <4>2. o # t /\ Uses(thread[o], b)
        BY <1>1, <1>5, <4>1 DEF Moves
      <4>3. ASSUME b = r
            PROVE  FALSE
        <5>1. o \notin Holding(r)
          BY <1>3, <2>2, <4>2
        <5>2. thread[o].pc = "start"
          BY <4>2, <4>3, <5>1 DEF Holding, Holds, Uses
        <5>3. thread[o].job \in {"init", "hotplug"}
          BY <5>2 DEF LifeInv, ThreadsOK, WorkOK
        <5> QED BY <3>1, <4>2, <5>3 DEF StartMeetsAnother
      <4> QED BY <4>2, <4>3 DEF Users, Uses
    <3>3. ASSUME Owned(b)'
          PROVE  Owned(b) /\ b # r
      BY <1>3, <2>2, <3>3 DEF Owned, Owners
    <3>4. b # r /\ blocks[b] = "live"
      BY <3>2, <3>3 DEF SharedDataAlive, Owned
    <3> QED BY <1>1, <1>4, <3>4 DEF MemoryOK
  <2> QED BY <2>1, <2>2
<1> QED BY <1>1, <1>7, <1>8, <1>9 DEF MemoryOK
-----------------------------------------------------------------------------
(* One lemma for each step of vm.cpp's routines.                           *)

StepOK(t) == ControlOK(t) /\ MemoryOK' /\ UNCHANGED <<loads, system>> /\ AliveKept

\* What the step of a thread finds.
LEMMA AtWork ==
  ASSUME LifeInv, NEW t \in Threads
  PROVE  /\ MemoryOK /\ WorkOK(thread[t]) /\ thread[t].cpu \in Cpus
         /\ t = "driver" => thread[t].job \in {"none", "init", "term"}
         /\ Active \subseteq Cpus
         /\ thread \in [Threads -> Work]
<1>1. thread[t] \in Work
  BY DEF LifeInv, ThreadsOK, WorkOK
<1>2. Active \subseteq Cpus
  BY CpuFacts DEF LifeInv, TypeOK, Active, Cpus
<1> QED BY <1>1, <1>2, MemoryTypes, TypeParts DEF LifeInv, ThreadsOK, DriverOnLadder, Work

LEMMA CheckOK ==
  ASSUME LifeInv, NEW t \in Threads, Check(t)
  PROVE  StepOK(t)
<1>1. thread[t].pc = "check" /\ thread[t].job = "init" /\ MemoryOK
  BY AtWork DEF Check, WorkOK
<1>2. UNCHANGED <<owner, monitored, refs, system>>
  BY DEF Check, processors
<1>3. CASE Return(t, FALSE) /\ UNCHANGED blocks
  <2>1. ControlOK(t) /\ loads' = loads /\ thread'[t].pc = "idle"
    BY <1>1, <1>3, ReturnOK
  <2>2. MemoryOK' /\ AliveKept
    BY <1>1, <1>2, <1>3, <2>1, NothingTaken DEF ControlOK, MemoryOK, Holds, Uses
  <2> QED BY <1>2, <2>1, <2>2 DEF StepOK
<1>4. ASSUME NEW b \in Blocks, blocks[b] = "unused",
             blocks' = [blocks EXCEPT ![b] = "live"],
             BeginLoop(t, "init", "start", b), UNCHANGED driverState
      PROVE  StepOK(t)
  <2>1. ControlOK(t) /\ loads' = loads /\ thread'[t].pc = "start" /\ thread'[t].block = b
    BY <1>1, <1>4, BeginLoopOK DEF driverState
  <2>2. /\ blocks' \in [Blocks -> {"unused", "live", "freed"}]
        /\ \A o \in Blocks : blocks[o] = "live" => blocks'[o] = "live"
        /\ blocks'[b] = "live"
    BY <1>1, <1>4 DEF MemoryOK
  <2>3. RefsCover'
    <3>1. \A o \in Blocks :
           refs'[o] >= refs[o] + Count(Holds(thread'[t], o)) - Count(Holds(thread[t], o))
                               + Count(owner'[0] = o) - Count(owner[0] = o)
      BY <1>1, <1>2, <2>1 DEF Count, Holds, MemoryOK
    <3> QED BY <1>1, <1>2, <2>1, <3>1, CpuFacts, BooksKept DEF MemoryOK, ControlOK
  <2>4. AliveKept
    BY <1>2, <2>1, <2>2, KeptAlive DEF ControlOK, Owned, Uses
  <2> QED BY <1>1, <1>2, <2>1, <2>2, <2>3, <2>4 DEF StepOK, MemoryOK
<1> QED BY <1>3, <1>4 DEF Check

LEMMA FetchOK ==
  ASSUME LifeInv, NEW t \in Threads, Fetch(t)
  PROVE  StepOK(t)
<1>1. thread[t].pc = "fetch" /\ thread[t].job = "hotplug" /\ t # "driver" /\ MemoryOK
  BY AtWork DEF Fetch, WorkOK
<1>2. UNCHANGED <<owner, monitored, blocks, refs, system>>
  BY DEF Fetch, processors, memory
<1>3. CASE Return(t, FALSE)
  <2>1. ControlOK(t) /\ loads' = loads /\ thread'[t].pc = "idle"
    BY <1>1, <1>3, ReturnOK
  <2>2. MemoryOK' /\ AliveKept
    BY <1>1, <1>2, <2>1, NothingTaken DEF ControlOK, MemoryOK, Holds, Uses
  <2> QED BY <1>2, <2>1, <2>2 DEF StepOK
<1>4. ASSUME NEW here \in Active, IsVirtualized(here), UNCHANGED driverState,
             thread' = [thread EXCEPT ![t].pc = "start", ![t].block = owner[here]]
      PROVE  StepOK(t)
  <2> DEFINE w == [thread[t] EXCEPT !.pc = "start", !.block = owner[here]]
  <2>1. here \in Cpus /\ owner[here] \in Blocks /\ thread[t] \in Work /\ WorkOK(thread[t])
    BY <1>1, <1>4, AtWork DEF IsVirtualized, MemoryOK, WorkOK
  <2>2. /\ w \in Work /\ w.pc = "start" /\ w.job = "hotplug" /\ w.block = owner[here]
        /\ w.cpu = thread[t].cpu /\ w.last = thread[t].last
    BY <1>1, <2>1 DEF Work, Pcs
  <2>3. thread' = [thread EXCEPT ![t] = w]
    BY <1>4, <2>1, AtWork DEF Work
  <2> HIDE DEF w
  <2>4. WorkOK(w)
    BY <2>1, <2>2 DEF WorkOK
  <2>5. ControlOK(t) /\ thread'[t] = w
    BY <1>1, <1>4, <2>2, <2>3, <2>4, WorkOn DEF driverState
  <2>6. \A b : Uses(thread'[t], b) => Owned(b)
    BY <2>1, <2>2, <2>5 DEF Uses, Owned
  <2>7. \A b : ~Holds(thread'[t], b)
    BY <2>2, <2>5 DEF Holds
  <2>8. MemoryOK' /\ AliveKept
    BY <1>1, <1>2, <2>5, <2>6, <2>7, NothingTaken DEF ControlOK, MemoryOK
  <2> QED BY <1>2, <1>4, <2>5, <2>8 DEF StepOK, driverState
<1> QED BY <1>3, <1>4 DEF Fetch

LEMMA StartOK ==
  ASSUME LifeInv, NEW t \in Threads, Start(t)
  PROVE  StepOK(t)
<1> DEFINE r == thread[t].block
<1>1. /\ thread[t].pc = "start" /\ r \in Blocks /\ MemoryOK
      /\ t = "driver" => thread[t].job = "init"
  BY AtWork DEF Start, WorkOK
<1>2. UNCHANGED <<owner, monitored, blocks, system>>
  BY DEF Start, processors
<1>3. CASE StartFailed(t) /\ UNCHANGED refs
  <2>1. ControlOK(t) /\ loads' = loads /\ thread'[t].pc \in {"idle", "stop"}
    BY <1>1, <1>3, StartFailedOK
  <2>2. MemoryOK' /\ AliveKept
    BY <1>1, <1>2, <1>3, <2>1, NothingTaken DEF ControlOK, MemoryOK, Holds, Uses
  <2> QED BY <1>2, <2>1, <2>2 DEF StepOK
<1>4. CASE /\ refs' = [refs EXCEPT ![r] = @ + 1]
           /\ Goto(t, "launch") /\ UNCHANGED driverState
  <2>1. ControlOK(t) /\ loads' = loads /\ thread'[t].pc = "launch" /\ thread'[t].block = r
    BY <1>1, <1>4, GotoOK DEF driverState
  <2>2. refs' \in [Blocks -> Nat]
    BY <1>1, <1>4 DEF MemoryOK
  <2>3. \A b \in Blocks :
           refs'[b] >= refs[b] + Count(Holds(thread'[t], b)) - Count(Holds(thread[t], b))
                               + Count(owner'[0] = b) - Count(owner[0] = b)
    BY <1>1, <1>2, <1>4, <2>1 DEF Count, Holds, MemoryOK
  <2>4. RefsCover'
    BY <1>1, <1>2, <2>1, <2>2, <2>3, CpuFacts, BooksKept DEF MemoryOK, ControlOK
  <2>5. AliveKept
    BY <1>1, <1>2, <2>1, KeptAlive DEF ControlOK, Owned, Uses
  <2> QED BY <1>1, <1>2, <2>1, <2>2, <2>4, <2>5 DEF StepOK, MemoryOK
<1> QED BY <1>3, <1>4 DEF Start

LEMMA LaunchOK ==
  ASSUME LifeInv, NEW t \in Threads, Launch(t)
  PROVE  StepOK(t)
<1> DEFINE r == thread[t].block
<1> DEFINE c == thread[t].cpu
<1>1. /\ thread[t].pc = "launch" /\ r \in Blocks /\ c \in Cpus /\ MemoryOK
      /\ thread[t].job \in {"init", "hotplug"}
      /\ t = "driver" => thread[t].job = "init"
  BY AtWork DEF Launch, WorkOK
<1>2. UNCHANGED <<monitored, system>>
  BY DEF Launch
<1>3. CASE Release(r) /\ StartFailed(t) /\ UNCHANGED owner
  <2>1. ControlOK(t) /\ loads' = loads /\ thread'[t].pc \in {"idle", "stop"}
    BY <1>1, <1>3, StartFailedOK
  <2>2. MemoryOK' /\ AliveKept
    BY <1>1, <1>2, <1>3, <2>1, ReleaseOK
  <2> QED BY <1>2, <2>1, <2>2 DEF StepOK
<1>4. CASE /\ ~IsVirtualized(c)
           /\ owner' = [owner EXCEPT ![c] = r]
           /\ IF thread[t].job = "hotplug" THEN Return(t, TRUE)
              ELSE /\ IF AtLast(t) THEN BeginLoop(t, "init", "enable", NoBlock)
                      ELSE NextCpu(t, "start")
                   /\ UNCHANGED driverState
           /\ UNCHANGED memory
  <2>1. /\ ControlOK(t) /\ loads' = loads
        /\ \/ thread'[t].pc \in {"idle", "enable"}
           \/ thread'[t].pc = "start" /\ thread'[t].block = r
    <3>1. CASE thread[t].job = "hotplug"
      BY <1>1, <1>4, <3>1, ReturnOK
    <3>2. CASE thread[t].job # "hotplug" /\ AtLast(t)
      <4>1. BeginLoop(t, "init", "enable", NoBlock) /\ UNCHANGED <<driver, up, loads>>
        BY <1>4, <3>2 DEF driverState
      <4> QED BY <1>1, <3>2, <4>1, BeginLoopOK
    <3>3. CASE thread[t].job # "hotplug" /\ ~AtLast(t)
      <4>1. NextCpu(t, "start") /\ UNCHANGED <<driver, up, loads>>
        BY <1>4, <3>3 DEF driverState
      <4> QED BY <1>1, <3>3, <4>1, NextCpuOK
    <3> QED BY <3>1, <3>2, <3>3
  <2>2. /\ owner' \in [Cpus -> Blocks \union {NoBlock}]
        /\ owner'[c] = r /\ owner[c] = NoBlock
        /\ \A d \in Cpus \ {c} : owner'[d] = owner[d]
        /\ UNCHANGED <<blocks, refs>>
    BY <1>1, <1>4 DEF MemoryOK, IsVirtualized, memory
  <2> HIDE DEF r, c
  <2>3. \A b \in Blocks :
           refs'[b] >= refs[b] + Count(Holds(thread'[t], b)) - Count(Holds(thread[t], b))
                               + Count(owner'[c] = b) - Count(owner[c] = b)
    <3> SUFFICES ASSUME NEW b \in Blocks
                 PROVE  0 >= Count(Holds(thread'[t], b)) - Count(Holds(thread[t], b))
                               + Count(owner'[c] = b) - Count(owner[c] = b)
      BY <1>1, <2>2 DEF MemoryOK, Count
    <3>1. ~Holds(thread'[t], b)
      BY <2>1 DEF Holds
    <3>2. Holds(thread[t], b) <=> owner'[c] = b
      BY <1>1, <2>2 DEF Holds, r
    <3>3. owner[c] # b
      BY <2>2 DEF Blocks, NoBlock
    <3> QED BY <3>1, <3>2, <3>3 DEF Count
  <2>4. RefsCover'
    BY <1>1, <2>1, <2>2, <2>3, BooksKept DEF MemoryOK, ControlOK
  <2>5. \A b \in Blocks : Owned(b)' => Owned(b) \/ Uses(thread[t], b)
    BY <1>1, <2>2 DEF Owned, Uses, r
  <2>6. \A b \in Blocks : Uses(thread'[t], b) => Uses(thread[t], b)
    BY <1>1, <2>1 DEF Uses, r
  <2>7. AliveKept
    BY <2>1, <2>2, <2>5, <2>6, KeptAlive DEF ControlOK
  <2> QED BY <1>1, <1>2, <2>1, <2>2, <2>4, <2>7 DEF StepOK, MemoryOK
<1> QED BY <1>3, <1>4 DEF Launch

\* Steps that touch neither an owner nor a block.
LEMMA EnableOK ==
  ASSUME LifeInv, NEW t \in Threads, Enable(t)
  PROVE  StepOK(t)
<1>1. thread[t].pc = "enable" /\ thread[t].job = "init" /\ MemoryOK
      /\ thread[t].cpu \in Cpus
  BY AtWork DEF Enable, WorkOK
<1>2. UNCHANGED <<owner, blocks, refs, system>> /\ monitored' \subseteq Cpus
  BY <1>1 DEF Enable, memory, MemoryOK
<1>3. /\ ControlOK(t) /\ loads' = loads
      /\ thread'[t].pc \in {"idle", "stop", "enable"}
  <2>1. CASE StartFailed(t)
    BY <1>1, <2>1, StartFailedOK
  <2>2. CASE Return(t, TRUE)
    BY <1>1, <2>2, ReturnOK
  <2>3. CASE ~AtLast(t) /\ NextCpu(t, "enable") /\ UNCHANGED driverState
    BY <1>1, <2>3, NextCpuOK DEF driverState
  <2> QED BY <2>1, <2>2, <2>3 DEF Enable
<1>4. MemoryOK' /\ AliveKept
  BY <1>1, <1>2, <1>3, NothingTaken DEF ControlOK, Holds, Uses
<1> QED BY <1>2, <1>3, <1>4 DEF StepOK

LEMMA DisableOK ==
  ASSUME LifeInv, NEW t \in Threads, Disable(t)
  PROVE  StepOK(t)
<1>1. thread[t].pc = "disable" /\ MemoryOK
  BY AtWork DEF Disable
<1>2. /\ UNCHANGED <<owner, blocks, refs, driver, up, loads, system>>
      /\ monitored' \subseteq Cpus
  BY <1>1 DEF Disable, memory, driverState, MemoryOK
<1>3. ControlOK(t) /\ thread'[t].pc \in {"disable", "stop"}
  <2>1. CASE BeginLoop(t, "term", "stop", NoBlock)
    BY <1>1, <1>2, <2>1, BeginLoopOK
  <2>2. CASE ~AtLast(t) /\ NextCpu(t, "disable")
    BY <1>1, <1>2, <2>2, NextCpuOK
  <2> QED BY <2>1, <2>2 DEF Disable
<1>4. MemoryOK' /\ AliveKept
  BY <1>1, <1>2, <1>3, NothingTaken DEF ControlOK, Holds, Uses
<1> QED BY <1>2, <1>3, <1>4 DEF StepOK

LEMMA AssertOK ==
  ASSUME LifeInv, NEW t \in Threads, Assert(t)
  PROVE  StepOK(t)
<1>1. thread[t].pc = "assert" /\ MemoryOK
      /\ UNCHANGED <<owner, monitored, blocks, refs, system>>
  BY AtWork DEF Assert, processors, memory
<1>2. ControlOK(t) /\ loads' = loads /\ thread'[t].pc = "idle"
  BY <1>1, ReturnOK DEF Assert
<1>3. MemoryOK' /\ AliveKept
  BY <1>1, <1>2, NothingTaken DEF ControlOK, MemoryOK, Holds, Uses
<1> QED BY <1>1, <1>2, <1>3 DEF StepOK

\* The processor's reference becomes the thread's.
LEMMA StopOK ==
  ASSUME LifeInv, NEW t \in Threads, Stop(t)
  PROVE  StepOK(t)
<1> DEFINE c == thread[t].cpu
<1>1. thread[t].pc = "stop" /\ c \in Cpus /\ MemoryOK
  BY AtWork DEF Stop
<1>2. UNCHANGED <<blocks, refs, system>>
  BY DEF Stop, memory
<1>3. CASE StopOver(t) /\ UNCHANGED processors
  <2>1. ControlOK(t) /\ loads' = loads /\ thread'[t].pc \in {"idle", "assert"}
    BY <1>1, <1>3, StopOverOK
  <2>2. MemoryOK' /\ AliveKept
    BY <1>1, <1>2, <1>3, <2>1, NothingTaken DEF ControlOK, MemoryOK, Holds, Uses, processors
  <2> QED BY <1>2, <2>1, <2>2 DEF StepOK
<1>4. CASE /\ IsVirtualized(c)
           /\ owner' = [owner EXCEPT ![c] = NoBlock]
           /\ monitored' = monitored \ {c}
           /\ thread' = [thread EXCEPT ![t].pc = "free", ![t].block = owner[c]]
           /\ UNCHANGED driverState
  <2> DEFINE w == [thread[t] EXCEPT !.pc = "free", !.block = owner[c]]
  <2>1. owner[c] \in Blocks /\ thread[t] \in Work /\ WorkOK(thread[t])
    BY <1>1, <1>4, AtWork DEF IsVirtualized, MemoryOK, WorkOK
  <2>2. /\ w \in Work /\ w.pc = "free" /\ w.job = thread[t].job /\ w.block = owner[c]
        /\ w.cpu = thread[t].cpu /\ w.last = thread[t].last
    BY <1>1, <2>1 DEF Work, Pcs
  <2>3. thread' = [thread EXCEPT ![t] = w]
    BY <1>4, <2>1, AtWork DEF Work
  <2> HIDE DEF w
  <2>4. WorkOK(w)
    BY <2>1, <2>2 DEF WorkOK
  <2>5. t = "driver" => /\ thread[t].job \in {"init", "term"}
                        /\ thread[t].job = "init" => up = VmRung - 1
    BY <1>1 DEF LifeInv, DriverOnLadder
  <2>6. ControlOK(t) /\ thread'[t] = w
    BY <1>4, <2>2, <2>3, <2>4, <2>5, WorkOn DEF driverState
  <2>7. /\ owner' \in [Cpus -> Blocks \union {NoBlock}]
        /\ owner'[c] = NoBlock
        /\ \A d \in Cpus \ {c} : owner'[d] = owner[d]
    BY <1>1, <1>4 DEF MemoryOK
  <2> HIDE DEF c
  <2>8. \A b \in Blocks :
           refs'[b] >= refs[b] + Count(Holds(thread'[t], b)) - Count(Holds(thread[t], b))
                               + Count(owner'[c] = b) - Count(owner[c] = b)
    <3> SUFFICES ASSUME NEW b \in Blocks
                 PROVE  0 >= Count(Holds(thread'[t], b)) - Count(Holds(thread[t], b))
                               + Count(owner'[c] = b) - Count(owner[c] = b)
      BY <1>1, <1>2 DEF MemoryOK, Count
    <3>1. Holds(thread'[t], b) <=> owner[c] = b
      BY <2>2, <2>6 DEF Holds
    <3>2. ~Holds(thread[t], b) /\ owner'[c] # b
      BY <1>1, <2>7 DEF Holds, Blocks, NoBlock
    <3> QED BY <3>1, <3>2 DEF Count
  <2>9. RefsCover'
    BY <1>1, <1>2, <2>6, <2>7, <2>8, BooksKept DEF MemoryOK, ControlOK
  <2>10. \A b \in Blocks : Owned(b)' => Owned(b)
    BY <2>7 DEF Owned, Blocks, NoBlock
  <2>11. \A b \in Blocks : Uses(thread'[t], b) => Owned(b)
    BY <1>1, <2>2, <2>6 DEF Uses, Owned
  <2>12. AliveKept
    BY <1>2, <2>6, <2>10, <2>11, KeptAlive DEF ControlOK
  <2>13. UNCHANGED <<loads, system>> /\ monitored' \subseteq Cpus
    BY <1>1, <1>2, <1>4 DEF driverState, MemoryOK
  <2> QED BY <1>1, <1>2, <2>6, <2>7, <2>9, <2>12, <2>13 DEF StepOK, MemoryOK
<1> QED BY <1>3, <1>4 DEF Stop

LEMMA FreeOK ==
  ASSUME LifeInv, NEW t \in Threads, Free(t)
  PROVE  StepOK(t)
<1>1. thread[t].pc = "free" /\ Release(thread[t].block)
      /\ UNCHANGED <<owner, monitored, system>>
  BY DEF Free, processors
<1>2. /\ ControlOK(t) /\ loads' = loads
      /\ thread'[t].pc \in {"idle", "stop", "assert"}
  <2>1. CASE StopOver(t)
    BY <1>1, <2>1, StopOverOK
  <2>2. CASE ~AtLast(t) /\ NextCpu(t, "stop") /\ UNCHANGED driverState
    BY <1>1, <2>2, NextCpuOK DEF driverState
  <2> QED BY <2>1, <2>2 DEF Free
<1> QED BY <1>1, <1>2, ReleaseOK DEF StepOK
-----------------------------------------------------------------------------
(* The steps of the driver and of the system, each with History.           *)

Kept == LifeInv' /\ AliveKept /\ ClashNoticed'

\* clash is noticed in the step that makes it.
LEMMA HistoryOK ==
  ASSUME LifeInv, History
  PROVE  /\ known' \in NumCpus .. MaxCpus
         /\ raced' \in BOOLEAN /\ clash' \in BOOLEAN
         /\ ClashNoticed'
<1>1. known' = active \/ known' = known
  BY DEF History
<1>2. known' \in NumCpus .. MaxCpus
  BY <1>1 DEF LifeInv, TypeOK
<1>3. raced' \in BOOLEAN /\ clash' \in BOOLEAN
  BY DEF History
<1>4. ClashNoticed'
  BY DEF History, ClashNoticed
<1> QED BY <1>2, <1>3, <1>4

LEMMA StepKept ==
  ASSUME LifeInv, NEW t \in Threads, Step(t), History
  PROVE  Kept
<1>1. StepOK(t)
  BY CheckOK, FetchOK, StartOK, LaunchOK, EnableOK, DisableOK, StopOK, FreeOK, AssertOK
     DEF Step
<1>2. SystemOK'
  BY <1>1, HistoryOK, MemoryTypes DEF SystemOK, StepOK, system
<1> QED BY <1>1, <1>2, HistoryOK, Parts DEF StepOK, Kept

\* Steps of DriverEntry and DriverpDriverUnload outside vm.cpp.
LEMMA LadderKept ==
  ASSUME LifeInv, Load \/ InitializeSubsystem \/ TerminateSubsystem, History
  PROVE  Kept
<1>1. /\ UNCHANGED <<owner, monitored, blocks, refs, thread, system>>
      /\ MemoryOK /\ SystemOK /\ "driver" \in Threads
      /\ thread \in [Threads -> Work] /\ WorkOK(thread["driver"])
  BY AtWork, MemoryTypes
     DEF Load, InitializeSubsystem, TerminateSubsystem, processors, memory, Threads
<1>2. /\ driver' \in {"absent", "entry", "loaded", "unwind"}
      /\ up' \in 0 .. VmRung
      /\ DriverOnLadder'
  <2>1. up \in 0 .. VmRung /\ DriverOnLadder
    BY TypeParts DEF LifeInv
  <2>2. CASE Load
    BY <1>1, <2>1, <2>2 DEF Load, DriverOnLadder
  <2>3. CASE InitializeSubsystem
    BY <1>1, <2>1, <2>3 DEF InitializeSubsystem, DriverOnLadder, VmRung
  <2>4. CASE TerminateSubsystem
    BY <1>1, <2>1, <2>4 DEF TerminateSubsystem, DriverOnLadder, VmRung
  <2> QED BY <2>2, <2>3, <2>4
<1>3. ControlOK("driver")
  BY <1>1, <1>2 DEF ControlOK, Moves
<1>4. loads' \in 0 .. MaxLoads
  BY <1>1, BoundsAssumption DEF Load, InitializeSubsystem, TerminateSubsystem, SystemOK
<1>5. SystemOK'
  BY <1>1, <1>4, HistoryOK DEF SystemOK, system
<1>6. MemoryOK' /\ AliveKept
  BY <1>1, <1>3, NothingTaken DEF ControlOK, MemoryOK
<1> QED BY <1>1, <1>3, <1>5, <1>6, HistoryOK, Parts DEF Kept

LEMMA CallVmInitializationKept ==
  ASSUME LifeInv, CallVmInitialization, History
  PROVE  Kept
<1> DEFINE w == [thread["driver"] EXCEPT !.job = "init", !.pc = "check"]
<1>1. /\ UNCHANGED <<owner, monitored, blocks, refs, driver, up, loads, system>>
      /\ MemoryOK /\ SystemOK /\ "driver" \in Threads
      /\ thread \in [Threads -> Work] /\ WorkOK(thread["driver"])
      /\ thread["driver"] \in Work
  BY AtWork, MemoryTypes
     DEF CallVmInitialization, processors, memory, driverState, Threads, WorkOK
<1>2. /\ w \in Work /\ w.pc = "check" /\ w.job = "init"
      /\ w.cpu = thread["driver"].cpu /\ w.last = thread["driver"].last
  BY <1>1 DEF Work, Pcs, Jobs
<1>3. thread' = [thread EXCEPT !["driver"] = w]
  BY <1>1 DEF CallVmInitialization, Work
<1> HIDE DEF w
<1>4. WorkOK(w)
  BY <1>1, <1>2 DEF WorkOK
<1>5. ControlOK("driver") /\ thread'["driver"] = w
  BY <1>1, <1>2, <1>3, <1>4, WorkOn DEF CallVmInitialization
<1>6. SystemOK'
  BY <1>1, HistoryOK DEF SystemOK, system
<1>7. MemoryOK' /\ AliveKept
  BY <1>1, <1>2, <1>5, NothingTaken DEF ControlOK, MemoryOK, Holds, Uses
<1> QED BY <1>1, <1>5, <1>6, <1>7, HistoryOK, Parts DEF Kept

LEMMA UnloadKept ==
  ASSUME LifeInv, Unload, History
  PROVE  Kept
<1>1. /\ UNCHANGED <<owner, monitored, blocks, refs, loads, system>>
      /\ MemoryOK /\ SystemOK /\ "driver" \in Threads
  BY MemoryTypes DEF Unload, processors, memory, Threads
<1>2. ControlOK("driver") /\ thread'["driver"].pc = "disable"
  BY <1>1, BeginLoopOK DEF Unload
<1>3. SystemOK'
  BY <1>1, HistoryOK DEF SystemOK, system
<1>4. MemoryOK' /\ AliveKept
  BY <1>1, <1>2, NothingTaken DEF ControlOK, MemoryOK, Holds, Uses
<1> QED BY <1>1, <1>2, <1>3, <1>4, HistoryOK, Parts DEF Kept

LEMMA SuspendKept ==
  ASSUME LifeInv, Suspend, History
  PROVE  Kept
<1>1. /\ UNCHANGED <<owner, monitored, blocks, refs, driver, up, loads, active>>
      /\ MemoryOK /\ SystemOK /\ "power" \in Threads
      /\ power' = "suspending" /\ suspends' \in 0 .. MaxSuspends
  BY MemoryTypes, BoundsAssumption
     DEF Suspend, processors, memory, driverState, Threads, SystemOK
<1>2. ControlOK("power") /\ thread'["power"].pc = "disable"
  BY <1>1, BeginLoopOK DEF Suspend
<1>3. SystemOK'
  BY <1>1, HistoryOK DEF SystemOK
<1>4. MemoryOK' /\ AliveKept
  BY <1>1, <1>2, NothingTaken DEF ControlOK, MemoryOK, Holds, Uses
<1> QED BY <1>1, <1>2, <1>3, <1>4, HistoryOK, Parts DEF Kept

LEMMA SleepKept ==
  ASSUME LifeInv, Sleep, History
  PROVE  Kept
<1>1. /\ UNCHANGED <<blocks, refs, thread, driver, up, loads, active, suspends>>
      /\ owner' = [c \in Cpus |-> NoBlock] /\ monitored' = {}
      /\ power' = "resuming"
      /\ MemoryOK /\ SystemOK /\ "driver" \in Threads /\ thread \in [Threads -> Work]
      /\ WorkOK(thread["driver"])
  BY AtWork, MemoryTypes DEF Sleep, memory, driverState, Threads
<1>2. ControlOK("driver")
  BY <1>1, TypeParts DEF ControlOK, Moves, LifeInv, DriverOnLadder
<1>3. \A b \in Blocks : ~Owned(b)' /\ Owners(b)' = {}
  BY <1>1 DEF Owned, Owners, Blocks, NoBlock
<1>4. RefsCover'
  <2> SUFFICES ASSUME NEW b \in Blocks
               PROVE  Cardinality(Owners(b)') + Cardinality(Holding(b)') <= refs'[b]
    BY DEF RefsCover
  <2>1. Cardinality(Owners(b)') = 0
    BY <1>3, FS_EmptySet
  <2>2. Holding(b)' = Holding(b)
    BY <1>1 DEF Holding, Holds
  <2>3. /\ Cardinality(Owners(b)) \in Nat /\ Cardinality(Holding(b)) \in Nat
        /\ Cardinality(Owners(b)) + Cardinality(Holding(b)) <= refs[b]
        /\ refs[b] \in Nat
    BY <1>1, FiniteParts, FS_CardinalityType DEF MemoryOK, RefsCover
  <2> QED BY <1>1, <2>1, <2>2, <2>3
<1>5. AliveKept
  BY <1>1, <1>2, <1>3, KeptAlive DEF ControlOK
<1>6. MemoryOK' /\ SystemOK'
  BY <1>1, <1>4, HistoryOK DEF MemoryOK, SystemOK
<1> QED BY <1>1, <1>2, <1>5, <1>6, HistoryOK, Parts DEF Kept

LEMMA ResumeKept ==
  ASSUME LifeInv, Resume, History
  PROVE  Kept
<1> DEFINE w == [thread["power"] EXCEPT !.job = "init", !.pc = "check"]
<1>1. /\ UNCHANGED <<owner, monitored, blocks, refs, driver, up, loads, active, suspends>>
      /\ power' = "on"
      /\ MemoryOK /\ SystemOK /\ "power" \in Threads
      /\ thread \in [Threads -> Work] /\ WorkOK(thread["power"])
      /\ thread["power"] \in Work
  BY AtWork, MemoryTypes
     DEF Resume, processors, memory, driverState, Threads, WorkOK
<1>2. /\ w \in Work /\ w.pc = "check" /\ w.job = "init"
      /\ w.cpu = thread["power"].cpu /\ w.last = thread["power"].last
  BY <1>1 DEF Work, Pcs, Jobs
<1>3. thread' = [thread EXCEPT !["power"] = w] \/ thread' = thread
  BY <1>1 DEF Resume, Work
<1> HIDE DEF w
<1>4. WorkOK(w)
  BY <1>1, <1>2 DEF WorkOK
<1>5. /\ ControlOK("power")
      /\ thread'["power"] = w \/ thread'["power"] = thread["power"]
  <2>1. CASE thread' = [thread EXCEPT !["power"] = w]
    BY <1>1, <1>2, <1>4, <2>1, WorkOn
  <2>2. CASE thread' = thread
    BY <1>1, <2>2, TypeParts DEF ControlOK, Moves, LifeInv, DriverOnLadder
  <2> QED BY <1>3, <2>1, <2>2
<1>6. SystemOK'
  BY <1>1, HistoryOK DEF SystemOK
<1>7. MemoryOK' /\ AliveKept
  BY <1>1, <1>2, <1>5, NothingTaken DEF ControlOK, MemoryOK, Holds, Uses
<1> QED BY <1>1, <1>5, <1>6, <1>7, HistoryOK, Parts DEF Kept

LEMMA AddProcessorKept ==
  ASSUME LifeInv, AddProcessor, History
  PROVE  Kept
<1> DEFINE w == [job |-> "hotplug", pc |-> "fetch", cpu |-> active,
                 last |-> active, block |-> NoBlock]
<1>1. /\ UNCHANGED <<owner, monitored, blocks, refs, driver, up, loads, power, suspends>>
      /\ active' = active + 1 /\ active < MaxCpus
      /\ MemoryOK /\ SystemOK /\ "hotplug" \in Threads
      /\ thread \in [Threads -> Work] /\ WorkOK(thread["hotplug"])
  BY AtWork, MemoryTypes DEF AddProcessor, processors, memory, driverState, Threads
<1>2. active \in Cpus /\ active' \in NumCpus .. MaxCpus
  BY <1>1, CpusAssumption DEF SystemOK, Cpus
<1>3. w \in Work /\ WorkOK(w) /\ w.pc = "fetch"
  BY <1>2, CpusAssumption DEF Work, WorkOK, Pcs, Jobs, Cpus
<1>4. thread' = [thread EXCEPT !["hotplug"] = w] \/ thread' = thread
  BY DEF AddProcessor
<1> HIDE DEF w
<1>5. /\ ControlOK("hotplug")
      /\ thread'["hotplug"] = w \/ thread'["hotplug"] = thread["hotplug"]
  <2>1. CASE thread' = [thread EXCEPT !["hotplug"] = w]
    BY <1>1, <1>3, <2>1, WorkOn
  <2>2. CASE thread' = thread
    BY <1>1, <2>2, TypeParts DEF ControlOK, Moves, LifeInv, DriverOnLadder
  <2> QED BY <1>4, <2>1, <2>2
<1>6. SystemOK'
  BY <1>1, <1>2, HistoryOK DEF SystemOK
<1>7. MemoryOK' /\ AliveKept
  BY <1>1, <1>3, <1>5, NothingTaken DEF ControlOK, MemoryOK, Holds, Uses
<1> QED BY <1>1, <1>5, <1>6, <1>7, HistoryOK, Parts DEF Kept
-----------------------------------------------------------------------------
(* The theorems.                                                           *)

AliveInv == LifeInv /\ ClashNoticed /\ SharedDataAlive

LEMMA InitAlive ==
  ASSUME Init
  PROVE  AliveInv
<1>1. NoJob \in Work /\ WorkOK(NoJob) /\ NoJob.pc = "idle" /\ NoJob.job = "none"
  BY CpuFacts DEF NoJob, Work, WorkOK, Jobs, Pcs
<1>2. /\ "driver" \in Threads
      /\ \A t \in Threads : thread[t] = NoJob
  BY DEF Init, Threads
<1>3. TypeOK
  <2>1. /\ owner \in [Cpus -> Blocks \union {NoBlock}]
        /\ thread \in [Threads -> Work]
        /\ refs \in [Blocks -> Nat]
    BY <1>1 DEF Init
  <2>2. raced \in BOOLEAN /\ clash \in BOOLEAN
    BY DEF Init
  <2>3. /\ active \in NumCpus .. MaxCpus /\ known \in NumCpus .. MaxCpus
        /\ loads \in 0 .. MaxLoads /\ suspends \in 0 .. MaxSuspends
        /\ up \in 0 .. VmRung
    BY CpusAssumption, BoundsAssumption DEF Init, VmRung
  <2>4. /\ monitored \subseteq Cpus
        /\ blocks \in [Blocks -> {"unused", "live", "freed"}]
        /\ driver \in {"absent", "entry", "loaded", "unwind"}
        /\ power \in {"on", "suspending", "resuming"}
    BY DEF Init
  <2> QED BY <2>1, <2>2, <2>3, <2>4 DEF TypeOK, Work
<1>4. ThreadsOK /\ DriverOnLadder
  BY <1>1, <1>2 DEF Init, ThreadsOK, DriverOnLadder
<1>5. RefsCover
  <2> SUFFICES ASSUME NEW b \in Blocks
               PROVE  Cardinality(Owners(b)) + Cardinality(Holding(b)) <= refs[b]
    BY DEF RefsCover
  <2>1. Owners(b) = {}
    BY DEF Init, Owners, Blocks, NoBlock
  <2>2. Holding(b) = {}
    BY <1>1, <1>2 DEF Holding, Holds
  <2> QED BY <2>1, <2>2, FS_EmptySet DEF Init
<1>6. ClashNoticed
  BY <1>1, <1>2 DEF ClashNoticed, StartMeetsAnother
<1>7. SharedDataAlive
  <2> SUFFICES ASSUME NEW b \in Blocks
               PROVE  ~Owned(b) /\ Users(b) = {}
    BY DEF SharedDataAlive, Owned
  <2> QED BY <1>1, <1>2 DEF Init, Owned, Users, Blocks, NoBlock
<1> QED BY <1>3, <1>4, <1>5, <1>6, <1>7 DEF AliveInv, LifeInv

LEMMA NextAlive ==
  ASSUME AliveInv, [Next]_vars
  PROVE  AliveInv'
<1>1. CASE Next
  <2>1. Kept /\ History
    BY <1>1, StepKept, LadderKept, CallVmInitializationKept, UnloadKept, SuspendKept,
       SleepKept, ResumeKept, AddProcessorKept
       DEF Next, DriverStep, PowerStep, AliveInv
  <2>2. clash => clash'
    BY <2>1 DEF History
  <2> QED BY <2>1, <2>2 DEF Kept, AliveKept, AliveInv
<1>2. CASE UNCHANGED vars
  <2>1. ThreadsOK' /\ DriverOnLadder' /\ RefsCover'
    BY <1>2 DEF vars, AliveInv, LifeInv, ThreadsOK, DriverOnLadder, RefsCover,
                Owners, Holding, Holds
  <2>2. TypeOK'
    BY <1>2 DEF vars, AliveInv, LifeInv, TypeOK
  <2>3. ClashNoticed' /\ SharedDataAlive'
    BY <1>2 DEF vars, AliveInv, ClashNoticed, StartMeetsAnother, SharedDataAlive, Users
  <2> QED BY <2>1, <2>2, <2>3 DEF AliveInv, LifeInv
<1> QED BY <1>1, <1>2

\* The books of VmpInitializeVm, VmpStopVm and VmpFreeSharedData balance: the
\* references to shared data cover whoever has it, a start that overlaps
\* another routine is noticed, and without one the shared data is alive.
THEOREM AliveInvariant == Spec => []AliveInv
BY InitAlive, NextAlive, PTL DEF Spec

\* Every variable keeps its type, a reference count never goes below zero
\* included: nobody releases shared data without a reference to it.
THEOREM TypeCorrect == Spec => []TypeOK
<1>1. AliveInv => TypeOK
  BY DEF AliveInv, LifeInv
<1> QED BY <1>1, AliveInvariant, PTL

\* As long as no start overlaps another routine of vm.cpp, VmpFreeSharedData
\* frees the shared data only when no processor has it and no thread is going
\* to use it, for every number of processors, loads and suspends.
THEOREM SharedDataAliveHolds == Spec => []SharedDataAlive
<1>1. AliveInv => SharedDataAlive
  BY DEF AliveInv
<1> QED BY <1>1, AliveInvariant, PTL
=============================================================================
