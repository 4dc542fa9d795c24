----------------------------- MODULE FuzzRecord -----------------------------
(***************************************************************************)
(* Fuzzer.cpp: the table Record, in which the handlers of all processors   *)
(* remember which register an instruction that read a monitored device     *)
(* loads.  It is an open-addressed hash table: the home of an instruction  *)
(* is its page's number modulo the length, so that all instructions of a   *)
(* page collide.  Entries are never removed, and nothing locks the table.  *)
(*                                                                         *)
(* A step is one access to the shared table.  Decoding (Capstone, with the *)
(* floating point state saved around it) either finds the register or      *)
(* fails, which the code does not tell from an instruction without one.    *)
(***************************************************************************)
EXTENDS Processors, Integers, Sequences

CONSTANTS
  Rips,          \* addresses of instructions
  RecordLen,     \* FUZZ_RECORD_LEN
  PageOf,        \* PageOf[r]: UtilPfnFromVa of the instruction
  Written,       \* Written[r]: what cs_regs_access says it writes, in order
  GpRegs,        \* the identifiers SelectRegister has a place for
  NoReg,         \* DesRegId = 0
  NoRip          \* Rip = 0, a free entry

Slots == 0 .. (RecordLen - 1)

ASSUME RecordAssumption ==
  /\ RecordLen \in Nat \ {0}
  /\ PageOf \in [Rips -> Nat]
  /\ NoReg \notin GpRegs
  /\ NoRip \notin Rips

VARIABLES
  recRip, recReg, \* Record[].Rip and Record[].DesRegId
  look,           \* look[p]: where processor p is in GetRegIndexByRip
  expected,       \* history: what the table already said when it began
  twice           \* history: entries that were taken more than once

recordVars == <<recRip, recReg, look, expected, twice>>

LookPcs == {"idle", "home", "find", "free", "claim", "decode", "fetch"}
Lookups == [pc : LookPcs, rip : Rips \union {NoRip}, index : Slots, count : 0 .. RecordLen]
NoLookup == [pc |-> "idle", rip |-> NoRip, index |-> 0, count |-> 0]

Idle(p) == look[p].pc = "idle"
-----------------------------------------------------------------------------
Home(r) == PageOf[r] % RecordLen
NextSlot(i) == (i + 1) % RecordLen

\* The places of Written[r] that hold the first general purpose register; none
\* for an instruction without one.
FirstGpPlaces(r) ==
  {i \in DOMAIN Written[r] :
     /\ Written[r][i] \in GpRegs
     /\ \A j \in DOMAIN Written[r] : j < i => Written[r][j] \notin GpRegs}

\* GetInstructionDestRegister: NoReg, too, when the floating point state cannot
\* be saved, when Capstone cannot be opened or when it does not decode.
GetInstructionDestRegister(r) == {NoReg} \union {Written[r][i] : i \in FirstGpPlaces(r)}

\* The entries before i on the way from an instruction's home.
Before(r, i) ==
  {j \in Slots : (j - Home(r)) % RecordLen < (i - Home(r)) % RecordLen}

\* What the table says of r: the first entry of r on the way from its home, and
\* nothing while some processor still has to fill that one in.
Settled(r) ==
  {<<i, recReg[i]>> : i \in
     {j \in Slots : /\ recRip[j] = r
                    /\ \A k \in Before(r, j) : recRip[k] # r
                    /\ \A p \in Procs : ~(look[p].pc = "decode" /\ look[p].index = j)}}
-----------------------------------------------------------------------------
(* GetRegIndexByRip on processor p.                                        *)

At(p, pc) == look[p].pc = pc
GoTo(p, pc) == look' = [look EXCEPT ![p].pc = pc]

\* A callback of a monitored read at DISPATCH_LEVEL or below (StartFuzz).
StartLookup(p, r) ==
  /\ Idle(p)
  /\ look' = [look EXCEPT ![p] = [pc |-> "home", rip |-> r,
                                  index |-> Home(r), count |-> 0]]
  /\ expected' = [expected EXCEPT ![p] = Settled(r)]
  /\ UNCHANGED <<recRip, recReg, twice>>

\* The tests of the home entry: free, this instruction, another one.
MutLookHome(p) ==
  /\ At(p, "home")
  /\ GoTo(p, IF recRip[look[p].index] = NoRip THEN "claim" ELSE "fetch")
  /\ UNCHANGED <<recRip, recReg, expected, twice>>

LookHome(p) ==
  /\ At(p, "home")
  /\ GoTo(p, CASE recRip[look[p].index] = NoRip -> "claim"
               [] recRip[look[p].index] = look[p].rip -> "fetch"
               [] OTHER -> "find")
  /\ UNCHANGED <<recRip, recReg, expected, twice>>

\* One turn of a loop that stops at an entry with a property or after
\* RecordLen turns.
NextTurn(l) == [l EXCEPT !.index = NextSlot(l.index), !.count = l.count + 1]
Probe(p, stop, found, exhausted) ==
  look' = [look EXCEPT ![p] =
             IF look[p].count = RecordLen THEN exhausted
             ELSE IF stop THEN found ELSE NextTurn(look[p])]

\* Was it moved to another entry before?  After a full turn the index is home
\* again and the search for a free entry starts from there.
FindMoved(p) ==
  /\ At(p, "find")
  /\ Probe(p, recRip[look[p].index] = look[p].rip,
           [look[p] EXCEPT !.pc = "fetch"],
           [look[p] EXCEPT !.pc = "free", !.index = Home(look[p].rip), !.count = 0])
  /\ UNCHANGED <<recRip, recReg, expected, twice>>

MutFindFree(p) ==
  /\ At(p, "free")
  /\ IF recRip[look[p].index] = NoRip THEN GoTo(p, "claim")
     ELSE look' = [look EXCEPT ![p].index = NextSlot(@)]
  /\ UNCHANGED <<recRip, recReg, expected, twice>>

\* An assertion that is always true stands where the table may be full: the
\* entry taken then is the home entry, whoever has it.
FindFree(p) ==
  /\ At(p, "free")
  /\ Probe(p, recRip[look[p].index] = NoRip,
           [look[p] EXCEPT !.pc = "claim"], [look[p] EXCEPT !.pc = "claim"])
  /\ UNCHANGED <<recRip, recReg, expected, twice>>

\* The entry says whose it is before it says which register.
Claim(p) ==
  /\ At(p, "claim")
  /\ LET i == look[p].index IN
     /\ recRip' = [recRip EXCEPT ![i] = look[p].rip]
     /\ twice' = IF recRip[i] = NoRip THEN twice ELSE twice \union {i}
  /\ GoTo(p, "decode")
  /\ UNCHANGED <<recReg, expected>>

MutDecode(p) ==
  /\ At(p, "decode")
  /\ \E reg \in GetInstructionDestRegister(look[p].rip) :
       recReg' = [recReg EXCEPT ![Home(look[p].rip)] = reg]
  /\ GoTo(p, "fetch")
  /\ UNCHANGED <<recRip, expected, twice>>

Decode(p) ==
  /\ At(p, "decode")
  /\ \E reg \in GetInstructionDestRegister(look[p].rip) :
       recReg' = [recReg EXCEPT ![look[p].index] = reg]
  /\ GoTo(p, "fetch")
  /\ UNCHANGED <<recRip, expected, twice>>

\* Every path ends by reading the entry again.  StartFuzz logs the register's
\* value; the lines that would change it are comments.
Fetch(p) ==
  /\ At(p, "fetch")
  /\ look' = [look EXCEPT ![p] = NoLookup]
  /\ expected' = [expected EXCEPT ![p] = {}]
  /\ UNCHANGED <<recRip, recReg, twice>>
-----------------------------------------------------------------------------
LookupStep(p) ==
  \/ LookHome(p) \/ FindMoved(p) \/ FindFree(p)
  \/ Claim(p) \/ Decode(p) \/ Fetch(p)

RecordInit ==
  /\ recRip = [i \in Slots |-> NoRip]
  /\ recReg = [i \in Slots |-> NoReg]
  /\ look = [p \in Procs |-> NoLookup]
  /\ expected = [p \in Procs |-> {}]
  /\ twice = {}

RecordNext ==
  \E p \in Procs : LookupStep(p) \/ \E r \in Rips : StartLookup(p, r)

RecordSpec == RecordInit /\ [][RecordNext]_recordVars
-----------------------------------------------------------------------------
(* Properties.                                                             *)

\* The variables have their types, and a processor that is about to take,
\* fill or read an entry has one of the table in hand.
RecordTypeOK ==
  /\ recRip \in [Slots -> Rips \union {NoRip}]
  /\ recReg \in [Slots -> GpRegs \union {NoReg}]
  /\ look \in [Procs -> Lookups]
  /\ \A p \in Procs : look[p].rip = NoRip <=> look[p].pc = "idle"
  /\ expected \in [Procs -> SUBSET (Slots \X (GpRegs \union {NoReg}))]
  /\ twice \in SUBSET Slots

\* GetRegIndexByRip returns the register of the instruction it was asked about,
\* or 0 for "not known": never what another instruction loads, although the
\* table is written without a lock, and as long as the entry it reads was
\* taken only once.  Two processors that find the same entry free take it
\* twice, and so does everyone who comes once the table is full.
AnswerFits ==
  \A p \in Procs :
    At(p, "fetch") /\ look[p].index \notin twice =>
      recReg[look[p].index] \in GetInstructionDestRegister(look[p].rip)

\* How many steps a lookup still takes at most.
StepsLeft(l) ==
  CASE l.pc = "home"   -> 2 * RecordLen + 6
    [] l.pc = "find"   -> 2 * RecordLen - l.count + 5
    [] l.pc = "free"   -> RecordLen - l.count + 4
    [] l.pc = "claim"  -> 3
    [] l.pc = "decode" -> 2
    [] l.pc = "fetch"  -> 1
    [] l.pc = "idle"   -> 0

\* Every step of a lookup brings it nearer to its end, so that the handler
\* returns to the guest: also when the table is full, and whatever the other
\* processors store while the two loops of GetRegIndexByRip go round.
LookupsAdvance ==
  [][\A p \in Procs :
       LookupStep(p) => StepsLeft(look'[p]) < StepsLeft(look[p])]_recordVars

\* What one handler has found out all later ones use: a lookup that begins
\* when the table has a finished entry for the instruction returns just that
\* entry's register, wherever collisions have moved it, as long as neither
\* that entry nor one on the way to it was taken twice.
AnswerIsSettled ==
  \A p \in Procs : \A e \in expected[p] :
    /\ At(p, "fetch")
    /\ ({e[1]} \union Before(look[p].rip, e[1])) \intersect twice = {}
    => look[p].index = e[1] /\ recReg[look[p].index] = e[2]
=============================================================================
