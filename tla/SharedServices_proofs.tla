------------------------ MODULE SharedServices_proofs ------------------------
(***************************************************************************)
(* Proofs about SharedServices and the modules it is composed of, for any  *)
(* number of processors, instructions and entries.                         *)
(***************************************************************************)
EXTENDS SharedServices, FiniteSetTheorems, TLAPS

\* The index arithmetic of the table (Fuzzer.cpp:328 and 352) stays inside it.
LEMMA SlotsClosed ==
  /\ \A r \in Rips : Home(r) \in Slots
  /\ \A i \in Slots : NextSlot(i) \in Slots
  /\ 0 \in Slots
<1>1. \A r \in Rips : Home(r) \in Slots
  BY RecordAssumption DEF Home, Slots
<1>2. \A i \in Slots : NextSlot(i) \in Slots
  BY RecordAssumption DEF NextSlot, Slots
<1>3. 0 \in Slots
  BY RecordAssumption DEF Slots
<1> QED BY <1>1, <1>2, <1>3

\* A decoded register is one SelectRegister knows, or none.
LEMMA DecodedType ==
  \A r \in Rips : GetInstructionDestRegister(r) \subseteq GpRegs \union {NoReg}
BY DEF GetInstructionDestRegister, FirstGpPlaces
-----------------------------------------------------------------------------
(* FuzzRecord: types.                                                      *)

LEMMA RecordTypeInit == RecordInit => RecordTypeOK
BY SlotsClosed, RecordAssumption
   DEF RecordInit, RecordTypeOK, NoLookup, Lookups, LookPcs

LEMMA SettledType ==
  ASSUME RecordTypeOK, NEW r \in Rips
  PROVE  Settled(r) \in SUBSET (Slots \X (GpRegs \union {NoReg}))
BY DEF Settled, RecordTypeOK

\* One lemma per step of a lookup.
LEMMA StartLookupType ==
  ASSUME RecordTypeOK, NEW p \in Procs, NEW r \in Rips, StartLookup(p, r)
  PROVE  RecordTypeOK'
<1>1. look' \in [Procs -> Lookups]
  BY SlotsClosed, RecordAssumption DEF StartLookup, RecordTypeOK, Lookups, LookPcs
<1>2. \A q \in Procs : look'[q].rip = NoRip <=> look'[q].pc = "idle"
  BY RecordAssumption DEF StartLookup, RecordTypeOK
<1>3. expected' \in [Procs -> SUBSET (Slots \X (GpRegs \union {NoReg}))]
  BY SettledType DEF StartLookup, RecordTypeOK
<1> QED BY <1>1, <1>2, <1>3 DEF StartLookup, RecordTypeOK

LEMMA LookHomeType ==
  ASSUME RecordTypeOK, NEW p \in Procs, LookHome(p)
  PROVE  RecordTypeOK'
<1>1. look' \in [Procs -> Lookups]
  BY DEF LookHome, GoTo, RecordTypeOK, Lookups, LookPcs
<1>2. \A q \in Procs : look'[q].rip = NoRip <=> look'[q].pc = "idle"
  BY DEF LookHome, At, GoTo, RecordTypeOK, Lookups, LookPcs
<1> QED BY <1>1, <1>2 DEF LookHome, RecordTypeOK

\* What a turn of either loop leaves of a lookup.
LEMMA ProbeType ==
  ASSUME RecordTypeOK, NEW p \in Procs, NEW stop \in BOOLEAN,
         NEW found \in Lookups, NEW exhausted \in Lookups,
         ~Idle(p),
         found.pc # "idle", found.rip = look[p].rip,
         exhausted.pc # "idle", exhausted.rip = look[p].rip,
         Probe(p, stop, found, exhausted)
  PROVE  /\ look' \in [Procs -> Lookups]
         /\ \A q \in Procs : look'[q].rip = NoRip <=> look'[q].pc = "idle"
<1>1. look[p] \in Lookups /\ look[p].rip # NoRip
  BY DEF RecordTypeOK, Idle
<1>2. CASE look[p].count = RecordLen
  <2>1. look' = [look EXCEPT ![p] = exhausted]
    BY <1>2 DEF Probe
  <2> QED BY <2>1, <1>1 DEF RecordTypeOK
<1>3. CASE look[p].count # RecordLen /\ stop
  <2>1. look' = [look EXCEPT ![p] = found]
    BY <1>3 DEF Probe
  <2> QED BY <2>1, <1>1 DEF RecordTypeOK
<1>4. CASE look[p].count # RecordLen /\ ~stop
  <2>1. look[p].count + 1 \in 0 .. RecordLen
    BY <1>1, <1>4, RecordAssumption DEF Lookups
  <2>2. NextSlot(look[p].index) \in Slots
    BY <1>1, SlotsClosed DEF Lookups
  <2>3. /\ NextTurn(look[p]) \in Lookups
        /\ NextTurn(look[p]).pc = look[p].pc
        /\ NextTurn(look[p]).rip = look[p].rip
    BY <1>1, <2>1, <2>2 DEF NextTurn, Lookups
  <2>4. look' = [look EXCEPT ![p] = NextTurn(look[p])]
    BY <1>4 DEF Probe
  <2> QED BY <2>3, <2>4, <1>1 DEF RecordTypeOK, Idle
<1> QED BY <1>2, <1>3, <1>4

LEMMA FindMovedType ==
  ASSUME RecordTypeOK, NEW p \in Procs, FindMoved(p)
  PROVE  RecordTypeOK'
<1> DEFINE found == [look[p] EXCEPT !.pc = "fetch"]
           exhausted == [look[p] EXCEPT !.pc = "free",
                           !.index = Home(look[p].rip), !.count = 0]
<1>1. look[p] \in Lookups /\ look[p].rip \in Rips /\ ~Idle(p)
  BY DEF RecordTypeOK, FindMoved, At, Idle, Lookups
<1>2. found \in Lookups /\ found.pc # "idle" /\ found.rip = look[p].rip
  BY <1>1 DEF Lookups, LookPcs
<1>3. exhausted \in Lookups /\ exhausted.pc # "idle" /\ exhausted.rip = look[p].rip
  <2>1. Home(look[p].rip) \in Slots /\ 0 \in 0 .. RecordLen
    BY <1>1, SlotsClosed, RecordAssumption
  <2> QED BY <1>1, <2>1 DEF Lookups, LookPcs
<1>4. Probe(p, recRip[look[p].index] = look[p].rip, found, exhausted)
  BY DEF FindMoved
<1> HIDE DEF found, exhausted
<1>5. /\ look' \in [Procs -> Lookups]
      /\ \A q \in Procs : look'[q].rip = NoRip <=> look'[q].pc = "idle"
  BY <1>1, <1>2, <1>3, <1>4, ProbeType
<1> QED BY <1>5 DEF FindMoved, RecordTypeOK

LEMMA FindFreeType ==
  ASSUME RecordTypeOK, NEW p \in Procs, FindFree(p)
  PROVE  RecordTypeOK'
<1> DEFINE found == [look[p] EXCEPT !.pc = "claim"]
<1>1. look[p] \in Lookups /\ ~Idle(p)
  BY DEF RecordTypeOK, FindFree, At, Idle
<1>2. found \in Lookups /\ found.pc # "idle" /\ found.rip = look[p].rip
  BY <1>1 DEF Lookups, LookPcs
<1>3. Probe(p, recRip[look[p].index] = NoRip, found, found)
  BY DEF FindFree
<1> HIDE DEF found
<1>4. /\ look' \in [Procs -> Lookups]
      /\ \A q \in Procs : look'[q].rip = NoRip <=> look'[q].pc = "idle"
  BY <1>1, <1>2, <1>3, ProbeType
<1> QED BY <1>4 DEF FindFree, RecordTypeOK

LEMMA ClaimType ==
  ASSUME RecordTypeOK, NEW p \in Procs, Claim(p)
  PROVE  RecordTypeOK'
<1>1. look' \in [Procs -> Lookups]
  BY DEF Claim, GoTo, RecordTypeOK, Lookups, LookPcs
<1>2. \A q \in Procs : look'[q].rip = NoRip <=> look'[q].pc = "idle"
  BY DEF Claim, At, GoTo, RecordTypeOK, Lookups, LookPcs
<1>3. recRip' \in [Slots -> Rips \union {NoRip}] /\ twice' \in SUBSET Slots
  BY DEF Claim, RecordTypeOK, Lookups
<1> QED BY <1>1, <1>2, <1>3 DEF Claim, RecordTypeOK

LEMMA DecodeType ==
  ASSUME RecordTypeOK, NEW p \in Procs, Decode(p)
  PROVE  RecordTypeOK'
<1> GoTo(p, "fetch") /\ At(p, "decode")
  BY DEF Decode
<1>1. look' \in [Procs -> Lookups]
  BY DEF GoTo, RecordTypeOK, Lookups, LookPcs
<1>2. \A q \in Procs : look'[q].rip = NoRip <=> look'[q].pc = "idle"
  BY DEF At, GoTo, RecordTypeOK, Lookups, LookPcs
<1>3. look[p].rip \in Rips
  BY DEF At, RecordTypeOK, Lookups
<1>4. recReg' \in [Slots -> GpRegs \union {NoReg}]
  BY <1>3, DecodedType DEF Decode, RecordTypeOK
<1> QED BY <1>1, <1>2, <1>4 DEF Decode, RecordTypeOK

LEMMA FetchType ==
  ASSUME RecordTypeOK, NEW p \in Procs, Fetch(p)
  PROVE  RecordTypeOK'
<1>1. NoLookup \in Lookups
  BY SlotsClosed, RecordAssumption DEF NoLookup, Lookups, LookPcs
<1>2. look' \in [Procs -> Lookups]
  BY <1>1 DEF Fetch, RecordTypeOK
<1>3. \A q \in Procs : look'[q].rip = NoRip <=> look'[q].pc = "idle"
  BY DEF Fetch, RecordTypeOK, NoLookup
<1> QED BY <1>2, <1>3 DEF Fetch, RecordTypeOK

LEMMA RecordTypeStep ==
  ASSUME RecordTypeOK, [RecordNext]_recordVars
  PROVE  RecordTypeOK'
<1>1. CASE RecordNext
  BY <1>1, StartLookupType, LookHomeType, FindMovedType, FindFreeType,
     ClaimType, DecodeType, FetchType DEF RecordNext, LookupStep
<1>2. CASE UNCHANGED recordVars
  BY <1>2 DEF recordVars, RecordTypeOK
<1> QED BY <1>1, <1>2

\* FuzzRecord's variables keep their types: in particular no lookup leaves the
\* table, however full it is (the assertion at Fuzzer.cpp:371).
THEOREM RecordTypeCorrect == RecordSpec => []RecordTypeOK
<1>1. RecordInit => RecordTypeOK
  BY RecordTypeInit
<1>2. RecordTypeOK /\ [RecordNext]_recordVars => RecordTypeOK'
  BY RecordTypeStep
<1> QED BY <1>1, <1>2, PTL DEF RecordSpec
-----------------------------------------------------------------------------
(* FuzzRecord: the answers.                                                *)

\* An entry that was not taken twice belongs to one instruction: it is free and
\* empty, or says of its instruction what decoding may say.
EntryFits(i) ==
  \/ recRip[i] = NoRip /\ recReg[i] = NoReg
  \/ recRip[i] \in Rips /\ recReg[i] \in GetInstructionDestRegister(recRip[i])

\* Whoever fills or reads such an entry came for that instruction.
HolderFits(p) ==
  look[p].pc \in {"decode", "fetch"} /\ look[p].index \notin twice =>
    recRip[look[p].index] = look[p].rip

FitInv ==
  /\ \A i \in Slots \ twice : EntryFits(i)
  /\ \A p \in Procs : HolderFits(p)

LEMMA FitInvInit == RecordInit => FitInv
BY DEF RecordInit, FitInv, EntryFits, HolderFits, NoLookup

LEMMA FitInvImplies == RecordTypeOK /\ FitInv => AnswerFits
BY DEF RecordTypeOK, FitInv, EntryFits, HolderFits, AnswerFits, At, Lookups

\* Steps that store nothing: only where the moved processor arrives matters.
LEMMA FitInvQuiet ==
  ASSUME RecordTypeOK, FitInv, NEW p \in Procs,
         UNCHANGED <<recRip, recReg, twice>>,
         \A q \in Procs \ {p} : look'[q] = look[q],
         HolderFits(p)'
  PROVE  FitInv'
<1>1. \A i \in Slots \ twice' : EntryFits(i)'
  BY DEF FitInv, EntryFits
<1>2. \A q \in Procs \ {p} : HolderFits(q)'
  BY DEF FitInv, HolderFits
<1> QED BY <1>1, <1>2 DEF FitInv

LEMMA FitInvStart ==
  ASSUME RecordTypeOK, FitInv, NEW p \in Procs, NEW r \in Rips, StartLookup(p, r)
  PROVE  FitInv'
<1>1. HolderFits(p)' /\ \A q \in Procs \ {p} : look'[q] = look[q]
  BY DEF StartLookup, RecordTypeOK, HolderFits
<1> QED BY <1>1, FitInvQuiet DEF StartLookup

LEMMA FitInvHome ==
  ASSUME RecordTypeOK, FitInv, NEW p \in Procs, LookHome(p)
  PROVE  FitInv'
<1>1. \A q \in Procs \ {p} : look'[q] = look[q]
  BY DEF LookHome, GoTo, RecordTypeOK
<1>2. CASE recRip[look[p].index] = NoRip
  <2>1. look'[p].pc = "claim"
    <3>1. look[p].index \in Slots /\ look[p].rip # NoRip
      BY RecordAssumption DEF LookHome, At, RecordTypeOK, Lookups
    <3>2. look' = [look EXCEPT ![p].pc = "claim"]
      BY <1>2, <3>1 DEF LookHome, GoTo
    <3> QED BY <3>2 DEF RecordTypeOK, Lookups
  <2> QED BY <2>1, <1>1, FitInvQuiet DEF LookHome, HolderFits
<1>3. CASE recRip[look[p].index] # NoRip /\ recRip[look[p].index] = look[p].rip
  <2>1. look'[p].index = look[p].index /\ look'[p].rip = look[p].rip
    BY DEF LookHome, GoTo, RecordTypeOK, Lookups
  <2>2. HolderFits(p)'
    BY <2>1, <1>3 DEF LookHome, HolderFits
  <2> QED BY <2>2, <1>1, FitInvQuiet DEF LookHome
<1>4. CASE recRip[look[p].index] # NoRip /\ recRip[look[p].index] # look[p].rip
  <2>1. look'[p].pc = "find"
    BY <1>4 DEF LookHome, GoTo, RecordTypeOK, Lookups
  <2> QED BY <2>1, <1>1, FitInvQuiet DEF LookHome, HolderFits
<1> QED BY <1>2, <1>3, <1>4

LEMMA FitInvFindMoved ==
  ASSUME RecordTypeOK, FitInv, NEW p \in Procs, FindMoved(p)
  PROVE  FitInv'
<1>1. \A q \in Procs \ {p} : look'[q] = look[q]
  BY DEF FindMoved, Probe, RecordTypeOK
<1>2. look[p] \in Lookups /\ look[p].pc = "find"
  BY DEF FindMoved, At, RecordTypeOK
<1>3. HolderFits(p)'
  <2>1. CASE look[p].count = RecordLen
    <3>1. look'[p].pc = "free"
      BY <2>1, <1>2 DEF FindMoved, Probe, RecordTypeOK, Lookups
    <3> QED BY <3>1 DEF HolderFits
  <2>2. CASE look[p].count # RecordLen /\ recRip[look[p].index] = look[p].rip
    <3>1. look'[p] = [look[p] EXCEPT !.pc = "fetch"]
      BY <2>2 DEF FindMoved, Probe, RecordTypeOK
    <3>2. look'[p].index = look[p].index /\ look'[p].rip = look[p].rip
      BY <3>1, <1>2 DEF Lookups
    <3> QED BY <2>2, <3>2 DEF HolderFits, FindMoved
  <2>3. CASE look[p].count # RecordLen /\ recRip[look[p].index] # look[p].rip
    <3>1. look'[p] = NextTurn(look[p])
      BY <2>3 DEF FindMoved, Probe, RecordTypeOK
    <3>2. look'[p].pc = "find"
      BY <3>1, <1>2 DEF NextTurn, Lookups
    <3> QED BY <3>2 DEF HolderFits
  <2> QED BY <2>1, <2>2, <2>3
<1> QED BY <1>1, <1>3, FitInvQuiet DEF FindMoved

LEMMA FitInvFindFree ==
  ASSUME RecordTypeOK, FitInv, NEW p \in Procs, FindFree(p)
  PROVE  FitInv'
<1>1. \A q \in Procs \ {p} : look'[q] = look[q]
  BY DEF FindFree, Probe, RecordTypeOK
<1>2. look[p] \in Lookups /\ look[p].pc = "free"
  BY DEF FindFree, At, RecordTypeOK
<1>3. look'[p].pc \in {"claim", "free"}
  <2>1. look'[p] \in {[look[p] EXCEPT !.pc = "claim"], NextTurn(look[p])}
    BY DEF FindFree, Probe, RecordTypeOK
  <2> QED BY <2>1, <1>2 DEF NextTurn, Lookups
<1>4. HolderFits(p)'
  BY <1>3 DEF HolderFits
<1> QED BY <1>1, <1>4, FitInvQuiet DEF FindFree

\* Taking a free entry leaves the others' alone: no one else holds it, because
\* a holder's entry is not free.  Taking any other one marks it.
LEMMA FitInvClaim ==
  ASSUME RecordTypeOK, FitInv, NEW p \in Procs, Claim(p)
  PROVE  FitInv'
<1> DEFINE i == look[p].index
<1>1. i \in Slots /\ look[p].rip \in Rips /\ look[p].pc = "claim"
  BY DEF Claim, At, RecordTypeOK, Lookups
<1>2. /\ recRip' = [recRip EXCEPT ![i] = look[p].rip]
      /\ recReg' = recReg
      /\ twice' = IF recRip[i] = NoRip THEN twice ELSE twice \union {i}
      /\ look' = [look EXCEPT ![p].pc = "decode"]
  BY DEF Claim, GoTo
<1>3. look'[p].index = i /\ look'[p].rip = look[p].rip /\ twice \subseteq twice'
  BY <1>2 DEF RecordTypeOK, Lookups
<1> HIDE DEF i
<1>4. \A j \in Slots \ twice' : EntryFits(j)'
  <2> SUFFICES ASSUME NEW j \in Slots \ twice' PROVE EntryFits(j)'
    OBVIOUS
  <2>1. CASE j = i
    <3>1. recRip[i] = NoRip /\ i \notin twice
      BY <2>1, <1>2
    <3>2. recReg[i] = NoReg
      BY <3>1, <1>1, RecordAssumption DEF FitInv, EntryFits
    <3>3. recRip'[i] = look[p].rip /\ recReg'[i] = NoReg
      BY <3>2, <1>1, <1>2 DEF RecordTypeOK
    <3> QED BY <2>1, <3>3, <1>1 DEF EntryFits, GetInstructionDestRegister
  <2>2. CASE j # i
    <3>1. recRip'[j] = recRip[j] /\ recReg'[j] = recReg[j] /\ j \notin twice
      BY <2>2, <1>1, <1>2, <1>3 DEF RecordTypeOK
    <3> QED BY <3>1 DEF FitInv, EntryFits
  <2> QED BY <2>1, <2>2
<1>5. \A q \in Procs : HolderFits(q)'
  <2> SUFFICES ASSUME NEW q \in Procs, q # p,
                      look[q].pc \in {"decode", "fetch"},
                      look[q].index \notin twice'
               PROVE  recRip'[look[q].index] = look[q].rip
    BY <1>1, <1>2, <1>3 DEF HolderFits, RecordTypeOK
  <2>1. recRip[look[q].index] = look[q].rip /\ look[q].rip \in Rips
    BY <1>3 DEF FitInv, HolderFits, RecordTypeOK, Lookups
  <2>2. look[q].index # i
    BY <2>1, <1>2, RecordAssumption
  <2> QED BY <2>1, <2>2, <1>2 DEF RecordTypeOK
<1> QED BY <1>4, <1>5 DEF FitInv

LEMMA FitInvDecode ==
  ASSUME RecordTypeOK, FitInv, NEW p \in Procs, Decode(p)
  PROVE  FitInv'
<1> DEFINE i == look[p].index
<1>1. i \in Slots /\ look[p].rip \in Rips /\ look[p].pc = "decode"
  BY DEF Decode, At, RecordTypeOK, Lookups
<1>2. PICK reg \in GetInstructionDestRegister(look[p].rip) :
        recReg' = [recReg EXCEPT ![i] = reg]
  BY DEF Decode
<1>3. recRip' = recRip /\ twice' = twice /\ look' = [look EXCEPT ![p].pc = "fetch"]
  BY DEF Decode, GoTo
<1>4. i \notin twice => recRip[i] = look[p].rip
  BY <1>1 DEF FitInv, HolderFits
<1> HIDE DEF i
<1>5. \A j \in Slots \ twice' : EntryFits(j)'
  <2> SUFFICES ASSUME NEW j \in Slots \ twice PROVE EntryFits(j)'
    BY <1>3
  <2>1. CASE j = i
    BY <2>1, <1>1, <1>2, <1>3, <1>4 DEF EntryFits, RecordTypeOK
  <2>2. CASE j # i
    <3>1. recReg'[j] = recReg[j]
      BY <2>2, <1>2 DEF RecordTypeOK
    <3> QED BY <3>1, <1>3 DEF FitInv, EntryFits
  <2> QED BY <2>1, <2>2
<1>6. \A q \in Procs : HolderFits(q)'
  BY <1>1, <1>3 DEF FitInv, HolderFits, RecordTypeOK, Lookups
<1> QED BY <1>5, <1>6 DEF FitInv

LEMMA FitInvFetch ==
  ASSUME RecordTypeOK, FitInv, NEW p \in Procs, Fetch(p)
  PROVE  FitInv'
<1>1. HolderFits(p)' /\ \A q \in Procs \ {p} : look'[q] = look[q]
  BY DEF Fetch, RecordTypeOK, HolderFits, NoLookup
<1> QED BY <1>1, FitInvQuiet DEF Fetch

LEMMA FitInvStep ==
  ASSUME RecordTypeOK, FitInv, [RecordNext]_recordVars
  PROVE  FitInv'
<1>1. CASE RecordNext
  BY <1>1, FitInvStart, FitInvHome, FitInvFindMoved, FitInvFindFree,
     FitInvClaim, FitInvDecode, FitInvFetch DEF RecordNext, LookupStep
<1>2. CASE UNCHANGED recordVars
  BY <1>2 DEF recordVars, FitInv, EntryFits, HolderFits
<1> QED BY <1>1, <1>2

LEMMA RecordAnswerFits == RecordSpec => []AnswerFits
<1>1. RecordInit => FitInv
  BY FitInvInit
<1>2. RecordTypeOK /\ FitInv /\ [RecordNext]_recordVars => FitInv'
  BY FitInvStep
<1>3. RecordTypeOK /\ FitInv => AnswerFits
  BY FitInvImplies
<1> QED BY <1>1, <1>2, <1>3, RecordTypeCorrect, PTL DEF RecordSpec
-----------------------------------------------------------------------------
(* FuzzRecord: the loops end.                                              *)

\* What is left of a lookup, place by place.
LEMMA StepsLeftOf ==
  ASSUME NEW l \in Lookups
  PROVE  /\ l.pc = "home" => StepsLeft(l) = 2 * RecordLen + 6
         /\ l.pc = "find" => StepsLeft(l) = 2 * RecordLen - l.count + 5
         /\ l.pc = "free" => StepsLeft(l) = RecordLen - l.count + 4
         /\ l.pc = "claim" => StepsLeft(l) = 3
         /\ l.pc = "decode" => StepsLeft(l) = 2
         /\ l.pc = "fetch" => StepsLeft(l) = 1
         /\ l.pc = "idle" => StepsLeft(l) = 0
BY DEF StepsLeft

\* Both loops count to RecordLen, and what follows a loop is shorter than its
\* last turn.
LEMMA LookupStepAdvances ==
  ASSUME RecordTypeOK, RecordTypeOK', NEW p \in Procs, LookupStep(p)
  PROVE  StepsLeft(look'[p]) < StepsLeft(look[p])
<1>1. /\ look[p] \in Lookups /\ look'[p] \in Lookups
      /\ look[p].count \in 0 .. RecordLen /\ look'[p].count \in 0 .. RecordLen
      /\ RecordLen \in Nat \ {0}
  BY RecordAssumption DEF RecordTypeOK, Lookups
<1>2. CASE LookHome(p)
  <2>1. look[p].pc = "home"
    BY <1>2 DEF LookHome, At
  <2>2. look'[p].pc \in {"claim", "fetch", "find"}
    <3> DEFINE pc == CASE recRip[look[p].index] = NoRip -> "claim"
                       [] recRip[look[p].index] = look[p].rip -> "fetch"
                       [] OTHER -> "find"
    <3>1. pc \in {"claim", "fetch", "find"}
      OBVIOUS
    <3>2. look' = [look EXCEPT ![p].pc = pc]
      BY <1>2 DEF LookHome, GoTo
    <3> HIDE DEF pc
    <3> QED BY <3>1, <3>2, <1>1 DEF RecordTypeOK, Lookups
  <2> QED BY <2>1, <2>2, <1>1, StepsLeftOf
<1>3. CASE FindMoved(p)
  <2>1. look[p].pc = "find"
    BY <1>3 DEF FindMoved, At
  <2>2. CASE look[p].count = RecordLen
    <3>1. look'[p] = [look[p] EXCEPT !.pc = "free", !.index = Home(look[p].rip), !.count = 0]
      BY <2>2, <1>3 DEF FindMoved, Probe, RecordTypeOK
    <3>2. look'[p].pc = "free" /\ look'[p].count = 0
      BY <3>1, <1>1 DEF Lookups
    <3> QED BY <2>1, <2>2, <3>2, <1>1, StepsLeftOf
  <2>3. CASE look[p].count # RecordLen /\ recRip[look[p].index] = look[p].rip
    <3>1. look'[p] = [look[p] EXCEPT !.pc = "fetch"]
      BY <2>3, <1>3 DEF FindMoved, Probe, RecordTypeOK
    <3>2. look'[p].pc = "fetch"
      BY <3>1, <1>1 DEF Lookups
    <3> QED BY <2>1, <3>2, <1>1, StepsLeftOf
  <2>4. CASE look[p].count # RecordLen /\ recRip[look[p].index] # look[p].rip
    <3>1. look'[p] = NextTurn(look[p])
      BY <2>4, <1>3 DEF FindMoved, Probe, RecordTypeOK
    <3>2. look'[p].pc = "find" /\ look'[p].count = look[p].count + 1
      BY <3>1, <2>1, <1>1 DEF NextTurn, Lookups
    <3> QED BY <2>1, <3>2, <1>1, StepsLeftOf
  <2> QED BY <2>2, <2>3, <2>4
<1>4. CASE FindFree(p)
  <2>1. look[p].pc = "free"
    BY <1>4 DEF FindFree, At
  <2>2. CASE look'[p] = [look[p] EXCEPT !.pc = "claim"]
    <3>1. look'[p].pc = "claim"
      BY <2>2, <1>1 DEF Lookups
    <3> QED BY <2>1, <3>1, <1>1, StepsLeftOf
  <2>3. CASE look'[p] = NextTurn(look[p])
    <3>1. look'[p].pc = "free" /\ look'[p].count = look[p].count + 1
      BY <2>3, <2>1, <1>1 DEF NextTurn, Lookups
    <3> QED BY <2>1, <3>1, <1>1, StepsLeftOf
  <2> QED BY <2>2, <2>3, <1>4 DEF FindFree, Probe, RecordTypeOK
<1>5. CASE Claim(p)
  <2>1. look[p].pc = "claim" /\ look'[p].pc = "decode"
    BY <1>5, <1>1 DEF Claim, At, GoTo, RecordTypeOK, Lookups
  <2> QED BY <2>1, <1>1, StepsLeftOf
<1>6. CASE Decode(p)
  <2>1. look[p].pc = "decode" /\ look'[p].pc = "fetch"
    BY <1>6, <1>1 DEF Decode, At, GoTo, RecordTypeOK, Lookups
  <2> QED BY <2>1, <1>1, StepsLeftOf
<1>7. CASE Fetch(p)
  <2>1. look[p].pc = "fetch" /\ look'[p].pc = "idle"
    BY <1>7, <1>1 DEF Fetch, At, NoLookup, RecordTypeOK
  <2> QED BY <2>1, <1>1, StepsLeftOf
<1> QED BY <1>2, <1>3, <1>4, <1>5, <1>6, <1>7 DEF LookupStep

LEMMA RecordLookupsAdvance == RecordSpec => LookupsAdvance
<1>1. RecordTypeOK /\ RecordTypeOK' /\ [RecordNext]_recordVars =>
        [\A p \in Procs : LookupStep(p) =>
           StepsLeft(look'[p]) < StepsLeft(look[p])]_recordVars
  BY LookupStepAdvances
<1> QED BY <1>1, RecordTypeCorrect, PTL DEF RecordSpec, LookupsAdvance
-----------------------------------------------------------------------------
(* FuzzRecord: what is known stays known.                                  *)

\* How far an entry is from an instruction's home.
Dist(r, i) == (i - Home(r)) % RecordLen

LEMMA ModOnce ==
  ASSUME NEW n \in Nat \ {0}, NEW x \in Int, -n < x, x < n
  PROVE  x % n = IF x >= 0 THEN x ELSE x + n
OBVIOUS

LEMMA ModWraps ==
  ASSUME NEW n \in Nat \ {0}, NEW i \in 0 .. (n - 1)
  PROVE  (i + 1) % n = IF i = n - 1 THEN 0 ELSE i + 1
OBVIOUS

LEMMA DistIs ==
  ASSUME NEW r \in Rips, NEW i \in Slots
  PROVE  Dist(r, i) = IF i >= Home(r) THEN i - Home(r) ELSE i - Home(r) + RecordLen
<1>1. Home(r) \in Slots
  BY SlotsClosed
<1> DEFINE x == i - Home(r)
<1>2. x \in Int /\ -RecordLen < x /\ x < RecordLen /\ (x >= 0 <=> i >= Home(r))
  BY <1>1, RecordAssumption DEF Slots
<1> HIDE DEF x
<1>3. x % RecordLen = IF x >= 0 THEN x ELSE x + RecordLen
  BY <1>2, ModOnce, RecordAssumption
<1> QED BY <1>2, <1>3 DEF Dist, x

LEMMA DistLaws ==
  ASSUME NEW r \in Rips, NEW i \in Slots
  PROVE  /\ Dist(r, i) \in 0 .. (RecordLen - 1)
         /\ Dist(r, Home(r)) = 0
         /\ Dist(r, NextSlot(i)) = IF Dist(r, i) = RecordLen - 1 THEN 0 ELSE Dist(r, i) + 1
         /\ \A j \in Slots : Dist(r, i) = Dist(r, j) => i = j
<1>1. Home(r) \in Slots /\ NextSlot(i) \in Slots
  BY SlotsClosed
<1>2. NextSlot(i) = IF i = RecordLen - 1 THEN 0 ELSE i + 1
  BY ModWraps, RecordAssumption DEF NextSlot, Slots
<1>3. \A j \in Slots : Dist(r, j) = IF j >= Home(r) THEN j - Home(r) ELSE j - Home(r) + RecordLen
  BY DistIs
<1> QED BY <1>1, <1>2, <1>3, RecordAssumption DEF Slots

LEMMA BeforeIs ==
  \A r, i : Before(r, i) = {j \in Slots : Dist(r, j) < Dist(r, i)}
BY DEF Before, Dist

\* Entries are never removed, so that the entries on the way to one that is
\* in use, and to the one a processor is about to take, stay in use.
UsedBefore(r, i) == \A k \in Before(r, i) : recRip[k] # NoRip

LookWay(p) ==
  /\ look[p].pc = "home" => look[p].index = Home(look[p].rip) /\ look[p].count = 0
  /\ look[p].pc \in {"find", "free"} =>
       Dist(look[p].rip, look[p].index) =
         IF look[p].count = RecordLen THEN 0 ELSE look[p].count
  /\ look[p].pc = "free" =>
       \A k \in Slots : Dist(look[p].rip, k) < look[p].count => recRip[k] # NoRip
  /\ look[p].pc = "claim" => UsedBefore(look[p].rip, look[p].index)

WayInv ==
  /\ \A i \in Slots : recRip[i] # NoRip => UsedBefore(recRip[i], i)
  /\ \A p \in Procs : LookWay(p)

\* The entry and those on the way to it were taken once.
Clean(r, i) == ({i} \union Before(r, i)) \intersect twice = {}

\* The table says of instruction r what it said, and goes on doing so.
Says(r, i, reg) ==
  /\ recRip[i] = r /\ recReg[i] = reg
  /\ \A q \in Procs : ~(look[q].pc = "decode" /\ look[q].index = i)
  /\ \A k \in Before(r, i) : recRip[k] \notin {r, NoRip}

\* A lookup that expects the entry has not gone past it.
Comes(l, i) ==
  /\ l.pc \in {"home", "find", "fetch"}
  /\ l.pc = "find" => l.count <= Dist(l.rip, i)
  /\ l.pc = "fetch" => l.index = i

Expects(p, i, reg) ==
  Clean(look[p].rip, i) => Says(look[p].rip, i, reg) /\ Comes(look[p], i)

SettledInv == \A p \in Procs : \A e \in expected[p] : Expects(p, e[1], e[2])

LEMMA SettledInvInit == RecordInit => WayInv /\ SettledInv
BY DEF RecordInit, WayInv, SettledInv, LookWay, NoLookup

LEMMA SettledInvImplies == RecordTypeOK /\ SettledInv => AnswerIsSettled
BY DEF SettledInv, Expects, Clean, Says, Comes, AnswerIsSettled, At, RecordTypeOK

\* Entries in use stay in use.
UsedStays == \A k \in Slots : recRip[k] # NoRip => recRip'[k] # NoRip

LEMMA WayKept ==
  ASSUME RecordTypeOK, WayInv, UsedStays, NEW p \in Procs,
         \A q \in Procs \ {p} : look'[q] = look[q],
         LookWay(p)',
         \A i \in Slots : recRip'[i] # recRip[i] => UsedBefore(recRip'[i], i)
  PROVE  WayInv'
<1>1. ASSUME NEW r, NEW i, UsedBefore(r, i) PROVE UsedBefore(r, i)'
  <2>1. Before(r, i) \subseteq Slots /\ Before(r, i)' = Before(r, i)
    BY DEF Before, Home
  <2> QED BY <1>1, <2>1 DEF UsedBefore, UsedStays
<1>2. ASSUME NEW i \in Slots, NEW r, r = recRip'[i], r # NoRip PROVE UsedBefore(r, i)'
  BY <1>1, <1>2 DEF WayInv
<1>3. \A i \in Slots : recRip'[i] # NoRip => UsedBefore(recRip[i], i)'
  BY <1>2 DEF UsedBefore
<1>4. ASSUME NEW q \in Procs \ {p} PROVE LookWay(q)'
  <2> PICK l \in Lookups : look[q] = l
    BY DEF RecordTypeOK
  <2>1. look'[q] = l /\ LookWay(q)
    BY DEF WayInv
  <2>2. l.pc = "claim" => UsedBefore(l.rip, l.index)'
    BY <1>1, <2>1 DEF LookWay
  <2> QED BY <2>1, <2>2 DEF LookWay, UsedStays, UsedBefore
<1> QED BY <1>3, <1>4 DEF WayInv

LEMMA StartLookupWay ==
  ASSUME RecordTypeOK, WayInv, NEW p \in Procs, NEW r \in Rips, StartLookup(p, r)
  PROVE  WayInv'
<1>1. /\ look'[p].pc = "home" /\ look'[p].rip = r
      /\ look'[p].index = Home(r) /\ look'[p].count = 0
      /\ \A q \in Procs \ {p} : look'[q] = look[q]
      /\ recRip' = recRip
  BY DEF StartLookup, RecordTypeOK
<1>2. LookWay(p)'
  BY <1>1 DEF LookWay, Home
<1> QED BY <1>1, <1>2, WayKept DEF UsedStays

\* Where a step of a lookup that stores nothing leads.
LEMMA LookHomeMoves ==
  ASSUME RecordTypeOK, NEW p \in Procs, LookHome(p)
  PROVE  /\ look'[p].rip = look[p].rip /\ look'[p].index = look[p].index
         /\ look'[p].count = look[p].count
         /\ \A q \in Procs \ {p} : look'[q] = look[q]
         /\ \/ recRip[look[p].index] = NoRip /\ look'[p].pc = "claim"
            \/ recRip[look[p].index] = look[p].rip /\ look'[p].pc = "fetch"
            \/ recRip[look[p].index] \notin {look[p].rip, NoRip} /\ look'[p].pc = "find"
<1> DEFINE i == look[p].index
           l(pc) == [look[p] EXCEPT !.pc = pc]
<1>1. look[p] \in Lookups
  BY DEF RecordTypeOK
<1>2. \A pc : l(pc).pc = pc /\ l(pc).rip = look[p].rip /\ l(pc).index = i
              /\ l(pc).count = look[p].count
  BY <1>1 DEF Lookups
<1>3. \A pc : look' = [look EXCEPT ![p].pc = pc] =>
                 look'[p] = l(pc) /\ \A q \in Procs \ {p} : look'[q] = look[q]
  BY DEF RecordTypeOK
<1>4. /\ recRip[i] = NoRip => look' = [look EXCEPT ![p].pc = "claim"]
      /\ recRip[i] # NoRip /\ recRip[i] = look[p].rip => look' = [look EXCEPT ![p].pc = "fetch"]
      /\ recRip[i] \notin {look[p].rip, NoRip} => look' = [look EXCEPT ![p].pc = "find"]
  <2>1. look[p].rip # NoRip
    BY DEF LookHome, At, RecordTypeOK
  <2> QED BY <2>1 DEF LookHome, GoTo
<1> HIDE DEF i, l
<1>5. CASE recRip[i] = NoRip
  BY <1>2, <1>3, <1>4, <1>5 DEF i
<1>6. CASE recRip[i] # NoRip /\ recRip[i] = look[p].rip
  BY <1>2, <1>3, <1>4, <1>6 DEF i
<1>7. CASE recRip[i] \notin {look[p].rip, NoRip}
  BY <1>2, <1>3, <1>4, <1>7 DEF i
<1> QED BY <1>5, <1>6, <1>7

LEMMA NextTurnIs ==
  ASSUME NEW l \in Lookups
  PROVE  /\ NextTurn(l).pc = l.pc /\ NextTurn(l).rip = l.rip
         /\ NextTurn(l).index = NextSlot(l.index) /\ NextTurn(l).count = l.count + 1
BY DEF NextTurn, Lookups

LEMMA FindMovedMoves ==
  ASSUME RecordTypeOK, NEW p \in Procs, FindMoved(p)
  PROVE  /\ look[p].pc = "find" /\ look'[p].rip = look[p].rip
         /\ \A q \in Procs \ {p} : look'[q] = look[q]
         /\ \/ /\ look[p].count = RecordLen
               /\ look'[p].pc = "free" /\ look'[p].count = 0
               /\ look'[p].index = Home(look[p].rip)
            \/ /\ look[p].count # RecordLen /\ recRip[look[p].index] = look[p].rip
               /\ look'[p].pc = "fetch" /\ look'[p].index = look[p].index
            \/ /\ look[p].count # RecordLen /\ recRip[look[p].index] # look[p].rip
               /\ look'[p].pc = "find" /\ look'[p].count = look[p].count + 1
               /\ look'[p].index = NextSlot(look[p].index)
<1> DEFINE a == look[p]
           found == [a EXCEPT !.pc = "fetch"]
           gone == [a EXCEPT !.pc = "free", !.index = Home(a.rip), !.count = 0]
<1>1. a \in Lookups /\ a.pc = "find"
  BY DEF RecordTypeOK, FindMoved, At
<1>2. /\ found.pc = "fetch" /\ found.rip = a.rip /\ found.index = a.index
      /\ gone.pc = "free" /\ gone.rip = a.rip /\ gone.index = Home(a.rip) /\ gone.count = 0
  BY <1>1 DEF Lookups
<1>3. Probe(p, recRip[a.index] = a.rip, found, gone)
  BY DEF FindMoved
<1> HIDE DEF found, gone
<1>4. /\ look'[p] = IF a.count = RecordLen THEN gone
                    ELSE IF recRip[a.index] = a.rip THEN found ELSE NextTurn(a)
      /\ \A q \in Procs \ {p} : look'[q] = look[q]
  BY <1>3 DEF Probe, RecordTypeOK
<1> QED BY <1>1, <1>2, <1>4, NextTurnIs

LEMMA FindFreeMoves ==
  ASSUME RecordTypeOK, NEW p \in Procs, FindFree(p)
  PROVE  /\ look[p].pc = "free" /\ look'[p].rip = look[p].rip
         /\ \A q \in Procs \ {p} : look'[q] = look[q]
         /\ \/ /\ look[p].count = RecordLen \/ recRip[look[p].index] = NoRip
               /\ look'[p].pc = "claim" /\ look'[p].index = look[p].index
            \/ /\ look[p].count # RecordLen /\ recRip[look[p].index] # NoRip
               /\ look'[p].pc = "free" /\ look'[p].count = look[p].count + 1
               /\ look'[p].index = NextSlot(look[p].index)
<1> DEFINE a == look[p]
           found == [a EXCEPT !.pc = "claim"]
<1>1. a \in Lookups /\ a.pc = "free"
  BY DEF RecordTypeOK, FindFree, At
<1>2. found.pc = "claim" /\ found.rip = a.rip /\ found.index = a.index
  BY <1>1 DEF Lookups
<1>3. Probe(p, recRip[a.index] = NoRip, found, found)
  BY DEF FindFree
<1> HIDE DEF found
<1>4. /\ look'[p] = IF a.count = RecordLen THEN found
                    ELSE IF recRip[a.index] = NoRip THEN found ELSE NextTurn(a)
      /\ \A q \in Procs \ {p} : look'[q] = look[q]
  BY <1>3 DEF Probe, RecordTypeOK
<1> QED BY <1>1, <1>2, <1>4, NextTurnIs

LEMMA LookupData ==
  ASSUME RecordTypeOK, NEW p \in Procs, look[p].pc # "idle"
  PROVE  look[p].rip \in Rips /\ look[p].index \in Slots /\ look[p].count \in 0 .. RecordLen
BY DEF RecordTypeOK, Lookups

LEMMA LookHomeWay ==
  ASSUME RecordTypeOK, WayInv, NEW p \in Procs, LookHome(p)
  PROVE  WayInv'
<1> PICK r \in Rips : r = look[p].rip
  BY LookupData DEF LookHome, At
<1>1. look[p].index = Home(r) /\ look[p].count = 0 /\ recRip' = recRip
  BY DEF LookHome, At, WayInv, LookWay
<1>2. Home(r) \in Slots /\ Dist(r, Home(r)) = 0 /\ \A k \in Slots : ~(Dist(r, k) < 0)
  BY SlotsClosed, DistLaws, RecordAssumption
<1>3. Before(r, Home(r)) = {}
  BY <1>2, BeforeIs
<1>4. LookWay(p)'
  BY <1>1, <1>2, <1>3, LookHomeMoves, RecordAssumption DEF LookWay, UsedBefore
<1> QED BY <1>1, <1>4, LookHomeMoves, WayKept DEF UsedStays

LEMMA FindMovedWay ==
  ASSUME RecordTypeOK, WayInv, NEW p \in Procs, FindMoved(p)
  PROVE  WayInv'
<1> PICK l \in Lookups : look[p] = l
  BY DEF RecordTypeOK
<1>1. l.pc = "find" /\ l.rip \in Rips /\ l.index \in Slots /\ l.count \in 0 .. RecordLen
  BY LookupData DEF FindMoved, At
<1>2. Dist(l.rip, l.index) = IF l.count = RecordLen THEN 0 ELSE l.count
  BY <1>1 DEF WayInv, LookWay
<1>3. /\ Dist(l.rip, Home(l.rip)) = 0
      /\ \A k \in Slots : ~(Dist(l.rip, k) < 0)
      /\ Dist(l.rip, NextSlot(l.index)) =
           IF Dist(l.rip, l.index) = RecordLen - 1 THEN 0 ELSE Dist(l.rip, l.index) + 1
  BY <1>1, DistLaws
<1>4. recRip' = recRip
  BY DEF FindMoved
<1>5. LookWay(p)'
  <2>1. /\ look'[p].rip = l.rip
        /\ \/ /\ look'[p].pc = "free" /\ look'[p].count = 0
              /\ look'[p].index = Home(l.rip)
           \/ look'[p].pc = "fetch"
           \/ /\ l.count # RecordLen
              /\ look'[p].pc = "find" /\ look'[p].count = l.count + 1
              /\ look'[p].index = NextSlot(l.index)
    BY FindMovedMoves
  <2>2. CASE look'[p].pc = "free"
    BY <2>1, <2>2, <1>3, RecordAssumption DEF LookWay
  <2>3. CASE look'[p].pc = "fetch"
    BY <2>3 DEF LookWay
  <2>4. CASE look'[p].pc = "find"
    <3>1. Dist(l.rip, NextSlot(l.index)) =
            IF l.count + 1 = RecordLen THEN 0 ELSE l.count + 1
      BY <1>1, <1>2, <1>3, <2>1, <2>4, RecordAssumption
    <3> QED BY <2>1, <2>4, <3>1 DEF LookWay
  <2> QED BY <2>1, <2>2, <2>3, <2>4
<1> QED BY <1>4, <1>5, FindMovedMoves, WayKept DEF UsedStays

LEMMA FindFreeWay ==
  ASSUME RecordTypeOK, WayInv, NEW p \in Procs, FindFree(p)
  PROVE  WayInv'
<1> PICK l \in Lookups : look[p] = l
  BY DEF RecordTypeOK
<1>1. l.pc = "free" /\ l.rip \in Rips /\ l.index \in Slots /\ l.count \in 0 .. RecordLen
  BY LookupData DEF FindFree, At
<1>2. /\ Dist(l.rip, l.index) = IF l.count = RecordLen THEN 0 ELSE l.count
      /\ \A k \in Slots : Dist(l.rip, k) < l.count => recRip[k] # NoRip
  BY <1>1 DEF WayInv, LookWay
<1>3. /\ Dist(l.rip, NextSlot(l.index)) =
           IF Dist(l.rip, l.index) = RecordLen - 1 THEN 0 ELSE Dist(l.rip, l.index) + 1
      /\ \A k \in Slots : Dist(l.rip, k) \in 0 .. (RecordLen - 1)
      /\ \A k \in Slots : Dist(l.rip, k) = Dist(l.rip, l.index) => k = l.index
  BY <1>1, DistLaws
<1>4. recRip' = recRip
  BY DEF FindFree
<1>5. LookWay(p)'
  <2>1. /\ look'[p].rip = l.rip
        /\ \/ /\ l.count = RecordLen \/ recRip[l.index] = NoRip
              /\ look'[p].pc = "claim" /\ look'[p].index = l.index
           \/ /\ l.count # RecordLen /\ recRip[l.index] # NoRip
              /\ look'[p].pc = "free" /\ look'[p].count = l.count + 1
              /\ look'[p].index = NextSlot(l.index)
    BY FindFreeMoves
  <2>2. CASE look'[p].pc = "claim"
    <3>1. \A k \in Slots : Dist(l.rip, k) < Dist(l.rip, l.index) => recRip[k] # NoRip
      BY <1>1, <1>2, <1>3, RecordAssumption
    <3>2. UsedBefore(l.rip, l.index)
      BY <3>1, BeforeIs DEF UsedBefore
    <3> QED BY <2>1, <2>2, <3>2, <1>4 DEF LookWay, UsedBefore, Before, Home
  <2>3. CASE look'[p].pc = "free"
    <3>1. Dist(l.rip, NextSlot(l.index)) =
            IF l.count + 1 = RecordLen THEN 0 ELSE l.count + 1
      BY <1>1, <1>2, <1>3, <2>1, <2>3, RecordAssumption
    <3>2. ASSUME NEW k \in Slots, Dist(l.rip, k) < l.count + 1 PROVE recRip[k] # NoRip
      <4>1. l.count # RecordLen /\ Dist(l.rip, l.index) = l.count /\ recRip[l.index] # NoRip
        BY <1>2, <2>1, <2>3
      <4>2. Dist(l.rip, k) < l.count \/ Dist(l.rip, k) = Dist(l.rip, l.index)
        BY <1>1, <1>3, <3>2, <4>1, RecordAssumption
      <4> QED BY <1>2, <1>3, <4>1, <4>2
    <3> QED BY <2>1, <2>3, <3>1, <3>2, <1>4 DEF LookWay
  <2> QED BY <2>1, <2>2, <2>3
<1> QED BY <1>4, <1>5, FindFreeMoves, WayKept DEF UsedStays

LEMMA ClaimWay ==
  ASSUME RecordTypeOK, WayInv, NEW p \in Procs, Claim(p)
  PROVE  WayInv'
<1> PICK i \in Slots : look[p].index = i
  BY DEF RecordTypeOK, Lookups
<1> PICK r \in Rips : look[p].rip = r
  BY LookupData DEF Claim, At
<1>1. UsedBefore(r, i)
  BY DEF Claim, At, WayInv, LookWay
<1>2. recRip' = [recRip EXCEPT ![i] = r]
  BY DEF Claim
<1>3. UsedStays
  BY <1>2, RecordAssumption DEF UsedStays, RecordTypeOK
<1>4. \A j \in Slots : recRip'[j] # recRip[j] => j = i /\ recRip'[j] = r
  BY <1>2 DEF RecordTypeOK
<1>5. look'[p].pc = "decode" /\ \A q \in Procs \ {p} : look'[q] = look[q]
  BY DEF Claim, GoTo, RecordTypeOK, Lookups
<1>6. LookWay(p)'
  BY <1>5 DEF LookWay
<1> QED BY <1>1, <1>3, <1>4, <1>5, <1>6, WayKept

LEMMA DecodeFetchWay ==
  ASSUME RecordTypeOK, WayInv, NEW p \in Procs, Decode(p) \/ Fetch(p)
  PROVE  WayInv'
<1>1. /\ look'[p].pc \in {"fetch", "idle"}
      /\ \A q \in Procs \ {p} : look'[q] = look[q]
      /\ recRip' = recRip
  <2>1. CASE Decode(p)
    BY <2>1 DEF Decode, GoTo, RecordTypeOK, Lookups
  <2>2. CASE Fetch(p)
    BY <2>2 DEF Fetch, RecordTypeOK, NoLookup
  <2> QED BY <2>1, <2>2
<1>2. LookWay(p)'
  BY <1>1 DEF LookWay
<1> QED BY <1>1, <1>2, WayKept DEF UsedStays

LEMMA WayStep ==
  ASSUME RecordTypeOK, WayInv, [RecordNext]_recordVars
  PROVE  WayInv'
<1>1. CASE RecordNext
  BY <1>1, StartLookupWay, LookHomeWay, FindMovedWay, FindFreeWay, ClaimWay,
     DecodeFetchWay DEF RecordNext, LookupStep
<1>2. CASE UNCHANGED recordVars
  BY <1>2 DEF recordVars, WayInv, LookWay, UsedBefore, Before, Dist, Home
<1> QED BY <1>1, <1>2

\* What the table says of an instruction, while a processor does something
\* else than fill in its entry and nothing is stored.
LEMMA SaysKept ==
  ASSUME NEW p \in Procs, \A q \in Procs \ {p} : look'[q] = look[q],
         recRip' = recRip, recReg' = recReg, look'[p].pc # "decode",
         NEW r, NEW i, NEW reg, Says(r, i, reg)
  PROVE  Says(r, i, reg)'
BY DEF Says, Before, Home

\* A step of processor p that stores nothing, for everybody else.
LEMMA OthersKept ==
  ASSUME NEW p \in Procs, \A q \in Procs \ {p} : look'[q] = look[q],
         UNCHANGED <<recRip, recReg, twice>>, look'[p].pc # "decode",
         NEW q \in Procs \ {p}, NEW i, NEW reg, Expects(q, i, reg)
  PROVE  Expects(q, i, reg)'
<1>1. look'[q] = look[q]
  OBVIOUS
<1>2. Clean(look[q].rip, i)' <=> Clean(look[q].rip, i)
  BY <1>1 DEF Clean, Before, Home
<1>3. Comes(look[q], i)' <=> Comes(look[q], i)
  BY <1>1 DEF Comes, Dist, Home
<1>4. Says(look[q].rip, i, reg) => Says(look[q].rip, i, reg)'
  BY <1>1 DEF Says, Before, Home
<1> QED BY <1>2, <1>3, <1>4 DEF Expects

LEMMA ExpectedType ==
  ASSUME RecordTypeOK
  PROVE  \A p \in Procs : \A e \in expected[p] : e[1] \in Slots
BY DEF RecordTypeOK

\* A step that stores nothing changes no promise but that to processor p.
LEMMA SettledQuiet ==
  ASSUME RecordTypeOK, SettledInv, NEW p \in Procs,
         \A q \in Procs \ {p} : look'[q] = look[q] /\ expected'[q] = expected[q],
         UNCHANGED <<recRip, recReg, twice>>, look'[p].pc # "decode",
         \A e \in expected'[p] : Expects(p, e[1], e[2])'
  PROVE  SettledInv'
<1>1. ASSUME NEW q \in Procs \ {p}, NEW e \in expected'[q] PROVE Expects(q, e[1], e[2])'
  <2>1. e \in expected[q] /\ Expects(q, e[1], e[2])
    BY DEF SettledInv
  <2> QED BY <2>1, OthersKept
<1> QED BY <1>1 DEF SettledInv

\* A step of a lookup that stores nothing keeps the promise to it if it does
\* not go past the entry.
LEMMA SettledLooks ==
  ASSUME RecordTypeOK, SettledInv, NEW p \in Procs,
         \A q \in Procs \ {p} : look'[q] = look[q],
         UNCHANGED <<recRip, recReg, expected, twice>>,
         look'[p].rip = look[p].rip, look'[p].pc # "decode",
         \A i \in Slots : \A reg :
           Says(look[p].rip, i, reg) /\ Comes(look[p], i) => Comes(look[p], i)'
  PROVE  SettledInv'
<1>1. ASSUME NEW e \in expected[p] PROVE Expects(p, e[1], e[2])'
  <2> PICK r : look[p].rip = r
    OBVIOUS
  <2>1. e[1] \in Slots /\ Expects(p, e[1], e[2])
    BY ExpectedType DEF SettledInv
  <2>2. Clean(r, e[1])' <=> Clean(r, e[1])
    BY DEF Clean, Before, Home
  <2>3. Says(r, e[1], e[2]) => Says(r, e[1], e[2])'
    BY SaysKept
  <2>4. look'[p].rip = r
    OBVIOUS
  <2> QED BY <2>1, <2>2, <2>3, <2>4 DEF Expects
<1> QED BY <1>1, SettledQuiet

\* What is settled now is said, and stays so.
LEMMA SettledIsSaid ==
  ASSUME RecordTypeOK, WayInv, NEW r \in Rips, NEW e \in Settled(r)
  PROVE  Says(r, e[1], e[2])
<1>1. PICK j \in Slots : /\ e = <<j, recReg[j]>> /\ recRip[j] = r
                         /\ \A k \in Before(r, j) : recRip[k] # r
                         /\ \A q \in Procs : ~(look[q].pc = "decode" /\ look[q].index = j)
  BY DEF Settled
<1>2. UsedBefore(r, j)
  BY <1>1, RecordAssumption DEF WayInv
<1>3. e[1] = j /\ e[2] = recReg[j]
  BY <1>1
<1> QED BY <1>1, <1>2, <1>3 DEF Says, UsedBefore

LEMMA StartLookupSettled ==
  ASSUME RecordTypeOK, WayInv, SettledInv, NEW p \in Procs, NEW r \in Rips, StartLookup(p, r)
  PROVE  SettledInv'
<1>1. /\ look'[p].pc = "home" /\ look'[p].rip = r
      /\ \A q \in Procs \ {p} : look'[q] = look[q] /\ expected'[q] = expected[q]
      /\ expected'[p] = Settled(r)
      /\ recRip' = recRip /\ recReg' = recReg /\ twice' = twice
  BY DEF StartLookup, RecordTypeOK
<1>2. ASSUME NEW e \in expected'[p] PROVE Expects(p, e[1], e[2])'
  <2>1. Says(r, e[1], e[2])'
    BY <1>1, SettledIsSaid, SaysKept
  <2>2. Comes(look[p], e[1])'
    BY <1>1 DEF Comes
  <2> QED BY <1>1, <2>1, <2>2 DEF Expects
<1> QED BY <1>1, <1>2, SettledQuiet

\* On its way to the entry a lookup meets entries of others only, and the entry
\* itself.
LEMMA OnTheWay ==
  ASSUME NEW r \in Rips, NEW i \in Slots, NEW j \in Slots, NEW reg, Says(r, i, reg),
         Dist(r, j) <= Dist(r, i)
  PROVE  /\ recRip[j] # NoRip
         /\ recRip[j] = r => j = i
         /\ recRip[j] # r => Dist(r, j) < Dist(r, i)
<1>1. /\ Dist(r, i) \in 0 .. (RecordLen - 1) /\ Dist(r, j) \in 0 .. (RecordLen - 1)
      /\ Dist(r, i) = Dist(r, j) => i = j
  BY DistLaws
<1>2. CASE i = j
  BY <1>2, RecordAssumption DEF Says
<1>3. CASE i # j
  <2>1. Dist(r, j) < Dist(r, i)
    BY <1>1, <1>3, RecordAssumption
  <2>2. j \in Before(r, i)
    BY <2>1, BeforeIs
  <2> QED BY <2>1, <2>2, <1>3 DEF Says
<1> QED BY <1>2, <1>3

LEMMA LookHomeSettled ==
  ASSUME RecordTypeOK, WayInv, SettledInv, NEW p \in Procs, LookHome(p)
  PROVE  SettledInv'
<1> PICK r \in Rips : look[p].rip = r
  BY LookupData DEF LookHome, At
<1>1. look[p].index = Home(r) /\ look[p].count = 0
  BY DEF LookHome, At, WayInv, LookWay
<1>2. look'[p].rip = r /\ look'[p].index = Home(r) /\ look'[p].count = 0
  BY <1>1, LookHomeMoves
<1>3. ASSUME NEW i \in Slots, NEW reg, Says(look[p].rip, i, reg), Comes(look[p], i)
      PROVE  Comes(look[p], i)'
  <2>1. Home(r) \in Slots /\ Dist(r, Home(r)) = 0 /\ Dist(r, i) \in 0 .. (RecordLen - 1)
    BY SlotsClosed, DistLaws
  <2>2. Dist(r, Home(r)) <= Dist(r, i)
    BY <2>1, RecordAssumption
  <2>3. Says(r, i, reg)
    BY <1>3
  <2>4. recRip[Home(r)] # NoRip /\ (recRip[Home(r)] = r => Home(r) = i)
    BY <2>1, <2>2, <2>3, OnTheWay
  <2>5. \/ look'[p].pc = "find"
        \/ look'[p].pc = "fetch" /\ Home(r) = i
    BY <1>1, <2>4, LookHomeMoves
  <2>6. Dist(r, i)' = Dist(r, i)
    BY DEF Dist, Home
  <2>7. 0 <= Dist(r, i)
    BY <2>1, RecordAssumption
  <2> QED BY <1>2, <2>5, <2>6, <2>7 DEF Comes
<1>4. look'[p].pc # "decode"
  BY LookHomeMoves
<1>5. UNCHANGED <<recRip, recReg, expected, twice>>
  BY DEF LookHome
<1> QED BY <1>2, <1>3, <1>4, <1>5, LookHomeMoves, SettledLooks

LEMMA FindMovedSettled ==
  ASSUME RecordTypeOK, WayInv, SettledInv, NEW p \in Procs, FindMoved(p)
  PROVE  SettledInv'
<1> PICK l \in Lookups : look[p] = l
  BY DEF RecordTypeOK
<1>1. l.pc = "find" /\ l.rip \in Rips /\ l.index \in Slots /\ l.count \in 0 .. RecordLen
  BY LookupData DEF FindMoved, At
<1>2. Dist(l.rip, l.index) = IF l.count = RecordLen THEN 0 ELSE l.count
  BY <1>1 DEF WayInv, LookWay
<1>3. /\ look'[p].rip = l.rip /\ look'[p].pc # "decode"
      /\ \A q \in Procs \ {p} : look'[q] = look[q]
      /\ \/ l.count = RecordLen
         \/ /\ l.count # RecordLen /\ recRip[l.index] = l.rip
            /\ look'[p].pc = "fetch" /\ look'[p].index = l.index
         \/ /\ l.count # RecordLen /\ recRip[l.index] # l.rip
            /\ look'[p].pc = "find" /\ look'[p].count = l.count + 1
  BY FindMovedMoves
<1>4. ASSUME NEW i \in Slots, NEW reg, Says(l.rip, i, reg), Comes(l, i)
      PROVE  Comes(look[p], i)'
  <2>1. l.count <= Dist(l.rip, i) /\ Dist(l.rip, i) \in 0 .. (RecordLen - 1)
    BY <1>1, <1>4, DistLaws DEF Comes
  <2>2. l.count # RecordLen /\ Dist(l.rip, l.index) = l.count
    BY <1>1, <1>2, <2>1, RecordAssumption
  <2>3. /\ recRip[l.index] = l.rip => l.index = i
        /\ recRip[l.index] # l.rip => l.count < Dist(l.rip, i)
    BY <1>1, <1>4, <2>1, <2>2, OnTheWay
  <2>4. recRip[l.index] # l.rip => l.count + 1 <= Dist(l.rip, i)
    BY <1>1, <2>1, <2>3, RecordAssumption
  <2>5. Dist(l.rip, i)' = Dist(l.rip, i)
    BY DEF Dist, Home
  <2> QED BY <1>3, <2>2, <2>3, <2>4, <2>5 DEF Comes
<1>5. UNCHANGED <<recRip, recReg, expected, twice>>
  BY DEF FindMoved
<1> QED BY <1>3, <1>4, <1>5, SettledLooks

\* Past the search for its entry, a lookup was promised nothing that holds.
LEMMA FindFreeSettled ==
  ASSUME RecordTypeOK, WayInv, SettledInv, NEW p \in Procs, FindFree(p)
  PROVE  SettledInv'
<1>1. UNCHANGED <<recRip, recReg, expected, twice>>
  BY DEF FindFree
<1>2. \A i : ~Comes(look[p], i)
  BY DEF FindFree, At, Comes
<1>3. look'[p].pc # "decode"
  BY FindFreeMoves
<1> QED BY <1>1, <1>2, <1>3, FindFreeMoves, SettledLooks

\* Whoever takes an entry that is not free marks it, and a promise is about
\* entries that are not.
LEMMA ClaimSettled ==
  ASSUME RecordTypeOK, SettledInv, NEW p \in Procs, Claim(p)
  PROVE  SettledInv'
<1> PICK j \in Slots : look[p].index = j
  BY DEF RecordTypeOK, Lookups
<1> PICK m \in Rips : look[p].rip = m
  BY LookupData DEF Claim, At
<1>1. /\ recRip' = [recRip EXCEPT ![j] = m]
      /\ recReg' = recReg /\ expected' = expected
      /\ twice \subseteq twice'
      /\ recRip[j] # NoRip => j \in twice'
  BY DEF Claim
<1>2. /\ look'[p].rip = m /\ look'[p].index = j /\ look[p].pc = "claim"
      /\ \A q \in Procs \ {p} : look'[q] = look[q]
  BY DEF Claim, At, GoTo, RecordTypeOK, Lookups
<1>3. ASSUME NEW r, NEW i \in Slots, Clean(r, i)' PROVE Clean(r, i)
  <2>1. Before(r, i)' = Before(r, i)
    BY DEF Before, Home
  <2> QED BY <1>1, <1>3, <2>1 DEF Clean
<1>4. ASSUME NEW r \in Rips, NEW i \in Slots, NEW reg, Says(r, i, reg), Clean(r, i)'
      PROVE  Says(r, i, reg)'
  <2>1. Before(r, i)' = Before(r, i) /\ Before(r, i) \subseteq Slots
    BY DEF Before, Home
  <2>2. recRip[j] # NoRip => j # i /\ j \notin Before(r, i)
    BY <1>1, <1>4, <2>1 DEF Clean
  <2>3. recRip[i] # NoRip /\ \A k \in Before(r, i) : recRip[k] # NoRip
    BY <1>4, RecordAssumption DEF Says
  <2>4. j # i /\ j \notin Before(r, i)
    BY <2>2, <2>3
  <2> QED BY <1>1, <1>2, <1>4, <2>1, <2>4 DEF Says, RecordTypeOK
<1>5. ASSUME NEW q \in Procs, NEW e \in expected'[q] PROVE Expects(q, e[1], e[2])'
  <2> PICK l \in Lookups : look[q] = l
    BY DEF RecordTypeOK
  <2>1. e[1] \in Slots /\ Expects(q, e[1], e[2])
    BY <1>1, ExpectedType DEF SettledInv
  <2>2. look'[q].rip = l.rip /\ (l.pc # "idle" => l.rip \in Rips)
    BY <1>2, LookupData
  <2>3. ASSUME Clean(l.rip, e[1])'
        PROVE  /\ l.pc \in {"home", "find", "fetch"} /\ Comes(l, e[1])
               /\ Says(l.rip, e[1], e[2])'
    <3>1. Says(l.rip, e[1], e[2]) /\ Comes(l, e[1])
      BY <1>3, <2>1, <2>3 DEF Expects
    <3>2. l.pc \in {"home", "find", "fetch"}
      BY <3>1 DEF Comes
    <3> QED BY <1>4, <2>1, <2>2, <2>3, <3>1, <3>2
  <2>4. Comes(l, e[1])' <=> Comes(l, e[1])
    BY DEF Comes, Dist, Home
  <2>5. l.pc \in {"home", "find", "fetch"} => look'[q] = l
    BY <1>2
  <2> QED BY <2>2, <2>3, <2>4, <2>5 DEF Expects
<1> QED BY <1>5 DEF SettledInv

\* The register filled in is that of an entry about which nothing was promised.
LEMMA DecodeSettled ==
  ASSUME RecordTypeOK, SettledInv, NEW p \in Procs, Decode(p)
  PROVE  SettledInv'
<1> PICK j \in Slots : look[p].index = j
  BY DEF RecordTypeOK, Lookups
<1>1. PICK reg : recReg' = [recReg EXCEPT ![j] = reg]
  BY DEF Decode
<1>2. recRip' = recRip /\ expected' = expected /\ twice' = twice
  BY DEF Decode
<1>3. /\ look'[p].rip = look[p].rip /\ look'[p].pc = "fetch" /\ look[p].pc = "decode"
      /\ \A q \in Procs \ {p} : look'[q] = look[q]
  BY DEF Decode, At, GoTo, RecordTypeOK, Lookups
<1>4. ASSUME NEW q \in Procs, NEW e \in expected'[q] PROVE Expects(q, e[1], e[2])'
  <2> PICK l \in Lookups : look[q] = l
    BY DEF RecordTypeOK
  <2>1. e[1] \in Slots /\ Expects(q, e[1], e[2])
    BY <1>2, ExpectedType DEF SettledInv
  <2>2. look'[q].rip = l.rip
    BY <1>3
  <2>3. Clean(l.rip, e[1])' <=> Clean(l.rip, e[1])
    BY <1>2 DEF Clean, Before, Home
  <2>4. ASSUME Says(l.rip, e[1], e[2]) PROVE Says(l.rip, e[1], e[2])'
    <3>1. e[1] # j
      BY <1>3, <2>4 DEF Says
    <3>2. Before(l.rip, e[1])' = Before(l.rip, e[1])
      BY DEF Before, Home
    <3> QED BY <1>1, <1>2, <1>3, <2>1, <2>4, <3>1, <3>2 DEF Says, RecordTypeOK
  <2>5. Comes(l, e[1]) => look'[q] = l
    BY <1>3 DEF Comes
  <2>6. Comes(l, e[1])' <=> Comes(l, e[1])
    BY DEF Comes, Dist, Home
  <2> QED BY <2>1, <2>2, <2>3, <2>4, <2>5, <2>6 DEF Expects
<1> QED BY <1>4 DEF SettledInv

LEMMA FetchSettled ==
  ASSUME RecordTypeOK, SettledInv, NEW p \in Procs, Fetch(p)
  PROVE  SettledInv'
<1>1. /\ look'[p].pc = "idle" /\ expected'[p] = {}
      /\ \A q \in Procs \ {p} : look'[q] = look[q] /\ expected'[q] = expected[q]
      /\ UNCHANGED <<recRip, recReg, twice>>
  BY DEF Fetch, RecordTypeOK, NoLookup
<1> QED BY <1>1, SettledQuiet

LEMMA SettledStep ==
  ASSUME RecordTypeOK, WayInv, SettledInv, [RecordNext]_recordVars
  PROVE  SettledInv'
<1>1. CASE RecordNext
  BY <1>1, StartLookupSettled, LookHomeSettled, FindMovedSettled, FindFreeSettled,
     ClaimSettled, DecodeSettled, FetchSettled DEF RecordNext, LookupStep
<1>2. CASE UNCHANGED recordVars
  BY <1>2 DEF recordVars, SettledInv, Expects, Clean, Says, Comes, Before, Dist, Home
<1> QED BY <1>1, <1>2

LEMMA RecordAnswerIsSettled == RecordSpec => []AnswerIsSettled
<1>1. RecordInit => RecordTypeOK /\ WayInv /\ SettledInv
  BY RecordTypeInit, SettledInvInit
<1>2. RecordTypeOK /\ WayInv /\ SettledInv /\ [RecordNext]_recordVars
        => RecordTypeOK' /\ WayInv' /\ SettledInv'
  BY RecordTypeStep, WayStep, SettledStep
<1>3. RecordTypeOK /\ SettledInv => AnswerIsSettled
  BY SettledInvImplies
<1> QED BY <1>1, <1>2, <1>3, PTL DEF RecordSpec
-----------------------------------------------------------------------------
(* The composition.                                                        *)

\* Whatever the handlers do, the table is used as FuzzRecord says.
LEMMA SpecUsesRecord == Spec => RecordSpec
<1>1. Init => RecordInit
  BY DEF Init
<1>2. [Next]_vars => [RecordNext]_recordVars
  <2>1. ASSUME NEW p \in Procs, MmioRead(p) PROVE RecordNext
    BY <2>1 DEF MmioRead, RecordNext
  <2>2. ASSUME NEW p \in Procs, Lookup(p) PROVE RecordNext
    BY <2>2 DEF Lookup, RecordNext
  <2>3. ASSUME NEW p \in Procs,
               MonitorCall(p) \/ NextBar(p) \/ OtherExit(p) \/ Config(p) \/ EndOfScope(p)
               \/ Count(p) \/ ReturnToGuest(p) \/ Hal(p)
        PROVE  UNCHANGED recordVars
    BY <2>3 DEF MonitorCall, NextBar, OtherExit, Config, EndOfScope, Count, ReturnToGuest, Hal
  <2>4. UNCHANGED vars => UNCHANGED recordVars
    BY DEF vars
  <2> QED BY <2>1, <2>2, <2>3, <2>4 DEF Next
<1> QED BY <1>1, <1>2, PTL DEF Spec, RecordSpec

\* What StartFuzz is given is what the instruction loads, or nothing, unless
\* the entry was taken twice: for any number of processors, any instructions
\* and any length of the table.
THEOREM AnswerFitsHolds == Spec => []AnswerFits
BY SpecUsesRecord, RecordAnswerFits, PTL

\* What one handler has found out all later ones use, for any number of
\* processors, any instructions and any length of the table: nothing a lookup
\* without a lock does undoes what is settled, unless an entry is taken twice.
THEOREM AnswerIsSettledHolds == Spec => []AnswerIsSettled
BY SpecUsesRecord, RecordAnswerIsSettled, PTL

\* Every lookup ends, however full the table and whatever the others store.
THEOREM LookupsAdvanceHolds == Spec => LookupsAdvance
BY SpecUsesRecord, RecordLookupsAdvance, PTL
-----------------------------------------------------------------------------
(* PciConfigPort.                                                          *)

\* A low digit drops out of a quotient and is what remains.
LEMMA Quotient ==
  ASSUME NEW n \in Nat \ {0}, NEW high \in Nat, NEW low \in Nat, low < n
  PROVE  (high * n + low) \div n = high
OBVIOUS

LEMMA Remainder ==
  ASSUME NEW n \in Nat \ {0}, NEW high \in Nat, NEW low \in Nat, low < n
  PROVE  (high * n + low) % n = low
OBVIOUS

\* The code's shifts and ORs can be undone: an address and a port name one
\* register.
LEMMA SelectedIsNamed ==
  ASSUME NEW r \in Locatable
  PROVE  /\ ConfigAddress(r) \in Nat
         /\ Selected(ConfigAddress(r), DataPort(r)) = r
<1>1. PICK bus \in 0 .. 255, dev \in 0 .. 31, fun \in 0 .. 7, off \in 0 .. 255 :
        r = [bus |-> bus, dev |-> dev, fun |-> fun, off |-> off]
  BY DEF Locatable
<1> DEFINE a == ConfigAddress(r)
           byte == off % 4
           dword == off - byte
<1>2. dword \in 0 .. 255 /\ byte \in 0 .. 3 /\ dword + byte = off
  OBVIOUS
<1>3. a = bus * 65536 + dev * 2048 + fun * 256 + dword
  BY <1>1 DEF ConfigAddress
<1>4. DataPort(r) - 3324 = byte
  BY <1>1, <1>2 DEF DataPort
<1> HIDE DEF a, dword, byte
<1>5. /\ a \in Nat
      /\ a \div 65536 = bus /\ (a \div 2048) % 32 = dev
      /\ (a \div 256) % 8 = fun /\ a % 256 = dword
  <2> dword \in 0 .. 255
    BY <1>2
  <2>1. a \div 65536 = bus
    <3> DEFINE low == dev * 2048 + fun * 256 + dword
    <3>1. a = bus * 65536 + low /\ low \in Nat /\ low < 65536
      BY <1>3
    <3> HIDE DEF low
    <3> QED BY <3>1, Quotient
  <2>2. (a \div 2048) % 32 = dev
    <3> DEFINE low == fun * 256 + dword
               high == bus * 32 + dev
    <3>1. a = high * 2048 + low /\ low \in Nat /\ low < 2048 /\ high \in Nat
      BY <1>3
    <3>2. high % 32 = dev
      BY Remainder
    <3> HIDE DEF low, high
    <3>3. a \div 2048 = high
      BY <3>1, Quotient
    <3> QED BY <3>2, <3>3
  <2>3. (a \div 256) % 8 = fun /\ a % 256 = dword
    <3> DEFINE high == (bus * 32 + dev) * 8 + fun
    <3>1. a = high * 256 + dword /\ dword < 256 /\ high \in Nat
      BY <1>3
    <3>2. high % 8 = fun
      <4>1. bus * 32 + dev \in Nat
        OBVIOUS
      <4> QED BY <4>1, Remainder
    <3> HIDE DEF high
    <3>3. a \div 256 = high /\ a % 256 = dword
      BY <3>1, Quotient, Remainder
    <3> QED BY <3>2, <3>3
  <2>4. a \in Nat
    BY <1>3
  <2> QED BY <2>1, <2>2, <2>3, <2>4
<1>6. Selected(a, DataPort(r)) = [bus |-> bus, dev |-> dev, fun |-> fun, off |-> off]
  BY <1>2, <1>4, <1>5 DEF Selected
<1> QED BY <1>1, <1>5, <1>6 DEF a

\* An access that another processor has not crossed finds its own address, and
\* while the handler is between its two instructions interrupts are disabled.
PortInv ==
  /\ PortTypeOK
  /\ \A p \in Procs : vmm[p].pc = "data" => ~flag[p]
  /\ \A c \in Contexts \ crossed :
       Pending(c) # None => latch = ConfigAddress(Pending(c))

\* The register a context is about to reach is one of the machine's.
LEMMA PendingType ==
  ASSUME PortTypeOK, NEW c \in Contexts
  PROVE  Pending(c) \in Registers \union {None}
<1>1. c[1] \in Procs
  BY DEF Contexts
<1>2. CASE c[2] = "hal"
  BY <1>1, <1>2 DEF Pending, PortTypeOK
<1>3. CASE c[2] # "hal" /\ vmm[c[1]].pc = "data"
  <2>1. vmm[c[1]].left \in Seq(Registers) /\ vmm[c[1]].left # <<>>
    BY <1>1, <1>3 DEF PortTypeOK
  <2>2. Head(vmm[c[1]].left) \in Registers
    BY <2>1
  <2> QED BY <1>3, <2>2 DEF Pending
<1>4. CASE c[2] # "hal" /\ vmm[c[1]].pc # "data"
  BY <1>4 DEF Pending
<1> QED BY <1>2, <1>3, <1>4

LEMMA PortInvImplies == PortInv => ConfigGoesWhereNamed
<1> SUFFICES ASSUME PortInv, NEW c \in Contexts, Pending(c) # None, c \notin crossed
             PROVE  Selected(latch, DataPort(Pending(c))) = Pending(c)
  BY DEF ConfigGoesWhereNamed
<1>1. Pending(c) \in Locatable
  BY PendingType, PortsAssumption DEF PortInv
<1>2. latch = ConfigAddress(Pending(c))
  BY DEF PortInv
<1> QED BY <1>1, <1>2, SelectedIsNamed

LEMMA PortInvInit == PortInit => PortInv
<1> SUFFICES ASSUME PortInit PROVE PortInv
  OBVIOUS
<1>1. PortTypeOK
  BY DEF PortInit, PortTypeOK, NoAccess
<1>2. \A c \in Contexts : Pending(c) = None
  BY DEF PortInit, Pending, Contexts, NoAccess
<1>3. \A p \in Procs : vmm[p].pc # "data"
  BY DEF PortInit, NoAccess
<1> QED BY <1>1, <1>2, <1>3 DEF PortInv

LEMMA StartConfigInv ==
  ASSUME PortInv, NEW p \in Procs, NEW registers \in Seq(Registers),
         NEW first \in BOOLEAN, StartConfig(p, registers, first)
  PROVE  PortInv'
<1>1. PortTypeOK'
  BY DEF StartConfig, PortInv, PortTypeOK
<1>2. vmm' = [vmm EXCEPT ![p] = [pc |-> "ready", left |-> registers]]
      /\ vmm[p].pc = "idle"
  BY DEF StartConfig
<1>3. \A c \in Contexts : Pending(c)' = Pending(c)
  BY <1>2 DEF Pending, Contexts, PortInv, PortTypeOK, StartConfig
<1>4. \A q \in Procs : vmm'[q].pc = "data" => ~flag'[q]
  BY <1>2 DEF StartConfig, PortInv, PortTypeOK
<1> QED BY <1>1, <1>3, <1>4 DEF PortInv, StartConfig

\* Writing the address port crosses whoever else is between its two accesses
\* on another processor; on this one nobody is.
LEMMA PutAddressInv ==
  ASSUME PortInv, NEW p \in Procs, NEW r \in Registers,
         NEW c \in {<<p, "vmm">>, <<p, "hal">>},
         PutAddress(p, c, r), PortTypeOK',
         Pending(c)' = r,
         \A d \in Contexts : d # c => Pending(d)' = Pending(d),
         \A d \in Contexts : d # c /\ d[1] = p => Pending(d) = None,
         \A q \in Procs : vmm'[q].pc = "data" => ~flag'[q]
  PROVE  PortInv'
<1>1. latch' = ConfigAddress(r)
  BY DEF PutAddress
<1>2. ASSUME NEW d \in Contexts, d \notin crossed', Pending(d)' # None
      PROVE  latch' = ConfigAddress(Pending(d)')
  <2>1. d = c
    BY <1>2 DEF PutAddress
  <2> QED BY <1>1, <2>1
<1> QED BY <1>2 DEF PortInv

LEMMA OutAddressInv ==
  ASSUME PortInv, NEW p \in Procs, OutAddress(p)
  PROVE  PortInv'
<1> DEFINE r == Head(vmm[p].left)
<1>1. /\ vmm[p].pc = "ready" /\ hal[p] = None
      /\ vmm' = [vmm EXCEPT ![p].pc = "data"]
      /\ flag' = [flag EXCEPT ![p] = FALSE]
      /\ hal' = hal
      /\ PutAddress(p, <<p, "vmm">>, r)
  BY DEF OutAddress
<1>2. vmm[p].left \in Seq(Registers) /\ vmm[p].left # <<>>
  BY <1>1 DEF PortInv, PortTypeOK
<1>3. r \in Registers
  BY <1>2
<1>4. vmm'[p].pc = "data" /\ vmm'[p].left = vmm[p].left
  BY <1>1 DEF PortInv, PortTypeOK
<1>5. ConfigAddress(r) \in Nat
  BY <1>3, PortsAssumption, SelectedIsNamed
<1>6. PortTypeOK'
  <2>1. latch' \in Nat /\ crossed' \subseteq Contexts
    BY <1>1, <1>5 DEF PutAddress, PortInv, PortTypeOK
  <2>2. vmm' \in [Procs -> [pc : {"idle", "ready", "data"}, left : Seq(Registers)]]
    BY <1>1 DEF PortInv, PortTypeOK
  <2>3. \A q \in Procs : vmm'[q].pc = "idle" \/ vmm'[q].left # <<>>
    BY <1>1, <1>2, <1>4 DEF PortInv, PortTypeOK
  <2> QED BY <1>1, <2>1, <2>2, <2>3 DEF PortInv, PortTypeOK
<1>7. Pending(<<p, "vmm">>)' = r
  BY <1>4 DEF Pending
<1>8. \A d \in Contexts : d # <<p, "vmm">> => Pending(d)' = Pending(d)
  BY <1>1 DEF Pending, Contexts, PortInv, PortTypeOK
<1>9. \A d \in Contexts : d # <<p, "vmm">> /\ d[1] = p => Pending(d) = None
  BY <1>1 DEF Pending, Contexts
<1>10. \A q \in Procs : vmm'[q].pc = "data" => ~flag'[q]
  BY <1>1 DEF PortInv, PortTypeOK
<1> HIDE DEF r
<1> QED BY <1>1, <1>3, <1>6, <1>7, <1>8, <1>9, <1>10, PutAddressInv

LEMMA HalOutAddressInv ==
  ASSUME PortInv, NEW p \in Procs, HalOutAddress(p)
  PROVE  PortInv'
<1>1. PICK r \in Registers : /\ PutAddress(p, <<p, "hal">>, r)
                            /\ hal' = [hal EXCEPT ![p] = r]
  BY DEF HalOutAddress
<1>2. flag[p] /\ vmm' = vmm /\ flag' = flag
  BY DEF HalOutAddress
<1>3. ConfigAddress(r) \in Nat
  BY PortsAssumption, SelectedIsNamed
<1>4. PortTypeOK'
  BY <1>1, <1>2, <1>3 DEF PutAddress, PortInv, PortTypeOK, Contexts
<1>5. Pending(<<p, "hal">>)' = r
  BY <1>1 DEF Pending, PortInv, PortTypeOK
<1>6. \A d \in Contexts : d # <<p, "hal">> => Pending(d)' = Pending(d)
  BY <1>1, <1>2 DEF Pending, Contexts, PortInv, PortTypeOK
<1>7. \A d \in Contexts : d # <<p, "hal">> /\ d[1] = p => Pending(d) = None
  <2>1. vmm[p].pc # "data"
    BY <1>2 DEF PortInv
  <2> QED BY <2>1 DEF Pending, Contexts
<1>8. \A q \in Procs : vmm'[q].pc = "data" => ~flag'[q]
  BY <1>2 DEF PortInv
<1> QED BY <1>1, <1>4, <1>5, <1>6, <1>7, <1>8, PutAddressInv

\* The second instruction: the context has no address in the port any more.
LEMMA AccessDataInv ==
  ASSUME PortInv, NEW p \in Procs, AccessData(p)
  PROVE  PortInv'
<1> DEFINE l == vmm[p].left
           v == IF Len(l) = 1 THEN NoAccess ELSE [pc |-> "ready", left |-> Tail(l)]
<1>1. l \in Seq(Registers) /\ l # <<>>
  BY DEF AccessData, PortInv, PortTypeOK
<1>2. vmm' = [vmm EXCEPT ![p] = v]
  BY DEF AccessData
<1>3. /\ v \in [pc : {"idle", "ready", "data"}, left : Seq(Registers)]
      /\ v.pc # "data"
      /\ v.pc = "idle" \/ v.left # <<>>
  <2>1. CASE Len(l) = 1
    BY <2>1 DEF NoAccess
  <2>2. CASE Len(l) # 1
    <3>1. Tail(l) \in Seq(Registers) /\ Len(Tail(l)) = Len(l) - 1
      BY <1>1, <2>2
    <3>2. Len(l) \in Nat \ {0}
      BY <1>1
    <3>3. Len(Tail(l)) # 0 /\ Len(<<>>) = 0
      BY <3>1, <3>2, <2>2
    <3>4. Tail(l) # <<>>
      BY <3>3, Zenon
    <3> QED BY <2>2, <3>1, <3>4
  <2> QED BY <2>1, <2>2
<1> HIDE DEF v, l
<1>4. PortTypeOK'
  BY <1>2, <1>3 DEF AccessData, PortInv, PortTypeOK
<1>5. \A c \in Contexts : Pending(c)' \in {Pending(c), None}
  BY <1>2, <1>3 DEF Pending, Contexts, AccessData, PortInv, PortTypeOK
<1>6. \A q \in Procs : vmm'[q].pc = "data" => ~flag'[q]
  BY <1>2, <1>3 DEF AccessData, PortInv, PortTypeOK
<1> QED BY <1>4, <1>5, <1>6 DEF PortInv, AccessData

LEMMA HalAccessDataInv ==
  ASSUME PortInv, NEW p \in Procs, HalAccessData(p)
  PROVE  PortInv'
<1>1. PortTypeOK'
  BY DEF HalAccessData, PortInv, PortTypeOK
<1>2. \A c \in Contexts : Pending(c)' \in {Pending(c), None}
  BY DEF Pending, Contexts, HalAccessData, PortInv, PortTypeOK
<1> QED BY <1>1, <1>2 DEF PortInv, HalAccessData

LEMMA PortInvStep ==
  ASSUME PortInv, [PortNext]_portVars
  PROVE  PortInv'
<1>1. CASE PortNext
  BY <1>1, StartConfigInv, OutAddressInv, AccessDataInv, HalOutAddressInv,
     HalAccessDataInv DEF PortNext, ConfigStep, HalStep
<1>2. CASE UNCHANGED portVars
  BY <1>2 DEF portVars, PortInv, PortTypeOK, Pending
<1> QED BY <1>1, <1>2

\* The handlers use the ports as PciConfigPort says.
LEMMA SpecUsesPorts == Spec => PortSpec
<1>1. Init => PortInit
  BY DEF Init
<1>2. [Next]_vars => [PortNext]_portVars
  <2>1. ASSUME NEW p \in Procs, MonitorCall(p) \/ NextBar(p) PROVE PortNext
    <3>1. PICK r \in BarRegisters, first \in BOOLEAN :
            \E registers \in BarAccesses(r) : StartConfig(p, registers, first)
      BY <2>1 DEF MonitorCall, NextBar
    <3>2. BarAccesses(r) \subseteq Seq(Registers)
      <4>1. r \in Registers /\ UpperOf[r] \in Registers \union {None}
        BY ServicesAssumption
      <4> QED BY <4>1 DEF BarAccesses
    <3> QED BY <3>1, <3>2 DEF PortNext
  <2>2. ASSUME NEW p \in Procs, Config(p) \/ Hal(p) PROVE PortNext
    BY <2>2 DEF Config, Hal, PortNext
  <2>3. ASSUME NEW p \in Procs,
               MmioRead(p) \/ OtherExit(p) \/ Lookup(p) \/ EndOfScope(p)
               \/ Count(p) \/ ReturnToGuest(p)
        PROVE  UNCHANGED portVars
    BY <2>3 DEF MmioRead, OtherExit, Lookup, EndOfScope, Count, ReturnToGuest
  <2>4. UNCHANGED vars => UNCHANGED portVars
    BY DEF vars
  <2> QED BY <2>1, <2>2, <2>3, <2>4 DEF Next
<1> QED BY <1>1, <1>2, PTL DEF Spec, PortSpec

\* Sizing a BAR reaches the register it names unless another processor uses the
\* ports in between, for any number of processors and any registers.
THEOREM ConfigGoesWhereNamedHolds == Spec => []ConfigGoesWhereNamed
<1>1. PortInit => PortInv
  BY PortInvInit
<1>2. PortInv /\ [PortNext]_portVars => PortInv'
  BY PortInvStep
<1>3. PortInv => ConfigGoesWhereNamed
  BY PortInvImplies
<1> QED BY <1>1, <1>2, <1>3, SpecUsesPorts, PTL DEF PortSpec
-----------------------------------------------------------------------------
(* PerfCollector: types.                                                   *)

AddPcs == {"idle", "compare", "test", "take", "load", "store"}
Adds == [pc : AddPcs, key : Locations \union {NoKey}, index : Entries, value : Nat]

CollectorTypeOK ==
  /\ data \in [Entries -> [key : Locations \union {NoKey}, total : Nat]]
  /\ add \in [Procs -> Adds]
  /\ \A p \in Procs : add[p].pc # "idle" => add[p].key \in Locations
  /\ ran \in [Locations -> Nat]
  /\ retaken \in [entries : SUBSET Entries, overlap : BOOLEAN]

\* Only the call of processor p moves on, to a state of the right type.
MovesOn(p, l) ==
  /\ add' = [add EXCEPT ![p] = l]
  /\ l \in Adds /\ (l.pc # "idle" => l.key \in Locations)

LEMMA NoAddType == NoAdd \in Adds /\ NoAdd.pc = "idle"
BY CollectorAssumption DEF NoAdd, Adds, AddPcs, Entries

LEMMA MovesOnType ==
  ASSUME CollectorTypeOK, NEW p \in Procs, NEW l, MovesOn(p, l)
  PROVE  /\ add' \in [Procs -> Adds]
         /\ \A q \in Procs : add'[q].pc # "idle" => add'[q].key \in Locations
         /\ add'[p] = l
         /\ \A q \in Procs \ {p} : add'[q] = add[q]
BY DEF CollectorTypeOK, MovesOn

\* Entering an entry that is the location's.
LEMMA EnterMoves ==
  ASSUME CollectorTypeOK, NEW p \in Procs, add[p].pc # "idle", Enter(p)
  PROVE  \E l : /\ MovesOn(p, l) /\ l.pc = "load"
                /\ l.key = add[p].key /\ l.index = add[p].index
<1> DEFINE l == [add[p] EXCEPT !.pc = "load"]
<1>1. add[p] \in Adds /\ add[p].key \in Locations
  BY DEF CollectorTypeOK
<1>2. /\ l \in Adds /\ l.pc = "load"
      /\ l.key = add[p].key /\ l.index = add[p].index
  BY <1>1 DEF Adds, AddPcs
<1>3. add' = [add EXCEPT ![p] = l]
  BY DEF Enter
<1> QED BY <1>1, <1>2, <1>3 DEF MovesOn

LEMMA StartAddMoves ==
  ASSUME CollectorTypeOK, NEW p \in Procs, NEW k \in Locations, StartAdd(p, k)
  PROVE  \E l : /\ MovesOn(p, l) /\ l.pc = "compare"
                /\ l.key = k /\ l.index = 1
<1> DEFINE l == [pc |-> "compare", key |-> k, index |-> 1, value |-> 0]
<1>1. 1 \in Entries
  BY CollectorAssumption DEF Entries
<1>2. l \in Adds /\ l.pc = "compare" /\ l.key = k /\ l.index = 1
  BY <1>1 DEF Adds, AddPcs
<1>3. [NoAdd EXCEPT !.pc = "compare", !.key = k] = l
  <2> DEFINE m == [NoAdd EXCEPT !.pc = "compare", !.key = k]
  <2>1. m \in Adds /\ m.pc = "compare" /\ m.key = k /\ m.index = NoAdd.index /\ m.value = NoAdd.value
    BY NoAddType DEF Adds, AddPcs
  <2>2. NoAdd.index = 1 /\ NoAdd.value = 0
    BY DEF NoAdd
  <2> HIDE DEF m
  <2>3. m = [pc |-> m.pc, key |-> m.key, index |-> m.index, value |-> m.value]
    BY <2>1 DEF Adds
  <2>4. m = l
    BY ONLY <2>1, <2>2, <2>3
  <2> QED BY ONLY <2>4 DEF m
<1>4. add' = [add EXCEPT ![p] = l]
  BY <1>3 DEF StartAdd
<1> QED BY <1>2, <1>4 DEF MovesOn

LEMMA CompareKeyMoves ==
  ASSUME CollectorTypeOK, NEW p \in Procs, CompareKey(p),
         data[add[p].index].key # add[p].key
  PROVE  \E l : /\ MovesOn(p, l) /\ l.pc = "test"
                /\ l.key = add[p].key /\ l.index = add[p].index
<1> DEFINE l == [add[p] EXCEPT !.pc = "test"]
<1>1. add[p] \in Adds /\ add[p].key \in Locations
  BY DEF CollectorTypeOK, CompareKey
<1>2. /\ l \in Adds /\ l.pc = "test"
      /\ l.key = add[p].key /\ l.index = add[p].index
  BY <1>1 DEF Adds, AddPcs
<1>3. add' = [add EXCEPT ![p] = l]
  BY DEF CompareKey
<1> QED BY <1>1, <1>2, <1>3 DEF MovesOn

LEMMA TestFreeMoves ==
  ASSUME CollectorTypeOK, NEW p \in Procs, TestFree(p)
  PROVE  \E l : /\ MovesOn(p, l)
                /\ \/ /\ data[add[p].index].key = NoKey /\ l.pc = "take"
                      /\ l.key = add[p].key /\ l.index = add[p].index
                   \/ /\ data[add[p].index].key # NoKey /\ l.pc = "compare"
                      /\ l.key = add[p].key /\ l.index = add[p].index + 1
                   \/ l.pc = "idle"
<1> DEFINE a == add[p]
<1>1. a \in Adds /\ a.key \in Locations
  BY DEF CollectorTypeOK, TestFree
<1>2. CASE data[a.index].key = NoKey
  <2> DEFINE l == [a EXCEPT !.pc = "take"]
  <2>1. l \in Adds /\ l.pc = "take" /\ l.key = a.key /\ l.index = a.index
    BY <1>1 DEF Adds, AddPcs
  <2>2. add' = [add EXCEPT ![p] = l]
    BY <1>2 DEF TestFree
  <2> QED BY <1>1, <1>2, <2>1, <2>2 DEF MovesOn
<1>3. CASE data[a.index].key # NoKey /\ a.index < DataLen
  <2> DEFINE l == [a EXCEPT !.pc = "compare", !.index = a.index + 1]
  <2>1. a.index + 1 \in Entries
    BY <1>1, <1>3, CollectorAssumption DEF Adds, Entries
  <2>2. l \in Adds /\ l.pc = "compare" /\ l.key = a.key /\ l.index = a.index + 1
    BY <1>1, <2>1 DEF Adds, AddPcs
  <2>3. add' = [add EXCEPT ![p] = l]
    BY <1>3 DEF TestFree
  <2> QED BY <1>1, <1>3, <2>2, <2>3 DEF MovesOn
<1>4. CASE data[a.index].key # NoKey /\ ~(a.index < DataLen)
  <2>1. add' = [add EXCEPT ![p] = NoAdd]
    BY <1>4 DEF TestFree
  <2> QED BY <2>1, NoAddType DEF MovesOn
<1> QED BY <1>2, <1>3, <1>4

LEMMA LoadTotalMoves ==
  ASSUME CollectorTypeOK, NEW p \in Procs, LoadTotal(p)
  PROVE  \E l : /\ MovesOn(p, l) /\ l.pc = "store"
                /\ l.key = add[p].key /\ l.index = add[p].index
                /\ l.value = data[add[p].index].total + 1
<1> DEFINE v == data[add[p].index].total + 1
           l == [add[p] EXCEPT !.pc = "store", !.value = v]
<1>1. add[p] \in Adds /\ add[p].key \in Locations /\ v \in Nat
  BY DEF CollectorTypeOK, LoadTotal, Adds
<1>2. add' = [add EXCEPT ![p] = l]
  BY DEF LoadTotal, CollectorTypeOK
<1> HIDE DEF v
<1>3. /\ l \in Adds /\ l.pc = "store"
      /\ l.key = add[p].key /\ l.index = add[p].index
      /\ l.value = v
  BY <1>1 DEF Adds, AddPcs
<1> USE DEF v
<1> QED BY <1>1, <1>2, <1>3 DEF MovesOn

LEMMA StoreTotalMoves ==
  ASSUME CollectorTypeOK, NEW p \in Procs, StoreTotal(p)
  PROVE  \E l : MovesOn(p, l) /\ l.pc = "idle"
BY NoAddType DEF StoreTotal, MovesOn

LEMMA CollectorTypeStep ==
  ASSUME CollectorTypeOK, [CollectorNext]_collectorVars
  PROVE  CollectorTypeOK'
<1> DEFINE Rest == /\ data \in [Entries -> [key : Locations \union {NoKey}, total : Nat]]
                   /\ ran \in [Locations -> Nat]
                   /\ retaken \in [entries : SUBSET Entries, overlap : BOOLEAN]
<1>1. ASSUME NEW p \in Procs, NEW l, MovesOn(p, l), Rest' PROVE CollectorTypeOK'
  BY <1>1, MovesOnType DEF CollectorTypeOK
<1>2. ASSUME NEW p \in Procs, NEW k \in Locations, StartAdd(p, k) PROVE CollectorTypeOK'
  <2>1. Rest'
    BY <1>2 DEF StartAdd, CollectorTypeOK
  <2> QED BY <1>1, <1>2, <2>1, StartAddMoves
<1>3. ASSUME NEW p \in Procs, CompareKey(p) PROVE CollectorTypeOK'
  <2>1. Rest'
    BY <1>3 DEF CompareKey, Enter, CollectorTypeOK
  <2>2. CASE data[add[p].index].key = add[p].key
    BY <1>1, <1>3, <2>1, <2>2, EnterMoves DEF CompareKey
  <2>3. CASE data[add[p].index].key # add[p].key
    BY <1>1, <1>3, <2>1, <2>3, CompareKeyMoves
  <2> QED BY <2>2, <2>3
<1>4. ASSUME NEW p \in Procs, TestFree(p) PROVE CollectorTypeOK'
  <2>1. Rest'
    BY <1>4 DEF TestFree, CollectorTypeOK
  <2> QED BY <1>1, <1>4, <2>1, TestFreeMoves
<1>5. ASSUME NEW p \in Procs, TakeEntry(p) PROVE CollectorTypeOK'
  <2>1. add[p].key \in Locations /\ add[p].index \in Entries /\ add[p].pc # "idle"
    BY <1>5 DEF TakeEntry, CollectorTypeOK, Adds
  <2>2. Rest'
    BY <1>5, <2>1 DEF TakeEntry, Enter, CollectorTypeOK
  <2> QED BY <1>1, <1>5, <2>1, <2>2, EnterMoves DEF TakeEntry
<1>6. ASSUME NEW p \in Procs, LoadTotal(p) PROVE CollectorTypeOK'
  <2>1. Rest'
    BY <1>6 DEF LoadTotal, CollectorTypeOK
  <2> QED BY <1>1, <1>6, <2>1, LoadTotalMoves
<1>7. ASSUME NEW p \in Procs, StoreTotal(p) PROVE CollectorTypeOK'
  <2>1. Rest'
    BY <1>7 DEF StoreTotal, CollectorTypeOK, Adds
  <2> QED BY <1>1, <1>7, <2>1, StoreTotalMoves
<1>8. CASE UNCHANGED collectorVars
  BY <1>8 DEF collectorVars, CollectorTypeOK
<1> QED BY <1>2, <1>3, <1>4, <1>5, <1>6, <1>7, <1>8 DEF CollectorNext, AddStep

LEMMA CollectorTypeInit == CollectorInit => CollectorTypeOK
BY NoAddType DEF CollectorInit, CollectorTypeOK
-----------------------------------------------------------------------------
(* PerfCollector: the counts.                                              *)

InUse(i) == data[i].key # NoKey
Searching(p) == add[p].pc \in {"compare", "test", "take"}
Adding(p) == add[p].pc \in {"load", "store"}
Additions(i) == {p \in Procs : Adding(p) /\ add[p].index = i}

\* A search has passed entries in use only; what is added to stays in use.
Arrived(p) ==
  /\ Searching(p) => \A j \in Entries : j < add[p].index => InUse(j)
  /\ Adding(p) => InUse(add[p].index)

\* An entry of one location: what its total says, and what the additions
\* under way will make of it, are at most how often the location ran.
EntryCounts(i) ==
  /\ ~InUse(i) => data[i].total = 0
  /\ \A p \in Additions(i) : add[p].key = data[i].key
  /\ InUse(i) =>
       /\ data[i].total + Cardinality(Additions(i)) <= ran[data[i].key]
       /\ \A p \in Additions(i) : add[p].pc = "store" =>
            add[p].value + Cardinality(Additions(i)) <= ran[data[i].key] + 1

\* A search that nobody disturbs has not passed an entry of its location.
Looked(p) ==
  Searching(p) =>
    /\ \A j \in Entries : j < add[p].index => data[j].key # add[p].key
    /\ add[p].pc # "compare" => data[add[p].index].key # add[p].key
    /\ add[p].pc = "take" => ~InUse(add[p].index)

Exact(i) ==
  InUse(i) => data[i].total + Cardinality(Additions(i)) = ran[data[i].key]

Due(p) == add[p].pc = "store" => add[p].value = data[add[p].index].total + 1

OneEntryEach == \A i, j \in Entries : InUse(i) /\ data[i].key = data[j].key => i = j
RanHasEntry == \A l \in Locations : ran[l] > 0 => \E i \in Entries : data[i].key = l

\* As long as calls did not overlap, each location has one entry, and its
\* total is exact but for the addition under way.
Alone ==
  /\ \A p, q \in Procs : add[p].pc # "idle" /\ add[q].pc # "idle" => p = q
  /\ retaken.entries = {}
  /\ OneEntryEach
  /\ RanHasEntry
  /\ \A p \in Procs : Looked(p) /\ Due(p)
  /\ \A i \in Entries : Exact(i)

\* Entries are taken from the first on, and never given back.
TakenInOrder == \A i, j \in Entries : InUse(i) /\ j < i => InUse(j)

CountsInv ==
  /\ TakenInOrder
  /\ \A p \in Procs : Arrived(p)
  /\ \A i \in Entries \ retaken.entries : EntryCounts(i)
  /\ ~retaken.overlap => Alone

LEMMA AdditionsFinite ==
  \A i \in Entries : IsFiniteSet(Additions(i)) /\ Cardinality(Additions(i)) \in Nat
<1> SUFFICES ASSUME NEW i \in Entries
             PROVE  IsFiniteSet(Additions(i)) /\ Cardinality(Additions(i)) \in Nat
  OBVIOUS
<1>1. Additions(i) \subseteq Procs
  BY DEF Additions
<1>2. IsFiniteSet(Additions(i))
  BY <1>1, FS_Subset, ProcsAssumption
<1> QED BY <1>2, FS_CardinalityType

LEMMA CountsInit == CollectorInit => CountsInv
<1> SUFFICES ASSUME CollectorInit PROVE CountsInv
  OBVIOUS
<1>1. /\ \A i \in Entries : ~InUse(i) /\ data[i].total = 0
      /\ \A p \in Procs : add[p].pc = "idle"
      /\ retaken.entries = {}
      /\ \A l \in Locations : ran[l] = 0
  BY NoAddType DEF CollectorInit, InUse
<1>2. \A i \in Entries : Additions(i) = {}
  BY <1>1 DEF Additions, Adding
<1>3. Alone
  BY <1>1 DEF Alone, OneEntryEach, RanHasEntry, Looked, Due, Exact, Searching
<1> QED BY <1>1, <1>2, <1>3 DEF CountsInv, TakenInOrder, Arrived, EntryCounts, Searching, Adding

\* Nothing under way: what the totals of entries in use are.
LEMMA CountsInvImplies == CollectorTypeOK /\ CountsInv => CountsAddUp
<1> SUFFICES ASSUME CollectorTypeOK, CountsInv PROVE CountsAddUp
  OBVIOUS
<1>1. \A i \in Entries : InUse(i) => i \in Printed
  BY CollectorAssumption DEF CountsInv, TakenInOrder, Printed, InUse, Entries
<1>2. \A i \in Printed : i \in Entries /\ InUse(i)
  BY CollectorAssumption DEF Printed, InUse, Entries
<1>3. ASSUME NEW i \in Printed \ retaken.entries
      PROVE  data[i].total <= ran[data[i].key]
  <2>1. i \in Entries /\ InUse(i) /\ EntryCounts(i)
    BY <1>2, <1>3 DEF CountsInv
  <2>2. data[i].total \in Nat /\ data[i].key \in Locations /\ ran[data[i].key] \in Nat
    BY <2>1 DEF CollectorTypeOK, InUse
  <2>3. data[i].total + Cardinality(Additions(i)) <= ran[data[i].key]
    BY <2>1 DEF EntryCounts
  <2> QED BY <2>1, <2>2, <2>3, AdditionsFinite
<1>4. ASSUME ~retaken.overlap, \A p \in Procs : add[p].pc = "idle",
             NEW l \in Locations, ran[l] > 0
      PROVE  \E i \in Printed : data[i] = [key |-> l, total |-> ran[l]]
  <2>1. PICK i \in Entries : data[i].key = l
    BY <1>4 DEF CountsInv, Alone, RanHasEntry
  <2>2. InUse(i) /\ i \in Printed
    BY <2>1, <1>1, CollectorAssumption DEF InUse
  <2>3. Additions(i) = {}
    BY <1>4 DEF Additions, Adding
  <2>4. data[i].total + Cardinality(Additions(i)) = ran[l]
    BY <1>4, <2>1, <2>2 DEF CountsInv, Alone, Exact
  <2>5. data[i].total \in Nat /\ data[i] = [key |-> data[i].key, total |-> data[i].total]
    BY DEF CollectorTypeOK
  <2>6. data[i].total = ran[l]
    BY <2>3, <2>4, <2>5, FS_EmptySet
  <2> QED BY <2>1, <2>2, <2>5, <2>6
<1> QED BY <1>1, <1>3, <1>4 DEF CountsAddUp, InUse

\* Whoever does not add before or after a step leaves the additions alone.
LEMMA AdditionsSame ==
  ASSUME NEW p \in Procs, \A q \in Procs \ {p} : add'[q] = add[q],
         ~Adding(p), ~Adding(p)'
  PROVE  \A i \in Entries : Additions(i)' = Additions(i)
BY DEF Additions, Adding

\* An entry whose record and additions are what they were.
LEMMA EntryKept ==
  ASSUME CollectorTypeOK, CollectorTypeOK', NEW i \in Entries,
         data'[i] = data[i], Additions(i)' = Additions(i),
         \A q \in Additions(i) : add'[q].key = add[q].key /\ add'[q].value = add[q].value
                                 /\ (add'[q].pc = "store" => add[q].pc = "store"),
         \A l \in Locations : ran'[l] >= ran[l]
  PROVE  /\ InUse(i)' <=> InUse(i)
         /\ EntryCounts(i) => EntryCounts(i)'
         /\ (InUse(i) => ran'[data[i].key] = ran[data[i].key]) /\ Exact(i) => Exact(i)'
<1> DEFINE n == Cardinality(Additions(i))
           k == data[i].key
<1>1. Cardinality(Additions(i)') = n /\ n \in Nat
  BY AdditionsFinite
<1>2. InUse(i)' <=> InUse(i)
  BY DEF InUse
<1>3. /\ data[i].total \in Nat
      /\ InUse(i) => ran[k] \in Nat /\ ran'[k] \in Nat /\ ran'[k] >= ran[k]
      /\ \A q \in Additions(i) : add[q].value \in Nat
  BY DEF CollectorTypeOK, InUse, Additions, Adds
<1>4. ASSUME EntryCounts(i) PROVE EntryCounts(i)'
  <2>1. ~InUse(i)' => data'[i].total = 0
    BY <1>2, <1>4 DEF EntryCounts
  <2>2. \A q \in Additions(i)' : add'[q].key = data'[i].key
    BY <1>4 DEF EntryCounts
  <2>3. ASSUME InUse(i)'
        PROVE  /\ data'[i].total + n <= ran'[k]
               /\ \A q \in Additions(i) : add'[q].pc = "store" => add'[q].value + n <= ran'[k] + 1
    <3>1. /\ data[i].total + n <= ran[k]
          /\ \A q \in Additions(i) : add[q].pc = "store" => add[q].value + n <= ran[k] + 1
      BY <1>2, <1>4, <2>3 DEF EntryCounts
    <3>2. data'[i].total = data[i].total
      OBVIOUS
    <3> HIDE DEF n, k
    <3>3. data[i].total + n <= ran'[k]
      BY <1>1, <1>2, <1>3, <2>3, <3>1
    <3>4. ASSUME NEW q \in Additions(i), add'[q].pc = "store"
          PROVE  add'[q].value + n <= ran'[k] + 1
      <4>1. add[q].value + n <= ran[k] + 1 /\ add'[q].value = add[q].value
        BY <3>1, <3>4
      <4> QED BY <4>1, <1>1, <1>2, <1>3, <2>3
    <3> QED BY <3>2, <3>3, <3>4
  <2> QED BY <1>1, <2>1, <2>2, <2>3 DEF EntryCounts
<1>5. ASSUME InUse(i) => ran'[k] = ran[k], Exact(i) PROVE Exact(i)'
  BY <1>1, <1>2, <1>5 DEF Exact
<1> QED BY <1>2, <1>4, <1>5

\* A step that stores nothing and is not part of an addition.
LEMMA CountsQuiet ==
  ASSUME CollectorTypeOK, CollectorTypeOK', CountsInv, NEW p \in Procs,
         data' = data, ran' = ran, retaken'.entries = retaken.entries,
         retaken.overlap => retaken'.overlap,
         \A q \in Procs \ {p} : add'[q] = add[q],
         ~Adding(p), ~Adding(p)',
         Arrived(p)',
         ~retaken'.overlap =>
           /\ \A q \in Procs \ {p} : add'[p].pc # "idle" => add[q].pc = "idle"
           /\ Looked(p)'
  PROVE  CountsInv'
<1>1. \A i \in Entries : Additions(i)' = Additions(i)
  BY AdditionsSame
<1>2. \A i \in Entries : p \notin Additions(i)
  BY DEF Additions
<1>3. \A l \in Locations : ran'[l] >= ran[l]
  BY DEF CollectorTypeOK
<1>4. \A i \in Entries : \A q \in Additions(i) : add'[q] = add[q]
  BY <1>2 DEF Additions
<1>5. \A i \in Entries : /\ InUse(i)' <=> InUse(i)
                         /\ EntryCounts(i) => EntryCounts(i)'
                         /\ Exact(i) => Exact(i)'
  BY <1>1, <1>3, <1>4, EntryKept
<1>6. TakenInOrder'
  BY <1>5 DEF CountsInv, TakenInOrder
<1>7. \A q \in Procs : Arrived(q)'
  <2> SUFFICES ASSUME NEW q \in Procs \ {p} PROVE Arrived(q)'
    OBVIOUS
  <2>1. Arrived(q) /\ add'[q] = add[q]
    BY DEF CountsInv
  <2> QED BY <2>1 DEF Arrived, Searching, Adding, InUse
<1>8. \A i \in Entries \ retaken'.entries : EntryCounts(i)'
  BY <1>5 DEF CountsInv
<1>9. ASSUME ~retaken'.overlap PROVE Alone'
  <2>1. Alone
    BY <1>9 DEF CountsInv
  <2>2. \A q \in Procs : Looked(q)' /\ Due(q)'
    <3>1. Looked(p)' /\ Due(p)'
      BY <1>9 DEF Due, Adding
    <3>2. ASSUME NEW q \in Procs \ {p} PROVE Looked(q)' /\ Due(q)'
      <4>1. Looked(q) /\ Due(q) /\ add'[q] = add[q]
        BY <2>1 DEF Alone
      <4> QED BY <4>1 DEF Looked, Due, Searching, InUse
    <3> QED BY <3>1, <3>2
  <2>3. \A q, r \in Procs : add'[q].pc # "idle" /\ add'[r].pc # "idle" => q = r
    BY <1>9, <2>1 DEF Alone
  <2>4. OneEntryEach' /\ RanHasEntry'
    BY <2>1 DEF Alone, OneEntryEach, RanHasEntry, InUse
  <2> QED BY <1>5, <2>1, <2>2, <2>3, <2>4 DEF Alone
<1> QED BY <1>6, <1>7, <1>8, <1>9 DEF CountsInv

LEMMA StartAddCounts ==
  ASSUME CollectorTypeOK, CollectorTypeOK', CountsInv, NEW p \in Procs,
         NEW k \in Locations, StartAdd(p, k)
  PROVE  CountsInv'
<1>1. PICK l : MovesOn(p, l) /\ l.pc = "compare" /\ l.key = k /\ l.index = 1
  BY StartAddMoves
<1>2. add'[p] = l /\ \A q \in Procs \ {p} : add'[q] = add[q]
  BY <1>1, MovesOnType
<1>3. ~Adding(p) /\ ~Adding(p)'
  BY <1>1, <1>2 DEF StartAdd, Adding
<1>4. \A j \in Entries : ~(j < 1)
  BY DEF Entries
<1>5. Arrived(p)' /\ Looked(p)'
  BY <1>1, <1>2, <1>3, <1>4 DEF Arrived, Looked
<1>6. /\ data' = data /\ ran' = ran /\ retaken'.entries = retaken.entries
      /\ retaken'.overlap = (retaken.overlap \/ \E q \in Procs : add[q].pc # "idle")
  BY DEF StartAdd, CollectorTypeOK
<1> QED BY <1>2, <1>3, <1>5, <1>6, CountsQuiet

LEMMA CompareOtherCounts ==
  ASSUME CollectorTypeOK, CollectorTypeOK', CountsInv, NEW p \in Procs,
         CompareKey(p), data[add[p].index].key # add[p].key
  PROVE  CountsInv'
<1>1. PICK l : MovesOn(p, l) /\ l.pc = "test" /\ l.key = add[p].key /\ l.index = add[p].index
  BY CompareKeyMoves
<1>2. add'[p] = l /\ \A q \in Procs \ {p} : add'[q] = add[q]
  BY <1>1, MovesOnType
<1>3. ~Adding(p) /\ ~Adding(p)' /\ Searching(p)
  BY <1>1, <1>2 DEF CompareKey, Adding, Searching
<1>4. data' = data /\ ran' = ran /\ retaken' = retaken
  BY DEF CompareKey
<1>5. Arrived(p)'
  BY <1>1, <1>2, <1>3, <1>4 DEF Arrived, CountsInv, InUse
<1>6. ASSUME ~retaken'.overlap
      PROVE  Looked(p)' /\ \A q \in Procs \ {p} : add[q].pc = "idle"
  <2>1. Alone
    BY <1>4, <1>6 DEF CountsInv
  <2> QED BY <2>1, <1>1, <1>2, <1>3, <1>4 DEF Alone, Looked, Searching
<1> QED BY <1>2, <1>3, <1>4, <1>5, <1>6, CountsQuiet

LEMMA TestFreeCounts ==
  ASSUME CollectorTypeOK, CollectorTypeOK', CountsInv, NEW p \in Procs, TestFree(p)
  PROVE  CountsInv'
<1> DEFINE i == add[p].index
<1>1. PICK l : /\ MovesOn(p, l)
               /\ \/ /\ data[i].key = NoKey /\ l.pc = "take"
                     /\ l.key = add[p].key /\ l.index = i
                  \/ /\ data[i].key # NoKey /\ l.pc = "compare"
                     /\ l.key = add[p].key /\ l.index = i + 1
                  \/ l.pc = "idle"
  BY TestFreeMoves
<1>2. add'[p] = l /\ \A q \in Procs \ {p} : add'[q] = add[q]
  BY <1>1, MovesOnType
<1>3. ~Adding(p) /\ ~Adding(p)' /\ Searching(p) /\ add[p].pc = "test" /\ i \in Entries
  BY <1>1, <1>2 DEF TestFree, Adding, Searching, CollectorTypeOK, Adds
<1>4. data' = data /\ ran' = ran /\ retaken' = retaken
  BY DEF TestFree
<1>5. \A j \in Entries : j < i + 1 => j < i \/ j = i
  BY <1>3 DEF Entries
<1> HIDE DEF i
<1>6. Arrived(p)'
  <2>1. \A j \in Entries : j < i => InUse(j)
    BY <1>3 DEF CountsInv, Arrived, i
  <2>2. l.pc # "idle" => \A j \in Entries : j < l.index => InUse(j)
    BY <1>1, <1>5, <2>1 DEF InUse
  <2> QED BY <1>2, <1>3, <1>4, <2>2 DEF Arrived, InUse, Searching
<1>7. ASSUME ~retaken'.overlap
      PROVE  Looked(p)' /\ \A q \in Procs \ {p} : add[q].pc = "idle"
  <2>1. Alone
    BY <1>4, <1>7 DEF CountsInv
  <2>2. /\ \A j \in Entries : j < i => data[j].key # add[p].key
        /\ data[i].key # add[p].key
    BY <2>1, <1>3 DEF Alone, Looked, Searching, i
  <2>3. l.pc # "idle" => \A j \in Entries : j < l.index => data[j].key # l.key
    BY <1>1, <1>5, <2>2
  <2>4. Looked(p)'
    BY <1>1, <1>2, <1>4, <2>2, <2>3 DEF Looked, Searching, InUse
  <2> QED BY <2>1, <2>4, <1>3 DEF Alone
<1> QED BY <1>2, <1>3, <1>4, <1>6, <1>7, CountsQuiet

\* An addition begins or ends: the entry it is to gains or loses it.
LEMMA AdditionsBegin ==
  ASSUME NEW p \in Procs, \A q \in Procs \ {p} : add'[q] = add[q],
         NEW e \in Entries, ~Adding(p), Adding(p)', add'[p].index = e
  PROVE  /\ \A i \in Entries \ {e} : Additions(i)' = Additions(i)
         /\ Additions(e)' = Additions(e) \union {p}
         /\ Cardinality(Additions(e)') = Cardinality(Additions(e)) + 1
<1>1. /\ \A i \in Entries \ {e} : Additions(i)' = Additions(i)
      /\ Additions(e)' = Additions(e) \union {p}
      /\ p \notin Additions(e)
  BY DEF Additions, Adding
<1> QED BY <1>1, AdditionsFinite, FS_AddElement

LEMMA AdditionsEnd ==
  ASSUME NEW p \in Procs, \A q \in Procs \ {p} : add'[q] = add[q],
         NEW e \in Entries, Adding(p), ~Adding(p)', add[p].index = e
  PROVE  /\ \A i \in Entries \ {e} : Additions(i)' = Additions(i)
         /\ Additions(e)' = Additions(e) \ {p}
         /\ Cardinality(Additions(e)') = Cardinality(Additions(e)) - 1
<1>1. /\ \A i \in Entries \ {e} : Additions(i)' = Additions(i)
      /\ Additions(e)' = Additions(e) \ {p}
      /\ p \in Additions(e)
  BY DEF Additions, Adding
<1> QED BY <1>1, AdditionsFinite, FS_RemoveElement

\* Where nobody else runs, nobody else adds.
LEMMA AloneAdditions ==
  ASSUME Alone, NEW p \in Procs, add[p].pc # "idle"
  PROVE  /\ \A q \in Procs \ {p} : add[q].pc = "idle"
         /\ ~Adding(p) => \A i \in Entries : Additions(i) = {}
         /\ \A i \in Entries : i # add[p].index => Additions(i) = {}
         /\ Adding(p) => Additions(add[p].index) = {p}
BY DEF Alone, Additions, Adding

\* The location has run once more, and its entry owes it one.
LEMMA EnterOthers ==
  ASSUME CollectorTypeOK, CollectorTypeOK', CountsInv, NEW p \in Procs,
         NEW e \in Entries, NEW k \in Locations, add[p].index = e, add[p].key = k,
         add[p].pc \in {"compare", "take"}, Enter(p),
         \A i \in Entries \ {e} : data'[i] = data[i]
  PROVE  /\ add'[p].pc = "load" /\ add'[p].key = k /\ add'[p].index = e
         /\ \A q \in Procs \ {p} : add'[q] = add[q]
         /\ ran'[k] = ran[k] + 1
         /\ \A l \in Locations \ {k} : ran'[l] = ran[l]
         /\ Additions(e)' = Additions(e) \union {p}
         /\ Cardinality(Additions(e)') = Cardinality(Additions(e)) + 1
         /\ \A i \in Entries \ {e} :
              /\ InUse(i)' <=> InUse(i)
              /\ EntryCounts(i) => EntryCounts(i)'
              /\ Exact(i) /\ data[i].key # k => Exact(i)'
<1>1. add[p].pc # "idle" /\ ~Adding(p)
  BY DEF Adding
<1>2. PICK l : MovesOn(p, l) /\ l.pc = "load" /\ l.key = k /\ l.index = e
  BY <1>1, EnterMoves
<1>3. add'[p] = l /\ \A q \in Procs \ {p} : add'[q] = add[q]
  BY <1>2, MovesOnType
<1>4. ran' = [ran EXCEPT ![k] = ran[k] + 1]
  BY DEF Enter
<1>5. /\ ran'[k] = ran[k] + 1
      /\ \A m \in Locations \ {k} : ran'[m] = ran[m]
      /\ \A m \in Locations : ran'[m] >= ran[m]
  BY <1>1, <1>4 DEF CollectorTypeOK
<1>6. Adding(p)' /\ add'[p].index = e
  BY <1>2, <1>3 DEF Adding
<1>7. /\ \A i \in Entries \ {e} : Additions(i)' = Additions(i)
      /\ Additions(e)' = Additions(e) \union {p}
      /\ Cardinality(Additions(e)') = Cardinality(Additions(e)) + 1
  BY <1>1, <1>3, <1>6, AdditionsBegin
<1>8. \A i \in Entries : \A q \in Additions(i) : add'[q] = add[q]
  BY <1>1, <1>3 DEF Additions
<1>9. ASSUME NEW i \in Entries \ {e}
      PROVE  /\ InUse(i)' <=> InUse(i)
             /\ EntryCounts(i) => EntryCounts(i)'
             /\ Exact(i) /\ data[i].key # k => Exact(i)'
  <2>1. data[i].key # k => (InUse(i) => ran'[data[i].key] = ran[data[i].key])
    BY <1>5 DEF InUse, CollectorTypeOK
  <2> QED BY <2>1, <1>5, <1>7, <1>8, EntryKept
<1> QED BY <1>1, <1>2, <1>3, <1>5, <1>7, <1>9

LEMMA CompareOwnCounts ==
  ASSUME CollectorTypeOK, CollectorTypeOK', CountsInv, NEW p \in Procs,
         CompareKey(p), data[add[p].index].key = add[p].key
  PROVE  CountsInv'
<1> PICK e \in Entries : add[p].index = e
  BY DEF CollectorTypeOK, Adds
<1> PICK k \in Locations : add[p].key = k
  BY DEF CollectorTypeOK, CompareKey
<1>1. add[p].pc = "compare" /\ Enter(p) /\ data' = data /\ retaken' = retaken
  BY DEF CompareKey
<1>2. /\ add'[p].pc = "load" /\ add'[p].key = k /\ add'[p].index = e
      /\ \A q \in Procs \ {p} : add'[q] = add[q]
      /\ ran'[k] = ran[k] + 1
      /\ \A l \in Locations \ {k} : ran'[l] = ran[l]
      /\ Additions(e)' = Additions(e) \union {p}
      /\ Cardinality(Additions(e)') = Cardinality(Additions(e)) + 1
      /\ \A i \in Entries \ {e} :
           /\ InUse(i)' <=> InUse(i)
           /\ EntryCounts(i) => EntryCounts(i)'
           /\ Exact(i) /\ data[i].key # k => Exact(i)'
  BY <1>1, EnterOthers
<1>3. InUse(e) /\ data[e].key = k
  BY <1>2, CollectorAssumption DEF InUse
<1>4. TakenInOrder'
  BY <1>1 DEF CountsInv, TakenInOrder, InUse
<1>5. \A q \in Procs : Arrived(q)'
  <2>1. Arrived(p)'
    BY <1>1, <1>2, <1>3 DEF Arrived, InUse, Searching
  <2>2. ASSUME NEW q \in Procs \ {p} PROVE Arrived(q)'
    <3>1. Arrived(q) /\ add'[q] = add[q]
      BY <1>2 DEF CountsInv
    <3> QED BY <3>1, <1>1 DEF Arrived, Searching, Adding, InUse
  <2> QED BY <2>1, <2>2
<1>6. \A i \in Entries \ retaken'.entries : EntryCounts(i)'
  <2>1. ASSUME EntryCounts(e) PROVE EntryCounts(e)'
    <3> DEFINE n == Cardinality(Additions(e))
    <3>1. /\ n \in Nat /\ data[e].total \in Nat /\ ran[k] \in Nat
          /\ \A q \in Additions(e) : add[q].value \in Nat
      BY <1>2, AdditionsFinite DEF CollectorTypeOK, Additions, Adds
    <3>2. /\ \A q \in Additions(e) : add[q].key = k
          /\ data[e].total + n <= ran[k]
          /\ \A q \in Additions(e) : add[q].pc = "store" => add[q].value + n <= ran[k] + 1
      BY <2>1, <1>3 DEF EntryCounts
    <3>3. \A q \in Additions(e)' : q = p \/ (q \in Additions(e) /\ add'[q] = add[q])
      BY <1>2 DEF Additions
    <3>4. \A q \in Additions(e)' : add'[q].key = k
      BY <1>2, <3>2, <3>3
    <3> HIDE DEF n
    <3>5. data[e].total + (n + 1) <= ran'[k]
      BY <1>2, <3>1, <3>2
    <3>6. ASSUME NEW q \in Additions(e)', add'[q].pc = "store"
          PROVE  add'[q].value + (n + 1) <= ran'[k] + 1
      <4>1. q \in Additions(e) /\ add'[q] = add[q]
        BY <1>2, <3>3, <3>6
      <4>2. add[q].value + n <= ran[k] + 1 /\ add[q].value \in Nat
        BY <4>1, <3>1, <3>2, <3>6
      <4> QED BY <1>2, <3>1, <4>1, <4>2
    <3>7. Cardinality(Additions(e)') = n + 1
      BY <1>2 DEF n
    <3>8. /\ data'[e].total + Cardinality(Additions(e)') <= ran'[data'[e].key]
          /\ \A q \in Additions(e)' : add'[q].pc = "store" =>
               add'[q].value + Cardinality(Additions(e)') <= ran'[data'[e].key] + 1
      BY <1>1, <1>3, <3>5, <3>6, <3>7
    <3>9. InUse(e)' /\ \A q \in Additions(e)' : add'[q].key = data'[e].key
      BY <1>1, <1>3, <3>4 DEF InUse
    <3> QED BY <3>8, <3>9 DEF EntryCounts
  <2> QED BY <2>1, <1>1, <1>2 DEF CountsInv
<1>7. ASSUME ~retaken'.overlap PROVE Alone'
  <2>1. Alone
    BY <1>1, <1>7 DEF CountsInv
  <2>2. \A q \in Procs \ {p} : add[q].pc = "idle"
    BY <2>1, <1>1, AloneAdditions
  <2>3. \A q \in Procs : Looked(q)' /\ Due(q)'
    BY <2>2, <1>2 DEF Looked, Due, Searching
  <2>4. \A q, r \in Procs : add'[q].pc # "idle" /\ add'[r].pc # "idle" => q = r
    BY <2>2, <1>2
  <2>5. OneEntryEach'
    BY <2>1, <1>1 DEF Alone, OneEntryEach, InUse
  <2>6. RanHasEntry'
    <3> SUFFICES ASSUME NEW l \in Locations, ran'[l] > 0
                 PROVE  \E i \in Entries : data[i].key = l
      BY <1>1 DEF RanHasEntry
    <3>1. CASE l = k
      BY <3>1, <1>2, <1>3
    <3>2. CASE l # k
      BY <3>2, <1>2, <2>1 DEF Alone, RanHasEntry
    <3> QED BY <3>1, <3>2
  <2>7. ASSUME NEW i \in Entries PROVE Exact(i)'
    <3>1. CASE i = e
      <4>1. data[e].total + Cardinality(Additions(e)) = ran[k]
        BY <2>1, <1>2, <1>3 DEF Alone, Exact
      <4>2. data[e].total \in Nat /\ ran[k] \in Nat /\ Cardinality(Additions(e)) \in Nat
        BY <1>2, AdditionsFinite DEF CollectorTypeOK
      <4>3. data[e].total + Cardinality(Additions(e)') = ran'[k]
        BY <1>2, <4>1, <4>2
      <4> QED BY <3>1, <4>3, <1>1, <1>3 DEF Exact
    <3>2. CASE i # e
      <4>1. data[i].key # k
        BY <2>1, <3>2, <1>2, <1>3 DEF Alone, OneEntryEach
      <4> QED BY <4>1, <3>2, <1>2, <2>1 DEF Alone
    <3> QED BY <3>1, <3>2
  <2> QED BY <1>1, <2>1, <2>3, <2>4, <2>5, <2>6, <2>7 DEF Alone
<1> QED BY <1>4, <1>5, <1>6, <1>7 DEF CountsInv

\* Who takes a free entry is the first one to add to it; taking any other one
\* marks it, and does not happen to a call that nobody disturbs.
LEMMA TakeEntryCounts ==
  ASSUME CollectorTypeOK, CollectorTypeOK', CountsInv, NEW p \in Procs, TakeEntry(p)
  PROVE  CountsInv'
<1> PICK e \in Entries : add[p].index = e
  BY DEF CollectorTypeOK, Adds
<1> PICK k \in Locations : add[p].key = k
  BY DEF CollectorTypeOK, TakeEntry
<1>1. /\ add[p].pc = "take" /\ Enter(p)
      /\ data' = [data EXCEPT ![e].key = k]
      /\ retaken' = IF data[e].key = NoKey THEN retaken
                    ELSE [retaken EXCEPT !.entries = retaken.entries \union {e}]
  BY DEF TakeEntry
<1>2. /\ data'[e].key = k /\ data'[e].total = data[e].total
      /\ \A i \in Entries \ {e} : data'[i] = data[i]
      /\ retaken'.overlap = retaken.overlap
      /\ InUse(e) => e \in retaken'.entries
      /\ retaken.entries \subseteq retaken'.entries
      /\ ~InUse(e) => retaken' = retaken
  BY <1>1 DEF CollectorTypeOK, InUse
<1>3. /\ add'[p].pc = "load" /\ add'[p].key = k /\ add'[p].index = e
      /\ \A q \in Procs \ {p} : add'[q] = add[q]
      /\ ran'[k] = ran[k] + 1
      /\ \A l \in Locations \ {k} : ran'[l] = ran[l]
      /\ Additions(e)' = Additions(e) \union {p}
      /\ Cardinality(Additions(e)') = Cardinality(Additions(e)) + 1
      /\ \A i \in Entries \ {e} :
           /\ InUse(i)' <=> InUse(i)
           /\ EntryCounts(i) => EntryCounts(i)'
           /\ Exact(i) /\ data[i].key # k => Exact(i)'
  BY <1>1, <1>2, EnterOthers
<1>4. InUse(e)' /\ \A i \in Entries : InUse(i) => InUse(i)'
  BY <1>2, <1>3, CollectorAssumption DEF InUse
<1>5. \A j \in Entries : j < e => InUse(j)
  BY <1>1 DEF CountsInv, Arrived, Searching
<1>6. TakenInOrder'
  BY <1>3, <1>4, <1>5 DEF CountsInv, TakenInOrder
<1>7. \A q \in Procs : Arrived(q)'
  <2>1. Arrived(p)'
    BY <1>3, <1>4 DEF Arrived, Searching
  <2>2. ASSUME NEW q \in Procs \ {p} PROVE Arrived(q)'
    <3>1. Arrived(q) /\ add'[q] = add[q] /\ add[q].index \in Entries
      BY <1>3 DEF CountsInv, CollectorTypeOK, Adds
    <3> QED BY <3>1, <1>4 DEF Arrived, Searching, Adding
  <2> QED BY <2>1, <2>2
<1>8. ASSUME ~InUse(e)
      PROVE  /\ Additions(e)' = {p} /\ Cardinality(Additions(e)') = 1
  <2>1. Additions(e) = {}
    BY <1>8 DEF CountsInv, Arrived, Additions
  <2> QED BY <2>1, <1>3, FS_EmptySet
<1>9. \A i \in Entries \ retaken'.entries : EntryCounts(i)'
  <2>1. ASSUME e \notin retaken'.entries PROVE EntryCounts(e)'
    <3>1. ~InUse(e) /\ EntryCounts(e)
      BY <1>2, <2>1 DEF CountsInv
    <3>2. data'[e].total = 0 /\ ran[k] \in Nat
      BY <3>1, <1>2 DEF EntryCounts, CollectorTypeOK
    <3>3. data'[e].total + 1 <= ran'[k]
      BY <3>2, <1>3
    <3> QED BY <3>1, <3>3, <1>2, <1>3, <1>4, <1>8 DEF EntryCounts
  <2> QED BY <2>1, <1>2, <1>3 DEF CountsInv
<1>10. ASSUME ~retaken'.overlap PROVE Alone'
  <2>1. Alone
    BY <1>2, <1>10 DEF CountsInv
  <2>2. \A q \in Procs \ {p} : add[q].pc = "idle"
    BY <2>1, <1>1, AloneAdditions
  <2>3. /\ ~InUse(e) /\ retaken' = retaken
        /\ \A j \in Entries : j < e => data[j].key # k
    BY <2>1, <1>1, <1>2 DEF Alone, Looked, Searching
  <2>4. \A j \in Entries \ {e} : InUse(j) => j < e
    BY <2>3 DEF CountsInv, TakenInOrder, Entries
  <2>5. \A j \in Entries : data[j].key # k
    BY <2>3, <2>4, CollectorAssumption DEF InUse
  <2>6. \A q \in Procs : Looked(q)' /\ Due(q)'
    BY <2>2, <1>3 DEF Looked, Due, Searching
  <2>7. \A q, r \in Procs : add'[q].pc # "idle" /\ add'[r].pc # "idle" => q = r
    BY <2>2, <1>3
  <2>8. OneEntryEach'
    <3> SUFFICES ASSUME NEW i \in Entries, NEW j \in Entries, InUse(i)',
                        data'[i].key = data'[j].key
                 PROVE  i = j
      BY DEF OneEntryEach
    <3>1. CASE i # e /\ j # e
      BY <3>1, <1>2, <1>3, <2>1 DEF Alone, OneEntryEach
    <3>2. CASE i = e \/ j = e
      BY <3>2, <1>2, <2>5
    <3> QED BY <3>1, <3>2
  <2>9. RanHasEntry'
    <3> SUFFICES ASSUME NEW l \in Locations, ran'[l] > 0
                 PROVE  \E i \in Entries : data'[i].key = l
      BY DEF RanHasEntry
    <3>1. CASE l = k
      BY <3>1, <1>2
    <3>2. CASE l # k
      <4>1. PICK i \in Entries : data[i].key = l
        BY <3>2, <1>3, <2>1 DEF Alone, RanHasEntry
      <4>2. i # e
        BY <4>1, <2>3, CollectorAssumption DEF InUse
      <4> QED BY <4>1, <4>2, <1>2
    <3> QED BY <3>1, <3>2
  <2>10. ASSUME NEW i \in Entries PROVE Exact(i)'
    <3>1. CASE i = e
      <4>1. ran[k] = 0
        BY <2>1, <2>5 DEF Alone, RanHasEntry, CollectorTypeOK
      <4>2. data'[e].total = 0
        BY <2>1, <2>3, <1>2 DEF CountsInv, EntryCounts, Alone
      <4>3. data'[e].total + 1 = ran'[k]
        BY <4>1, <4>2, <1>3
      <4> QED BY <3>1, <4>3, <1>2, <1>8, <2>3 DEF Exact
    <3>2. CASE i # e
      BY <3>2, <1>3, <2>1, <2>5 DEF Alone
    <3> QED BY <3>1, <3>2
  <2> QED BY <2>1, <2>3, <2>6, <2>7, <2>8, <2>9, <2>10 DEF Alone
<1> QED BY <1>6, <1>7, <1>9, <1>10 DEF CountsInv

LEMMA LoadTotalCounts ==
  ASSUME CollectorTypeOK, CollectorTypeOK', CountsInv, NEW p \in Procs, LoadTotal(p)
  PROVE  CountsInv'
<1> PICK e \in Entries : add[p].index = e
  BY DEF CollectorTypeOK, Adds
<1>1. PICK l : /\ MovesOn(p, l) /\ l.pc = "store"
               /\ l.key = add[p].key /\ l.index = e
               /\ l.value = data[e].total + 1
  BY LoadTotalMoves
<1>2. add'[p] = l /\ \A q \in Procs \ {p} : add'[q] = add[q]
  BY <1>1, MovesOnType
<1>3. Adding(p) /\ Adding(p)' /\ add[p].pc = "load" /\ ~Searching(p)'
  BY <1>1, <1>2 DEF LoadTotal, Adding, Searching
<1>4. data' = data /\ ran' = ran /\ retaken' = retaken
  BY DEF LoadTotal
<1>5. \A i \in Entries : Additions(i)' = Additions(i)
  BY <1>1, <1>2, <1>3 DEF Additions, Adding
<1>6. p \in Additions(e) /\ \A i \in Entries \ {e} : p \notin Additions(i)
  BY <1>3 DEF Additions
<1>7. \A q \in Procs : Arrived(q)'
  <2>1. Arrived(p)'
    BY <1>1, <1>2, <1>3, <1>4 DEF CountsInv, Arrived, InUse
  <2>2. ASSUME NEW q \in Procs \ {p} PROVE Arrived(q)'
    <3>1. Arrived(q) /\ add'[q] = add[q]
      BY <1>2 DEF CountsInv
    <3> QED BY <3>1, <1>4 DEF Arrived, Searching, Adding, InUse
  <2> QED BY <2>1, <2>2
<1>8. ASSUME NEW i \in Entries \ retaken.entries PROVE EntryCounts(i)'
  <2>1. EntryCounts(i)
    BY DEF CountsInv
  <2>2. CASE i # e
    <3>1. \A q \in Additions(i) : add'[q] = add[q]
      BY <2>2, <1>2, <1>6 DEF Additions
    <3>2. \A m \in Locations : ran'[m] >= ran[m]
      BY <1>4 DEF CollectorTypeOK
    <3> QED BY <2>1, <3>1, <3>2, <1>4, <1>5, EntryKept
  <2>3. CASE i = e
    <3> DEFINE n == Cardinality(Additions(i))
    <3>1. n \in Nat /\ data[i].total \in Nat
      BY AdditionsFinite DEF CollectorTypeOK
    <3>2. ASSUME NEW q \in Additions(i) PROVE add'[q].key = data[i].key
      <4>1. add[q].key = data[i].key /\ q \in Procs
        BY <2>1 DEF EntryCounts, Additions
      <4>2. add'[q].key = add[q].key
        BY <4>1, <1>1, <1>2
      <4> QED BY <4>1, <4>2
    <3>3. InUse(i) => ran[data[i].key] \in Nat
      BY DEF CollectorTypeOK, InUse
    <3>4. ASSUME InUse(i), NEW q \in Additions(i), add'[q].pc = "store"
          PROVE  add'[q].value + n <= ran[data[i].key] + 1
      <4>1. CASE q # p
        BY <4>1, <3>4, <2>1, <1>2 DEF EntryCounts, Additions
      <4>2. CASE q = p
        <5>1. data[i].total + n <= ran[data[i].key]
          BY <3>4, <2>1 DEF EntryCounts
        <5>2. add'[q].value = data[i].total + 1
          BY <4>2, <1>1, <1>2, <2>3
        <5> HIDE DEF n
        <5> QED BY <5>1, <5>2, <3>1, <3>3, <3>4
      <4> QED BY <4>1, <4>2
    <3> QED BY <2>1, <3>2, <3>4, <1>4, <1>5 DEF EntryCounts, InUse
  <2> QED BY <2>2, <2>3
<1>9. ASSUME ~retaken.overlap PROVE Alone'
  <2>1. Alone
    BY <1>9 DEF CountsInv
  <2>2. \A q \in Procs \ {p} : add[q].pc = "idle"
    BY <2>1, <1>3, AloneAdditions
  <2>3. \A q \in Procs : Looked(q)' /\ Due(q)'
    BY <2>2, <1>1, <1>2, <1>3, <1>4 DEF Looked, Due, Searching
  <2>4. \A q, r \in Procs : add'[q].pc # "idle" /\ add'[r].pc # "idle" => q = r
    BY <2>2, <1>2
  <2>5. OneEntryEach' /\ RanHasEntry' /\ \A i \in Entries : Exact(i)'
    BY <2>1, <1>4, <1>5 DEF Alone, OneEntryEach, RanHasEntry, Exact, InUse
  <2> QED BY <2>1, <2>3, <2>4, <2>5, <1>4 DEF Alone
<1>10. TakenInOrder'
  BY <1>4 DEF CountsInv, TakenInOrder, InUse
<1> QED BY <1>4, <1>7, <1>8, <1>9, <1>10 DEF CountsInv

LEMMA StoreTotalCounts ==
  ASSUME CollectorTypeOK, CollectorTypeOK', CountsInv, NEW p \in Procs, StoreTotal(p)
  PROVE  CountsInv'
<1> PICK e \in Entries : add[p].index = e
  BY DEF CollectorTypeOK, Adds
<1> PICK v \in Nat : add[p].value = v
  BY DEF CollectorTypeOK, Adds
<1>1. add[p].pc = "store" /\ Adding(p) /\ add[p].pc # "idle"
  BY DEF StoreTotal, Adding
<1>2. add'[p].pc = "idle" /\ \A q \in Procs \ {p} : add'[q] = add[q]
  BY StoreTotalMoves, MovesOnType
<1>3. ran' = ran /\ retaken' = retaken /\ data' = [data EXCEPT ![e].total = v]
  BY DEF StoreTotal
<1>4. /\ data'[e].total = v /\ data'[e].key = data[e].key
      /\ \A i \in Entries \ {e} : data'[i] = data[i]
      /\ \A i \in Entries : data'[i].key = data[i].key
  BY <1>3 DEF CollectorTypeOK
<1>5. ~Adding(p)' /\ ~Searching(p)'
  BY <1>2 DEF Adding, Searching
<1>6. /\ \A i \in Entries \ {e} : Additions(i)' = Additions(i)
      /\ Additions(e)' = Additions(e) \ {p}
      /\ Cardinality(Additions(e)') = Cardinality(Additions(e)) - 1
  BY <1>1, <1>2, <1>5, AdditionsEnd
<1>7. p \in Additions(e) /\ \A i \in Entries \ {e} : p \notin Additions(i)
  BY <1>1 DEF Additions
<1>8. \A i \in Entries : InUse(i)' <=> InUse(i)
  BY <1>4 DEF InUse
<1>9. InUse(e)
  BY <1>1 DEF CountsInv, Arrived
<1>10. \A q \in Procs : Arrived(q)'
  <2>1. Arrived(p)'
    BY <1>5 DEF Arrived
  <2>2. ASSUME NEW q \in Procs \ {p} PROVE Arrived(q)'
    <3>1. Arrived(q) /\ add'[q] = add[q] /\ add[q].index \in Entries
      BY <1>2 DEF CountsInv, CollectorTypeOK, Adds
    <3> QED BY <3>1, <1>8 DEF Arrived, Searching, Adding
  <2> QED BY <2>1, <2>2
<1>11. ASSUME NEW i \in Entries \ {e}
       PROVE  (EntryCounts(i) => EntryCounts(i)') /\ (Exact(i) => Exact(i)')
  <2>1. \A q \in Additions(i) : add'[q] = add[q]
    BY <1>2, <1>7 DEF Additions
  <2>2. \A m \in Locations : ran'[m] >= ran[m]
    BY <1>3 DEF CollectorTypeOK
  <2> QED BY <2>1, <2>2, <1>3, <1>4, <1>6, EntryKept
<1>12. ASSUME EntryCounts(e) PROVE EntryCounts(e)'
  <2> DEFINE n == Cardinality(Additions(e))
             r == ran[data[e].key]
  <2>1. /\ \A q \in Additions(e) : add[q].key = data[e].key
        /\ \A q \in Additions(e) : add[q].pc = "store" => add[q].value + n <= r + 1
    BY <1>9, <1>12 DEF EntryCounts
  <2>2. n \in Nat /\ r \in Nat /\ \A q \in Additions(e) : add[q].value \in Nat
    BY <1>9, AdditionsFinite DEF CollectorTypeOK, InUse, Additions, Adds
  <2>3. v + n <= r + 1
    BY <1>1, <1>7, <2>1
  <2>4. \A q \in Additions(e)' : q \in Additions(e) /\ add'[q] = add[q]
    BY <1>2, <1>6 DEF Additions
  <2>5. Cardinality(Additions(e)') = n - 1 /\ ran'[data'[e].key] = r
    BY <1>3, <1>4, <1>6
  <2> HIDE DEF n, r
  <2>6. v + (n - 1) <= r
    BY <2>2, <2>3
  <2>7. ASSUME NEW q \in Additions(e)', add'[q].pc = "store"
        PROVE  add'[q].value + (n - 1) <= r + 1
    <3>1. add[q].value + n <= r + 1 /\ add'[q] = add[q] /\ add[q].value \in Nat
      BY <2>1, <2>2, <2>4, <2>7
    <3> QED BY <3>1, <2>2
  <2>8. \A q \in Additions(e)' : add'[q].key = data'[e].key
    BY <1>4, <2>1, <2>4
  <2> QED BY <1>4, <1>8, <1>9, <2>5, <2>6, <2>7, <2>8 DEF EntryCounts
<1>13. ASSUME ~retaken.overlap PROVE Alone'
  <2>1. Alone
    BY <1>13 DEF CountsInv
  <2>2. \A q \in Procs \ {p} : add[q].pc = "idle"
    BY <2>1, <1>1, AloneAdditions
  <2>3. \A q \in Procs : add'[q].pc = "idle"
    BY <2>2, <1>2
  <2>4. \A q \in Procs : Looked(q)' /\ Due(q)'
    BY <2>3 DEF Looked, Due, Searching
  <2>5. OneEntryEach' /\ RanHasEntry'
    BY <2>1, <1>3, <1>4, <1>8 DEF Alone, OneEntryEach, RanHasEntry
  <2>6. Exact(e)'
    <3> DEFINE n == Cardinality(Additions(e))
               r == ran[data[e].key]
    <3>1. v = data[e].total + 1 /\ data[e].total + n = r
      BY <2>1, <1>1, <1>9 DEF Alone, Due, Exact
    <3>2. n \in Nat /\ r \in Nat /\ data[e].total \in Nat
      BY <1>9, AdditionsFinite DEF CollectorTypeOK, InUse
    <3>3. Cardinality(Additions(e)') = n - 1 /\ ran'[data'[e].key] = r
      BY <1>3, <1>4, <1>6
    <3> HIDE DEF n, r
    <3>4. v + (n - 1) = r
      BY <3>1, <3>2
    <3> QED BY <3>3, <3>4, <1>4 DEF Exact
  <2> QED BY <2>1, <2>3, <2>4, <2>5, <2>6, <1>3, <1>11 DEF Alone
<1>14. TakenInOrder'
  BY <1>8 DEF CountsInv, TakenInOrder
<1> QED BY <1>3, <1>10, <1>11, <1>12, <1>13, <1>14 DEF CountsInv

LEMMA CountsStep ==
  ASSUME CollectorTypeOK, CollectorTypeOK', CountsInv, [CollectorNext]_collectorVars
  PROVE  CountsInv'
<1>1. CASE CollectorNext
  BY <1>1, StartAddCounts, CompareOwnCounts, CompareOtherCounts, TestFreeCounts,
     TakeEntryCounts, LoadTotalCounts, StoreTotalCounts
     DEF CollectorNext, AddStep
<1>2. CASE UNCHANGED collectorVars
  <2>1. data' = data /\ add' = add /\ ran' = ran /\ retaken' = retaken
    BY <1>2 DEF collectorVars
  <2>2. /\ TakenInOrder' = TakenInOrder
        /\ \A p \in Procs : Arrived(p)' = Arrived(p)
    BY <2>1 DEF TakenInOrder, Arrived, Searching, Adding, InUse
  <2>3. \A i \in Entries : Additions(i)' = Additions(i)
    BY <2>1 DEF Additions, Adding
  <2>4. \A i \in Entries : (EntryCounts(i) => EntryCounts(i)') /\ (Exact(i) => Exact(i)')
    BY <2>1, <2>3 DEF EntryCounts, Exact, InUse
  <2>5. Alone => Alone'
    BY <2>1, <2>4 DEF Alone, OneEntryEach, RanHasEntry, Looked, Due, InUse, Searching
  <2> QED BY <2>1, <2>2, <2>4, <2>5 DEF CountsInv
<1> QED BY <1>1, <1>2

LEMMA CollectorCountsAddUp == CollectorSpec => []CountsAddUp
<1>1. CollectorInit => CollectorTypeOK /\ CountsInv
  BY CollectorTypeInit, CountsInit
<1>2. CollectorTypeOK /\ CountsInv /\ [CollectorNext]_collectorVars
        => CollectorTypeOK' /\ CountsInv'
  BY CollectorTypeStep, CountsStep
<1>3. CollectorTypeOK /\ CountsInv => CountsAddUp
  BY CountsInvImplies
<1> QED BY <1>1, <1>2, <1>3, PTL DEF CollectorSpec

\* Which PerfCounter is destroyed next; with it, the handlers count as
\* PerfCollector says: each one is a location.
HandlerOK == counting \in [Procs -> Locations \union {"none"}]

LEMMA SpecUsesCollector == Spec => CollectorSpec
<1>1. Init => HandlerOK /\ CollectorInit
  BY DEF Init, HandlerOK
<1>2. HandlerOK /\ [Next]_vars => HandlerOK'
  <2>1. ASSUME HandlerOK, NEW p \in Procs, NEW h \in Handlers, VmExit(p, h) PROVE HandlerOK'
    BY <2>1, ServicesAssumption DEF VmExit, HandlerOK
  <2>2. ASSUME HandlerOK, NEW p \in Procs, MmioRead(p) \/ MonitorCall(p) \/ OtherExit(p)
        PROVE  HandlerOK'
    BY <2>1, <2>2 DEF MmioRead, MonitorCall, OtherExit, Handlers
  <2>3. ASSUME HandlerOK, NEW p \in Procs,
               NextBar(p) \/ Lookup(p) \/ Config(p) \/ Count(p) \/ Hal(p) \/ ReturnToGuest(p)
        PROVE  HandlerOK'
    BY <2>3 DEF NextBar, Lookup, Config, Count, Hal, ReturnToGuest, exitVars, HandlerOK
  <2>4. ASSUME HandlerOK, NEW p \in Procs, EndOfScope(p) PROVE HandlerOK'
    <3>1. "VmExit" \in Locations
      BY ServicesAssumption DEF Handlers, Innermost
    <3> QED BY <2>4, <3>1 DEF EndOfScope, Outer, HandlerOK
  <2>5. UNCHANGED vars /\ HandlerOK => HandlerOK'
    BY DEF vars, exitVars, HandlerOK
  <2> QED BY <2>2, <2>3, <2>4, <2>5 DEF Next
<1>3. HandlerOK /\ [Next]_vars => [CollectorNext]_collectorVars
  <2>1. ASSUME HandlerOK, NEW p \in Procs, EndOfScope(p) PROVE CollectorNext
    <3>1. counting[p] \in Locations
      BY <2>1 DEF EndOfScope, HandlerOK
    <3> QED BY <2>1, <3>1 DEF EndOfScope, CollectorNext
  <2>2. ASSUME NEW p \in Procs, Count(p) PROVE CollectorNext
    BY <2>2 DEF Count, CollectorNext
  <2>3. ASSUME NEW p \in Procs,
               MmioRead(p) \/ MonitorCall(p) \/ NextBar(p) \/ OtherExit(p) \/ Lookup(p)
               \/ Config(p) \/ ReturnToGuest(p) \/ Hal(p)
        PROVE  UNCHANGED collectorVars
    BY <2>3 DEF MmioRead, MonitorCall, NextBar, OtherExit, VmExit, Lookup, Config,
                ReturnToGuest, Hal
  <2>4. UNCHANGED vars => UNCHANGED collectorVars
    BY DEF vars
  <2> QED BY <2>1, <2>2, <2>3, <2>4 DEF Next
<1> QED BY <1>1, <1>2, <1>3, PTL DEF Spec, CollectorSpec

\* "race condition here is not an issue" (performance.cpp:63): for any number
\* of processors, locations and entries, races lose counts and never invent
\* them, and counts that did not overlap are exact.
THEOREM CountsAddUpHolds == Spec => []CountsAddUp
BY SpecUsesCollector, CollectorCountsAddUp, PTL
=============================================================================
