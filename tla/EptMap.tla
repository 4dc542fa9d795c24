------------------------------- MODULE EptMap -------------------------------
(***************************************************************************)
(* What an EPT promises: a map from guest pages that are mapped to the     *)
(* host page and memory type they have.  A page is mapped to itself, once, *)
(* and keeps its mapping until the whole EPT is torn down.  The memory     *)
(* types are settled before the first page is mapped.                      *)
(***************************************************************************)
CONSTANTS Pages, Unmapped

VARIABLES translation, typeOf

mapVars == <<translation, typeOf>>

Empty == [p \in Pages |-> Unmapped]

MapInit == translation = Empty

SettleTypes == translation = Empty /\ UNCHANGED translation

Map(p) ==
  /\ translation[p] = Unmapped
  /\ translation' = [translation EXCEPT ![p] =
                       [present |-> TRUE, page |-> p, type |-> typeOf[p]]]
  /\ UNCHANGED typeOf

TearDown == translation' = Empty /\ UNCHANGED typeOf

MapSpec ==
  MapInit /\ [][SettleTypes \/ (\E p \in Pages : Map(p)) \/ TearDown]_mapVars
=============================================================================
