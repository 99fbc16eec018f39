-------------------------- MODULE SpellIndexProofs --------------------------
(***************************************************************************)
(* Theorems about SpellIndex, for any number of nights and any failures.   *)
(*                                                                         *)
(* SomeWholeIndex is not inductive: that a whole index survives the next   *)
(* deletion depends on where the others are.  Kept says where they are: up *)
(* to the swap in the directory in use, between the moves in .old, and     *)
(* from the end of the building on in .new as well.                        *)
(***************************************************************************)
EXTENDS SpellIndex, TLAPS

SpellTypeOK ==
    /\ dir \in [Dirs -> 0..MaxNights + 2]
    /\ place \in Places
    /\ night \in 0..MaxNights
    /\ broken \in Nat

Swapping == place \in {"moveIn", "copy"}

InUse ==
    broken = 0 => IF Swapping THEN Whole("old") ELSE Whole("spell")

Fresh == broken = 0 /\ place = "idle" => dir["spell"] = night

Built ==
    place \in {"clearOld", "moveAway", "moveIn", "copy"} => dir["new"] = night

Kept ==
    broken <= 1 /\ place \in {"idle", "clearNew", "build"} =>
        Whole("spell") \/ Whole("old")

SpellInv == SpellTypeOK /\ InUse /\ Fresh /\ Built /\ Kept

-----------------------------------------------------------------------------

LEMMA SpellInit_Inv == SpellInit => SpellInv
  BY SpellAssumption
     DEF SpellAssumption, SpellInit, SpellInv, SpellTypeOK, InUse, Swapping,
         Fresh, Built, Kept, Whole, Dirs, Places, Absent

LEMMA SpellStep_Inv == SpellInv /\ [SpellNext]_spellVars => SpellInv'
  <1> SUFFICES ASSUME SpellInv, [SpellNext]_spellVars
               PROVE  SpellInv'
    OBVIOUS
  <1> USE SpellAssumption DEF SpellAssumption, SpellInv, SpellTypeOK, InUse,
          Swapping, Fresh, Built, Kept, Whole, Dirs, Places, Absent, Partial,
          EndEarly
  <1>1. CASE StartNight
    BY <1>1 DEF StartNight
  <1>2. CASE ClearNew
    BY <1>2 DEF ClearNew, DeleteFile, DeleteDirectory, DeleteFails
  <1>3. CASE BuildSome
    BY <1>3 DEF BuildSome
  <1>4. CASE BuildDone
    BY <1>4 DEF BuildDone
  <1>5. CASE BuildFails
    BY <1>5 DEF BuildFails
  <1>6. CASE ClearOld
    BY <1>6 DEF ClearOld, DeleteFile, DeleteDirectory, DeleteFails
  <1>7. CASE MoveAway
    BY <1>7 DEF MoveAway
  <1>8. CASE MoveAwayFails
    BY <1>8 DEF MoveAwayFails
  <1>9. CASE MoveIn
    BY <1>9 DEF MoveIn
  <1>10. CASE MoveInFails
    BY <1>10 DEF MoveInFails
  <1>11. CASE CopyDone
    BY <1>11 DEF CopyDone
  <1>12. CASE Crash
    BY <1>12 DEF Crash
  <1>13. CASE UNCHANGED spellVars
    BY <1>13 DEF spellVars
  <1> QED
    BY <1>1, <1>2, <1>3, <1>4, <1>5, <1>6, <1>7, <1>8, <1>9, <1>10, <1>11,
       <1>12, <1>13 DEF SpellNext

LEMMA SpellInvariant == SpellSpec => []SpellInv
  BY SpellInit_Inv, SpellStep_Inv, PTL DEF SpellSpec

\* One early end, at whatever step of createDefaultSpellIndex, leaves a whole
\* index in one of the three directories, and the next night does not delete
\* the last one.
THEOREM IndexSurvives == SpellSpec => []SomeWholeIndex
  <1>1. SpellInv => SomeWholeIndex
    BY SpellAssumption DEF SpellAssumption, SpellInv, SpellTypeOK, InUse,
       Swapping, Built, Kept, SomeWholeIndex, Whole, Dirs, Places
  <1> QED
    BY <1>1, SpellInvariant, PTL

\* The searches have a whole index except while it is swapped or after an
\* early end, and each night that comes to its end leaves its own.
THEOREM IndexFound == SpellSpec => []FoundByDay
  <1>1. SpellInv => FoundByDay
    BY SpellAssumption
       DEF SpellAssumption, SpellInv, SpellTypeOK, InUse, Swapping, Fresh,
           FoundByDay
  <1> QED
    BY <1>1, SpellInvariant, PTL
=============================================================================
