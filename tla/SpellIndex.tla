----------------------------- MODULE SpellIndex -----------------------------
(***************************************************************************)
(* DidYouMeanIndexer.createDefaultSpellIndex: every night the spelling     *)
(* index is built anew beside the one in use, which is then moved out of   *)
(* the way and replaced.  Three directories take part: spell, which the    *)
(* searches read, spell.new and spell.old.  Nothing makes the steps one:   *)
(* an IOException or the end of the process leaves the directories as they *)
(* are, and the next night starts from there.                              *)
(***************************************************************************)
EXTENDS Naturals

CONSTANTS MaxNights,     \* bound: nights
          Faults         \* which failures the environment injects

FaultKinds == {"delete",   \* a file cannot be deleted: it is open
               "build",    \* the program index cannot be read
               "rename",   \* a directory cannot be renamed: it is open
               "crash"}    \* the site is killed

ASSUME SpellAssumption == MaxNights \in Nat /\ Faults \subseteq FaultKinds

VARIABLES
    dir,       \* what each directory holds: Absent, Partial, or a whole index,
               \* which is the number of the night it was built in
    place,     \* where createDefaultSpellIndex is, see Places
    night,     \* how often it was called
    broken     \* history: nights that ended early, running one excluded,
               \* since a night last came to its end

spellVars == <<dir, place, night, broken>>

Dirs == {"spell", "new", "old"}
Absent == MaxNights + 1
Partial == MaxNights + 2
Places == {"idle", "clearNew", "build", "clearOld", "moveAway", "moveIn",
           "copy"}

Whole(d) == dir[d] <= MaxNights

\* The index of night 0 was made by ccdataindexer's SpellIndexer, or is there
\* from an earlier life.
SpellInit ==
    /\ dir = [d \in Dirs |-> IF d = "spell" THEN 0 ELSE Absent]
    /\ place = "idle" /\ night = 0 /\ broken = 0

-----------------------------------------------------------------------------

\* CheckAlertsThread.refreshDidYouMeanIndex
StartNight ==
    /\ place = "idle" /\ night < MaxNights
    /\ night' = night + 1 /\ place' = "clearNew"
    /\ UNCHANGED <<dir, broken>>

\* An exception ends the night, and so does the end of the process.
EndEarly == place' = "idle" /\ broken' = broken + 1

\* The files of a directory go one by one, then the directory.
DeleteFile(d) ==
    /\ dir[d] # Absent /\ dir' = [dir EXCEPT ![d] = Partial]
    /\ UNCHANGED <<place, night, broken>>

DeleteDirectory(d, next) ==
    /\ dir[d] # Absent => dir[d] = Partial
    /\ dir' = [dir EXCEPT ![d] = Absent]
    /\ place' = next /\ UNCHANGED <<night, broken>>

DeleteFails(d) ==
    /\ "delete" \in Faults /\ dir[d] # Absent
    /\ EndEarly /\ UNCHANGED <<dir, night>>

ClearNew ==
    /\ place = "clearNew"
    /\ \/ DeleteFile("new") \/ DeleteDirectory("new", "build")
       \/ DeleteFails("new")

\* createSpellIndex writes into the new directory.
BuildSome ==
    /\ place = "build" /\ dir' = [dir EXCEPT !["new"] = Partial]
    /\ UNCHANGED <<place, night, broken>>

BuildDone ==
    /\ place = "build" /\ dir' = [dir EXCEPT !["new"] = night]
    /\ place' = "clearOld" /\ UNCHANGED <<night, broken>>

BuildFails ==
    /\ place = "build" /\ "build" \in Faults
    /\ EndEarly /\ UNCHANGED <<dir, night>>

ClearOld ==
    /\ place = "clearOld"
    /\ \/ DeleteFile("old") \/ DeleteDirectory("old", "moveAway")
       \/ DeleteFails("old")

\* mutant: the index in use is deleted instead of kept
MoveAwayDeletes ==
    /\ place = "moveAway" /\ place' = "moveIn"
    /\ dir' = [dir EXCEPT !["spell"] = Absent]
    /\ UNCHANGED <<night, broken>>

\* After an early end there may be nothing to move.
MoveAway ==
    /\ place = "moveAway" /\ place' = "moveIn"
    /\ dir' = [dir EXCEPT !["old"] = dir["spell"], !["spell"] = Absent]
    /\ UNCHANGED <<night, broken>>

MoveAwayFails ==
    /\ place = "moveAway" /\ "rename" \in Faults /\ dir["spell"] # Absent
    /\ EndEarly /\ UNCHANGED <<dir, night>>

MoveIn ==
    /\ place = "moveIn" /\ place' = "idle" /\ broken' = 0
    /\ dir' = [dir EXCEPT !["spell"] = dir["new"], !["new"] = Absent]
    /\ UNCHANGED night

\* mutant: the copy is left out, and the failing rename is taken for a success
MoveInFailsSilently ==
    /\ place = "moveIn" /\ "rename" \in Faults
    /\ place' = "idle" /\ broken' = 0
    /\ UNCHANGED <<dir, night>>

\* The new directory cannot be renamed, so a directory is made for its files.
MoveInFails ==
    /\ place = "moveIn" /\ "rename" \in Faults
    /\ place' = "copy" /\ dir' = [dir EXCEPT !["spell"] = Partial]
    /\ UNCHANGED <<night, broken>>

\* The last file is copied; the new directory stays as it is.
CopyDone ==
    /\ place = "copy" /\ place' = "idle" /\ broken' = 0
    /\ dir' = [dir EXCEPT !["spell"] = dir["new"]]
    /\ UNCHANGED night

Crash ==
    /\ "crash" \in Faults /\ place # "idle"
    /\ EndEarly /\ UNCHANGED <<dir, night>>

SpellNext ==
    \/ StartNight \/ ClearNew \/ BuildSome \/ BuildDone \/ BuildFails
    \/ ClearOld \/ MoveAway \/ MoveAwayFails \/ MoveIn \/ MoveInFails
    \/ CopyDone \/ Crash

SpellSpec == SpellInit /\ [][SpellNext]_spellVars

-----------------------------------------------------------------------------
(* Properties.                                                             *)

\* After one early end, whatever the step it came at, and through the night
\* that follows, a whole index is in one of the directories.  (After two there
\* may be none: the one in .new is deleted first, and the one in .old may have
\* been deleted by the night before.)
SomeWholeIndex == broken <= 1 => \E d \in Dirs : Whole(d)

\* The searches find a whole index at all times, except between the two moves
\* ("some small risk"), and after an early end until a night comes to its end:
\* then it is the index of that night, whatever the early ends left behind.
FoundByDay ==
    broken = 0 /\ place \notin {"moveIn", "copy"} =>
        /\ Whole("spell")
        /\ place = "idle" => dir["spell"] = night
=============================================================================
