---------------------------- MODULE ProgramIndex -----------------------------
(***************************************************************************)
(* com.appeligo.lucene.LuceneIndexer on top of its IndexerQueue: the       *)
(* program index of the search site.  A program has one document there.    *)
(* CaptionListener (servlet threads) replaces it when the captions of a    *)
(* showing are complete, and EpgIndexer (the thread of CheckAlertsThread)  *)
(* rewrites it when the schedule of the program changed, keeping the       *)
(* captions it finds.  The composite index is not modelled: its updates go *)
(* the same way, but addCompositeProgram queues a document it left empty.  *)
(*                                                                         *)
(* Neither is atomic.  Both queue a deletion and an addition in two calls, *)
(* which may be performed in two batches with another thread's calls in    *)
(* between, and updateProgram first reads the captions from the index,     *)
(* which does not show what is still queued, and takes a program it could  *)
(* not read for a new one.                                                 *)
(***************************************************************************)
EXTENDS IndexerQueue

CONSTANTS Callers,        \* threads that call LuceneIndexer
          Programs,       \* program ids
          MaxCalls        \* bound: calls of addProgram and updateProgram

NoCaptions == 0    \* captions are named by the addProgram that sent them

VARIABLES
    issued,      \* the queued actions, by number
    caller,      \* what each thread is doing
    calls,       \* number of calls so far
    latest,      \* history: captions of the last addProgram, per program
    overlapped,  \* history: a call ran beside another one, or an update read
                 \* an index that did not show all queued actions
    misread,     \* history: programs that an update could not read, and that
                 \* no addProgram has replaced since
    thrown       \* history: actions lost by a Throwable or a failing close,
                 \* in a virtual machine that lived on

callVars == <<issued, caller, calls, latest, overlapped, misread>>
progVars == <<vars, callVars, thrown>>

Deletion(p) == [type |-> "delete", prog |-> p]
\* since: how many actions had been queued when the call that replaces the
\* program began; 0 for a call that replaces nothing.
Addition(p, text, since) == [type |-> "add", prog |-> p, text |-> text,
                             since |-> since]

Idle == [pc |-> "idle"]

\* Nothing is queued or being indexed: a searcher opened now sees it all.
Settled == actionList = <<>> /\ toIndex = <<>> /\ buffered = <<>>

AllIdle == \A t \in Callers : caller[t] = Idle

\* The documents of program p that a searcher opened now finds: those whose
\* addition is in the index and not followed there by a deletion of p.
Live(p) ==
    {a \in SeqSet(index) :
        /\ issued[a].type = "add" /\ issued[a].prog = p
        /\ \A d \in SeqSet(index) : issued[d] = Deletion(p) => d < a}

\* hits.doc(0): documents come in the order in which they were added.
FirstHit(p) == CHOOSE a \in Live(p) : \A b \in Live(p) : a <= b

ProgramInit ==
    /\ Init
    /\ issued = <<>>
    /\ caller = [t \in Callers |-> Idle]
    /\ calls = 0
    /\ latest = [p \in Programs |-> NoCaptions]
    /\ overlapped = FALSE /\ misread = {} /\ thrown = {}

-----------------------------------------------------------------------------
(* The calls.                                                              *)

Call(t) == /\ at # "down"
           /\ caller[t] = Idle
           /\ calls < MaxCalls /\ calls' = calls + 1

\* addProgram with replace = true, as all its callers have it for the
\* program index: the deletion comes first.
AddStartsWithAddition == "add"      \* mutant: replace is ignored
AddStartsWith == "delete"

AddProgram(t, p) ==
    /\ Call(t)
    /\ caller' = [caller EXCEPT ![t] = [pc |-> AddStartsWith, prog |-> p,
                                        text |-> calls + 1, since |-> sent]]
    /\ latest' = [latest EXCEPT ![p] = calls + 1]
    /\ overlapped' = (overlapped \/ ~AllIdle)
    /\ misread' = misread \ {p}
    /\ UNCHANGED <<vars, issued, thrown>>

CaptionsForgotten(doc) == NoCaptions    \* mutant: captions are not copied
CaptionsKept(doc) == issued[doc].text

\* What updateProgram goes on to do for a program it takes for new, and for
\* one whose first document a fresh searcher found: only that is deleted.
AsNew(p) == [pc |-> "add", prog |-> p, text |-> NoCaptions, since |-> 0]
AsKnown(p) == [pc |-> "delete", prog |-> p,
               text |-> CaptionsKept(FirstHit(p)), since |-> sent]

UpdateProgram(t, p) ==
    /\ created
    /\ Call(t)
    /\ caller' = [caller EXCEPT ![t] = IF Live(p) = {} THEN AsNew(p)
                                      ELSE AsKnown(p)]
    /\ overlapped' = (overlapped \/ ~AllIdle \/ ~Settled)
    /\ UNCHANGED <<vars, issued, latest, misread, thrown>>

\* getProgramDocument catches the IOException of the search and returns null:
\* the program is taken for new whatever the index holds of it.
UpdateMisreads(t, p) ==
    /\ created /\ "read" \in Faults
    /\ Call(t)
    /\ caller' = [caller EXCEPT ![t] = AsNew(p)]
    /\ overlapped' = (overlapped \/ ~AllIdle \/ ~Settled)
    /\ misread' = misread \union {p}
    /\ UNCHANGED <<vars, issued, latest, thrown>>

\* No searcher can be opened, because there is no index or its opening threw:
\* searcher.close() throws a NullPointerException and nothing is queued.  Such
\* calls leave no trace and do not count towards MaxCalls.
UpdateThrows(t) ==
    /\ ~created \/ "read" \in Faults
    /\ at # "down" /\ caller[t] = Idle
    /\ UNCHANGED progVars

SendDeleteOnly(t) ==        \* mutant: the call ends after the deletion
    /\ caller[t] # Idle /\ caller[t].pc = "delete"
    /\ AddQueueAction
    /\ issued' = Append(issued, Deletion(caller[t].prog))
    /\ caller' = [caller EXCEPT ![t] = Idle]
    /\ UNCHANGED <<calls, latest, overlapped, misread, thrown>>

\* queue.deleteDocuments(new Term("programID", programId))
SendDelete(t) ==
    /\ caller[t] # Idle /\ caller[t].pc = "delete"
    /\ AddQueueAction
    /\ issued' = Append(issued, Deletion(caller[t].prog))
    /\ caller' = [caller EXCEPT ![t].pc = "add"]
    /\ UNCHANGED <<calls, latest, overlapped, misread, thrown>>

\* queue.addDocument(doc)
SendAdd(t) ==
    /\ caller[t] # Idle /\ caller[t].pc = "add"
    /\ AddQueueAction
    /\ issued' = Append(issued, Addition(caller[t].prog, caller[t].text,
                                         caller[t].since))
    /\ caller' = [caller EXCEPT ![t] = Idle]
    /\ UNCHANGED <<calls, latest, overlapped, misread, thrown>>

\* The calls that were running die with the virtual machine.
ProgramCrash ==
    /\ Crash
    /\ caller' = [t \in Callers |-> Idle]
    /\ UNCHANGED <<issued, calls, latest, overlapped, misread, thrown>>

Calling == \E t \in Callers :
              \/ \E p \in Programs : \/ AddProgram(t, p)
                                    \/ UpdateProgram(t, p)
                                    \/ UpdateMisreads(t, p)
              \/ UpdateThrows(t)
              \/ SendDelete(t) \/ SendAdd(t)

\* The steps of the indexer, of the garbage collector and of the restart.
IndexerStep ==
    /\ Indexer \/ FinalizeWriter \/ Restart
    /\ thrown' = thrown \union (lost' \ lost)
    /\ UNCHANGED callVars

ProgramNext == Calling \/ IndexerStep \/ ProgramCrash

ProgramSpec == ProgramInit /\ [][ProgramNext]_progVars

-----------------------------------------------------------------------------
(* Properties.                                                             *)

Quiet == AllIdle /\ Settled

Touched == {issued[a].prog : a \in 1..sent}

\* An action of program p was skipped or thrown away.
GivenUp(p) == \E a \in failed \union lost : issued[a].prog = p

\* However the calls of several threads interleave, no program that was ever
\* added is missing from the index once everything is performed: deletions
\* and additions are interleaved, but each deletion is followed by an
\* addition of the thread that asked for it.  Failures of other programs'
\* actions do not matter.  A failure of one of its own, or a crash between the
\* deletion and the addition, may leave the program missing.
NeverLeftMissing ==
    (Quiet /\ crashes = 0) =>
        \A p \in Touched : GivenUp(p) \/ Live(p) # {}

\* Calls that do not run beside each other, and updates that see the index
\* of all earlier calls, leave one document for each program, and it has the
\* captions of the last addProgram, whatever updates came after it and
\* whatever became of the actions of other programs.  A program that an update
\* failed to read since may have a second document, without captions; the next
\* addProgram removes both.
\* It is what CaptionListener and EpgIndexer rely on and do not arrange.
OneDocumentWithLatestCaptions ==
    (Quiet /\ ~overlapped /\ crashes = 0) =>
        \A p \in Touched :
            \/ GivenUp(p) \/ p \in misread
            \/ \E a \in Live(p) : Live(p) = {a} /\ issued[a].text = latest[p]

\* As soon as a searcher sees the document a replacing call added, it sees
\* none that had been queued before that call, not even after a crash between
\* the deletion and the addition, which ends the call: the addition is never
\* queued, or dies with the deletion.  Only where a deletion queued between
\* the beginning of that very call and its addition was skipped, thrown away
\* with its batch or lost by a failing close may the old document stay: the
\* call goes on, and so does the indexer once the lock is free.
ReplacedTogether ==
    \A a \in SeqSet(index) :
        issued[a].type = "add" =>
            \/ \A b \in Live(issued[a].prog) : b > issued[a].since
            \/ \E d \in (failed \union thrown)
                           \intersect (issued[a].since + 1)..(a - 1) :
                   issued[d] = Deletion(issued[a].prog)
=============================================================================
