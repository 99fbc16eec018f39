--------------------------- MODULE CaptionListener ---------------------------
(***************************************************************************)
(* com.appeligo.captions.CaptionListener of the search site, for one       *)
(* channel: it collects the sentences of the showing on air in a           *)
(* ProgramCaptions, shows them in the live index as they come, and puts    *)
(* the whole text into the program index when the showing is over.  It     *)
(* learns that from the start event of the next one or, should that be     *)
(* lost, from the first sentence of another showing.                       *)
(*                                                                         *)
(* What it adds to an index is queued (IndexerQueue) and seen later, or    *)
(* never.                                                                  *)
(***************************************************************************)
EXTENDS CaptionEvents

CONSTANT MaxLosses    \* bound: restarts and other losses of what is in memory

VARIABLES
    captions,      \* captions.get(callsign), Nothing for null
    programIndex,  \* for each program id the document that was there when the
                   \* site was started, and those queued since to replace it
    live,          \* the document last queued for the channel in the live
                   \* index, which shows that one, an earlier one or none
    accepted,      \* history: sentences accepted for each showing
    interrupted,   \* history: showings that were not collected in one piece
                   \* from their start event on, or lost when they were over
    losses         \* number of losses of what is in memory

listenerVars == <<captions, programIndex, live, accepted, interrupted, losses>>

\* start: the showing whose start minute ProgramCaptions.startTime is.
ProgramCaptions(p, start, text) == [prog |-> p, start |-> start, text |-> text]
Nothing == ProgramCaptions(0, 0, <<>>)

\* What getScheduleId() / 60000 gives: no start minute of any showing.
ScheduleId == 0

ListenerInit ==
    /\ captions = Nothing
    /\ programIndex = [t \in Titles |-> <<Nothing>>]
    /\ live = Nothing
    /\ accepted = [p \in Programs |-> <<>>]
    /\ interrupted = {} /\ losses = 0

TitleIsCurrent(p) ==               \* mutant: the start time is not compared
    Title[captions.prog] = Title[p]

IsCurrentProgram(p) ==
    Title[captions.prog] = Title[p] /\ captions.start = p

\* LuceneIndexer.addProgram(..., replace = true)
AddProgram(c) ==
    programIndex' = [programIndex EXCEPT ![Title[c.prog]] = Append(@, c)]

\* addToLiveIndex deletes the channel's document and adds the new one.
AddToLiveIndex == live' = captions'

Accept(e) == accepted' = [accepted EXCEPT ![e.prog] = Append(@, e.id)]

-----------------------------------------------------------------------------
(* captureSentence.                                                        *)

\* Nothing is known of the channel: the sentences the caption store has of the
\* showing up to this event, as far as it gets, come before the one at hand.
ColdStart(e, store) ==
    /\ captions = Nothing
    /\ \E n \in 0..Len(store) :
          /\ \A i \in 1..n : store[i] <= e.id
          /\ captions' = ProgramCaptions(e.prog, ScheduleId,
                                         Append(SubSeq(store, 1, n), e.id))
    /\ AddToLiveIndex /\ Accept(e)
    /\ interrupted' = interrupted \union {e.prog}
    /\ UNCHANGED <<programIndex, losses>>

SameProgram(e) ==
    /\ captions # Nothing /\ IsCurrentProgram(e.prog)
    /\ captions' = [captions EXCEPT !.text = Append(@, e.id)]
    /\ AddToLiveIndex /\ Accept(e)
    /\ UNCHANGED <<programIndex, interrupted, losses>>

ProgramChanged(e) ==
    /\ captions # Nothing /\ ~IsCurrentProgram(e.prog)
    /\ AddProgram(captions)
    /\ captions' = ProgramCaptions(e.prog, e.prog, <<e.id>>)
    /\ AddToLiveIndex /\ Accept(e)
    /\ UNCHANGED <<interrupted, losses>>

\* getSchedulePrograms throws, or getNetwork() gave null: before anything is
\* done or, in the second half, after the old captions have been queued.
CaptureFails(e) ==
    /\ "epg" \in Faults
    /\ captions # Nothing => ~IsCurrentProgram(e.prog)
    /\ \/ UNCHANGED programIndex
       \/ captions # Nothing /\ AddProgram(captions)
    /\ UNCHANGED <<captions, live, accepted, interrupted, losses>>

-----------------------------------------------------------------------------
(* startProgram.                                                           *)

\* The program of the event has no network.
StartIgnored == "epg" \in Faults /\ UNCHANGED listenerVars

\* It has one, here and in what follows.
StartUnknown == captions = Nothing /\ UNCHANGED listenerVars

StartForgetsOld(e) ==       \* mutant: the old captions are not indexed
    /\ captions # Nothing
    /\ captions' = ProgramCaptions(e.prog, ScheduleId, <<>>)
    /\ UNCHANGED <<programIndex, live, accepted, interrupted, losses>>

StartKnown(e) ==
    /\ captions # Nothing
    /\ AddProgram(captions)
    /\ captions' = ProgramCaptions(e.prog, ScheduleId, <<>>)
    /\ UNCHANGED <<live, accepted, interrupted, losses>>

\* getSchedulePrograms throws, after captions.remove: what was collected is
\* gone.
StartFails ==
    /\ "epg" \in Faults
    /\ captions # Nothing
    /\ captions' = Nothing
    /\ interrupted' = interrupted \union {captions.prog}
    /\ UNCHANGED <<programIndex, live, accepted, losses>>

-----------------------------------------------------------------------------
(* What is lost in memory.                                                 *)

\* What the program index shows of program t once the queue is through.
Indexed(t) == programIndex[t][Len(programIndex[t])]

\* What it shows before: nothing, while a deletion is performed and the
\* addition that follows it is not.
Showable(t) == SeqSet(programIndex[t])
                 \union (IF Len(programIndex[t]) > 1 THEN {Nothing} ELSE {})

\* The showings of program t that go when the queue is lost at the moment at
\* which the index shows c.
LostAfter(t, c) ==
    IF c = Indexed(t) THEN {}
    ELSE {p \in Programs : Title[p] = t /\ p <= Indexed(t).prog}

Loss == losses < MaxLosses /\ losses' = losses + 1

\* The indexer skips an action that throws, or throws the batch away.
IndexerGivesUp(t) ==
    /\ "index" \in Faults /\ Loss
    /\ \E c \in Showable(t) \ {Indexed(t)} :
          /\ programIndex' = [programIndex EXCEPT ![t] = <<c>>]
          /\ interrupted' = interrupted \union LostAfter(t, c)
    /\ UNCHANGED <<captions, live, accepted>>

\* The HashMap that the threads of all channels use without a lock loses the
\* entry of this one.
EntryLost ==
    /\ captions # Nothing
    /\ interrupted' = interrupted \union {captions.prog}
    /\ UNCHANGED <<programIndex, live, accepted>>

\* The site restarts.  The queues of the indexers are in memory only.
SiteRestarts ==
    /\ \E shown \in [Titles -> UNION {Showable(t) : t \in Titles}] :
          /\ \A t \in Titles : shown[t] \in Showable(t)
          /\ programIndex' = [t \in Titles |-> <<shown[t]>>]
          /\ interrupted' = interrupted
                \union {p \in Programs :
                          p \in LostAfter(Title[p], shown[Title[p]])}
                \union ({captions.prog} \ {0})
    /\ UNCHANGED <<live, accepted>>

Forget ==
    /\ "forget" \in Faults /\ Loss
    /\ captions' = Nothing
    /\ EntryLost \/ SiteRestarts

\* The call for event e, as far as it returns a status; store is what the
\* caption store gets of the showing.
Handle(e, store) ==
    CASE e.kind = "sentence" -> ColdStart(e, store) \/ SameProgram(e)
                                \/ ProgramChanged(e) \/ CaptureFails(e)
      [] e.kind = "start" -> StartIgnored \/ StartUnknown \/ StartKnown(e)
      [] e.kind = "other" -> UNCHANGED listenerVars

-----------------------------------------------------------------------------
(* Properties.                                                             *)

\* "Attempting to recover scheduled program, must have been a cold start.":
\* a showing found on a cold start is indexed whole too, with what the
\* caption store had of it.
ColdStartRecovers ==
    \A p \in interrupted :
        (p < captions.prog /\ Indexed(Title[p]).prog = p) =>
            SeqSet(accepted[p]) \subseteq SeqSet(Indexed(Title[p]).text)
=============================================================================
