--------------------------- MODULE CaptionPipeline ---------------------------
(***************************************************************************)
(* The way of a caption: CaptionReader makes events, Destinations offers   *)
(* them to the CookedQueue, whose thread calls the CaptionListener of the  *)
(* search site.  Three threads: the reader, the sender and the servlet     *)
(* thread, which the sender waits for.                                     *)
(***************************************************************************)
EXTENDS CaptionReader, CookedQueue, CaptionListener

pipelineVars == <<readerVars, queueVars, listenerVars>>

PipelineInit == ReaderInit /\ QueueInit /\ ListenerInit

ReaderStep == (Tick \/ Reading) /\ UNCHANGED <<queueVars, listenerVars>>

\* Destinations.setProgram, writeSentence, writeXDS, ...: one offer each.
OfferPending ==
    /\ pending # <<>>
    /\ Offer(Head(pending)) /\ pending' = Tail(pending)
    /\ UNCHANGED <<clock, reader, program, endsAtZero, printedProgramError,
                   heard, spoken, starts, endless, listenerVars>>

ReaderStops == ReaderEnds /\ UNCHANGED <<queueVars, listenerVars>>

\* In the repository only SendSentenceTest disconnects, when it has stopped the
\* reader.
Disconnect == /\ reader = "ended" /\ ~aborted /\ SetAborted
              /\ UNCHANGED <<readerVars, listenerVars>>

\* What FileWriter writes of the showing.
Stored(e) == spoken[e.prog]

Deliver == TrySucceeds /\ Handle(toSend, Stored(toSend))
                       /\ UNCHANGED readerVars

Unreachable == "down" \in Faults /\ TryFails
               /\ UNCHANGED <<readerVars, listenerVars>>

ReplyLost == "reply" \in Faults
             /\ TryFailsAfterwards /\ Handle(toSend, Stored(toSend))
             /\ UNCHANGED readerVars

HangsUnheard == TryHangs(FALSE) /\ UNCHANGED <<readerVars, listenerVars>>

HangsHandled == TryHangs(TRUE) /\ Handle(toSend, Stored(toSend))
                               /\ UNCHANGED readerVars

\* startProgram has no catch: its exception comes back to the sender.
StartThrows == toSend.kind = "start" /\ TryFails /\ StartFails
               /\ UNCHANGED readerVars

SenderLoop == (TestAborted \/ Take \/ GiveUp)
              /\ UNCHANGED <<readerVars, listenerVars>>

SenderDeath == SenderDies /\ UNCHANGED <<readerVars, listenerVars>>

SiteForgets == Forget /\ UNCHANGED <<readerVars, queueVars>>

IndexFails == /\ \E t \in Titles : IndexerGivesUp(t)
              /\ UNCHANGED <<readerVars, queueVars>>

SenderStep == SenderLoop \/ Deliver \/ Unreachable \/ ReplyLost \/ StartThrows

PipelineNext == \/ ReaderStep \/ OfferPending \/ ReaderStops \/ Disconnect
                \/ SenderStep \/ HangsUnheard \/ HangsHandled \/ SenderDeath
                \/ SiteForgets \/ IndexFails

PipelineSpec == PipelineInit /\ [][PipelineNext]_pipelineVars

\* The reader and the sender are running threads, and a call returns, throws
\* or hangs.  Nothing makes the channel talk, the clock reach the end of a
\* showing, or a call succeed.
FairPipelineSpec == PipelineSpec /\ WF_pipelineVars(OfferPending)
                                 /\ WF_pipelineVars(SenderStep)

-----------------------------------------------------------------------------
(* Properties.                                                             *)

\* The sentences of the reader that were made for a showing of program t.
ShowingsOf(t) == {p \in Programs : Title[p] = t}
SpokenOf(t) == UNION {SeqSet(spoken[p]) : p \in ShowingsOf(t)}

\* Whatever is lost, repeated or forgotten on the way, no document and no
\* captions in memory show under a program what was said in another one.
OnlyItsOwnSentences ==
    /\ \A t \in Titles : \A c \in SeqSet(programIndex[t]) :
          SeqSet(c.text) \subseteq SpokenOf(t)
    /\ \A c \in {captions, live} \ {Nothing} :
          SeqSet(c.text) \subseteq SeqSet(spoken[c.prog])

\* Once the listener has moved on from a showing it collected from its start
\* event on, the program index has all the sentences it accepted for it, in
\* order, as soon as the indexer is through, until a later showing of the same
\* program replaces them.  Only a restart, before the document was indexed or
\* while that of a rerun was queued, an indexer that gives up and an EPG
\* service that fails at the next start event lose any, or one that knows no
\* end of the showing: each start event clears its captions.
CompleteOnceOver ==
    \A p \in Programs \ interrupted :
        (p < captions.prog /\ accepted[p] # <<>> /\ starts[p] <= 1) =>
            LET c == Indexed(Title[p]) IN
              c.prog > p \/ (c.prog = p /\ c.text = accepted[p])

\* The way of an event is a line with one end and one head: the event being
\* sent, those in the queue and those the reader still has to offer.
InSending == IF sender = "send" THEN <<toSend>> ELSE <<>>

Channel == INSTANCE EventChannel
              WITH last <- IF reader = "new" THEN 0 ELSE 2 * heard + 2,
                   line <- InSending \o sendQueue \o pending,
                   served <- done

ChannelSpec == Channel!Spec
=============================================================================
