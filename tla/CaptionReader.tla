---------------------------- MODULE CaptionReader ----------------------------
(***************************************************************************)
(* CaptionReaderThread and VBIReaderThread of channelfeed: the thread that *)
(* reads the captions of one channel, asks the EPG service which program   *)
(* is on air and hands events to the destinations.                         *)
(***************************************************************************)
EXTENDS CaptionEvents

CONSTANTS MaxHeard,      \* bound: sentences and other data on line 21
          EpgAnswers,    \* what the EPG service may answer
          Debug          \* log.isDebugEnabled()

EpgKinds == {"program",  \* the program at that time
             "zeroEnd",  \* the program, with an end time of zero
             "null",     \* no program
             "error"}    \* the call fails

ASSUME ReaderAssumption == /\ MaxHeard \in Nat
                           /\ EpgAnswers \subseteq EpgKinds
                           /\ Debug \in BOOLEAN

VARIABLES
    clock,        \* the time of day
    reader,       \* the reader thread: "new", "reading" or "ended"
    program,      \* CaptionReaderThread.program, 0 for null
    endsAtZero,   \* its end time is zero
    printedProgramError,
    heard,        \* pieces of caption data heard so far
    pending,      \* events the thread still has to offer to the queue
    spoken,       \* history: the sentences made for each showing
    starts,       \* history: the start events made for each showing
    endless       \* history: showings taken with an end time of zero

readerVars == <<clock, reader, program, endsAtZero, printedProgramError,
                heard, pending, spoken, starts, endless>>

ReaderInit ==
    /\ clock \in {1, 2}
    /\ reader = "new" /\ program = 0 /\ endsAtZero = FALSE
    /\ printedProgramError = FALSE
    /\ heard = 0 /\ pending = <<>>
    /\ spoken = [p \in Programs |-> <<>>]
    /\ starts = [p \in Programs |-> 0] /\ endless = {}

\* Time passes.  The last showing of the schedule never gets to its end.
Tick == /\ clock < 2 * MaxPrograms - 1
        /\ clock' = clock + 1
        /\ UNCHANGED <<reader, program, endsAtZero, printedProgramError,
                       heard, pending, spoken, starts, endless>>

-----------------------------------------------------------------------------
(* CaptionReaderThread.setProgram(long).                                   *)

\* An invalid program is reported once and dropped then.  The second time, or
\* when df is null because debugging is off and the report itself throws, it
\* is used.
Dropped(answer) == answer = "zeroEnd" /\ Debug /\ ~printedProgramError

AskEpg(answer) ==
    /\ program' = IF answer \in {"null", "error"} \/ Dropped(answer)
                  THEN 0 ELSE OnAirSoon(clock)
    /\ endsAtZero' = (program' # 0 /\ answer = "zeroEnd")
    /\ endless' = IF endsAtZero' THEN endless \union {program'} ELSE endless
    /\ printedProgramError' =
          IF program' # 0 THEN FALSE
          ELSE printedProgramError \/ (Debug /\ answer # "error")

\* setProgram(ScheduledProgram) tells the destinations; null makes no event.
StartEvents(id) ==
    IF program' = 0 THEN <<>> ELSE <<ProgramStartEvent(program', id)>>

SetProgram(answer, id) ==
    /\ AskEpg(answer)
    /\ starts' = IF program' = 0 THEN starts
                 ELSE [starts EXCEPT ![program'] = @ + 1]

\* VBIReaderThread.run starts with setProgram(now).
StartReading ==
    /\ reader = "new" /\ reader' = "reading"
    /\ \E answer \in EpgAnswers :
          /\ SetProgram(answer, 0)
          /\ pending' = StartEvents(0)
    /\ UNCHANGED <<clock, heard, spoken>>

-----------------------------------------------------------------------------
(* Data heard on the channel.                                              *)

\* timestamp > getProgram().getEndTime().getTime()
NeverOver == FALSE          \* mutant: the end of the program is not noticed
ProgramOver == endsAtZero \/ clock > 2 * program

Hear == /\ reader = "reading" /\ pending = <<>>
        /\ heard < MaxHeard /\ heard' = heard + 1
        /\ UNCHANGED <<clock, reader>>

Say(startEvents) ==
    IF program' = 0 THEN pending' = <<>> /\ UNCHANGED spoken
    ELSE /\ pending' = startEvents \o <<CCSentenceEvent(program', heard')>>
         /\ spoken' = [spoken EXCEPT ![program'] = Append(@, heard')]

SentenceSameProgram ==
    /\ Hear
    /\ program # 0 /\ ~ProgramOver
    /\ UNCHANGED <<program, endsAtZero, printedProgramError, starts, endless>>
    /\ Say(<<>>)

SentenceAsksAgainSilently ==  \* mutant: the destinations are not told
    /\ Hear
    /\ program = 0 \/ ProgramOver
    /\ \E answer \in EpgAnswers : AskEpg(answer) /\ UNCHANGED starts
    /\ Say(<<>>)

SentenceNewProgram ==
    /\ Hear
    /\ program = 0 \/ ProgramOver
    /\ \E answer \in EpgAnswers : SetProgram(answer, heard')
    /\ Say(StartEvents(heard'))

\* updatedXDS, ITV links and caption type changes never ask the EPG.
OtherData ==
    /\ Hear
    /\ program # 0
    /\ pending' = <<OtherEvent(program, heard')>>
    /\ UNCHANGED <<program, endsAtZero, printedProgramError, spoken, starts,
                   endless>>

\* The socket closes or exceptions come too often: the thread leaves its loop.
ReaderEnds ==
    /\ "disconnect" \in Faults
    /\ reader = "reading" /\ pending = <<>> /\ reader' = "ended"
    /\ UNCHANGED <<clock, program, endsAtZero, printedProgramError, heard,
                   pending, spoken, starts, endless>>

Reading == StartReading \/ SentenceSameProgram \/ SentenceNewProgram
           \/ OtherData

-----------------------------------------------------------------------------
(* Properties.                                                             *)

\* A sentence is made for the program on air when it was heard, or for the
\* one that comes on within two minutes, however late the EPG service answers
\* and whatever it answered before.
SpokenOnAir ==
    [][\A p \in Programs :
          spoken'[p] # spoken[p] => p \in {OnAir(clock), OnAirSoon(clock)}
      ]_readerVars

\* A showing is announced before its first sentence and, unless the EPG service
\* gave it without an end, once only.
AnnouncedOnce ==
    \A p \in Programs :
        /\ p \notin endless => starts[p] <= 1
        /\ spoken[p] # <<>> => starts[p] # 0
=============================================================================
