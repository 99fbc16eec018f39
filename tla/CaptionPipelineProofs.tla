------------------------ MODULE CaptionPipelineProofs ------------------------
(***************************************************************************)
(* Theorems about CaptionPipeline, for any schedule, capacity, number of   *)
(* tries and failures.                                                     *)
(*                                                                         *)
(* Announced once: a showing that was announced, and not taken without an  *)
(* end, is either the reader's program or over (Announced), so that the    *)
(* EPG service, which gives the showing on air or the next one, never      *)
(* gives it as a new program.                                              *)
(*                                                                         *)
(* Order: what waits, what is being sent and what was done all comes       *)
(* before what the reader still has to offer (Line).                       *)
(*                                                                         *)
(* Whole: what is collected is what was accepted (Collected), as long as   *)
(* nothing on the way is of an earlier showing than what was handled       *)
(* (InTurn).                                                               *)
(*                                                                         *)
(* Channel: the three parts of the way are the line of EventChannel.       *)
(***************************************************************************)
EXTENDS CaptionPipeline, SequenceTheorems, TLAPS

ReaderOK ==
    /\ clock \in 1..2 * MaxPrograms - 1
    /\ program \in Programs \union {0} /\ endsAtZero \in BOOLEAN
    /\ heard \in Nat
    /\ spoken \in [Programs -> Seq(Nat)] /\ starts \in [Programs -> Nat]
    /\ reader = "new" => program = 0

\* The program is not one that is still to come.
Begun == 2 * program <= clock + 2

Announced ==
    /\ endsAtZero => program \in endless
    /\ program # 0 => starts[program] # 0
    /\ \A p \in Programs :
          /\ p \notin endless => starts[p] <= 1
          /\ spoken[p] # <<>> => starts[p] # 0
          /\ starts[p] # 0 /\ p \notin endless =>
                p = program \/ clock > 2 * p

ReaderInv == ReaderOK /\ Begun /\ Announced

-----------------------------------------------------------------------------
(* The reader.                                                             *)

LEMMA Schedule ==
  /\ MaxPrograms \in Nat /\ MaxPrograms > 1 /\ Programs = 1..MaxPrograms
  BY EventsAssumption DEF EventsAssumption, Programs

LEMMA ReaderInit_Inv == ReaderInit => ReaderInv
  <1> SUFFICES ASSUME ReaderInit
               PROVE  ReaderInv
    OBVIOUS
  <1>1. /\ clock \in {1, 2} /\ program = 0 /\ endsAtZero = FALSE /\ heard = 0
        /\ spoken = [p \in Programs |-> <<>>]
        /\ starts = [p \in Programs |-> 0] /\ endless = {}
    BY DEF ReaderInit
  <1>2. clock \in 1..2 * MaxPrograms - 1
    BY <1>1, Schedule
  <1>3. ReaderOK
    <2>1. <<>> \in Seq(Nat)
      OBVIOUS
    <2>2. spoken \in [Programs -> Seq(Nat)] /\ starts \in [Programs -> Nat]
      BY <1>1, <2>1
    <2> QED
      BY <1>1, <1>2, <2>2 DEF ReaderOK
  <1> QED
    BY <1>1, <1>3 DEF ReaderInv, Begun, Announced

\* Steps that leave the reader's program and what it did alone.
LEMMA ReaderQuiet ==
  ASSUME ReaderInv,
         UNCHANGED <<clock, program, endsAtZero, spoken, starts, endless>>,
         heard' \in Nat, reader' = "new" => reader = "new"
  PROVE  ReaderInv'
  BY DEF ReaderInv, ReaderOK, Begun, Announced

LEMMA OnAirSoonIsNext ==
  ASSUME clock \in 1..2 * MaxPrograms - 1
  PROVE  /\ OnAirSoon(clock) \in Programs
         /\ clock < 2 * OnAirSoon(clock) /\ 2 * OnAirSoon(clock) <= clock + 2
  BY Schedule DEF OnAirSoon, OnAir

\* setProgram: what is announced is new.
LEMMA SetProgram_Inv ==
  ASSUME ReaderInv, NEW answer \in EpgAnswers, NEW id, SetProgram(answer, id),
         program = 0 \/ ProgramOver,
         UNCHANGED clock, heard' \in Nat, reader' = "reading",
         \/ UNCHANGED spoken
         \/ program' # 0 /\ spoken' = [spoken EXCEPT ![program'] =
                                            Append(@, heard')]
  PROVE  ReaderInv'
  <1> USE DEF ReaderInv
  <1>1. /\ program' \in {0, OnAirSoon(clock)}
        /\ endless' = IF endsAtZero' THEN endless \union {program'} ELSE endless
        /\ endsAtZero' => program' # 0
        /\ endsAtZero' \in BOOLEAN
        /\ starts' = IF program' = 0 THEN starts
                     ELSE [starts EXCEPT ![program'] = @ + 1]
    BY DEF SetProgram, AskEpg
  <1>2. /\ clock \in 1..2 * MaxPrograms - 1 /\ OnAirSoon(clock) \in Programs
        /\ clock < 2 * OnAirSoon(clock) /\ 2 * OnAirSoon(clock) <= clock + 2
    BY OnAirSoonIsNext DEF ReaderOK
  <1>3. program' \in Programs \union {0} /\ endsAtZero' \in BOOLEAN
    BY <1>1, <1>2
  <1>4. starts' \in [Programs -> Nat]
    BY <1>1, <1>3 DEF ReaderOK
  <1>5. spoken' \in [Programs -> Seq(Nat)]
    <2>1. CASE UNCHANGED spoken
      BY <2>1 DEF ReaderOK
    <2>2. CASE program' # 0 /\ spoken' = [spoken EXCEPT ![program'] =
                                              Append(@, heard')]
      <3>1. program' \in Programs /\ spoken[program'] \in Seq(Nat)
        BY <1>3, <2>2 DEF ReaderOK
      <3>2. Append(spoken[program'], heard') \in Seq(Nat)
        BY <3>1
      <3> QED
        BY <2>2, <3>1, <3>2 DEF ReaderOK
    <2> QED
      BY <2>1, <2>2
  <1>6. ReaderOK'
    BY <1>2, <1>3, <1>4, <1>5 DEF ReaderOK
  <1>7. Begun'
    <2>1. CASE program' = 0
      BY <1>2, <2>1 DEF Begun
    <2>2. CASE program' = OnAirSoon(clock)
      BY <1>2, <2>2 DEF Begun
    <2> QED
      BY <1>1, <2>1, <2>2
  <1>8. Announced'
    <2>1. endless \subseteq endless' /\ (endsAtZero' => program' \in endless')
      BY <1>1
    <2>2. program # 0 => program \in endless \/ clock > 2 * program
      BY DEF Announced, ProgramOver
    <2>3. program' # 0 => starts[program'] = 0 \/ program' \in endless
      <3>1. \A p \in Programs :
               starts[p] # 0 /\ p \notin endless => clock > 2 * p
        BY <2>2, Schedule DEF Announced, ReaderOK
      <3> QED
        BY <1>1, <1>2, <3>1, Schedule DEF ReaderOK
    <2>4. \A p \in Programs : p # program' =>
             starts'[p] = starts[p] /\ spoken'[p] = spoken[p]
      BY <1>1, <1>3 DEF ReaderOK
    <2>5. program' # 0 =>
             /\ starts'[program'] = starts[program'] + 1
             /\ starts[program'] \in Nat
      BY <1>1, <1>3 DEF ReaderOK
    <2>6. program' # 0 =>
             /\ starts'[program'] # 0
             /\ program' \notin endless' => starts'[program'] <= 1
      BY <2>1, <2>3, <2>5
    <2>7. ASSUME NEW p \in Programs
          PROVE  /\ p \notin endless' => starts'[p] <= 1
                 /\ spoken'[p] # <<>> => starts'[p] # 0
                 /\ starts'[p] # 0 /\ p \notin endless' =>
                       p = program' \/ clock > 2 * p
      <3>1. CASE p = program'
        BY <2>6, <2>7, <3>1, Schedule
      <3>2. CASE p # program'
        BY <2>1, <2>2, <2>4, <2>7, <3>2, Schedule DEF Announced
      <3> QED
        BY <3>1, <3>2
    <2> QED
      BY <2>1, <2>6, <2>7 DEF Announced
  <1> QED
    BY <1>6, <1>7, <1>8

LEMMA Reader_Inv ==
  ASSUME ReaderInv, [PipelineNext]_pipelineVars
  PROVE  ReaderInv'
  <1> USE DEF ReaderInv
  <1>1. CASE Tick
    <2>1. /\ clock < 2 * MaxPrograms - 1 /\ clock' = clock + 1
          /\ UNCHANGED <<reader, program, endsAtZero, heard, spoken, starts,
                       endless>>
      BY <1>1 DEF Tick
    <2>2. clock \in 1..2 * MaxPrograms - 1 /\ program \in Nat
      BY Schedule DEF ReaderOK
    <2>3. clock' \in 1..2 * MaxPrograms - 1
      BY <2>1, <2>2, Schedule
    <2>4. ReaderOK' /\ Begun'
      BY <2>1, <2>2, <2>3 DEF ReaderOK, Begun
    <2>5. Announced'
      BY <2>1, <2>2, Schedule DEF Announced
    <2> QED
      BY <2>4, <2>5
  <1>2. CASE StartReading
    <2>1. PICK answer \in EpgAnswers : SetProgram(answer, 0)
      BY <1>2 DEF StartReading
    <2>2. /\ reader = "new" /\ reader' = "reading"
          /\ UNCHANGED <<clock, heard, spoken>>
      BY <1>2 DEF StartReading
    <2> QED
      BY <2>1, <2>2, SetProgram_Inv DEF ReaderOK
  <1>3. CASE SentenceNewProgram
    <2>1. PICK answer \in EpgAnswers : SetProgram(answer, heard')
      BY <1>3 DEF SentenceNewProgram
    <2>2. /\ program = 0 \/ ProgramOver
          /\ UNCHANGED <<clock, reader>> /\ reader = "reading"
          /\ heard' = heard + 1
          /\ \/ program' = 0 /\ UNCHANGED spoken
             \/ program' # 0 /\ spoken' = [spoken EXCEPT ![program'] =
                                                Append(@, heard')]
      BY <1>3 DEF SentenceNewProgram, Hear, Say
    <2>3. heard' \in Nat /\ reader' = "reading" /\ UNCHANGED clock
      BY <2>2 DEF ReaderOK
    <2> QED
      BY <2>1, <2>2, <2>3, SetProgram_Inv
  <1>4. CASE SentenceSameProgram
    <2>1. /\ program # 0 /\ heard' = heard + 1
          /\ UNCHANGED <<clock, reader, program, endsAtZero, starts, endless>>
          /\ spoken' = [spoken EXCEPT ![program] = Append(@, heard')]
      BY <1>4 DEF SentenceSameProgram, Hear, Say
    <2>2. program \in Programs /\ spoken[program] \in Seq(Nat)
      BY <2>1 DEF ReaderOK
    <2>3. heard' \in Nat
      BY <2>1 DEF ReaderOK
    <2>4. Append(spoken[program], heard') \in Seq(Nat)
      BY <2>2, <2>3
    <2>5. spoken' \in [Programs -> Seq(Nat)]
      BY <2>1, <2>2, <2>4 DEF ReaderOK
    <2>6. ReaderOK' /\ Begun'
      BY <2>1, <2>3, <2>5 DEF ReaderOK, Begun
    <2>7. \A p \in Programs : p # program => spoken'[p] = spoken[p]
      BY <2>1, <2>2 DEF ReaderOK
    <2>8. Announced'
      BY <2>1, <2>2, <2>7 DEF Announced
    <2> QED
      BY <2>6, <2>8
  <1>5. CASE OtherData
    BY <1>5, ReaderQuiet DEF OtherData, Hear, ReaderOK
  <1>6. CASE OfferPending \/ ReaderStops
    BY <1>6, ReaderQuiet DEF OfferPending, ReaderStops, ReaderEnds, ReaderOK
  <1>7. CASE UNCHANGED readerVars
    BY <1>7, ReaderQuiet DEF readerVars, ReaderOK
  <1> QED
    BY <1>1, <1>2, <1>3, <1>4, <1>5, <1>6, <1>7
       DEF PipelineNext, ReaderStep, Reading, Disconnect, SenderStep,
           SenderLoop, Deliver, Unreachable, ReplyLost, HangsUnheard,
           HangsHandled, StartThrows, SenderDeath, SiteForgets, IndexFails,
           pipelineVars

LEMMA ReaderInvariant == PipelineSpec => []ReaderInv
  BY ReaderInit_Inv, Reader_Inv, PTL DEF PipelineSpec, PipelineInit

\* However late the EPG service answers, and however often it knows nothing, a
\* showing is announced before its first sentence and, unless it was taken
\* without an end, once.
THEOREM ShowingAnnouncedOnce == PipelineSpec => []AnnouncedOnce
  <1>1. ReaderInv => AnnouncedOnce
    BY DEF ReaderInv, Announced, AnnouncedOnce
  <1> QED
    BY <1>1, ReaderInvariant, PTL

LEMMA SpokenStep ==
  ASSUME ReaderInv, [PipelineNext]_pipelineVars,
         NEW p \in Programs, spoken'[p] # spoken[p]
  PROVE  p \in {OnAir(clock), OnAirSoon(clock)}
  <1> USE DEF ReaderInv
  <1>1. CASE SentenceNewProgram
    <2>1. PICK answer \in EpgAnswers : SetProgram(answer, heard')
      BY <1>1 DEF SentenceNewProgram
    <2>2. program' \in {0, OnAirSoon(clock)}
      BY <2>1 DEF SetProgram, AskEpg
    <2>3. \/ program' = 0 /\ UNCHANGED spoken
          \/ program' # 0 /\ spoken' = [spoken EXCEPT ![program'] =
                                             Append(@, heard')]
      BY <1>1 DEF SentenceNewProgram, Say
    <2>4. p = program' /\ program' # 0
      BY <2>3 DEF ReaderOK
    <2> QED
      BY <2>2, <2>4
  <1>2. CASE SentenceSameProgram
    <2>1. /\ program # 0 /\ ~ProgramOver
          /\ spoken' = [spoken EXCEPT ![program] = Append(@, heard')]
      BY <1>2 DEF SentenceSameProgram, Say
    <2>2. p = program
      BY <2>1 DEF ReaderOK
    <2>3. /\ clock <= 2 * p /\ 2 * p <= clock + 2
          /\ clock \in Nat /\ p \in Nat
      BY <2>1, <2>2, Schedule DEF ProgramOver, Begun, ReaderOK
    <2> QED
      BY <2>3 DEF OnAir, OnAirSoon
  <1>3. CASE UNCHANGED spoken
    BY <1>3
  <1> QED
    BY <1>1, <1>2, <1>3
       DEF PipelineNext, ReaderStep, Tick, Reading, StartReading, OtherData,
           OfferPending, ReaderStops, ReaderEnds, Disconnect, SenderStep,
           SenderLoop, Deliver, Unreachable, ReplyLost, HangsUnheard,
           HangsHandled, StartThrows, SenderDeath, SiteForgets, IndexFails,
           pipelineVars, readerVars

\* A sentence is made for the showing on air or the one that comes on within
\* two minutes.
THEOREM SpokenWhileOnAir == PipelineSpec => SpokenOnAir
  <1>1. ReaderInv /\ [PipelineNext]_pipelineVars =>
           [\A p \in Programs : spoken'[p] # spoken[p] =>
                p \in {OnAir(clock), OnAirSoon(clock)}]_readerVars
    BY SpokenStep
  <1> QED
    BY <1>1, ReaderInvariant, PTL DEF PipelineSpec, SpokenOnAir

-----------------------------------------------------------------------------
(* The order of the events.                                                *)

Event == [kind : {"start", "sentence", "other", "none"},
          prog : Programs \union {0}, id : Nat]

\* What is done, being sent or waiting comes before place n.
Before(n) ==
    /\ done < n /\ (sender = "send" => Place(toSend) < n)
    /\ \A i \in 1..Len(sendQueue) : Place(sendQueue[i]) < n

LineOK ==
    /\ pending \in Seq(Event) /\ sendQueue \in Seq(Event) /\ toSend \in Event
    /\ done \in Nat
    /\ reader = "new" =>
          pending = <<>> /\ sendQueue = <<>> /\ sender # "send" /\ done = 0
          /\ heard = 0

Line ==
    /\ \A i, j \in 1..Len(pending) :
          i < j => Place(pending[i]) < Place(pending[j])
    /\ \A i \in 1..Len(pending) :
          Place(pending[i]) <= 2 * heard + 2 /\ Before(Place(pending[i]))
    /\ Before(2 * heard + 3)

LineInv == LineOK /\ Line /\ QueuedInOrder

LEMMA PlaceIsNat == \A e \in Event : Place(e) \in Nat
  BY DEF Event, Place

LEMMA LaterPlace ==
  \A m, n \in Nat : m <= n => \E k \in Nat : k = 2 * n + 3 /\ k >= 2 * m + 3
  OBVIOUS

LEMMA TwoEvents ==
  ASSUME NEW d \in Event, NEW e \in Event
  PROVE  /\ <<d>> \o <<e>> \in Seq(Event) /\ Len(<<d>> \o <<e>>) = 2
         /\ (<<d>> \o <<e>>)[1] = d /\ (<<d>> \o <<e>>)[2] = e
  <1>1. <<d>> \in Seq(Event) /\ <<e>> \in Seq(Event)
    OBVIOUS
  <1> QED
    BY <1>1

LEMMA LineInit == PipelineInit => LineInv
  <1> SUFFICES ASSUME PipelineInit
               PROVE  LineInv
    OBVIOUS
  <1>1. /\ pending = <<>> /\ sendQueue = <<>> /\ sender = "test" /\ done = 0
        /\ toSend = NoEvent /\ heard = 0
    BY DEF PipelineInit, ReaderInit, QueueInit
  <1>2. NoEvent \in Event
    BY DEF NoEvent, Event
  <1> QED
    BY <1>1, <1>2 DEF LineInv, LineOK, Line, Before, QueuedInOrder

\* The reader makes events when it has none left: their places are new.
LEMMA LineGrows ==
  ASSUME LineInv, UNCHANGED queueVars, pending' \in Seq(Event),
         heard \in Nat, heard' \in Nat, heard <= heard', reader' # "new",
         \A i \in 1..Len(pending') :
            /\ Place(pending'[i]) <= 2 * heard' + 2
            /\ Place(pending'[i]) >= 2 * heard + 3
               \/ (reader = "new" /\ Place(pending'[i]) >= 1),
         \A i, j \in 1..Len(pending') :
            i < j => Place(pending'[i]) < Place(pending'[j])
  PROVE  LineInv'
  <1> USE DEF LineInv
  <1>1. UNCHANGED <<sendQueue, sender, toSend, done>>
    BY DEF queueVars
  <1>2. /\ done \in Nat /\ toSend \in Event
        /\ \A i \in 1..Len(sendQueue) : sendQueue[i] \in Event
        /\ \A i \in 1..Len(pending') : pending'[i] \in Event
    BY DEF LineOK
  <1>3. \A n \in Nat : n >= 2 * heard + 3 => Before(n)'
    BY <1>1, <1>2, PlaceIsNat DEF Line, Before
  <1>4. reader = "new" => \A n \in Nat : n >= 1 => Before(n)'
    BY <1>1 DEF LineOK, Before
  <1>5. \A i \in 1..Len(pending') : Before(Place(pending[i]))'
    <2> SUFFICES ASSUME NEW i \in 1..Len(pending')
                 PROVE  Before(Place(pending[i]))'
      OBVIOUS
    <2>1. PICK n \in Nat : n = Place(pending'[i])
      BY <1>2, PlaceIsNat
    <2>2. n >= 2 * heard + 3 \/ (reader = "new" /\ n >= 1)
      BY <2>1
    <2>3. Before(n)'
      BY <1>3, <1>4, <2>2
    <2> QED
      BY <2>1, <2>3 DEF Before
  <1>6. Before(2 * heard + 3)'
    <2>1. PICK n \in Nat : n = 2 * heard' + 3 /\ n >= 2 * heard + 3
      BY LaterPlace
    <2>2. Before(n)'
      BY <1>3, <2>1
    <2> QED
      BY <2>1, <2>2 DEF Before
  <1>7. LineOK' /\ QueuedInOrder'
    BY <1>1 DEF LineOK, QueuedInOrder
  <1> QED
    BY <1>5, <1>6, <1>7 DEF Line

\* What the reader makes, it makes when it has nothing left to offer, and in
\* order.
NewEvents ==
  /\ pending = <<>> /\ pending' \in Seq(Event)
  /\ heard \in Nat /\ heard' \in Nat /\ heard <= heard'
  /\ reader' # "new"
  /\ \A i \in 1..Len(pending') :
        /\ Place(pending'[i]) <= 2 * heard' + 2
        /\ Place(pending'[i]) >= 2 * heard + 3
           \/ (reader = "new" /\ Place(pending'[i]) >= 1)
  /\ \A i, j \in 1..Len(pending') :
        i < j => Place(pending'[i]) < Place(pending'[j])

LEMMA ReaderMakes ==
  ASSUME LineInv, ReaderInv, ReaderInv', Reading
  PROVE  NewEvents
  <1> USE DEF LineInv
  <1>1. heard \in Nat
    BY DEF ReaderInv, ReaderOK
  <1>2. \A p \in Programs, n \in Nat :
           /\ ProgramStartEvent(p, n) \in Event
           /\ CCSentenceEvent(p, n) \in Event /\ OtherEvent(p, n) \in Event
           /\ Place(ProgramStartEvent(p, n)) = 2 * n + 1
           /\ Place(CCSentenceEvent(p, n)) = 2 * n + 2
           /\ Place(OtherEvent(p, n)) = 2 * n + 2
    BY DEF ProgramStartEvent, CCSentenceEvent, OtherEvent, Event, Place
  <1>3. program' # 0 => program' \in Programs
    BY DEF ReaderInv, ReaderOK
  <1>4. CASE StartReading
    <2>1. /\ reader = "new" /\ reader' = "reading" /\ UNCHANGED heard
          /\ heard = 0 /\ pending = <<>>
          /\ pending' = StartEvents(0)
      BY <1>4 DEF StartReading, LineOK
    <2>2. \/ pending' = <<>>
          \/ \E e \in Event : pending' = <<e>> /\ Place(e) = 1
      BY <1>2, <1>3, <2>1 DEF StartEvents
    <2>3. CASE pending' = <<>>
      <3>1. pending' \in Seq(Event) /\ Len(pending') = 0
        BY <2>3
      <3> QED
        BY <1>1, <2>1, <3>1 DEF NewEvents
    <2>4. CASE \E e \in Event : pending' = <<e>> /\ Place(e) = 1
      <3>1. /\ pending' \in Seq(Event) /\ Len(pending') = 1
            /\ Place(pending'[1]) = 1
        BY <2>4
      <3>2. 1..Len(pending') = {1}
        BY <3>1
      <3> QED
        BY <1>1, <2>1, <3>1, <3>2 DEF NewEvents
    <2> QED
      BY <2>2, <2>3, <2>4
  <1>5. CASE SentenceSameProgram \/ SentenceNewProgram \/ OtherData
    <2>1. /\ heard' = heard + 1 /\ reader' = "reading" /\ heard' \in Nat
          /\ pending = <<>>
      BY <1>1, <1>5 DEF SentenceSameProgram, SentenceNewProgram, OtherData, Hear
    <2>2. \/ pending' = <<>>
          \/ program' \in Programs /\
             \/ pending' = <<>> \o <<CCSentenceEvent(program', heard')>>
             \/ pending' = <<ProgramStartEvent(program', heard')>>
                              \o <<CCSentenceEvent(program', heard')>>
             \/ pending' = <<OtherEvent(program', heard')>>
      BY <1>3, <1>5 DEF SentenceSameProgram, SentenceNewProgram, OtherData,
                        Say, StartEvents
    <2>3. \/ pending' = <<>>
          \/ \E e \in Event : pending' = <<e>> /\ Place(e) = 2 * heard' + 2
          \/ \E d, e \in Event : /\ pending' = <<d>> \o <<e>>
                                 /\ Place(d) = 2 * heard' + 1
                                 /\ Place(e) = 2 * heard' + 2
      <3>1. \A e : <<>> \o <<e>> = <<e>>
        OBVIOUS
      <3> QED
        BY <1>2, <2>1, <2>2, <3>1
    <2>4. CASE pending' = <<>>
      <3>1. pending' \in Seq(Event) /\ Len(pending') = 0
        BY <2>4
      <3> QED
        BY <1>1, <2>1, <3>1 DEF NewEvents
    <2>5. CASE \E e \in Event : pending' = <<e>> /\ Place(e) = 2 * heard' + 2
      <3>1. /\ pending' \in Seq(Event) /\ Len(pending') = 1
            /\ Place(pending'[1]) = 2 * heard' + 2
        BY <2>5
      <3>2. 1..Len(pending') = {1}
        BY <3>1
      <3> QED
        BY <1>1, <2>1, <3>1, <3>2 DEF NewEvents
    <2>6. CASE \E d, e \in Event : /\ pending' = <<d>> \o <<e>>
                                   /\ Place(d) = 2 * heard' + 1
                                   /\ Place(e) = 2 * heard' + 2
      <3>1. PICK d \in Event, e \in Event : /\ pending' = <<d>> \o <<e>>
                                            /\ Place(d) = 2 * heard' + 1
                                            /\ Place(e) = 2 * heard' + 2
        BY <2>6
      <3>2. /\ pending' \in Seq(Event) /\ Len(pending') = 2
            /\ pending'[1] = d /\ pending'[2] = e
        BY <3>1, TwoEvents
      <3>3. 1..Len(pending') = {1, 2}
        BY <3>2
      <3>4. \A i \in 1..Len(pending') :
               /\ Place(pending'[i]) <= 2 * heard' + 2
               /\ Place(pending'[i]) >= 2 * heard + 3
        BY <1>1, <2>1, <3>1, <3>2, <3>3
      <3>5. \A i, j \in 1..Len(pending') :
               i < j => Place(pending'[i]) < Place(pending'[j])
        <4>1. Place(pending'[1]) < Place(pending'[2])
          BY <2>1, <3>1, <3>2
        <4>2. \A i, j \in {1, 2} : i < j => i = 1 /\ j = 2
          OBVIOUS
        <4> QED
          BY <3>3, <4>1, <4>2
      <3> QED
        BY <1>1, <2>1, <3>2, <3>4, <3>5 DEF NewEvents
    <2> QED
      BY <2>3, <2>4, <2>5, <2>6
  <1> QED
    BY <1>4, <1>5 DEF Reading

LEMMA LineReader ==
  ASSUME LineInv, ReaderInv, ReaderInv', ReaderStep
  PROVE  LineInv'
  <1>1. UNCHANGED queueVars
    BY DEF ReaderStep
  <1>2. CASE Tick
    <2>1. UNCHANGED <<reader, heard, pending>>
      BY <1>2 DEF Tick
    <2> QED
      BY <1>1, <2>1 DEF LineInv, LineOK, Line, Before, QueuedInOrder, queueVars
  <1>3. CASE Reading
    BY <1>1, <1>3, ReaderMakes, LineGrows DEF NewEvents
  <1> QED
    BY <1>2, <1>3 DEF ReaderStep

\* A prefix of the line is taken off its head.
LEMMA TailOfLine ==
  ASSUME NEW s \in Seq(Event), s # <<>>
  PROVE  /\ Head(s) \in Event /\ Head(s) = s[1] /\ 1 \in 1..Len(s)
         /\ Tail(s) \in Seq(Event) /\ Len(Tail(s)) = Len(s) - 1
         /\ \A i \in 1..Len(Tail(s)) :
               Tail(s)[i] = s[i + 1] /\ i + 1 \in 1..Len(s) /\ 1 < i + 1
  OBVIOUS

\* Steps that send nothing new: places only leave the queue, and done only
\* becomes the place of what was being sent.
LEMMA LineShrinks ==
  ASSUME LineInv, pending' = pending, heard' = heard, heard \in Nat,
         reader' = "new" => reader = "new",
         sendQueue' = sendQueue \/ sendQueue' = <<>>,
         toSend' \in Event, sender' = "send" => sender = "send",
         sender' = "send" => UNCHANGED toSend,
         done' = done \/ (sender = "send" /\ done' = Place(toSend))
  PROVE  LineInv'
  <1> USE DEF LineInv
  <1>1. /\ done' \in Nat /\ Place(toSend) \in Nat
        /\ \A i \in 1..Len(sendQueue) : Place(sendQueue[i]) \in Nat
        /\ \A i \in 1..Len(pending) : Place(pending[i]) \in Nat
    BY PlaceIsNat DEF LineOK
  <1>2. sendQueue' \in Seq(Event)
    <2>1. sendQueue \in Seq(Event) /\ <<>> \in Seq(Event)
      BY DEF LineOK
    <2> QED
      BY <2>1
  <1>3. LineOK'
    BY <1>1, <1>2 DEF LineOK
  <1>4. QueuedInOrder'
    <2>1. CASE sendQueue' = sendQueue
      BY <1>1, <2>1 DEF QueuedInOrder, LineOK
    <2>2. CASE sendQueue' = <<>>
      <3>1. Len(sendQueue') = 0
        BY <2>2
      <3> QED
        BY <1>1, <3>1 DEF QueuedInOrder, LineOK
    <2> QED
      BY <2>1, <2>2
  <1>5. \A n \in Nat : Before(n) => Before(n)'
    <2>1. CASE sendQueue' = sendQueue
      BY <1>1, <2>1 DEF Before
    <2>2. CASE sendQueue' = <<>>
      <3>1. Len(sendQueue') = 0
        BY <2>2
      <3> QED
        BY <1>1, <3>1 DEF Before
    <2> QED
      BY <2>1, <2>2
  <1>6. ASSUME NEW i \in 1..Len(pending)
        PROVE  Before(Place(pending[i]))'
    <2>1. PICK n \in Nat : n = Place(pending[i])
      BY <1>1
    <2>2. Before(n)
      BY <2>1 DEF Line
    <2> QED
      BY <1>5, <2>1, <2>2 DEF Before
  <1>7. Before(2 * heard + 3)'
    <2>1. PICK n \in Nat : n = 2 * heard + 3
      BY SMT
    <2>2. Before(n)
      BY <2>1 DEF Line
    <2> QED
      BY <1>5, <2>1, <2>2 DEF Before
  <1> QED
    BY <1>3, <1>4, <1>6, <1>7 DEF Line

LEMMA LineOffer ==
  ASSUME LineInv, ReaderInv, OfferPending
  PROVE  LineInv'
  <1> USE DEF LineInv
  <1>1. /\ pending # <<>> /\ pending' = Tail(pending)
        /\ \/ sendQueue' = sendQueue
           \/ sendQueue' = Append(sendQueue, Head(pending))
        /\ UNCHANGED <<reader, heard, sender, toSend, done>>
    BY DEF OfferPending, Offer
  <1>2. /\ pending \in Seq(Event) /\ sendQueue \in Seq(Event)
        /\ done \in Nat /\ toSend \in Event /\ heard \in Nat
    BY DEF LineOK, ReaderInv, ReaderOK
  <1>3. PICK e \in Event : e = Head(pending) /\ e = pending[1]
    BY <1>1, <1>2, TailOfLine
  <1>4. PICK m \in Nat : m = Place(e)
    BY PlaceIsNat
  <1>5. /\ pending' \in Seq(Event)
        /\ \A i \in 1..Len(pending') :
              /\ pending'[i] = pending[i + 1] /\ i + 1 \in 1..Len(pending)
              /\ m < Place(pending'[i]) /\ Place(pending'[i]) \in Nat
    BY <1>1, <1>2, <1>3, <1>4, TailOfLine, PlaceIsNat DEF Line
  <1>6. m <= 2 * heard + 2 /\ Before(m)
    BY <1>1, <1>2, <1>3, <1>4, TailOfLine DEF Line
  <1>7. /\ sendQueue' \in Seq(Event)
        /\ \A i \in 1..Len(sendQueue') :
              \/ i \in 1..Len(sendQueue) /\ sendQueue'[i] = sendQueue[i]
              \/ i = Len(sendQueue) + 1 /\ sendQueue'[i] = e
    <2>1. CASE sendQueue' = sendQueue
      BY <1>2, <2>1
    <2>2. CASE sendQueue' = Append(sendQueue, e)
      BY <1>2, <2>2
    <2> QED
      BY <1>1, <1>3, <2>1, <2>2
  <1>8. \A i \in 1..Len(sendQueue) :
           sendQueue[i] \in Event /\ Place(sendQueue[i]) \in Nat
    BY <1>2, PlaceIsNat
  <1>9. LineOK'
    BY <1>1, <1>2, <1>5, <1>7 DEF LineOK
  <1>10. QueuedInOrder'
    <2>1. /\ done < m /\ (sender = "send" => Place(toSend) < m)
          /\ \A i \in 1..Len(sendQueue) : Place(sendQueue[i]) < m
      BY <1>6 DEF Before
    <2>2. Len(sendQueue) \in Nat
      BY <1>2
    <2>3. \A i, j \in 1..Len(sendQueue') :
             i < j => Place(sendQueue'[i]) < Place(sendQueue'[j])
      BY <1>4, <1>7, <2>1, <2>2 DEF QueuedInOrder
    <2>4. \A i \in 1..Len(sendQueue') : done < Place(sendQueue'[i])
      BY <1>4, <1>7, <2>1 DEF QueuedInOrder
    <2>5. sender = "send" =>
             /\ done <= Place(toSend)
             /\ \A i \in 1..Len(sendQueue') :
                   Place(toSend) < Place(sendQueue'[i])
      BY <1>4, <1>7, <2>1 DEF QueuedInOrder
    <2> QED
      BY <1>1, <2>3, <2>4, <2>5 DEF QueuedInOrder
  <1>11. \A n \in Nat : Before(n) /\ m < n => Before(n)'
    BY <1>1, <1>4, <1>7 DEF Before
  <1>12. ASSUME NEW i \in 1..Len(pending')
         PROVE  /\ Place(pending'[i]) <= 2 * heard + 2
                /\ Before(Place(pending[i]))'
    <2>1. PICK n \in Nat : n = Place(pending'[i])
      BY <1>5
    <2>2. n <= 2 * heard + 2 /\ Before(n) /\ m < n
      BY <1>5, <2>1 DEF Line
    <2>3. Before(n)'
      BY <1>11, <2>2
    <2> QED
      BY <2>1, <2>2, <2>3 DEF Before
  <1>13. Before(2 * heard + 3)'
    <2>1. PICK n \in Nat : n = 2 * heard + 3
      BY <1>2
    <2>2. Before(n) /\ m < n
      BY <1>2, <1>6, <2>1 DEF Line
    <2> QED
      BY <1>1, <1>11, <2>1, <2>2 DEF Before
  <1>14. \A i, j \in 1..Len(pending') :
            i < j => Place(pending'[i]) < Place(pending'[j])
    BY <1>1, <1>2, <1>5 DEF Line
  <1> QED
    BY <1>1, <1>9, <1>10, <1>12, <1>13, <1>14 DEF Line

LEMMA LineTake ==
  ASSUME LineInv, ReaderInv, Take, UNCHANGED readerVars
  PROVE  LineInv'
  <1> USE DEF LineInv
  <1>1. /\ sendQueue # <<>> /\ sendQueue' = Tail(sendQueue)
        /\ toSend' = Head(sendQueue) /\ sender' = "send"
        /\ UNCHANGED <<reader, heard, pending, done>> /\ heard \in Nat
    BY DEF Take, Step, readerVars, ReaderInv, ReaderOK
  <1>2. /\ pending \in Seq(Event) /\ sendQueue \in Seq(Event) /\ done \in Nat
        /\ reader # "new"
    BY <1>1 DEF LineOK
  <1>3. PICK e \in Event : e = toSend' /\ e = sendQueue[1] /\ 1 \in 1..Len(sendQueue)
    BY <1>1, <1>2, TailOfLine
  <1>4. /\ sendQueue' \in Seq(Event)
        /\ \A i \in 1..Len(sendQueue') :
              /\ sendQueue'[i] = sendQueue[i + 1]
              /\ i + 1 \in 1..Len(sendQueue) /\ 1 < i + 1
    BY <1>1, <1>2, TailOfLine
  <1>5. LineOK'
    BY <1>1, <1>2, <1>3, <1>4 DEF LineOK
  <1>6. /\ Place(e) \in Nat
        /\ \A i \in 1..Len(sendQueue) : Place(sendQueue[i]) \in Nat
        /\ \A i \in 1..Len(pending) : Place(pending[i]) \in Nat
    BY <1>2, PlaceIsNat
  <1>7. QueuedInOrder'
    <2>1. \A i \in 1..Len(sendQueue') : Place(e) < Place(sendQueue'[i])
      BY <1>3, <1>4 DEF QueuedInOrder
    <2>2. done < Place(e)
      BY <1>3 DEF QueuedInOrder
    <2>3. \A i, j \in 1..Len(sendQueue') :
             i < j => Place(sendQueue'[i]) < Place(sendQueue'[j])
      BY <1>2, <1>4 DEF QueuedInOrder
    <2>4. \A i \in 1..Len(sendQueue') : done < Place(sendQueue'[i])
      BY <1>4 DEF QueuedInOrder
    <2> QED
      BY <1>1, <1>2, <1>3, <1>6, <2>1, <2>2, <2>3, <2>4 DEF QueuedInOrder
  <1>8. \A n \in Nat : Before(n) => Before(n)'
    BY <1>1, <1>3, <1>4 DEF Before
  <1>9. ASSUME NEW i \in 1..Len(pending)
        PROVE  Before(Place(pending[i]))'
    <2>1. PICK n \in Nat : n = Place(pending[i])
      BY <1>6
    <2>2. Before(n)
      BY <2>1 DEF Line
    <2> QED
      BY <1>1, <1>8, <2>1, <2>2 DEF Before
  <1>10. Before(2 * heard + 3)'
    <2>1. PICK n \in Nat : n = 2 * heard + 3
      BY <1>1
    <2>2. Before(n)
      BY <2>1 DEF Line
    <2> QED
      BY <1>1, <1>8, <2>1, <2>2 DEF Before
  <1> QED
    BY <1>1, <1>5, <1>7, <1>9, <1>10 DEF Line

LEMMA Line_Inv ==
  ASSUME LineInv, ReaderInv, ReaderInv', [PipelineNext]_pipelineVars
  PROVE  LineInv'
  <1>1. heard \in Nat /\ NoEvent \in Event /\ toSend \in Event
    BY DEF ReaderInv, ReaderOK, NoEvent, Event, LineInv, LineOK
  <1>2. CASE ReaderStep
    BY <1>2, LineReader
  <1>3. CASE OfferPending
    BY <1>3, LineOffer
  <1>4. CASE Take /\ UNCHANGED readerVars
    BY <1>4, LineTake
  <1>5. CASE (TestAborted \/ GiveUp \/ SenderDies) /\ UNCHANGED readerVars
    <2>1. /\ UNCHANGED <<pending, heard, reader, done>> /\ sender' # "send"
          /\ sendQueue' = sendQueue \/ sendQueue' = <<>>
          /\ toSend' \in {toSend, NoEvent}
      BY <1>5 DEF TestAborted, Step, GiveUp, SenderDies, readerVars
    <2>2. /\ pending' = pending /\ heard' = heard /\ toSend' \in Event
          /\ reader' = "new" => reader = "new"
          /\ sendQueue' = sendQueue \/ sendQueue' = <<>>
          /\ sender' = "send" => sender = "send" /\ UNCHANGED toSend
          /\ done' = done \/ (sender = "send" /\ done' = Place(toSend))
      BY <1>1, <2>1
    <2> QED
      BY <1>1, <2>2, LineShrinks
  <1>6. CASE \/ Deliver \/ Unreachable \/ ReplyLost \/ StartThrows
             \/ HangsUnheard \/ HangsHandled
    <2>1. /\ UNCHANGED <<pending, heard, reader, sendQueue>> /\ sender = "send"
          /\ \/ sender' = "test" /\ toSend' = NoEvent
             \/ sender' = "send" /\ UNCHANGED toSend
          /\ done' \in {done, Place(toSend)}
      BY <1>6
         DEF Deliver, TrySucceeds, Unreachable, TryFails, ReplyLost,
             TryFailsAfterwards, StartThrows, HangsUnheard, HangsHandled,
             TryHangs, Trying, readerVars
    <2>2. /\ pending' = pending /\ heard' = heard /\ toSend' \in Event
          /\ reader' = "new" => reader = "new"
          /\ sendQueue' = sendQueue \/ sendQueue' = <<>>
          /\ sender' = "send" => sender = "send" /\ UNCHANGED toSend
          /\ done' = done \/ (sender = "send" /\ done' = Place(toSend))
      BY <1>1, <2>1
    <2> QED
      BY <1>1, <2>2, LineShrinks
  <1>7. CASE \/ ReaderStops \/ Disconnect \/ SiteForgets \/ IndexFails
             \/ UNCHANGED pipelineVars
    <2>1. /\ UNCHANGED <<pending, heard, sendQueue, sender, toSend, done>>
          /\ reader' = "new" => reader = "new"
      BY <1>7
         DEF ReaderStops, ReaderEnds, Disconnect, SetAborted, SiteForgets,
             IndexFails, readerVars, queueVars, pipelineVars
    <2>2. /\ pending' = pending /\ heard' = heard /\ toSend' \in Event
          /\ reader' = "new" => reader = "new"
          /\ sendQueue' = sendQueue \/ sendQueue' = <<>>
          /\ sender' = "send" => sender = "send" /\ UNCHANGED toSend
          /\ done' = done \/ (sender = "send" /\ done' = Place(toSend))
      BY <1>1, <2>1
    <2> QED
      BY <1>1, <2>2, LineShrinks
  <1> QED
    BY <1>2, <1>3, <1>4, <1>5, <1>6, <1>7
       DEF PipelineNext, SenderStep, SenderLoop, SenderDeath

\* The events reach the search site in the order in which they were made,
\* whatever is given up, lost or done twice on the way.
THEOREM EventsInOrder == PipelineSpec => []QueuedInOrder
  <1>1. PipelineInit => LineInv
    BY LineInit
  <1>2. LineInv /\ ReaderInv /\ ReaderInv' /\ [PipelineNext]_pipelineVars => LineInv'
    BY Line_Inv
  <1>3. LineInv => QueuedInOrder
    BY DEF LineInv
  <1> QED
    BY <1>1, <1>2, <1>3, ReaderInvariant, PTL DEF PipelineSpec

-----------------------------------------------------------------------------
(* What the listener is told.                                              *)

Waiting == SeqSet(pending) \union SeqSet(sendQueue)
               \union {e \in {toSend} : sender = "send"}

Shown == [prog : Programs \union {0}, start : Programs \union {0},
          text : Seq(Nat)]

ListenerOK ==
    /\ captions \in Shown /\ live \in Shown
    /\ programIndex \in [Titles -> Seq(Shown)]
    /\ \A t \in Titles : programIndex[t] # <<>>
    /\ accepted \in [Programs -> Seq(Nat)]
    /\ interrupted \subseteq Programs \union {0}
    /\ captions = Nothing \/ captions.prog # 0
    /\ live = Nothing \/ live.prog # 0
    /\ captions.start \in {0, captions.prog}

\* An event of a showing, and an event that is being made.
Told(e) == /\ e.kind \in {"start", "sentence", "other"} /\ e.prog \in Programs
           /\ e.id \in Nat

Made(e) ==
    /\ Told(e) /\ e.prog = program' /\ e.id = heard'
    /\ e.kind = "start" =>
          /\ program = 0 \/ ProgramOver
          /\ \E answer \in EpgAnswers : SetProgram(answer, heard')
    /\ e.kind = "sentence" =>
          spoken' = [spoken EXCEPT ![program'] = Append(@, heard')]

LEMMA SetOfAppend ==
  ASSUME NEW S, NEW s \in Seq(S), NEW x \in S
  PROVE  /\ Append(s, x) \in Seq(S)
         /\ SeqSet(Append(s, x)) = SeqSet(s) \union {x}
  <1>1. /\ Append(s, x) \in Seq(S) /\ Len(Append(s, x)) = Len(s) + 1
        /\ \A i \in 1..Len(s) : Append(s, x)[i] = s[i]
        /\ Append(s, x)[Len(s) + 1] = x /\ Len(s) \in Nat
    OBVIOUS
  <1>2. 1..Len(s) + 1 = 1..Len(s) \union {Len(s) + 1}
    BY <1>1
  <1> QED
    BY <1>1, <1>2 DEF SeqSet

LEMMA SetOfTail ==
  ASSUME NEW S, NEW s \in Seq(S), s # <<>>
  PROVE  Head(s) \in SeqSet(s) /\ SeqSet(Tail(s)) \subseteq SeqSet(s)
  <1>1. /\ Head(s) = s[1] /\ 1 \in 1..Len(s) /\ Len(Tail(s)) = Len(s) - 1
        /\ \A i \in 1..Len(Tail(s)) : Tail(s)[i] = s[i + 1]
                                      /\ i + 1 \in 1..Len(s)
    OBVIOUS
  <1> QED
    BY <1>1 DEF SeqSet

LEMMA SetOfNothing == SeqSet(<<>>) = {}
  BY DEF SeqSet

\* Only the reader adds to what waits.
LEMMA WaitingShrinks ==
  ASSUME LineInv, [PipelineNext]_pipelineVars,
         ~(Reading /\ UNCHANGED queueVars)
  PROVE  Waiting' \subseteq Waiting
  <1>0. pending \in Seq(Event) /\ sendQueue \in Seq(Event)
    BY DEF LineInv, LineOK
  <1>1. CASE OfferPending
    <2>1. /\ pending # <<>> /\ pending' = Tail(pending)
          /\ \/ sendQueue' = sendQueue
             \/ sendQueue' = Append(sendQueue, Head(pending))
          /\ UNCHANGED <<sender, toSend>>
      BY <1>1 DEF OfferPending, Offer
    <2>2. /\ Head(pending) \in Event /\ Head(pending) \in SeqSet(pending)
          /\ SeqSet(pending') \subseteq SeqSet(pending)
      BY <1>0, <2>1, SetOfTail, TailOfLine
    <2>3. SeqSet(sendQueue') \subseteq SeqSet(sendQueue) \union {Head(pending)}
      <3>1. CASE sendQueue' = sendQueue
        BY <3>1
      <3>2. CASE sendQueue' = Append(sendQueue, Head(pending))
        BY <1>0, <2>2, <3>2, SetOfAppend
      <3> QED
        BY <2>1, <3>1, <3>2
    <2> QED
      BY <2>1, <2>2, <2>3 DEF Waiting
  <1>2. CASE Take /\ UNCHANGED readerVars
    <2>1. /\ sendQueue # <<>> /\ sendQueue' = Tail(sendQueue)
          /\ toSend' = Head(sendQueue) /\ UNCHANGED pending
      BY <1>2 DEF Take, Step, readerVars
    <2>2. toSend' \in SeqSet(sendQueue)
          /\ SeqSet(sendQueue') \subseteq SeqSet(sendQueue)
      BY <1>0, <2>1, SetOfTail
    <2> QED
      BY <2>1, <2>2 DEF Waiting
  <1>3. CASE /\ UNCHANGED pending
             /\ sendQueue' = sendQueue \/ sendQueue' = <<>>
             /\ sender' = "send" => sender = "send" /\ UNCHANGED toSend
    BY <1>3, SetOfNothing DEF Waiting
  <1>4. CASE ReaderStep
    BY <1>3, <1>4 DEF ReaderStep, Tick, queueVars
  <1>5. CASE (TestAborted \/ GiveUp \/ SenderDies) /\ UNCHANGED readerVars
    BY <1>3, <1>5 DEF TestAborted, Step, GiveUp, SenderDies, readerVars
  <1>6. CASE \/ Deliver \/ Unreachable \/ ReplyLost \/ StartThrows
             \/ HangsUnheard \/ HangsHandled
    BY <1>3, <1>6
       DEF Deliver, TrySucceeds, Unreachable, TryFails, ReplyLost,
           TryFailsAfterwards, StartThrows, HangsUnheard, HangsHandled,
           TryHangs, Trying, readerVars
  <1>7. CASE \/ ReaderStops \/ Disconnect \/ SiteForgets \/ IndexFails
             \/ UNCHANGED pipelineVars
    BY <1>3, <1>7
       DEF ReaderStops, ReaderEnds, Disconnect, SetAborted, SiteForgets,
           IndexFails, readerVars, queueVars, pipelineVars
  <1> QED
    BY <1>1, <1>2, <1>4, <1>5, <1>6, <1>7
       DEF PipelineNext, SenderStep, SenderLoop, SenderDeath

\* What the reader adds are events of its program.
LEMMA WaitingGrows ==
  ASSUME LineInv, ReaderInv, ReaderInv', Reading, UNCHANGED queueVars
  PROVE  \A e \in Waiting' : e \in Waiting \/ (e \in SeqSet(pending') /\ Made(e))
  <1>1. UNCHANGED <<sendQueue, sender, toSend>>
    BY DEF queueVars
  <1>2. program' # 0 => program' \in Programs
    BY DEF ReaderInv, ReaderOK
  <1>3. heard' \in Nat
    BY DEF ReaderInv, ReaderOK
  <1>4. ASSUME NEW e \in SeqSet(pending')
        PROVE  Made(e)
    <2>1. CASE StartReading
      <3>1. /\ program = 0 /\ heard' = 0 /\ pending' = StartEvents(0)
            /\ \E answer \in EpgAnswers : SetProgram(answer, heard')
        BY <2>1 DEF StartReading, LineInv, LineOK, ReaderInv, ReaderOK
      <3>2. program' # 0 /\ e = ProgramStartEvent(program', 0)
        BY <1>4, <3>1 DEF StartEvents, SeqSet
      <3> QED
        BY <1>2, <1>3, <3>1, <3>2 DEF Made, Told, ProgramStartEvent
    <2>2. CASE SentenceSameProgram
      <3>1. /\ program' # 0
            /\ pending' = <<>> \o <<CCSentenceEvent(program', heard')>>
            /\ spoken' = [spoken EXCEPT ![program'] = Append(@, heard')]
        BY <2>2 DEF SentenceSameProgram, Say
      <3>2. pending' = <<CCSentenceEvent(program', heard')>>
        BY <3>1
      <3>3. e = CCSentenceEvent(program', heard')
        BY <1>4, <3>2 DEF SeqSet
      <3> QED
        BY <1>2, <1>3, <3>1, <3>3 DEF Made, Told, CCSentenceEvent
    <2>3. CASE OtherData
      <3>1. program' # 0 /\ pending' = <<OtherEvent(program', heard')>>
        BY <2>3 DEF OtherData
      <3>2. e = OtherEvent(program', heard')
        BY <1>4, <3>1 DEF SeqSet
      <3> QED
        BY <1>2, <1>3, <3>1, <3>2 DEF Made, Told, OtherEvent
    <2>4. CASE SentenceNewProgram
      <3>1. /\ program = 0 \/ ProgramOver
            /\ \E answer \in EpgAnswers : SetProgram(answer, heard')
            /\ Say(StartEvents(heard'))
        BY <2>4 DEF SentenceNewProgram
      <3>2. program' # 0
        BY <1>4, <3>1, SetOfNothing DEF Say
      <3>3. /\ spoken' = [spoken EXCEPT ![program'] = Append(@, heard')]
            /\ pending' = <<ProgramStartEvent(program', heard')>>
                              \o <<CCSentenceEvent(program', heard')>>
        BY <3>1, <3>2 DEF Say, StartEvents
      <3>4. /\ ProgramStartEvent(program', heard') \in Event
            /\ CCSentenceEvent(program', heard') \in Event
        BY <1>2, <1>3, <3>2 DEF ProgramStartEvent, CCSentenceEvent, Event
      <3>5. \/ e = ProgramStartEvent(program', heard')
            \/ e = CCSentenceEvent(program', heard')
        <4>1. /\ Len(pending') = 2
              /\ pending'[1] = ProgramStartEvent(program', heard')
              /\ pending'[2] = CCSentenceEvent(program', heard')
          BY <3>3, <3>4, TwoEvents
        <4>2. 1..Len(pending') = {1, 2}
          BY <4>1
        <4> QED
          BY <1>4, <4>1, <4>2 DEF SeqSet
      <3> QED
        BY <1>2, <1>3, <3>1, <3>2, <3>3, <3>5
           DEF Made, Told, ProgramStartEvent, CCSentenceEvent
    <2> QED
      BY <2>1, <2>2, <2>3, <2>4 DEF Reading
  <1> QED
    BY <1>1, <1>4 DEF Waiting
-----------------------------------------------------------------------------
(* Whose sentences are shown.                                              *)

OwnText(c) == c.prog # 0 => SeqSet(c.text) \subseteq SeqSet(spoken[c.prog])

OwnIndex ==
    \A t \in Titles : \A c \in SeqSet(programIndex[t]) :
        SeqSet(c.text) \subseteq SpokenOf(t)

OwnInv ==
    /\ ListenerOK
    /\ \A e \in Waiting :
          Told(e) /\ (e.kind = "sentence" => e.id \in SeqSet(spoken[e.prog]))
    /\ OwnText(captions) /\ OwnText(live) /\ OwnIndex

LEMMA ShowingHasTitle ==
  /\ \A p \in Programs : Title[p] \in Titles
  /\ 0 \notin Programs
  BY EventsAssumption DEF EventsAssumption, Titles, Programs

LEMMA NothingIsShown == Nothing \in Shown /\ Nothing.prog = 0
                        /\ Nothing.text = <<>> /\ Nothing.start = 0
  BY DEF Nothing, ProgramCaptions, Shown

\* A program with one document.
LEMMA OneDocument ==
  ASSUME NEW c \in Shown
  PROVE  /\ <<c>> \in Seq(Shown) /\ <<c>> # <<>> /\ SeqSet(<<c>>) = {c}
         /\ Len(<<c>>) = 1 /\ <<c>>[1] = c
  BY DEF SeqSet

LEMMA OwnInit == PipelineInit => OwnInv
  <1> SUFFICES ASSUME PipelineInit
               PROVE  OwnInv
    OBVIOUS
  <1>1. /\ captions = Nothing /\ live = Nothing /\ interrupted = {}
        /\ programIndex = [t \in Titles |-> <<Nothing>>]
        /\ accepted = [p \in Programs |-> <<>>]
        /\ pending = <<>> /\ sendQueue = <<>> /\ sender = "test"
    BY DEF PipelineInit, ReaderInit, QueueInit, ListenerInit
  <1>2. accepted \in [Programs -> Seq(Nat)]
    <2>1. <<>> \in Seq(Nat)
      OBVIOUS
    <2> QED
      BY <1>1, <2>1
  <1>3. Waiting = {}
    BY <1>1, SetOfNothing DEF Waiting
  <1>4. /\ programIndex \in [Titles -> Seq(Shown)]
        /\ \A t \in Titles : programIndex[t] # <<>>
        /\ \A t \in Titles : \A c \in SeqSet(programIndex[t]) : c = Nothing
    BY <1>1, OneDocument, NothingIsShown
  <1> QED
    BY <1>1, <1>2, <1>3, <1>4, NothingIsShown, SetOfNothing
       DEF OwnInv, OwnIndex, ListenerOK, OwnText

\* Nothing that was spoken is taken back.
LEMMA SpokenStays ==
  ASSUME ReaderInv, ReaderInv', [PipelineNext]_pipelineVars, NEW p \in Programs
  PROVE  SeqSet(spoken[p]) \subseteq SeqSet(spoken'[p])
  <1>1. spoken \in [Programs -> Seq(Nat)] /\ heard' \in Nat
    BY DEF ReaderInv, ReaderOK
  <1>2. CASE UNCHANGED spoken
    BY <1>2
  <1>3. CASE spoken' = [spoken EXCEPT ![program'] = Append(@, heard')]
    <2>1. CASE p = program'
      <3>1. spoken[p] \in Seq(Nat) /\ spoken'[p] = Append(spoken[p], heard')
        BY <1>1, <1>3, <2>1
      <3>2. SeqSet(spoken'[p]) = SeqSet(spoken[p]) \union {heard'}
        BY <1>1, <3>1, SetOfAppend
      <3> QED
        BY <3>2
    <2>2. CASE p # program'
      BY <1>1, <1>3, <2>2
    <2> QED
      BY <2>1, <2>2
  <1> QED
    BY <1>2, <1>3
       DEF PipelineNext, ReaderStep, Tick, Reading, StartReading, OtherData,
           SentenceSameProgram, SentenceNewProgram, Say,
           OfferPending, ReaderStops, ReaderEnds, Disconnect, SenderStep,
           SenderLoop, Deliver, Unreachable, ReplyLost, HangsUnheard,
           HangsHandled, StartThrows, SenderDeath, SiteForgets, IndexFails,
           pipelineVars, readerVars

\* Captions queued for the program index stay with their program.
LEMMA OwnIndexed ==
  ASSUME ListenerOK, NEW c \in Shown, c.prog # 0, OwnText(c), OwnIndex,
         UNCHANGED spoken, AddProgram(c)
  PROVE  /\ programIndex' \in [Titles -> Seq(Shown)]
         /\ \A t \in Titles : programIndex'[t] # <<>>
         /\ OwnIndex'
  <1>1. c.prog \in Programs
    BY DEF Shown
  <1>2. Title[c.prog] \in Titles
    BY <1>1, ShowingHasTitle
  <1> DEFINE docs == programIndex[Title[c.prog]]
  <1>3. /\ programIndex' = [programIndex EXCEPT
                               ![Title[c.prog]] = Append(docs, c)]
        /\ programIndex \in [Titles -> Seq(Shown)] /\ docs \in Seq(Shown)
        /\ \A t \in Titles : programIndex[t] # <<>>
    BY <1>2 DEF AddProgram, ListenerOK
  <1>4. SeqSet(c.text) \subseteq SpokenOf(Title[c.prog])
    BY <1>1 DEF OwnText, SpokenOf, ShowingsOf
  <1>5. /\ Append(docs, c) \in Seq(Shown) /\ Append(docs, c) # <<>>
        /\ SeqSet(Append(docs, c)) = SeqSet(docs) \union {c}
    BY <1>3, SetOfAppend
  <1>6. \A t \in Titles : SpokenOf(t)' = SpokenOf(t)
    BY DEF SpokenOf
  <1> HIDE DEF docs
  <1>7. ASSUME NEW t \in Titles
        PROVE  \/ programIndex'[t] = programIndex[t]
               \/ t = Title[c.prog] /\ programIndex'[t] = Append(docs, c)
    BY <1>2, <1>3
  <1>8. /\ programIndex' \in [Titles -> Seq(Shown)]
        /\ \A t \in Titles : programIndex'[t] # <<>>
    BY <1>2, <1>3, <1>5, <1>7
  <1>9. OwnIndex'
    BY <1>4, <1>5, <1>6, <1>7 DEF OwnIndex, docs
  <1> QED
    BY <1>8, <1>9

\* What a search may find before the queue is through.
LEMMA ShowableShown ==
  ASSUME ListenerOK, NEW t \in Titles, NEW c \in Showable(t)
  PROVE  /\ c \in Shown
         /\ OwnIndex => SeqSet(c.text) \subseteq SpokenOf(t)
  <1>1. programIndex[t] \in Seq(Shown)
    BY DEF ListenerOK
  <1>2. c \in SeqSet(programIndex[t]) \/ c = Nothing
    BY DEF Showable
  <1>3. CASE c \in SeqSet(programIndex[t])
    BY <1>1, <1>3 DEF SeqSet, OwnIndex
  <1>4. CASE c = Nothing
    BY <1>4, NothingIsShown, SetOfNothing
  <1> QED
    BY <1>2, <1>3, <1>4

\* Documents lost in memory leave those of the same program.
LEMMA OwnLost ==
  ASSUME ListenerOK, OwnIndex, UNCHANGED spoken, DOMAIN programIndex' = Titles,
         \A t \in Titles : \/ programIndex'[t] = programIndex[t]
                           \/ \E c \in Showable(t) : programIndex'[t] = <<c>>,
         programIndex' = [t \in Titles |-> programIndex'[t]]
  PROVE  /\ programIndex' \in [Titles -> Seq(Shown)]
         /\ \A t \in Titles : programIndex'[t] # <<>>
         /\ OwnIndex'
  <1>1. ASSUME NEW t \in Titles
        PROVE  /\ programIndex'[t] \in Seq(Shown) /\ programIndex'[t] # <<>>
               /\ \A c \in SeqSet(programIndex'[t]) :
                     SeqSet(c.text) \subseteq SpokenOf(t)
    <2>1. CASE programIndex'[t] = programIndex[t]
      BY <2>1 DEF ListenerOK, OwnIndex
    <2>2. CASE programIndex'[t] # programIndex[t]
      <3>1. PICK c \in Showable(t) : programIndex'[t] = <<c>>
        BY <2>2
      <3>2. c \in Shown /\ SeqSet(c.text) \subseteq SpokenOf(t)
        BY ShowableShown
      <3> QED
        BY <3>1, <3>2, OneDocument
    <2> QED
      BY <2>1, <2>2
  <1>2. \A t \in Titles : SpokenOf(t)' = SpokenOf(t)
    BY DEF SpokenOf
  <1>3. programIndex' \in [Titles -> Seq(Shown)]
    BY <1>1
  <1> QED
    BY <1>1, <1>2, <1>3 DEF OwnIndex

\* One call of the listener.
LEMMA OwnHandled ==
  ASSUME ListenerOK, OwnText(captions), OwnText(live), OwnIndex,
         NEW e, Told(e), e.kind = "sentence" => e.id \in SeqSet(spoken[e.prog]),
         spoken \in [Programs -> Seq(Nat)], UNCHANGED spoken,
         Handle(e, spoken[e.prog])
  PROVE  /\ ListenerOK' /\ OwnText(captions)' /\ OwnText(live)'
         /\ OwnIndex'
  <1>1. /\ e.prog \in Programs /\ e.prog # 0 /\ e.id \in Nat
        /\ spoken[e.prog] \in Seq(Nat)
    BY ShowingHasTitle DEF Told
  <1>2. captions \in Shown /\ captions.text \in Seq(Nat)
    BY DEF ListenerOK, Shown
  <1>3. /\ accepted \in [Programs -> Seq(Nat)]
        /\ programIndex \in [Titles -> Seq(Shown)]
        /\ \A t \in Titles : programIndex[t] # <<>>
        /\ interrupted \subseteq Programs \union {0}
    BY DEF ListenerOK
  <1>0. UNCHANGED programIndex => OwnIndex'
    BY DEF OwnIndex, SpokenOf
  <1>4. Accept(e) => accepted' \in [Programs -> Seq(Nat)]
    <2>1. Append(accepted[e.prog], e.id) \in Seq(Nat)
      BY <1>1, <1>3
    <2> QED
      BY <1>1, <1>3, <2>1 DEF Accept
  <1>5. \A start, text : LET c == ProgramCaptions(e.prog, start, text) IN
           c.prog = e.prog /\ c.start = start /\ c.text = text
    BY DEF ProgramCaptions
  <1>6. \A start \in {0, e.prog}, text \in Seq(Nat) :
           LET c == ProgramCaptions(e.prog, start, text) IN
             c \in Shown /\ c # Nothing
    BY <1>1, NothingIsShown DEF ProgramCaptions, Shown
  <1>7. CASE e.kind = "sentence" /\ ColdStart(e, spoken[e.prog])
    <2>1. PICK n \in 0..Len(spoken[e.prog]) :
             captions' = ProgramCaptions(e.prog, 0,
                              Append(SubSeq(spoken[e.prog], 1, n), e.id))
      BY <1>7 DEF ColdStart, ScheduleId
    <2> DEFINE some == SubSeq(spoken[e.prog], 1, n)
    <2>2. some \in Seq(Nat) /\ SeqSet(some) \subseteq SeqSet(spoken[e.prog])
      <3>1. /\ Len(some) = n /\ some \in Seq(Nat)
            /\ \A i \in 1..n : some[i] = spoken[e.prog][i]
                               /\ i \in 1..Len(spoken[e.prog])
        BY <1>1
      <3> QED
        BY <3>1 DEF SeqSet
    <2> HIDE DEF some
    <2>3. /\ Append(some, e.id) \in Seq(Nat)
          /\ SeqSet(Append(some, e.id)) \subseteq SeqSet(spoken[e.prog])
      <3>1. e.id \in Nat /\ e.id \in SeqSet(spoken[e.prog])
        BY <1>1, <1>7
      <3>2. /\ Append(some, e.id) \in Seq(Nat)
            /\ SeqSet(Append(some, e.id)) = SeqSet(some) \union {e.id}
        BY <2>2, <3>1, SetOfAppend
      <3> QED
        BY <2>2, <3>1, <3>2
    <2>4. captions' = ProgramCaptions(e.prog, 0, Append(some, e.id))
      BY <2>1 DEF some
    <2>5. /\ captions' \in Shown /\ captions' # Nothing /\ captions'.start = 0
          /\ captions'.prog = e.prog /\ captions'.text = Append(some, e.id)
      <3>1. captions' \in Shown /\ captions' # Nothing
        BY ZenonT(60), <1>6, <2>3, <2>4
      <3>2. /\ captions'.start = 0 /\ captions'.prog = e.prog
            /\ captions'.text = Append(some, e.id)
        BY <1>5, <2>4
      <3> QED
        BY <3>1, <3>2
    <2>6. OwnText(captions)'
      BY <2>3, <2>5 DEF OwnText
    <2>7. /\ live' = captions' /\ Accept(e) /\ UNCHANGED programIndex
          /\ interrupted' = interrupted \union {e.prog}
      BY <1>7 DEF ColdStart, AddToLiveIndex
    <2> QED
      BY <1>0, <1>1, <1>3, <1>4, <2>5, <2>6, <2>7 DEF ListenerOK, OwnText
  <1>8. CASE e.kind = "sentence" /\ SameProgram(e)
    <2>1. captions.prog = e.prog
      BY <1>1, <1>8 DEF SameProgram, IsCurrentProgram, ListenerOK
    <2>2. /\ captions' = [captions EXCEPT !.text = Append(@, e.id)]
          /\ live' = captions' /\ Accept(e)
          /\ UNCHANGED <<programIndex, interrupted>>
      BY <1>8 DEF SameProgram, AddToLiveIndex
    <2>3. /\ Append(captions.text, e.id) \in Seq(Nat)
          /\ SeqSet(Append(captions.text, e.id)) \subseteq SeqSet(spoken[e.prog])
      <3>1. /\ SeqSet(captions.text) \subseteq SeqSet(spoken[e.prog])
            /\ e.id \in SeqSet(spoken[e.prog])
        BY <1>1, <1>8, <2>1 DEF OwnText
      <3> QED
        BY <1>1, <1>2, <3>1, SetOfAppend
    <2>4. /\ captions' \in Shown /\ captions'.prog = e.prog
          /\ captions'.start = captions.start
          /\ captions'.text = Append(captions.text, e.id)
      BY <1>2, <2>1, <2>2, <2>3 DEF Shown
    <2>5. OwnText(captions)'
      BY <2>3, <2>4 DEF OwnText
    <2> QED
      BY <1>0, <1>1, <1>3, <1>4, <2>1, <2>2, <2>4, <2>5
         DEF ListenerOK, OwnText
  <1>9. CASE e.kind = "sentence" /\ ProgramChanged(e)
    <2>1. /\ AddProgram(captions) /\ captions # Nothing
          /\ captions' = ProgramCaptions(e.prog, e.prog, <<e.id>>)
          /\ live' = captions' /\ Accept(e) /\ UNCHANGED interrupted
      BY <1>9 DEF ProgramChanged, AddToLiveIndex
    <2>2. <<e.id>> \in Seq(Nat) /\ SeqSet(<<e.id>>) \subseteq SeqSet(spoken[e.prog])
      <3>1. e.id \in Nat /\ e.id \in SeqSet(spoken[e.prog])
        BY <1>1, <1>9
      <3>2. SeqSet(<<e.id>>) = {e.id}
        BY DEF SeqSet
      <3>3. <<e.id>> \in Seq(Nat)
        BY <3>1
      <3> QED
        BY <3>1, <3>2, <3>3
    <2>3. /\ captions' \in Shown /\ captions' # Nothing
          /\ captions'.start = e.prog /\ captions'.prog = e.prog
          /\ captions'.text = <<e.id>>
      <3>1. <<e.id>> \in Seq(Nat) /\ e.prog \in {0, e.prog}
        BY <2>2
      <3>2. /\ captions' \in Shown /\ captions' # Nothing
        BY <1>6, <2>1, <3>1
      <3>3. /\ captions'.start = e.prog /\ captions'.prog = e.prog
            /\ captions'.text = <<e.id>>
        BY <1>5, <2>1
      <3> QED
        BY <3>2, <3>3
    <2>4. OwnText(captions)'
      BY <2>2, <2>3 DEF OwnText
    <2>5. /\ programIndex' \in [Titles -> Seq(Shown)]
          /\ \A t \in Titles : programIndex'[t] # <<>>
          /\ OwnIndex'
      BY <1>2, <2>1, OwnIndexed DEF ListenerOK
    <2> QED
      BY <1>1, <1>3, <1>4, <2>1, <2>3, <2>4, <2>5 DEF ListenerOK, OwnText
  <1>10. CASE e.kind = "sentence" /\ CaptureFails(e)
    <2>1. /\ UNCHANGED <<captions, live, accepted, interrupted>>
          /\ UNCHANGED programIndex \/ (captions # Nothing /\ AddProgram(captions))
      BY <1>10 DEF CaptureFails
    <2>2. /\ programIndex' \in [Titles -> Seq(Shown)]
          /\ \A t \in Titles : programIndex'[t] # <<>>
          /\ OwnIndex'
      BY <1>0, <1>2, <1>3, <2>1, OwnIndexed DEF ListenerOK
    <2> QED
      BY <2>1, <2>2 DEF ListenerOK, OwnText
  <1>11. CASE e.kind = "start" /\ StartKnown(e)
    <2>1. /\ AddProgram(captions) /\ captions # Nothing
          /\ captions' = ProgramCaptions(e.prog, 0, <<>>)
          /\ UNCHANGED <<live, accepted, interrupted>>
      BY <1>11 DEF StartKnown, ScheduleId
    <2>2. <<>> \in Seq(Nat)
      OBVIOUS
    <2>3. /\ captions' \in Shown /\ captions' # Nothing
          /\ captions'.start = 0 /\ captions'.prog = e.prog
          /\ captions'.text = <<>>
      BY <1>5, <1>6, <2>1, <2>2
    <2>4. OwnText(captions)'
      BY <2>3, SetOfNothing DEF OwnText
    <2>5. /\ programIndex' \in [Titles -> Seq(Shown)]
          /\ \A t \in Titles : programIndex'[t] # <<>>
          /\ OwnIndex'
      BY <1>2, <2>1, OwnIndexed DEF ListenerOK
    <2> QED
      BY <1>1, <2>1, <2>3, <2>4, <2>5 DEF ListenerOK, OwnText
  <1>12. CASE UNCHANGED listenerVars
    BY <1>0, <1>12 DEF listenerVars, ListenerOK, OwnText
  <1> QED
    BY <1>7, <1>8, <1>9, <1>10, <1>11, <1>12
       DEF Handle, StartIgnored, StartUnknown, Told

\* How documents get lost, and which showings with them.
Lost ==
  /\ DOMAIN programIndex' = Titles
  /\ programIndex' = [t \in Titles |-> programIndex'[t]]
  /\ \A t \in Titles :
        \/ programIndex'[t] = programIndex[t]
        \/ \E c \in Showable(t) : /\ programIndex'[t] = <<c>>
                                  /\ LostAfter(t, c) \subseteq interrupted'
  /\ interrupted \subseteq interrupted'
  /\ interrupted' \subseteq Programs \union {0}
  /\ captions' \in {captions, Nothing}
  /\ captions' = Nothing => captions.prog = 0 \/ captions.prog \in interrupted'
  /\ UNCHANGED <<live, accepted>>

LEMMA ListenerLoses ==
  ASSUME ListenerOK,
         \/ StartFails \/ Forget \/ \E t \in Titles : IndexerGivesUp(t)
  PROVE  Lost
  <1>1. /\ programIndex \in [Titles -> Seq(Shown)]
        /\ interrupted \subseteq Programs \union {0}
        /\ captions.prog \in Programs \union {0}
    BY DEF ListenerOK, Shown
  <1>2. \A t, c : LostAfter(t, c) \subseteq Programs
    BY DEF LostAfter
  <1>3. CASE StartFails \/ (Forget /\ EntryLost)
    BY <1>1, <1>3 DEF StartFails, Forget, EntryLost, Lost
  <1>4. CASE \E t \in Titles : IndexerGivesUp(t)
    <2>0. PICK t \in Titles : IndexerGivesUp(t)
      BY <1>4
    <2>1. PICK c \in Showable(t) :
             /\ programIndex' = [programIndex EXCEPT ![t] = <<c>>]
             /\ interrupted' = interrupted \union LostAfter(t, c)
             /\ UNCHANGED <<captions, live, accepted>>
      BY <2>0 DEF IndexerGivesUp
    <2>2. \A u \in Titles : \/ programIndex'[u] = programIndex[u]
                            \/ u = t /\ programIndex'[u] = <<c>>
      BY <1>1, <2>1
    <2>3. /\ DOMAIN programIndex' = Titles
          /\ programIndex' = [u \in Titles |-> programIndex'[u]]
      BY <1>1, <2>1
    <2>4. captions' = Nothing => captions.prog = 0
      BY <2>1, NothingIsShown
    <2> QED
      BY <1>1, <1>2, <2>1, <2>2, <2>3, <2>4 DEF Lost
  <1>5. CASE Forget /\ SiteRestarts
    <2>1. PICK shown :
             /\ \A t \in Titles : shown[t] \in Showable(t)
             /\ programIndex' = [t \in Titles |-> <<shown[t]>>]
             /\ interrupted' = interrupted
                   \union {p \in Programs :
                             p \in LostAfter(Title[p], shown[Title[p]])}
                   \union ({captions.prog} \ {0})
      BY <1>5 DEF SiteRestarts
    <2>2. captions' = Nothing /\ UNCHANGED <<live, accepted>>
      BY <1>5 DEF Forget, SiteRestarts
    <2>3. /\ DOMAIN programIndex' = Titles
          /\ programIndex' = [t \in Titles |-> programIndex'[t]]
          /\ \A t \in Titles : programIndex'[t] = <<shown[t]>>
      BY <2>1
    <2>4. \A t \in Titles : LostAfter(t, shown[t]) \subseteq interrupted'
      BY <2>1 DEF LostAfter
    <2>5. interrupted' \subseteq Programs \union {0}
      BY <1>1, <2>1
    <2>6. /\ interrupted \subseteq interrupted'
          /\ captions.prog # 0 => captions.prog \in interrupted'
      BY <2>1
    <2>7. \A t \in Titles : /\ programIndex'[t] = <<shown[t]>>
                            /\ LostAfter(t, shown[t]) \subseteq interrupted'
                            /\ shown[t] \in Showable(t)
      BY <2>1, <2>3, <2>4
    <2> QED
      BY <2>2, <2>3, <2>5, <2>6, <2>7 DEF Lost
  <1> QED
    BY <1>3, <1>4, <1>5 DEF Forget

\* What is lost shows under no other program.
LEMMA OwnForgotten ==
  ASSUME ListenerOK, OwnText(captions), OwnText(live), OwnIndex, Lost,
         UNCHANGED spoken
  PROVE  ListenerOK' /\ OwnText(captions)' /\ OwnText(live)' /\ OwnIndex'
  <1>1. /\ programIndex' \in [Titles -> Seq(Shown)]
        /\ \A t \in Titles : programIndex'[t] # <<>>
        /\ OwnIndex'
    <2>1. \A t \in Titles : \/ programIndex'[t] = programIndex[t]
                            \/ \E c \in Showable(t) : programIndex'[t] = <<c>>
      BY DEF Lost
    <2> QED
      BY <2>1, OwnLost DEF Lost
  <1>2. /\ captions' \in {captions, Nothing} /\ UNCHANGED <<live, accepted>>
        /\ interrupted' \subseteq Programs \union {0}
    BY DEF Lost
  <1> QED
    BY <1>1, <1>2, NothingIsShown DEF ListenerOK, OwnText

LEMMA OwnStep ==
  ASSUME OwnInv, LineInv, ReaderInv, ReaderInv', [PipelineNext]_pipelineVars
  PROVE  OwnInv'
  <1> USE DEF OwnInv
  <1>1. spoken \in [Programs -> Seq(Nat)] /\ heard' \in Nat
    BY DEF ReaderInv, ReaderOK
  <1>2. \A p \in Programs : SeqSet(spoken[p]) \subseteq SeqSet(spoken'[p])
    BY SpokenStays
  <1>3. ASSUME NEW e \in Waiting'
        PROVE  /\ Told(e)
               /\ e.kind = "sentence" => e.id \in SeqSet(spoken'[e.prog])
    <2>1. CASE e \in Waiting
      BY <1>2, <2>1 DEF Told
    <2>2. CASE e \notin Waiting
      <3>1. Reading /\ UNCHANGED queueVars
        BY <1>3, <2>2, WaitingShrinks
      <3>2. Made(e)
        BY <1>3, <2>2, <3>1, WaitingGrows
      <3>3. CASE e.kind = "sentence"
        <4>1. /\ e.prog \in Programs /\ e.prog = program' /\ e.id = heard'
              /\ spoken' = [spoken EXCEPT ![program'] = Append(@, heard')]
          BY <3>2, <3>3 DEF Made, Told
        <4>2. spoken'[e.prog] = Append(spoken[e.prog], e.id)
          BY <1>1, <4>1
        <4> QED
          BY <1>1, <3>2, <4>1, <4>2, SetOfAppend DEF Made
      <3> QED
        BY <3>2, <3>3 DEF Made
    <2> QED
      BY <2>1, <2>2
  <1>4. CASE UNCHANGED listenerVars
    <2>1. UNCHANGED <<captions, live, programIndex, accepted, interrupted>>
      BY <1>4 DEF listenerVars
    <2>2. ListenerOK'
      BY <2>1 DEF ListenerOK
    <2>3. OwnText(captions)' /\ OwnText(live)'
      BY <1>2, <2>1 DEF OwnText, ListenerOK, Shown
    <2>4. OwnIndex'
      <3>1. \A t \in Titles : SpokenOf(t) \subseteq SpokenOf(t)'
        BY <1>2 DEF SpokenOf, ShowingsOf
      <3> QED
        BY <2>1, <3>1 DEF OwnIndex
    <2> QED
      BY <1>3, <2>2, <2>3, <2>4
  <1>5. CASE Deliver \/ ReplyLost \/ HangsHandled
    <2>1. /\ sender = "send" /\ UNCHANGED spoken
          /\ Handle(toSend, spoken[toSend.prog])
      BY <1>5 DEF Deliver, ReplyLost, HangsHandled, TrySucceeds,
                  TryFailsAfterwards, TryHangs, Trying, Stored, readerVars
    <2>2. toSend \in Waiting
      BY <2>1 DEF Waiting
    <2>3. ListenerOK' /\ OwnText(captions)' /\ OwnText(live)' /\ OwnIndex'
      BY <1>1, <2>1, <2>2, OwnHandled
    <2> QED
      BY <1>3, <2>3
  <1>6. CASE StartThrows \/ SiteForgets \/ IndexFails
    <2>1. /\ UNCHANGED spoken
          /\ StartFails \/ Forget \/ \E t \in Titles : IndexerGivesUp(t)
      BY <1>6 DEF StartThrows, SiteForgets, IndexFails, readerVars
    <2>2. ListenerOK' /\ OwnText(captions)' /\ OwnText(live)' /\ OwnIndex'
      BY <2>1, ListenerLoses, OwnForgotten
    <2> QED
      BY <1>3, <2>2
  <1> QED
    BY <1>4, <1>5, <1>6
       DEF PipelineNext, ReaderStep, OfferPending, ReaderStops, Disconnect,
           SenderStep, SenderLoop, Unreachable, SenderDeath, HangsUnheard,
           pipelineVars

LEMMA LineInvariant == PipelineSpec => []LineInv
  <1>1. LineInv /\ ReaderInv /\ ReaderInv' /\ [PipelineNext]_pipelineVars
           => LineInv'
    BY Line_Inv
  <1> QED
    BY <1>1, LineInit, ReaderInvariant, PTL DEF PipelineSpec

LEMMA OwnInvariant == PipelineSpec => []OwnInv
  <1>1. /\ OwnInv /\ LineInv /\ ReaderInv /\ ReaderInv'
        /\ [PipelineNext]_pipelineVars
        => OwnInv'
    BY OwnStep
  <1> QED
    BY <1>1, OwnInit, ReaderInvariant, LineInvariant, PTL DEF PipelineSpec

\* Nothing shows under a program what was said in another one, whatever is
\* lost, repeated or forgotten on the way.
THEOREM EachItsOwn == PipelineSpec => []OnlyItsOwnSentences
  <1>1. OwnInv => OnlyItsOwnSentences
    <2> SUFFICES ASSUME OwnInv
                 PROVE  OnlyItsOwnSentences
      OBVIOUS
    <2>1. live = Nothing \/ live.prog # 0
      BY DEF OwnInv, ListenerOK
    <2> QED
      BY <2>1 DEF OwnInv, OwnIndex, OwnText, OnlyItsOwnSentences, ListenerOK
  <1> QED
    BY <1>1, OwnInvariant, PTL

-----------------------------------------------------------------------------
(* A showing is indexed whole.                                             *)

\* The reader has announced the showing and is not at an earlier one.
Reached(p) == /\ starts[p] # 0 /\ 2 * p <= clock + 2
              /\ program # 0 => p <= program

\* e may come after an event of showing p, and after what was done so far.
Follows(p, e) == /\ p <= e.prog
                 /\ e.kind = "start" /\ starts[p] <= 1 => p # e.prog

Fits(e) ==
    /\ captions.prog <= e.prog
    /\ \A p \in Programs : accepted[p] # <<>> => p <= e.prog
    /\ e.kind = "start" /\ starts[e.prog] <= 1 => accepted[e.prog] = <<>>

\* c is the whole document of showing p, or one of a later showing.
Replaces(c, p) == c.prog > p \/ (c.prog = p /\ c.text = accepted[p])

Whole(p) == Replaces(Indexed(Title[p]), p)

\* Showings that need not be collected whole: a second start event clears what
\* was collected.
Broken == interrupted \union {p \in Programs : starts[p] > 1}

\* What is collected is all that was accepted, and what was collected before
\* is indexed.
Collected ==
    /\ \A p \in Programs :
          accepted[p] # <<>> /\ captions # Nothing => p <= captions.prog
    /\ captions # Nothing /\ captions.prog \notin Broken =>
          /\ captions.text = accepted[captions.prog]
          /\ captions.start = 0 => captions.text = <<>>
    /\ \A p \in Programs \ Broken :
          accepted[p] # <<>> /\ p # captions.prog => Whole(p)

InTurn ==
    /\ \A d, e \in Waiting : Place(d) < Place(e) => Follows(d.prog, e)
    /\ \A e \in Waiting : Reached(e.prog) /\ Fits(e)
    /\ \A p \in Programs :
          accepted[p] # <<>> \/ captions.prog = p => Reached(p)

WholeInv == Collected /\ InTurn

LEMMA WholeInit == PipelineInit => WholeInv
  <1> SUFFICES ASSUME PipelineInit
               PROVE  WholeInv
    OBVIOUS
  <1>1. /\ captions = Nothing /\ accepted = [p \in Programs |-> <<>>]
        /\ pending = <<>> /\ sendQueue = <<>> /\ sender = "test"
    BY DEF PipelineInit, ReaderInit, QueueInit, ListenerInit
  <1>2. Waiting = {}
    BY <1>1, SetOfNothing DEF Waiting
  <1> QED
    BY <1>1, <1>2, ShowingHasTitle, NothingIsShown
       DEF WholeInv, Collected, InTurn

\* What is queued last is what the index shows in the end.
LEMMA IndexedLast ==
  ASSUME NEW s \in Seq(Shown), NEW c \in Shown
  PROVE  Append(s, c)[Len(Append(s, c))] = c
  OBVIOUS

LEMMA IndexedStays ==
  ASSUME UNCHANGED <<programIndex, accepted>>, NEW p, Whole(p)
  PROVE  Whole(p)'
  BY DEF Whole, Replaces, Indexed

\* Putting the captions into the program index.
LEMMA WholeIndexed ==
  ASSUME ListenerOK, Collected, captions # Nothing, AddProgram(captions),
         NEW p \in Programs \ Broken, accepted[p] # <<>>,
         accepted'[p] = accepted[p]
  PROVE  Whole(p)'
  <1>1. /\ captions.prog \in Programs /\ captions \in Shown
        /\ Title[p] \in Titles /\ Title[captions.prog] \in Titles
    BY ShowingHasTitle DEF ListenerOK, Shown
  <1> DEFINE docs == programIndex[Title[captions.prog]]
  <1>2. /\ programIndex' = [programIndex EXCEPT
                               ![Title[captions.prog]] = Append(docs, captions)]
        /\ programIndex \in [Titles -> Seq(Shown)] /\ docs \in Seq(Shown)
    BY <1>1 DEF AddProgram, ListenerOK
  <1> HIDE DEF docs
  <1>3. CASE Title[p] = Title[captions.prog]
    <2>1. programIndex'[Title[p]] = Append(docs, captions)
      BY <1>1, <1>2, <1>3
    <2>2. Indexed(Title[p])' = captions
      BY <1>1, <1>2, <2>1, IndexedLast DEF Indexed
    <2>3. Replaces(captions, p)
      <3>1. CASE p = captions.prog
        BY <1>1, <3>1 DEF Collected, Replaces
      <3>2. CASE p # captions.prog
        <4>1. p <= captions.prog
          BY DEF Collected
        <4>2. p \in Nat /\ captions.prog \in Nat
          BY <1>1, Schedule
        <4> QED
          BY <3>2, <4>1, <4>2 DEF Replaces
      <3> QED
        BY <3>1, <3>2
    <2> QED
      BY <2>2, <2>3 DEF Whole, Replaces
  <1>4. CASE Title[p] # Title[captions.prog]
    <2>1. Whole(p)
      BY <1>4 DEF Collected
    <2>2. programIndex'[Title[p]] = programIndex[Title[p]]
      BY <1>1, <1>2, <1>4
    <2> QED
      BY <2>1, <2>2 DEF Whole, Replaces, Indexed
  <1> QED
    BY <1>3, <1>4

\* One call of the listener, for an event that comes in its turn.
LEMMA WholeHandled ==
  ASSUME ReaderInv, ListenerOK, Collected, NEW e, NEW store, Told(e), Fits(e),
         Handle(e, store), UNCHANGED starts
  PROVE  /\ Collected'
         /\ captions'.prog \in {captions.prog, e.prog}
         /\ \A p \in Programs :
               accepted'[p] = accepted[p] \/ (p = e.prog /\ e.kind = "sentence")
  <1>1. /\ e.prog \in Programs /\ e.prog # 0 /\ e.id \in Nat
        /\ \A p \in Programs : p \in Nat
    BY Schedule, ShowingHasTitle DEF Told
  <1>11. \A p \in Programs : starts[p] \in Nat
    BY DEF ReaderInv, ReaderOK
  <1>2. /\ captions \in Shown /\ accepted \in [Programs -> Seq(Nat)]
        /\ captions # Nothing => captions.prog \in Programs
    BY ShowingHasTitle DEF ListenerOK, Shown
  <1>3. Accept(e) =>
           /\ accepted'[e.prog] = Append(accepted[e.prog], e.id)
           /\ \A p \in Programs : p # e.prog => accepted'[p] = accepted[p]
    BY <1>1, <1>2 DEF Accept
  <1>4. \A start, text : LET c == ProgramCaptions(e.prog, start, text) IN
           /\ c.prog = e.prog /\ c.start = start /\ c.text = text
           /\ c # Nothing
    BY <1>1, NothingIsShown DEF ProgramCaptions
  <1>5. CASE e.kind = "sentence" /\ ColdStart(e, store)
    <2>1. PICK text :
             /\ captions = Nothing /\ captions' = ProgramCaptions(e.prog, 0, text)
             /\ Accept(e) /\ UNCHANGED programIndex
             /\ Broken' = Broken \union {e.prog}
      BY <1>5 DEF ColdStart, ScheduleId, Broken
    <2>2. captions'.prog = e.prog /\ captions.prog = 0
      BY <1>4, <2>1, NothingIsShown
    <2>3. \A p \in Programs : accepted'[p] # <<>> => p <= e.prog
      BY <1>1, <1>3, <2>1 DEF Fits
    <2>4. ASSUME NEW p \in Programs \ Broken',
                 accepted'[p] # <<>>, p # captions'.prog
          PROVE  Whole(p)'
      <3>1. /\ p \in Programs \ Broken /\ accepted[p] # <<>> /\ p # 0
            /\ accepted'[p] = accepted[p]
        BY <1>3, <2>1, <2>2, <2>4, ShowingHasTitle
      <3> QED
        BY <2>1, <2>2, <3>1 DEF Collected, Whole, Replaces, Indexed
    <2> QED
      BY <1>3, <1>5, <2>1, <2>2, <2>3, <2>4 DEF Collected
  <1>6. CASE e.kind = "sentence" /\ SameProgram(e)
    <2>1. captions.prog = e.prog /\ captions.start # 0 /\ captions # Nothing
      BY <1>1, <1>6 DEF SameProgram, IsCurrentProgram, ListenerOK
    <2>2. /\ captions' = [captions EXCEPT !.text = Append(@, e.id)]
          /\ Accept(e) /\ UNCHANGED <<programIndex, Broken>>
      BY <1>6 DEF SameProgram, Broken
    <2>3. /\ captions'.prog = e.prog /\ captions'.start = captions.start
          /\ captions'.text = Append(captions.text, e.id)
      BY <1>2, <2>1, <2>2 DEF Shown
    <2>4. \A p \in Programs : accepted'[p] # <<>> => p <= e.prog
      BY <1>1, <1>3, <2>2 DEF Fits
    <2>5. ASSUME NEW p \in Programs \ Broken',
                 accepted'[p] # <<>>, p # captions'.prog
          PROVE  Whole(p)'
      BY <1>3, <2>1, <2>2, <2>3, <2>5 DEF Collected, Whole, Replaces, Indexed
    <2>6. captions'.prog \notin Broken' =>
             captions'.text = accepted'[captions'.prog]
      <3>1. e.prog \notin Broken => captions.text = accepted[e.prog]
        BY <2>1 DEF Collected
      <3>2. accepted'[e.prog] = Append(accepted[e.prog], e.id)
        BY <1>3, <2>2
      <3>3. ASSUME captions'.prog \notin Broken'
            PROVE  captions'.text = accepted'[e.prog]
        BY <2>2, <2>3, <3>1, <3>2, <3>3
      <3> QED
        BY <2>3, <3>3
    <2> QED
      BY <1>3, <1>6, <2>1, <2>2, <2>3, <2>4, <2>5, <2>6 DEF Collected
  <1>7. CASE e.kind = "sentence" /\ ProgramChanged(e)
    <2>1. /\ AddProgram(captions) /\ captions # Nothing
          /\ ~IsCurrentProgram(e.prog)
          /\ captions' = ProgramCaptions(e.prog, e.prog, <<e.id>>)
          /\ Accept(e) /\ UNCHANGED Broken
      BY <1>7 DEF ProgramChanged, Broken
    <2>2. /\ captions'.prog = e.prog /\ captions'.start = e.prog
          /\ captions'.text = <<e.id>>
      BY <1>4, <2>1
    <2>3. \A p \in Programs : accepted'[p] # <<>> => p <= e.prog
      BY <1>1, <1>3, <2>1 DEF Fits
    <2>4. e.prog \notin Broken => accepted[e.prog] = <<>>
      <3>1. CASE captions.prog = e.prog
        BY <2>1, <3>1 DEF Collected, IsCurrentProgram, ListenerOK
      <3>2. CASE captions.prog # e.prog
        <4>1. captions.prog < e.prog
          BY <1>1, <1>2, <2>1, <3>2 DEF Fits
        <4> QED
          BY <1>1, <1>2, <2>1, <4>1 DEF Collected
      <3> QED
        BY <3>1, <3>2
    <2>5. ASSUME e.prog \notin Broken
          PROVE  accepted'[e.prog] = <<e.id>>
      <3>1. Append(<<>>, e.id) = <<e.id>>
        OBVIOUS
      <3> QED
        BY <1>3, <2>1, <2>4, <2>5, <3>1
    <2>6. ASSUME NEW p \in Programs \ Broken',
                 accepted'[p] # <<>>, p # captions'.prog
          PROVE  Whole(p)'
      BY <1>3, <2>1, <2>2, <2>6, WholeIndexed
    <2> QED
      BY <1>1, <1>3, <1>7, <2>1, <2>2, <2>3, <2>5, <2>6 DEF Collected
  <1>8. CASE e.kind = "sentence" /\ CaptureFails(e)
    <2>1. /\ UNCHANGED <<captions, accepted, Broken>>
          /\ UNCHANGED programIndex \/ (captions # Nothing /\ AddProgram(captions))
      BY <1>8 DEF CaptureFails, Broken
    <2>2. ASSUME NEW p \in Programs \ Broken',
                 accepted'[p] # <<>>, p # captions'.prog
          PROVE  Whole(p)'
      <3>1. CASE UNCHANGED programIndex
        BY <2>1, <2>2, <3>1 DEF Collected, Whole, Replaces, Indexed
      <3>2. CASE captions # Nothing /\ AddProgram(captions)
        BY <2>1, <2>2, <3>2, WholeIndexed
      <3> QED
        BY <2>1, <3>1, <3>2
    <2> QED
      BY <2>1, <2>2 DEF Collected
  <1>9. CASE e.kind = "start" /\ StartKnown(e)
    <2>1. /\ AddProgram(captions) /\ captions # Nothing
          /\ captions' = ProgramCaptions(e.prog, 0, <<>>)
          /\ UNCHANGED <<accepted, Broken>>
      BY <1>9 DEF StartKnown, ScheduleId, Broken
    <2>2. /\ captions'.prog = e.prog /\ captions'.start = 0
          /\ captions'.text = <<>>
      BY <1>4, <2>1
    <2>3. e.prog \notin Broken => accepted[e.prog] = <<>>
      <3>1. e.prog \notin Broken => starts[e.prog] <= 1
        BY <1>1, <1>11 DEF Broken
      <3> QED
        BY <1>9, <3>1 DEF Fits
    <2>4. \A p \in Programs : accepted'[p] # <<>> => p <= e.prog
      BY <2>1 DEF Fits
    <2>5. ASSUME NEW p \in Programs \ Broken',
                 accepted'[p] # <<>>, p # captions'.prog
          PROVE  Whole(p)'
      BY <2>1, <2>5, WholeIndexed
    <2> QED
      BY <2>1, <2>2, <2>3, <2>4, <2>5 DEF Collected
  <1>10. CASE UNCHANGED listenerVars
    BY <1>10 DEF listenerVars, Collected, Whole, Replaces, Indexed, Broken
  <1> QED
    BY <1>5, <1>6, <1>7, <1>8, <1>9, <1>10
       DEF Handle, StartIgnored, StartUnknown, Told

\* What is lost counts as interrupted; the rest stays whole.
LEMMA WholeForgotten ==
  ASSUME ListenerOK, Collected, Lost, UNCHANGED starts
  PROVE  /\ Collected' /\ captions'.prog \in {captions.prog, 0}
         /\ UNCHANGED accepted
  <1>1. /\ captions' \in {captions, Nothing} /\ UNCHANGED accepted
        /\ Broken \subseteq Broken'
        /\ captions' = Nothing =>
              captions.prog = 0 \/ captions.prog \in Broken'
    BY DEF Lost, Broken
  <1>2. ASSUME NEW p \in Programs \ Broken', accepted[p] # <<>>,
               p # captions'.prog
        PROVE  Whole(p)'
    <2>1. p \in Programs \ Broken /\ p # captions.prog /\ p \in Nat
      BY <1>1, <1>2, Schedule, ShowingHasTitle
    <2>2. Whole(p) /\ Title[p] \in Titles
      BY <1>2, <2>1, ShowingHasTitle DEF Collected
    <2>3. CASE programIndex'[Title[p]] = programIndex[Title[p]]
      BY <1>1, <2>2, <2>3 DEF Whole, Replaces, Indexed
    <2>4. CASE programIndex'[Title[p]] # programIndex[Title[p]]
      <3>1. PICK c \in Showable(Title[p]) :
               /\ programIndex'[Title[p]] = <<c>>
               /\ LostAfter(Title[p], c) \subseteq Broken'
        BY <2>2, <2>4 DEF Lost, Broken
      <3>2. Indexed(Title[p])' = c
        BY <3>1 DEF Indexed
      <3>3. Indexed(Title[p]) \in Shown
        <4>1. /\ programIndex[Title[p]] \in Seq(Shown)
              /\ programIndex[Title[p]] # <<>>
          BY <2>2 DEF ListenerOK
        <4> QED
          BY <4>1 DEF Indexed
      <3>4. Indexed(Title[p]).prog \in Nat
        BY <3>3, Schedule DEF Shown
      <3>5. c = Indexed(Title[p])
        <4>1. Indexed(Title[p]).prog >= p
          BY <2>1, <2>2, <3>4 DEF Whole, Replaces
        <4>2. p <= Indexed(Title[p]).prog
          BY <2>1, <3>4, <4>1
        <4> QED
          BY <1>2, <2>1, <3>1, <4>2 DEF LostAfter
      <3> QED
        BY <1>1, <2>2, <3>2, <3>5 DEF Whole, Replaces
    <2> QED
      BY <2>3, <2>4
  <1>3. CASE captions' = Nothing
    BY <1>1, <1>2, <1>3, NothingIsShown DEF Collected
  <1>4. CASE captions' = captions
    BY <1>1, <1>2, <1>4 DEF Collected
  <1> QED
    BY <1>1, <1>3, <1>4, NothingIsShown

\* The reader goes on from showing to showing.
LEMMA ReachedStays ==
  ASSUME ReaderInv, ReaderInv', [PipelineNext]_pipelineVars,
         NEW p \in Programs, Reached(p)
  PROVE  Reached(p)'
  <1>1. /\ p \in Nat /\ starts[p] \in Nat /\ clock \in Nat
        /\ clock \in 1..2 * MaxPrograms - 1
    BY Schedule DEF ReaderInv, ReaderOK
  <1>2. CASE UNCHANGED <<program, starts>> /\ (clock' = clock \/ clock' = clock + 1)
    BY <1>1, <1>2 DEF Reached
  <1>3. CASE /\ UNCHANGED clock
             /\ \E answer \in EpgAnswers, id \in Nat : SetProgram(answer, id)
    <2>1. /\ program' = 0 \/ program' = OnAirSoon(clock)
          /\ starts' = IF program' = 0 THEN starts
                       ELSE [starts EXCEPT ![program'] = @ + 1]
      BY <1>3 DEF SetProgram, AskEpg
    <2>2. /\ OnAirSoon(clock) \in Nat /\ clock < 2 * OnAirSoon(clock)
          /\ OnAirSoon(clock) \in Programs
      BY <1>1, OnAirSoonIsNext, Schedule
    <2>3. p <= OnAirSoon(clock)
      BY <1>1, <2>2 DEF Reached
    <2>4. starts'[p] # 0
      BY <1>1, <2>1, <2>2 DEF Reached, ReaderInv, ReaderOK
    <2> QED
      BY <1>3, <2>1, <2>3, <2>4 DEF Reached
  <1>4. CASE StartReading \/ SentenceNewProgram
    <2>1. UNCHANGED clock
      BY <1>4 DEF StartReading, SentenceNewProgram, Hear
    <2>2. heard' \in Nat /\ 0 \in Nat
      BY DEF ReaderInv, ReaderOK
    <2>3. \E answer \in EpgAnswers, id \in Nat : SetProgram(answer, id)
      BY <1>4, <2>2 DEF StartReading, SentenceNewProgram
    <2> QED
      BY <1>3, <2>1, <2>3
  <1> QED
    BY <1>2, <1>4
       DEF PipelineNext, ReaderStep, Tick, Reading,
           SentenceSameProgram, OtherData, Hear,
           OfferPending, ReaderStops, ReaderEnds, Disconnect, SenderStep,
           SenderLoop, Deliver, Unreachable, ReplyLost, HangsUnheard,
           HangsHandled, StartThrows, SenderDeath, SiteForgets, IndexFails,
           pipelineVars, readerVars

\* No announcement is taken back.
LEMMA StartsGrow ==
  ASSUME ReaderInv, [PipelineNext]_pipelineVars, NEW p \in Programs
  PROVE  starts[p] \in Nat /\ starts'[p] \in {starts[p], starts[p] + 1}
  <1>1. starts \in [Programs -> Nat]
    BY DEF ReaderInv, ReaderOK
  <1>2. ASSUME NEW answer \in EpgAnswers, NEW id, SetProgram(answer, id)
        PROVE  starts'[p] \in {starts[p], starts[p] + 1}
    BY <1>1, <1>2 DEF SetProgram
  <1>3. CASE StartReading \/ SentenceNewProgram
    BY <1>1, <1>2, <1>3 DEF StartReading, SentenceNewProgram
  <1>4. CASE UNCHANGED starts
    BY <1>1, <1>4
  <1> QED
    BY <1>3, <1>4
       DEF PipelineNext, ReaderStep, Tick, Reading, SentenceSameProgram,
           OtherData, OfferPending, ReaderStops, ReaderEnds, Disconnect,
           SenderStep, SenderLoop, Deliver, Unreachable, ReplyLost,
           HangsUnheard, HangsHandled, StartThrows, SenderDeath, SiteForgets,
           IndexFails, pipelineVars, readerVars

\* A start event is counted.
LEMMA AnnouncedCounts ==
  ASSUME ReaderInv, NEW answer, NEW id, SetProgram(answer, id),
         program' \in Programs
  PROVE  starts'[program'] = starts[program'] + 1
  BY Schedule DEF SetProgram, ReaderInv, ReaderOK

\* What the reader makes comes after everything that was made before.
LEMMA MadeFollows ==
  ASSUME ReaderInv, ReaderInv', [PipelineNext]_pipelineVars,
         NEW e, Made(e), NEW p \in Programs, Reached(p)
  PROVE  Follows(p, e)'
  <1>1. e.prog = program' /\ program' # 0 /\ program' \in Programs
    BY ShowingHasTitle DEF Made, Told
  <1>2. p <= program'
    BY <1>1, ReachedStays DEF Reached
  <1>3. ASSUME e.kind = "start", p = program'
        PROVE  starts'[p] > 1
    <2>1. PICK answer \in EpgAnswers : SetProgram(answer, heard')
      BY <1>3 DEF Made
    <2>2. starts'[p] = starts[p] + 1
      BY <1>1, <1>3, <2>1, AnnouncedCounts
    <2>3. starts[p] \in Nat /\ starts[p] # 0
      BY DEF Reached, ReaderInv, ReaderOK
    <2> QED
      BY <2>2, <2>3
  <1>4. starts'[p] \in Nat
    BY StartsGrow
  <1> QED
    BY <1>1, <1>2, <1>3, <1>4 DEF Follows

LEMMA MadeIsReached ==
  ASSUME ReaderInv, ReaderInv', NEW e, Made(e)
  PROVE  Reached(e.prog)'
  <1>1. e.prog = program' /\ program' # 0 /\ program' \in Programs
    BY ShowingHasTitle DEF Made, Told
  <1>2. starts'[program'] # 0
    BY <1>1 DEF ReaderInv, Announced
  <1>3. 2 * program' <= clock' + 2 /\ program' \in Nat
    BY <1>1, Schedule DEF ReaderInv, Begun
  <1> QED
    BY <1>1, <1>2, <1>3 DEF Reached

\* The places of new events come after those of the ones that wait.
LEMMA PlacesGrow ==
  ASSUME LineInv, LineInv', ReaderInv, ReaderInv', Reading,
         UNCHANGED queueVars, NEW d \in Waiting, NEW e \in SeqSet(pending')
  PROVE  Place(d) < Place(e)
  <1>1. UNCHANGED <<sendQueue, sender, toSend>>
    BY DEF queueVars
  <1>2. d \notin SeqSet(pending)
    <2>1. CASE StartReading
      BY <2>1, SetOfNothing DEF StartReading, LineInv, LineOK
    <2>2. CASE ~StartReading
      BY <2>2, SetOfNothing DEF Reading, SentenceSameProgram, OtherData,
                                SentenceNewProgram, Hear
    <2> QED
      BY <2>1, <2>2
  <1>3. PICK i \in 1..Len(pending') : e = pending'[i]
    BY DEF SeqSet
  <1>4. Before(Place(pending[i]))'
    BY <1>3 DEF LineInv, Line
  <1>5. CASE d \in SeqSet(sendQueue)
    BY <1>1, <1>3, <1>4, <1>5 DEF Before, SeqSet
  <1>6. CASE sender = "send" /\ d = toSend
    BY <1>1, <1>3, <1>4, <1>6 DEF Before
  <1> QED
    BY <1>2, <1>5, <1>6 DEF Waiting

\* What waits comes after what is being sent.
LEMMA SentFirst ==
  ASSUME LineInv, sender = "send", NEW f \in Waiting
  PROVE  f = toSend \/ Place(toSend) < Place(f)
  <1>1. CASE f \in SeqSet(sendQueue)
    BY <1>1 DEF LineInv, QueuedInOrder, SeqSet
  <1>2. CASE f \in SeqSet(pending)
    BY <1>2 DEF LineInv, Line, Before, SeqSet
  <1> QED
    BY <1>1, <1>2 DEF Waiting

\* More showings that need not be whole do no harm.
LEMMA CollectedStays ==
  ASSUME Collected, UNCHANGED <<captions, programIndex, accepted>>,
         Broken \subseteq Broken'
  PROVE  Collected'
  BY DEF Collected, Whole, Replaces, Indexed

LEMMA WholeStep ==
  ASSUME WholeInv, OwnInv, OwnInv', LineInv, LineInv', ReaderInv, ReaderInv',
         [PipelineNext]_pipelineVars
  PROVE  WholeInv'
  <1> USE DEF WholeInv
  <1>1. /\ \A e \in Waiting : Told(e) /\ e.prog \in Programs
        /\ ListenerOK
        /\ \A p \in Programs : p \in Nat
        /\ captions.prog \in Programs \union {0}
    <2>1. \A p \in Programs : p \in Nat
      BY Schedule
    <2>2. ListenerOK /\ \A e \in Waiting : Told(e)
      BY DEF OwnInv
    <2> QED
      BY <2>1, <2>2 DEF Told, ListenerOK, Shown
  <1>2. \A p \in Programs : Reached(p) => Reached(p)'
    BY ReachedStays
  <1>8. /\ \A p \in Programs : starts'[p] <= 1 => starts[p] <= 1
        /\ \A p \in Programs : starts[p] > 1 => starts'[p] > 1
    BY StartsGrow
  <1>9. \A p \in Programs : \A e : Follows(p, e) => Follows(p, e)'
    BY <1>8 DEF Follows
  <1>3. CASE Reading /\ UNCHANGED queueVars /\ UNCHANGED listenerVars
    <2>1. /\ UNCHANGED <<captions, programIndex, accepted>>
          /\ Broken \subseteq Broken'
      BY <1>3, <1>8 DEF listenerVars, Broken
    <2>2. \A e \in Waiting' : e \in Waiting
                              \/ (e \in SeqSet(pending') /\ Made(e))
      BY <1>3, WaitingGrows
    <2>3. Collected'
      BY <2>1, CollectedStays
    <2>4. ASSUME NEW e \in Waiting'
          PROVE  Reached(e.prog)' /\ Fits(e)'
      <3>1. CASE e \in Waiting
        BY <1>1, <1>2, <1>8, <2>1, <3>1 DEF InTurn, Fits
      <3>2. CASE Made(e)
        <4>1. e.prog \in Programs
          BY <3>2 DEF Made, Told
        <4>2. \A p \in Programs : accepted[p] # <<>> =>
                 p <= e.prog
                 /\ (e.kind = "start" /\ starts'[p] <= 1 => p # e.prog)
          BY <3>2, MadeFollows DEF InTurn, Follows
        <4>3. captions.prog <= e.prog
          <5>1. CASE captions.prog = 0
            BY <1>1, <4>1, <5>1
          <5>2. CASE captions.prog \in Programs
            BY <3>2, <5>2, MadeFollows DEF InTurn, Follows
          <5> QED
            BY <1>1, <5>1, <5>2
        <4> QED
          BY <2>1, <3>2, <4>1, <4>2, <4>3, MadeIsReached DEF Fits
      <3> QED
        BY <2>2, <2>4, <3>1, <3>2
    <2>5. ASSUME NEW d \in Waiting', NEW e \in Waiting', Place(d) < Place(e)
          PROVE  Follows(d.prog, e)'
      <3>1. CASE d \in Waiting /\ e \in Waiting
        BY <1>1, <1>9, <2>5, <3>1 DEF InTurn
      <3>2. CASE d \in Waiting /\ Made(e)
        BY <1>1, <3>2, MadeFollows DEF InTurn
      <3>3. CASE e \in Waiting /\ d \in SeqSet(pending') /\ Made(d)
        <4>1. Place(e) < Place(d)
          BY <1>3, <3>3, PlacesGrow
        <4>2. Place(d) \in Nat /\ Place(e) \in Nat
          <5>1. d.id \in Nat /\ e.id \in Nat
            BY <1>1, <3>3 DEF Made, Told
          <5> QED
            BY <5>1 DEF Place
        <4> QED
          BY <2>5, <4>1, <4>2
      <3>4. CASE Made(d) /\ Made(e)
        <4>1. d.prog = e.prog /\ d.id = e.id /\ d.id \in Nat
              /\ e.prog \in Nat
          BY <1>1, <3>4 DEF Made, Told
        <4>2. e.kind # "start"
          BY <2>5, <4>1 DEF Place
        <4> QED
          BY <4>1, <4>2 DEF Follows
      <3> QED
        BY <2>2, <2>5, <3>1, <3>2, <3>3, <3>4
    <2>6. \A p \in Programs :
             accepted'[p] # <<>> \/ captions'.prog = p => Reached(p)'
      BY <1>2, <2>1 DEF InTurn
    <2>7. InTurn'
      BY <2>4, <2>5, <2>6 DEF InTurn
    <2> QED
      BY <2>3, <2>7
  <1>4. CASE Waiting' \subseteq Waiting /\ UNCHANGED listenerVars
    <2>1. /\ UNCHANGED <<captions, programIndex, accepted>>
          /\ Broken \subseteq Broken'
      BY <1>4, <1>8 DEF listenerVars, Broken
    <2>2. Collected'
      BY <2>1, CollectedStays
    <2>3. /\ \A d, e \in Waiting' : Place(d) < Place(e) => Follows(d.prog, e)'
          /\ \A e \in Waiting' : Reached(e.prog)' /\ Fits(e)'
      BY <1>1, <1>2, <1>4, <1>8, <1>9, <2>1 DEF InTurn, Fits
    <2>4. InTurn'
      BY <1>2, <2>1, <2>3 DEF InTurn
    <2> QED
      BY <2>2, <2>4
  <1>5. CASE Deliver \/ ReplyLost \/ HangsHandled
    <2>1. /\ sender = "send" /\ Handle(toSend, Stored(toSend))
          /\ Waiting' \subseteq Waiting /\ UNCHANGED starts
      <3>1. /\ UNCHANGED starts /\ sender = "send" /\ Handle(toSend, Stored(toSend))
            /\ UNCHANGED <<pending, sendQueue>>
            /\ sender' = "send" => UNCHANGED toSend
        BY <1>5 DEF Deliver, ReplyLost, HangsHandled, TrySucceeds,
                    TryFailsAfterwards, TryHangs, Trying, readerVars
      <3> QED
        BY <3>1 DEF Waiting
    <2>2. toSend \in Waiting /\ Told(toSend) /\ Fits(toSend)
          /\ toSend.prog \in Programs /\ Reached(toSend.prog)
      BY <1>1, <2>1 DEF Waiting, InTurn
    <2>3. /\ Collected'
          /\ captions'.prog \in {captions.prog, toSend.prog}
          /\ \A p \in Programs :
                \/ accepted'[p] = accepted[p]
                \/ p = toSend.prog /\ toSend.kind = "sentence"
      BY <1>1, <2>1, <2>2, WholeHandled
    <2>4. ASSUME NEW f \in Waiting
          PROVE  Fits(f)'
      <3>1. f = toSend \/ Follows(toSend.prog, f)
        BY <2>1, <2>2, SentFirst DEF InTurn
      <3>2. Fits(f) /\ f.prog \in Programs
        BY <1>1 DEF InTurn
      <3>3. toSend.prog <= f.prog
        BY <1>1, <2>2, <3>1 DEF Follows
      <3>4. f.kind = "start" /\ starts[f.prog] <= 1 => accepted'[f.prog] = <<>>
        BY <2>3, <3>1, <3>2 DEF Follows, Fits
      <3> QED
        BY <2>1, <2>3, <3>2, <3>3, <3>4 DEF Fits
    <2>5. \A p \in Programs :
             accepted'[p] # <<>> \/ captions'.prog = p => Reached(p)'
      BY <1>2, <2>2, <2>3 DEF InTurn
    <2>6. InTurn'
      BY <1>1, <1>2, <1>9, <2>1, <2>4, <2>5 DEF InTurn
    <2> QED
      BY <2>3, <2>6
  <1>6. CASE StartThrows \/ SiteForgets \/ IndexFails
    <2>1. Waiting' \subseteq Waiting /\ UNCHANGED starts
      BY <1>6 DEF StartThrows, TryFails, Trying, SiteForgets, IndexFails,
                  queueVars, readerVars, Waiting
    <2>2. StartFails \/ Forget \/ \E t \in Titles : IndexerGivesUp(t)
      BY <1>6 DEF StartThrows, SiteForgets, IndexFails
    <2>3. /\ Collected' /\ captions'.prog \in {captions.prog, 0}
          /\ UNCHANGED accepted
      BY <1>1, <2>1, <2>2, ListenerLoses, WholeForgotten
    <2>4. \A e \in Waiting : Fits(e)'
      <3> SUFFICES ASSUME NEW e \in Waiting
                   PROVE  Fits(e)'
        OBVIOUS
      <3>1. 0 <= e.prog
        BY <1>1
      <3> QED
        BY <2>1, <2>3, <3>1 DEF InTurn, Fits
    <2>5. \A p \in Programs :
             accepted'[p] # <<>> \/ captions'.prog = p => Reached(p)'
      BY <1>2, <2>3, ShowingHasTitle DEF InTurn
    <2>6. InTurn'
      BY <1>1, <1>2, <1>9, <2>1, <2>4, <2>5 DEF InTurn
    <2> QED
      BY <2>3, <2>6
  <1>7. CASE UNCHANGED listenerVars
    <2>1. CASE Reading /\ UNCHANGED queueVars
      BY <1>3, <1>7, <2>1
    <2>2. CASE ~(Reading /\ UNCHANGED queueVars)
      BY <1>4, <1>7, <2>2, WaitingShrinks
    <2> QED
      BY <2>1, <2>2
  <1> QED
    BY <1>5, <1>6, <1>7
       DEF PipelineNext, ReaderStep, OfferPending, ReaderStops, Disconnect,
           SenderStep, SenderLoop, Unreachable, SenderDeath, HangsUnheard,
           pipelineVars

\* A showing that was collected in one piece is in the program index with all
\* its sentences when the listener has moved on, unless the EPG service knew no
\* end of it (a start event for each sentence clears the captions each time).
THEOREM WholeOnceOver == PipelineSpec => []CompleteOnceOver
  <1>1. /\ WholeInv /\ OwnInv /\ OwnInv' /\ LineInv /\ LineInv'
        /\ ReaderInv /\ ReaderInv' /\ [PipelineNext]_pipelineVars
        => WholeInv'
    BY WholeStep
  <1>2. OwnInv /\ WholeInv /\ ReaderInv => CompleteOnceOver
    <2> SUFFICES ASSUME OwnInv, WholeInv, ReaderInv,
                        NEW p \in Programs \ interrupted,
                        p < captions.prog, accepted[p] # <<>>, starts[p] <= 1
                 PROVE  Whole(p)
      BY DEF CompleteOnceOver, Whole, Replaces
    <2>1. p # captions.prog
      BY Schedule DEF OwnInv, ListenerOK, Shown
    <2>2. p \notin Broken
      BY DEF Broken, ReaderInv, ReaderOK
    <2> QED
      BY <2>1, <2>2 DEF WholeInv, Collected
  <1> QED
    BY <1>1, <1>2, WholeInit, ReaderInvariant, LineInvariant, OwnInvariant, PTL
       DEF PipelineSpec

-----------------------------------------------------------------------------
(* The way of an event implements EventChannel.  The abstract line is the   *)
(* event being sent, the queue and what the reader still has to offer; most *)
(* steps hand an event from one of these to the next and leave the line as  *)
(* it is.                                                                   *)

ChannelLine == InSending \o sendQueue \o pending

\* The two ends of a sequence that was put together.
LEMMA EndsOfConcat ==
  ASSUME NEW S, NEW s \in Seq(S), NEW t \in Seq(S)
  PROVE  /\ SubSeq(s \o t, 1, Len(s)) = s
         /\ SubSeq(s \o t, Len(s) + 1, Len(s \o t)) = t
  <1>1. /\ s \o t \in Seq(S) /\ Len(s \o t) = Len(s) + Len(t)
        /\ Len(s) \in Nat /\ Len(t) \in Nat
    BY ConcatProperties, LenProperties
  <1>2. SubSeq(s \o t, 1, Len(s)) = s
    <2>1. CASE s = <<>>
      BY <1>1, <2>1, SubSeqEmpty, EmptySeq
    <2>2. CASE s # <<>>
      <3>1. Len(s) \in Nat \ {0}
        BY <2>2, EmptySeq
      <3> QED
        BY <3>1, SubSeqOfConcat1, SubSeqFull
    <2> QED
      BY <2>1, <2>2
  <1>3. SubSeq(s \o t, Len(s) + 1, Len(s \o t)) = t
    <2>1. CASE t = <<>>
      <3>1. Len(s \o t) < Len(s) + 1
        BY <1>1, <2>1, EmptySeq
      <3> QED
        BY <1>1, <2>1, <3>1, SubSeqEmpty
    <2>2. CASE t # <<>>
      <3>1. Len(t) \in Nat \ {0}
        BY <2>2, EmptySeq
      <3>2. /\ Len(s) + 1 \in Len(s)+1 .. Len(s)+Len(t)
            /\ Len(s) + Len(t) \in Len(s)+1 .. Len(s)+Len(t)
            /\ Len(s) + 1 - Len(s) = 1
            /\ Len(s) + Len(t) - Len(s) = Len(t)
        BY <1>1, <3>1
      <3>3. SubSeq(s \o t, Len(s) + 1, Len(s) + Len(t)) = SubSeq(t, 1, Len(t))
        BY <3>2, SubSeqOfConcat2
      <3> QED
        BY <1>1, <3>3, SubSeqFull
    <2> QED
      BY <2>1, <2>2
  <1> QED
    BY <1>2, <1>3

\* The same events, with the parentheses elsewhere.
Regrouped(r, s, t) == (r \o s) \o t = r \o (s \o t)

LEMMA Regroup ==
  ASSUME NEW r \in Seq(Event), NEW s \in Seq(Event), NEW t \in Seq(Event)
  PROVE  Regrouped(r, s, t)
  BY ConcatAssociative DEF Regrouped

LEMMA ConcatNothing ==
  ASSUME NEW S, NEW s \in Seq(S)
  PROVE  s \o <<>> = s /\ <<>> \o s = s
  BY ConcatEmptySeq

LEMMA HeadFirst ==
  ASSUME NEW S, NEW s \in Seq(S), s # <<>>
  PROVE  /\ Head(s) \in S /\ Tail(s) \in Seq(S)
         /\ <<Head(s)>> \in Seq(S) /\ s = <<Head(s)>> \o Tail(s)
  BY HeadTailProperties

\* What is in the line are events.
LEMMA LineParts ==
  ASSUME LineInv
  PROVE  /\ InSending \in Seq(Event) /\ sendQueue \in Seq(Event)
         /\ pending \in Seq(Event) /\ InSending \o sendQueue \in Seq(Event)
         /\ sendQueue \o pending \in Seq(Event) /\ ChannelLine \in Seq(Event)
         /\ ChannelLine = InSending \o (sendQueue \o pending)
  <1>1. /\ InSending \in Seq(Event) /\ sendQueue \in Seq(Event)
        /\ pending \in Seq(Event)
    <2>1. toSend \in Event /\ <<toSend>> \in Seq(Event) /\ <<>> \in Seq(Event)
      BY DEF LineInv, LineOK
    <2> QED
      BY <2>1 DEF LineInv, LineOK, InSending
  <1> QED
    <2>1. Regrouped(InSending, sendQueue, pending)
      BY <1>1, Regroup
    <2> QED
      BY <1>1, <2>1, ConcatProperties DEF ChannelLine, Regrouped

\* Events get lost: those in the middle of a line of three parts.
LEMMA ChannelLoses ==
  ASSUME NEW r \in Seq(Event), NEW s \in Seq(Event), NEW t \in Seq(Event),
         ChannelLine = (r \o s) \o t, ChannelLine' = r \o t,
         UNCHANGED <<reader, heard, done>>
  PROVE  [Channel!Next]_Channel!channel
  <1>1. CASE s = <<>>
    <2>1. ChannelLine' = ChannelLine
      BY <1>1, ConcatNothing
    <2> QED
      BY <2>1 DEF Channel!channel, ChannelLine
  <1>2. CASE s # <<>>
    <2> DEFINE i == Len(r) + 1
               j == Len(r) + Len(s)
    <2>1. /\ r \o s \in Seq(Event) /\ s \o t \in Seq(Event)
          /\ Len(r \o s) = Len(r) + Len(s)
          /\ Len(ChannelLine) = Len(r) + Len(s) + Len(t)
          /\ Len(r) \in Nat /\ Len(s) \in Nat \ {0} /\ Len(t) \in Nat
          /\ ChannelLine = r \o (s \o t)
      <3>1. /\ r \o s \in Seq(Event) /\ s \o t \in Seq(Event)
            /\ Len(r \o s) = Len(r) + Len(s)
        BY ConcatProperties
      <3>2. Len((r \o s) \o t) = Len(r \o s) + Len(t)
        BY <3>1, ConcatProperties
      <3>3. Len(r) \in Nat /\ Len(s) \in Nat \ {0} /\ Len(t) \in Nat
        BY <1>2, LenProperties, EmptySeq
      <3>4. Regrouped(r, s, t)
        BY Regroup
      <3> QED
        BY <3>1, <3>2, <3>3, <3>4 DEF Regrouped
    <2>2. /\ i \in 1..Len(ChannelLine) /\ j \in i..Len(ChannelLine)
          /\ i - 1 = Len(r) /\ j + 1 = Len(r \o s) + 1
      BY <2>1
    <2>3. SubSeq(ChannelLine, 1, i - 1) = r
      BY <2>1, <2>2, EndsOfConcat
    <2>4. SubSeq(ChannelLine, j + 1, Len(ChannelLine)) = t
      <3>1. SubSeq((r \o s) \o t, Len(r \o s) + 1, Len((r \o s) \o t)) = t
        BY <2>1, EndsOfConcat
      <3> QED
        BY <2>2, <3>1
    <2>5. Channel!Lose(i, j)
      BY <2>3, <2>4 DEF Channel!Lose, ChannelLine
    <2> QED
      BY <2>2, <2>5 DEF Channel!Next, ChannelLine
  <1> QED
    BY <1>1, <1>2

\* The reader adds to the end of the line.
LEMMA ChannelMakes ==
  ASSUME LineInv, LineInv', NewEvents, UNCHANGED queueVars
  PROVE  Channel!Make
  <1> DEFINE before == InSending \o sendQueue
  <1>1. UNCHANGED <<sendQueue, sender, toSend, done>>
    BY DEF queueVars
  <1>2. InSending' = InSending
    BY <1>1 DEF InSending
  <1>3. /\ before \in Seq(Event) /\ pending' \in Seq(Event)
        /\ ChannelLine = before /\ ChannelLine' = before \o pending'
    <2>1. before \in Seq(Event) /\ pending' \in Seq(Event) /\ pending = <<>>
      BY LineParts DEF NewEvents
    <2> QED
      BY <1>1, <1>2, <2>1, ConcatNothing DEF ChannelLine
  <1>4. /\ Len(before) \in Nat /\ Len(pending') \in Nat
        /\ Len(ChannelLine') = Len(before) + Len(pending')
    BY <1>3, ConcatProperties, LenProperties
  <1>5. SubSeq(ChannelLine', 1, Len(ChannelLine)) = ChannelLine
    BY <1>3, EndsOfConcat
  <1>6. \A i \in Len(before) + 1..Len(ChannelLine') :
           /\ i - Len(before) \in 1..Len(pending')
           /\ ChannelLine'[i] = pending'[i - Len(before)]
    BY <1>3, <1>4, ConcatProperties
  <1> DEFINE last == IF reader = "new" THEN 0 ELSE 2 * heard + 2
  <1>7. /\ heard \in Nat /\ heard' \in Nat /\ heard <= heard'
        /\ reader' # "new" /\ (reader = "new" => heard = 0)
    BY DEF NewEvents, LineInv, LineOK
  <1>8. \A k \in 1..Len(pending') : Place(pending'[k]) \in Nat
    BY <1>3, PlaceIsNat
  <1>9. \A k \in 1..Len(pending') :
           last < Place(pending'[k]) /\ Place(pending'[k]) <= 2 * heard' + 2
    BY <1>7, <1>8 DEF NewEvents
  <1>10. last <= 2 * heard' + 2 /\ 2 * heard' + 2 \in Nat
    <2>1. \A m, n \in Nat : m <= n =>
             0 <= 2 * n + 2 /\ 2 * m + 2 <= 2 * n + 2 /\ 2 * n + 2 \in Nat
      OBVIOUS
    <2> QED
      BY <1>7, <2>1
  <1>11. \A i \in Len(before) + 1..Len(ChannelLine') :
            /\ last < Place(ChannelLine'[i])
            /\ Place(ChannelLine'[i]) <= 2 * heard' + 2
    BY <1>6, <1>9
  <1>12. \A i, j \in Len(before) + 1..Len(ChannelLine') :
            i < j => Place(ChannelLine'[i]) < Place(ChannelLine'[j])
    <2> SUFFICES ASSUME NEW i \in Len(before) + 1..Len(ChannelLine'),
                        NEW j \in Len(before) + 1..Len(ChannelLine'), i < j
                 PROVE  Place(ChannelLine'[i]) < Place(ChannelLine'[j])
      OBVIOUS
    <2>1. i - Len(before) < j - Len(before)
      BY <1>4
    <2> QED
      BY <1>6, <2>1 DEF NewEvents
  <1>13. Len(ChannelLine) <= Len(ChannelLine')
    BY <1>3, <1>4
  <1>14. (IF reader = "new" THEN 0 ELSE 2 * heard + 2)' = 2 * heard' + 2
    BY <1>7
  <1> QED
    BY <1>1, <1>3, <1>5, <1>10, <1>11, <1>12, <1>13, <1>14
       DEF Channel!Make, Channel!Made, ChannelLine

\* Steps that hand an event on, or do nothing to any.
LEMMA ChannelRests ==
  ASSUME UNCHANGED <<ChannelLine, reader, heard, done>>
  PROVE  UNCHANGED Channel!channel
  BY DEF Channel!channel, ChannelLine

LEMMA ChannelInit == PipelineInit => Channel!Init
  <1> SUFFICES ASSUME PipelineInit
               PROVE  Channel!Init
    OBVIOUS
  <1>1. /\ reader = "new" /\ sender = "test" /\ done = 0
        /\ pending = <<>> /\ sendQueue = <<>>
    BY DEF PipelineInit, ReaderInit, QueueInit
  <1>2. <<>> \o <<>> \o <<>> = <<>>
    BY ConcatNothing, EmptySeq
  <1> QED
    BY <1>1, <1>2 DEF Channel!Init, InSending

LEMMA ChannelOffer ==
  ASSUME LineInv, OfferPending
  PROVE  [Channel!Next]_Channel!channel
  <1> DEFINE first == <<Head(pending)>>
             rest == Tail(pending)
             before == InSending \o sendQueue
  <1>1. /\ pending # <<>> /\ pending' = rest
        /\ \/ sendQueue' = sendQueue
           \/ sendQueue' = Append(sendQueue, Head(pending))
        /\ UNCHANGED <<reader, heard, sender, toSend, done>>
    BY DEF OfferPending, Offer
  <1>2. InSending' = InSending
    BY <1>1 DEF InSending
  <1>3. /\ before \in Seq(Event) /\ first \in Seq(Event)
        /\ rest \in Seq(Event) /\ pending = first \o rest
        /\ InSending \in Seq(Event) /\ sendQueue \in Seq(Event)
        /\ Head(pending) \in Event
    BY <1>1, LineParts, HeadFirst
  <1>4. ChannelLine = (before \o first) \o rest
    <2>0. before \in Seq(Event) /\ first \in Seq(Event) /\ rest \in Seq(Event)
      BY <1>3
    <2> HIDE DEF before, first, rest
    <2>1. Regrouped(before, first, rest)
      BY <2>0, Regroup
    <2>2. ChannelLine = before \o pending
      BY DEF ChannelLine, before
    <2> QED
      BY <1>3, <2>1, <2>2 DEF Regrouped
  <1>5. CASE sendQueue' = sendQueue
    <2>1. ChannelLine' = before \o rest
      BY <1>1, <1>2, <1>5 DEF ChannelLine
    <2> QED
      BY <1>1, <1>3, <1>4, <2>1, ChannelLoses
  <1>6. CASE sendQueue' = Append(sendQueue, Head(pending))
    <2>1. sendQueue' = sendQueue \o first
      BY <1>3, <1>6, AppendIsConcat
    <2>2. InSending \o (sendQueue \o first) = before \o first
      <3>1. Regrouped(InSending, sendQueue, first)
        BY <1>3, Regroup
      <3> QED
        BY <3>1 DEF Regrouped
    <2>3. ChannelLine' = ChannelLine
      BY <1>1, <1>2, <1>4, <2>1, <2>2 DEF ChannelLine
    <2> QED
      BY <1>1, <2>3, ChannelRests
  <1> QED
    BY <1>1, <1>5, <1>6

LEMMA ChannelTake ==
  ASSUME LineInv, Take, UNCHANGED readerVars
  PROVE  UNCHANGED Channel!channel
  <1>1. /\ sendQueue # <<>> /\ sender = "take" /\ sender' = "send"
        /\ toSend' = Head(sendQueue) /\ sendQueue' = Tail(sendQueue)
        /\ UNCHANGED <<reader, heard, pending, done>>
    BY DEF Take, Step, readerVars
  <1>2. InSending = <<>> /\ InSending' = <<Head(sendQueue)>>
    BY <1>1 DEF InSending
  <1>3. sendQueue \in Seq(Event) /\ <<Head(sendQueue)>> \o Tail(sendQueue) = sendQueue
    BY <1>1, LineParts, HeadFirst
  <1>4. InSending \o sendQueue = sendQueue
    BY <1>2, <1>3, ConcatNothing
  <1>5. ChannelLine' = ChannelLine
    BY <1>1, <1>2, <1>3, <1>4 DEF ChannelLine
  <1> QED
    BY <1>1, <1>5, ChannelRests

\* The call is answered: the event leaves the line at its head.
LEMMA ChannelServes ==
  ASSUME LineInv, sender = "send", done' = Place(toSend),
         UNCHANGED <<sendQueue, reader, heard, pending>>,
         sender' # "send" \/ UNCHANGED <<sender, toSend>>
  PROVE  Channel!Serve
  <1> DEFINE rest == sendQueue \o pending
  <1>1. InSending = <<toSend>> /\ InSending' \in {<<>>, <<toSend>>}
    BY DEF InSending
  <1>2. /\ rest \in Seq(Event) /\ toSend \in Event
        /\ sendQueue \in Seq(Event) /\ pending \in Seq(Event)
        /\ ChannelLine = <<toSend>> \o rest
    BY <1>1, LineParts DEF LineInv, LineOK
  <1>3. /\ ChannelLine # <<>> /\ Head(ChannelLine) = toSend
        /\ Tail(ChannelLine) = rest
    BY <1>2
  <1>4. ChannelLine' \in {ChannelLine, rest}
    <2>1. CASE InSending' = <<>>
      <3>1. InSending' \o sendQueue = sendQueue
        BY <1>2, <2>1, ConcatNothing
      <3> QED
        BY <3>1 DEF ChannelLine
    <2>2. CASE InSending' = <<toSend>>
      BY <1>1, <2>2 DEF ChannelLine
    <2> QED
      BY <1>1, <2>1, <2>2
  <1> QED
    BY <1>3, <1>4 DEF Channel!Serve, ChannelLine

\* The sender gives up what it sends and what is queued.
LEMMA ChannelCleared ==
  ASSUME LineInv, sendQueue' = <<>>, sender' # "send",
         UNCHANGED <<reader, heard, pending, done>>
  PROVE  [Channel!Next]_Channel!channel
  <1> DEFINE gone == InSending \o sendQueue
  <1>1. gone \in Seq(Event) /\ pending \in Seq(Event) /\ <<>> \in Seq(Event)
    BY LineParts
  <1>2. ChannelLine = (<<>> \o gone) \o pending
    BY <1>1, ConcatNothing DEF ChannelLine
  <1>3. InSending' = <<>> /\ <<>> \o <<>> = <<>>
    BY <1>1, ConcatNothing DEF InSending
  <1>4. ChannelLine' = <<>> \o pending
    BY <1>3 DEF ChannelLine
  <1> QED
    BY <1>1, <1>2, <1>4, ChannelLoses

LEMMA ChannelStep ==
  ASSUME LineInv, LineInv', ReaderInv, ReaderInv', [PipelineNext]_pipelineVars
  PROVE  [Channel!Next]_Channel!channel
  <1>1. CASE Reading /\ UNCHANGED queueVars
    BY <1>1, ReaderMakes, ChannelMakes DEF Channel!Next
  <1>2. CASE OfferPending
    BY <1>2, ChannelOffer
  <1>3. CASE Take /\ UNCHANGED readerVars
    BY <1>3, ChannelTake
  <1>4. CASE Deliver \/ ReplyLost \/ HangsHandled
    <2>1. /\ sender = "send" /\ done' = Place(toSend)
          /\ UNCHANGED <<sendQueue, reader, heard, pending>>
          /\ sender' # "send" \/ UNCHANGED <<sender, toSend>>
      BY <1>4 DEF Deliver, ReplyLost, HangsHandled, TrySucceeds,
                  TryFailsAfterwards, TryHangs, Trying, readerVars
    <2> QED
      BY <2>1, ChannelServes DEF Channel!Next
  <1>5. CASE (GiveUp \/ SenderDies) /\ UNCHANGED readerVars
    <2>1. /\ sendQueue' = <<>> /\ sender' # "send"
          /\ UNCHANGED <<reader, heard, pending, done>>
      BY <1>5 DEF GiveUp, SenderDies, readerVars
    <2> QED
      BY <2>1, ChannelCleared
  <1>6. CASE \/ Tick /\ UNCHANGED queueVars
             \/ ReaderStops \/ Disconnect \/ Unreachable \/ StartThrows
             \/ TestAborted /\ UNCHANGED readerVars
             \/ HangsUnheard \/ SiteForgets \/ IndexFails
             \/ UNCHANGED pipelineVars
    <2>1. /\ UNCHANGED <<heard, pending, sendQueue, toSend, done>>
          /\ (sender' = "send") = (sender = "send")
          /\ (reader' = "new") = (reader = "new")
      BY <1>6 DEF Tick, ReaderStops, ReaderEnds, Disconnect, SetAborted,
                  Unreachable, StartThrows, TryFails, TestAborted, Step,
                  HangsUnheard, TryHangs, SiteForgets, IndexFails,
                  pipelineVars, readerVars, queueVars
    <2>2. UNCHANGED ChannelLine
      BY <2>1 DEF ChannelLine, InSending
    <2> QED
      BY <2>1, <2>2 DEF Channel!channel, ChannelLine
  <1> QED
    BY <1>1, <1>2, <1>3, <1>4, <1>5, <1>6
       DEF PipelineNext, ReaderStep, SenderStep, SenderLoop, SenderDeath

\* The way from the captions to the search site is a channel that may lose
\* runs of events and repeat the first one, and reorders nothing, whatever
\* fails and however small the queue is.
THEOREM ImplementsChannel == PipelineSpec => ChannelSpec
  BY ChannelInit, ChannelStep, LineInvariant, ReaderInvariant, PTL
     DEF PipelineSpec, ChannelSpec, Channel!Spec

\* The search site never handles an event that was made before one it has
\* handled: a lost reply brings the same event again, nothing an earlier one.
THEOREM NeverBackwards == PipelineSpec => [][done <= done']_done
  <1>1. LineInv /\ [PipelineNext]_pipelineVars => [done <= done']_done
    <2> SUFFICES ASSUME LineInv, [PipelineNext]_pipelineVars, done' # done
                 PROVE  done <= done'
      OBVIOUS
    <2>1. sender = "send" /\ done' = Place(toSend)
      BY DEF PipelineNext, ReaderStep, OfferPending, Offer, ReaderStops,
             Disconnect, SetAborted, SenderStep, SenderLoop, TestAborted, Take,
             GiveUp, Deliver, TrySucceeds, Unreachable, TryFails, ReplyLost,
             TryFailsAfterwards, Trying, HangsUnheard, HangsHandled, TryHangs,
             StartThrows, SenderDeath, SenderDies, SiteForgets, IndexFails,
             queueVars, pipelineVars
    <2> QED
      BY <2>1 DEF LineInv, QueuedInOrder
  <1> QED
    BY <1>1, LineInvariant, PTL DEF PipelineSpec
=============================================================================
