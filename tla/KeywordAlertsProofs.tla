------------------------- MODULE KeywordAlertsProofs -------------------------
(***************************************************************************)
(* Theorems about KeywordAlerts, for any programs, any limits and any      *)
(* number of nights, edits and failures.                                   *)
(*                                                                         *)
(* The limit: the row and the thread's copy of it count all messages of    *)
(* the day, but for one highest limit for each web request that wrote back *)
(* an older count (CountedIn); no limit in them or in an open edit is      *)
(* above the highest (RowsOK).                                             *)
(*                                                                         *)
(* Told once: while all goes well a program that ends on the hour or half  *)
(* hour is out of the live index fifteen minutes after its end (OutInTime) *)
(* and out of every searcher five minutes later, so that no search finds   *)
(* it when its match is forgotten after thirty (Remembered).               *)
(*                                                                         *)
(* The EPG update: its flag outlives all but the check that serves it and  *)
(* the process.                                                            *)
(***************************************************************************)
EXTENDS KeywordAlerts, TLAPS

Row == [status : {"none", "on", "disabled", "deleted", "gone"},
        count : Nat, limit : Nat, day : 0..2]

Handling == place \in {"liveHits", "epgHits"}

\* The messages of today that a row counts.
CountToday(r) == IF r.day = Day THEN r.count ELSE 0

\* A row of the table, or a copy of it that may still be written.
RowOK(r) == /\ r \in Row /\ r.status # "none" /\ r.day <= Day
            /\ r.limit <= highest /\ CountToday(r) <= highest

RowsOK ==
    /\ RowOK(row)
    /\ mine # NoRow => RowOK(mine)
    /\ edit # NoRow => RowOK(edit)
    /\ Handling => mine # NoRow

CountsOK ==
    /\ today \in Nat /\ highest \in Nat \ {0} /\ overwrites \in Nat
    /\ clock \in 0..MaxTime

\* What the count may lack.
CountedIn(r) == today <= highest * overwrites + CountToday(r)

LimitInv ==
    /\ RowsOK /\ CountsOK
    /\ CountedIn(row) /\ (mine # NoRow => CountedIn(mine))

-----------------------------------------------------------------------------
(* The daily limit.                                                        *)

LEMMA Constants ==
  /\ DefaultLimit \in Nat /\ DefaultLimit > 0 /\ Midnight \in Nat
  /\ MaxTime \in Nat /\ Begin \in 0..MaxTime /\ Limits \subseteq Nat
  BY KeywordAssumption DEF KeywordAssumption

LEMMA DayIsDay == Day \in {1, 2}
  BY DEF Day

LEMMA LimitInit == KeywordInit => LimitInv
  <1> SUFFICES ASSUME KeywordInit PROVE LimitInv
    OBVIOUS
  <1>1. /\ row = NewRow /\ mine = NoRow /\ edit = NoRow /\ place = "top"
        /\ today = 0 /\ highest = DefaultLimit /\ overwrites = 0
        /\ clock = Begin
    BY DEF KeywordInit
  <1>2. /\ NewRow \in Row /\ NewRow.status = "on" /\ NewRow.day = 0
        /\ NewRow.limit = DefaultLimit /\ NewRow.count = 0
    BY Constants DEF NewRow, Row
  <1>3. CountToday(row) = 0
    BY <1>1, <1>2, DayIsDay DEF CountToday
  <1>4. RowOK(row)
    BY <1>1, <1>2, <1>3, Constants, DayIsDay DEF RowOK
  <1> QED
    BY <1>1, <1>3, <1>4, Constants
       DEF LimitInv, RowsOK, CountsOK, CountedIn, Handling

\* A multiple grows with its factors.
LEMMA Multiples ==
  ASSUME NEW m \in Nat, NEW n \in Nat, NEW k \in Nat
  PROVE  /\ m * k \in Nat
         /\ m <= n => m * k <= n * k
         /\ m * (k + 1) = m * k + m
  <1>1. m * k \in Nat /\ m * (k + 1) = m * k + m
    OBVIOUS
  <1>2. ASSUME m <= n
        PROVE  m * k <= n * k
    <2>1. PICK d \in Nat : n = m + d
      BY <1>2
    <2>2. (m + d) * k = m * k + d * k /\ d * k \in Nat
      OBVIOUS
    <2> QED
      BY <1>1, <2>1, <2>2
  <1> QED
    BY <1>1, <1>2

\* Steps that leave the rows, the counts and the day alone.
LEMMA LimitQuiet ==
  ASSUME LimitInv, UNCHANGED <<clock, row, mine, edit, dayVars>>,
         Handling' => mine # NoRow
  PROVE  LimitInv'
  BY DEF LimitInv, RowsOK, RowOK, CountsOK, CountedIn, CountToday, Day,
         dayVars

LEMMA LimitTick ==
  ASSUME LimitInv, Tick
  PROVE  LimitInv'
  <1> USE DEF LimitInv
  <1>1. /\ clock' = clock + 1 /\ clock < MaxTime
        /\ UNCHANGED <<row, mine, edit, place>>
    BY DEF Tick, webVars, threadVars
  <1>2. Day <= Day' /\ Day' \in {1, 2} /\ (Day' # Day => clock' = Midnight)
    BY <1>1, Constants DEF Day, CountsOK
  <1>3. CASE clock' # Midnight
    <2>1. UNCHANGED dayVars /\ Day' = Day
      BY <1>2, <1>3 DEF Tick
    <2>2. CountsOK'
      BY <1>1, <2>1, Constants DEF CountsOK, dayVars
    <2> QED
      BY <1>1, <2>1, <2>2
         DEF RowsOK, RowOK, CountedIn, CountToday, Handling, dayVars
  <1>4. CASE clock' = Midnight
    <2>1. /\ today' = 0 /\ overwrites' = 0
          /\ highest' = Larger(1, Largest(row, mine, edit))
      BY <1>4 DEF Tick
    <2>2. Day = 1 /\ Day' = 2
      BY <1>1, <1>4, Constants DEF Day, CountsOK
    <2>3. /\ row.limit \in Nat /\ mine.limit \in Nat /\ edit.limit \in Nat
      BY DEF RowsOK, RowOK, Row, NoRow
    <2>4. /\ highest' \in Nat \ {0} /\ row.limit <= highest'
          /\ mine.limit <= highest' /\ edit.limit <= highest'
      BY <2>1, <2>3 DEF Larger, Largest
    <2>5. ASSUME NEW r, RowOK(r), r.limit <= highest'
          PROVE  /\ r \in Row /\ r.status # "none" /\ r.day <= Day'
                 /\ (IF r.day = Day' THEN r.count ELSE 0) = 0
      BY <2>2, <2>5 DEF RowOK, Row
    <2>6. CountsOK'
      BY <1>1, <2>1, <2>4, Constants DEF CountsOK
    <2>7. RowOK(row)' /\ CountToday(row)' = 0
      BY <1>1, <2>4, <2>5 DEF RowsOK, RowOK, CountToday
    <2>8. mine # NoRow => RowOK(mine)' /\ CountToday(mine)' = 0
      BY <1>1, <2>4, <2>5 DEF RowsOK, RowOK, CountToday
    <2>9. edit # NoRow => RowOK(edit)'
      BY <1>1, <2>4, <2>5 DEF RowsOK, RowOK, CountToday
    <2> QED
      BY <1>1, <2>1, <2>4, <2>6, <2>7, <2>8, <2>9
         DEF RowsOK, CountedIn, Handling
  <1> QED
    BY <1>3, <1>4

\* maxAlertsExceeded and incrementTodaysAlertCount agree about the day.
LEMMA CountedRow ==
  ASSUME CountsOK, NEW r, RowOK(r), ~LimitReached(r)
  PROVE  /\ RowOK(Counted(r)) /\ Counted(r) # NoRow
         /\ CountToday(Counted(r)) = CountToday(r) + 1
  <1>1. r \in Row /\ r.day <= Day /\ r.limit <= highest
        /\ r.status # "none" /\ highest \in Nat \ {0}
    BY DEF RowOK, CountsOK
  <1>2. r.day = Day => r.count < r.limit
    BY <1>1, DayIsDay DEF LimitReached, Row
  <1> DEFINE n == IF Day > r.day THEN 1 ELSE r.count + 1
  <1>3. n \in Nat /\ n <= highest /\ n = CountToday(r) + 1
    BY <1>1, <1>2, DayIsDay DEF Row, CountToday
  <1>4. Counted(r) = [r EXCEPT !.count = n, !.day = Day]
    BY DEF Counted
  <1> HIDE DEF n
  <1>5. Counted(r) = [status |-> r.status, count |-> n, limit |-> r.limit,
                      day |-> Day]
    BY <1>1, <1>4 DEF Row
  <1>6. Counted(r) \in Row
    BY <1>1, <1>3, <1>5, DayIsDay DEF Row
  <1>7. /\ Counted(r).day = Day /\ Counted(r).count = n
        /\ Counted(r).limit = r.limit /\ Counted(r).status = r.status
    BY <1>5
  <1>8. Counted(r) # NoRow
    BY <1>1, <1>7 DEF NoRow
  <1> QED
    BY <1>1, <1>3, <1>6, <1>7, <1>8, DayIsDay DEF RowOK, CountToday

LEMMA LimitRemember ==
  ASSUME LimitInv, NEW p, AtHit(p), Worthwhile(p), Remember(p),
         today' \in {today, today + 1},
         UNCHANGED <<clock, edit, place, highest, overwrites>>
  PROVE  LimitInv'
  <1> USE DEF LimitInv
  <1>1. mine # NoRow /\ RowOK(mine) /\ CountedIn(mine)
    BY DEF RowsOK, AtHit, Handling
  <1>2. /\ RowOK(Counted(mine)) /\ Counted(mine) # NoRow
        /\ CountToday(Counted(mine)) = CountToday(mine) + 1
    BY <1>1, CountedRow DEF Worthwhile
  <1>3. mine' = Counted(mine) /\ row' = Counted(mine) /\ Day' = Day
    BY DEF Remember, Day
  <1>4. CountsOK'
    BY DEF CountsOK
  <1>5. RowOK(row)' /\ RowOK(mine)' /\ (edit' # NoRow => RowOK(edit)')
    BY <1>2, <1>3 DEF RowsOK, RowOK, CountToday
  <1>6. RowsOK'
    BY <1>2, <1>3, <1>5 DEF RowsOK
  <1>7. /\ highest * overwrites \in Nat /\ today \in Nat
        /\ CountToday(mine) \in Nat
    BY <1>1, Multiples DEF CountsOK, CountToday, RowOK, Row
  <1>8. CountToday(mine)' = CountToday(mine) + 1
        /\ CountToday(row)' = CountToday(mine) + 1
    BY <1>2, <1>3 DEF CountToday
  <1>9. CountedIn(mine)' /\ CountedIn(row)'
    BY <1>1, <1>7, <1>8 DEF CountedIn
  <1> QED
    BY <1>4, <1>6, <1>9

LEMMA LimitEditBegin ==
  ASSUME LimitInv, NEW edited \in Row, EditBegin(edited),
         edited.status # "none", edited.count = row.count,
         edited.day = row.day
  PROVE  LimitInv'
  <1> USE DEF LimitInv
  <1>1. /\ edit' = edited /\ highest' = Larger(highest, edited.limit)
        /\ UNCHANGED <<clock, row, mine, place, today, overwrites>>
        /\ Day' = Day
    BY DEF EditBegin, threadVars, Day
  <1>2. /\ highest' \in Nat \ {0} /\ highest <= highest'
        /\ edited.limit <= highest' /\ highest \in Nat
    BY <1>1 DEF Larger, Row, CountsOK
  <1>3. \A r : RowOK(r) => /\ r \in Row /\ r.status # "none" /\ r.day <= Day
                           /\ r.limit <= highest' /\ CountToday(r) <= highest'
    BY <1>2 DEF RowOK, CountToday, Row
  <1>4. RowOK(row)' /\ (mine' # NoRow => RowOK(mine)')
    BY <1>1, <1>3 DEF RowsOK, RowOK, CountToday
  <1>5. CountToday(edited) = CountToday(row)
    BY DEF CountToday
  <1>6. RowOK(edit)'
    BY <1>1, <1>2, <1>3, <1>5 DEF RowsOK, RowOK, CountToday
  <1>7. RowsOK' /\ CountsOK'
    BY <1>1, <1>2, <1>4, <1>6 DEF RowsOK, CountsOK, Handling
  <1>8. /\ highest * overwrites <= highest' * overwrites
        /\ highest * overwrites \in Nat /\ highest' * overwrites \in Nat
    BY <1>2, Multiples DEF CountsOK
  <1>9. CountedIn(row)' /\ (mine' # NoRow => CountedIn(mine)')
    <2>1. ASSUME NEW r, RowOK(r), CountedIn(r)
          PROVE  today <= highest' * overwrites + CountToday(r)
      <3>1. CountToday(r) \in Nat /\ today \in Nat
        BY <2>1 DEF RowOK, CountToday, Row, CountsOK
      <3> QED
        BY <1>8, <2>1, <3>1 DEF CountedIn
    <2> QED
      BY <1>1, <2>1 DEF RowsOK, CountedIn, CountToday
  <1> QED
    BY <1>7, <1>9

LEMMA LimitEdit ==
  ASSUME LimitInv,
         \/ \E limit \in Limits : ChangeLimit(limit)
         \/ \E status \in Requests : ChangeStatus(status)
  PROVE  LimitInv'
  <1>1. row \in Row /\ row.status # "none"
    BY DEF LimitInv, RowsOK, RowOK
  <1>2. ASSUME NEW limit \in Limits, ChangeLimit(limit)
        PROVE  LimitInv'
    <2> DEFINE edited == [row EXCEPT !.limit = limit]
    <2>1. /\ edited \in Row /\ edited.status # "none"
          /\ edited.count = row.count /\ edited.day = row.day
      BY <1>1, Constants DEF Row
    <2>2. EditBegin(edited)
      BY <1>2 DEF ChangeLimit
    <2> HIDE DEF edited
    <2> QED
      BY <2>1, <2>2, LimitEditBegin
  <1>3. ASSUME NEW status \in Requests, ChangeStatus(status)
        PROVE  LimitInv'
    <2> DEFINE edited == [row EXCEPT !.status = status]
    <2>1. status \in {"on", "disabled", "deleted"}
      BY KeywordAssumption DEF KeywordAssumption
    <2>2. /\ edited \in Row /\ edited.status # "none"
          /\ edited.count = row.count /\ edited.day = row.day
      BY <1>1, <2>1 DEF Row
    <2>3. EditBegin(edited)
      BY <1>3 DEF ChangeStatus
    <2> HIDE DEF edited
    <2> QED
      BY <2>2, <2>3, LimitEditBegin
  <1> QED
    BY <1>2, <1>3

LEMMA LimitCommit ==
  ASSUME LimitInv, EditCommit
  PROVE  LimitInv'
  <1> USE DEF LimitInv
  <1>1. /\ edit # NoRow /\ edit' = NoRow /\ RowOK(edit) /\ RowOK(row)
        /\ UNCHANGED <<clock, mine, place, today, highest>> /\ Day' = Day
    BY DEF EditCommit, threadVars, RowsOK, Day
  <1>2. /\ highest * overwrites \in Nat /\ today \in Nat /\ highest \in Nat
        /\ highest * (overwrites + 1) = highest * overwrites + highest
    BY Multiples DEF CountsOK
  <1>3. \A r : RowOK(r) => CountToday(r) \in Nat /\ CountToday(r) <= highest
    BY DEF RowOK, CountToday, Row
  <1>4. row' \in {row, edit} /\ overwrites' \in {overwrites, overwrites + 1}
    BY DEF EditCommit
  <1>5. CountsOK'
    BY <1>1, <1>4 DEF CountsOK
  <1>6. RowsOK'
    <2>1. RowOK(row)' /\ (mine' # NoRow => RowOK(mine)')
      BY <1>1, <1>4 DEF RowsOK, RowOK, CountToday
    <2> QED
      BY <1>1, <2>1 DEF RowsOK, Handling
  <1>7. highest * overwrites <= highest * overwrites'
    BY <1>2, <1>4
  <1>8. mine' # NoRow => CountedIn(mine)'
    <2>1. mine # NoRow => RowOK(mine) /\ CountedIn(mine)
      BY DEF RowsOK
    <2>2. highest * overwrites' \in Nat
      BY <1>2, <1>4
    <2> QED
      BY <1>1, <1>2, <1>3, <1>7, <2>1, <2>2 DEF CountedIn, CountToday
  <1>9. CountedIn(row)'
    <2>1. CASE UNCHANGED <<row, overwrites>>
      BY <1>1, <2>1 DEF CountedIn, CountToday
    <2>2. CASE row' = edit /\ edit.count = row.count /\ edit.day = row.day
               /\ overwrites' = overwrites
      BY <1>1, <2>2 DEF CountedIn, CountToday
    <2>3. CASE row' = edit /\ overwrites' = overwrites + 1
      <3>1. CountToday(row)' \in Nat
        BY <1>1, <1>3, <2>3 DEF CountToday
      <3>2. today <= highest * overwrites + highest
        BY <1>1, <1>2, <1>3 DEF CountedIn
      <3>3. highest' * overwrites' = highest * overwrites + highest
        BY <1>1, <1>2, <2>3
      <3> QED
        BY <1>1, <1>2, <3>1, <3>2, <3>3 DEF CountedIn
    <2> QED
      BY <2>1, <2>2, <2>3 DEF EditCommit
  <1> QED
    BY <1>5, <1>6, <1>8, <1>9

\* Steps that lose or renew the thread's copy and may mark the row as gone.
LEMMA LimitPass ==
  ASSUME LimitInv, BeginPass \/ SearchFails \/ Clear \/ ThreadDies \/ Crash
  PROVE  LimitInv'
  <1> USE DEF LimitInv
  <1>1. UNCHANGED <<clock, dayVars>> /\ edit' \in {edit, NoRow} /\ Day' = Day
    BY DEF BeginPass, SearchFails, Clear, ThreadDies, Crash, webVars,
           historyVars, Day
  <1>2. mine' \in {mine, row, NoRow} /\ place' \notin {"liveHits", "epgHits"}
    BY DEF BeginPass, SearchFails, Clear, ThreadDies, Crash
  <1>3. row' = row \/ row' = [row EXCEPT !.status = "gone"]
    BY DEF BeginPass, SearchFails, Clear, ThreadDies, Crash, DeleteMarked
  <1>4. row' \in Row /\ row'.day = row.day /\ row'.count = row.count
        /\ row'.limit = row.limit /\ row'.status # "none"
    BY <1>3 DEF RowsOK, RowOK, Row
  <1>5. CountToday(row)' = CountToday(row)
    BY <1>1, <1>4 DEF CountToday
  <1>6. CountsOK'
    BY <1>1 DEF CountsOK, dayVars
  <1>7. RowOK(row)'
    BY <1>1, <1>4, <1>5 DEF RowsOK, RowOK, dayVars
  <1>8. (mine' # NoRow => RowOK(mine)') /\ (edit' # NoRow => RowOK(edit)')
    BY <1>1, <1>2 DEF RowsOK, RowOK, CountToday, dayVars
  <1>9. CountedIn(row)' /\ (mine' # NoRow => CountedIn(mine)')
    BY <1>1, <1>2, <1>5 DEF CountedIn, CountToday, dayVars
  <1> QED
    BY <1>2, <1>6, <1>7, <1>8, <1>9 DEF RowsOK, Handling

LEMMA LimitStep == LimitInv /\ [KeywordNext]_keywordVars => LimitInv'
  <1> SUFFICES ASSUME LimitInv, [KeywordNext]_keywordVars
               PROVE  LimitInv'
    OBVIOUS
  <1>1. CASE Tick
    BY <1>1, LimitTick
  <1>2. CASE \/ StartProgram \/ PerformAction \/ DeleteOldPrograms
             \/ (\E p \in Programs : Sentence(p)) \/ EpgUpdate
             \/ UNCHANGED keywordVars
    <2>1. UNCHANGED <<clock, row, mine, edit, dayVars, place>>
      BY <1>2 DEF StartProgram, PerformAction, DeleteOldPrograms, Sentence,
                  EpgUpdate, keywordVars, webVars, threadVars, historyVars
    <2>2. Handling' => mine # NoRow
      BY <2>1 DEF Handling, LimitInv, RowsOK
    <2> QED
      BY <2>1, <2>2, LimitQuiet
  <1>3. CASE \/ SkipAlert \/ SearchLive \/ SearchEpg \/ HitsDone \/ TestFlag
             \/ ResetFlag \/ (\E p \in Programs : DropHit(p))
    <2>1. UNCHANGED <<clock, row, mine, edit, dayVars>>
      BY <1>3 DEF SkipAlert, SearchLive, SearchEpg, HitsDone, TestFlag,
                  ResetFlag, DropHit, webVars, historyVars, threadVars
    <2>2. Handling' => Handling \/ ~Skipped
      BY <1>3 DEF SkipAlert, SearchLive, SearchEpg, HitsDone, TestFlag,
                  ResetFlag, DropHit, Handling
    <2>3. Handling' => mine # NoRow
      BY <2>2 DEF LimitInv, RowsOK, Skipped
    <2> QED
      BY <2>1, <2>3, LimitQuiet
  <1>4. ASSUME NEW p \in Programs, Tell(p) \/ SendFails(p)
        PROVE  LimitInv'
    <2>1. /\ AtHit(p) /\ Worthwhile(p) /\ Remember(p)
          /\ UNCHANGED <<clock, edit, place, highest, overwrites>>
          /\ today' \in {today, today + 1}
      BY <1>4 DEF Tell, SendFails, webVars, historyVars, dayVars
    <2> QED
      BY <2>1, LimitRemember
  <1>5. CASE BeginPass \/ SearchFails \/ Clear \/ ThreadDies \/ Crash
    BY <1>5, LimitPass
  <1>6. CASE \/ (\E limit \in Limits : ChangeLimit(limit))
             \/ (\E status \in Requests : ChangeStatus(status))
    BY <1>6, LimitEdit
  <1>7. CASE EditCommit
    BY <1>7, LimitCommit
  <1> QED
    BY <1>1, <1>2, <1>3, <1>4, <1>5, <1>6, <1>7 DEF KeywordNext, Thread

LEMMA LimitInvariant == KeywordSpec => []LimitInv
  BY LimitInit, LimitStep, PTL DEF KeywordSpec

\* However the thread's writes of the whole row and the users' requests
\* overwrite one another, the limit itself among what they overwrite: the
\* day's messages exceed the highest limit that could be in force only by one
\* such limit for each request that wrote an older count back.
THEOREM LimitHolds == KeywordSpec => []DailyLimit
  <1>1. ASSUME LimitInv
        PROVE  DailyLimit
    <2>1. CountToday(row) \in Nat /\ CountToday(row) <= highest
      BY <1>1 DEF LimitInv, RowsOK, RowOK, CountToday, Row
    <2>2. /\ highest \in Nat /\ overwrites \in Nat /\ today \in Nat
          /\ today <= highest * overwrites + CountToday(row)
      BY <1>1 DEF LimitInv, CountedIn, CountsOK
    <2>3. /\ highest * overwrites \in Nat
          /\ highest * (overwrites + 1) = highest * overwrites + highest
      BY <2>2, Multiples
    <2>4. 1 + overwrites = overwrites + 1
      BY <2>2
    <2> QED
      BY <2>1, <2>2, <2>3, <2>4 DEF DailyLimit
  <1> QED
    BY <1>1, LimitInvariant, PTL

-----------------------------------------------------------------------------
(* Told once.                                                              *)

\* Programs that end on the hour or half hour.
OnTheHalf == {p \in Programs : EndTime[p] % 6 = 0}

Action == [kind : {"put"}, program : Programs]
          \union [kind : {"delete"}, ends : SUBSET Nat]

\* The next purge of a thread that runs is not later than a quarter of an hour
\* after the next hour or half hour, nor after one that was just now.
Soon(t) == \A h \in Nat : (h % 6 = 0 /\ clock <= h + 1) => t <= h + 3

PurgeOK ==
    /\ clock \in 0..MaxTime /\ nextPurge \in Nat /\ clock <= nextPurge
    /\ nextPurge = Asleep \/ Soon(nextPurge)

QueueOK ==
    /\ queued \in Seq(Action)
    /\ ~troubled =>
          \A i \in 1..Len(queued) : queued[i].kind = "put" =>
              /\ clock < EndTime[queued[i].program]
              /\ queued[i].program \in OnTheHalf =>
                    nextPurge <= EndTime[queued[i].program] + 3

Doomed(p) == \E i \in 1..Len(queued) :
                 queued[i].kind = "delete" /\ EndTime[p] \in queued[i].ends

OutInTime ==
    /\ live \in Programs \union {0}
    /\ ~troubled /\ live \in OnTheHalf =>
          /\ clock <= EndTime[live] + 3
          /\ nextPurge <= EndTime[live] + 3 \/ Doomed(live)

SearcherOK ==
    /\ searcher.shows \in Programs \union {0} /\ searcher.at \in Nat
    /\ clock <= searcher.at + 1
    /\ ~troubled /\ searcher.shows \in OnTheHalf =>
          searcher.at <= EndTime[searcher.shows] + 3

HitsOK == hits \subseteq Programs /\ (~Handling => hits = {})

Remembered ==
    /\ told \in [Programs -> Nat]
    /\ ~troubled =>
          \A p \in OnTheHalf :
              /\ told[p] <= 1
              /\ told[p] # 0 => \/ p \in matches
                                \/ clock >= EndTime[p] + Retention /\ p \notin hits

ToldInv == /\ PurgeOK /\ QueueOK /\ OutInTime /\ SearcherOK /\ HitsOK
           /\ Remembered

-----------------------------------------------------------------------------

LEMMA Times ==
  /\ \A p \in Programs : EndTime[p] \in Nat
  /\ 0 \notin Programs
  /\ OnTheHalf \subseteq Programs
  /\ \A p \in OnTheHalf : EndTime[p] \in Nat /\ EndTime[p] % 6 = 0
  BY KeywordAssumption DEF KeywordAssumption, OnTheHalf

LEMMA ToldInit == KeywordInit => ToldInv
  BY Constants, Times
     DEF KeywordInit, ToldInv, PurgeOK, QueueOK, OutInTime, SearcherOK,
         HitsOK, Remembered, NoSearcher, Asleep, Handling

\* The next purge comes at the next quarter past or to the hour.
LEMMA NextPurgeIsSoon ==
  ASSUME clock \in Nat
  PROVE  NextPurge \in Nat /\ clock <= NextPurge /\ Soon(NextPurge)
  <1> DEFINE minute == clock % 12
  <1>1. minute \in 0..11 /\ clock - minute \in Nat /\ (clock - minute) % 12 = 0
    OBVIOUS
  <1>2. NextPurge = IF minute < 3 THEN (clock - minute) + 3
                    ELSE IF minute >= 9 THEN (clock - minute) + 12 + 3
                    ELSE (clock - minute) + 9
    BY DEF NextPurge, Hour
  <1>3. PICK hour \in Nat : hour = clock - minute /\ hour % 12 = 0
    BY <1>1
  <1>4. clock = hour + minute
    BY <1>1, <1>3
  <1> HIDE DEF minute
  <1>5. NextPurge = IF minute < 3 THEN hour + 3
                    ELSE IF minute >= 9 THEN hour + 12 + 3
                    ELSE hour + 9
    BY <1>2, <1>3
  <1>6. NextPurge \in Nat /\ clock <= NextPurge
    BY <1>1, <1>3, <1>4, <1>5
  <1>7. ASSUME NEW h \in Nat, h % 6 = 0, clock <= h + 1
        PROVE  NextPurge <= h + 3
    BY <1>1, <1>3, <1>4, <1>5, <1>7
  <1> QED
    BY <1>6, <1>7 DEF Soon

\* Steps that leave the live index, its queue and the purge alone.
LEMMA IndexQuiet ==
  ASSUME ToldInv, UNCHANGED <<clock, queued, live, nextPurge, troubled>>
  PROVE  PurgeOK' /\ QueueOK' /\ OutInTime'
  BY DEF ToldInv, PurgeOK, Soon, QueueOK, OutInTime, Doomed, Asleep

\* Steps that leave the thread and what it did alone, and go well or not.
LEMMA ThreadQuiet ==
  ASSUME ToldInv, UNCHANGED <<clock, threadVars, told, matches>>,
         troubled => troubled'
  PROVE  SearcherOK' /\ HitsOK' /\ Remembered'
  BY DEF ToldInv, SearcherOK, HitsOK, Remembered, Handling, threadVars

LEMMA ToldTick ==
  ASSUME ToldInv, Tick
  PROVE  ToldInv'
  <1> USE DEF ToldInv
  <1>1. /\ clock < MaxTime /\ queued = <<>> /\ clock' = clock + 1
        /\ nextPurge = Asleep \/ clock < nextPurge
        /\ searcher' = IF searcher.at < clock THEN NoSearcher ELSE searcher
        /\ UNCHANGED <<queued, live, nextPurge, troubled, place, hits, told,
                       matches>>
    BY DEF Tick, indexVars
  <1>2. clock' \in 0..MaxTime /\ clock' <= nextPurge /\ clock \in Nat
    BY <1>1, Constants DEF PurgeOK, Asleep
  <1>3. Soon(nextPurge) => Soon(nextPurge)'
    BY <1>1, <1>2 DEF Soon
  <1>4. PurgeOK'
    BY <1>1, <1>2, <1>3 DEF PurgeOK, Asleep
  <1>5. QueueOK'
    BY <1>1 DEF QueueOK
  <1>6. OutInTime'
    <2>1. ~Doomed(live)
      BY <1>1 DEF Doomed
    <2> QED
      BY <1>1, <1>2, <2>1, Times DEF OutInTime, PurgeOK
  <1>7. SearcherOK' /\ HitsOK'
    BY <1>1, <1>2, Constants, Times
       DEF SearcherOK, NoSearcher, HitsOK, Handling
  <1>8. Remembered'
    BY <1>1, <1>2, Times DEF Remembered, Retention
  <1> QED
    BY <1>4, <1>5, <1>6, <1>7, <1>8

\* StartThread: a purge now is soon enough.
LEMMA Starting ==
  ASSUME PurgeOK, StartThread, UNCHANGED clock
  PROVE  PurgeOK' /\ Soon(nextPurge') /\ nextPurge' <= nextPurge
         /\ Soon(nextPurge)'
  BY Constants DEF PurgeOK, StartThread, Soon, Asleep

LEMMA ToldStart ==
  ASSUME ToldInv, StartProgram
  PROVE  ToldInv'
  <1> USE DEF ToldInv
  <1>1. /\ StartThread
        /\ UNCHANGED <<clock, queued, live, troubled, threadVars, told,
                       matches>>
    BY DEF StartProgram, historyVars
  <1>2. PurgeOK' /\ nextPurge' <= nextPurge /\ nextPurge' \in Nat
        /\ nextPurge \in Nat
    BY <1>1, Starting DEF PurgeOK
  <1>3. QueueOK'
    <2>1. \A i \in 1..Len(queued) : queued[i] \in Action
      BY DEF QueueOK
    <2>2. \A i \in 1..Len(queued) : queued[i].kind = "put" =>
             EndTime[queued[i].program] \in Nat
      BY <2>1, Times DEF Action
    <2> QED
      BY <1>1, <1>2, <2>2 DEF QueueOK
  <1>4. OutInTime'
    BY <1>1, <1>2, Times DEF OutInTime, Doomed
  <1> QED
    BY <1>1, <1>2, <1>3, <1>4, ThreadQuiet

LEMMA ToldSentence ==
  ASSUME ToldInv, NEW p \in Programs, Sentence(p)
  PROVE  ToldInv'
  <1> USE DEF ToldInv
  <1>1. /\ StartThread /\ queued = <<>> /\ queued' = <<Put(p)>>
        /\ UNCHANGED <<clock, live, threadVars, told, matches>>
        /\ \/ clock < EndTime[p] /\ UNCHANGED troubled
           \/ troubled'
    BY DEF Sentence, historyVars, OnAir
  <1>2. PurgeOK' /\ nextPurge' <= nextPurge /\ nextPurge' \in Nat
        /\ nextPurge \in Nat /\ clock \in Nat /\ Soon(nextPurge')
    BY <1>1, Starting DEF PurgeOK
  <1>3. QueueOK'
    <2>1. Put(p) \in Action /\ Put(p).kind = "put" /\ Put(p).program = p
      BY DEF Put, Action
    <2>2. queued' \in Seq(Action) /\ \A i \in 1..Len(queued') : queued'[i] = Put(p)
      BY <1>1, <2>1
    <2>3. p \in OnTheHalf /\ clock < EndTime[p] => nextPurge' <= EndTime[p] + 3
      BY <1>2, Times DEF Soon
    <2> QED
      BY <1>1, <2>1, <2>2, <2>3 DEF QueueOK
  <1>4. OutInTime'
    <2>1. ~Doomed(live)
      BY <1>1 DEF Doomed
    <2> QED
      BY <1>1, <1>2, <2>1, Times DEF OutInTime
  <1> QED
    BY <1>1, <1>2, <1>3, <1>4, ThreadQuiet

LEMMA ToldPerform ==
  ASSUME ToldInv, PerformAction
  PROVE  ToldInv'
  <1> USE DEF ToldInv
  <1> DEFINE action == Head(queued)
  <1>1. /\ queued # <<>> /\ queued' = Tail(queued)
        /\ live' = IF action.kind = "put" THEN action.program
                   ELSE IF live # 0 /\ EndTime[live] \in action.ends THEN 0
                   ELSE live
        /\ UNCHANGED <<clock, nextPurge, troubled, threadVars, told, matches>>
    BY DEF PerformAction, historyVars
  <1>2. /\ action \in Action /\ action = queued[1] /\ 1 \in 1..Len(queued)
        /\ queued' \in Seq(Action)
        /\ \A i \in 1..Len(queued') : /\ i + 1 \in 1..Len(queued)
                                      /\ queued'[i] = queued[i + 1]
        /\ \A i \in 2..Len(queued) : i - 1 \in 1..Len(queued')
                                     /\ queued'[i - 1] = queued[i]
    BY <1>1 DEF QueueOK
  <1> HIDE DEF action
  <1>3. PurgeOK'
    BY <1>1 DEF PurgeOK, Soon, Asleep
  <1>4. QueueOK'
    BY <1>1, <1>2 DEF QueueOK
  <1>5. OutInTime'
    <2>1. CASE action.kind = "put"
      <3>1. live' = action.program /\ action.program \in Programs
        BY <1>1, <1>2, <2>1 DEF Action
      <3>2. ~troubled => /\ clock < EndTime[live']
                         /\ live' \in OnTheHalf => nextPurge <= EndTime[live'] + 3
        BY <1>2, <2>1, <3>1 DEF QueueOK
      <3> QED
        BY <1>1, <3>1, <3>2, Times DEF OutInTime, PurgeOK
    <2>2. CASE action.kind # "put"
      <3>1. CASE live # 0 /\ EndTime[live] \in action.ends
        BY <1>1, <2>2, <3>1, Times DEF OutInTime
      <3>2. CASE ~(live # 0 /\ EndTime[live] \in action.ends)
        <4>1. live' = live
          BY <1>1, <2>2, <3>2
        <4>2. live \in OnTheHalf /\ Doomed(live) => Doomed(live)'
          <5> SUFFICES ASSUME live \in OnTheHalf, Doomed(live)
                       PROVE  Doomed(live)'
            OBVIOUS
          <5>1. PICK i \in 1..Len(queued) :
                   queued[i].kind = "delete" /\ EndTime[live] \in queued[i].ends
            BY DEF Doomed
          <5>2. i # 1
            BY <1>2, <3>2, <5>1, Times
          <5>3. i \in 2..Len(queued)
            BY <5>2
          <5> QED
            BY <1>2, <4>1, <5>1, <5>3 DEF Doomed
        <4> QED
          BY <1>1, <4>1, <4>2 DEF OutInTime
      <3> QED
        BY <3>1, <3>2
    <2> QED
      BY <2>1, <2>2
  <1> QED
    BY <1>1, <1>3, <1>4, <1>5, ThreadQuiet

LEMMA ToldPurge ==
  ASSUME ToldInv, DeleteOldPrograms
  PROVE  ToldInv'
  <1> USE DEF ToldInv
  <1>1. /\ clock >= nextPurge /\ nextPurge' = NextPurge
        /\ UNCHANGED <<clock, live, threadVars, told, matches>>
    BY DEF DeleteOldPrograms, historyVars
  <1>2. clock \in Nat /\ nextPurge = clock
    BY <1>1 DEF PurgeOK
  <1>3. nextPurge' \in Nat /\ clock <= nextPurge' /\ Soon(nextPurge')
    BY <1>1, <1>2, NextPurgeIsSoon
  <1>4. PurgeOK'
    BY <1>1, <1>3 DEF PurgeOK, Soon
  <1>5. \A p \in OnTheHalf : clock <= EndTime[p] + 1 => nextPurge' <= EndTime[p] + 3
    BY <1>3, Times DEF Soon
  <1>6. CASE troubled' /\ UNCHANGED queued
    <2>1. QueueOK' /\ OutInTime'
      BY <1>1, <1>6 DEF QueueOK, OutInTime
    <2> QED
      BY <1>1, <1>4, <1>6, <2>1, ThreadQuiet
  <1>7. CASE ~(troubled' /\ UNCHANGED queued)
    <2> DEFINE old == {p \in {live} \ {0} : EndTime[p] + PurgeAge <= clock}
    <2> DEFINE purge == Purged({EndTime[p] : p \in old})
    <2>1. queued' = Append(queued, purge) /\ UNCHANGED troubled
      BY <1>7 DEF DeleteOldPrograms
    <2>2. purge \in Action /\ purge.kind = "delete"
      BY Times DEF Purged, Action, OutInTime
    <2>3. live # 0 /\ EndTime[live] + 2 <= clock => EndTime[live] \in purge.ends
      BY DEF Purged, PurgeAge
    <2> HIDE DEF purge
    <2>4. /\ queued' \in Seq(Action) /\ Len(queued') = Len(queued) + 1
          /\ Len(queued) \in Nat
          /\ \A i \in 1..Len(queued) : queued'[i] = queued[i]
          /\ queued'[Len(queued) + 1] = purge
      BY <2>1, <2>2 DEF QueueOK
    <2>5. QueueOK'
      <3> SUFFICES ASSUME ~troubled, NEW i \in 1..Len(queued'),
                          queued'[i].kind = "put"
                   PROVE  /\ clock < EndTime[queued'[i].program]
                          /\ queued'[i].program \in OnTheHalf =>
                                nextPurge' <= EndTime[queued'[i].program] + 3
        BY <1>1, <2>1, <2>4 DEF QueueOK
      <3>1. i \in 1..Len(queued) /\ queued'[i] = queued[i]
        BY <2>2, <2>4
      <3>2. clock < EndTime[queued[i].program]
        BY <3>1 DEF QueueOK
      <3> QED
        BY <1>2, <1>5, <3>1, <3>2, Times
    <2>6. OutInTime'
      <3>1. live \in OnTheHalf => \/ clock <= EndTime[live] + 1
                                  \/ live # 0 /\ EndTime[live] + 2 <= clock
        BY <1>2, Times
      <3>2. live # 0 /\ EndTime[live] + 2 <= clock => Doomed(live)'
        BY <1>1, <2>2, <2>3, <2>4 DEF Doomed
      <3> QED
        BY <1>1, <1>5, <2>1, <3>1, <3>2 DEF OutInTime
    <2> QED
      BY <1>1, <1>4, <2>1, <2>5, <2>6, ThreadQuiet
  <1> QED
    BY <1>6, <1>7

LEMMA ToldCrash ==
  ASSUME ToldInv, Crash
  PROVE  ToldInv'
  <1> USE DEF ToldInv
  <1>1. /\ queued' = <<>> /\ nextPurge' = Asleep /\ place' = "top"
        /\ searcher' = NoSearcher /\ hits' = {} /\ troubled'
        /\ UNCHANGED <<clock, live, told, matches>>
    BY DEF Crash, historyVars
  <1>2. PurgeOK'
    BY <1>1, Constants DEF PurgeOK, Asleep
  <1>3. QueueOK' /\ OutInTime'
    BY <1>1 DEF QueueOK, OutInTime
  <1>4. SearcherOK' /\ HitsOK'
    BY <1>1, Constants DEF PurgeOK, SearcherOK, NoSearcher, HitsOK, Handling
  <1>5. Remembered'
    BY <1>1 DEF Remembered
  <1> QED
    BY <1>2, <1>3, <1>4, <1>5

LEMMA ToldThread ==
  ASSUME ToldInv, Thread
  PROVE  ToldInv'
  <1> USE DEF ToldInv
  <1>1. UNCHANGED <<clock, queued, live, nextPurge, troubled>>
    BY DEF Thread, BeginPass, SkipAlert, SearchLive, SearchEpg, SearchFails,
           DropHit, Tell, SendFails, HitsDone, TestFlag, ResetFlag, Clear,
           indexVars
  <1>2. PurgeOK' /\ QueueOK' /\ OutInTime'
    BY <1>1, IndexQuiet
  <1>3. CASE \/ BeginPass \/ SkipAlert \/ SearchFails \/ HitsDone \/ TestFlag
             \/ ResetFlag
    <2>1. /\ UNCHANGED <<searcher, hits, told, matches>>
          /\ ~Handling' \/ UNCHANGED place
          /\ Handling => hits = {} \/ UNCHANGED place
      BY <1>3 DEF BeginPass, SkipAlert, SearchFails, HitsDone, TestFlag,
                  ResetFlag, historyVars, Handling
    <2> QED
      BY <1>1, <1>2, <2>1 DEF SearcherOK, HitsOK, Remembered, Handling
  <1>4. CASE SearchLive
    <2>1. /\ Handling'
          /\ \/ searcher' = [shows |-> live, at |-> clock]
             \/ Reusable /\ UNCHANGED searcher
          /\ hits' = {searcher'.shows} \ {0}
          /\ UNCHANGED <<told, matches>>
      BY <1>4 DEF SearchLive, historyVars, Handling
    <2>2. SearcherOK'
      BY <1>1, <2>1 DEF SearcherOK, OutInTime, PurgeOK
    <2>3. HitsOK'
      BY <2>1, <2>2 DEF HitsOK, SearcherOK
    <2>4. \A p \in OnTheHalf : p \in hits' /\ ~troubled => clock <= EndTime[p] + 4
      <3>1. clock <= searcher'.at + 1
        BY <2>1 DEF SearcherOK, PurgeOK
      <3>2. \A p \in hits' : p = searcher'.shows
        BY <2>1
      <3> QED
        BY <1>1, <2>2, <3>1, <3>2, Times DEF SearcherOK, PurgeOK
    <2>5. Remembered'
      BY <1>1, <2>1, <2>4, Times DEF Remembered, Retention, PurgeOK
    <2> QED
      BY <1>2, <2>2, <2>3, <2>5
  <1>5. CASE SearchEpg
    <2>1. /\ Handling' /\ hits' = {p \in Described : EndTime[p] > clock}
          /\ UNCHANGED <<searcher, told, matches>>
      BY <1>5 DEF SearchEpg, historyVars, Handling
    <2>2. SearcherOK' /\ HitsOK'
      BY <1>1, <2>1, KeywordAssumption
         DEF SearcherOK, HitsOK, KeywordAssumption
    <2>3. Remembered'
      BY <1>1, <2>1, Times DEF Remembered, Retention, PurgeOK
    <2> QED
      BY <1>2, <2>2, <2>3
  <1>6. ASSUME NEW p \in Programs, DropHit(p)
        PROVE  ToldInv'
    <2>1. /\ hits' = hits \ {p}
          /\ UNCHANGED <<place, searcher, told, matches>>
      BY <1>6 DEF DropHit, historyVars
    <2> QED
      BY <1>1, <1>2, <2>1 DEF SearcherOK, HitsOK, Remembered, Handling
  <1>7. ASSUME NEW p \in Programs, Tell(p) \/ SendFails(p)
        PROVE  ToldInv'
    <2>1. /\ p \in hits /\ p \notin matches /\ hits' = hits \ {p}
          /\ matches' = matches \cup {p}
          /\ UNCHANGED <<place, searcher>>
          /\ \/ UNCHANGED told
             \/ told' = [told EXCEPT ![p] = IF @ = 2 THEN 2 ELSE @ + 1]
      BY <1>7 DEF Tell, SendFails, AtHit, Worthwhile, Remember, historyVars
    <2>2. SearcherOK' /\ HitsOK'
      BY <1>1, <2>1 DEF SearcherOK, HitsOK, Handling
    <2>3. Remembered'
      <3>1. told \in [Programs -> Nat]
        BY DEF Remembered
      <3>2. told' \in [Programs -> Nat]
        BY <2>1, <3>1
      <3>3. ~troubled /\ p \in OnTheHalf => told[p] = 0
        BY <2>1 DEF Remembered
      <3>4. \A q \in Programs : q # p => told'[q] = told[q]
        BY <2>1, <3>1
      <3>5. told[p] = 0 => told'[p] \in {0, 1}
        BY <2>1, <3>1
      <3>6. ASSUME ~troubled, NEW q \in OnTheHalf
            PROVE  /\ told'[q] <= 1
                   /\ told'[q] # 0 => \/ q \in matches'
                                      \/ /\ clock >= EndTime[q] + Retention
                                         /\ q \notin hits'
        <4>1. CASE q = p
          BY <2>1, <3>3, <3>5, <3>6, <4>1
        <4>2. CASE q # p
          BY <2>1, <3>4, <3>6, <4>2, Times DEF Remembered
        <4> QED
          BY <4>1, <4>2
      <3> QED
        BY <1>1, <3>2, <3>6 DEF Remembered, Retention
    <2> QED
      BY <1>2, <2>2, <2>3
  <1>8. CASE Clear
    <2>1. /\ ~Handling /\ ~Handling'
          /\ matches' = {p \in matches : EndTime[p] + Retention > clock}
          /\ UNCHANGED <<searcher, hits, told>>
      BY <1>8 DEF Clear, DeleteOldMatches, historyVars, Handling
    <2>2. SearcherOK' /\ HitsOK'
      BY <1>1, <2>1 DEF SearcherOK, HitsOK
    <2>3. Remembered'
      BY <1>1, <2>1, Times DEF Remembered, HitsOK, Retention, PurgeOK
    <2> QED
      BY <1>2, <2>2, <2>3
  <1> QED
    BY <1>3, <1>4, <1>5, <1>6, <1>7, <1>8 DEF Thread

LEMMA ToldDies ==
  ASSUME ToldInv, ThreadDies
  PROVE  ToldInv'
  <1> USE DEF ToldInv
  <1>1. /\ UNCHANGED <<clock, queued, live, nextPurge, troubled, told>>
        /\ place' = "dead" /\ hits' = {} /\ searcher' = NoSearcher
        /\ \/ UNCHANGED matches
           \/ matches' = {p \in matches : EndTime[p] + Retention > clock}
    BY DEF ThreadDies, DeleteOldMatches, indexVars, historyVars
  <1>2. PurgeOK' /\ QueueOK' /\ OutInTime'
    BY <1>1, IndexQuiet
  <1>3. SearcherOK' /\ HitsOK'
    BY <1>1, Constants, Times
       DEF PurgeOK, SearcherOK, NoSearcher, HitsOK, Handling
  <1>4. Remembered'
    BY <1>1, Times DEF Remembered, Retention, PurgeOK
  <1> QED
    BY <1>2, <1>3, <1>4

LEMMA ToldStep == ToldInv /\ [KeywordNext]_keywordVars => ToldInv'
  <1> SUFFICES ASSUME ToldInv, [KeywordNext]_keywordVars
               PROVE  ToldInv'
    OBVIOUS
  <1>1. CASE \/ EpgUpdate \/ EditCommit
             \/ (\E limit \in Limits : ChangeLimit(limit))
             \/ (\E status \in Requests : ChangeStatus(status))
             \/ UNCHANGED keywordVars
    <2>1. UNCHANGED <<clock, queued, live, nextPurge, troubled, threadVars,
                      told, matches>>
      BY <1>1 DEF EpgUpdate, EditCommit, EditBegin, ChangeLimit, ChangeStatus,
                  keywordVars, indexVars, historyVars
    <2> QED
      BY <2>1, IndexQuiet, ThreadQuiet DEF ToldInv
  <1> QED
    BY <1>1, ToldTick, ToldStart, ToldSentence, ToldPerform, ToldPurge,
       ToldCrash, ToldThread, ToldDies DEF KeywordNext

LEMMA ToldInvariant == KeywordSpec => []ToldInv
  BY ToldInit, ToldStep, PTL DEF KeywordSpec

\* While the live index is purged and sentences are in time, nobody is told
\* twice of a program that ends on the hour or half hour: the purge, the life
\* of a searcher and the thirty minutes of a match add up.
THEOREM NobodyToldTwice == KeywordSpec => []ToldOnce
  <1>1. ToldInv => ToldOnce
    BY DEF ToldInv, Remembered, ToldOnce, OnTheHalf
  <1> QED
    BY <1>1, ToldInvariant, PTL

-----------------------------------------------------------------------------
(* The EPG update.                                                         *)

\* Outside a check against the EPG, an update that is owed one has its flag.
OwedInv ==
    owed = "yes" => epgUpdated /\ place \notin {"epg", "epgHits", "reset"}

\* An update that waits for its check keeps its flag, whatever the passes, the
\* requests, the failures and the end of the thread do: only the beginning of
\* a check ends its wait, or the end of the process, which does forget it.
UpdateWaits ==
    [][owed = "yes" => \/ owed' = "yes" /\ epgUpdated'
                       \/ owed' = "no" /\ place' = "epg" /\ epgUpdated'
                       \/ Crash]_keywordVars

LEMMA OwedStep == OwedInv /\ [KeywordNext]_keywordVars => OwedInv'
  <1> SUFFICES ASSUME OwedInv, [KeywordNext]_keywordVars
               PROVE  OwedInv'
    OBVIOUS
  <1>1. CASE UNCHANGED <<owed, epgUpdated, place>>
    BY <1>1 DEF OwedInv
  <1>2. CASE Thread
    <2>1. CASE TestFlag
      BY <2>1 DEF TestFlag, OwedInv
    <2>2. CASE ResetFlag
      BY <2>2 DEF ResetFlag, OwedInv
    <2>3. CASE SearchEpg \/ HitsDone \/ SkipAlert \/ SearchFails
      BY <2>3 DEF SearchEpg, HitsDone, SkipAlert, SearchFails, OwedInv
    <2>4. CASE BeginPass \/ SearchLive \/ Clear
      BY <2>4 DEF BeginPass, SearchLive, Clear, OwedInv
    <2>5. CASE \E p \in Programs : DropHit(p) \/ Tell(p) \/ SendFails(p)
      <3>1. UNCHANGED <<owed, epgUpdated, place>>
        BY <2>5 DEF DropHit, Tell, SendFails
      <3> QED
        BY <1>1, <3>1
    <2> QED
      BY <1>2, <2>1, <2>2, <2>3, <2>4, <2>5 DEF Thread
  <1>3. CASE ThreadDies
    BY <1>3 DEF ThreadDies, OwedInv
  <1>4. CASE EpgUpdate \/ Crash
    BY <1>4 DEF EpgUpdate, Crash, threadVars, OwedInv
  <1>5. CASE \/ Tick \/ StartProgram \/ PerformAction \/ DeleteOldPrograms
             \/ (\E p \in Programs : Sentence(p))
             \/ EditCommit
             \/ (\E limit \in Limits : ChangeLimit(limit))
             \/ (\E status \in Requests : ChangeStatus(status))
             \/ UNCHANGED keywordVars
    <2>1. UNCHANGED <<owed, epgUpdated, place>>
      BY <1>5 DEF Tick, StartProgram, PerformAction, DeleteOldPrograms,
           Sentence, EditCommit, ChangeLimit, ChangeStatus, EditBegin,
           keywordVars, threadVars
    <2> QED
      BY <1>1, <2>1
  <1> QED
    BY <1>2, <1>3, <1>4, <1>5 DEF KeywordNext

\* Nothing but a check or the end of the process ends the wait.
LEMMA WaitEnds ==
  ASSUME OwedInv, [KeywordNext]_keywordVars, owed = "yes"
  PROVE  owed' = "yes" \/ (owed' = "no" /\ place' = "epg" /\ epgUpdated')
         \/ Crash
  <1>1. CASE Thread
    <2>1. CASE TestFlag
      BY <2>1 DEF TestFlag
    <2>2. CASE ~TestFlag
      <3>1. UNCHANGED owed
        BY <1>1, <2>2
           DEF Thread, BeginPass, SkipAlert, SearchLive, SearchEpg,
               SearchFails, DropHit, Tell, SendFails, HitsDone, ResetFlag,
               Clear
      <3> QED
        BY <3>1
    <2> QED
      BY <2>1, <2>2
  <1>2. CASE EpgUpdate
    BY <1>2 DEF EpgUpdate, OwedInv
  <1>3. CASE \/ Tick \/ StartProgram \/ PerformAction \/ DeleteOldPrograms
             \/ (\E p \in Programs : Sentence(p))
             \/ EditCommit \/ ThreadDies
             \/ (\E limit \in Limits : ChangeLimit(limit))
             \/ (\E status \in Requests : ChangeStatus(status))
             \/ UNCHANGED keywordVars
    BY <1>3 DEF Tick, StartProgram, PerformAction, DeleteOldPrograms,
         Sentence, EditCommit, ThreadDies, ChangeLimit, ChangeStatus,
         EditBegin, keywordVars
  <1> QED
    BY <1>1, <1>2, <1>3 DEF KeywordNext

THEOREM FlagKept == KeywordSpec => UpdateWaits
  <1>1. KeywordInit => OwedInv
    BY DEF KeywordInit, OwedInv
  <1>2. OwedInv /\ [KeywordNext]_keywordVars =>
           [owed = "yes" => \/ owed' = "yes" /\ epgUpdated'
                            \/ owed' = "no" /\ place' = "epg" /\ epgUpdated'
                            \/ Crash]_keywordVars
    BY OwedStep, WaitEnds DEF OwedInv
  <1> QED
    BY <1>1, <1>2, OwedStep, PTL DEF KeywordSpec, UpdateWaits
=============================================================================
