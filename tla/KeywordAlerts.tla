---------------------------- MODULE KeywordAlerts ----------------------------
(***************************************************************************)
(* Topic alerts of the search site.  KeywordAlertThread searches the live  *)
(* index, where CaptionListener keeps the program that is on air on each   *)
(* channel, and after the nightly EPG update the program index too; it     *)
(* tells the user of every program it has no KeywordMatch for.  Matches    *)
(* are forgotten half an hour after the program, and the live index is     *)
(* purged twice an hour by DeleteOldProgramsThread: the two must agree, or *)
(* a program is found again whose match is forgotten.                      *)
(*                                                                         *)
(* One alert of one user, one channel, on which the programs 1, 2, ...     *)
(* follow one another.  A moment is five minutes; clock = 0 on the hour.   *)
(***************************************************************************)
EXTENDS Naturals, Sequences, FiniteSets

CONSTANTS Programs,      \* a set of positive numbers
          StartTime, EndTime,
          Described,     \* programs the EPG describes with the user's topic
          DefaultLimit,  \* defaultMaxAlertsPerDay
          Limits,        \* the limits the user asks for; 0 is served as 1
          Midnight,      \* when the user's next day begins
          Requests,      \* the statuses the user asks for
          Begin,         \* when the site is first started
          MaxTime,       \* bound: the last moment
          MaxNights,     \* bound: updates of the EPG
          MaxEdits,      \* bound: web requests
          MaxFailures,   \* bound: failures and crashes
          Faults         \* which failures the environment injects

FaultKinds == {"late",    \* sentences arrive when the program is over
               "purge",   \* the purge cannot read the index
               "search",  \* a search fails
               "send",    \* the messages for a hit cannot be made
               "fatal",   \* an exception ends KeywordAlertThread
               "crash"}   \* the site is killed or shut down

ASSUME KeywordAssumption ==
    /\ Programs \subseteq Nat \ {0} /\ Described \subseteq Programs
    /\ StartTime \in [Programs -> Nat] /\ EndTime \in [Programs -> Nat]
    /\ DefaultLimit \in Nat \ {0} /\ Limits \subseteq Nat /\ Midnight \in Nat
    /\ MaxTime \in Nat /\ Begin \in 0..MaxTime
    /\ MaxNights \in Nat /\ MaxEdits \in Nat
    /\ Requests \subseteq {"on", "disabled", "deleted"}
    /\ MaxFailures \in Nat /\ Faults \subseteq FaultKinds

VARIABLES
    clock,
    speaking,    \* the program of CaptionListener.captions, 0 for none
    queued,      \* what the live index's queue has still to perform
    live,        \* the program in the live index, 0 for none
    nextPurge,   \* when DeleteOldProgramsThread wakes, or Asleep before the
                 \* first caption event has started it
    row,         \* the row of keyword_alerts
    matches,     \* the programs with a row in keyword_matches
    epgUpdated,  \* AlertManager.epgUpdated
    edit,        \* the row as an open web request will write it, or NoRow
    place,       \* where KeywordAlertThread is, see Places
    mine,        \* the row as the thread's session loaded it, or NoRow
    searcher,    \* currentSearcher: what it shows and since when
    hits,        \* hits of the last search still to be handled
    told,        \* history: how often, up to two, each program was told of
    today,       \* history: messages of the user's day
    highest,     \* history: the highest limit of the day, of the row or of a
                 \* copy that may still be written
    overwrites,  \* history: how often in the day a web request wrote back a
                 \* count that it had read before the last message
    owed,        \* history: "yes" after an EPG update until a check begins;
                 \* "raced" when it came during a check; "forgotten" when the
                 \* process ended before a check of it
    troubled,    \* history: a purge failed or was not running, or sentences
                 \* came late
    nights, edits, failures

indexVars == <<speaking, queued, live, nextPurge>>
threadVars == <<place, mine, searcher, hits>>
webVars == <<edit, edits>>
dayVars == <<today, highest, overwrites>>
historyVars == <<told, dayVars>>
keywordVars == <<clock, indexVars, row, matches, epgUpdated, webVars,
                 threadVars, historyVars, owed, troubled, nights, failures>>

Places == {"top", "live", "liveHits", "flag", "epg", "epgHits", "reset",
           "clear", "dead"}

\* The row: status, todaysAlertCount, maxAlertsPerDay, and lastAlertDay with 0
\* for null.
NoRow == [status |-> "none", count |-> 0, limit |-> 0, day |-> 0]
NewRow == [status |-> "on", count |-> 0, limit |-> DefaultLimit, day |-> 0]
NoSearcher == [shows |-> 0, at |-> MaxTime + 1]
Asleep == MaxTime + 1
Purged(ends) == [kind |-> "delete", ends |-> ends]
Put(p) == [kind |-> "put", program |-> p]

Day == IF clock < Midnight THEN 1 ELSE 2    \* calculateDay

KeywordInit ==
    /\ clock = Begin /\ speaking = 0 /\ queued = <<>> /\ live = 0
    /\ nextPurge = Asleep
    /\ row = NewRow
    /\ matches = {} /\ epgUpdated = FALSE
    /\ edit = NoRow /\ edits = 0
    /\ place = "top" /\ mine = NoRow /\ searcher = NoSearcher /\ hits = {}
    /\ told = [p \in Programs |-> 0] /\ today = 0
    /\ highest = DefaultLimit /\ overwrites = 0
    /\ owed = "no" /\ troubled = FALSE /\ nights = 0 /\ failures = 0

Fails(kind) == /\ kind \in Faults
               /\ failures < MaxFailures /\ failures' = failures + 1

Larger(m, n) == IF m >= n THEN m ELSE n
Largest(r, s, t) == Larger(r.limit, Larger(s.limit, t.limit))

\* Five minutes are more than the index needs for an action, and no thread
\* oversleeps by as much.  A searcher that is too old at the next moment counts
\* as none: it is not used again, only closed.
Tick ==
    /\ clock < MaxTime /\ queued = <<>>
    /\ nextPurge = Asleep \/ clock < nextPurge
    /\ clock' = clock + 1
    /\ IF clock' = Midnight
       THEN /\ today' = 0 /\ overwrites' = 0
            /\ highest' = Larger(1, Largest(row, mine, edit))
       ELSE UNCHANGED dayVars
    /\ searcher' = IF searcher.at < clock THEN NoSearcher ELSE searcher
    /\ UNCHANGED <<indexVars, row, matches, epgUpdated, webVars, place, mine,
                   hits, told, owed, troubled, nights, failures>>

-----------------------------------------------------------------------------
(* The live index.                                                         *)

OnAir(p) == StartTime[p] <= clock /\ clock < EndTime[p]

\* A caption event creates the servlet, if it has not been, and that starts
\* DeleteOldProgramsThread, whose first purge comes at once.
StartThread == nextPurge' = IF nextPurge = Asleep THEN clock ELSE nextPurge

\* captureSentence, addToLiveIndex: the channel's document is deleted and the
\* program's added.
Sentence(p) ==
    /\ p >= speaking /\ speaking' = p
    /\ live # p /\ queued = <<>>
    /\ \/ OnAir(p) /\ UNCHANGED <<troubled, failures>>
       \/ clock >= EndTime[p] /\ Fails("late") /\ troubled' = TRUE
    /\ queued' = <<Put(p)>>
    /\ StartThread
    /\ UNCHANGED <<clock, live, row, matches, epgUpdated, webVars, threadVars,
                   historyVars, owed, nights>>

\* startProgram leaves the live index alone.
StartProgram ==
    /\ nextPurge = Asleep /\ StartThread
    /\ UNCHANGED <<clock, speaking, queued, live, row, matches, epgUpdated,
                   webVars, threadVars, historyVars, owed, troubled, nights,
                   failures>>

\* External to this module: IndexerQueue.
PerformAction ==
    /\ queued # <<>> /\ queued' = Tail(queued)
    /\ LET action == Head(queued) IN
         live' = IF action.kind = "put" THEN action.program
                 ELSE IF live # 0 /\ EndTime[live] \in action.ends THEN 0
                 ELSE live
    /\ UNCHANGED <<clock, speaking, nextPurge, row, matches, epgUpdated,
                   webVars, threadVars, historyVars, owed, troubled, nights,
                   failures>>

Hour == 12
PurgeAge == 2               \* ten minutes

\* A quarter past or a quarter to the hour.
NextPurge ==
    LET minute == clock % Hour
        onTheHour == clock - minute
    IN  IF minute < 3 THEN onTheHour + 3
        ELSE IF minute >= 9 THEN onTheHour + Hour + 3
        ELSE onTheHour + 9

\* One round of DeleteOldProgramsThread.run.
DeleteOldPrograms ==
    /\ nextPurge # Asleep /\ clock >= nextPurge
    /\ nextPurge' = NextPurge
    /\ \/ LET old == {p \in {live} \ {0} : EndTime[p] + PurgeAge <= clock}
          IN  /\ queued' = Append(queued, Purged({EndTime[p] : p \in old}))
              /\ UNCHANGED <<troubled, failures>>
       \/ Fails("purge") /\ troubled' = TRUE /\ UNCHANGED queued
    /\ UNCHANGED <<clock, speaking, live, row, matches, epgUpdated, webVars,
                   threadVars, historyVars, owed, nights>>

-----------------------------------------------------------------------------
(* A pass of KeywordAlertThread.                                           *)

\* maxAlertsExceeded
LimitReached(r) == r.count >= r.limit /\ r.day # 0 /\ Day <= r.day

\* incrementTodaysAlertCount
Counted(r) == [r EXCEPT !.count = IF Day > r.day THEN 1 ELSE @ + 1,
                        !.day = Day]

\* (The alert's user is always there: nothing removes a user.)
Skipped == mine = NoRow \/ mine.status # "on" \/ LimitReached(mine)

\* Two minutes later, with a new session, which reads each row once.
BeginPass ==
    /\ place = "top" /\ place' = "live"
    /\ mine' = IF row.status = "gone" THEN NoRow ELSE row
    /\ UNCHANGED <<clock, indexVars, row, matches, epgUpdated, webVars,
                   searcher, hits, historyVars, owed, troubled, nights,
                   failures>>

SkipAlert ==
    /\ Skipped
    /\ \/ place = "live" /\ place' = "flag"
       \/ place = "epg" /\ place' = "reset"
    /\ UNCHANGED <<clock, indexVars, row, matches, epgUpdated, webVars, mine,
                   searcher, hits, historyVars, owed, troubled, nights,
                   failures>>

\* getIndexSearcher: a searcher is kept for two minutes, which may be over at
\* the next moment and are over at the one after.
Reusable == searcher # NoSearcher

SearchLive ==
    /\ place = "live" /\ ~Skipped /\ place' = "liveHits"
    /\ \/ searcher' = [shows |-> live, at |-> clock]
       \/ Reusable /\ UNCHANGED searcher
    /\ hits' = {searcher'.shows} \ {0}
    /\ UNCHANGED <<clock, indexVars, row, matches, epgUpdated, webVars, mine,
                   historyVars, owed, troubled, nights, failures>>

\* checkAgainstEpg: what the EPG describes and is not over.
SearchEpg ==
    /\ place = "epg" /\ ~Skipped /\ place' = "epgHits"
    /\ hits' = {p \in Described : EndTime[p] > clock}
    /\ UNCHANGED <<clock, indexVars, row, matches, epgUpdated, webVars, mine,
                   searcher, historyVars, owed, troubled, nights, failures>>

\* An exception ends the search for this alert; after several in a row, of
\* this and other alerts, it ends the pass, and no row is cleared.  The check
\* against the EPG counts as done in any case.
SearchFails ==
    /\ ~Skipped /\ Fails("search")
    /\ \/ place = "live" /\ place' = "flag" /\ UNCHANGED mine
       \/ place = "live" /\ place' = "top" /\ mine' = NoRow
       \/ place = "epg" /\ place' = "reset" /\ UNCHANGED mine
    /\ UNCHANGED <<clock, indexVars, row, matches, epgUpdated, webVars,
                   searcher, hits, historyVars, owed, troubled, nights>>

AtHit(p) == place \in {"liveHits", "epgHits"} /\ p \in hits

\* mutant: the limit is tested once per alert, not for each hit
WorthwhileUnlimited(p) == p \notin matches

\* isNewMatch, asked only while the limit is not reached
Worthwhile(p) == ~LimitReached(mine) /\ p \notin matches

DropHit(p) ==
    /\ AtHit(p) /\ ~Worthwhile(p) /\ hits' = hits \ {p}
    /\ UNCHANGED <<clock, indexVars, row, matches, epgUpdated, webVars, place,
                   mine, searcher, historyVars, owed, troubled, nights,
                   failures>>

\* The match, the count and the messages are one transaction, which writes
\* all columns of the row as the session holds them: a limit or a status that
\* was changed since the pass began is taken back.
Remember(p) == /\ matches' = matches \cup {p}
               /\ mine' = Counted(mine)
               /\ row' = mine'

Tell(p) ==
    /\ AtHit(p) /\ Worthwhile(p) /\ hits' = hits \ {p}
    /\ Remember(p)
    /\ told' = [told EXCEPT ![p] = IF @ = 2 THEN 2 ELSE @ + 1]
    /\ today' = today + 1 /\ UNCHANGED <<highest, overwrites>>
    /\ UNCHANGED <<clock, indexVars, epgUpdated, webVars, place, searcher,
                   owed, troubled, nights, failures>>

\* sendMessages gives up or throws.  The session keeps the match and the
\* count over the rollback, and its next commit writes them.
SendFails(p) ==
    /\ AtHit(p) /\ Worthwhile(p) /\ Fails("send") /\ hits' = hits \ {p}
    /\ Remember(p)
    /\ UNCHANGED <<clock, indexVars, epgUpdated, webVars, place, searcher,
                   historyVars, owed, troubled, nights>>

HitsDone ==
    /\ hits = {}
    /\ \/ place = "liveHits" /\ place' = "flag"
       \/ place = "epgHits" /\ place' = "reset"
    /\ UNCHANGED <<clock, indexVars, row, matches, epgUpdated, webVars, mine,
                   searcher, hits, historyVars, owed, troubled, nights,
                   failures>>

\* alertManager.isEpgUpdated()
TestFlag ==
    /\ place = "flag"
    /\ IF epgUpdated THEN place' = "epg" /\ owed' = "no"
       ELSE place' = "clear" /\ UNCHANGED owed
    /\ UNCHANGED <<clock, indexVars, row, matches, epgUpdated, webVars, mine,
                   searcher, hits, historyVars, troubled, nights, failures>>

\* mutant: the flag is reset although the test did not see it
ResetFlagUnseen ==
    /\ place \in {"reset", "clear"} /\ epgUpdated
    /\ place' = "clear" /\ epgUpdated' = FALSE
    /\ UNCHANGED <<clock, indexVars, row, matches, webVars, mine, searcher,
                   hits, historyVars, owed, troubled, nights, failures>>

ResetFlag ==
    /\ place = "reset" /\ place' = "clear" /\ epgUpdated' = FALSE
    /\ UNCHANGED <<clock, indexVars, row, matches, webVars, mine, searcher,
                   hits, historyVars, owed, troubled, nights, failures>>

\* mutant: a match is forgotten when its program is over
RetentionNone == 0

Retention == 6              \* thirty minutes

\* deleteAllMarkedDeleted
DeleteMarked ==
    row' = IF row.status = "deleted" THEN [row EXCEPT !.status = "gone"]
           ELSE row

\* deleteOldProgramMatches
DeleteOldMatches == matches' = {p \in matches : EndTime[p] + Retention > clock}

\* Both in a transaction, and closeSession.
Clear ==
    /\ place = "clear" /\ place' = "top"
    /\ DeleteMarked /\ DeleteOldMatches
    /\ mine' = NoRow
    /\ UNCHANGED <<clock, indexVars, epgUpdated, webVars, searcher, hits,
                   historyVars, owed, troubled, nights, failures>>

\* A page of the alerts cannot be read, a session or transaction not opened,
\* the database fails in the handler of another failure: the exception leaves
\* run, and nobody starts the thread again.  What Clear had deleted until then
\* is committed in any case, unless the commit is what failed.  (The searcher
\* stays open, unused.)
ThreadDies ==
    /\ place \notin {"flag", "reset", "dead"} /\ Fails("fatal")
    /\ place' = "dead" /\ mine' = NoRow /\ searcher' = NoSearcher /\ hits' = {}
    /\ \/ UNCHANGED <<row, matches>>
       \/ place = "clear" /\ DeleteMarked /\ UNCHANGED matches
       \/ place = "clear" /\ DeleteMarked /\ DeleteOldMatches
    /\ UNCHANGED <<clock, indexVars, epgUpdated, webVars, historyVars, owed,
                   troubled, nights>>

-----------------------------------------------------------------------------
(* The others.                                                             *)

\* CheckAlertsThread.checkKeywordAlerts
EpgUpdate ==
    /\ nights < MaxNights /\ nights' = nights + 1
    /\ epgUpdated' = TRUE
    /\ owed' = IF place \in {"epg", "epgHits", "reset"} THEN "raced"
               ELSE "yes"
    /\ UNCHANGED <<clock, indexVars, row, matches, webVars, threadVars,
                   historyVars, troubled, failures>>

\* A session reads the row, and its commit writes all of it.
EditBegin(edited) ==
    /\ edit = NoRow /\ edits < MaxEdits /\ edits' = edits + 1
    /\ row.status \in {"on", "disabled"}
    /\ edit' = edited
    /\ highest' = Larger(highest, edited.limit)
    /\ UNCHANGED <<clock, indexVars, row, matches, epgUpdated, threadVars,
                   told, today, overwrites, owed, troubled, nights, failures>>

\* changeKeywordAlert
ChangeLimit(limit) == EditBegin([row EXCEPT !.limit = limit])

\* changeKeywordAlertDisabled, deleteKeywordAlert
ChangeStatus(status) == EditBegin([row EXCEPT !.status = status])

EditCommit ==
    /\ edit # NoRow /\ edit' = NoRow
    /\ IF row.status = "gone" THEN UNCHANGED <<row, overwrites>>
       ELSE /\ row' = edit
            /\ overwrites' = IF <<edit.count, edit.day>> = <<row.count, row.day>>
                             THEN overwrites ELSE overwrites + 1
    /\ UNCHANGED <<clock, indexVars, matches, epgUpdated, edits, threadVars,
                   told, today, highest, owed, troubled, nights, failures>>

\* The live index keeps what it holds, and nobody purges it until a caption
\* event arrives.  That the EPG was updated is only in memory, and nothing
\* checks it at the next start.
Crash ==
    /\ Fails("crash")
    /\ speaking' = 0 /\ queued' = <<>> /\ nextPurge' = Asleep
    /\ epgUpdated' = FALSE /\ edit' = NoRow
    /\ place' = "top" /\ mine' = NoRow /\ searcher' = NoSearcher /\ hits' = {}
    /\ owed' = IF owed = "no" THEN "no" ELSE "forgotten"
    /\ troubled' = TRUE
    /\ UNCHANGED <<clock, live, row, matches, edits, historyVars, nights>>

Thread == \/ BeginPass \/ SkipAlert \/ SearchLive \/ SearchEpg \/ SearchFails
          \/ (\E p \in Programs : DropHit(p) \/ Tell(p) \/ SendFails(p))
          \/ HitsDone \/ TestFlag \/ ResetFlag \/ Clear

KeywordNext ==
    \/ Tick \/ StartProgram \/ PerformAction \/ DeleteOldPrograms
    \/ (\E p \in Programs : Sentence(p))
    \/ Thread \/ ThreadDies
    \/ EpgUpdate \/ EditCommit \/ Crash
    \/ (\E limit \in Limits : ChangeLimit(limit))
    \/ (\E status \in Requests : ChangeStatus(status))

KeywordSpec == KeywordInit /\ [][KeywordNext]_keywordVars

\* The thread runs, until an exception ends it.
FairKeywordSpec == KeywordSpec /\ WF_keywordVars(Thread)

-----------------------------------------------------------------------------
(* Properties.                                                             *)

\* Nobody is told twice of a program that ends on the hour or half hour, as
\* long as the live index is purged and sentences arrive in time: the purge
\* comes a quarter of an hour after the end, no searcher is older than five
\* minutes, and the match stays for half an hour.  (A program that ends in
\* between may be purged up to forty minutes after its end, and then the
\* user is told again.)
ToldOnce ==
    ~troubled =>
        \A p \in Programs : EndTime[p] % 6 = 0 => told[p] <= 1

\* The daily limit holds, whatever the thread and the web requests take back
\* of each other's writes: no more messages in a day than the highest limit
\* that was in force or could be written back, once more for each request that
\* wrote back a count of before the last message.
DailyLimit == today <= highest * (1 + overwrites)

\* An update of the EPG that does not come during a check is followed by one,
\* unless the thread ends or the process does.
EpgUpdateChecked ==
    owed = "yes" ~> owed \in {"no", "forgotten"} \/ place = "dead"
=============================================================================
