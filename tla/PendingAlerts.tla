---------------------------- MODULE PendingAlerts ----------------------------
(***************************************************************************)
(* Reminders of the search site: ProgramAlertAction (a user's web request) *)
(* and CheckAlertsThread (after the nightly EPG update) write a row of     *)
(* pending_alerts for every coming showing of a program, through           *)
(* AlertManager.checkIfPending; PendingAlertThread sleeps until the next   *)
(* alert time and turns the rows that are due into messages.               *)
(*                                                                         *)
(* One user with one reminder for a program (a ProgramAlert) and any       *)
(* number of quick reminders for single showings ("manual" rows).  A       *)
(* database transaction reads when it begins and writes when it commits.   *)
(***************************************************************************)
EXTENDS Naturals, Sequences, FiniteSets

CONSTANTS Showings,      \* showings of the program
          AlertTime,     \* when each is to be announced
          StartTime,     \* when each starts
          MaxTime,       \* bound: the last moment
          MaxRows,       \* bound: rows of pending_alerts
          MaxNights,     \* bound: nightly checks
          MaxRequests,   \* bound: web requests
          MaxCrashes,    \* bound: crashes of the site
          Requests,      \* the web requests users make
          Faults         \* which failures the environment injects

RequestKinds == {"create", "disable", "enable", "delete", "deleteAll",
                 "on", "off"}
FaultKinds == {"epg",    \* the EPG service fails or its schedule changed
               "db",     \* a query or a commit of the thread fails
               "crash",  \* the site is killed
               "exit"}   \* the site is shut down

ASSUME PendingAssumption ==
    /\ MaxTime \in Nat /\ MaxRows \in Nat /\ MaxNights \in Nat
    /\ MaxRequests \in Nat /\ MaxCrashes \in Nat
    /\ AlertTime \in [Showings -> 0..MaxTime]
    /\ StartTime \in [Showings -> 0..MaxTime]
    /\ Requests \subseteq RequestKinds /\ Faults \subseteq FaultKinds

VARIABLES
    clock,
    known,       \* showings the EPG service knows of
    status,      \* the ProgramAlert: "none", "enabled", "disabled",
                 \* "deleted" or, once its row is removed, "gone"
    table,       \* the rows of pending_alerts, by key
    web, night,  \* the open transaction of the web request and of
                 \* CheckAlertsThread
    place,       \* where PendingAlertThread is, see Places
    isActive,    \* PendingAlertThread.isActive
    delay,       \* 0, or the time up to which it means to wait
    noNext,      \* next == null
    batch,       \* rows of getExpiredAlerts still to be handled
    loaded,      \* the ProgramAlert's status as this session loaded it, or
                 \* "no" before it did
    found,       \* the row at hand and its ProgramAlert's status, or "manual"
    reminded,    \* history: messages made for each row
    off,         \* history: the alert was never on since the last query
    overlapped,  \* history: two transactions were open at once
    nights, asked, crashes

tableVars == <<known, status, table>>
clientVars == <<web, night, overlapped, nights, asked>>
threadVars == <<place, isActive, delay, noNext, batch, loaded, found>>
vars == <<clock, tableVars, clientVars, threadVars, reminded, off, crashes>>

Places == {"top",       \* while (isActive())
           "look",      \* getNextAlert()
           "test",      \* while ((delay > 0 || next == null) && isActive())
           "presleep",  \* on its way into synchronized (this)
           "waiting",   \* in wait(delay)
           "query",     \* getExpiredAlerts()
           "fire",      \* for each of them
           "decide",    \* waiting for the EPG service
           "purge",     \* deleting old rows
           "ended",     \* run() has returned
           "down"}      \* the site is down

\* The key of a row: its showing, whether it is a quick reminder, and a number.
Key(s, manual, n) == [showing |-> s, manual |-> manual, n |-> n]
NewRow == [fired |-> FALSE, deleted |-> FALSE, gone |-> FALSE]

Rows == DOMAIN table
Live == {r \in Rows : ~table[r].gone /\ ~table[r].deleted}
Unfired == {r \in Live : ~table[r].fired}
Time(r) == AlertTime[r.showing]

NothingFound == [status |-> "none"]

NoTransaction == [pc |-> "idle"]
Untouched == "untouched"    \* the status of a transaction that leaves it alone
\* adds, manual: showings that get a row of the ProgramAlert or a quick one;
\* deletes: the rows that are marked, as they were read.
Transaction(newStatus, adds, manual, deletes, notifies) ==
    [pc |-> "open", status |-> newStatus, adds |-> adds, manual |-> manual,
     deletes |-> deletes, notifies |-> notifies]

Init ==
    /\ clock = 0 /\ known \in SUBSET Showings
    /\ status = "none" /\ table = <<>>
    /\ web = NoTransaction /\ night = NoTransaction
    /\ place = "top" /\ isActive = TRUE
    /\ delay = 0 /\ noNext = TRUE /\ batch = {} /\ found = NothingFound
    /\ loaded = "no" /\ reminded = <<>> /\ off = FALSE /\ overlapped = FALSE
    /\ nights = 0 /\ asked = 0 /\ crashes = 0

Tick == /\ clock < MaxTime /\ clock' = clock + 1
        /\ UNCHANGED <<tableVars, clientVars, threadVars, reminded, off,
                       crashes>>

\* External: the nightly EPG load.
EpgLoad == /\ \E s \in Showings \ known : known' = known \union {s}
           /\ UNCHANGED <<clock, status, table, clientVars, threadVars,
                          reminded, off, crashes>>

-----------------------------------------------------------------------------
(* AlertManager.checkIfPending.                                            *)

\* The showings it looks at.
Upcoming == {s \in known : StartTime[s] > clock}

EveryUpcoming == Upcoming   \* mutant: rows are added to a list

\* The showings for which it adds a row.  Its own search for a match only
\* ends the inner loop; what keeps a row from being added twice is Set.add,
\* and PendingAlert.equals calls a fired row different from a new one.
Missing ==
    {s \in Upcoming : ~\E r \in Unfired : ~r.manual /\ r.showing = s}

\* pendingAlertsAdded: whether the row was there already makes no difference.
Notifies == Upcoming # {}

\* A key no row of the showing has had.
NewKey(s, manual) ==
    Key(s, manual, 1 + Cardinality({r \in Rows : r.showing = s
                                                 /\ r.manual = manual}))

\* Wakes the thread, if it is in wait().
WakeUp == IF place = "waiting" THEN "look" ELSE place

-----------------------------------------------------------------------------
(* A web request: it reads, changes objects in memory, and is committed by *)
(* OpenTransactionInViewFilter at its end.                                 *)

Ask(kind, transaction) ==
    /\ place # "down" /\ web = NoTransaction
    /\ kind \in Requests
    /\ asked < MaxRequests /\ asked' = asked + 1
    /\ web' = transaction
    /\ overlapped' = (overlapped \/ night # NoTransaction)
    /\ UNCHANGED <<clock, tableVars, night, nights, threadVars, reminded,
                   off, crashes>>

NotManual == {r \in Live : ~r.manual}

CreateProgramAlert ==
    /\ status = "none"
    /\ Ask("create", Transaction("enabled", Missing, {}, <<>>, Notifies))

\* The rows that are marked are written as they were read.
Marked(rows) == [r \in rows |-> table[r]]

DisableProgramAlert ==
    /\ status = "enabled"
    /\ Ask("disable",
           Transaction("disabled", {}, {}, Marked(NotManual), FALSE))

EnableProgramAlert ==
    /\ status = "disabled"
    /\ Ask("enable", Transaction("enabled", Missing, {}, <<>>, Notifies))

DeleteProgramAlert ==
    /\ status \in {"enabled", "disabled"}
    /\ Ask("delete", Transaction("deleted", {}, {}, Marked(NotManual), FALSE))

\* deleteAlerts: markDeletedForProgram leaves the pending alerts alone.
DeleteAlerts ==
    /\ status \in {"enabled", "disabled"}
    /\ Ask("deleteAll", Transaction("deleted", {}, {}, <<>>, FALSE))

ManualFor(s) == {r \in Unfired : r.manual /\ r.showing = s}

\* setScheduledAlert, which tells PendingAlertThread nothing.
SetScheduledOn(s) ==
    /\ ManualFor(s) = {}
    /\ Ask("on", Transaction(Untouched, {}, {s}, <<>>, FALSE))

SetScheduledOff(s) ==
    \E r \in ManualFor(s) :
        Ask("off", Transaction(Untouched, {}, {}, Marked({r}), FALSE))

NewKeys(t) == {NewKey(s, FALSE) : s \in t.adds}
              \union {NewKey(s, TRUE) : s \in t.manual}

Written(t) ==
    [r \in Rows \union NewKeys(t) |->
        IF r \in DOMAIN t.deletes THEN [t.deletes[r] EXCEPT !.deleted = TRUE]
        ELSE IF r \in Rows THEN table[r] ELSE NewRow]

\* An update of a row that is no longer there fails.
CanCommit(t) == \A r \in DOMAIN t.deletes : ~table[r].gone

StatusWritten(t) ==
    /\ status' = IF t.status = Untouched THEN status ELSE t.status
    /\ off' = (off /\ status' # "enabled")

Commit(t) ==
    /\ CanCommit(t)
    /\ Cardinality(Rows \union NewKeys(t)) <= MaxRows
    /\ table' = Written(t)
    /\ reminded' = [r \in DOMAIN table' |-> IF r \in Rows THEN reminded[r]
                                            ELSE 0]

\* The notification comes with afterCompletion, when the rows are committed.
WebCommit ==
    /\ web # NoTransaction /\ web.pc = "open"
    /\ Commit(web) /\ StatusWritten(web)
    /\ web' = IF web.notifies THEN [web EXCEPT !.pc = "done"]
              ELSE NoTransaction
    /\ UNCHANGED <<clock, known, night, overlapped, nights, asked,
                   threadVars, crashes>>

WebRollback ==
    /\ web # NoTransaction /\ web.pc = "open" /\ ~CanCommit(web)
    /\ web' = NoTransaction
    /\ UNCHANGED <<clock, tableVars, night, overlapped, nights, asked,
                   threadVars, reminded, off, crashes>>

WebNotify ==
    /\ web # NoTransaction /\ web.pc = "done"
    /\ web' = NoTransaction
    /\ place' = WakeUp
    /\ UNCHANGED <<clock, tableVars, night, overlapped, nights, asked,
                   isActive, delay, noNext, batch, loaded, found, reminded,
                   off, crashes>>

-----------------------------------------------------------------------------
(* CheckAlertsThread, once a night: checkProgramAlerts.                    *)

NightCheck ==
    /\ place # "down" /\ night = NoTransaction
    /\ nights < MaxNights /\ nights' = nights + 1
    /\ night' = IF status = "enabled"
                THEN Transaction(Untouched, Missing, {}, <<>>, Notifies)
                ELSE [pc |-> "done"]
    /\ overlapped' = (overlapped \/ web # NoTransaction)
    /\ UNCHANGED <<clock, tableVars, web, asked, threadVars, reminded, off,
                   crashes>>

\* Its transaction is not TransactionManager's, so checkIfPending notifies at
\* once, before the commit.
NightNotify ==
    /\ night # NoTransaction /\ night.pc = "open" /\ night.notifies
    /\ night' = [night EXCEPT !.notifies = FALSE]
    /\ place' = WakeUp
    /\ UNCHANGED <<clock, tableVars, web, overlapped, nights, asked,
                   isActive, delay, noNext, batch, loaded, found,
                   reminded, off, crashes>>

NightCommit ==
    /\ night # NoTransaction /\ night.pc = "open" /\ ~night.notifies
    /\ Commit(night)
    /\ night' = [pc |-> "done"]
    /\ UNCHANGED <<clock, known, status, web, overlapped, nights, asked,
                   threadVars, off, crashes>>

\* ProgramAlert.deleteAllMarkedDeleted.
NightPurge ==
    /\ night # NoTransaction /\ night.pc = "done"
    /\ night' = NoTransaction
    /\ IF status = "deleted"
       THEN /\ status' = "gone"
            /\ table' = [r \in Rows |->
                                 IF r.manual THEN table[r]
                                 ELSE [table[r] EXCEPT !.deleted = TRUE]]
       ELSE UNCHANGED <<status, table>>
    /\ UNCHANGED <<clock, known, web, overlapped, nights, asked,
                   threadVars, reminded, off, crashes>>

-----------------------------------------------------------------------------
(* PendingAlertThread.run.                                                 *)

Goto(from, to) == place = from /\ place' = to

Top == /\ Goto("top", IF isActive THEN "look" ELSE "ended")
       /\ UNCHANGED <<clock, tableVars, clientVars, isActive, delay, noNext,
                      batch, loaded, found, reminded, off, crashes>>

Earliest(S) == CHOOSE r \in S : \A q \in S : Time(r) <= Time(q)

\* getNextAlert, outside and inside the waiting loop.
Look ==
    /\ Goto("look", "test")
    /\ noNext' = (Unfired = {})
    /\ delay' = IF Unfired = {} THEN 0 ELSE Time(Earliest(Unfired))
    /\ UNCHANGED <<clock, tableVars, clientVars, isActive, batch, loaded,
                   found, reminded, off, crashes>>

WaitsAnyway == noNext \/ delay > clock      \* mutant: isActive is not tested

\* The loop condition; the delay was computed at the look.
MustWait == (noNext \/ delay > clock) /\ isActive

Test ==
    /\ Goto("test", IF MustWait THEN "presleep" ELSE "query")
    /\ UNCHANGED <<clock, tableVars, clientVars, isActive, delay, noNext,
                   batch, loaded, found, reminded, off, crashes>>

Sleep ==
    /\ Goto("presleep", "waiting")
    /\ UNCHANGED <<clock, tableVars, clientVars, isActive, delay, noNext,
                   batch, loaded, found, reminded, off, crashes>>

TimeoutNever == FALSE       \* mutant: wait() for ever

\* wait(delay) returns; wait(0) does not time out.
TimeIsUp == ~noNext /\ clock >= delay

Timeout ==
    /\ TimeIsUp
    /\ Goto("waiting", "look")
    /\ UNCHANGED <<clock, tableVars, clientVars, isActive, delay, noNext,
                   batch, loaded, found, reminded, off, crashes>>

ExpiredAnyTime == Unfired   \* mutant: the alert time is not compared
Expired == {r \in Unfired : Time(r) <= clock}

Query ==
    /\ Goto("query", "fire")
    /\ batch' = Expired
    /\ delay' = 0              \* not used until the next look
    /\ loaded' = "no"          \* a new session
    /\ off' = (status # "enabled")
    /\ UNCHANGED <<clock, tableVars, clientVars, isActive, noNext, found,
                   reminded, crashes>>

\* The session loads a ProgramAlert once and then gives the same object again.
LoadedStatus == IF loaded = "no" THEN status ELSE loaded

\* The first row is taken, its ProgramAlert loaded, the EPG service asked.
Fire ==
    /\ isActive
    /\ Goto("fire", "decide")
    /\ \E r \in batch :
          /\ \A q \in batch : Time(r) <= Time(q)
          /\ found' = [row |-> r,
                       status |-> IF r.manual THEN "manual" ELSE LoadedStatus]
          /\ loaded' = IF r.manual THEN loaded ELSE LoadedStatus
    /\ UNCHANGED <<clock, tableVars, clientVars, isActive, delay, noNext,
                   batch, reminded, off, crashes>>

StillListed == batch        \* mutant: the list outlives the loop
LeftOver == {}

\* All rows are done, or the thread is to stop.
FireEnds ==
    /\ batch = {} \/ ~isActive
    /\ Goto("fire", "purge")
    /\ batch' = LeftOver /\ loaded' = "no"
    /\ UNCHANGED <<clock, tableVars, clientVars, isActive, delay, noNext,
                   found, reminded, off, crashes>>

MarkNotCommitted(r) == table' = table  \* mutant: the mark is rolled back too

\* setFired(true); save() writes the whole row, as it was read; a row with no
\* ProgramAlert has been marked deleted as well.
Mark(r) == table' = [table EXCEPT ![r] = [fired |-> TRUE, deleted |-> r.manual,
                                          gone |-> @.gone]]

Handled ==
    /\ Goto("decide", "fire")
    /\ batch' = batch \ {found.row}
    /\ found' = NothingFound
    /\ Mark(found.row)
    /\ UNCHANGED <<clock, known, status, clientVars, isActive, delay, noNext,
                   loaded, off, crashes>>

AnyStatusIsValid == TRUE    \* mutant: disabled and deleted are not looked at
StatusIsValid == found.status \in {"enabled", "manual"}

\* The messages and the mark are one transaction.
Send == /\ StatusIsValid
        /\ Handled
        /\ reminded' = [reminded EXCEPT ![found.row] = @ + 1]

\* The alert is disabled or deleted.
Skip == ~StatusIsValid /\ Handled /\ UNCHANGED reminded

\* The schedule has changed, or an exception rolled the messages back; the row
\* is marked all the same, in a new transaction.
FailToSend == "epg" \in Faults /\ Handled /\ UNCHANGED reminded

\* PendingAlert.deleteAllMarkedDeleted and deleteOldFired.
Purge ==
    /\ Goto("purge", "top")
    /\ table' = [r \in Rows |->
           IF \/ table[r].deleted
              \/ (table[r].fired /\ StartTime[r.showing] < clock)
           THEN [table[r] EXCEPT !.gone = TRUE] ELSE table[r]]
    /\ UNCHANGED <<clock, known, status, clientVars, isActive, delay, noNext,
                   batch, loaded, found, reminded, off, crashes>>

\* A query outside the inner try, or the commit in its finally: the Throwable
\* ends the thread.
Abort ==
    /\ "db" \in Faults
    /\ place \in {"look", "query", "decide", "purge"}
    /\ place' = "ended"
    /\ batch' = {} /\ loaded' = "no" /\ found' = NothingFound
    /\ UNCHANGED <<clock, tableVars, clientVars, isActive, delay, noNext,
                   reminded, off, crashes>>

-----------------------------------------------------------------------------
(* The site.                                                               *)

\* AlertManager.exitGracefully, up to its waiting for the threads.
ExitGracefully ==
    /\ "exit" \in Faults
    /\ place \notin {"down", "ended"} /\ isActive
    /\ isActive' = FALSE
    /\ place' = WakeUp
    /\ UNCHANGED <<clock, tableVars, clientVars, delay, noNext, batch, loaded,
                   found, reminded, off, crashes>>

Crash ==
    /\ "crash" \in Faults
    /\ crashes < MaxCrashes /\ crashes' = crashes + 1
    /\ place # "down" /\ place' = "down"
    /\ web' = NoTransaction /\ night' = NoTransaction
    /\ isActive' = TRUE
    /\ batch' = {} /\ loaded' = "no" /\ found' = NothingFound
    /\ UNCHANGED <<clock, tableVars, overlapped, nights, asked, delay, noNext,
                   reminded, off>>

Restart ==
    /\ Goto("down", "top")
    /\ UNCHANGED <<clock, tableVars, clientVars, isActive, delay, noNext,
                   batch, loaded, found, reminded, off, crashes>>

-----------------------------------------------------------------------------
WebRequest == \/ CreateProgramAlert \/ DisableProgramAlert
              \/ EnableProgramAlert \/ DeleteProgramAlert \/ DeleteAlerts
              \/ \E s \in known : SetScheduledOn(s) \/ SetScheduledOff(s)

WebEnd == WebCommit \/ WebRollback \/ WebNotify

Night == NightNotify \/ NightCommit \/ NightPurge

Thread == \/ Top \/ Look \/ Test \/ Sleep \/ Timeout \/ Query \/ Fire
          \/ FireEnds \/ Send \/ Skip \/ FailToSend \/ Purge

Next == \/ Tick \/ EpgLoad \/ WebRequest \/ WebEnd \/ NightCheck \/ Night
        \/ Thread \/ Abort
        \/ ExitGracefully \/ Crash \/ Restart

Spec == Init /\ [][Next]_vars

\* Time passes, the threads run, requests come to their end, and a crashed
\* site is started again.
FairSpec == Spec /\ WF_vars(Tick) /\ WF_vars(Thread) /\ WF_vars(WebEnd)
                 /\ WF_vars(Night) /\ WF_vars(Restart)

-----------------------------------------------------------------------------
(* Properties.                                                             *)

TypeOK ==
    /\ clock \in 0..MaxTime /\ known \subseteq Showings
    /\ status \in {"none", "enabled", "disabled", "deleted", "gone"}
    /\ place \in Places /\ isActive \in BOOLEAN
    /\ DOMAIN reminded = Rows /\ Cardinality(Rows) <= MaxRows
    /\ batch \subseteq Rows
    /\ batch # {} => place \in {"fire", "decide"}
    /\ loaded \in {"no", "enabled", "disabled", "deleted", "gone"}
    /\ (found # NothingFound) <=> (place = "decide")
    /\ nights \in 0..MaxNights /\ asked \in 0..MaxRequests
    /\ crashes \in 0..MaxCrashes

\* A row makes its messages once, whatever fails and whenever the site is
\* killed: they are committed with the mark that keeps the row from being
\* found again.
RemindedOnce == \A r \in Rows : reminded[r] <= 1

\* No message is made before the alert time of its row.
NotAheadOfTime == \A r \in Rows : reminded[r] > 0 => Time(r) <= clock

\* No message is made for a ProgramAlert that was disabled or deleted when the
\* thread asked for the expired rows and has not been enabled since, not even
\* for the rows that deleteAlerts leaves behind.
OffMeansSilent ==
    [][\A r \in Rows : (~r.manual /\ r \in DOMAIN reminded'
                        /\ reminded'[r] > reminded[r]) => ~off]_vars

\* Without overlapping transactions no showing has two rows of the ProgramAlert
\* that are still to be fired, however often the schedule is checked and the
\* alert switched off and on.
OneUnfiredRow ==
    ~overlapped =>
        \A r, q \in Unfired : (~r.manual /\ ~q.manual /\ r # q)
                                  => r.showing # q.showing

\* While the thread waits for some alert time, it comes to handle every row
\* there is, those included that were added after its last look.  (When it
\* waits for nothing it may oversleep a row, whose adding notified nobody.)
DeadlineServesAll ==
    \A s \in Showings : \A manual \in BOOLEAN :
        (Key(s, manual, 1) \in Unfired /\ ~noNext)
            ~> (Key(s, manual, 1) \notin Unfired \/ place = "ended")

\* "Trying to exit alert threads gracefully": a shutdown ends the thread,
\* unless it comes between the thread's test of isActive and its wait.
ExitOutsideWindow ==
    (~isActive /\ place \notin {"presleep", "waiting"})
        ~> (place = "ended" \/ isActive)

\* "found matching pending alert": a showing that has a pending alert gets no
\* second one, so the user is reminded of it once.
ShowingRemindedOnce ==
    \A r, q \in Rows : (~r.manual /\ ~q.manual /\ r # q
                        /\ r.showing = q.showing)
                           => reminded[r] = 0 \/ reminded[q] = 0
=============================================================================
