# A TLA+ model of flip.tv

flip.tv records what is said on television and makes it searchable while it is
being said. This directory holds TLA+ modules for the parts of it that run
concurrently or survive failures, TLC configurations that check them on small
instances, and proofs, checked by TLAPS, of what matters most about each of the
eight parts for every instance.
`PROJECT.json` maps each definition to the source lines it stands for.

Paths below are relative to `src/`. `W` is
`websites/search/src/main/java/com/appeligo`, `L` is
`luceneadapter/src/main/java/com/appeligo/lucene`, `CF` is
`channelfeed/src/main/java/com/appeligo/channelfeed/work`.

## 1. The system

Four kinds of processes work together:

* a **capture machine** per few channels (`channelfeed`): reads the VBI data of
  a capture card or a socket, makes sentences of it, attributes them to
  programs, writes caption files and sends events to the search site;
* the **search site** (`websites/search`): receives the events, keeps a live
  index and a program index with Lucene, answers searches, and reminds users;
* the **services**: the EPG (program guide) service, loaded every night, and
  the caption store, which reads the caption files;
* the **remote control page** (`mediacenter`) in the browser of a media centre.

```
 VBI -> CaptionReaderThread -> Destinations -> CookedQueue ==Hessian==> CaptionListener
            |                        |                                     |   |
            | asks                   +-> FileWriter -> caption store ------+   | addProgram
            v                                          (cold start)            v
        EPG service <--- CheckAlertsThread, EpgIndexer ----updateProgram--> LuceneIndexer
                             |                                               -> IndexerQueue
                             v                                               -> Lucene index
 web request -> AlertManager.checkIfPending -> pending_alerts rows
                             |                       |
                             +---- notifyAll ---> PendingAlertThread -> message rows
                                                                           |
                             KeywordAlertThread -> message rows           |
                               |  searches the live index, the EPG        |
                               |                   Messenger.SenderThread -+-> mail server
                               +-- epgUpdated <- CheckAlertsThread -> DidYouMeanIndexer
```

### Inventory

For each component: the state it keeps, what is done to it, what is hard, and
what makes it correct.

**Index queue** (`L/IndexerQueue`, `LuceneIndexer.shutdown`,
`W/captions/LuceneInitializer`). State: the list of actions, the `stop` flag,
the thread's batch, the open IndexWriter with its write lock. Operations: add an
action (any thread), drain and perform a batch (own thread), stop, unlock at
start. Hard: the monitor is let go of between the drain and the batch; an action
may throw and have its effect all the same; `close` may throw and leaves the lock to the
garbage collector; a killed process leaves it to the next start, which may not free
it. Correct when: actions take effect in order, once, none vanishes, the thread never
sleeps on work, callers and a shutdown are not kept waiting. *Modelled in full.*

**Program index** (`L/LuceneIndexer`, `W/epg/EpgIndexer`). State: one document
per program. Operations: replace it with new captions (servlet threads),
rewrite it when the schedule changed (nightly thread). Hard: both are a
deletion and an addition in two calls, and the second first reads an index that
lags behind its queue, and takes a program it cannot read for a new one. Correct when: no program goes missing and its captions
are the latest. *`addProgram` and `updateProgram` modelled.*

**Caption reading** (`CF/CaptionReaderThread`, `CF/VBIReaderThread`). State: the
program on air as last told by the EPG service, two flags that keep it from
logging the same error twice. Operations: start, sentence, other data, end.
Hard: the EPG service may fail, know nothing, or give an end time of zero.
Correct when: sentences belong to the program they were spoken in and each
showing is announced once, first. *Modelled, without the making of sentences.*

**Event queue** (`CF/CookedQueue`, `CF/Destinations`). State: a bounded queue,
the event in hand, the number of tries, `aborted`. Operations: offer, take,
deliver, give up, abort. Hard: the site is down for hours, a reply is lost, a call
never returns, the queue is full, the thread dies. Correct when: events arrive in order and the
queue keeps moving. *Modelled.*

**Caption collecting** (`W/captions/CaptionListener`, `ProgramCaptions`). State:
one `ProgramCaptions` per channel in a HashMap, two indexes. Operations:
`captureSentence`, `startProgram`. Hard: start events get lost or repeated, the
site restarts in the middle of a showing or before a finished one was indexed, the EPG
service fails between two changes. Correct when: a finished showing is indexed whole, and nothing is
indexed under another program. *Modelled for one channel.*

**Reminders** (`W/alerts/AlertManager`, `PendingAlertThread`, `PendingAlert`,
`CheckAlertsThread`, `W/search/actions/ProgramAlertAction`). State: rows of
`pending_alerts`, the state of the ProgramAlert, the thread's next alert time
and its session. Operations: the user's requests, the nightly check, the thread.
Hard: three transactions interleave, notification and commit are not atomic, the
thread works on objects it read earlier, the site is killed. Correct when: the
user is reminded once, in time, and not of what was switched off. *Modelled for
one program of one user.*

**Message sending** (`W/search/messenger/Messenger`, `MessengerService`,
`W/search/entity/Message`). State: message rows, the open transaction, the block
being sent. Operations: one block every ten seconds, daily deletion. Hard: the
mail server accepts what the transaction then forgets, or its answer is lost; a
transaction that fails stays in the thread; deferral, expiry and
attempts interact. Correct when: a message is sent about once, or expires.
*Modelled in full.*

**Transactions** (`util`, `com/knowbout/hibernate/TransactionManager`): a
thread-local transaction with callbacks after its completion. *Modelled in its
users: callbacks after the commit in `PendingAlerts`, a failed commit that stays
in the thread in `Messenger`.*

**Keyword alerts** (`W/alerts/KeywordAlertThread`, `KeywordAlertChecker`,
`KeywordMatch`, `W/search/actions/KeywordAlertAction`). State: the row of the
alert with its status, its daily limit, its count of the day and the day counted, the matches,
the `epgUpdated` flag, the searcher the thread keeps. Operations: a pass every
two minutes, the nightly EPG update, the user's requests. Hard: a match is
forgotten while the document that caused it may still be indexed; the thread
and a request write whole rows that they read earlier; a flag in memory is reset after
work that took its time; an exception ends the thread for good. Correct when: nobody is told twice of a program, the
daily limit holds, each update is checked. *Modelled for one alert and one
channel.*

**Purging** (`W/captions/DeleteOldProgramsThread`). State: when it wakes next.
Removes old programs from the live index a quarter past and a quarter to the
hour. Hard: it is started by the first caption event only. *Modelled with the
keyword alerts, with which it must agree.*

**Spelling index** (`L/DidYouMeanIndexer`). State: three directories. Operations:
build a new index and swap it in, every night. Hard: each step may fail, and
nothing takes the earlier ones back. Correct when: an index survives, and a
night that comes to its end puts its own in place. *Modelled in full.*

**Remote control page** (`mediacenter/webapp/scripts/fliptv.js`). State: the
current channel, the digits typed so far, the timer, the shift. Operations: keys
and timers. Hard: Enter and the channel keys leave the timer running, and calls of
the movie and the media centre throw between two assignments. Correct when:
digits are applied by the timer of the last of them and do not stay behind.
*Modelled without the layout of the page.*

**Caption store service** (`ccdataweb`): caption files by showing, with a cache
of open documents. *In `CaptionPipeline` as far as a cold start uses it.*

What is left out, and why, is in section 7.

## 2. The modules

| module | models | extends / composes |
| --- | --- | --- |
| `ActionLog` | what an index promises: accept, commit a prefix, discard a run | abstract |
| `IndexerQueue` | `L/IndexerQueue`, shutdown, unlocking at start | implements `ActionLog` |
| `IndexerQueueProofs` | theorems about it, the refinement among them | `IndexerQueue`, `TLAPS` |
| `ProgramIndex` | `LuceneIndexer.addProgram`, `updateProgram` | on top of `IndexerQueue` |
| `ProgramIndexProofs` | theorems about it | `ProgramIndex`, `IndexerQueueProofs` |
| `EventChannel` | what the way of an event to a search site promises: one line, served at its head, runs may be lost | abstract |
| `CaptionEvents` | the events (`cc2nlp`) and the schedule of a channel | |
| `CaptionReader` | `CaptionReaderThread`, `VBIReaderThread` | `CaptionEvents` |
| `CookedQueue` | `CookedQueue` | `CaptionEvents` |
| `CaptionListener` | `CaptionListener`, `ProgramCaptions` | `CaptionEvents` |
| `CaptionPipeline` | the three above, `Destinations`, the caption store | all of them; implements `EventChannel` |
| `CaptionPipelineProofs` | theorems about it, the refinement among them | `CaptionPipeline`, `TLAPS` |
| `PendingAlerts` | reminders, from the request to the message row | |
| `PendingAlertsProofs` | theorems about it | `PendingAlerts`, `TLAPS` |
| `Messenger` | message rows, from the insertion to the mail server | |
| `MessengerProofs` | theorems about it | `Messenger`, `TLAPS` |
| `KeywordAlerts` | the alert thread, the purge of the live index, the EPG update | |
| `KeywordAlertsProofs` | theorems about it | `KeywordAlerts`, `TLAPS` |
| `SpellIndex` | the nightly swap of the spelling index | |
| `SpellIndexProofs` | theorems about it | `SpellIndex`, `TLAPS` |
| `RemoteControl` | digits and their timers | |
| `RemoteControlProofs` | a theorem about it | `RemoteControl`, `TLAPS` |
| `MC...` | the values of function constants and the symmetry | the module named |

Conventions. A thread is a variable that says where it is (`at`, `place`,
`sender`, `reader`), and a step of it is what happens between two points where
another thread may act: the taking or leaving of a monitor, a wait, a call of a
service, the begin or end of a transaction. Fields and methods keep their names.
`Faults` says which failures the environment injects; constants named `Max...`
are bounds of the instance and appear in guards. Variables marked `history` are
written and never read by the model, and exist for the properties. Operators
marked `mutant` are plausible bugs: `PROJECT.json` says which definition each of
them stands in for, and each breaks the property named there.

### IndexerQueue

`at` follows `IndexerQueue.run` and `indexDocuments`: `loop`, `peek`, `drain`,
`enter`, `open`, `create`, `index`, `close` or `unwind` (the `finally` block without and with
an exception), `idle`, `waiting`. An action is the number of its place in the
order of the calls of `addQueueAction`. The monitor is not a variable: only
`indexDocuments` holds it across steps (`MonitorFree`), and there every other
thread waits. `buffered` and `index` are the Lucene writer, modelled from what
the code relies on: `close` makes visible what was buffered, and the writer may
flush earlier (`Flush`). `CreateIndexWriter` is the retry loop without pause or
limit: it is disabled, not failing, while the lock is taken. `PerformFails` is an
IOException of one action, which is skipped; `PerformThrows` is anything else,
which ends the batch. In either case the action at hand may have been buffered before
the exception came from Lucene's own flush: it then takes effect although the code
counts it as failed. `CloseFails` leaves the lock `stuck`; the dropped writer's
finalizer frees it when the garbage collector finds it (`FinalizeWriter`), which nothing
promises. Until then nothing is written, and every caller waits for the monitor.
`Crash` keeps the index and the lock file only, which is then `left`: the next start
frees it if the index exists and unlocking does not throw (`LocksAfterRestart`). An
index that is still to be created (`created`) is not unlocked, and its first writer
removes the lock file it finds (`CreateIndexWriter`).

### ProgramIndex

The calls of `LuceneIndexer` are what a thread does between two calls of the
queue: `AddProgram` and `UpdateProgram` start one, `SendDelete` and `SendAdd` are
the two queued actions. What a program's documents are follows from the order of
the actions in `index` (`Live`). `UpdateProgram` reads the first document of its program; when
the search throws an IOException, which `getProgramDocument` catches, it takes the
program for new (`UpdateMisreads`), and when no searcher can be opened it throws itself
and queues nothing (`UpdateThrows`). `thrown` records which actions were lost to a
Throwable or a failing close, after which calls under way go on, as opposed to a crash,
which ends them; `GivenUp` says that an action of a program was skipped or lost.

### The caption pipeline

Time is counted in half showings, so that "on air" and "on air in two minutes",
the code's `SCHEDULE_VARIANCE`, differ. A showing is its place in the schedule and `Title`
its program id, which reruns share: two showings of one program are the
interesting case for the listener, which compares id and start time. The reader
makes events (`pending`), `OfferPending` offers them one by one, and `Deliver` is
one Hessian call, which runs the whole of `captureSentence` or `startProgram`. The
proxy has no read timeout, so a call may also never return, before or after it was
handled (`TryHangs`).
The exceptions those methods do not catch come back to the sender
(`StartThrows`); those of `captureSentence` are caught there and answered with
`FAILURE`, which the sender treats as a delivery (`CaptureFails`). A cold start gets
from the caption store what `FileWriter` has written of the showing up to the event
at hand (`Stored`), as far as it gets. `programIndex` holds for each program the
document of the last start of the site and those queued since: a restart keeps any one
of them, or none where it falls between a deletion and its addition (`SiteRestarts`).
`interrupted` records the showings that were not collected in one piece: found on a
cold start, lost with the memory of the site (`Forget`), with the queue of its indexer
or in it (`IndexerGivesUp`), or by a `startProgram` that threw after removing them. `endless` records the showings that
the reader took although the EPG service gave their end as zero: such a program is
over at once, and the next sentence announces it anew.

`EventChannel` is what is left of reader, queue and sender when one asks only about
order: `Make` adds to a line what comes later than all before it, `Serve` handles the
first and may keep it, `Lose` takes out any run. `Channel` in `CaptionPipeline` maps
the event in hand, the queue and `pending` to that line.

### PendingAlerts

One ProgramAlert of one user with its rows, and quick reminders ("manual" rows).
A transaction reads in one step (`CreateProgramAlert`, `NightCheck`, ...) and
writes in a later one (`WebCommit`, `NightCommit`); in between, others run. The
web request notifies after its commit; `CheckAlertsThread` runs in a transaction
that is not TransactionManager's, so `checkIfPending` notifies before it. The
thread's loop is `top`, `look`, `test`, `presleep`, `waiting`, `query`, `fire`,
`decide`, `purge`. `presleep` is the gap between the last look and the monitor of
`wait`. `loaded` is the ProgramAlert as Hibernate's session gave it first: within
one batch the thread sees no later change.

### Messenger

`table` holds the committed rows and `memory` the rows as the open transaction
has changed them. Dates are `none`, `later`, `past` and `old` (past the age at
which `deleteOldMessages` removes a row). `stale` is the thread-local transaction
that a failing commit leaves behind. The session is closed all the same, so what
becomes of it depends on Hibernate 3.1.2 (`websites/search/project.xml:485`): after a
commit that the database refused, `rollback` does nothing and the next round clears it
(`over`); after a flush that failed, or a rollback that threw, it asks the closed
session for a connection, throws, and the transaction stays for ever (`closed`).
`ReplyLost` is a message the mail server took although `Transport.send` threw. The window for text messages may come out
in the past because the code computes it with twelve-hour fields.

### KeywordAlerts

A moment is five minutes: the purge (quarter hours), the retention of matches
(thirty minutes), the age at which a program is purged (ten) are whole numbers of
it. A pass takes any number of moments between two of its places, `live` (search the
live index), `liveHits`, `flag` (look at `epgUpdated`), `epg`, `epgHits`, `reset`,
`clear`; that the searcher is reused for two minutes becomes "at the same moment or
the next one". The live index is the program it shows for the channel, behind the
queue of `IndexerQueue` (`queued`, `PerformAction`). `mine` is the row as the session of
the pass loaded it and `edit` as the session of a web request did: Hibernate writes
all columns, so a commit takes back what the other wrote in between: the count, the
status or the limit, which `ChangeLimit` sets. The match and
the count stay in the session when the transaction with the messages is rolled
back (`SendFails`). The purge thread sleeps (`Asleep`) until the first caption event
creates the servlet. `ThreadDies` is an exception outside the handlers of `run`, after
which nobody starts the thread again (`dead`). `epgUpdated` is in memory only: `Crash`
makes an update that waits for its check `forgotten`, as nothing checks at the next
start. The code's way out for an alert without a user
(`W/alerts/KeywordAlertThread.java:253-258`) is left out, since nothing removes a user.

### SpellIndex

`dir` says for each of the three directories whether it is absent, partly there or
holds the index of a night. The deletions take a step for each file, the renames are one
step, `MoveInFails` and `CopyDone` are the copy that replaces a failed rename.
Every step may end the night, by an exception or the end of the process
(`EndEarly`), and the next night starts from what is left.

### RemoteControl

The browser runs one handler at a time; what interleaves are the keys and the
timers. `timers` are those of the browser, and `digitTimer` the page's variable, which
keeps the number of a timer that has run out. `ResyncChannel` and `CancelPending`
call the media centre and the movie, and either may throw: the handler ends there,
with what it has assigned so far.

## 3. What the runs check

| run | states the question | bounds |
| --- | --- | --- |
| `indexer_queue` | order, accounting, sleep, lock, refinement of `ActionLog`, liveness | 4 actions, 2 crashes, all failures |
| `program_index` | two threads replacing and rewriting documents, through crashes, failures and misread programs | 2 threads (symmetric), 2 programs, 3 calls, 4 actions, 1 crash, failing closes, throwing actions, searches that fail |
| `caption_pipeline` | the way of a sentence with the site down, replies lost, a restart or an indexer that gives up, EPG failures; refinement of `EventChannel` | 3 showings of 2 programs, 3 pieces of data, queue of 2, 2 tries, 1 loss of what is in memory, EPG answers "program" and "null", debug logging on |
| `caption_pipeline_live` | is a showing announced once, does the queue keep moving, does an abort end it, whatever the EPG answers | the same, all EPG answers, 2 pieces of data, no loss, with a dying sender, a call that hangs and a disconnect |
| `caption_cold_start` | is what a cold start recovers indexed (violated) | 4 pieces of data, no failures |
| `pending_alerts` | every request of a user against the nightly check, EPG failures and a crash | 1 showing, 3 requests, 3 rows, 1 night, 1 crash |
| `pending_alerts_live` | waking up, shutdown, database failures | 2 showings, 1 request, 1 night |
| `pending_alerts_duplicate` | is a user reminded of a showing once (violated) | 1 showing, 2 requests, no failures |
| `messenger` | one urgent text message with an owner, one without | block of 1, 2 attempts, 1 lost transaction or lost answer |
| `keyword_alerts` | the alert thread against purge, forgetting, EPG update, a request, a failure | 2 programs of half an hour, 35 minutes, limit of 1 that may be raised to 2, a midnight, 1 night, 1 request, 1 failure, dead thread or crash |
| `remote_control` | keys against timers, with throwing calls | 3 digit keys, 5 presses of them, 5 channels |
| `spell_index` | the swap with failures and crashes at every step | 5 nights, any number of failures |

Why the bounds are enough to be interesting. Four actions give a batch being
performed, another queued, one flushed early and one failed at the same time; two
crashes let one follow on a start that did not free the lock.
Three calls on two programs put a call between the halves of another one and
still have a third follow: four actions are two replacements, or a replacement, an
update that takes its program for new and a call that is cut off after its first
action. Three showings of two programs have a rerun directly
after the first showing and a program that follows it; a queue of two is full
while one event is in hand; two tries put a failing try before a delivery and
before a giving up. Three requests are enough to create, delete and add a
quick reminder, or to switch off and on again; three rows let a showing have a
second row and a quick one. A block of one with two messages is the case of
messages that keep others waiting. The clock of the keyword alerts starts five
minutes before the end of the first program and runs until its match has been
forgotten (twelve moments), past its purge at nine and the user's midnight at eight. The
digits 0, 1 and 8 and a list that has one channel twice, one with two readings
under a leading zero and one of three digits reach every branch of `ParseInt`. Five nights
are two early ends, a night that recovers and an early end after it.

Every deadlock check is off: each of these systems may come to rest when its
bound is reached or when it was stopped. That a thread does not sleep when it has
work is stated as a property instead (`SleepsOnlyWhenIdle`, `EveryActionHandled`,
`QueueKeepsMoving`, `DeadlineServesAll`, `EveryMessageSettles`).

### Properties

Index: `AppliedInOrder`, `NothingVanishes`, `LostMeansNotIndexed`,
`SleepsOnlyWhenIdle`, `RestsUnlocked`, `EveryActionHandled`,
`CallersGetIn`, `ShutdownEnds`, and `LogSpec`, the refinement. For it,
`pending` of the abstract log is `buffered \o toIndex \o actionList`: each step of
the thread is a stutter, a commit of a prefix or the discarding of a run of
neighbours. `LostMeansNotIndexed` speaks of `lost` and not of `failed`: an action that
was skipped because Lucene's flush threw is in the index all the same. The three
liveness properties except a lock that stays for ever (`[]Locked`): a dropped writer that
is never collected, or a restart that did not unlock; while it stays, callers and
`shutdown` do wait. A lock that is freed in the end excuses nothing.

Program index: `NeverLeftMissing` holds for every interleaving.
`OneDocumentWithLatestCaptions` holds only for calls that do not overlap and
updates that see a settled index; nothing in the code arranges for that, and with
overlaps TLC shows two documents for one program or captions older than the
latest. It excepts the programs that an update could not read since they were last
replaced (`misread`): they have a second document without captions until the next
`addProgram`. `ReplacedTogether` holds across crashes, which end the half-done call.
Only a deletion of that very call that failed, was thrown away by a Throwable or lost
by a failing close leaves the old document beside the new one: once the lock is free
the indexer goes on with the rest of the call. The other two speak of every
program none of whose own actions was given up (`GivenUp`); what becomes of other
programs does not matter.

Captions: `SpokenOnAir`, `AnnouncedOnce`, `QueuedInOrder`, `CompleteOnceOver`,
`OnlyItsOwnSentences`, `QueueKeepsMoving`, `AbortedSenderEnds`. `AnnouncedOnce`
excepts the showings of which the EPG service knows no end (`endless`), which
`caption_pipeline_live` has, and `CompleteOnceOver` those that were announced more than
once, since each start event clears the captions (no showing of `caption_pipeline` is; with
those that are, this is proved only). `CompleteOnceOver` speaks
of showings collected in one piece from their start event, and of what the program
index shows when the indexer is through: a cold start, a restart (which also loses
what the indexer still had in its queue), an indexer that gives up and
an EPG service that fails in `startProgram` are the only other ways to lose
sentences that were accepted, a lost start event or a repeated delivery is not. The
refinement, `ChannelSpec`, adds that what is lost on the way are whole runs of
neighbours, that only the event in hand is ever handled twice, and that no event is
made up or comes back. `QueueKeepsMoving` and `AbortedSenderEnds` except a sender one of
whose calls never returns (`hung`).

Reminders: `RemindedOnce` (a row makes its message once, through failures and
crashes), `OneUnfiredRow` (presuming that no two transactions overlap),
`OffMeansSilent`, `NotAheadOfTime`, `DeadlineServesAll`, `ExitOutsideWindow`.

Messages: `OnceButForFailures` and `AttemptsBounded` count one extra for each
block whose notes were lost, since the mail server is not part of the
transaction, and the first of them one for each answer of the server that was lost;
`NothingWhileDisabled`; `EveryMessageSettles`, with three exceptions: a message that is
put off, or crowded out by such messages, at the moments in question (`PutOff`,
`Crowded`), a sender that was destroyed, and one that keeps a transaction it can
neither commit nor roll back (`stale = "closed"`), which never sends again.

Keyword alerts: `ToldOnce` speaks of programs that end on the hour or half hour,
while the purge runs and no sentence comes late (see section 4 for the others).
`DailyLimit` compares the messages of the user's day with the highest limit that was in
force on it or that a copy of the row could write back (`highest`): a lowered limit does
not count from when it is saved, because the thread may hold the row and write the old
one again. It allows one more round of alerts for each web request that did write back
an older count (`overwrites`). `EpgUpdateChecked` presumes that no second update comes
during the check, whose reset of the flag would swallow it, that the thread lives and
that the process does: both of the latter are states of the model (`dead`, `forgotten`).

Spelling index: `SomeWholeIndex` after at most one early end; `FoundByDay`.
Remote control: `TimerOfLastDigit` and `DigitsApplied`, unless the movie threw,
in which case the code sets no timer.

### Fairness

`WF(Indexer)`, `WF(SenderStep)`, `WF(Thread)`, `WF(Sender)`: a running Java thread
that can take a step takes one. `SenderStep` has no call that hangs: whether a call
returns is up to the site, so `HangsUnheard` and `HangsHandled` are not in it and may
happen to any call, after which it is disabled. `Thread` of the keyword alerts does not have
`ThreadDies`, `Sender` of the messages is disabled by nothing but its end.
`FinalizeWriter` is not fair: the garbage collector may never come. The same holds for requests and the nightly check
once begun (`WebEnd`, `Night`), for a shutdown that waits (`ShutdownReturns`), and
for the offering of events by the reader.
`WF(Restart)`: a crashed site is started again. `WF(Tick)` and `WF(TimePasses)`:
time passes. `WF(TimeOut)`: the browser's timers run out. Nothing makes a caller
call, a user ask or press a key, a channel talk, a service
answer or a delivery succeed. `caption_pipeline_live` needs no fairness of the deliveries: `WF(SenderStep)` is served
by failing tries as well, and those are bounded.

## 4. Where the code and its words differ

Two runs that TLC ends with a counterexample:

* `caption_cold_start`, `ColdStartRecovers`. The recovery passes the schedule id
  where the start time belongs, so the next sentence seems to be of another
  showing: the recovered captions are indexed, and then replaced by the rest.
* `pending_alerts_duplicate`, `ShowingRemindedOnce`. The `continue` under "found
  matching pending alert" belongs to the inner loop. What keeps a row from being
  added twice is `Set.add`, and a fired row does not equal a new one.

Seen while modelling and not made into runs:

* `stop` is tested at the top of the indexer's loop only. A stop between the test
  and the wait is not noticed, and `LuceneIndexer.shutdown` loops on `isAlive()`
  for ever (`ShutdownEnds` states what does hold).
* A writer whose `close` fails keeps the lock until it is garbage collected, and the start
  after a crash unlocks only an index that exists and only logs an exception of the unlocking
  (`W/captions/LuceneInitializer.java:64-72`). Meanwhile `createIndexWriter` retries
  without a pause, under the monitor every caller needs.
* `getProgramDocument` returns null for a program it could not read
  (`L/LuceneIndexer.java:166-168`): the update adds a second document without captions.
* "This is prone to losing the documents if the server shuts down while documents are
  queued up" (`L/IndexerQueue.java:89-90`): the captions of a finished showing among
  them, which `CaptionListener` has already let go of.
* The proxy of the search site has no read timeout (`CF/CookedQueue.java:53`): one call
  that is never answered ends the sending, and no abort reaches the thread.
* A transaction that failed in its flush stays in the sender thread for ever and every later
  `beginTransaction` throws (`util/src/main/java/com/knowbout/hibernate/TransactionManager.java:104`, where the rollback throws before
  the thread-local is cleared).
* `startProgram` removes the captions before it asks the EPG service for the
  schedule; if that fails they are lost (`StartFails`).
* Three ways for `PendingAlertThread` to sleep past an alert: a quick reminder
  notifies nobody, a notification in the gap before `wait` is lost, and the nightly
  check notifies before its rows are committed.
* "Make sure it has been at least a half hour since the show ended"
  (`W/alerts/KeywordMatch.java:89-93`) is enough for programs that end on the hour or half
  hour only. Others stay in the live index for up to forty minutes after their
  end, and the user is told again: `ToldOnce` without `EndTime[p] % 6 = 0` fails.
* The alert thread and the web requests write whole rows of keyword alerts: a
  request can take back the day's count, and the thread can revive an alert that was
  deleted or disabled meanwhile or take back a new daily limit for good. An EPG
  update during the check is forgotten by `setEpgUpdated(false)`
  (`W/alerts/KeywordAlertThread.java:138`), one that waits for its check by a restart,
  and all of them by a thread that died of an exception (`:172`).
* After two early ends there may be no whole spelling index: the one in `.new` is
  deleted first, and the one in `.old` may have been deleted the night before.
* A program with an end time of zero is dropped, as the message says, only with
  debug logging on and only the first time, because otherwise the report throws
  (`df` is null; `CF/CaptionReaderThread.java:111`). Each sentence is then announced
  anew and a finished showing keeps its last sentence only (`Dropped`, `zeroEnd`).
* `addCompositeProgram` fills one document and queues another, empty one
  (`L/LuceneIndexer.java:132-134`); `consecutiveExceptions` is declared inside the
  loop it is to count over (`W/alerts/PendingAlertThread.java:117`);
  `deleteOldMessages` leaves expired messages with attempts left; the twelve-hour
  field in `W/search/messenger/Messenger.java:171`.

## 5. What is proved

For every value of the constants that satisfies the named ASSUME of the module:
any number of actions, messages, showings, rows, nights and failures, any schedule, any
subset of the kinds of failure.

| module | theorem | property |
| --- | --- | --- |
| `IndexerQueueProofs` | `TypeCorrect` | `TypeOK` |
| | `NoLostWakeup` | `SleepsOnlyWhenIdle` |
| | `EffectsInOrder` | `AppliedInOrder` |
| | `AllAccounted` | `NothingVanishes` |
| | `LostStaysLost` | `LostMeansNotIndexed` |
| | `NoWriterAtRest` | `RestsUnlocked` |
| | `ImplementsLog` | `LogSpec` |
| | `NothingTakenBack` | what the index shows it shows for ever |
| `ProgramIndexProofs` | `LogUnderCalls` | `LogSpec`, under the calls of any threads |
| | `NewReplacesOld` | `ReplacedTogether` |
| | `NothingGoesMissing` | `NeverLeftMissing` |
| | `OneLatestDocument` | `OneDocumentWithLatestCaptions` |
| `CaptionPipelineProofs` | `ShowingAnnouncedOnce` | `AnnouncedOnce` |
| | `SpokenWhileOnAir` | `SpokenOnAir` |
| | `EventsInOrder` | `QueuedInOrder` |
| | `EachItsOwn` | `OnlyItsOwnSentences` |
| | `WholeOnceOver` | `CompleteOnceOver` |
| | `ImplementsChannel` | `ChannelSpec` |
| | `NeverBackwards` | no event is handled after a later one |
| `PendingAlertsProofs` | `AlertsTyped` | `TypeOK` |
| | `OnceForEachRow` | `RemindedOnce` |
| | `NeverTooEarly` | `NotAheadOfTime` |
| | `OneRowToFire` | `OneUnfiredRow` |
| | `SilentWhileOff` | `OffMeansSilent` |
| `MessengerProofs` | `SentOnce` | `OnceButForFailures` |
| | `TriedBounded` | `AttemptsBounded` |
| | `SilentAccount` | `NothingWhileDisabled` |
| | `MessagesTyped` | `MsgTypeOK` |
| `KeywordAlertsProofs` | `LimitHolds` | `DailyLimit` |
| | `NobodyToldTwice` | `ToldOnce` |
| | `FlagKept` | only a check or the end of the process ends an update's wait (`UpdateWaits`) |
| `RemoteControlProofs` | `PauseKept` | `TimerOfLastDigit` |
| `SpellIndexProofs` | `IndexSurvives` | `SomeWholeIndex` |
| | `IndexFound` | `FoundByDay` |

No theorem has an assumption of its own: each is of the form `Spec => ...` and rests
on nothing but the ASSUME of its module, which TLC evaluates in every run. Those
say that bounds are numbers, that a schedule gives each showing a title, that the
value for no message is none of the messages, and the like. Where a kind of
failure does break a property, the property itself names it, so the theorem holds for
any set of failures.

**The index queue.** `SleepsOnlyWhenIdle` is inductive by itself, because the test and
the wait are one step under the monitor and adding leaves `waiting`.
`AppliedInOrder` is not: a new action follows the others only because its number
exceeds every number queued so far. `OrderInv` adds that (`Fresh`). The order
says that `index`, `buffered`, `toIndex`, `actionList` are increasing and that
each precedes the next ones; every step moves a head to an end, joins two
neighbours or empties a sequence, and the lemmas `AppendIncreasing`,
`TailIncreasing`, `ConcatIncreasing` and `ConcatBefore` say that these operations
keep it. `NothingVanishes` alone is inductive, but that actions thrown away stay out of
the index (those of `lost`; one that was skipped may still be there) needs more: `AccountInv` says it of all four sequences, and that an
action leaving one of them as lost is in none of the others follows from the
order (`Separate`, `HeadOnce`). `RestsUnlocked` follows from where a writer can be
open (`WriterInScope`).

The refinement needs the type invariant only, whose last two conjuncts say where
`toIndex` and `buffered` can hold something. `LogStep` has a case for each step that
moves an action: a submission (`AddQueueAction`), stutters (`Drain`,
`PerformAction`), commits (`CommitBuffered`: `Flush`, `CloseWriter`) and discards
(`DiscardMiddle`: the failures and the crash, which all take a middle part out of
`pending`; a skipped action that is already buffered is a stutter). `MiddleDiscarded` and `EndsOfConcat` are the facts about sequences.

**The program index.** Every step is a step of the queue (`StepOfQueue`), so its
invariants hold (`LogUnderCalls`).
`ReplaceInv`: a call that has still to add has queued its deletion, and no crash came
after that (`Prepared`); an addition that was queued has such a deletion before it, and
if a crash took the deletion it took the addition too (`Covered`, `Gone`). The index is
in the order of queueing, so a deletion that is in the index is where it counts; one that
was skipped or thrown away is the exception the property makes.
`MissingInv`: each deletion is followed by an addition or by a thread about to add
(`Followed`), and a last action of a program (`Last`) that is no deletion is seen once all
is performed, since it is neither lost nor skipped while the program is not given up
(`AllIndexed`). `SequentialInv`: if no calls overlapped, at most one is under way,
and every other program has one addition that no deletion follows, with its
latest captions (`Tidy`), unless it was given up or misread (`Excepted`); the call under way carries these captions and its program is
`Cleared` when it is about to add. What `updateProgram` reads from a settled index is
what was queued (`LiveWhenSettled`).

**The caption pipeline.** Four invariants, each resting on those before it.
`ReaderInv`: a showing that was announced is the reader's program or over
(`Announced`), so a new announcement is of a showing that has had none, except one
that was taken without an end.
`LineInv`: the events in `pending`, in the queue and in hand follow one another in
the order of their `Place`, after what is done (`Line`, `Before`); a full queue, a lost
reply and a giving up take events out of the line and put none in. `OwnInv`: an event
on the way (`Waiting`) carries a sentence of its own showing, and so do the captions
in memory and the documents, those queued for the index included (`OwnIndex`).
`WholeInv`: what is collected is all that was accepted, and what was collected before is
whole in the document queued last (`Collected`, `Whole`). Documents that a restart or the
indexer loses (`Lost`) mark their showings `interrupted`. For `Collected`,
nothing still on the way may belong to an earlier showing than what was handled
(`InTurn`, from `Follows` within the line, `Fits` against the listener, and `Reached`
against the schedule), which is where one announcement for each showing is needed.
Showings that need not be collected whole are set apart as `Broken`, which only grows,
and the others are collected as if they were alone.

The refinement of `EventChannel` needs `LineInv`. `ChannelRests` is for steps that hand
an event on, `ChannelMakes` for what the reader adds (`ReaderMakes`: later than all
before, in order), `ChannelServes` for a call that was answered or whose reply was
lost, and `ChannelLoses` for the rest: a full queue drops what is in the middle, a
giving up or a dying sender the first one, an abort all but what is still to be
offered. `NeverBackwards` says what the site sees of it.

**Reminders.** `AlertsTyped` needs `TypeInv`: what the thread's loop holds is there only in
its scope (`ScopeOK`), a transaction keeps the number of rows finite and within its
bound when it commits (`BoundsOK`), and no row, transaction or copy of the reminder is
older than the reminder (`NotBeforeCreated`).
`RemindedOnce` needs that a row which made its message is no longer
among the rows to fire (`RemindedOK`), that the rows of a batch have made none
(`BatchOK`), and that the row at hand is one of the batch (`FoundOK`). `OneUnfiredRow`
needs that what an open transaction is to add is still missing, unless two of
them overlapped (`OverlapOK`). `OffMeansSilent` needs that while the alert is off the
session of the thread holds no status that says otherwise (`OffOK`).

**Messages.** The counts of the mail server are history, and the rows in memory and in
the table are what the code knows of it: `Kept` bounds the first by the rows in
memory, `Stands` by those in the table, with one more for a message that the open
block has already taken. A block whose notes are lost goes back from the one to
the other, and `failures` grows by one; an answer that is lost leaves its message
unsent in memory, and `unsure` grows by one.

**Keyword alerts.** `LimitInv`: no copy of the row that may still be written has a limit
or a count of the day above `highest` (`RowsOK`), and the messages of the day are in the
count of the row and of the thread's copy, but for `highest` for each of the `overwrites`
(`CountedIn`). An open edit need not count them all: if its commit takes
something from the row's count, `overwrites` grows by one. `ToldInv`: the next purge is within
a quarter of an hour of every hour and half hour (`Soon`), so a program on the half hour is out of the
live index, or its deletion queued, fifteen minutes after its end (`OutInTime`);
no searcher shows it five minutes later, and its match is kept until then
(`Remembered`). `OwedInv`: as long as an update waits for its check its flag is set and
no check is under way, which could reset it. `UpdateWaits` names the two steps that end the
wait, the beginning of a check and `Crash`. This is the safety half of
`EpgUpdateChecked`.

**Remote control.** Inductive with one fact more: the one timer that may be running is
the one `digitTimer` names (`OneTimer`).

**Spelling index.** After at most one early end the old or the current directory is whole until
the new one is (`Kept`, `Built`); with none, the current one is except during
the swap (`InUse`, `Fresh`).

Only model-checked: the liveness properties (`EveryActionHandled`, `CallersGetIn`,
`ShutdownEnds`, `QueueKeepsMoving`, `AbortedSenderEnds`, `DeadlineServesAll`,
`ExitOutsideWindow`, `EveryMessageSettles`, `EpgUpdateChecked`, `DigitsApplied`), since
fairness and ENABLED are out of the prover's reach. Where such a property rests on a
safety fact, that fact is proved: `SleepsOnlyWhenIdle` and `RestsUnlocked` under the
first two, `AttemptsBounded` under `EveryMessageSettles`, `UpdateWaits` under
`EpgUpdateChecked`, `TimerOfLastDigit` under `DigitsApplied`. No module uses RECURSIVE.

## 6. What could follow

1. A second channel in `PendingAlerts`, for `PendingAlert.equals`, which takes two
   new rows on different channels for one.
2. Runs for the disagreements of section 4 that have none.
3. An abstract specification of the reminders, a message box that gets one message for
   each row, implemented by `PendingAlerts`; and the same of `Messenger`.
4. `FileWriter` with its appending, composed with `CaptionReader` and a crash of the
   capture machine, in place of `Stored`.

## 7. Not modelled

`PROJECT.json` lists every component with its files. The reasons:

* **Bytes and text**: caption decoding (`cc4j`) and the sentence buffer of
  `CaptionReaderThread`, analyzers, parser and document layout, velocity. Their
  state is the place in a string; the models begin with a sentence.
* **Raw captions, files, capture set-up** (`CF/RawQueue`, `FileWriter`, `FileReaderThread`,
  `PreviewThread`, `TVThread`): a pipe of triples that drops what does not fit and
  says so, one thread that writes files in order, and external processes.
* **Caches and paging** (`util` `ActiveCache`, `W/epg/DefaultEpg`, the document cache of
  `ccdataweb`, `W/search/util/ChunkedResults`): what they can do to their users, fail or
  answer late, the models allow the services themselves.
* **Other services**: the EPG service and loader (parsing of third-party files and
  SQL) and the amazon catalogue; they appear, where they matter, as services that may fail
  and whose answers change.
* **Web pages, entities, configuration, small tools**: handlers that read and format,
  plain data and input. Those that change alerts are actions of `PendingAlerts` and
  `KeywordAlerts`.
* **Earlier products and third parties**: keyword analysis, red5, showfiles. Most lines
  of JavaScript in the repository are copies of the YahooUI library under
  `ccdataweb` and `showfiles`; they are not this system's code, and `map` names none.
