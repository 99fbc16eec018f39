---------------------------- MODULE IndexerQueue -----------------------------
(***************************************************************************)
(* com.appeligo.lucene.IndexerQueue: the thread that owns one Lucene index *)
(* of the search site.  Any thread may add an action (a document to add, a *)
(* term to delete by, an optimization); the indexer thread takes all the   *)
(* queued actions at once, opens an IndexWriter, performs them in order    *)
(* and closes the writer.  LuceneIndexer.shutdown stops the thread and     *)
(* waits for it; LuceneInitializer unlocks the index when the web          *)
(* application starts again after a crash.                                 *)
(*                                                                         *)
(* An action is the number of its place in the order of the calls of       *)
(* addQueueAction.  The monitor of the queue object is not a variable: it  *)
(* is held across steps only by the indexer, in indexDocuments.            *)
(*                                                                         *)
(* IndexerQueue.stop and actionList.isEmpty() at the top of the loop are   *)
(* read without the monitor.  A stale read returns what an earlier read    *)
(* would have returned since the thread last released the monitor, so the  *)
(* interleavings of CheckStop and Peek below already include it.           *)
(***************************************************************************)
EXTENDS Naturals, Sequences, FiniteSets

CONSTANTS MaxActions,    \* bound: calls of addDocument, deleteDocuments, ...
          MaxCrashes,    \* bound: crashes of the Java virtual machine
          Faults         \* which failures the environment injects

FaultKinds == {"io",         \* performAction throws IOException
               "throwable",  \* performAction or optimize throws anything else
               "close",      \* IndexWriter.close throws
               "crash",      \* the virtual machine is killed
               "unlock",     \* IndexReader.unlock throws at the start
               "read"}       \* a searcher throws IOException

ASSUME QueueAssumption == /\ MaxActions \in Nat
                          /\ MaxCrashes \in Nat
                          /\ Faults \subseteq FaultKinds

VARIABLES
    at,           \* where the indexer thread is, see Places
    stop,         \* IndexerQueue.stop
    actionList,   \* IndexerQueue.actionList
    toIndex,      \* the drained actions not yet performed
    buffered,     \* performed by the open IndexWriter, not yet in the index
    index,        \* in the index, visible to a searcher opened now
    writeLock,    \* Lucene's lock file in the index directory, see LockStates
    created,      \* the index exists: its first segments file was written
    shutdown,     \* where LuceneIndexer.shutdown is: "no", "waiting", "done"
    sent,         \* number of actions queued so far
    failed,       \* actions skipped because of an IOException
    lost,         \* actions thrown away by a Throwable, a failing close
                  \* or a crash
    crashes       \* number of crashes so far

vars == <<at, stop, actionList, toIndex, buffered, index, writeLock,
          created, shutdown, sent, failed, lost, crashes>>

Places == {"loop",      \* while (!stop)
           "peek",      \* if (!actionList.isEmpty())
           "drain",     \* synchronized: toIndex.addAll; actionList.clear
           "enter",     \* calling the synchronized indexDocuments
           "open",      \* in createIndexWriter, retrying new IndexWriter
           "create",    \* there too, has the lock and writes an empty index
           "index",     \* in the for loop over the actions
           "close",     \* finally indexWriter.close(), no exception pending
           "unwind",    \* finally indexWriter.close(), an exception pending
           "idle",      \* synchronized: if (actionList.isEmpty())
           "waiting",   \* in wait()
           "stopped",   \* run() has returned
           "down"}      \* the virtual machine is down

LockStates == {"free",    \* there is no lock file
               "held",    \* by the writer of indexDocuments
               "stuck",   \* by a writer dropped when its close failed
               "left"}    \* by nobody: its virtual machine is dead

Ids == 1..MaxActions

SeqSet(s) == {s[i] : i \in 1..Len(s)}

\* indexDocuments is synchronized: from its start to its end the indexer
\* thread holds the monitor of the queue, createIndexWriter's retries included.
MonitorFree ==
    at \notin {"open", "create", "index", "close", "unwind", "down"}

Init ==
    /\ at = "loop"
    /\ stop = FALSE
    /\ actionList = <<>> /\ toIndex = <<>> /\ buffered = <<>> /\ index = <<>>
    /\ writeLock = "free" /\ created \in BOOLEAN
    /\ shutdown = "no"
    /\ sent = 0 /\ failed = {} /\ lost = {} /\ crashes = 0

-----------------------------------------------------------------------------
(* Threads that use the queue.                                             *)

NotifyAllMissing == at      \* mutant: an add that forgets to notify

\* notifyAll(): the indexer leaves wait() and goes round its loop.
NotifyAll == IF at = "waiting" THEN "loop" ELSE at

\* addDocument, deleteDocuments and addQueueAction.
AddQueueAction ==
    /\ MonitorFree
    /\ sent < MaxActions
    /\ sent' = sent + 1
    /\ actionList' = Append(actionList, sent + 1)
    /\ at' = NotifyAll
    /\ UNCHANGED <<stop, toIndex, buffered, index, writeLock, created,
                   shutdown, failed, lost, crashes>>

\* LuceneIndexer.shutdown up to its loop: stopIndexing under the monitor.
StopIndexing ==
    /\ MonitorFree
    /\ shutdown = "no"
    /\ shutdown' = "waiting"
    /\ stop' = TRUE
    /\ at' = NotifyAll
    /\ UNCHANGED <<actionList, toIndex, buffered, index, writeLock, created,
                   sent, failed, lost, crashes>>

\* The loop of LuceneIndexer.shutdown ends once queue.isAlive() is false.
ShutdownReturns ==
    /\ shutdown = "waiting" /\ at = "stopped"
    /\ shutdown' = "done"
    /\ UNCHANGED <<at, stop, actionList, toIndex, buffered, index, writeLock,
                   created, sent, failed, lost, crashes>>

-----------------------------------------------------------------------------
(* The indexer thread, IndexerQueue.run.                                   *)

Goto(from, to) == at = from /\ at' = to

CheckStopIgnored ==         \* mutant: while (true)
    /\ Goto("loop", "peek")
    /\ UNCHANGED <<stop, actionList, toIndex, buffered, index, writeLock,
                   created, shutdown, sent, failed, lost, crashes>>

CheckStop ==
    /\ Goto("loop", IF stop THEN "stopped" ELSE "peek")
    /\ UNCHANGED <<stop, actionList, toIndex, buffered, index, writeLock,
                   created, shutdown, sent, failed, lost, crashes>>

Peek ==
    /\ Goto("peek", IF actionList = <<>> THEN "idle" ELSE "drain")
    /\ UNCHANGED <<stop, actionList, toIndex, buffered, index, writeLock,
                   created, shutdown, sent, failed, lost, crashes>>

DrainAllButLast ==          \* mutant: an off-by-one in the copy of the list
    /\ Goto("drain", "enter")
    /\ toIndex' = SubSeq(actionList, 1, Len(actionList) - 1)
    /\ actionList' = <<>>
    /\ UNCHANGED <<stop, buffered, index, writeLock, created, shutdown, sent,
                   failed, lost, crashes>>

DrainWithoutClear ==        \* mutant: the list is copied and not cleared
    /\ Goto("drain", "enter")
    /\ toIndex' = actionList
    /\ UNCHANGED <<stop, actionList, buffered, index, writeLock, created,
                   shutdown, sent, failed, lost, crashes>>

\* Empties the queue under the monitor and lets go of it.
Drain ==
    /\ Goto("drain", "enter")
    /\ toIndex' = actionList
    /\ actionList' = <<>>
    /\ UNCHANGED <<stop, buffered, index, writeLock, created, shutdown, sent,
                   failed, lost, crashes>>

\* The call of indexDocuments takes the monitor again.
EnterIndexDocuments ==
    /\ Goto("enter", "open")
    /\ UNCHANGED <<stop, actionList, toIndex, buffered, index, writeLock,
                   created, shutdown, sent, failed, lost, crashes>>

\* createIndexWriter: new IndexWriter takes the write lock.  While the lock is
\* taken or the directory cannot be used it fails and the loop tries again,
\* with no pause and no limit: the thread stays where it is.  Only a writer
\* that has an index to create clears a lock file it finds.
CreateIndexWriter ==
    /\ writeLock = "free" \/ (writeLock = "left" /\ ~created)
    /\ Goto("open", IF created THEN "index" ELSE "create")
    /\ writeLock' = "held"
    /\ UNCHANGED <<stop, actionList, toIndex, buffered, index, created,
                   shutdown, sent, failed, lost, crashes>>

\* The lock comes first, the segments file that makes the index exist later.
CreateIndex ==
    /\ Goto("create", "index")
    /\ created' = TRUE
    /\ UNCHANGED <<stop, actionList, toIndex, buffered, index, writeLock,
                   shutdown, sent, failed, lost, crashes>>

PerformNewestFirst ==       \* mutant: the batch is taken from its end
    /\ toIndex # <<>>
    /\ Goto("index", "index")
    /\ buffered' = Append(buffered, toIndex[Len(toIndex)])
    /\ toIndex' = SubSeq(toIndex, 1, Len(toIndex) - 1)
    /\ UNCHANGED <<stop, actionList, index, writeLock, created, shutdown, sent,
                   failed, lost, crashes>>

PerformAction ==
    /\ toIndex # <<>>
    /\ Goto("index", "index")
    /\ buffered' = Append(buffered, Head(toIndex))
    /\ toIndex' = Tail(toIndex)
    /\ UNCHANGED <<stop, actionList, index, writeLock, created, shutdown, sent,
                   failed, lost, crashes>>

\* catch (IOException e): the action is logged and skipped.  Lucene buffers a
\* document or a deletion first and flushes then: the exception of the flush
\* comes from an action that takes effect all the same.
PerformFails ==
    /\ "io" \in Faults
    /\ toIndex # <<>>
    /\ Goto("index", "index")
    /\ failed' = failed \union {Head(toIndex)}
    /\ buffered' \in {buffered, Append(buffered, Head(toIndex))}
    /\ toIndex' = Tail(toIndex)
    /\ UNCHANGED <<stop, actionList, index, writeLock, created, shutdown,
                   sent, lost, crashes>>

PerformThrowsKeeps ==       \* mutant: the batch outlives the exception
    /\ "throwable" \in Faults
    /\ Goto("index", "unwind")
    /\ UNCHANGED <<stop, actionList, toIndex, buffered, index, writeLock,
                   created, shutdown, sent, failed, lost, crashes>>

\* Anything but an IOException leaves the loop: the rest of the batch is gone,
\* but the action that threw it may be in the writer.
PerformThrows ==
    /\ "throwable" \in Faults
    /\ Goto("index", "unwind")
    /\ \/ buffered' = buffered /\ lost' = lost \union SeqSet(toIndex)
       \/ /\ toIndex # <<>>
          /\ buffered' = Append(buffered, Head(toIndex))
          /\ lost' = lost \union SeqSet(Tail(toIndex))
    /\ toIndex' = <<>>
    /\ UNCHANGED <<stop, actionList, index, writeLock, created, shutdown,
                   sent, failed, crashes>>

\* The batch is through; optimize, when it is due, changes no document.
FinishBatch ==
    /\ toIndex = <<>>
    /\ Goto("index", "close")
    /\ UNCHANGED <<stop, actionList, toIndex, buffered, index, writeLock,
                   created, shutdown, sent, failed, lost, crashes>>

\* External: the writer flushes by itself when its buffers are full, and close
\* flushes before it frees the lock and may yet fail.
Flush ==
    /\ at \in {"index", "close", "unwind"} /\ buffered # <<>>
    /\ index' = index \o buffered
    /\ buffered' = <<>>
    /\ UNCHANGED <<at, stop, actionList, toIndex, writeLock, created, shutdown,
                   sent, failed, lost, crashes>>

CloseUnlessThrown ==        \* mutant: close() is not in a finally block
    \/ /\ Goto("close", "idle")
       /\ index' = index \o buffered
       /\ buffered' = <<>>
       /\ writeLock' = "free"
       /\ UNCHANGED <<stop, actionList, toIndex, shutdown, sent, failed, lost,
                      crashes, created>>
    \/ /\ Goto("unwind", "loop")
       /\ buffered' = <<>>
       /\ lost' = lost \union SeqSet(buffered)
       /\ UNCHANGED <<stop, actionList, toIndex, index, writeLock, created,
                      shutdown, sent, failed, crashes>>

\* indexWriter.close(): what is buffered becomes visible, the lock is freed.
\* A pending exception goes on to the catch of run(), past the wait.
CloseWriter ==
    /\ \/ Goto("close", "idle")
       \/ Goto("unwind", "loop")
    /\ index' = index \o buffered
    /\ buffered' = <<>>
    /\ writeLock' = "free"
    /\ UNCHANGED <<stop, actionList, toIndex, shutdown, sent, failed, lost,
                   crashes, created>>

CloseFailsReused ==         \* mutant: the writer serves the next batch
    /\ "close" \in Faults
    /\ at \in {"close", "unwind"}
    /\ at' = "loop"
    /\ lost' = lost \union SeqSet(buffered)
    /\ writeLock' = "stuck"
    /\ UNCHANGED <<stop, actionList, toIndex, buffered, index, created,
                   shutdown, sent, failed, crashes>>

\* close() throws before it could release the lock.
CloseFails ==
    /\ "close" \in Faults
    /\ at \in {"close", "unwind"}
    /\ at' = "loop"
    /\ lost' = lost \union SeqSet(buffered)
    /\ buffered' = <<>>
    /\ writeLock' = "stuck"
    /\ UNCHANGED <<stop, actionList, toIndex, index, created, shutdown, sent,
                   failed, crashes>>

\* External: the garbage collector may find the dropped writer, sooner, later
\* or never; IndexWriter.finalize frees the lock.
FinalizeWriter ==
    /\ writeLock = "stuck"
    /\ writeLock' = "free"
    /\ UNCHANGED <<at, stop, actionList, toIndex, buffered, index, created,
                   shutdown, sent, failed, lost, crashes>>

MayWaitUntested == TRUE     \* mutant: wait() without testing the queue

\* The test of the queue and the wait are under one hold of the monitor.
MayWait == actionList = <<>>

WaitForAction ==
    /\ Goto("idle", IF MayWait THEN "waiting" ELSE "loop")
    /\ UNCHANGED <<stop, actionList, toIndex, buffered, index, writeLock,
                   created, shutdown, sent, failed, lost, crashes>>

\* Object.wait may return without a notification.
SpuriousWakeup ==
    /\ Goto("waiting", "loop")
    /\ UNCHANGED <<stop, actionList, toIndex, buffered, index, writeLock,
                   created, shutdown, sent, failed, lost, crashes>>

-----------------------------------------------------------------------------
(* The virtual machine.                                                    *)

\* Everything in memory is gone; a lock file stays.
Crash ==
    /\ "crash" \in Faults
    /\ crashes < MaxCrashes /\ crashes' = crashes + 1
    /\ at # "down" /\ at' = "down"
    /\ lost' = lost \union SeqSet(buffered) \union SeqSet(toIndex)
                    \union SeqSet(actionList)
    /\ actionList' = <<>> /\ toIndex' = <<>> /\ buffered' = <<>>
    /\ stop' = FALSE /\ shutdown' = "no"
    /\ writeLock' = IF writeLock = "free" THEN "free" ELSE "left"
    /\ UNCHANGED <<index, created, sent, failed>>

\* LuceneInitializer.unlockIndex: only an index that exists is unlocked, and
\* an exception is only logged.
LocksAfterRestart ==
    IF ~created THEN {writeLock}
    ELSE {"free"} \union IF "unlock" \in Faults THEN {writeLock} ELSE {}

\* LuceneInitializer.contextInitialized unlocks the index, and the first use
\* of the index creates its LuceneIndexer, which starts a new thread.
Restart ==
    /\ Goto("down", "loop")
    /\ writeLock' \in LocksAfterRestart
    /\ UNCHANGED <<stop, actionList, toIndex, buffered, index, created,
                   shutdown, sent, failed, lost, crashes>>

-----------------------------------------------------------------------------
Indexer == \/ CheckStop \/ Peek \/ Drain
           \/ EnterIndexDocuments \/ CreateIndexWriter \/ CreateIndex
           \/ PerformAction \/ PerformFails \/ PerformThrows \/ FinishBatch
           \/ Flush \/ CloseWriter \/ CloseFails \/ WaitForAction

Next == \/ AddQueueAction \/ StopIndexing \/ ShutdownReturns
        \/ Indexer \/ SpuriousWakeup \/ FinalizeWriter
        \/ Crash \/ Restart

Spec == Init /\ [][Next]_vars

\* The indexer is a running Java thread; a crashed site is started again.
FairSpec == Spec /\ WF_vars(Indexer) /\ WF_vars(ShutdownReturns)
                 /\ WF_vars(Restart)

-----------------------------------------------------------------------------
(* Properties.                                                             *)

\* Every variable holds a value of its type, and the local variables of run
\* and indexDocuments hold something only where they are in scope.
TypeOK ==
    /\ at \in Places /\ stop \in BOOLEAN
    /\ writeLock \in LockStates /\ created \in BOOLEAN
    /\ shutdown \in {"no", "waiting", "done"}
    /\ actionList \in Seq(Ids) /\ toIndex \in Seq(Ids)
    /\ buffered \in Seq(Ids) /\ index \in Seq(Ids)
    /\ sent \in 0..MaxActions /\ crashes \in 0..MaxCrashes
    /\ failed \subseteq Ids /\ lost \subseteq Ids
    /\ toIndex # <<>> => at \in {"enter", "open", "create", "index"}
    /\ buffered # <<>> => at \in {"index", "close", "unwind"}

Increasing(s) == \A i, j \in 1..Len(s) : i < j => s[i] < s[j]

Before(s, t) == \A i \in 1..Len(s), j \in 1..Len(t) : s[i] < t[j]

\* Actions take effect in the order in which they were queued and none takes
\* effect twice, whatever fails on the way: what the index shows is older
\* than what the writer buffers, that is older than the rest of the batch,
\* and that is older than the queue.
AppliedInOrder ==
    /\ Increasing(index) /\ Increasing(buffered)
    /\ Increasing(toIndex) /\ Increasing(actionList)
    /\ Before(index, buffered) /\ Before(index, toIndex)
    /\ Before(index, actionList) /\ Before(buffered, toIndex)
    /\ Before(buffered, actionList) /\ Before(toIndex, actionList)

\* No action vanishes without a trace: each one ever queued is queued, in the
\* batch, in the writer or in the index, or a failure accounts for it.
NothingVanishes ==
    1..sent = SeqSet(actionList) \union SeqSet(toIndex)
                \union SeqSet(buffered) \union SeqSet(index)
                \union failed \union lost

\* What the rest of a batch, a failing close or a crash lost stays lost: no
\* later batch and no later writer puts it into the index after all.  Of a
\* skipped action that cannot be said, see PerformFails.
LostMeansNotIndexed == SeqSet(index) \intersect lost = {}

\* The indexer never sleeps on a queue that holds work: queueing and the
\* test before wait() are under the same monitor, so no notification of an
\* action is lost.
SleepsOnlyWhenIdle == at = "waiting" => actionList = <<>>

\* A thread that sleeps or has ended left no writer open, whatever the actions
\* threw: the finally block covers every way out of indexDocuments.  Only a
\* close that failed itself leaves the lock behind.
RestsUnlocked == at \in {"waiting", "stopped"} => writeLock # "held"

\* The lock file of a writer nobody uses any more.
Locked == writeLock \in {"stuck", "left"}

\* Every queued action is dealt with, provided the indexer is not stopped and
\* no dropped or dead writer's lock stays for ever, which nothing in this code
\* removes before the next restart, if then.
EveryActionHandled ==
    \A a \in Ids : a \in SeqSet(actionList)
        ~> (a \notin SeqSet(actionList) \/ stop \/ []Locked)

\* A thread that wants to use the queue gets its turn: whatever the actions
\* threw, indexDocuments ends and lets go of the monitor.  The exception is
\* the retry of createIndexWriter, which holds it as long as an abandoned lock
\* is there, for ever if that stays for ever.
CallersGetIn == ~MonitorFree ~> (MonitorFree \/ []Locked)

\* A shutdown comes back, whatever the indexer was doing when it was told to
\* stop and whatever then fails.  What may hold it for ever is an abandoned
\* lock, or an indexer that had tested stop before it was set, went to sleep
\* after the notification and is given no more work.
ShutdownEnds ==
    shutdown = "waiting"
        ~> \/ shutdown # "waiting"
           \/ [](at = "waiting" /\ actionList = <<>>)
           \/ []Locked

\* The abstract log.  Its pending actions are those of the writer, of the
\* batch and of the queue, in that order.
Log == INSTANCE ActionLog WITH submitted <- sent,
                               pending <- buffered \o toIndex \o actionList,
                               applied <- index

LogSpec == Log!Spec
=============================================================================
