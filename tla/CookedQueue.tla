----------------------------- MODULE CookedQueue -----------------------------
(***************************************************************************)
(* com.appeligo.channelfeed.work.CookedQueue: the bounded queue and the    *)
(* thread between the captions of one channel and one search site.  The    *)
(* thread takes an event, tries to deliver it a number of times and, when  *)
(* every try failed, drops it with everything that is queued.              *)
(***************************************************************************)
EXTENDS CaptionEvents

CONSTANTS Capacity,      \* of the LinkedBlockingQueue, 1000 in the code
          Retries        \* tries of a delivery, 10 in the code

ASSUME CookedQueueAssumption == Capacity \in Nat \ {0} /\ Retries \in Nat \ {0}

VARIABLES
    sendQueue,
    sender,       \* where the thread is, see SenderPlaces
    toSend,       \* the event it has taken, NoEvent for null
    tries,        \* deliveries of it that failed
    hung,         \* the call that is being made will never return
    aborted,      \* CookedQueue.aborted
    done          \* history: Place of the last event delivered

queueVars == <<sendQueue, sender, toSend, tries, hung, aborted, done>>

SenderPlaces == {"test",      \* while (!aborted)
                 "take",      \* sendQueue.take()
                 "send",      \* in the loop over the tries
                 "ended",     \* run() has returned
                 "dead"}      \* run() has caught a Throwable: sendQueue = null

QueueInit ==
    /\ sendQueue = <<>> /\ sender = "test" /\ toSend = NoEvent
    /\ tries = 0 /\ hung = FALSE /\ aborted = FALSE /\ done = 0

Step(from, to) == sender = from /\ sender' = to

\* offer: false when the queue is full or null; the caller only logs that.
Offer(e) ==
    /\ sendQueue' = IF Len(sendQueue) < Capacity /\ sender # "dead"
                    THEN Append(sendQueue, e) ELSE sendQueue
    /\ UNCHANGED <<sender, toSend, tries, hung, aborted, done>>

\* Destinations.disconnect
SetAborted ==
    /\ aborted' = TRUE
    /\ UNCHANGED <<sendQueue, sender, toSend, tries, hung, done>>

AbortNotTested ==           \* mutant: while (true)
    /\ Step("test", "take")
    /\ UNCHANGED <<sendQueue, toSend, tries, hung, aborted, done>>

TestAborted ==
    /\ Step("test", IF aborted THEN "ended" ELSE "take")
    /\ UNCHANGED <<sendQueue, toSend, tries, hung, aborted, done>>

TakeNewest ==               \* mutant: the queue is used as a stack
    /\ sendQueue # <<>>
    /\ Step("take", "send")
    /\ toSend' = sendQueue[Len(sendQueue)]
    /\ sendQueue' = SubSeq(sendQueue, 1, Len(sendQueue) - 1)
    /\ tries' = 0
    /\ UNCHANGED <<hung, aborted, done>>

\* The thread waits in take() for an event; aborted does not wake it.
Take ==
    /\ sendQueue # <<>>
    /\ Step("take", "send")
    /\ toSend' = Head(sendQueue) /\ sendQueue' = Tail(sendQueue)
    /\ tries' = 0
    /\ UNCHANGED <<hung, aborted, done>>

Trying == sender = "send" /\ tries < Retries /\ ~hung

\* The call returns a status, SUCCESS or FAILURE alike.
TrySucceeds ==
    /\ Trying /\ sender' = "test"
    /\ toSend' = NoEvent /\ tries' = 0 /\ done' = Place(toSend)
    /\ UNCHANGED <<sendQueue, hung, aborted>>

TryAgainLater ==            \* mutant: the event goes to the end of the queue
    /\ Trying /\ sender' = "test"
    /\ sendQueue' = Append(sendQueue, toSend)
    /\ toSend' = NoEvent /\ tries' = 0
    /\ UNCHANGED <<hung, aborted, done>>

\* The call throws; a second later it is made again.
TryFails ==
    /\ Trying /\ tries' = tries + 1
    /\ UNCHANGED <<sendQueue, sender, toSend, hung, aborted, done>>

\* The search site did what it was asked and the caller saw an exception.
TryFailsAfterwards ==
    /\ Trying /\ tries' = tries + 1
    /\ done' = Place(toSend)
    /\ UNCHANGED <<sendQueue, sender, toSend, hung, aborted>>

\* The HessianProxyFactory is given no read timeout: when the site accepts the
\* call and never answers, before or after it did what it was asked, the
\* thread waits for ever.
TryHangs(handled) ==
    /\ "hang" \in Faults
    /\ Trying /\ hung' = TRUE
    /\ done' = IF handled THEN Place(toSend) ELSE done
    /\ UNCHANGED <<sendQueue, sender, toSend, tries, aborted>>

GiveUpNever ==              \* mutant: retry until it works
    /\ sender = "send" /\ tries = Retries
    /\ tries' = 0
    /\ UNCHANGED <<sendQueue, sender, toSend, hung, aborted, done>>

\* status == null: sendQueue.clear().
GiveUp ==
    /\ sender = "send" /\ tries = Retries /\ sender' = "test"
    /\ sendQueue' = <<>> /\ toSend' = NoEvent /\ tries' = 0
    /\ UNCHANGED <<hung, aborted, done>>

\* A Throwable outside the tries: sendQueue = null.
SenderDies ==
    /\ "fatal" \in Faults
    /\ sender \notin {"ended", "dead"} /\ ~hung /\ sender' = "dead"
    /\ sendQueue' = <<>> /\ toSend' = NoEvent /\ tries' = 0
    /\ UNCHANGED <<hung, aborted, done>>

-----------------------------------------------------------------------------
(* Properties.                                                             *)

\* The events reach the search site in the order in which they were made, and
\* one comes a second time only when its reply was lost, before any later one:
\* the sender is through with an event before it takes the next.
QueuedInOrder ==
    /\ \A i, j \in 1..Len(sendQueue) :
          i < j => Place(sendQueue[i]) < Place(sendQueue[j])
    /\ sender = "send" => /\ done <= Place(toSend)
                          /\ \A i \in 1..Len(sendQueue) :
                                Place(toSend) < Place(sendQueue[i])
    /\ \A i \in 1..Len(sendQueue) : done < Place(sendQueue[i])

Queued(n) == \E i \in 1..Len(sendQueue) : Place(sendQueue[i]) = n

SenderGone == sender \in {"ended", "dead"}

\* No event stays in the queue for ever while the sender lives, search site or
\* no search site: after its tries the sender gives up.  One call that never
\* returns is enough to hold the queue for ever.
QueueKeepsMoving ==
    \A n \in 0..9 : Queued(n) ~> (~Queued(n) \/ SenderGone \/ hung)

\* A sender that is told to stop ends, provided it has something to do and all
\* its calls return: the flag is tested between two events only.
AbortedSenderEnds ==
    (aborted /\ (sender \in {"test", "send"} \/ sendQueue # <<>>)) ~>
        (SenderGone \/ hung)
=============================================================================
