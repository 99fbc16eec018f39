------------------------------ MODULE Messenger ------------------------------
(***************************************************************************)
(* com.appeligo.search.messenger: the thread that sends what other threads *)
(* of the search site put into the table message.  Every ten seconds it    *)
(* opens a transaction, takes a block of unsent messages, hands each one   *)
(* to the mail server and notes the outcome in memory; the transaction     *)
(* commits all the notes together, or loses them together.                 *)
(*                                                                         *)
(* Dates are abstract: a date is "none", "later" than now, "past", or      *)
(* "old" when it is past by the days after which messages are deleted.     *)
(* One user owns all the messages that have a user.                        *)
(***************************************************************************)
EXTENDS Naturals, FiniteSets

CONSTANTS Messages,
          Urgent,        \* messages of priority 1, the others have 2
          Sms,           \* messages that are text messages
          Owned,         \* messages that have a user
          MaxSendBlock,  \* messages per transaction
          MaxAttempts,
          MaxFailures,   \* bound: transactions that come to nothing and answers
                         \* of the mail server that are lost
          Faults         \* which failures the environment injects

FaultKinds == {"smtp",      \* the mail server refuses a message
               "reply",     \* it accepts one, and its answer is lost
               "load",      \* a user cannot be loaded or a row saved
               "commit",    \* the commit fails
               "crash",     \* the site is killed
               "destroy"}   \* the servlet is destroyed

NoMessage == "none"

ASSUME MessengerAssumption ==
    /\ NoMessage \notin Messages
    /\ Urgent \subseteq Messages /\ Sms \subseteq Messages
    /\ Owned \subseteq Messages
    /\ MaxSendBlock \in Nat \ {0} /\ MaxAttempts \in Nat \ {0}
    /\ MaxFailures \in Nat /\ Faults \subseteq FaultKinds

VARIABLES
    user,        \* the user's row: "disabled" (or not registered), "noPhone"
                 \* (its number is not validated) or "ok"
    table,       \* the committed rows, by message
    place,       \* where the sender thread is, see Places
    continuing,  \* SenderThread.continuing
    stale,       \* what TransactionManager still holds of a transaction that
                 \* failed, see Stales
    memory,      \* the rows as the open transaction has changed them
    block,       \* messages still to be handled
    current,     \* the message at hand, or NoMessage
    loadedUser,  \* the user as this session loaded it, or "none"
    transported, \* history: how often the mail server accepted each message
    tried,       \* history: how often it was asked to
    unsure,      \* history: how often it accepted one and its answer was lost
    barred,      \* history: the user was never enabled since the block began
    failures

senderVars == <<place, continuing, stale, memory, block, current, loadedUser>>
historyVars == <<transported, tried, unsure>>
msgVars == <<user, table, senderVars, historyVars, barred, failures>>

Places == {"top",     \* while (isContinuing())
           "begin",   \* sendUnsent: session, transaction, query
           "send",    \* for each message, then commitTransaction
           "mail",    \* Transport.send
           "wait",    \* LOCK.wait(10 * 1000)
           "ended", "down"}

\* A transaction that failed to commit is closed with its session all the same.
Stales == {"none",
           "over",     \* the database refused the commit: Hibernate's rollback
                       \* has nothing left to do
           "closed"}   \* the flush before it failed, or a rollback: a rollback
                       \* asks the closed session for its connection and throws

UserStates == {"ok", "noPhone", "disabled"}
NewRow == [sent |-> "none", attempts |-> 0, deferUntil |-> "none",
           expires |-> "none", gone |-> FALSE]

Stored == DOMAIN table
There == {m \in Stored : ~table[m].gone}

MsgInit ==
    /\ user \in UserStates
    /\ table = <<>> /\ memory = <<>>
    /\ place = "top" /\ continuing = TRUE /\ stale = "none"
    /\ block = {} /\ current = NoMessage /\ loadedUser = "none"
    /\ transported = [m \in Messages |-> 0] /\ tried = [m \in Messages |-> 0]
    /\ unsure = 0
    /\ barred = FALSE /\ failures = 0

-----------------------------------------------------------------------------
(* Other threads, the user and the clock.                                  *)

\* Message.insert, committed.
Insert(m) ==
    /\ m \in Messages \ Stored
    /\ place # "down"
    /\ table' = [k \in Stored \union {m} |-> IF k = m THEN NewRow
                                             ELSE table[k]]
    /\ UNCHANGED <<user, senderVars, historyVars, barred, failures>>

\* The account is enabled, disabled, or its telephone number (in)validated.
ChangeUser ==
    /\ user' \in UserStates \ {user}
    /\ barred' = (barred /\ user' = "disabled")
    /\ UNCHANGED <<table, senderVars, historyVars, failures>>

Older(date) == CASE date = "later" -> "past"
                 [] date = "past" -> "old"
                 [] OTHER -> date

Aged(row) == [row EXCEPT !.sent = Older(@), !.expires = Older(@),
                         !.deferUntil = IF @ = "later" THEN "past" ELSE @]

\* Time passes for one message, as committed and as in memory.
TimePasses(m) ==
    /\ m \in There
    /\ table[m] # Aged(table[m])
    /\ table' = [table EXCEPT ![m] = Aged(@)]
    /\ memory' = [k \in DOMAIN memory |-> IF k = m THEN Aged(memory[k])
                                          ELSE memory[k]]
    /\ UNCHANGED <<user, place, continuing, stale, block, current,
                   loadedUser, historyVars, barred, failures>>

-----------------------------------------------------------------------------
(* The sender thread.                                                      *)

Goto(from, to) == place = from /\ place' = to

\* while (isContinuing())
Loop ==
    /\ Goto("top", IF continuing THEN "begin" ELSE "ended")
    /\ UNCHANGED <<user, table, continuing, stale, memory, block,
                   current, loadedUser, historyVars, barred, failures>>

\* Message.deleteOldMessages.
IsOld(row) == \/ row.sent = "old"
              \/ row.attempts >= MaxAttempts /\ row.expires \in {"none", "old"}

\* Message.getUnsent: what is to be sent now, the urgent first.
IsUnsent(row) == /\ row.attempts < MaxAttempts
                 /\ row.sent = "none"
                 /\ row.deferUntil # "later"
                 /\ row.expires \in {"none", "later"}

\* order by priority, setMaxResults.
Blocks(S) ==
    LET size == IF Cardinality(S) < MaxSendBlock THEN Cardinality(S)
                ELSE MaxSendBlock
    IN  {B \in SUBSET S : /\ Cardinality(B) = size
                          /\ \A m \in B, k \in S \ B :
                                k \in Urgent => m \in Urgent}

\* Begins the transaction; once a day, and after a start, it deletes first.
Begin ==
    /\ stale = "none"
    /\ Goto("begin", "send")
    /\ \E daily \in BOOLEAN :
          memory' = [m \in There |->
                        IF daily /\ IsOld(table[m])
                        THEN [NewRow EXCEPT !.gone = TRUE] ELSE table[m]]
    /\ block' \in Blocks({m \in There : ~memory'[m].gone
                                        /\ IsUnsent(memory'[m])})
    /\ barred' = (user = "disabled")
    /\ UNCHANGED <<user, table, continuing, stale, current,
                   loadedUser, historyVars, failures>>

ForgetNotes ==              \* mutant: the block outlives a rollback
    memory' = <<>> /\ current' = NoMessage /\ loadedUser' = "none"
    /\ UNCHANGED block

Forget == memory' = <<>> /\ block' = {} /\ current' = NoMessage
          /\ loadedUser' = "none"

\* The transaction that failed is still the thread's own, so beginTransaction
\* throws, and the handler rolls the old one back; where that throws too, the
\* thread keeps it for ever.
BeginThrows ==
    /\ stale # "none"
    /\ Goto("begin", "wait")
    /\ stale' = IF stale = "closed" THEN "closed" ELSE "none"
    /\ UNCHANGED <<user, table, continuing, memory, block, current,
                   loadedUser, historyVars, barred, failures>>

UserNow == IF loadedUser = "none" THEN user ELSE loadedUser

NeverRefused(m, u) == FALSE     \* mutant: the account is not looked at

\* The account is disabled or unregistered, or the telephone not validated.
Refused(m, u) ==
    m \in Owned /\ (u = "disabled" \/ (m \in Sms /\ u = "noPhone"))

\* Outside the hours in which the user wants text messages, if it is.
Untimely(m, u, outside) ==
    m \in Owned /\ m \in Sms /\ u # "noPhone" /\ outside

ExpiryLeft(row) == row      \* mutant: a refused message does not expire
WithExpiry(row) ==
    [row EXCEPT !.expires = IF @ = "none" THEN "later" ELSE @]

\* The first half of send: next message, its user and what becomes of it.
\* The next window is computed with hours of a twelve-hour clock, and may come
\* out before now.
Take(m) ==
    /\ m \in block
    /\ \A k \in block : k \in Urgent => m \in Urgent
    /\ block' = block \ {m}
    /\ loadedUser' = IF m \in Owned THEN UserNow ELSE loadedUser
    /\ \E outside \in BOOLEAN, window \in {"past", "later"} :
         LET refused == Refused(m, UserNow)
             untimely == Untimely(m, UserNow, outside)
             row == IF refused THEN WithExpiry(memory[m]) ELSE memory[m]
         IN  IF refused \/ untimely
             THEN /\ Goto("send", "send")
                  /\ memory' = [memory EXCEPT ![m] =
                        IF untimely THEN [row EXCEPT !.deferUntil = window]
                        ELSE row]
                  /\ UNCHANGED current
             ELSE /\ Goto("send", "mail")
                  /\ current' = m
                  /\ UNCHANGED memory
    /\ UNCHANGED <<user, table, continuing, stale, historyVars, barred,
                   failures>>

Unmarked(row) == row        \* mutant: setSent is forgotten
MarkedSent(row) == [row EXCEPT !.sent = "past"]

Transport ==
    /\ Goto("mail", "send")
    /\ memory' = [memory EXCEPT ![current] = MarkedSent(@)]
    /\ transported' = [transported EXCEPT ![current] = @ + 1]
    /\ tried' = [tried EXCEPT ![current] = @ + 1]
    /\ current' = NoMessage
    /\ UNCHANGED <<user, table, continuing, stale, block,
                   loadedUser, unsure, barred, failures>>

UncountedAttempt(row) == row    \* mutant: failedAttempt is forgotten
FailedAttempt(row) ==
    [row EXCEPT !.attempts = @ + 1,
                !.expires = IF row.attempts + 1 >= MaxAttempts THEN "past"
                            ELSE @]

OneMore(kind) == kind \in Faults /\ failures + unsure < MaxFailures

MailFails ==
    /\ Goto("mail", "send")
    /\ memory' = [memory EXCEPT ![current] = FailedAttempt(@)]
    /\ tried' = [tried EXCEPT ![current] = @ + 1]
    /\ current' = NoMessage
    /\ UNCHANGED <<user, table, continuing, stale, block,
                   loadedUser, barred, failures>>

TransportFails ==
    /\ "smtp" \in Faults
    /\ MailFails
    /\ UNCHANGED <<transported, unsure>>

\* Transport.send throws although the mail server has the message: to the
\* sender an attempt like the others.
ReplyLost ==
    /\ OneMore("reply")
    /\ MailFails
    /\ transported' = [transported EXCEPT ![current] = @ + 1]
    /\ unsure' = unsure + 1

Fails(kind) == OneMore(kind) /\ failures' = failures + 1

\* An exception outside the inner try, in a query, in loading a user or in
\* saving a row: all notes of the block are rolled back, by the handler or, if
\* the rollback throws as well, by the database.
SendThrows ==
    /\ Fails("load")
    /\ Goto("send", "wait")
    /\ stale' \in {"none", "closed"}
    /\ Forget
    /\ UNCHANGED <<user, table, continuing, historyVars, barred>>

\* The block has been handled.
Commit ==
    /\ block = {}
    /\ Goto("send", "wait")
    /\ table' = [m \in Stored |-> IF m \in DOMAIN memory THEN memory[m]
                                  ELSE table[m]]
    /\ Forget
    /\ UNCHANGED <<user, continuing, stale, historyVars, barred,
                   failures>>

\* commitTransaction throws before it lets go of the transaction.
CommitFails ==
    /\ Fails("commit")
    /\ block = {}
    /\ Goto("send", "wait")
    /\ stale' \in Stales \ {"none"}
    /\ Forget
    /\ UNCHANGED <<user, table, continuing, historyVars, barred>>

TimedOut == place = "wait"

\* LOCK.wait(10 * 1000) returns, on time or by a notification.
WaitEnds ==
    /\ TimedOut
    /\ Goto("wait", "top")
    /\ UNCHANGED <<user, table, continuing, stale, memory, block,
                   current, loadedUser, historyVars, barred, failures>>

-----------------------------------------------------------------------------
\* MessengerService.destroy.
Destroy ==
    /\ "destroy" \in Faults
    /\ place \notin {"down", "ended"} /\ continuing
    /\ continuing' = FALSE
    /\ place' = IF place = "wait" THEN "top" ELSE place
    /\ UNCHANGED <<user, table, stale, memory, block, current,
                   loadedUser, historyVars, barred, failures>>

Crash ==
    /\ Fails("crash")
    /\ place # "down" /\ place' = "down"
    /\ continuing' = TRUE /\ stale' = "none"
    /\ Forget
    /\ UNCHANGED <<user, table, historyVars, barred>>

\* MessengerService.init.
Restart ==
    /\ Goto("down", "top")
    /\ UNCHANGED <<user, table, continuing, stale, memory, block,
                   current, loadedUser, historyVars, barred, failures>>

Sender == \/ Loop \/ Begin \/ BeginThrows
          \/ (\E m \in block : Take(m)) \/ Transport \/ TransportFails
          \/ ReplyLost \/ Commit \/ WaitEnds

MsgNext ==
    \/ \E m \in Messages : Insert(m) \/ TimePasses(m)
    \/ ChangeUser
    \/ Sender \/ SendThrows \/ CommitFails
    \/ Destroy \/ Crash \/ Restart

MsgSpec == MsgInit /\ [][MsgNext]_msgVars

\* The thread runs, time passes, and a crashed site is started again.
FairMsgSpec == /\ MsgSpec
               /\ WF_msgVars(Sender) /\ WF_msgVars(Restart)
               /\ \A m \in Messages : WF_msgVars(TimePasses(m))

-----------------------------------------------------------------------------
(* Properties.                                                             *)

Dates == {"none", "later", "past", "old"}
Row == [sent : Dates \ {"later"}, attempts : 0..MaxAttempts,
        deferUntil : Dates, expires : Dates, gone : BOOLEAN]

\* Rows are rows; memory, block and the loaded user exist inside a block only,
\* and a message is at hand exactly while the mail server is being asked.
MsgTypeOK ==
    /\ \A m \in Stored : table[m] \in Row
    /\ \A m \in DOMAIN memory : memory[m] \in Row
    /\ place \in Places /\ failures \in 0..MaxFailures
    /\ block \subseteq DOMAIN memory /\ DOMAIN memory \subseteq Stored
    /\ memory # <<>> => place \in {"send", "mail"}
    /\ (current # NoMessage) <=> (place = "mail")
    /\ stale \in Stales
    /\ stale # "none" => place \in {"wait", "top", "begin", "ended"}

\* A message reaches its receiver once, and once more at most for each block
\* whose notes were lost after the mail server had accepted it, and for each
\* time the server's answer was lost.
OnceButForFailures ==
    \A m \in Messages : transported[m] <= 1 + failures + unsure

\* The mail server is asked maxMessageAttempts times for a message at most,
\* and once more for each block whose notes were lost.
AttemptsBounded ==
    \A m \in Messages : tried[m] <= MaxAttempts + failures

\* No message of an account goes out that was disabled when the block was
\* taken and has been since.
NothingWhileDisabled ==
    [][\A m \in Owned : transported'[m] > transported[m] => ~barred]_msgVars

Settled(m) == /\ m \in Stored
              /\ \/ table[m].sent # "none" \/ table[m].gone
                 \/ table[m].expires \in {"past", "old"}

\* A text message put off is taken again when its window has come, and put off
\* again if that was computed wrong.
PutOff(m) == m \in Stored /\ ~Settled(m) /\ table[m].deferUntil # "none"

\* Messages that are put off again and again fill the block.
Crowded(m) == Cardinality({k \in Stored \ {m} : PutOff(k)}) >= MaxSendBlock

\* Every message is sent or expires, although messages that cannot be sent now
\* may fill the block: they expire in the end.  The exceptions are messages put
\* off for ever, those such messages crowd out for ever, and a sender that was
\* destroyed or keeps a transaction it can neither commit nor roll back.
EveryMessageSettles ==
    \A m \in Messages :
        m \in Stored ~> \/ Settled(m) \/ PutOff(m) \/ Crowded(m)
                        \/ ~continuing \/ stale = "closed"
=============================================================================
