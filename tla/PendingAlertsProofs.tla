------------------------- MODULE PendingAlertsProofs -------------------------
(***************************************************************************)
(* Theorems about PendingAlerts, for any showings and alert times, any     *)
(* number of requests, nights and crashes and any failures.                *)
(*                                                                         *)
(* A web transaction writes rows as it read them, and may take back the    *)
(* mark that a row was fired.  What makes the reminders right all the same *)
(* is that it then marks the row as deleted: a row that has made messages  *)
(* is never to be fired again (RemindedOK), and the rows the thread is     *)
(* about to fire have made none (BatchOK).                                 *)
(***************************************************************************)
EXTENDS PendingAlerts, FiniteSetTheorems, TLAPS

Statuses == {"none", "enabled", "disabled", "deleted", "gone"}
\* What a transaction may do to the status of the ProgramAlert.
Writes == {"enabled", "disabled", "deleted", Untouched}
RowRecord == [fired : BOOLEAN, deleted : BOOLEAN, gone : BOOLEAN]

TableOK ==
    /\ clock \in Nat /\ known \subseteq Showings /\ status \in Statuses
    /\ table \in [Rows -> RowRecord]
    /\ \A r \in Rows : r.showing \in Showings /\ r.manual \in BOOLEAN

TransactionOK(t) ==
    t.pc = "open" =>
        /\ DOMAIN t = {"pc", "status", "adds", "manual", "deletes", "notifies"}
        /\ t.status \in Writes
        /\ t.adds \subseteq Showings /\ t.manual \subseteq Showings
        /\ \A r \in DOMAIN t.deletes : t.deletes[r] \in RowRecord

TransactionsOK == TransactionOK(web) /\ TransactionOK(night)

RemindedOK ==
    /\ reminded \in [Rows -> 0..1]
    /\ \A r \in Rows : reminded[r] > 0 => r \notin Unfired /\ Time(r) <= clock

BatchOK ==
    /\ batch \subseteq Rows
    /\ \A r \in batch : reminded[r] = 0 /\ Time(r) <= clock

FoundOK ==
    /\ loaded \in Statuses \union {"no"}
    /\ place = "decide" =>
          /\ found.row \in batch
          /\ found.status = "manual" => found.row.manual

\* While the alert has been off, the thread holds no status that says "on".
OffOK ==
    off => /\ status # "enabled" /\ loaded # "enabled"
           /\ place = "decide" => found.status # "enabled"

\* What an open transaction is to add is not there.
StillMissing(t) ==
    t.pc = "open" =>
        \A s \in t.adds : \A r \in Unfired : ~r.manual => r.showing # s

OverlapOK ==
    /\ web # NoTransaction /\ night # NoTransaction => overlapped
    /\ ~overlapped => StillMissing(web) /\ StillMissing(night)

AlertInv == /\ TableOK /\ TransactionsOK /\ RemindedOK /\ BatchOK /\ FoundOK
            /\ OffOK /\ OverlapOK /\ OneUnfiredRow

-----------------------------------------------------------------------------

LEMMA TimeIsNat ==
  ASSUME TableOK
  PROVE  \A r \in Rows : Time(r) \in Nat
  BY PendingAssumption DEF PendingAssumption, TableOK, Time

LEMMA Init_AlertInv == Init => AlertInv
  BY DEF Init, AlertInv, TableOK, TransactionsOK, TransactionOK, RemindedOK,
     BatchOK, FoundOK, OffOK, OverlapOK, StillMissing, OneUnfiredRow,
     NoTransaction, Rows, Unfired, Live, Statuses, RowRecord

\* A step that leaves the table and the messages made alone.
LEMMA Quiet ==
  ASSUME AlertInv, UNCHANGED <<status, table, reminded>>,
         overlapped => overlapped',
         clock' \in Nat, clock <= clock', known' \subseteq Showings
  PROVE  /\ TableOK' /\ RemindedOK' /\ OneUnfiredRow'
         /\ Rows' = Rows /\ Unfired' = Unfired
  <1> USE DEF AlertInv
  <1>1. Rows' = Rows /\ Unfired' = Unfired
    BY DEF Rows, Unfired, Live
  <1>2. TableOK'
    BY <1>1 DEF TableOK
  <1>3. RemindedOK'
    BY <1>1, TimeIsNat DEF RemindedOK, TableOK, Time
  <1>4. OneUnfiredRow'
    BY <1>1 DEF OneUnfiredRow
  <1> QED
    BY <1>1, <1>2, <1>3, <1>4

\* A step of the thread or of the site that leaves the clients alone as well.
LEMMA QuietThread ==
  ASSUME AlertInv, UNCHANGED <<status, table, reminded, clientVars>>,
         clock' \in Nat, clock <= clock', known' \subseteq Showings,
         BatchOK', FoundOK', OffOK'
  PROVE  AlertInv'
  <1>1. /\ TableOK' /\ RemindedOK' /\ OneUnfiredRow' /\ Unfired' = Unfired
    BY Quiet DEF clientVars
  <1>2. TransactionsOK' /\ OverlapOK'
    BY <1>1 DEF AlertInv, TransactionsOK, OverlapOK, StillMissing, clientVars
  <1> QED
    BY <1>1, <1>2 DEF AlertInv

\* A step of the clients that leaves the table alone.
LEMMA QuietClient ==
  ASSUME AlertInv,
         UNCHANGED <<clock, tableVars, batch, loaded, found, reminded, off>>,
         overlapped => overlapped',
         TransactionsOK', OverlapOK',
         place' # place => place' # "decide"
  PROVE  AlertInv'
  <1>1. TableOK' /\ RemindedOK' /\ OneUnfiredRow' /\ Rows' = Rows
    BY Quiet DEF AlertInv, TableOK, tableVars
  <1>2. BatchOK'
    BY <1>1 DEF AlertInv, BatchOK, Time
  <1>3. FoundOK' /\ OffOK'
    BY DEF AlertInv, FoundOK, OffOK, tableVars
  <1> QED
    BY <1>1, <1>2, <1>3 DEF AlertInv

\* A step that keeps the rows and makes none of them due again.
LEMMA Shrinking ==
  ASSUME AlertInv, UNCHANGED <<clock, known, web, overlapped>>,
         status' \in Statuses, table' \in [Rows -> RowRecord],
         Unfired' \subseteq Unfired,
         night' \in {night, NoTransaction},
         \/ UNCHANGED reminded
         \/ \E r \in Rows \ Unfired' :
               /\ reminded[r] = 0 /\ Time(r) <= clock
               /\ reminded' = [reminded EXCEPT ![r] = 1]
  PROVE  /\ TableOK' /\ TransactionsOK' /\ RemindedOK' /\ OverlapOK'
         /\ OneUnfiredRow' /\ Rows' = Rows
  <1> USE DEF AlertInv
  <1>1. Rows' = Rows
    BY DEF Rows
  <1>2. TableOK'
    BY <1>1 DEF TableOK
  <1>3. TransactionsOK'
    <2>1. TransactionOK(NoTransaction)
      BY DEF TransactionOK, NoTransaction
    <2> QED
      BY <2>1 DEF TransactionsOK
  <1>4. RemindedOK'
    BY <1>1 DEF RemindedOK, Time
  <1>5. OverlapOK'
    BY <1>1 DEF OverlapOK, StillMissing, NoTransaction
  <1>6. OneUnfiredRow'
    BY <1>1 DEF OneUnfiredRow
  <1> QED
    BY <1>1, <1>2, <1>3, <1>4, <1>5, <1>6

\* An open transaction adds rows for showings, writes rows as rows, and wakes
\* none up.
LEMMA Committing ==
  ASSUME AlertInv, NEW t, TransactionOK(t), t.pc = "open", Commit(t),
         overlapped \/ StillMissing(t),
         UNCHANGED <<clock, known, overlapped>>, status' \in Statuses
  PROVE  /\ TableOK' /\ RemindedOK' /\ OneUnfiredRow' /\ Rows \subseteq Rows'
         /\ \A r \in Rows : reminded'[r] = reminded[r]
  <1> USE DEF AlertInv
  <1>1. /\ t.adds \subseteq Showings /\ t.manual \subseteq Showings
        /\ \A r \in DOMAIN t.deletes : t.deletes[r] \in RowRecord
    BY DEF TransactionOK
  <1>2. Rows' = Rows \union NewKeys(t)
    BY DEF Commit, Written, Rows
  <1>3. \A r \in Rows' :
           table'[r] = IF r \in DOMAIN t.deletes
                       THEN [t.deletes[r] EXCEPT !.deleted = TRUE]
                       ELSE IF r \in Rows THEN table[r] ELSE NewRow
    BY <1>2 DEF Commit, Written
  <1>4. \A r \in NewKeys(t) :
           \/ \E s \in t.adds : r = NewKey(s, FALSE)
           \/ \E s \in t.manual : r = NewKey(s, TRUE)
    BY DEF NewKeys
  <1>5. \A s : /\ NewKey(s, FALSE).showing = s /\ NewKey(s, TRUE).showing = s
               /\ NewKey(s, FALSE).manual = FALSE
               /\ NewKey(s, TRUE).manual = TRUE
    BY DEF NewKey, Key
  <1>6. NewRow \in RowRecord /\ table \in [Rows -> RowRecord]
    BY DEF NewRow, RowRecord, TableOK
  <1>7. TableOK'
    <2>1. table' \in [Rows' -> RowRecord]
      <3>1. \A record \in RowRecord :
               [record EXCEPT !.deleted = TRUE] \in RowRecord
        BY DEF RowRecord
      <3>3. \A r \in Rows' : table'[r] \in RowRecord
        BY <1>1, <1>3, <1>6, <3>1
      <3>2. table' = [r \in Rows' |-> table'[r]]
        BY DEF Commit, Written, Rows
      <3> QED
        BY <3>2, <3>3
    <2>2. \A r \in Rows' : r.showing \in Showings /\ r.manual \in BOOLEAN
      <3>1. \A r \in Rows : r.showing \in Showings /\ r.manual \in BOOLEAN
        BY DEF TableOK
      <3>2. \A r \in NewKeys(t) :
               r.showing \in Showings /\ r.manual \in {TRUE, FALSE}
        <4> SUFFICES ASSUME NEW r \in NewKeys(t)
                     PROVE  r.showing \in Showings /\ r.manual \in {TRUE, FALSE}
          OBVIOUS
        <4>1. CASE \E s \in t.adds : r = NewKey(s, FALSE)
          BY <1>1, <4>1 DEF NewKey, Key
        <4>2. CASE \E s \in t.manual : r = NewKey(s, TRUE)
          BY <1>1, <4>2 DEF NewKey, Key
        <4> QED
          BY <1>4, <4>1, <4>2
      <3> QED
        BY <1>2, <3>1, <3>2
    <2> QED
      BY <2>1, <2>2 DEF TableOK
  <1>8. \A r \in Unfired' : r \in Unfired \/ (r \notin Rows /\ r \in NewKeys(t))
    BY <1>1, <1>2, <1>3 DEF Unfired, Live, Rows, RowRecord
  <1>9. /\ reminded' = [r \in Rows' |-> IF r \in Rows THEN reminded[r] ELSE 0]
        /\ Rows \subseteq Rows'
    BY <1>2 DEF Commit, Rows
  <1>10. RemindedOK'
    BY <1>8, <1>9 DEF RemindedOK, Time
  <1>11. OneUnfiredRow'
    <2> SUFFICES ASSUME ~overlapped, NEW r \in Unfired', NEW q \in Unfired',
                        ~r.manual, ~q.manual, r # q
                 PROVE  r.showing # q.showing
      BY DEF OneUnfiredRow
    <2>1. /\ r \in Unfired \/ \E s \in t.adds : r = NewKey(s, FALSE)
          /\ q \in Unfired \/ \E s \in t.adds : q = NewKey(s, FALSE)
      BY <1>4, <1>5, <1>8
    <2>2. \A s \in t.adds : \A k \in Unfired : ~k.manual => k.showing # s
      BY DEF StillMissing
    <2>3. CASE r \in Unfired /\ q \in Unfired
      BY <2>3 DEF OneUnfiredRow
    <2>4. CASE r \in Unfired /\ \E s \in t.adds : q = NewKey(s, FALSE)
      <3>1. PICK s \in t.adds : q = NewKey(s, FALSE)
        BY <2>4
      <3>2. q.showing = s /\ r.showing # s
        BY <2>2, <2>4, <3>1 DEF NewKey, Key
      <3> QED
        BY <3>2
    <2>5. CASE q \in Unfired /\ \E s \in t.adds : r = NewKey(s, FALSE)
      <3>1. PICK s \in t.adds : r = NewKey(s, FALSE)
        BY <2>5
      <3>2. r.showing = s /\ q.showing # s
        BY <2>2, <2>5, <3>1 DEF NewKey, Key
      <3> QED
        BY <3>2
    <2>6. CASE /\ \E s \in t.adds : r = NewKey(s, FALSE)
               /\ \E s \in t.adds : q = NewKey(s, FALSE)
      <3>1. PICK s \in t.adds, z \in t.adds :
               r = NewKey(s, FALSE) /\ q = NewKey(z, FALSE)
        BY <2>6
      <3>2. r.showing = s /\ q.showing = z /\ s # z
        BY <3>1 DEF NewKey, Key
      <3> QED
        BY <3>2
    <2> QED
      BY <2>1, <2>3, <2>4, <2>5, <2>6
  <1> QED
    BY <1>7, <1>9, <1>10, <1>11

-----------------------------------------------------------------------------
(* The clients.                                                            *)

LEMMA TransactionIsOK ==
  ASSUME NEW st \in Writes, NEW adds \in SUBSET Showings,
         NEW manual \in SUBSET Showings, NEW deletes, NEW notifies \in BOOLEAN,
         \A r \in DOMAIN deletes : deletes[r] \in RowRecord
  PROVE  TransactionOK(Transaction(st, adds, manual, deletes, notifies))
  BY DEF TransactionOK, Transaction

LEMMA NothingIsOK ==
  /\ TransactionOK(NoTransaction) /\ StillMissing(NoTransaction)
  /\ TransactionOK([pc |-> "done"]) /\ StillMissing([pc |-> "done"])
  BY DEF TransactionOK, StillMissing, NoTransaction

LEMMA MarkedOK ==
  ASSUME TableOK, NEW rows \in SUBSET Rows
  PROVE  \A r \in DOMAIN Marked(rows) : Marked(rows)[r] \in RowRecord
  BY DEF TableOK, Marked

\* Whatever a web request or the nightly check has in mind.
LEMMA Asked ==
  ASSUME AlertInv, NEW st \in Writes, NEW adds \in {Missing, {}},
         NEW manual \in SUBSET Showings, NEW deletes, NEW notifies \in BOOLEAN,
         \A r \in DOMAIN deletes : deletes[r] \in RowRecord
  PROVE  /\ TransactionOK(Transaction(st, adds, manual, deletes, notifies))
         /\ StillMissing(Transaction(st, adds, manual, deletes, notifies))
  <1>1. adds \subseteq Showings
    BY DEF AlertInv, TableOK, Missing, Upcoming
  <1>2. Transaction(st, adds, manual, deletes, notifies).adds = adds
    BY DEF Transaction
  <1>3. \A s \in Missing : \A r \in Unfired : ~r.manual => r.showing # s
    BY DEF Missing
  <1> QED
    BY <1>1, <1>2, <1>3, TransactionIsOK DEF StillMissing

LEMMA Request_Inv ==
  ASSUME AlertInv, WebRequest
  PROVE  AlertInv'
  <1>1. \A r \in DOMAIN <<>> : <<>>[r] \in RowRecord
    OBVIOUS
  <1>2. /\ TableOK /\ NotManual \subseteq Rows
        /\ \A s : ManualFor(s) \subseteq Rows
    BY DEF AlertInv, TableOK, NotManual, ManualFor, Live, Unfired
  <1>3. \A r \in DOMAIN Marked(NotManual) : Marked(NotManual)[r] \in RowRecord
    BY <1>2, MarkedOK
  <1> DEFINE Good(t) == TransactionOK(t) /\ StillMissing(t)
  <1>4. ASSUME NEW kind, NEW t, Ask(kind, t), Good(t)
        PROVE  AlertInv'
    <2>1. web = NoTransaction /\ web' = t /\ UNCHANGED night /\ Unfired' = Unfired
      BY <1>4 DEF Ask, tableVars, Unfired, Live, Rows
    <2>2. TransactionsOK'
      BY <1>4, <2>1 DEF AlertInv, TransactionsOK
    <2>3. overlapped' = (overlapped \/ night # NoTransaction)
      BY <1>4 DEF Ask
    <2>4. StillMissing(t)' /\ (StillMissing(night) => StillMissing(night)')
      BY <1>4, <2>1 DEF StillMissing
    <2>5. OverlapOK'
      BY <2>1, <2>3, <2>4 DEF AlertInv, OverlapOK
    <2> QED
      BY <1>4, <2>2, <2>3, <2>5, QuietClient DEF Ask, threadVars
  <1>5. \A st \in Writes, adds \in {Missing, {}}, notifies \in BOOLEAN :
           /\ Good(Transaction(st, adds, {}, <<>>, notifies))
           /\ Good(Transaction(st, adds, {}, Marked(NotManual), notifies))
    BY <1>1, <1>3, Asked
  <1> HIDE DEF Good
  <1>0. Notifies \in BOOLEAN
    BY DEF Notifies
  <1>6. CASE CreateProgramAlert
    BY <1>0, <1>4, <1>5, <1>6 DEF CreateProgramAlert, Writes
  <1>7. CASE DisableProgramAlert
    BY <1>4, <1>5, <1>7 DEF DisableProgramAlert, Writes
  <1>8. CASE EnableProgramAlert
    BY <1>0, <1>4, <1>5, <1>8 DEF EnableProgramAlert, Writes
  <1>9. CASE DeleteProgramAlert
    BY <1>4, <1>5, <1>9 DEF DeleteProgramAlert, Writes
  <1>10. CASE DeleteAlerts
    BY <1>4, <1>5, <1>10 DEF DeleteAlerts, Writes
  <1>11. ASSUME NEW s \in known, SetScheduledOn(s)
         PROVE  AlertInv'
    <2>1. {s} \in SUBSET Showings
      BY DEF AlertInv, TableOK
    <2>2. Good(Transaction(Untouched, {}, {s}, <<>>, FALSE))
      BY <1>1, <2>1, Asked DEF Good, Writes
    <2> QED
      BY <1>4, <1>11, <2>2 DEF SetScheduledOn
  <1>12. ASSUME NEW s \in known, SetScheduledOff(s)
         PROVE  AlertInv'
    <2>1. PICK r \in ManualFor(s) :
             Ask("off", Transaction(Untouched, {}, {}, Marked({r}), FALSE))
      BY <1>12 DEF SetScheduledOff
    <2>2. \A k \in DOMAIN Marked({r}) : Marked({r})[k] \in RowRecord
      BY <1>2, MarkedOK
    <2>3. Good(Transaction(Untouched, {}, {}, Marked({r}), FALSE))
      BY <2>2, Asked DEF Good, Writes
    <2> QED
      BY <1>4, <2>1, <2>3
  <1> QED
    BY <1>6, <1>7, <1>8, <1>9, <1>10, <1>11, <1>12 DEF WebRequest

LEMMA WebEnd_Inv ==
  ASSUME AlertInv, WebEnd
  PROVE  AlertInv'
  <1> USE DEF AlertInv
  <1>1. CASE WebCommit
    <2>1. /\ TransactionOK(web) /\ web.pc = "open" /\ Commit(web)
          /\ StatusWritten(web)
          /\ UNCHANGED <<clock, known, night, overlapped, batch, loaded, found,
                         place>>
      BY <1>1 DEF WebCommit, TransactionsOK, threadVars
    <2>2. overlapped \/ (StillMissing(web) /\ night = NoTransaction)
      BY <1>1 DEF OverlapOK, WebCommit
    <2>3. status' \in Statuses
      BY <2>1 DEF StatusWritten, TransactionOK, TableOK, Statuses, Writes
    <2>4. /\ TableOK' /\ RemindedOK' /\ OneUnfiredRow' /\ Rows \subseteq Rows'
          /\ \A r \in Rows : reminded'[r] = reminded[r]
      BY <2>1, <2>2, <2>3, Committing
    <2>5. web' = NoTransaction \/ web'.pc = "done"
      BY <1>1, <2>1 DEF WebCommit, TransactionOK
    <2>6. web'.pc # "open"
      BY <2>5 DEF NoTransaction
    <2>7. TransactionsOK'
      BY <2>1, <2>6 DEF TransactionsOK, TransactionOK
    <2>8. OverlapOK'
      BY <2>1, <2>2, <2>6 DEF OverlapOK, StillMissing, NoTransaction
    <2>9. BatchOK'
      BY <2>1, <2>4 DEF BatchOK, Time
    <2>10. FoundOK' /\ OffOK'
      BY <2>1 DEF FoundOK, OffOK, StatusWritten
    <2> QED
      BY <2>4, <2>7, <2>8, <2>9, <2>10
  <1>2. CASE WebRollback \/ WebNotify
    <2>1. /\ web' = NoTransaction
          /\ UNCHANGED <<clock, tableVars, night, overlapped, batch, loaded,
                         found, reminded, off>>
          /\ place' # place => place' # "decide"
      BY <1>2 DEF WebRollback, WebNotify, threadVars, WakeUp
    <2>2. Unfired' = Unfired
      BY <2>1 DEF Unfired, Live, Rows, tableVars
    <2>3. TransactionsOK' /\ OverlapOK'
      BY <2>1, <2>2, NothingIsOK
         DEF TransactionsOK, OverlapOK, StillMissing, NoTransaction
    <2> QED
      BY <2>1, <2>3, QuietClient
  <1> QED
    BY <1>1, <1>2 DEF WebEnd

LEMMA Night_Inv ==
  ASSUME AlertInv, NightCheck \/ Night
  PROVE  AlertInv'
  <1> USE DEF AlertInv
  <1>1. CASE NightCheck
    <2>1. \A r \in DOMAIN <<>> : <<>>[r] \in RowRecord
      OBVIOUS
    <2>2. TransactionOK(night') /\ StillMissing(night')
      <3>1. Notifies \in BOOLEAN
        BY DEF Notifies
      <3> QED
        BY <1>1, <2>1, <3>1, Asked, NothingIsOK DEF NightCheck, Writes
    <2>3. Unfired' = Unfired /\ UNCHANGED web /\ night = NoTransaction
      BY <1>1 DEF NightCheck, tableVars, Unfired, Live, Rows
    <2>4. overlapped' = (overlapped \/ web # NoTransaction)
      BY <1>1 DEF NightCheck
    <2>5. TransactionsOK' /\ OverlapOK'
      BY <2>2, <2>3, <2>4 DEF TransactionsOK, OverlapOK, StillMissing
    <2> QED
      BY <1>1, <2>4, <2>5, QuietClient DEF NightCheck, threadVars
  <1>2. CASE NightNotify
    <2>1. /\ night.pc = "open" /\ TransactionOK(night)
          /\ night' = [night EXCEPT !.notifies = FALSE]
          /\ Unfired' = Unfired /\ UNCHANGED <<web, overlapped>>
          /\ night # NoTransaction
      BY <1>2 DEF NightNotify, TransactionsOK, tableVars, Unfired, Live, Rows
    <2>2. /\ DOMAIN night' = DOMAIN night /\ night'.pc = night.pc
          /\ night'.status = night.status /\ night'.adds = night.adds
          /\ night'.manual = night.manual /\ night'.deletes = night.deletes
      BY <2>1 DEF TransactionOK
    <2>3. TransactionsOK' /\ OverlapOK'
      BY <2>1, <2>2 DEF TransactionsOK, TransactionOK, OverlapOK, StillMissing
    <2> QED
      BY <1>2, <2>1, <2>3, QuietClient DEF NightNotify, WakeUp
  <1>3. CASE NightCommit
    <2>1. /\ TransactionOK(night) /\ night.pc = "open" /\ Commit(night)
          /\ night' = [pc |-> "done"]
          /\ UNCHANGED <<clock, known, status, web, overlapped, batch, loaded,
                         found, place, off>>
      BY <1>3 DEF NightCommit, TransactionsOK, threadVars
    <2>2. overlapped \/ (StillMissing(night) /\ web = NoTransaction)
      BY <1>3 DEF OverlapOK, NightCommit
    <2>3. status' \in Statuses
      BY <2>1 DEF TableOK
    <2>4. /\ TableOK' /\ RemindedOK' /\ OneUnfiredRow' /\ Rows \subseteq Rows'
          /\ \A r \in Rows : reminded'[r] = reminded[r]
      BY <2>1, <2>2, <2>3, Committing
    <2>5. TransactionsOK'
      BY <2>1, NothingIsOK DEF TransactionsOK
    <2>6. OverlapOK'
      BY <2>1, <2>2 DEF OverlapOK, StillMissing, NoTransaction
    <2>7. BatchOK' /\ FoundOK' /\ OffOK'
      BY <2>1, <2>4 DEF BatchOK, FoundOK, OffOK, Time
    <2> QED
      BY <2>4, <2>5, <2>6, <2>7
  <1>4. CASE NightPurge
    <2>1. /\ night' = NoTransaction
          /\ UNCHANGED <<clock, known, web, overlapped, batch, loaded, found,
                         place, off, reminded>>
          /\ status' \in {status, "gone"}
      BY <1>4 DEF NightPurge, threadVars
    <2>2. table' \in [Rows -> RowRecord] /\ Unfired' \subseteq Unfired
      <3>1. \A record \in RowRecord :
               [record EXCEPT !.deleted = TRUE] \in RowRecord
        BY DEF RowRecord
      <3>2. table \in [Rows -> RowRecord]
        BY DEF TableOK
      <3>3. CASE UNCHANGED table
        BY <3>2, <3>3 DEF Unfired, Live, Rows
      <3>4. CASE table' = [r \in Rows |->
                              IF r.manual THEN table[r]
                              ELSE [table[r] EXCEPT !.deleted = TRUE]]
        <4>1. table' \in [Rows -> RowRecord] /\ Rows' = Rows
          BY <3>1, <3>2, <3>4 DEF Rows
        <4>2. \A r \in Rows : r.manual \/ table'[r].deleted
          BY <3>2, <3>4 DEF RowRecord
        <4>3. \A r \in Rows : r.manual => table'[r] = table[r]
          BY <3>4
        <4> QED
          BY <4>1, <4>2, <4>3 DEF Unfired, Live
      <3> QED
        BY <1>4, <3>3, <3>4 DEF NightPurge
    <2>3. /\ TableOK' /\ TransactionsOK' /\ RemindedOK' /\ OverlapOK'
          /\ OneUnfiredRow' /\ Rows' = Rows
      BY <2>1, <2>2, Shrinking DEF TableOK, Statuses
    <2>4. BatchOK' /\ FoundOK' /\ OffOK'
      BY <2>1, <2>3 DEF BatchOK, FoundOK, OffOK, Time
    <2> QED
      BY <2>3, <2>4
  <1> QED
    BY <1>1, <1>2, <1>3, <1>4 DEF Night

-----------------------------------------------------------------------------
(* The thread and the site.                                                *)

LEMMA TimePasses_Inv ==
  ASSUME AlertInv, Tick \/ EpgLoad
  PROVE  AlertInv'
  <1>1. /\ clock \in Nat /\ clock' \in Nat /\ clock <= clock'
        /\ known' \subseteq Showings
    BY DEF AlertInv, TableOK, Tick, EpgLoad, tableVars
  <1>2. UNCHANGED <<status, table, reminded, clientVars, threadVars, off>>
    BY DEF Tick, EpgLoad, tableVars
  <1>3. Rows' = Rows
    BY <1>2 DEF Rows
  <1>4. BatchOK'
    BY <1>1, <1>2, <1>3, TimeIsNat DEF AlertInv, BatchOK, threadVars, Time
  <1>5. FoundOK' /\ OffOK'
    BY <1>2 DEF AlertInv, FoundOK, OffOK, threadVars
  <1> QED
    BY <1>1, <1>2, <1>4, <1>5, QuietThread

\* Steps that read the table at most.
LEMMA Reading_Inv ==
  ASSUME AlertInv,
         \/ Top \/ Look \/ Test \/ Sleep \/ Timeout \/ Query \/ Fire
         \/ FireEnds \/ Abort \/ ExitGracefully \/ Restart
  PROVE  AlertInv'
  <1> USE DEF AlertInv
  <1>1. UNCHANGED <<clock, known, status, table, reminded, clientVars>>
    BY DEF Top, Look, Test, Sleep, Timeout, Query, Fire, FireEnds, Abort,
           ExitGracefully, Restart, tableVars
  <1>2. Rows' = Rows /\ clock' \in Nat /\ clock <= clock'
        /\ known' \subseteq Showings
    BY <1>1 DEF Rows, TableOK
  <1>3. BatchOK' /\ FoundOK' /\ OffOK' => AlertInv'
    BY <1>1, <1>2, QuietThread
  <1>4. CASE \/ Top \/ Look \/ Test \/ Sleep \/ Timeout \/ Restart
             \/ ExitGracefully
    <2>1. /\ UNCHANGED <<batch, loaded, found, off>>
          /\ place' # place => place' # "decide"
      BY <1>4 DEF Top, Look, Test, Sleep, Timeout, ExitGracefully, Restart,
                  Goto, WakeUp
    <2> QED
      BY <1>1, <1>2, <1>3, <2>1 DEF BatchOK, FoundOK, OffOK, Time
  <1>5. CASE Query
    <2>1. BatchOK'
      <3>1. batch' = Expired /\ Expired \subseteq Rows
        BY <1>5 DEF Query, Expired, Unfired, Live
      <3>2. \A r \in Expired : reminded[r] = 0
        BY <3>1 DEF Expired, RemindedOK
      <3> QED
        BY <1>1, <1>2, <3>1, <3>2 DEF BatchOK, Expired, Time
    <2>2. FoundOK' /\ OffOK'
      BY <1>1, <1>5 DEF Query, Goto, FoundOK, OffOK
    <2> QED
      BY <1>3, <2>1, <2>2
  <1>6. CASE Fire
    <2>1. PICK r \in batch :
             /\ found' = [row |-> r,
                          status |-> IF r.manual THEN "manual"
                                     ELSE LoadedStatus]
             /\ loaded' = IF r.manual THEN loaded ELSE LoadedStatus
      BY <1>6 DEF Fire
    <2>2. UNCHANGED <<batch, off>>
      BY <1>6 DEF Fire
    <2>3. LoadedStatus \in Statuses /\ (off => LoadedStatus # "enabled")
      BY DEF LoadedStatus, TableOK, FoundOK, OffOK
    <2>4. BatchOK'
      BY <1>1, <1>2, <2>2 DEF BatchOK, Time
    <2>5. FoundOK'
      BY <2>1, <2>2, <2>3 DEF FoundOK, Statuses
    <2>6. OffOK'
      BY <1>1, <2>1, <2>2, <2>3 DEF OffOK
    <2> QED
      BY <1>3, <2>4, <2>5, <2>6
  <1>7. CASE FireEnds \/ Abort
    <2>1. batch' = {} /\ loaded' = "no" /\ place' # "decide" /\ UNCHANGED off
      BY <1>7 DEF FireEnds, Abort, Goto, LeftOver
    <2> QED
      BY <1>1, <1>3, <2>1 DEF BatchOK, FoundOK, OffOK
  <1> QED
    BY <1>4, <1>5, <1>6, <1>7

\* The row at hand makes its messages or not, and is marked.
LEMMA Handled_Inv ==
  ASSUME AlertInv, Handled,
         \/ UNCHANGED reminded
         \/ reminded' = [reminded EXCEPT ![found.row] = @ + 1]
  PROVE  AlertInv'
  <1> USE DEF AlertInv
  <1> DEFINE r == found.row
  <1>1. /\ r \in batch /\ r \in Rows /\ reminded[r] = 0 /\ Time(r) <= clock
        /\ batch' = batch \ {r} /\ place' = "fire"
        /\ UNCHANGED <<clock, known, status, clientVars, loaded, off>>
    BY DEF Handled, Goto, FoundOK, BatchOK
  <1>2. table' = [table EXCEPT ![r] = [fired |-> TRUE, deleted |-> r.manual,
                                       gone |-> table[r].gone]]
    BY DEF Handled, Mark
  <1>3. r.manual \in BOOLEAN /\ table \in [Rows -> RowRecord]
    BY <1>1 DEF TableOK
  <1> HIDE DEF r
  <1>4. table' \in [Rows -> RowRecord]
    BY <1>1, <1>2, <1>3 DEF RowRecord
  <1>5. /\ Rows' = Rows /\ table'[r].fired
        /\ \A q \in Rows \ {r} : table'[q] = table[q]
    BY <1>1, <1>2, <1>3 DEF Rows
  <1>6. Unfired' \subseteq Unfired /\ r \notin Unfired'
    BY <1>5 DEF Unfired, Live
  <1>7. UNCHANGED reminded \/ reminded' = [reminded EXCEPT ![r] = 1]
    BY <1>1 DEF r
  <1>8. /\ TableOK' /\ TransactionsOK' /\ RemindedOK' /\ OverlapOK'
        /\ OneUnfiredRow' /\ Rows' = Rows
    BY <1>1, <1>4, <1>6, <1>7, Shrinking DEF TableOK, clientVars
  <1>9. BatchOK'
    BY <1>1, <1>5, <1>7 DEF BatchOK, RemindedOK, Time
  <1>10. FoundOK' /\ OffOK'
    BY <1>1 DEF FoundOK, OffOK
  <1> QED
    BY <1>8, <1>9, <1>10

LEMMA Purge_Inv ==
  ASSUME AlertInv, Purge
  PROVE  AlertInv'
  <1> USE DEF AlertInv
  <1>1. /\ UNCHANGED <<clock, known, status, clientVars, batch, loaded, found,
                       reminded, off>>
        /\ place' = "top"
    BY DEF Purge, Goto
  <1> DEFINE Over(r) == \/ table[r].deleted
                        \/ (table[r].fired /\ StartTime[r.showing] < clock)
  <1>2. table' = [r \in Rows |-> IF Over(r)
                                 THEN [table[r] EXCEPT !.gone = TRUE]
                                 ELSE table[r]]
    BY DEF Purge
  <1>3. table \in [Rows -> RowRecord]
    BY DEF TableOK
  <1> HIDE DEF Over
  <1>4. \A record \in RowRecord : [record EXCEPT !.gone = TRUE] \in RowRecord
    BY DEF RowRecord
  <1>5. table' \in [Rows -> RowRecord] /\ Rows' = Rows
    BY <1>2, <1>3, <1>4 DEF Rows
  <1>6. \A r \in Rows : table'[r].gone \/ table'[r] = table[r]
    BY <1>2, <1>3 DEF RowRecord
  <1>7. Unfired' \subseteq Unfired
    BY <1>5, <1>6 DEF Unfired, Live
  <1>8. /\ TableOK' /\ TransactionsOK' /\ RemindedOK' /\ OverlapOK'
        /\ OneUnfiredRow' /\ Rows' = Rows
    BY <1>1, <1>5, <1>7, Shrinking DEF TableOK, clientVars
  <1>9. BatchOK' /\ FoundOK' /\ OffOK'
    BY <1>1, <1>8 DEF BatchOK, FoundOK, OffOK, Time
  <1> QED
    BY <1>8, <1>9

LEMMA Crash_Inv ==
  ASSUME AlertInv, Crash
  PROVE  AlertInv'
  <1> USE DEF AlertInv
  <1>1. /\ UNCHANGED <<clock, known, status, table, overlapped, reminded, off>>
        /\ web' = NoTransaction /\ night' = NoTransaction
        /\ batch' = {} /\ loaded' = "no" /\ place' = "down"
    BY DEF Crash, tableVars
  <1>2. TableOK' /\ RemindedOK' /\ OneUnfiredRow'
    BY <1>1, Quiet DEF TableOK
  <1>3. TransactionsOK' /\ OverlapOK'
    BY <1>1, NothingIsOK DEF TransactionsOK, OverlapOK, StillMissing,
                             NoTransaction
  <1>4. BatchOK' /\ FoundOK' /\ OffOK'
    BY <1>1 DEF BatchOK, FoundOK, OffOK
  <1> QED
    BY <1>2, <1>3, <1>4

LEMMA AlertStep_Inv == AlertInv /\ [Next]_vars => AlertInv'
  <1> SUFFICES ASSUME AlertInv, [Next]_vars
               PROVE  AlertInv'
    OBVIOUS
  <1>1. CASE Tick \/ EpgLoad
    BY <1>1, TimePasses_Inv
  <1>2. CASE WebRequest
    BY <1>2, Request_Inv
  <1>3. CASE WebEnd
    BY <1>3, WebEnd_Inv
  <1>4. CASE NightCheck \/ Night
    BY <1>4, Night_Inv
  <1>5. CASE \/ Top \/ Look \/ Test \/ Sleep \/ Timeout \/ Query \/ Fire
             \/ FireEnds \/ Abort \/ ExitGracefully \/ Restart
    BY <1>5, Reading_Inv
  <1>6. CASE Send \/ Skip \/ FailToSend
    BY <1>6, Handled_Inv DEF Send, Skip, FailToSend
  <1>7. CASE Purge
    BY <1>7, Purge_Inv
  <1>8. CASE Crash
    BY <1>8, Crash_Inv
  <1>9. CASE UNCHANGED vars
    <2>1. UNCHANGED <<clientVars, place, loaded, found, batch, off>>
      BY <1>9 DEF vars, threadVars
    <2>2. UNCHANGED <<clock, known, status, table, reminded>>
      BY <1>9 DEF vars, tableVars
    <2>3. Rows' = Rows
      BY <2>2 DEF Rows
    <2>4. BatchOK' /\ FoundOK' /\ OffOK'
      BY <2>1, <2>2, <2>3 DEF AlertInv, BatchOK, FoundOK, OffOK, Time
    <2> QED
      BY <2>1, <2>2, <2>4, QuietThread DEF AlertInv, TableOK
  <1> QED
    BY <1>1, <1>2, <1>3, <1>4, <1>5, <1>6, <1>7, <1>8, <1>9 DEF Next, Thread

LEMMA AlertInvariant == Spec => []AlertInv
  BY Init_AlertInv, AlertStep_Inv, PTL DEF Spec

-----------------------------------------------------------------------------
(* Types.                                                                  *)

ScopeOK ==
    /\ place \in Places /\ isActive \in BOOLEAN
    /\ batch # {} => place \in {"fire", "decide"}
    /\ found # NothingFound <=> place = "decide"

BoundsOK ==
    /\ clock \in 0..MaxTime /\ Cardinality(Rows) <= MaxRows
    /\ nights \in 0..MaxNights /\ asked \in 0..MaxRequests
    /\ crashes \in 0..MaxCrashes

\* Until the reminder is created, nothing is there that belongs to it and
\* nothing is about to be but by its creation: a row at hand whose ProgramAlert
\* is loaded has one.
NotBeforeCreated ==
    /\ status = "none" =>
          /\ \A r \in Rows : r.manual
          /\ night.pc # "open"
          /\ web.pc = "open" => web.status = "enabled" \/ web.adds = {}
    /\ loaded # "none"

TypeInv == ScopeOK /\ BoundsOK /\ NotBeforeCreated

LEMMA Init_TypeInv == Init => TypeInv
  <1> SUFFICES ASSUME Init
               PROVE  TypeInv
    OBVIOUS
  <1>1. Rows = {}
    BY DEF Init, Rows
  <1>2. Cardinality(Rows) = 0
    BY <1>1, FS_EmptySet
  <1> QED
    BY <1>1, <1>2, PendingAssumption
       DEF PendingAssumption, Init, TypeInv, ScopeOK, BoundsOK,
           NotBeforeCreated, Places, NothingFound, NoTransaction

\* Steps of the thread and of the site.
LEMMA ScopeStep ==
  ASSUME ScopeOK, [Next]_vars
  PROVE  ScopeOK'
  <1>1. CASE Tick \/ EpgLoad \/ WebRequest \/ NightCheck
    BY <1>1 DEF ScopeOK, Tick, EpgLoad, WebRequest, CreateProgramAlert,
           DisableProgramAlert, EnableProgramAlert, DeleteProgramAlert,
           DeleteAlerts, SetScheduledOn, SetScheduledOff, Ask, NightCheck,
           threadVars
  <1>2. CASE WebEnd \/ Night
    BY <1>2 DEF ScopeOK, WebEnd, WebCommit, WebRollback, WebNotify, Night,
           NightNotify, NightCommit, NightPurge, WakeUp, threadVars, Places
  <1>3. CASE Top \/ Look \/ Test \/ Sleep \/ Timeout \/ Restart
    BY <1>3 DEF ScopeOK, Top, Look, Test, Sleep, Timeout, Restart, Goto,
           Places
  <1>4. CASE Query \/ FireEnds \/ Purge \/ Abort \/ ExitGracefully \/ Crash
    BY <1>4 DEF ScopeOK, Query, FireEnds, Purge, Abort, ExitGracefully, Crash,
           Goto, Places, WakeUp, LeftOver
  <1>5. CASE Fire
    <2>1. \A row, st : [row |-> row, status |-> st] # NothingFound
      <3>1. DOMAIN NothingFound = {"status"}
        BY DEF NothingFound
      <3>2. \A row, st : DOMAIN [row |-> row, status |-> st]
                            = {"row", "status"}
        OBVIOUS
      <3> QED
        BY <3>1, <3>2
    <2> QED
      BY <1>5, <2>1 DEF ScopeOK, Fire, Goto, Places
  <1>6. CASE Send \/ Skip \/ FailToSend
    BY <1>6 DEF ScopeOK, Send, Skip, FailToSend, Handled, Goto, Places
  <1>7. CASE UNCHANGED vars
    BY <1>7 DEF ScopeOK, vars, threadVars
  <1> QED
    BY <1>1, <1>2, <1>3, <1>4, <1>5, <1>6, <1>7 DEF Next, Thread

\* Only a commit adds rows, and it asks whether there is room.
LEMMA BoundsStep ==
  ASSUME BoundsOK, AlertInv, [Next]_vars
  PROVE  BoundsOK'
  <1> USE PendingAssumption DEF PendingAssumption, BoundsOK
  <1>1. CASE Tick \/ EpgLoad
    BY <1>1 DEF Tick, EpgLoad, tableVars, clientVars, Rows
  <1>2. CASE WebRequest \/ NightCheck
    <2>1. WebRequest => /\ UNCHANGED <<clock, table, nights, crashes>>
                        /\ asked < MaxRequests /\ asked' = asked + 1
      BY DEF WebRequest, CreateProgramAlert, DisableProgramAlert,
             EnableProgramAlert, DeleteProgramAlert, DeleteAlerts,
             SetScheduledOn, SetScheduledOff, Ask, tableVars
    <2>2. NightCheck => /\ UNCHANGED <<clock, table, asked, crashes>>
                        /\ nights < MaxNights /\ nights' = nights + 1
      BY DEF NightCheck, tableVars
    <2> QED
      BY <1>2, <2>1, <2>2 DEF Rows
  <1>3. CASE WebCommit \/ NightCommit
    BY <1>3 DEF WebCommit, NightCommit, Commit, Written, Rows
  <1>4. CASE WebRollback \/ WebNotify \/ NightNotify \/ NightPurge
    BY <1>4 DEF WebRollback, WebNotify, NightNotify, NightPurge, tableVars,
           Rows
  <1>5. CASE \/ Top \/ Look \/ Test \/ Sleep \/ Timeout \/ Query \/ Fire
             \/ FireEnds \/ Abort \/ ExitGracefully \/ Restart
    BY <1>5 DEF Top, Look, Test, Sleep, Timeout, Query, Fire, FireEnds,
           Abort, ExitGracefully, Restart, tableVars, clientVars, Rows
  <1>6. CASE Send \/ Skip \/ FailToSend \/ Purge
    BY <1>6 DEF Send, Skip, FailToSend, Handled, Mark, Purge, clientVars, Rows
  <1>7. CASE Crash
    BY <1>7 DEF Crash, tableVars, Rows
  <1>8. CASE UNCHANGED vars
    BY <1>8 DEF vars, tableVars, clientVars, Rows
  <1> QED
    BY <1>1, <1>2, <1>3, <1>4, <1>5, <1>6, <1>7, <1>8
       DEF Next, Thread, WebEnd, Night

LEMMA CreatedStep ==
  ASSUME NotBeforeCreated, AlertInv, [Next]_vars
  PROVE  NotBeforeCreated'
  <1> USE DEF NotBeforeCreated
  <1>1. CASE Tick \/ EpgLoad
    BY <1>1 DEF Tick, EpgLoad, tableVars, clientVars, threadVars, Rows
  <1>2. CASE WebRequest
    <2>1. UNCHANGED <<status, table, night, loaded>> /\ Rows' = Rows
      BY <1>2 DEF WebRequest, CreateProgramAlert, DisableProgramAlert,
             EnableProgramAlert, DeleteProgramAlert, DeleteAlerts,
             SetScheduledOn, SetScheduledOff, Ask, tableVars, threadVars,
             Rows
    <2>2. status # "none" \/ web'.status = "enabled" \/ web'.adds = {}
      <3>1. \A manual, deletes, notifies :
               /\ Transaction("enabled", Missing, manual, deletes,
                              notifies).status = "enabled"
               /\ Transaction(Untouched, {}, manual, deletes,
                              notifies).adds = {}
        BY DEF Transaction
      <3>2. CASE CreateProgramAlert
        <4>1. web' = Transaction("enabled", Missing, {}, <<>>, Notifies)
          BY <3>2 DEF CreateProgramAlert, Ask
        <4>2. Transaction("enabled", Missing, {}, <<>>, Notifies).status
              = "enabled"
          BY <3>1
        <4> QED
          BY <4>1, <4>2
      <3>3. CASE \/ DisableProgramAlert \/ EnableProgramAlert
                 \/ DeleteProgramAlert \/ DeleteAlerts
        BY <3>3 DEF DisableProgramAlert, EnableProgramAlert,
                    DeleteProgramAlert, DeleteAlerts
      <3>4. CASE \E s \in known : SetScheduledOn(s) \/ SetScheduledOff(s)
        <4>1. \E manual, deletes :
                 web' = Transaction(Untouched, {}, manual, deletes, FALSE)
          BY <3>4, Zenon DEF SetScheduledOn, SetScheduledOff, Ask
        <4> QED
          BY <3>1, <4>1, Zenon
      <3> QED
        BY <1>2, <3>2, <3>3, <3>4 DEF WebRequest
    <2> QED
      BY <2>1, <2>2
  <1>3. CASE NightCheck
    BY <1>3 DEF NightCheck, tableVars, threadVars, Rows
  <1>4. CASE WebCommit
    <2>1. /\ TransactionOK(web) /\ web.pc = "open"
          /\ web' = NoTransaction \/ web'.pc = "done"
      BY <1>4 DEF WebCommit, AlertInv, TransactionsOK, TransactionOK
    <2>2. /\ UNCHANGED <<night, loaded>> /\ web'.pc # "open"
          /\ Rows' = Rows \union NewKeys(web)
          /\ status' = IF web.status = Untouched THEN status ELSE web.status
      BY <1>4, <2>1 DEF WebCommit, threadVars, NoTransaction, StatusWritten,
                        Commit, Written, Rows
    <2>3. web.status \in Writes
      BY <2>1 DEF TransactionOK
    <2>4. status' = "none" => status = "none" /\ web.status = Untouched
      BY <2>2, <2>3 DEF Writes, Untouched
    <2>5. status' = "none" => web.adds = {}
      BY <2>1, <2>4 DEF Untouched
    <2>6. web.adds = {} => \A r \in NewKeys(web) : r.manual
      <3>1. \A s : NewKey(s, TRUE).manual = TRUE
        BY DEF NewKey, Key
      <3>2. web.adds = {} => NewKeys(web) = {NewKey(s, TRUE) : s \in web.manual}
        BY DEF NewKeys
      <3> QED
        BY <3>1, <3>2
    <2> QED
      BY <2>2, <2>4, <2>5, <2>6
  <1>5. CASE NightCommit
    <2>1. night.pc = "open" /\ UNCHANGED <<status, loaded>>
      BY <1>5 DEF NightCommit, threadVars
    <2> QED
      BY <2>1
  <1>6. CASE WebRollback \/ WebNotify
    BY <1>6 DEF WebRollback, WebNotify, tableVars, threadVars, Rows,
                NoTransaction
  <1>7. CASE NightNotify \/ NightPurge
    BY <1>7 DEF NightNotify, NightPurge, tableVars, threadVars, Rows,
                NoTransaction
  <1>8. CASE Fire
    <2>1. /\ UNCHANGED <<status, table, web, night>> /\ Rows' = Rows
          /\ \E r \in batch :
                loaded' = IF r.manual THEN loaded ELSE LoadedStatus
      BY <1>8 DEF Fire, tableVars, clientVars, Rows
    <2>2. batch \subseteq Rows
      BY DEF AlertInv, BatchOK
    <2> QED
      BY <2>1, <2>2 DEF LoadedStatus
  <1>9. CASE \/ Top \/ Look \/ Test \/ Sleep \/ Timeout \/ Query
             \/ FireEnds \/ Abort \/ ExitGracefully \/ Restart
    BY <1>9 DEF Top, Look, Test, Sleep, Timeout, Query, FireEnds, Abort,
           ExitGracefully, Restart, tableVars, clientVars, Rows
  <1>10. CASE Send \/ Skip \/ FailToSend \/ Purge
    BY <1>10 DEF Send, Skip, FailToSend, Handled, Mark, Purge, clientVars,
                 Rows
  <1>11. CASE Crash
    BY <1>11 DEF Crash, tableVars, Rows, NoTransaction
  <1>12. CASE UNCHANGED vars
    BY <1>12 DEF vars, tableVars, clientVars, threadVars, Rows
  <1> QED
    BY <1>1, <1>2, <1>3, <1>4, <1>5, <1>6, <1>7, <1>8, <1>9, <1>10, <1>11,
       <1>12 DEF Next, Thread, WebEnd, Night

\* Types hold, the bounds are kept, what the thread's loop holds is there only
\* where it is in scope, and no ProgramAlert is loaded before there is one.
THEOREM AlertsTyped == Spec => []TypeOK
  <1>1. TypeInv /\ AlertInv /\ [Next]_vars => TypeInv'
    BY ScopeStep, BoundsStep, CreatedStep DEF TypeInv
  <1>2. TypeInv /\ AlertInv => TypeOK
    BY DEF TypeInv, ScopeOK, BoundsOK, NotBeforeCreated, AlertInv, TableOK,
           RemindedOK, BatchOK, FoundOK, Statuses, TypeOK
  <1> QED
    BY <1>1, <1>2, Init_TypeInv, AlertInvariant, PTL DEF Spec

-----------------------------------------------------------------------------

\* A row makes its messages once, however requests, the nightly check, the
\* thread's failures and crashes fall together.
THEOREM OnceForEachRow == Spec => []RemindedOnce
  <1>1. AlertInv => RemindedOnce
    BY DEF AlertInv, RemindedOK, RemindedOnce
  <1> QED
    BY <1>1, AlertInvariant, PTL

\* No row makes its messages before its alert time, whoever wakes the thread.
THEOREM NeverTooEarly == Spec => []NotAheadOfTime
  <1>1. AlertInv => NotAheadOfTime
    BY DEF AlertInv, RemindedOK, NotAheadOfTime
  <1> QED
    BY <1>1, AlertInvariant, PTL

\* Transactions that do not overlap leave at most one row to be fired of each
\* showing, though checkIfPending compares a new row with fired ones as well.
THEOREM OneRowToFire == Spec => []OneUnfiredRow
  <1>1. AlertInv => OneUnfiredRow
    BY DEF AlertInv
  <1> QED
    BY <1>1, AlertInvariant, PTL

LEMMA SilentStep ==
  ASSUME AlertInv, [Next]_vars,
         NEW r \in Rows, ~r.manual, reminded'[r] > reminded[r]
  PROVE  ~off
  <1>1. reminded[r] \in Nat
    BY DEF AlertInv, RemindedOK
  <1>2. reminded'[r] # reminded[r]
    BY <1>1
  <1>3. ~UNCHANGED reminded
    BY <1>2
  <1>4. CASE WebCommit \/ NightCommit
    <2>1. reminded'[r] = reminded[r]
      BY <1>4 DEF WebCommit, NightCommit, Commit, Written, Rows
    <2> QED
      BY <1>2, <2>1
  <1>5. CASE Send
    <2>1. /\ place = "decide" /\ StatusIsValid
          /\ reminded' = [reminded EXCEPT ![found.row] = @ + 1]
      BY <1>5 DEF Send, Handled, Goto
    <2>2. found.row = r
      BY <1>2, <2>1
    <2>3. found.status = "enabled"
      BY <2>1, <2>2 DEF AlertInv, FoundOK, StatusIsValid
    <2> QED
      BY <2>1, <2>3 DEF AlertInv, OffOK
  <1> QED
    <2>1. Next
      BY <1>3 DEF vars
    <2> QED
      BY <1>3, <1>4, <1>5, <2>1
         DEF Next, Tick, EpgLoad, WebRequest, CreateProgramAlert,
             DisableProgramAlert, EnableProgramAlert, DeleteProgramAlert,
             DeleteAlerts, SetScheduledOn, SetScheduledOff, Ask, WebEnd,
             WebRollback, WebNotify, NightCheck, Night, NightNotify,
             NightPurge, Thread, Top, Look, Test, Sleep, Timeout, Query, Fire,
             FireEnds, Skip, FailToSend, Purge, Abort, ExitGracefully, Crash,
             Restart

\* A reminder that has been off since the thread took its rows makes no
\* message: the status the thread goes by was loaded after that.
THEOREM SilentWhileOff == Spec => OffMeansSilent
  <1>1. AlertInv /\ [Next]_vars =>
           [\A r \in Rows : (~r.manual /\ r \in DOMAIN reminded'
                             /\ reminded'[r] > reminded[r]) => ~off]_vars
    BY SilentStep
  <1> QED
    BY <1>1, AlertInvariant, PTL DEF Spec, OffMeansSilent
=============================================================================
