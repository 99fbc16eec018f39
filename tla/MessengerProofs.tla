--------------------------- MODULE MessengerProofs ---------------------------
(***************************************************************************)
(* Theorems about Messenger, for any messages, block size and number of    *)
(* attempts, and any failures.                                             *)
(*                                                                         *)
(* What the mail server has done is counted in the history variables; what *)
(* the sender knows of it is in the rows, and a rollback takes that back.  *)
(* Kept bounds the counts by a row as the open transaction has it, Stands  *)
(* by the committed row: there the notes of one block may be missing, and  *)
(* only for a message that was taken from the block.                       *)
(***************************************************************************)
EXTENDS Messenger, TLAPS

RowsOK ==
    /\ Stored \subseteq Messages /\ table \in [Stored -> Row]
    /\ DOMAIN memory \subseteq Stored /\ memory \in [DOMAIN memory -> Row]
    /\ block \subseteq DOMAIN memory
    /\ transported \in [Messages -> Nat] /\ tried \in [Messages -> Nat]
    /\ failures \in Nat /\ unsure \in Nat

InBlock == place \in {"send", "mail"}

SessionOK == ~InBlock => DOMAIN memory = {} /\ loadedUser = "none"

Done(row) == row.sent # "none" \/ row.gone

Sendable(row) == ~Done(row) /\ row.attempts < MaxAttempts

\* What is in the block or at hand is to be sent, as memory has it.
BlockOK ==
    /\ \A m \in block : Sendable(memory[m])
    /\ place = "mail" =>
          /\ current \in DOMAIN memory \ block /\ Sendable(memory[current])

Bounded(m) ==
    /\ transported[m] <= 1 + failures + unsure
    /\ tried[m] <= MaxAttempts + failures

Kept(m) ==
    (m \in DOMAIN memory /\ ~Done(memory[m])) =>
        /\ transported[m] <= failures + unsure
        /\ tried[m] <= failures + memory[m].attempts

Taken(m) == /\ m \in DOMAIN memory \ block
            /\ ~(place = "mail" /\ m = current)

Stands(m) ==
    (m \in Stored /\ ~Done(table[m])) =>
        /\ transported[m] <= failures + unsure + (IF Taken(m) THEN 1 ELSE 0)
        /\ tried[m] <= failures + table[m].attempts
                                + (IF Taken(m) THEN 1 ELSE 0)

Unknown(m) == m \notin Stored => transported[m] = 0 /\ tried[m] = 0

CountsOK == \A m \in Messages : Bounded(m) /\ Kept(m) /\ Stands(m) /\ Unknown(m)

\* While the account has been disabled, the session has no other user.
BarredOK ==
    barred => /\ user = "disabled" /\ loadedUser \in {"none", "disabled"}
              /\ place = "mail" => current \notin Owned

SenderInv == RowsOK /\ SessionOK /\ BlockOK /\ CountsOK /\ BarredOK

-----------------------------------------------------------------------------

LEMMA NewRowIsRow == NewRow \in Row /\ ~Done(NewRow) /\ NewRow.attempts = 0
  BY MessengerAssumption DEF MessengerAssumption, NewRow, Row, Dates, Done

LEMMA AgedIsRow ==
  ASSUME NEW row \in Row
  PROVE  /\ Aged(row) \in Row /\ Aged(row).attempts = row.attempts
         /\ Done(Aged(row)) <=> Done(row)
  BY DEF Row, Aged, Older, Dates, Done

LEMMA SenderInit_Inv == MsgInit => SenderInv
  BY MessengerAssumption
     DEF MessengerAssumption, MsgInit, SenderInv, RowsOK, SessionOK, BlockOK,
         CountsOK, BarredOK, InBlock, Bounded, Kept, Stands, Unknown, Stored

\* Steps that leave rows, counts and the block alone.
LEMMA Idle ==
  ASSUME SenderInv,
         UNCHANGED <<table, memory, block, current, loadedUser, historyVars,
                     failures>>,
         \/ UNCHANGED place
         \/ ~InBlock /\ ~InBlock',
         barred' => barred /\ user' = "disabled"
  PROVE  SenderInv'
  <1> USE DEF SenderInv
  <1>1. RowsOK'
    BY DEF RowsOK, Stored, historyVars
  <1>2. SessionOK'
    BY DEF SessionOK, InBlock
  <1>3. BlockOK'
    BY DEF BlockOK, InBlock
  <1>4. CountsOK'
    <2>1. \A m \in Messages : Taken(m)' <=> Taken(m)
      BY DEF Taken, InBlock, SessionOK
    <2> QED
      BY <2>1 DEF CountsOK, Bounded, Kept, Stands, Unknown, Stored,
                  historyVars
  <1>5. BarredOK'
    BY DEF BarredOK, InBlock
  <1> QED
    BY <1>1, <1>2, <1>3, <1>4, <1>5

\* The notes of the block are lost.
LEMMA Lost ==
  ASSUME SenderInv, Forget, failures' = failures + 1,
         UNCHANGED <<user, table, historyVars, barred>>, ~InBlock'
  PROVE  SenderInv'
  <1> USE DEF SenderInv
  <1>1. /\ DOMAIN memory' = {} /\ block' = {} /\ loadedUser' = "none"
        /\ memory' = <<>>
    BY DEF Forget
  <1>2. RowsOK'
    BY <1>1 DEF RowsOK, Stored, historyVars
  <1>3. SessionOK' /\ BlockOK' /\ BarredOK'
    BY <1>1 DEF SessionOK, BlockOK, BarredOK, InBlock
  <1>4. CountsOK'
    <2> SUFFICES ASSUME NEW m \in Messages
                 PROVE  (Bounded(m) /\ Kept(m) /\ Stands(m) /\ Unknown(m))'
      BY DEF CountsOK
    <2>1. /\ transported[m] \in Nat /\ tried[m] \in Nat
          /\ failures \in Nat /\ unsure \in Nat
          /\ m \in Stored => table[m].attempts \in Nat
      BY MessengerAssumption DEF RowsOK, Row, MessengerAssumption
    <2>2. Bounded(m) /\ Stands(m) /\ Unknown(m)
      BY DEF CountsOK
    <2>3. (Bounded(m) /\ Unknown(m))'
      BY <2>1, <2>2, MessengerAssumption
         DEF Bounded, Unknown, Stored, historyVars, MessengerAssumption
    <2>4. Kept(m)'
      BY <1>1 DEF Kept
    <2>5. Stands(m)'
      BY <1>1, <2>1, <2>2 DEF Stands, Taken, Stored, historyVars
    <2> QED
      BY <2>3, <2>4, <2>5
  <1> QED
    BY <1>2, <1>3, <1>4

-----------------------------------------------------------------------------

LEMMA Insert_Inv ==
  ASSUME SenderInv, NEW m \in Messages, Insert(m)
  PROVE  SenderInv'
  <1> USE DEF SenderInv
  <1>1. /\ m \notin Stored
        /\ table' = [k \in Stored \union {m} |-> IF k = m THEN NewRow
                                                 ELSE table[k]]
        /\ UNCHANGED <<user, place, memory, block, current, loadedUser,
                       transported, tried, unsure, barred,
                       failures>>
    BY DEF Insert, senderVars, historyVars
  <1>2. /\ Stored' = Stored \union {m} /\ table'[m] = NewRow
        /\ \A k \in Stored : table'[k] = table[k]
    BY <1>1 DEF Stored
  <1>3. RowsOK'
    <2>1. \A k \in Stored' : table'[k] \in Row
      BY <1>2, NewRowIsRow DEF RowsOK
    <2>2. table' \in [Stored' -> Row]
      BY <1>1, <1>2, <2>1
    <2> QED
      BY <1>1, <1>2, <2>2 DEF RowsOK
  <1>4. SessionOK' /\ BlockOK' /\ BarredOK'
    BY <1>1 DEF SessionOK, BlockOK, BarredOK, InBlock
  <1>5. CountsOK'
    <2> SUFFICES ASSUME NEW k \in Messages
                 PROVE  (Bounded(k) /\ Kept(k) /\ Stands(k) /\ Unknown(k))'
      BY DEF CountsOK
    <2>1. Bounded(k) /\ Kept(k) /\ Stands(k) /\ Unknown(k)
      BY DEF CountsOK
    <2>2. (Bounded(k) /\ Kept(k) /\ Unknown(k))'
      BY <1>1, <1>2, <2>1 DEF Bounded, Kept, Unknown
    <2>3. Stands(k)'
      <3>1. CASE k = m
        <4>1. ~Taken(m)'
          BY <1>1, <1>2 DEF RowsOK, Taken
        <4> QED
          BY <1>1, <1>2, <2>1, <3>1, <4>1, NewRowIsRow
             DEF Stands, Unknown, RowsOK
      <3>2. CASE k # m
        BY <1>1, <1>2, <2>1, <3>2 DEF Stands, Taken
      <3> QED
        BY <3>1, <3>2
    <2> QED
      BY <2>2, <2>3
  <1> QED
    BY <1>3, <1>4, <1>5

LEMMA TimePasses_Inv ==
  ASSUME SenderInv, NEW m \in Messages, TimePasses(m)
  PROVE  SenderInv'
  <1> USE DEF SenderInv
  <1>1. /\ m \in Stored
        /\ table' = [table EXCEPT ![m] = Aged(@)]
        /\ memory' = [k \in DOMAIN memory |-> IF k = m THEN Aged(memory[k])
                                              ELSE memory[k]]
        /\ UNCHANGED <<user, place, block, current, loadedUser, transported,
                       tried, unsure, barred, failures>>
    BY DEF TimePasses, There, historyVars
  <1>2. Stored' = Stored /\ DOMAIN memory' = DOMAIN memory
    BY <1>1 DEF Stored
  <1>3. \A k \in Stored :
           /\ table'[k] \in Row /\ table'[k].attempts = table[k].attempts
           /\ Done(table'[k]) <=> Done(table[k])
    BY <1>1, AgedIsRow DEF RowsOK
  <1>4. \A k \in DOMAIN memory :
           /\ memory'[k] \in Row /\ memory'[k].attempts = memory[k].attempts
           /\ Done(memory'[k]) <=> Done(memory[k])
    BY <1>1, AgedIsRow DEF RowsOK
  <1>5. RowsOK'
    <2>1. table' \in [Stored' -> Row] /\ memory' \in [DOMAIN memory' -> Row]
      BY <1>1, <1>2, <1>3, <1>4 DEF RowsOK
    <2> QED
      BY <1>1, <1>2, <2>1 DEF RowsOK
  <1>6. SessionOK' /\ BarredOK'
    BY <1>1, <1>2 DEF SessionOK, BarredOK, InBlock
  <1>7. BlockOK'
    BY <1>1, <1>2, <1>4 DEF BlockOK, Sendable, RowsOK
  <1>8. CountsOK'
    <2> SUFFICES ASSUME NEW k \in Messages
                 PROVE  (Bounded(k) /\ Kept(k) /\ Stands(k) /\ Unknown(k))'
      BY DEF CountsOK
    <2>1. Bounded(k) /\ Kept(k) /\ Stands(k) /\ Unknown(k)
      BY DEF CountsOK
    <2> QED
      BY <1>1, <1>2, <1>3, <1>4, <2>1
         DEF Bounded, Kept, Stands, Taken, Unknown
  <1> QED
    BY <1>5, <1>6, <1>7, <1>8

LEMMA Begin_Inv ==
  ASSUME SenderInv, Begin
  PROVE  SenderInv'
  <1> USE DEF SenderInv
  <1> DEFINE Deleted == [NewRow EXCEPT !.gone = TRUE]
  <1>1. /\ place = "begin" /\ place' = "send"
        /\ UNCHANGED <<user, table, loadedUser, transported, tried, unsure,
                       failures>>
        /\ barred' = (user = "disabled")
    BY DEF Begin, Goto, historyVars
  <1>2. DOMAIN memory = {} /\ loadedUser = "none"
    BY <1>1 DEF SessionOK, InBlock
  <1>3. Stored' = Stored /\ There \subseteq Stored
    BY <1>1 DEF Stored, There
  <1>4. /\ DOMAIN memory' = There
        /\ memory' = [m \in There |-> memory'[m]]
        /\ \A m \in There : memory'[m] \in {table[m], Deleted}
    BY DEF Begin
  <1>5. Deleted \in Row /\ Done(Deleted)
    BY NewRowIsRow DEF Row, Done
  <1>6. block' \subseteq {m \in There : ~memory'[m].gone
                                        /\ IsUnsent(memory'[m])}
    BY DEF Begin, Blocks
  <1> HIDE DEF Deleted
  <1>7. RowsOK'
    <2>1. \A m \in There : memory'[m] \in Row
      BY <1>3, <1>4, <1>5 DEF RowsOK
    <2>2. memory' \in [DOMAIN memory' -> Row]
      BY <1>4, <2>1
    <2> QED
      BY <1>1, <1>3, <1>4, <1>6, <2>2 DEF RowsOK
  <1>8. SessionOK' /\ BarredOK'
    BY <1>1, <1>2 DEF SessionOK, BarredOK, InBlock
  <1>9. BlockOK'
    BY <1>1, <1>6 DEF BlockOK, Sendable, Done, IsUnsent
  <1>10. CountsOK'
    <2> SUFFICES ASSUME NEW m \in Messages
                 PROVE  (Bounded(m) /\ Kept(m) /\ Stands(m) /\ Unknown(m))'
      BY DEF CountsOK
    <2>1. Bounded(m) /\ Stands(m) /\ Unknown(m) /\ ~Taken(m)
      BY <1>2 DEF CountsOK, Taken
    <2>2. (Bounded(m) /\ Unknown(m))'
      BY <1>1, <1>3, <2>1 DEF Bounded, Unknown
    <2>3. /\ transported[m] \in Nat /\ tried[m] \in Nat
          /\ failures \in Nat /\ unsure \in Nat
          /\ m \in Stored => table[m].attempts \in Nat
      BY MessengerAssumption DEF RowsOK, Row, MessengerAssumption
    <2>4. Kept(m)'
      BY <1>1, <1>3, <1>4, <1>5, <2>1, <2>3 DEF Kept, Stands
    <2>5. Stands(m)'
      BY <1>1, <1>3, <2>1, <2>3 DEF Stands
    <2> QED
      BY <2>2, <2>4, <2>5
  <1> QED
    BY <1>7, <1>8, <1>9, <1>10

\* What Take does to a row is neither a mark nor an attempt.
LEMMA Take_Inv ==
  ASSUME SenderInv, NEW m \in block, Take(m)
  PROVE  SenderInv'
  <1> USE DEF SenderInv
  <1>1. /\ place = "send" /\ block' = block \ {m}
        /\ UNCHANGED <<user, table, transported, tried, unsure, barred,
                       failures>>
        /\ loadedUser' = IF m \in Owned THEN UserNow ELSE loadedUser
    BY DEF Take, Goto, historyVars
  <1>2. m \in DOMAIN memory /\ memory[m] \in Row /\ Sendable(memory[m])
    BY DEF RowsOK, BlockOK
  <1>3. \/ /\ place' = "send" /\ UNCHANGED current
           /\ \E row \in Row :
                 /\ memory' = [memory EXCEPT ![m] = row]
                 /\ row.attempts = memory[m].attempts /\ ~Done(row)
        \/ /\ place' = "mail" /\ current' = m /\ UNCHANGED memory
           /\ ~Refused(m, UserNow)
    <2>1. PICK outside \in BOOLEAN, window \in {"past", "later"} :
            LET refused == Refused(m, UserNow)
                untimely == Untimely(m, UserNow, outside)
                row == IF refused THEN WithExpiry(memory[m]) ELSE memory[m]
            IN  IF refused \/ untimely
                THEN /\ Goto("send", "send")
                     /\ memory' = [memory EXCEPT ![m] =
                           IF untimely THEN [row EXCEPT !.deferUntil = window]
                           ELSE row]
                     /\ UNCHANGED current
                ELSE /\ Goto("send", "mail")
                     /\ current' = m
                     /\ UNCHANGED memory
      BY DEF Take
    <2> DEFINE row == IF Refused(m, UserNow) THEN WithExpiry(memory[m])
                      ELSE memory[m]
    <2> DEFINE written == IF Untimely(m, UserNow, outside)
                          THEN [row EXCEPT !.deferUntil = window] ELSE row
    <2>2. row \in Row /\ row.attempts = memory[m].attempts /\ ~Done(row)
      BY <1>2 DEF WithExpiry, Row, Dates, Done, Sendable
    <2>3. /\ written \in Row /\ written.attempts = memory[m].attempts
          /\ ~Done(written)
      <3> HIDE DEF row
      <3> QED
        BY <2>2 DEF Row, Dates, Done
    <2>4. CASE Refused(m, UserNow) \/ Untimely(m, UserNow, outside)
      <3>1. /\ Goto("send", "send") /\ UNCHANGED current
            /\ memory' = [memory EXCEPT ![m] = written]
        BY <2>1, <2>4
      <3> HIDE DEF written
      <3> QED
        BY <2>3, <3>1 DEF Goto
    <2>5. CASE ~(Refused(m, UserNow) \/ Untimely(m, UserNow, outside))
      BY <2>1, <2>5 DEF Goto
    <2> QED
      BY <2>4, <2>5
  <1>4. /\ DOMAIN memory' = DOMAIN memory
        /\ \A k \in DOMAIN memory :
              /\ memory'[k] \in Row
              /\ memory'[k].attempts = memory[k].attempts
              /\ Done(memory'[k]) <=> Done(memory[k])
    BY <1>2, <1>3 DEF RowsOK, Sendable
  <1>5. RowsOK'
    <2>1. memory' \in [DOMAIN memory' -> Row]
      BY <1>2, <1>3 DEF RowsOK
    <2> QED
      BY <1>1, <1>4, <2>1 DEF RowsOK, Stored
  <1>6. SessionOK'
    BY <1>3 DEF SessionOK, InBlock
  <1>7. BlockOK'
    BY <1>1, <1>2, <1>3, <1>4 DEF BlockOK, Sendable, RowsOK
  <1>8. CountsOK'
    <2> SUFFICES ASSUME NEW k \in Messages
                 PROVE  (Bounded(k) /\ Kept(k) /\ Stands(k) /\ Unknown(k))'
      BY DEF CountsOK
    <2>1. Bounded(k) /\ Kept(k) /\ Stands(k) /\ Unknown(k)
      BY DEF CountsOK
    <2>2. (Bounded(k) /\ Kept(k) /\ Unknown(k))'
      BY <1>1, <1>4, <2>1 DEF Bounded, Kept, Unknown, Stored
    <2>3. /\ transported[k] \in Nat /\ tried[k] \in Nat
          /\ failures \in Nat /\ unsure \in Nat
          /\ k \in Stored => table[k].attempts \in Nat
      BY MessengerAssumption DEF RowsOK, Row, MessengerAssumption
    <2>4. Taken(k) => Taken(k)'
      BY <1>1, <1>3, <1>4 DEF Taken
    <2>5. Stands(k)'
      BY <1>1, <2>1, <2>3, <2>4 DEF Stands, Stored
    <2> QED
      BY <2>2, <2>5
  <1>9. BarredOK'
    BY <1>1, <1>3 DEF BarredOK, UserNow, Refused
  <1> QED
    BY <1>5, <1>6, <1>7, <1>8, <1>9

\* The mail server accepts or refuses the message at hand, or its answer is lost.
LEMMA Mail_Inv ==
  ASSUME SenderInv, Transport \/ TransportFails \/ ReplyLost
  PROVE  SenderInv'
  <1> USE DEF SenderInv
  <1>0. PICK m : m = current
    OBVIOUS
  <1>1. /\ place = "mail" /\ place' = "send"
        /\ UNCHANGED <<user, table, block, loadedUser, barred, failures>>
        /\ tried' = [tried EXCEPT ![m] = @ + 1]
    BY <1>0 DEF Transport, TransportFails, ReplyLost, MailFails, Goto
  <1>2. /\ m \in DOMAIN memory \ block /\ memory[m] \in Row
        /\ Sendable(memory[m]) /\ m \in Messages /\ m \in Stored
    BY <1>0, <1>1 DEF RowsOK, BlockOK
  <1>3. PICK row \in Row :
           /\ memory' = [memory EXCEPT ![m] = row]
           /\ \/ /\ Done(row) /\ UNCHANGED unsure
                 /\ transported' = [transported EXCEPT ![m] = @ + 1]
              \/ /\ ~Done(row) /\ row.attempts = memory[m].attempts + 1
                 /\ UNCHANGED <<transported, unsure>>
              \/ /\ ~Done(row) /\ row.attempts = memory[m].attempts + 1
                 /\ transported' = [transported EXCEPT ![m] = @ + 1]
                 /\ unsure' = unsure + 1
    <2>1. CASE Transport
      <3>1. MarkedSent(memory[m]) \in Row /\ Done(MarkedSent(memory[m]))
        BY <1>2 DEF MarkedSent, Row, Dates, Done
      <3> QED
        BY <1>0, <2>1, <3>1 DEF Transport
    <2>2. CASE TransportFails \/ ReplyLost
      <3>1. /\ FailedAttempt(memory[m]) \in Row
            /\ ~Done(FailedAttempt(memory[m]))
            /\ FailedAttempt(memory[m]).attempts = memory[m].attempts + 1
        <4> DEFINE old == memory[m]
        <4>1. /\ old \in Row /\ ~Done(old)
              /\ old.attempts + 1 \in 0..MaxAttempts
          BY <1>2, MessengerAssumption
             DEF MessengerAssumption, Row, Sendable
        <4> HIDE DEF old
        <4> DEFINE expiry == IF old.attempts + 1 >= MaxAttempts THEN "past"
                             ELSE old.expires
        <4>2. expiry \in Dates
          BY <4>1 DEF Row, Dates
        <4>3. FailedAttempt(old) = [old EXCEPT !.attempts = old.attempts + 1,
                                               !.expires = expiry]
          BY DEF FailedAttempt
        <4> HIDE DEF expiry
        <4>4. /\ FailedAttempt(old) \in Row /\ ~Done(FailedAttempt(old))
              /\ FailedAttempt(old).attempts = old.attempts + 1
          BY <4>1, <4>2, <4>3 DEF Row, Done
        <4> QED
          BY <4>4 DEF old
      <3> QED
        BY <1>0, <2>2, <3>1 DEF TransportFails, ReplyLost, MailFails
    <2> QED
      BY <2>1, <2>2
  <1>4. /\ DOMAIN memory' = DOMAIN memory /\ memory'[m] = row
        /\ \A k \in DOMAIN memory \ {m} : memory'[k] = memory[k]
    BY <1>2, <1>3 DEF RowsOK
  <1>5. /\ tried \in [Messages -> Nat] /\ transported \in [Messages -> Nat]
        /\ failures \in Nat /\ MaxAttempts \in Nat /\ unsure \in Nat
        /\ unsure' \in {unsure, unsure + 1}
    BY <1>3, MessengerAssumption DEF RowsOK, MessengerAssumption
  <1>6. RowsOK'
    <2>1. memory' \in [DOMAIN memory' -> Row]
      BY <1>2, <1>3 DEF RowsOK
    <2>2. /\ tried[m] + 1 \in Nat /\ transported[m] + 1 \in Nat
          /\ tried' = [tried EXCEPT ![m] = tried[m] + 1]
          /\ transported' \in {transported, [transported EXCEPT ![m] =
                                               transported[m] + 1]}
      BY <1>1, <1>2, <1>3, <1>5
    <2>3. tried' \in [Messages -> Nat]
      BY <1>5, <2>2
    <2>4. transported' \in [Messages -> Nat]
      BY <1>5, <2>2
    <2> QED
      BY <1>1, <1>4, <1>5, <2>1, <2>3, <2>4 DEF RowsOK, Stored
  <1>7. SessionOK' /\ BarredOK'
    BY <1>1 DEF SessionOK, BarredOK, InBlock
  <1>8. BlockOK'
    BY <1>1, <1>2, <1>4 DEF BlockOK, RowsOK
  <1>9. CountsOK'
    <2> SUFFICES ASSUME NEW k \in Messages
                 PROVE  (Bounded(k) /\ Kept(k) /\ Stands(k) /\ Unknown(k))'
      BY DEF CountsOK
    <2>1. Bounded(k) /\ Kept(k) /\ Stands(k) /\ Unknown(k)
      BY DEF CountsOK
    <2>2. Stored' = Stored
      BY <1>1 DEF Stored
    <2>3. CASE k = m
      <3>1. /\ transported[m] \in Nat /\ tried[m] \in Nat
            /\ memory[m].attempts \in Nat /\ row.attempts \in Nat
            /\ memory[m].attempts < MaxAttempts
            /\ table[m].attempts \in Nat
        BY <1>2, <1>5 DEF Row, Sendable, RowsOK
      <3>2. /\ transported[m] <= failures + unsure
            /\ tried[m] <= failures + memory[m].attempts
        BY <1>2, <2>1, <2>3 DEF Kept, Sendable
      <3>3. ~Taken(m) /\ Taken(m)'
        BY <1>0, <1>1, <1>2, <1>4 DEF Taken
      <3>4. /\ tried'[m] = tried[m] + 1
            /\ \/ /\ Done(row) /\ transported'[m] = transported[m] + 1
                  /\ unsure' = unsure
               \/ /\ ~Done(row) /\ row.attempts = memory[m].attempts + 1
                  /\ transported'[m] = transported[m] /\ unsure' = unsure
               \/ /\ ~Done(row) /\ row.attempts = memory[m].attempts + 1
                  /\ transported'[m] = transported[m] + 1
                  /\ unsure' = unsure + 1
        BY <1>1, <1>2, <1>3, <1>5
      <3>5. Bounded(m)'
        BY <1>1, <1>5, <2>1, <2>3, <3>1, <3>2, <3>4 DEF Bounded
      <3>6. Kept(m)'
        BY <1>1, <1>4, <1>5, <3>1, <3>2, <3>4 DEF Kept
      <3>7. Stands(m)'
        BY <1>1, <1>5, <2>1, <2>2, <2>3, <3>1, <3>3, <3>4 DEF Stands
      <3>8. Unknown(m)'
        BY <1>2, <2>2 DEF Unknown
      <3> QED
        BY <2>3, <3>5, <3>6, <3>7, <3>8
    <2>4. CASE k # m
      <3>1. tried'[k] = tried[k] /\ transported'[k] = transported[k]
        BY <1>1, <1>3, <1>5, <2>4
      <3>2. Taken(k)' <=> Taken(k)
        BY <1>0, <1>1, <1>4, <2>4 DEF Taken
      <3>3. /\ transported[k] \in Nat /\ tried[k] \in Nat
            /\ k \in Stored => table[k].attempts \in Nat
            /\ k \in DOMAIN memory => memory[k].attempts \in Nat
        BY <1>5, MessengerAssumption DEF RowsOK, Row, MessengerAssumption
      <3>4. Kept(k)' /\ Bounded(k)' /\ Unknown(k)'
        BY <1>1, <1>4, <1>5, <2>1, <2>2, <2>4, <3>1, <3>3
           DEF Bounded, Kept, Unknown
      <3>5. Stands(k)'
        BY <1>1, <1>4, <1>5, <2>1, <2>2, <2>4, <3>1, <3>2, <3>3
           DEF Stands
      <3> QED
        BY <3>4, <3>5
    <2> QED
      BY <2>3, <2>4
  <1> QED
    BY <1>6, <1>7, <1>8, <1>9

LEMMA Commit_Inv ==
  ASSUME SenderInv, Commit
  PROVE  SenderInv'
  <1> USE DEF SenderInv
  <1>1. /\ place' = "wait" /\ memory' = <<>> /\ DOMAIN memory' = {}
        /\ block' = {} /\ loadedUser' = "none"
        /\ UNCHANGED <<user, transported, tried, unsure, barred,
                       failures>>
        /\ table' = [m \in Stored |-> IF m \in DOMAIN memory THEN memory[m]
                                      ELSE table[m]]
    BY DEF Commit, Forget, Goto, historyVars
  <1>2. Stored' = Stored
    BY <1>1 DEF Stored
  <1>3. RowsOK'
    <2>1. table' \in [Stored' -> Row]
      BY <1>1, <1>2 DEF RowsOK
    <2> QED
      BY <1>1, <1>2, <2>1 DEF RowsOK
  <1>4. SessionOK' /\ BlockOK' /\ BarredOK'
    BY <1>1 DEF SessionOK, BlockOK, BarredOK
  <1>5. CountsOK'
    <2> SUFFICES ASSUME NEW m \in Messages
                 PROVE  (Bounded(m) /\ Kept(m) /\ Stands(m) /\ Unknown(m))'
      BY DEF CountsOK
    <2>1. Bounded(m) /\ Kept(m) /\ Stands(m) /\ Unknown(m)
      BY DEF CountsOK
    <2>2. /\ transported[m] \in Nat /\ tried[m] \in Nat
          /\ failures \in Nat /\ unsure \in Nat
          /\ m \in Stored => table[m].attempts \in Nat
          /\ m \in DOMAIN memory => memory[m].attempts \in Nat
      BY MessengerAssumption DEF RowsOK, Row, MessengerAssumption
    <2>3. (Bounded(m) /\ Kept(m) /\ Unknown(m))'
      BY <1>1, <1>2, <2>1 DEF Bounded, Kept, Unknown
    <2>4. Stands(m)'
      <3>1. ~Taken(m)'
        BY <1>1 DEF Taken
      <3>2. CASE m \in DOMAIN memory
        BY <1>1, <1>2, <2>1, <2>2, <3>1, <3>2 DEF Stands, Kept
      <3>3. CASE m \notin DOMAIN memory
        BY <1>1, <1>2, <2>1, <2>2, <3>1, <3>3 DEF Stands, Taken
      <3> QED
        BY <3>2, <3>3
    <2> QED
      BY <2>3, <2>4
  <1> QED
    BY <1>3, <1>4, <1>5

LEMMA SenderStep_Inv == SenderInv /\ [MsgNext]_msgVars => SenderInv'
  <1> SUFFICES ASSUME SenderInv, [MsgNext]_msgVars
               PROVE  SenderInv'
    OBVIOUS
  <1>1. CASE \E m \in Messages : Insert(m) \/ TimePasses(m)
    BY <1>1, Insert_Inv, TimePasses_Inv
  <1>2. CASE \/ ChangeUser \/ Loop \/ BeginThrows \/ WaitEnds
             \/ Destroy \/ Restart \/ UNCHANGED msgVars
    <2>1. UNCHANGED <<table, memory, block, current, loadedUser, historyVars,
                      failures>>
      BY <1>2 DEF ChangeUser, Loop, BeginThrows, WaitEnds, Destroy,
                  Restart, msgVars, senderVars
    <2>2. \/ UNCHANGED place
          \/ ~InBlock /\ ~InBlock'
      BY <1>2 DEF ChangeUser, Loop, BeginThrows, WaitEnds, Destroy,
                  Restart, msgVars, senderVars, Goto, InBlock
    <2>3. barred' => barred /\ user' = "disabled"
      BY <1>2 DEF ChangeUser, Loop, BeginThrows, WaitEnds, Destroy,
                  Restart, msgVars, SenderInv, BarredOK
    <2> QED
      BY <2>1, <2>2, <2>3, Idle
  <1>3. CASE Begin
    BY <1>3, Begin_Inv
  <1>4. CASE \E m \in block : Take(m)
    BY <1>4, Take_Inv
  <1>5. CASE Transport \/ TransportFails \/ ReplyLost
    BY <1>5, Mail_Inv
  <1>6. CASE SendThrows \/ CommitFails \/ Crash
    BY <1>6, Lost DEF SendThrows, CommitFails, Crash, Fails, OneMore, Goto, InBlock
  <1>7. CASE Commit
    BY <1>7, Commit_Inv
  <1> QED
    BY <1>1, <1>2, <1>3, <1>4, <1>5, <1>6, <1>7 DEF MsgNext, Sender

LEMMA SenderInvariant == MsgSpec => []SenderInv
  BY SenderInit_Inv, SenderStep_Inv, PTL DEF MsgSpec

-----------------------------------------------------------------------------

\* Where the sender may be with rows in memory, a message at hand, and a
\* transaction left behind.
SenderScope ==
    /\ place \in Places /\ failures \in 0..MaxFailures
    /\ memory # <<>> => InBlock
    /\ (current # NoMessage) <=> (place = "mail")
    /\ stale \in Stales
    /\ stale # "none" => place \in {"wait", "top", "begin", "ended"}

LEMMA ScopeStep ==
  ASSUME SenderInv, SenderScope, [MsgNext]_msgVars
  PROVE  SenderScope'
  <1> USE DEF SenderScope, Goto, InBlock, Places, Stales
  <1>0. block \subseteq Messages
    BY DEF SenderInv, RowsOK
  <1>1. CASE \/ \E m \in Messages : Insert(m)
             \/ ChangeUser
             \/ UNCHANGED msgVars
    <2>1. UNCHANGED <<place, memory, current, stale, failures>>
      BY <1>1 DEF Insert, ChangeUser, msgVars, senderVars
    <2> QED
      BY <2>1
  <1>2. CASE \E m \in Messages : TimePasses(m)
    <2>1. PICK m \in Messages : TimePasses(m)
      BY <1>2
    <2>2. CASE memory = <<>>
      BY <2>1, <2>2 DEF TimePasses
    <2>3. CASE memory # <<>>
      BY <2>1, <2>3 DEF TimePasses
    <2> QED
      BY <2>2, <2>3
  <1>3. CASE Loop \/ BeginThrows \/ WaitEnds \/ Restart
    BY <1>3 DEF Loop, BeginThrows, WaitEnds, Restart, TimedOut
  <1>4. CASE Begin
    BY <1>4 DEF Begin
  <1>5. CASE \E m \in block : Take(m)
    BY <1>0, <1>5, MessengerAssumption DEF Take, MessengerAssumption
  <1>6. CASE Transport \/ TransportFails \/ ReplyLost
    BY <1>6 DEF Transport, TransportFails, ReplyLost, MailFails
  <1>7. CASE SendThrows \/ CommitFails \/ Crash
    <2>1. failures' \in 0..MaxFailures
      <3>1. /\ failures + unsure < MaxFailures /\ failures' = failures + 1
            /\ failures \in Nat /\ unsure \in Nat /\ MaxFailures \in Nat
        BY <1>7, MessengerAssumption
           DEF SendThrows, CommitFails, Crash, Fails, OneMore, SenderInv,
               RowsOK, MessengerAssumption
      <3> QED
        BY <3>1
    <2> QED
      BY <1>7, <2>1 DEF SendThrows, CommitFails, Crash, Forget
  <1>8. CASE Commit
    BY <1>8 DEF Commit, Forget
  <1>9. CASE Destroy
    BY <1>9 DEF Destroy
  <1> QED
    BY <1>1, <1>2, <1>3, <1>4, <1>5, <1>6, <1>7, <1>8, <1>9
       DEF MsgNext, Sender

\* Rows are rows, and what belongs to a block exists inside one only: no
\* rows in memory, message at hand or left transaction outlives it.
THEOREM MessagesTyped == MsgSpec => []MsgTypeOK
  <1>1. MsgInit => SenderScope
    BY MessengerAssumption
       DEF MessengerAssumption, MsgInit, SenderScope, Places, Stales, InBlock
  <1>2. SenderInv /\ SenderScope /\ [MsgNext]_msgVars => SenderScope'
    BY ScopeStep
  <1>3. SenderInv /\ SenderScope => MsgTypeOK
    BY DEF SenderInv, RowsOK, SenderScope, MsgTypeOK, InBlock
  <1> QED
    BY <1>1, <1>2, <1>3, SenderInvariant, PTL DEF MsgSpec

-----------------------------------------------------------------------------

\* The mail server accepts a message once, and once more at most for each
\* block whose notes were rolled back or lost in a crash, and for each time its
\* answer was lost.
THEOREM SentOnce == MsgSpec => []OnceButForFailures
  <1>1. SenderInv => OnceButForFailures
    BY DEF SenderInv, CountsOK, Bounded, OnceButForFailures
  <1> QED
    BY <1>1, SenderInvariant, PTL

\* The mail server is asked maxMessageAttempts times at most, with the same
\* exception: an attempt whose count was lost is made again.
THEOREM TriedBounded == MsgSpec => []AttemptsBounded
  <1>1. SenderInv => AttemptsBounded
    BY DEF SenderInv, CountsOK, Bounded, AttemptsBounded
  <1> QED
    BY <1>1, SenderInvariant, PTL

LEMMA BarredStep ==
  ASSUME SenderInv, [MsgNext]_msgVars,
         NEW m \in Owned, transported'[m] > transported[m]
  PROVE  ~barred
  <1>1. m \in Messages /\ transported[m] \in Nat
    BY MessengerAssumption DEF MessengerAssumption, SenderInv, RowsOK
  <1>2. transported'[m] # transported[m]
    BY <1>1
  <1>3. ~UNCHANGED transported
    BY <1>2
  <1>4. Transport \/ ReplyLost
    BY <1>3 DEF MsgNext, Insert, TimePasses, ChangeUser, Sender, Loop, Begin,
                BeginThrows, Take, TransportFails, MailFails, Commit,
                WaitEnds, SendThrows, CommitFails, Destroy, Crash, Restart,
                msgVars, historyVars
  <1>5. place = "mail" /\ transported' = [transported EXCEPT ![current] = @ + 1]
    BY <1>4 DEF Transport, ReplyLost, MailFails, Goto
  <1>6. current = m
    BY <1>2, <1>5
  <1> QED
    BY <1>5, <1>6 DEF SenderInv, BarredOK

\* No message goes out for an account that was disabled when the block was
\* taken and has been since: the session loads the user after that.
THEOREM SilentAccount == MsgSpec => NothingWhileDisabled
  <1>1. SenderInv /\ [MsgNext]_msgVars =>
           [\A m \in Owned : transported'[m] > transported[m] => ~barred]_msgVars
    BY BarredStep
  <1> QED
    BY <1>1, SenderInvariant, PTL DEF MsgSpec, NothingWhileDisabled
=============================================================================
