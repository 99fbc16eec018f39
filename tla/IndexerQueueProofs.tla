-------------------------- MODULE IndexerQueueProofs --------------------------
(***************************************************************************)
(* What holds of IndexerQueue for any number of actions and crashes and    *)
(* any choice of the failures: the thread and its queue keep their types,  *)
(* the indexer never sleeps on work, actions take effect in order and at   *)
(* most once, and the whole implements ActionLog.                          *)
(***************************************************************************)
EXTENDS IndexerQueue, SequenceTheorems, TLAPS

-----------------------------------------------------------------------------
(* Sequences of increasing numbers: what the steps do to them.             *)

LEMMA AppendIncreasing ==
    ASSUME NEW s \in Seq(Ids), NEW n \in Ids, Increasing(s),
           \A i \in 1..Len(s) : s[i] < n
    PROVE  Append(s, n) \in Seq(Ids) /\ Increasing(Append(s, n))
<1>1. /\ Append(s, n) \in Seq(Ids) /\ Len(Append(s, n)) = Len(s) + 1
      /\ \A i \in 1..Len(s) : Append(s, n)[i] = s[i]
      /\ Append(s, n)[Len(s) + 1] = n
  OBVIOUS
<1>2. SUFFICES ASSUME NEW i \in 1..Len(s) + 1, NEW j \in 1..Len(s) + 1, i < j
               PROVE  Append(s, n)[i] < Append(s, n)[j]
  BY <1>1 DEF Increasing
<1>3. i \in 1..Len(s) /\ (j \in 1..Len(s) \/ j = Len(s) + 1)
  BY <1>2
<1> QED BY <1>1, <1>2, <1>3 DEF Increasing

LEMMA TailIncreasing ==
    ASSUME NEW s \in Seq(Ids), s # <<>>, Increasing(s)
    PROVE  /\ Tail(s) \in Seq(Ids) /\ Increasing(Tail(s))
           /\ Head(s) \in Ids
           /\ \A i \in 1..Len(Tail(s)) : Head(s) < Tail(s)[i]
BY QueueAssumption DEF Increasing, Ids

LEMMA ConcatIncreasing ==
    ASSUME NEW s \in Seq(Ids), NEW t \in Seq(Ids),
           Increasing(s), Increasing(t), Before(s, t)
    PROVE  s \o t \in Seq(Ids) /\ Increasing(s \o t)
<1>1. s \o t \in Seq(Ids) /\ Len(s \o t) = Len(s) + Len(t)
  OBVIOUS
<1>2. \A i \in 1..Len(s) : (s \o t)[i] = s[i]
  OBVIOUS
<1>3. \A i \in Len(s)+1..Len(s)+Len(t) : (s \o t)[i] = t[i - Len(s)]
  OBVIOUS
<1>4. SUFFICES ASSUME NEW i \in 1..Len(s \o t), NEW j \in 1..Len(s \o t), i < j
               PROVE  (s \o t)[i] < (s \o t)[j]
  BY <1>1 DEF Increasing
<1>5. CASE j <= Len(s)
  <2>1. i \in 1..Len(s) /\ j \in 1..Len(s)
    BY <1>1, <1>4, <1>5
  <2> QED BY <1>2, <1>4, <2>1 DEF Increasing
<1>6. CASE i > Len(s)
  <2>1. /\ i \in Len(s)+1..Len(s)+Len(t) /\ j \in Len(s)+1..Len(s)+Len(t)
        /\ i - Len(s) \in 1..Len(t) /\ j - Len(s) \in 1..Len(t)
        /\ i - Len(s) < j - Len(s)
    BY <1>1, <1>4, <1>6
  <2> QED BY <1>3, <2>1 DEF Increasing
<1>7. CASE i <= Len(s) /\ j > Len(s)
  <2>1. /\ i \in 1..Len(s) /\ j \in Len(s)+1..Len(s)+Len(t)
        /\ j - Len(s) \in 1..Len(t)
    BY <1>1, <1>7
  <2> QED BY <1>2, <1>3, <2>1 DEF Before
<1> QED BY <1>1, <1>5, <1>6, <1>7

\* What precedes, or follows, both parts of a sequence does so for the whole.
LEMMA ConcatBefore ==
    ASSUME NEW r \in Seq(Ids), NEW s \in Seq(Ids), NEW t \in Seq(Ids)
    PROVE  /\ Before(r, s) /\ Before(r, t) => Before(r, s \o t)
           /\ Before(s, r) /\ Before(t, r) => Before(s \o t, r)
<1>1. s \o t \in Seq(Ids) /\ Len(s \o t) = Len(s) + Len(t)
  OBVIOUS
<1>2. \A i \in 1..Len(s \o t) :
        \/ i \in 1..Len(s) /\ (s \o t)[i] = s[i]
        \/ i - Len(s) \in 1..Len(t) /\ (s \o t)[i] = t[i - Len(s)]
  OBVIOUS
<1> QED BY <1>1, <1>2 DEF Before

\* The members of the sequences the steps build.
LEMMA AppendMembers ==
    ASSUME NEW s \in Seq(Ids), NEW n \in Ids
    PROVE  SeqSet(Append(s, n)) = SeqSet(s) \union {n}
<1>1. /\ Len(Append(s, n)) = Len(s) + 1
      /\ \A i \in 1..Len(s) : Append(s, n)[i] = s[i]
      /\ Append(s, n)[Len(s) + 1] = n
  OBVIOUS
<1> QED BY <1>1 DEF SeqSet

LEMMA Members ==
    ASSUME NEW s \in Seq(Ids), NEW t \in Seq(Ids)
    PROVE  /\ SeqSet(s \o t) = SeqSet(s) \union SeqSet(t)
           /\ s # <<>> => SeqSet(s) = {Head(s)} \union SeqSet(Tail(s))
<1>1. SeqSet(s \o t) = SeqSet(s) \union SeqSet(t)
  <2>1. /\ Len(s \o t) = Len(s) + Len(t)
        /\ \A i \in 1..Len(s) : (s \o t)[i] = s[i]
        /\ \A i \in 1..Len(t) : (s \o t)[i + Len(s)] = t[i]
    OBVIOUS
  <2>2. \A i \in 1..Len(s \o t) : i \in 1..Len(s) \/ i - Len(s) \in 1..Len(t)
    BY <2>1
  <2>3. \A i \in 1..Len(t) : i + Len(s) \in 1..Len(s \o t)
    BY <2>1
  <2>4. \A i \in 1..Len(s) : i \in 1..Len(s \o t)
    BY <2>1
  <2>5. SeqSet(s \o t) \subseteq SeqSet(s) \union SeqSet(t)
    <3>1. SUFFICES ASSUME NEW i \in 1..Len(s \o t)
                   PROVE  (s \o t)[i] \in SeqSet(s) \union SeqSet(t)
      BY DEF SeqSet
    <3>2. CASE i \in 1..Len(s)
      BY <2>1, <3>2 DEF SeqSet
    <3>3. CASE i - Len(s) \in 1..Len(t)
      <4>1. (i - Len(s)) + Len(s) = i
        OBVIOUS
      <4> QED BY <2>1, <3>3, <4>1 DEF SeqSet
    <3> QED BY <2>2, <3>2, <3>3
  <2>6. ASSUME NEW i \in 1..Len(s) PROVE s[i] \in SeqSet(s \o t)
    BY <2>1, <2>4 DEF SeqSet
  <2>7. ASSUME NEW i \in 1..Len(t) PROVE t[i] \in SeqSet(s \o t)
    BY <2>1, <2>3 DEF SeqSet
  <2>8. /\ SeqSet(s) \subseteq SeqSet(s \o t)
        /\ SeqSet(t) \subseteq SeqSet(s \o t)
    BY <2>6, <2>7 DEF SeqSet
  <2> QED BY <2>5, <2>8
<1>2. ASSUME s # <<>>
      PROVE  SeqSet(s) = {Head(s)} \union SeqSet(Tail(s))
  <2>1. /\ Len(s) \in Nat /\ Len(s) > 0 /\ Len(Tail(s)) = Len(s) - 1
        /\ Head(s) = s[1]
        /\ \A i \in 1..Len(s) - 1 : Tail(s)[i] = s[i + 1]
    BY <1>2
  <2>2. ASSUME NEW i \in 1..Len(s)
        PROVE  s[i] \in {Head(s)} \union SeqSet(Tail(s))
    <3>1. CASE i = 1
      BY <2>1, <3>1
    <3>2. CASE i # 1
      <4>1. i - 1 \in 1..Len(s) - 1 /\ (i - 1) + 1 = i
        BY <2>1, <3>2
      <4> QED BY <2>1, <4>1 DEF SeqSet
    <3> QED BY <3>1, <3>2
  <2>3. ASSUME NEW i \in 1..Len(Tail(s))
        PROVE  Tail(s)[i] \in SeqSet(s)
    BY <2>1 DEF SeqSet
  <2> QED BY <2>1, <2>2, <2>3 DEF SeqSet
<1> QED BY <1>1, <1>2

-----------------------------------------------------------------------------
(* Types.                                                                  *)

LEMMA TypeInit == Init => TypeOK
<1>1. <<>> \in Seq(Ids) /\ 0 \in 0..MaxActions /\ 0 \in 0..MaxCrashes
  BY QueueAssumption
<1> QED BY <1>1 DEF Init, TypeOK, Places, LockStates

LEMMA TypeStep == TypeOK /\ [Next]_vars => TypeOK'
<1> SUFFICES ASSUME TypeOK, [Next]_vars
             PROVE  TypeOK'
  OBVIOUS
<1> USE DEF TypeOK, Places
<1>1. CASE AddQueueAction
  <2>1. sent + 1 \in Ids /\ sent + 1 \in 0..MaxActions
    BY <1>1, QueueAssumption DEF AddQueueAction, Ids
  <2>2. Append(actionList, sent + 1) \in Seq(Ids)
    BY <2>1
  <2> QED BY <1>1, <2>1, <2>2 DEF AddQueueAction, NotifyAll
<1>2. CASE StopIndexing
  BY <1>2 DEF StopIndexing, NotifyAll
<1>3. CASE ShutdownReturns
  BY <1>3 DEF ShutdownReturns
<1>4. CASE CheckStop
  BY <1>4 DEF CheckStop, Goto
<1>5. CASE Peek
  BY <1>5 DEF Peek, Goto
<1>6. CASE Drain
  BY <1>6 DEF Drain, Goto
<1>7. CASE EnterIndexDocuments
  BY <1>7 DEF EnterIndexDocuments, Goto
<1>8. CASE CreateIndexWriter
  BY <1>8 DEF CreateIndexWriter, Goto, LockStates
<1>9. CASE PerformAction
  <2>1. Head(toIndex) \in Ids /\ Tail(toIndex) \in Seq(Ids)
    BY <1>9 DEF PerformAction
  <2>2. Append(buffered, Head(toIndex)) \in Seq(Ids)
    BY <2>1
  <2> QED BY <1>9, <2>1, <2>2 DEF PerformAction, Goto
<1>10. CASE PerformFails
  <2>1. Head(toIndex) \in Ids /\ Tail(toIndex) \in Seq(Ids)
    BY <1>10 DEF PerformFails
  <2>2. Append(buffered, Head(toIndex)) \in Seq(Ids)
    BY <2>1
  <2> QED BY <1>10, <2>1, <2>2 DEF PerformFails, Goto
<1>11. CASE PerformThrows
  <2>1. /\ toIndex # <<>> => Append(buffered, Head(toIndex)) \in Seq(Ids)
        /\ <<>> \in Seq(Ids)
    OBVIOUS
  <2>2. /\ SeqSet(toIndex) \subseteq Ids
        /\ toIndex # <<>> => SeqSet(Tail(toIndex)) \subseteq Ids
    BY DEF SeqSet
  <2>3. buffered' \in Seq(Ids) /\ lost' \subseteq Ids
    BY <1>11, <2>1, <2>2 DEF PerformThrows
  <2> QED BY <1>11, <2>1, <2>3 DEF PerformThrows, Goto
<1>12. CASE FinishBatch
  BY <1>12 DEF FinishBatch, Goto
<1>13. CASE Flush
  <2>1. index \o buffered \in Seq(Ids)
    OBVIOUS
  <2> QED BY <1>13, <2>1 DEF Flush
<1>14. CASE CloseWriter
  <2>1. index \o buffered \in Seq(Ids)
    OBVIOUS
  <2> QED BY <1>14, <2>1 DEF CloseWriter, Goto, LockStates
<1>15. CASE CloseFails
  BY <1>15 DEF CloseFails, SeqSet, LockStates
<1>16. CASE WaitForAction
  BY <1>16 DEF WaitForAction, Goto
<1>17. CASE SpuriousWakeup
  BY <1>17 DEF SpuriousWakeup, Goto
<1>18. CASE Crash
  <2>1. crashes + 1 \in 0..MaxCrashes
    BY <1>18, QueueAssumption DEF Crash
  <2>2. lost' \subseteq Ids
    <3>1. /\ SeqSet(buffered) \subseteq Ids /\ SeqSet(toIndex) \subseteq Ids
          /\ SeqSet(actionList) \subseteq Ids
      BY DEF SeqSet
    <3> QED BY <1>18, <3>1 DEF Crash
  <2>3. <<>> \in Seq(Ids)
    OBVIOUS
  <2> QED BY <1>18, <2>1, <2>2, <2>3 DEF Crash, LockStates
<1>19. CASE Restart
  BY <1>19 DEF Restart, LocksAfterRestart, LockStates, Goto
<1>20. CASE UNCHANGED vars
  BY <1>20 DEF vars
<1>21. CASE CreateIndex
  BY <1>21 DEF CreateIndex, Goto
<1>22. CASE FinalizeWriter
  BY <1>22 DEF FinalizeWriter, LockStates
<1> QED
  BY <1>1, <1>2, <1>3, <1>4, <1>5, <1>6, <1>7, <1>8, <1>9, <1>10, <1>11,
     <1>12, <1>13, <1>14, <1>15, <1>16, <1>17, <1>18, <1>19, <1>20, <1>21,
     <1>22
  DEF Next, Indexer

\* The queue, the batch, the writer's buffer and the index always hold
\* actions, and a batch exists inside indexDocuments only.
THEOREM TypeCorrect == Spec => []TypeOK
BY TypeInit, TypeStep, PTL DEF Spec

-----------------------------------------------------------------------------
(* No lost wake-up.                                                        *)

\* The indexer never sleeps while an action is queued: addQueueAction notifies
\* under the monitor under which run() tests the queue before it waits.
THEOREM NoLostWakeup == Spec => []SleepsOnlyWhenIdle
<1>1. Init => SleepsOnlyWhenIdle
  BY DEF Init, SleepsOnlyWhenIdle
<1>2. SleepsOnlyWhenIdle /\ [Next]_vars => SleepsOnlyWhenIdle'
  BY DEF SleepsOnlyWhenIdle, Next, Indexer, vars, Goto, NotifyAll, MayWait,
         AddQueueAction, StopIndexing, ShutdownReturns, CheckStop, Peek,
         Drain, EnterIndexDocuments, CreateIndexWriter, CreateIndex,
         PerformAction, PerformFails, PerformThrows, FinishBatch, Flush,
         CloseWriter, CloseFails, WaitForAction, SpuriousWakeup,
         FinalizeWriter, Crash, Restart
<1> QED BY <1>1, <1>2, PTL DEF Spec

-----------------------------------------------------------------------------
(* Order.  AppliedInOrder is not inductive: a new action comes after all    *)
(* others because it is greater than every action queued so far.           *)

Fresh == \A s \in {actionList, toIndex, buffered, index} :
             \A i \in 1..Len(s) : s[i] <= sent

OrderInv == AppliedInOrder /\ Fresh

LEMMA OrderInit == Init => OrderInv
BY DEF Init, OrderInv, AppliedInOrder, Fresh, Increasing, Before

\* What the handling of one action does to the sequences: the action goes to
\* the writer, and the rest of the batch stays or is thrown away; it is
\* skipped; or the whole batch is thrown away.
Buffering == /\ toIndex # <<>>
             /\ buffered' = Append(buffered, Head(toIndex))
             /\ toIndex' \in {Tail(toIndex), <<>>}
             /\ UNCHANGED <<actionList, index, sent>>

Skipping == /\ toIndex # <<>>
            /\ toIndex' = Tail(toIndex)
            /\ UNCHANGED <<actionList, buffered, index, sent>>

Dropping == /\ toIndex' = <<>>
            /\ UNCHANGED <<actionList, buffered, index, sent>>

LEMMA BatchSteps ==
    PerformAction \/ PerformFails \/ PerformThrows
      => Buffering \/ Skipping \/ Dropping
BY DEF PerformAction, PerformFails, PerformThrows, Buffering, Skipping,
       Dropping

\* A step that leaves the sequences and the counter alone.
LEMMA OrderStutter ==
    OrderInv /\ UNCHANGED <<actionList, toIndex, buffered, index, sent>>
      => OrderInv'
BY DEF OrderInv, AppliedInOrder, Fresh, Increasing, Before

LEMMA OrderStep == TypeOK /\ OrderInv /\ [Next]_vars => OrderInv'
<1> SUFFICES ASSUME TypeOK, OrderInv, [Next]_vars
             PROVE  OrderInv'
  OBVIOUS
<1> USE DEF OrderInv
<1>0. /\ actionList \in Seq(Ids) /\ toIndex \in Seq(Ids)
      /\ buffered \in Seq(Ids) /\ index \in Seq(Ids) /\ sent \in Nat
      /\ \A t \in Seq(Ids), i \in Nat : i \in 1..Len(t) => t[i] \in Nat
  BY QueueAssumption DEF TypeOK, Ids
<1>e. \A t \in Seq(Ids) : /\ Increasing(<<>>)
                          /\ Before(<<>>, t) /\ Before(t, <<>>)
  BY DEF Increasing, Before
<1>1. CASE AddQueueAction
  <2>1. sent + 1 \in Ids /\ sent < sent + 1
    BY <1>0, <1>1, QueueAssumption DEF AddQueueAction, Ids
  <2>2. \A s \in {actionList, toIndex, buffered, index} :
           \A i \in 1..Len(s) : s[i] < sent + 1
    BY <1>0, <2>1 DEF Fresh
  <2>3. Increasing(actionList')
    BY <1>0, <1>1, <2>1, <2>2, AppendIncreasing
    DEF AddQueueAction, AppliedInOrder
  <2>4. /\ actionList' \in Seq(Ids) /\ Len(actionList') = Len(actionList) + 1
        /\ \A i \in 1..Len(actionList) : actionList'[i] = actionList[i]
        /\ actionList'[Len(actionList) + 1] = sent + 1
    BY <1>0, <1>1, <2>1 DEF AddQueueAction
  <2>5. \A j \in 1..Len(actionList') :
          j \in 1..Len(actionList) \/ j = Len(actionList) + 1
    BY <1>0, <2>4
  <2>6. ASSUME NEW s \in {index, buffered, toIndex}, Before(s, actionList)
        PROVE  Before(s, actionList')
    BY <1>0, <2>2, <2>4, <2>5, <2>6 DEF Before
  <2>7. AppliedInOrder'
    BY <1>1, <2>3, <2>6 DEF AddQueueAction, AppliedInOrder, Increasing, Before
  <2>8. Fresh'
    <3>1. sent' = sent + 1 /\ UNCHANGED <<toIndex, buffered, index>>
      BY <1>1 DEF AddQueueAction
    <3>2. \A i \in 1..Len(actionList') : actionList'[i] <= sent + 1
      <4>1. ASSUME NEW i \in 1..Len(actionList)
            PROVE  actionList'[i] <= sent + 1
        <5>1. actionList[i] \in Nat /\ actionList[i] <= sent
          BY <1>0 DEF Fresh
        <5> QED BY <1>0, <2>4, <5>1
      <4>2. sent + 1 <= sent + 1
        BY <1>0
      <4> QED BY <2>4, <2>5, <4>1, <4>2
    <3>3. \A s \in {toIndex, buffered, index} :
             \A i \in 1..Len(s) : s[i] <= sent + 1
      BY <1>0, <2>2
    <3> QED BY <3>1, <3>2, <3>3 DEF Fresh
  <2> QED BY <2>7, <2>8
<1>2. CASE Drain
  <2>1. toIndex = <<>>
    BY <1>2 DEF Drain, Goto, TypeOK
  <2>2. /\ actionList' = <<>> /\ toIndex' = actionList
        /\ UNCHANGED <<buffered, index, sent>>
    BY <1>2 DEF Drain
  <2>3. AppliedInOrder'
    BY <1>0, <1>e, <2>2 DEF AppliedInOrder, Increasing, Before
  <2> QED BY <2>2, <2>3 DEF Fresh
<1>3. CASE Buffering
  <2>1. /\ toIndex # <<>> /\ toIndex' \in {Tail(toIndex), <<>>}
        /\ buffered' = Append(buffered, Head(toIndex))
        /\ UNCHANGED <<actionList, index, sent>>
    BY <1>3 DEF Buffering
  <2>2. /\ Head(toIndex) = toIndex[1] /\ 1 \in 1..Len(toIndex)
        /\ toIndex' \in Seq(Ids)
        /\ \A i \in 1..Len(toIndex') : /\ i + 1 \in 1..Len(toIndex)
                                       /\ toIndex'[i] = toIndex[i + 1]
    <3>1. CASE toIndex' = Tail(toIndex)
      BY <1>0, <2>1, <3>1
    <3>2. CASE toIndex' = <<>>
      BY <1>0, <2>1, <3>2
    <3> QED BY <2>1, <3>1, <3>2
  <2>3. /\ Increasing(toIndex') /\ Head(toIndex) \in Ids
        /\ \A i \in 1..Len(toIndex') : Head(toIndex) < toIndex'[i]
    <3>1. CASE toIndex' = Tail(toIndex)
      BY <1>0, <2>1, <3>1, TailIncreasing DEF AppliedInOrder
    <3>2. CASE toIndex' = <<>>
      BY <1>0, <1>e, <2>1, <3>2
    <3> QED BY <2>1, <3>1, <3>2
  <2>4. \A i \in 1..Len(buffered) : buffered[i] < Head(toIndex)
    BY <2>2 DEF AppliedInOrder, Before
  <2>5. buffered' \in Seq(Ids) /\ Increasing(buffered')
    BY <1>0, <2>1, <2>3, <2>4, AppendIncreasing DEF AppliedInOrder
  <2>6. /\ \A i \in 1..Len(buffered') :
             \/ i \in 1..Len(buffered) /\ buffered'[i] = buffered[i]
             \/ buffered'[i] = toIndex[1]
    BY <1>0, <2>1, <2>2
  <2>7. Before(index, buffered') /\ Before(buffered', toIndex')
         /\ Before(buffered', actionList)
    BY <2>2, <2>3, <2>6 DEF AppliedInOrder, Before
  <2>8. Before(index, toIndex') /\ Before(toIndex', actionList)
    BY <2>2 DEF AppliedInOrder, Before
  <2>9. AppliedInOrder'
    BY <2>1, <2>3, <2>5, <2>7, <2>8 DEF AppliedInOrder, Increasing, Before
  <2>10. Fresh'
    <3>1. \A i \in 1..Len(toIndex') : toIndex'[i] <= sent
      BY <2>2 DEF Fresh
    <3>2. \A i \in 1..Len(buffered') : buffered'[i] <= sent
      BY <2>2, <2>6 DEF Fresh
    <3> QED BY <2>1, <3>1, <3>2 DEF Fresh
  <2> QED BY <2>9, <2>10
<1>4. CASE Skipping
  <2>1. /\ toIndex # <<>> /\ toIndex' = Tail(toIndex)
        /\ UNCHANGED <<actionList, buffered, index, sent>>
    BY <1>4 DEF Skipping
  <2>2. /\ toIndex' \in Seq(Ids)
        /\ \A i \in 1..Len(toIndex') : /\ i + 1 \in 1..Len(toIndex)
                                       /\ toIndex'[i] = toIndex[i + 1]
    BY <1>0, <2>1
  <2>3. Increasing(toIndex')
    BY <1>0, <2>1, TailIncreasing DEF AppliedInOrder
  <2>4. AppliedInOrder'
    BY <2>1, <2>2, <2>3 DEF AppliedInOrder, Increasing, Before
  <2> QED BY <2>1, <2>2, <2>4 DEF Fresh
<1>5. CASE Dropping
  <2>1. toIndex' = <<>> /\ UNCHANGED <<actionList, buffered, index, sent>>
    BY <1>5 DEF Dropping
  <2>2. AppliedInOrder'
    BY <1>0, <1>e, <2>1 DEF AppliedInOrder, Increasing, Before
  <2> QED BY <2>1, <2>2 DEF Fresh
<1>6. CASE Flush \/ CloseWriter
  <2>1. /\ index' = index \o buffered /\ buffered' = <<>>
        /\ UNCHANGED <<actionList, toIndex, sent>>
    BY <1>6 DEF Flush, CloseWriter
  <2>2. index' \in Seq(Ids) /\ Increasing(index')
    BY <1>0, <2>1, ConcatIncreasing DEF AppliedInOrder
  <2>3. Before(index', toIndex) /\ Before(index', actionList)
    BY <1>0, <2>1, ConcatBefore DEF AppliedInOrder
  <2>4. AppliedInOrder'
    BY <1>0, <1>e, <2>1, <2>2, <2>3 DEF AppliedInOrder, Increasing, Before
  <2>5. \A i \in 1..Len(index') : index'[i] <= sent
    <3>1. \A i \in 1..Len(index') :
             \/ i \in 1..Len(index) /\ index'[i] = index[i]
             \/ /\ i - Len(index) \in 1..Len(buffered)
                /\ index'[i] = buffered[i - Len(index)]
      BY <1>0, <2>1
    <3> QED BY <3>1 DEF Fresh
  <2> QED BY <2>1, <2>4, <2>5 DEF Fresh
<1>7. CASE CloseFails
  <2>1. buffered' = <<>> /\ UNCHANGED <<actionList, toIndex, index, sent>>
    BY <1>7 DEF CloseFails
  <2>2. AppliedInOrder'
    BY <1>0, <1>e, <2>1 DEF AppliedInOrder, Increasing, Before
  <2> QED BY <2>1, <2>2 DEF Fresh
<1>8. CASE Crash
  <2>1. /\ actionList' = <<>> /\ toIndex' = <<>> /\ buffered' = <<>>
        /\ UNCHANGED <<index, sent>>
    BY <1>8 DEF Crash
  <2>2. AppliedInOrder'
    BY <1>0, <1>e, <2>1 DEF AppliedInOrder, Increasing, Before
  <2> QED BY <2>1, <2>2 DEF Fresh
<1>9. CASE \/ StopIndexing \/ ShutdownReturns \/ CheckStop \/ Peek
           \/ EnterIndexDocuments \/ CreateIndexWriter \/ CreateIndex
           \/ FinishBatch \/ WaitForAction \/ SpuriousWakeup
           \/ FinalizeWriter \/ Restart \/ UNCHANGED vars
  <2>1. UNCHANGED <<actionList, toIndex, buffered, index, sent>>
    BY <1>9 DEF StopIndexing, ShutdownReturns, CheckStop, Peek,
                EnterIndexDocuments, CreateIndexWriter, CreateIndex,
                FinishBatch, WaitForAction, SpuriousWakeup, FinalizeWriter,
                Restart, vars
  <2> QED BY <2>1, OrderStutter
<1> QED
  BY <1>1, <1>2, <1>3, <1>4, <1>5, <1>6, <1>7, <1>8, <1>9, BatchSteps
  DEF Next, Indexer

\* Actions take effect in the order in which they were queued and none takes
\* effect twice, through failures of single actions, of whole batches and of
\* the close, and through crashes.
THEOREM EffectsInOrder == Spec => []AppliedInOrder
<1>1. TypeOK /\ OrderInv /\ [Next]_vars => OrderInv'
  BY OrderStep
<1>2. OrderInv => AppliedInOrder
  BY DEF OrderInv
<1> QED BY OrderInit, TypeCorrect, <1>1, <1>2, PTL DEF Spec

-----------------------------------------------------------------------------
(* Accounting.  A lost action must not come back, so the invariant          *)
(* says of every place, not of the index alone, that it holds no lost      *)
(* action; that a place lost its actions to no other follows from order.   *)

AccountInv ==
    /\ NothingVanishes
    /\ \A s \in {actionList, toIndex, buffered, index} :
           SeqSet(s) \intersect lost = {}

LEMMA Separate ==
    ASSUME NEW s \in Seq(Ids), NEW t \in Seq(Ids), Before(s, t)
    PROVE  SeqSet(s) \intersect SeqSet(t) = {}
<1>1. SUFFICES ASSUME NEW i \in 1..Len(s), NEW j \in 1..Len(t), s[i] = t[j]
               PROVE  FALSE
  BY DEF SeqSet
<1>2. s[i] \in Nat /\ s[i] < t[j]
  BY QueueAssumption DEF Before, Ids
<1> QED BY <1>1, <1>2

LEMMA HeadOnce ==
    ASSUME NEW s \in Seq(Ids), s # <<>>, Increasing(s)
    PROVE  Head(s) \notin SeqSet(Tail(s))
<1>1. Head(s) \in Nat /\ \A i \in 1..Len(Tail(s)) : Head(s) < Tail(s)[i]
  BY TailIncreasing, QueueAssumption DEF Ids
<1>2. SUFFICES ASSUME NEW i \in 1..Len(Tail(s)), Head(s) = Tail(s)[i]
               PROVE  FALSE
  BY DEF SeqSet
<1> QED BY <1>1, <1>2

LEMMA AccountInit == Init => AccountInv
<1>1. SeqSet(<<>>) = {} /\ 1..0 = {}
  BY DEF SeqSet
<1> QED BY <1>1 DEF Init, AccountInv, NothingVanishes

LEMMA AccountStep ==
    TypeOK /\ OrderInv /\ AccountInv /\ [Next]_vars => AccountInv'
<1> SUFFICES ASSUME TypeOK, OrderInv, AccountInv, [Next]_vars
             PROVE  AccountInv'
  OBVIOUS
<1> DEFINE Q == SeqSet(actionList)
           T == SeqSet(toIndex)
           B == SeqSet(buffered)
           X == SeqSet(index)
<1>0. /\ actionList \in Seq(Ids) /\ toIndex \in Seq(Ids)
      /\ buffered \in Seq(Ids) /\ index \in Seq(Ids) /\ sent \in Nat
  BY QueueAssumption DEF TypeOK
<1>e. SeqSet(<<>>) = {}
  BY DEF SeqSet
<1>a. /\ 1..sent = Q \union T \union B \union X \union failed \union lost
      /\ Q \intersect lost = {}
      /\ T \intersect lost = {}
      /\ B \intersect lost = {}
      /\ X \intersect lost = {}
  BY DEF AccountInv, NothingVanishes
<1>d. /\ X \intersect B = {} /\ X \intersect T = {} /\ X \intersect Q = {}
      /\ B \intersect T = {} /\ B \intersect Q = {} /\ T \intersect Q = {}
  BY <1>0, Separate DEF OrderInv, AppliedInOrder
\* The goal, in terms of the four sets after the step.
<1>g. SUFFICES
        /\ 1..sent' = Q' \union T' \union B' \union X' \union failed'
                        \union lost'
        /\ Q' \intersect lost' = {}
        /\ T' \intersect lost' = {}
        /\ B' \intersect lost' = {}
        /\ X' \intersect lost' = {}
  BY DEF AccountInv, NothingVanishes
<1>1. CASE AddQueueAction
  <2>1. /\ sent' = sent + 1 /\ actionList' = Append(actionList, sent + 1)
        /\ UNCHANGED <<toIndex, buffered, index, failed, lost>>
        /\ sent + 1 \in Ids
    BY <1>0, <1>1, QueueAssumption DEF AddQueueAction, Ids
  <2>2. Q' = Q \union {sent + 1}
    BY <1>0, <2>1, AppendMembers
  <2>3. 1..(sent + 1) = 1..sent \union {sent + 1} /\ sent + 1 \notin 1..sent
    BY <1>0
  <2>4. T' = T /\ B' = B /\ X' = X
    BY <2>1
  <2> HIDE DEF Q, T, B, X
  <2> QED BY <1>a, <2>1, <2>2, <2>3, <2>4
<1>2. CASE Drain
  <2>1. /\ toIndex = <<>> /\ actionList' = <<>> /\ toIndex' = actionList
        /\ UNCHANGED <<buffered, index, sent, failed, lost>>
    BY <1>2 DEF Drain, Goto, TypeOK
  <2>2. Q' = {} /\ T = {} /\ T' = Q /\ B' = B /\ X' = X
    BY <1>e, <2>1
  <2> HIDE DEF Q, T, B, X
  <2> QED BY <1>a, <2>1, <2>2
<1>3. CASE PerformAction
  <2>1. /\ toIndex # <<>> /\ toIndex' = Tail(toIndex)
        /\ buffered' = Append(buffered, Head(toIndex))
        /\ UNCHANGED <<actionList, index, sent, failed, lost>>
        /\ Head(toIndex) \in Ids
    BY <1>0, <1>3 DEF PerformAction
  <2>2. T = {Head(toIndex)} \union T' /\ B' = B \union {Head(toIndex)}
    BY <1>0, <2>1, Members, AppendMembers
  <2>3. Q' = Q /\ X' = X
    BY <2>1
  <2> HIDE DEF Q, T, B, X
  <2> QED BY <1>a, <2>1, <2>2, <2>3
<1>4. CASE PerformFails
  <2>1. /\ toIndex # <<>> /\ toIndex' = Tail(toIndex)
        /\ failed' = failed \union {Head(toIndex)}
        /\ buffered' \in {buffered, Append(buffered, Head(toIndex))}
        /\ UNCHANGED <<actionList, index, sent, lost>>
        /\ Head(toIndex) \in Ids
    BY <1>0, <1>4 DEF PerformFails
  <2>2. T = {Head(toIndex)} \union T'
    BY <1>0, <2>1, Members
  <2>b. B' = B \/ B' = B \union {Head(toIndex)}
    BY <1>0, <2>1, AppendMembers
  <2>3. Q' = Q /\ X' = X
    BY <2>1
  <2> HIDE DEF Q, T, B, X
  <2> QED BY <1>a, <2>1, <2>2, <2>b, <2>3
<1>5. CASE PerformThrows
  <2>1. /\ toIndex' = <<>>
        /\ UNCHANGED <<actionList, index, sent, failed>>
    BY <1>5 DEF PerformThrows
  <2>2. T' = {} /\ Q' = Q /\ X' = X
    BY <1>e, <2>1
  <2>3. CASE buffered' = buffered /\ lost' = lost \union T
    <3>1. B' = B
      BY <2>3
    <3> HIDE DEF Q, T, B, X
    <3> QED BY <1>a, <1>d, <2>1, <2>2, <2>3, <3>1
  <2>4. CASE /\ toIndex # <<>>
             /\ buffered' = Append(buffered, Head(toIndex))
             /\ lost' = lost \union SeqSet(Tail(toIndex))
    <3> DEFINE R == SeqSet(Tail(toIndex))
    <3>1. Head(toIndex) \in Ids
      BY <1>0, <2>4
    <3>2. T = {Head(toIndex)} \union R /\ B' = B \union {Head(toIndex)}
      BY <1>0, <2>4, <3>1, Members, AppendMembers
    <3>3. Head(toIndex) \notin R
      BY <1>0, <2>4, HeadOnce DEF OrderInv, AppliedInOrder
    <3>4. lost' = lost \union R
      BY <2>4
    <3> HIDE DEF Q, T, B, X, R
    <3> QED BY <1>a, <1>d, <2>1, <2>2, <3>2, <3>3, <3>4
  <2> QED BY <1>5, <2>3, <2>4 DEF PerformThrows
<1>6. CASE Flush \/ CloseWriter
  <2>1. /\ index' = index \o buffered /\ buffered' = <<>>
        /\ UNCHANGED <<actionList, toIndex, sent, failed, lost>>
    BY <1>6 DEF Flush, CloseWriter
  <2>2. X' = X \union B
    BY <1>0, <2>1, Members
  <2>3. B' = {} /\ Q' = Q /\ T' = T
    BY <1>e, <2>1
  <2> HIDE DEF Q, T, B, X
  <2> QED BY <1>a, <2>1, <2>2, <2>3
<1>7. CASE CloseFails
  <2>1. /\ lost' = lost \union B /\ buffered' = <<>>
        /\ UNCHANGED <<actionList, toIndex, index, sent, failed>>
    BY <1>7 DEF CloseFails
  <2>2. B' = {} /\ Q' = Q /\ T' = T /\ X' = X
    BY <1>e, <2>1
  <2> HIDE DEF Q, T, B, X
  <2> QED BY <1>a, <1>d, <2>1, <2>2
<1>8. CASE Crash
  <2>1. /\ lost' = lost \union B \union T \union Q
        /\ actionList' = <<>> /\ toIndex' = <<>> /\ buffered' = <<>>
        /\ UNCHANGED <<index, sent, failed>>
    BY <1>8 DEF Crash
  <2>2. B' = {} /\ Q' = {} /\ T' = {} /\ X' = X
    BY <1>e, <2>1
  <2> HIDE DEF Q, T, B, X
  <2> QED BY <1>a, <1>d, <2>1, <2>2
<1>9. CASE \/ StopIndexing \/ ShutdownReturns \/ CheckStop \/ Peek
           \/ EnterIndexDocuments \/ CreateIndexWriter \/ CreateIndex
           \/ FinishBatch \/ WaitForAction \/ SpuriousWakeup
           \/ FinalizeWriter \/ Restart \/ UNCHANGED vars
  <2>1. UNCHANGED <<actionList, toIndex, buffered, index, sent, failed, lost>>
    BY <1>9 DEF StopIndexing, ShutdownReturns, CheckStop, Peek,
                EnterIndexDocuments, CreateIndexWriter, CreateIndex,
                FinishBatch, WaitForAction, SpuriousWakeup, FinalizeWriter,
                Restart, vars
  <2>2. Q' = Q /\ T' = T /\ B' = B /\ X' = X
    BY <2>1
  <2> HIDE DEF Q, T, B, X
  <2> QED BY <1>a, <2>1, <2>2
<1> QED
  BY <1>1, <1>2, <1>3, <1>4, <1>5, <1>6, <1>7, <1>8, <1>9 DEF Next, Indexer

LEMMA Accounting == Spec => []AccountInv
<1>1. TypeOK /\ OrderInv /\ [Next]_vars => OrderInv'
  BY OrderStep
<1>2. TypeOK /\ OrderInv /\ AccountInv /\ [Next]_vars => AccountInv'
  BY AccountStep
<1> QED BY OrderInit, AccountInit, TypeCorrect, <1>1, <1>2, PTL DEF Spec

\* Every action ever queued is still on its way, in the index, or accounted
\* for by a failure.
THEOREM AllAccounted == Spec => []NothingVanishes
<1>1. AccountInv => NothingVanishes
  BY DEF AccountInv
<1> QED BY Accounting, <1>1, PTL

\* What a failing batch, a failing close or a crash threw away is never seen
\* in the index, however many batches and restarts follow: no place the actions
\* pass through still holds it.
THEOREM LostStaysLost == Spec => []LostMeansNotIndexed
<1>1. AccountInv => LostMeansNotIndexed
  BY DEF AccountInv, LostMeansNotIndexed
<1> QED BY Accounting, <1>1, PTL

-----------------------------------------------------------------------------
(* The lock.                                                               *)

\* A writer is open in the middle of indexDocuments only.
WriterInScope ==
    writeLock = "held" => at \in {"create", "index", "close", "unwind"}

\* A thread that sleeps or has ended left no writer open: both ways out of
\* indexDocuments lead through the close of the finally block.
THEOREM NoWriterAtRest == Spec => []RestsUnlocked
<1>1. Init => WriterInScope
  BY DEF Init, WriterInScope
<1>2. WriterInScope /\ [Next]_vars => WriterInScope'
  BY DEF WriterInScope, Next, Indexer, vars, Goto, NotifyAll, MayWait,
         AddQueueAction, StopIndexing, ShutdownReturns, CheckStop, Peek,
         Drain, EnterIndexDocuments, CreateIndexWriter, CreateIndex,
         PerformAction, PerformFails, PerformThrows, FinishBatch, Flush,
         CloseWriter, CloseFails, WaitForAction, SpuriousWakeup,
         FinalizeWriter, Crash, Restart, MonitorFree, LocksAfterRestart
<1>3. WriterInScope => RestsUnlocked
  BY DEF WriterInScope, RestsUnlocked
<1> QED BY <1>1, <1>2, <1>3, PTL DEF Spec
-----------------------------------------------------------------------------
(* Refinement.  IndexerQueue implements ActionLog: every step of the        *)
(* threads, of the Lucene writer and of the environment is, seen through    *)
(* the mapping at the end of IndexerQueue, a submission, a commit of the    *)
(* oldest pending actions, the discarding of neighbouring ones, or nothing. *)

-----------------------------------------------------------------------------
(* The two ends and the middle of a sequence that was put together.        *)

LEMMA EndsOfConcat ==
    ASSUME NEW S, NEW s \in Seq(S), NEW t \in Seq(S)
    PROVE  /\ SubSeq(s \o t, 1, Len(s)) = s
           /\ SubSeq(s \o t, Len(s) + 1, Len(s \o t)) = t
<1>1. /\ s \o t \in Seq(S) /\ Len(s \o t) = Len(s) + Len(t)
      /\ Len(s) \in Nat /\ Len(t) \in Nat
  BY ConcatProperties, LenProperties
<1>2. SubSeq(s \o t, 1, Len(s)) = s
  <2>1. CASE s = <<>>
    BY <2>1, <1>1, SubSeqEmpty, EmptySeq
  <2>2. CASE s # <<>>
    <3>1. Len(s) \in Nat \ {0}
      BY <2>2, EmptySeq
    <3> QED BY <3>1, SubSeqOfConcat1, SubSeqFull
  <2> QED BY <2>1, <2>2
<1>3. SubSeq(s \o t, Len(s) + 1, Len(s \o t)) = t
  <2>1. CASE t = <<>>
    <3>1. Len(s \o t) < Len(s) + 1
      BY <2>1, <1>1, EmptySeq
    <3> QED BY <2>1, <3>1, <1>1, SubSeqEmpty
  <2>2. CASE t # <<>>
    <3>1. Len(t) \in Nat \ {0}
      BY <2>2, EmptySeq
    <3>2. /\ Len(s) + 1 \in Len(s)+1 .. Len(s)+Len(t)
          /\ Len(s) + Len(t) \in Len(s)+1 .. Len(s)+Len(t)
          /\ Len(s) + 1 - Len(s) = 1
          /\ Len(s) + Len(t) - Len(s) = Len(t)
      BY <3>1, <1>1
    <3>3. SubSeq(s \o t, Len(s) + 1, Len(s) + Len(t)) = SubSeq(t, 1, Len(t))
      BY <3>2, SubSeqOfConcat2
    <3> QED BY <3>3, <1>1, SubSeqFull
  <2> QED BY <2>1, <2>2
<1> QED BY <1>2, <1>3

\* What Discard does to a sequence of three parts: the middle goes.
LEMMA MiddleDiscarded ==
    ASSUME NEW r \in Seq(Ids), NEW s \in Seq(Ids), NEW t \in Seq(Ids),
           s # <<>>
    PROVE  LET p == r \o s \o t
           IN  \E i \in 1..Len(p) : \E j \in i..Len(p) :
                  r \o t = SubSeq(p, 1, i - 1) \o SubSeq(p, j + 1, Len(p))
<1> DEFINE p == r \o s \o t
           i == Len(r) + 1
           j == Len(r) + Len(s)
<1>1. /\ r \o s \in Seq(Ids) /\ s \o t \in Seq(Ids) /\ p \in Seq(Ids)
      /\ Len(r \o s) = Len(r) + Len(s)
      /\ Len(p) = Len(r) + Len(s) + Len(t)
      /\ Len(r) \in Nat /\ Len(s) \in Nat \ {0} /\ Len(t) \in Nat
      /\ p = r \o (s \o t)
  <2>1. /\ r \o s \in Seq(Ids) /\ s \o t \in Seq(Ids)
        /\ Len(r \o s) = Len(r) + Len(s)
    BY ConcatProperties
  <2>2. p \in Seq(Ids) /\ Len(p) = Len(r \o s) + Len(t)
    BY <2>1, ConcatProperties
  <2>3. Len(r) \in Nat /\ Len(s) \in Nat \ {0} /\ Len(t) \in Nat
    BY LenProperties, EmptySeq
  <2>4. p = r \o (s \o t)
    BY ConcatAssociative
  <2> QED BY <2>1, <2>2, <2>3, <2>4
<1>2. /\ i \in 1..Len(p) /\ j \in i..Len(p)
      /\ i - 1 = Len(r) /\ j + 1 = Len(r \o s) + 1
  BY <1>1
<1>3. SubSeq(p, 1, i - 1) = r
  BY <1>1, <1>2, EndsOfConcat
<1>4. SubSeq(p, j + 1, Len(p)) = t
  <2>1. SubSeq((r \o s) \o t, Len(r \o s) + 1, Len((r \o s) \o t)) = t
    BY <1>1, EndsOfConcat
  <2> QED BY <2>1, <1>2
<1> QED BY <1>2, <1>3, <1>4

\* The same actions, with the parentheses elsewhere.
Regrouped(r, s, t) == (r \o s) \o t = r \o (s \o t)

LEMMA Regroup ==
    ASSUME NEW r \in Seq(Ids), NEW s \in Seq(Ids), NEW t \in Seq(Ids)
    PROVE  Regrouped(r, s, t)
BY ConcatAssociative DEF Regrouped

-----------------------------------------------------------------------------
(* The steps of the abstract log, as the queue takes them.                 *)

Pending == buffered \o toIndex \o actionList

LEMMA PendingProperties ==
    TypeOK => /\ Pending \in Seq(Ids)
              /\ buffered \o toIndex \in Seq(Ids)
              /\ toIndex \o actionList \in Seq(Ids)
              /\ Pending = buffered \o (toIndex \o actionList)
<1> SUFFICES ASSUME TypeOK
             PROVE  /\ Pending \in Seq(Ids)
                    /\ buffered \o toIndex \in Seq(Ids)
                    /\ toIndex \o actionList \in Seq(Ids)
                    /\ Pending = buffered \o (toIndex \o actionList)
  OBVIOUS
<1>1. /\ buffered \in Seq(Ids) /\ toIndex \in Seq(Ids)
      /\ actionList \in Seq(Ids)
  BY DEF TypeOK
<1> QED BY <1>1, ConcatProperties, ConcatAssociative DEF Pending

\* The middle of the pending actions is given up.
LEMMA DiscardMiddle ==
    ASSUME NEW r \in Seq(Ids), NEW s \in Seq(Ids), NEW t \in Seq(Ids),
           Pending = r \o s \o t, Pending' = r \o t,
           UNCHANGED <<sent, index>>
    PROVE  [Log!Next]_Log!log
<1>1. CASE s = <<>>
  <2>1. Pending' = Pending
    BY <1>1, ConcatEmptySeq
  <2> QED BY <2>1 DEF Log!log, Pending
<1>2. CASE s # <<>>
  <2>0. LET p == r \o s \o t
        IN  \E i \in 1..Len(p) : \E j \in i..Len(p) :
               r \o t = SubSeq(p, 1, i - 1) \o SubSeq(p, j + 1, Len(p))
    BY <1>2, MiddleDiscarded
  <2>1. PICK i \in 1..Len(Pending) : \E j \in i..Len(Pending) :
           r \o t = SubSeq(Pending, 1, i - 1)
                      \o SubSeq(Pending, j + 1, Len(Pending))
    BY <2>0
  <2>2. PICK j \in i..Len(Pending) :
           r \o t = SubSeq(Pending, 1, i - 1)
                      \o SubSeq(Pending, j + 1, Len(Pending))
    BY <2>1
  <2>3. Log!Discard(i, j)
    BY <2>2 DEF Log!Discard, Pending
  <2> QED BY <2>3 DEF Log!Next, Pending
<1> QED BY <1>1, <1>2

\* What the writer holds becomes visible.
LEMMA CommitBuffered ==
    ASSUME TypeOK, index' = index \o buffered, buffered' = <<>>,
           UNCHANGED <<toIndex, actionList, sent>>
    PROVE  [Log!Next]_Log!log
<1> DEFINE rest == toIndex \o actionList
<1>1. /\ buffered \in Seq(Ids) /\ toIndex \in Seq(Ids)
      /\ actionList \in Seq(Ids) /\ index \in Seq(Ids)
      /\ rest \in Seq(Ids) /\ Pending \in Seq(Ids)
      /\ Pending = buffered \o rest
  BY PendingProperties DEF TypeOK
<1>2. Pending' = rest
  BY <1>1, ConcatEmptySeq DEF Pending
<1>3. CASE buffered = <<>>
  <2>1. Pending' = Pending /\ index' = index
    BY <1>1, <1>2, <1>3, ConcatEmptySeq
  <2> QED BY <2>1 DEF Log!log, Pending
<1>4. CASE buffered # <<>>
  <2>1. /\ SubSeq(Pending, 1, Len(buffered)) = buffered
        /\ SubSeq(Pending, Len(buffered) + 1, Len(Pending)) = rest
    <3> HIDE DEF rest
    <3> QED BY <1>1, EndsOfConcat
  <2>2. Len(buffered) \in 1..Len(Pending)
    BY <1>1, <1>4, EmptySeq, LenProperties, ConcatProperties
  <2>3. Log!Commit(Len(buffered))
    BY <1>2, <2>1 DEF Log!Commit, Pending
  <2> QED BY <2>2, <2>3 DEF Log!Next, Pending
<1> QED BY <1>3, <1>4

LEMMA LogInit == Init => Log!Init
<1>1. Init => Pending = <<>>
  BY EmptySeq, ConcatEmptySeq DEF Init, Pending
<1> QED BY <1>1 DEF Init, Log!Init, Pending

LEMMA LogStep == TypeOK /\ [Next]_vars => [Log!Next]_Log!log
<1> SUFFICES ASSUME TypeOK, [Next]_vars
             PROVE  [Log!Next]_Log!log
  OBVIOUS
<1> DEFINE rest == toIndex \o actionList
<1>0. /\ buffered \in Seq(Ids) /\ toIndex \in Seq(Ids)
      /\ actionList \in Seq(Ids) /\ index \in Seq(Ids) /\ <<>> \in Seq(Ids)
      /\ toIndex # <<>> => at \in {"enter", "open", "create", "index"}
      /\ buffered # <<>> => at \in {"index", "close", "unwind"}
      /\ rest \in Seq(Ids) /\ Pending = buffered \o rest
      /\ Pending \in Seq(Ids) /\ buffered \o toIndex \in Seq(Ids)
  BY PendingProperties DEF TypeOK
<1>1. CASE AddQueueAction
  <2>1. sent + 1 \in Ids /\ sent < MaxActions
    BY <1>1, QueueAssumption DEF AddQueueAction, Ids, TypeOK
  <2>2. \A s, t \in Seq(Ids), n \in Ids : s \o Append(t, n) = Append(s \o t, n)
    <3> SUFFICES ASSUME NEW s \in Seq(Ids), NEW t \in Seq(Ids), NEW n \in Ids
                 PROVE  s \o Append(t, n) = Append(s \o t, n)
      OBVIOUS
    <3>1. s \o (t \o <<n>>) = (s \o t) \o <<n>>
      BY ConcatAssociative
    <3> QED BY <3>1, AppendIsConcat, ConcatProperties
  <2>3. Pending' = Append(Pending, sent + 1)
    BY <1>0, <1>1, <2>1, <2>2 DEF AddQueueAction, Pending
  <2>4. Log!Submit
    BY <1>1, <2>1, <2>3 DEF AddQueueAction, Log!Submit, Pending
  <2> QED BY <2>4 DEF Log!Next
<1>2. CASE Drain
  <2>1. buffered = <<>> /\ toIndex = <<>>
    BY <1>0, <1>2 DEF Drain, Goto
  <2>2. /\ buffered' = <<>> /\ toIndex' = actionList /\ actionList' = <<>>
        /\ sent' = sent /\ index' = index
    BY <1>2, <2>1 DEF Drain
  <2>3. Pending' = Pending
    BY <1>0, <2>1, <2>2, ConcatEmptySeq DEF Pending
  <2> QED BY <2>2, <2>3 DEF Log!log, Pending
<1>3. CASE Buffering
  <2>1. /\ toIndex # <<>> /\ buffered' = Append(buffered, Head(toIndex))
        /\ toIndex' \in {Tail(toIndex), <<>>}
        /\ UNCHANGED <<actionList, index, sent>>
    BY <1>3 DEF Buffering
  <2>2. Head(toIndex) \in Ids /\ Tail(toIndex) \in Seq(Ids)
    BY <1>0, <2>1, HeadTailProperties
  <2>3. Append(buffered, Head(toIndex)) \o Tail(toIndex) = buffered \o toIndex
    <3> DEFINE h == <<Head(toIndex)>>
    <3>1. h \in Seq(Ids) /\ toIndex = h \o Tail(toIndex)
      BY <1>0, <2>1, <2>2
    <3>2. (buffered \o h) \o Tail(toIndex) = buffered \o (h \o Tail(toIndex))
      <4>1. Regrouped(buffered, h, Tail(toIndex))
        BY <1>0, <2>2, <3>1, Regroup
      <4> QED BY <4>1 DEF Regrouped
    <3> QED BY <1>0, <2>2, <3>1, <3>2, AppendIsConcat
  <2>4. Pending = buffered' \o Tail(toIndex) \o actionList
    BY <2>1, <2>3 DEF Pending
  <2>5. CASE toIndex' = Tail(toIndex)
    <3>1. Pending' = Pending
      BY <2>1, <2>4, <2>5 DEF Pending
    <3> QED BY <2>1, <3>1 DEF Log!log, Pending
  <2>6. CASE toIndex' = <<>>
    <3>1. buffered' \in Seq(Ids)
      BY <1>0, <2>1, <2>2
    <3>2. Pending' = buffered' \o actionList
      BY <2>1, <2>6, <3>1, ConcatEmptySeq DEF Pending
    <3> QED BY <1>0, <2>1, <2>2, <2>4, <3>1, <3>2, DiscardMiddle
  <2> QED BY <2>1, <2>5, <2>6
<1>4. CASE Skipping
  <2> DEFINE h == <<Head(toIndex)>>
             t == Tail(toIndex) \o actionList
  <2>1. /\ toIndex # <<>> /\ toIndex' = Tail(toIndex)
        /\ UNCHANGED <<buffered, actionList, index, sent>>
    BY <1>4 DEF Skipping
  <2>2. /\ h \in Seq(Ids) /\ Tail(toIndex) \in Seq(Ids)
        /\ toIndex = h \o Tail(toIndex)
    BY <1>0, <2>1, HeadTailProperties
  <2>3. t \in Seq(Ids) /\ rest = h \o t
    <3>0. h \in Seq(Ids) /\ Tail(toIndex) \in Seq(Ids)
      BY <2>2
    <3>1. t \in Seq(Ids)
      BY <1>0, <3>0, ConcatProperties
    <3>2. (h \o Tail(toIndex)) \o actionList = h \o t
      <4>1. Regrouped(h, Tail(toIndex), actionList)
        BY <1>0, <3>0, Regroup
      <4> QED BY <4>1 DEF Regrouped
    <3> QED BY <2>2, <3>1, <3>2
  <2>4. Pending = buffered \o h \o t
    <3>1. buffered \o (h \o Tail(toIndex)) \o actionList = buffered \o h \o t
      <4>1. Regrouped(buffered, h \o Tail(toIndex), actionList)
        BY <1>0, <2>2, Regroup
      <4>2. Regrouped(buffered, h, t)
        BY <1>0, <2>2, <2>3, Regroup
      <4>3. (h \o Tail(toIndex)) \o actionList = h \o t
        BY <2>2, <2>3
      <4> QED BY <4>1, <4>2, <4>3 DEF Regrouped
    <3> QED BY <2>2, <3>1 DEF Pending
  <2>5. Pending' = buffered \o t
    <3>1. buffered \o Tail(toIndex) \o actionList = buffered \o t
      <4>1. Tail(toIndex) \in Seq(Ids)
        BY <2>2
      <4>2. Regrouped(buffered, Tail(toIndex), actionList)
        BY <1>0, <4>1, Regroup
      <4> QED BY <4>2 DEF Regrouped
    <3> QED BY <2>1, <3>1 DEF Pending
  <2> QED BY <1>0, <2>1, <2>2, <2>3, <2>4, <2>5, DiscardMiddle
<1>5. CASE Dropping
  <2>1. /\ toIndex' = <<>>
        /\ UNCHANGED <<buffered, actionList, index, sent>>
    BY <1>5 DEF Dropping
  <2>2. Pending' = buffered \o actionList
    BY <1>0, <2>1, ConcatEmptySeq DEF Pending
  <2>3. Pending = buffered \o toIndex \o actionList
    BY DEF Pending
  <2> QED BY <1>0, <2>1, <2>2, <2>3, DiscardMiddle
<1>6. CASE Flush
  BY <1>6, CommitBuffered DEF Flush
<1>7. CASE CloseWriter
  BY <1>7, CommitBuffered DEF CloseWriter
<1>8. CASE CloseFails
  <2>1. /\ buffered' = <<>>
        /\ UNCHANGED <<toIndex, actionList, index, sent>>
    BY <1>8 DEF CloseFails
  <2>2. Pending = <<>> \o buffered \o rest
    BY <1>0, ConcatEmptySeq
  <2>3. Pending' = <<>> \o rest
    BY <1>0, <2>1, ConcatEmptySeq DEF Pending
  <2> QED BY <1>0, <2>1, <2>2, <2>3, DiscardMiddle
<1>9. CASE Crash
  <2>1. /\ buffered' = <<>> /\ toIndex' = <<>> /\ actionList' = <<>>
        /\ UNCHANGED <<index, sent>>
    BY <1>9 DEF Crash
  <2>2. Pending = <<>> \o Pending \o <<>>
    BY <1>0, ConcatEmptySeq
  <2>3. Pending' = <<>> \o <<>>
    BY <2>1, <1>0, ConcatEmptySeq DEF Pending
  <2> QED BY <1>0, <2>1, <2>2, <2>3, DiscardMiddle
<1>10. CASE \/ StopIndexing \/ ShutdownReturns \/ CheckStop \/ Peek
            \/ EnterIndexDocuments \/ CreateIndexWriter \/ CreateIndex
            \/ FinishBatch \/ WaitForAction \/ SpuriousWakeup
            \/ FinalizeWriter \/ Restart \/ UNCHANGED vars
  <2>1. UNCHANGED <<sent, buffered, toIndex, actionList, index>>
    BY <1>10 DEF StopIndexing, ShutdownReturns, CheckStop, Peek,
                 EnterIndexDocuments, CreateIndexWriter, CreateIndex,
                 FinishBatch, WaitForAction, SpuriousWakeup, FinalizeWriter,
                 Restart, vars
  <2> QED BY <2>1 DEF Log!log
<1> QED BY <1>1, <1>2, <1>3, <1>4, <1>5, <1>6, <1>7, <1>8, <1>9, <1>10,
           BatchSteps
        DEF Next, Indexer

\* An index implements the log of actions it promises to be: accepted in some
\* order, applied in that order, at most once, whatever fails.
THEOREM ImplementsLog == Spec => LogSpec
BY LogInit, LogStep, TypeCorrect, PTL DEF Spec, LogSpec, Log!Spec

-----------------------------------------------------------------------------
\* What an index has once shown, it shows for ever: a step leaves the index
\* alone or adds at its end what the writer buffered.
Grown == /\ Len(index') >= Len(index)
         /\ SubSeq(index', 1, Len(index)) = index

THEOREM NothingTakenBack == Spec => [][Grown]_vars
<1>1. TypeOK /\ [Next]_vars => [Grown]_vars
  <2> SUFFICES ASSUME TypeOK, Next
               PROVE  Grown
    BY DEF vars, Grown
  <2>1. index \in Seq(Ids) /\ buffered \in Seq(Ids) /\ Len(index) \in Nat
    BY LenProperties DEF TypeOK
  <2>2. CASE index' = index
    BY <2>1, <2>2, SubSeqFull DEF Grown
  <2>3. CASE index' = index \o buffered
    <3>1. Len(index') = Len(index) + Len(buffered) /\ Len(buffered) \in Nat
      BY <2>1, <2>3, ConcatProperties, LenProperties
    <3> QED BY <2>1, <2>3, <3>1, EndsOfConcat DEF Grown
  <2>4. index' = index \/ index' = index \o buffered
    BY DEF Next, Indexer, AddQueueAction, StopIndexing, ShutdownReturns,
           CheckStop, Peek, Drain, EnterIndexDocuments, CreateIndexWriter,
           CreateIndex, PerformAction, PerformFails, PerformThrows,
           FinishBatch, Flush, CloseWriter, CloseFails, WaitForAction,
           SpuriousWakeup, FinalizeWriter, Crash, Restart
  <2> QED BY <2>2, <2>3, <2>4
<1> QED BY <1>1, TypeCorrect, PTL DEF Spec
=============================================================================
