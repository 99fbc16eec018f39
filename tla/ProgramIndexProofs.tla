-------------------------- MODULE ProgramIndexProofs --------------------------
(***************************************************************************)
(* What holds of ProgramIndex for any number of threads, programs, calls   *)
(* and crashes: a replacement shows together, no program goes missing, and *)
(* calls that do not overlap leave one document with the latest captions.  *)
(* Every step is a step of IndexerQueue, whose invariants are used.        *)
(***************************************************************************)
EXTENDS ProgramIndex, IndexerQueueProofs

-----------------------------------------------------------------------------
(* The queue under the calls.                                              *)

QueueInv == TypeOK /\ OrderInv /\ AccountInv

LEMMA QueueInit == Init => QueueInv
  BY TypeInit, OrderInit, AccountInit DEF QueueInv

LEMMA QueueStep == QueueInv /\ [Next]_vars => QueueInv'
  BY TypeStep, OrderStep, AccountStep DEF QueueInv

LEMMA StepOfQueue == [ProgramNext]_progVars => [Next]_vars
  BY DEF ProgramNext, Calling, AddProgram, UpdateProgram, UpdateMisreads,
         UpdateThrows, SendDelete, SendAdd, IndexerStep, ProgramCrash,
         progVars, Next

LEMMA QueueInvariant == ProgramSpec => []QueueInv
  <1>1. ProgramInit => QueueInv
    BY QueueInit DEF ProgramInit
  <1>2. QueueInv /\ [ProgramNext]_progVars => QueueInv'
    BY QueueStep, StepOfQueue
  <1> QED
    BY <1>1, <1>2, PTL DEF ProgramSpec

\* The calls of any number of threads leave the queue what it is by itself, so
\* that all that is proved of the queue holds under them: the program index is
\* a log of the deletions and additions that the calls have queued.
THEOREM LogUnderCalls == ProgramSpec => LogSpec
  <1>1. ProgramInit => Init
    BY DEF ProgramInit
  <1>2. ProgramSpec => Spec
    BY <1>1, StepOfQueue, PTL DEF ProgramSpec, Spec
  <1> QED
    BY <1>2, ImplementsLog

-----------------------------------------------------------------------------
(* The calls and what they have queued.                                    *)

\* A call under way; what its captions are does not matter here.
Running(r) ==
    \E text : \E pc \in {"delete", "add"}, p \in Programs, n \in 0..sent :
        r = [pc |-> pc, prog |-> p, text |-> text, since |-> n]

IssuedOK ==
    /\ (\E S : issued \in Seq(S)) /\ Len(issued) = sent
    /\ \A a \in 1..sent :
          /\ issued[a].prog \in Programs
          /\ \/ issued[a] = Deletion(issued[a].prog)
             \/ issued[a].type = "add" /\ issued[a].since \in Nat

CallersOK ==
    /\ \E S : caller \in [Callers -> S]
    /\ \A t \in Callers : caller[t] = Idle \/ Running(caller[t])
    /\ at = "down" => AllIdle /\ actionList = <<>>

CallsInv == IssuedOK /\ CallersOK

\* Something appended to a sequence of anything.
LEMMA AppendAnything ==
  ASSUME NEW s, NEW S, s \in Seq(S), NEW x
  PROVE  /\ \E T : Append(s, x) \in Seq(T)
         /\ Len(Append(s, x)) = Len(s) + 1 /\ Len(s) \in Nat
         /\ Append(s, x)[Len(s) + 1] = x
         /\ \A i \in 1..Len(s) : Append(s, x)[i] = s[i]
  <1> DEFINE T == S \union {x}
  <1>1. s \in Seq(T) /\ x \in T
    OBVIOUS
  <1> HIDE DEF T
  <1>2. Append(s, x) \in Seq(T)
    BY <1>1
  <1>3. /\ Len(Append(s, x)) = Len(s) + 1 /\ Len(s) \in Nat
        /\ Append(s, x)[Len(s) + 1] = x
        /\ \A i \in 1..Len(s) : Append(s, x)[i] = s[i]
    BY <1>1
  <1> QED
    BY <1>2, <1>3

\* Another value for one of the threads.
LEMMA OtherCaller ==
  ASSUME NEW f, NEW S, f \in [Callers -> S], NEW t \in Callers, NEW r
  PROVE  /\ \E T : [f EXCEPT ![t] = r] \in [Callers -> T]
         /\ [f EXCEPT ![t] = r][t] = r
         /\ \A u \in Callers \ {t} : [f EXCEPT ![t] = r][u] = f[u]
  <1> DEFINE T == S \union {r}
  <1>1. f \in [Callers -> T] /\ r \in T
    OBVIOUS
  <1> HIDE DEF T
  <1>2. [f EXCEPT ![t] = r] \in [Callers -> T]
    BY <1>1
  <1> QED
    BY <1>1, <1>2

LEMMA CallsInit == ProgramInit => CallsInv
  <1> SUFFICES ASSUME ProgramInit
               PROVE  CallsInv
    OBVIOUS
  <1>1. <<>> \in Seq({}) /\ Len(<<>>) = 0 /\ 1..0 = {}
    OBVIOUS
  <1>2. caller \in [Callers -> {Idle}]
    BY DEF ProgramInit
  <1> QED
    BY <1>1, <1>2
       DEF ProgramInit, Init, CallsInv, IssuedOK, CallersOK

\* What a queued action adds to issued.
Queued(action) ==
    /\ sent \in Nat /\ sent' = sent + 1 /\ 1..sent' = 1..sent \union {sent'}
    /\ \E S : issued' \in Seq(S)
    /\ Len(issued') = sent'
    /\ issued'[sent'] = action
    /\ \A a \in 1..sent : issued'[a] = issued[a]
    /\ at' # "down"
    /\ UNCHANGED <<toIndex, buffered, index, writeLock, failed, lost, crashes,
                   thrown>>

LEMMA QueuedFacts ==
  ASSUME QueueInv, CallsInv, AddQueueAction, NEW action,
         issued' = Append(issued, action), thrown' = thrown
  PROVE  Queued(action)
  <1>1. PICK S : issued \in Seq(S)
    BY DEF CallsInv, IssuedOK
  <1>2. sent \in Nat /\ sent' = sent + 1 /\ 1..sent' = 1..sent \union {sent'}
    BY QueueAssumption
       DEF QueueAssumption, QueueInv, TypeOK, AddQueueAction
  <1>3. at' # "down"
    BY DEF AddQueueAction, MonitorFree, NotifyAll
  <1>4. /\ \E T : issued' \in Seq(T)
        /\ Len(issued') = Len(issued) + 1
        /\ issued'[Len(issued) + 1] = action
        /\ \A a \in 1..Len(issued) : issued'[a] = issued[a]
    <2>1. ASSUME NEW more, more = Append(issued, action)
          PROVE  /\ \E T : more \in Seq(T)
                 /\ Len(more) = Len(issued) + 1
                 /\ more[Len(issued) + 1] = action
                 /\ \A a \in 1..Len(issued) : more[a] = issued[a]
      BY <1>1, <2>1, AppendAnything
    <2> QED
      BY <2>1
  <1>5. Len(issued) = sent
    BY DEF CallsInv, IssuedOK
  <1> QED
    BY <1>2, <1>3, <1>4, <1>5 DEF Queued, AddQueueAction

\* What becomes of a thread that goes on to r.
Goes(t, r) ==
    /\ \E S : caller' \in [Callers -> S]
    /\ caller'[t] = r
    /\ \A u \in Callers \ {t} : caller'[u] = caller[u]

LEMMA GoesFacts ==
  ASSUME CallersOK, NEW t \in Callers, NEW r,
         caller' = [caller EXCEPT ![t] = r]
  PROVE  Goes(t, r)
  <1>1. PICK S : caller \in [Callers -> S]
    BY DEF CallersOK
  <1>2. /\ \E T : [caller EXCEPT ![t] = r] \in [Callers -> T]
        /\ [caller EXCEPT ![t] = r][t] = r
        /\ \A u \in Callers \ {t} :
              [caller EXCEPT ![t] = r][u] = caller[u]
    BY <1>1, OtherCaller
  <1> QED
    BY <1>2 DEF Goes

LEMMA Deleting ==
  ASSUME QueueInv, CallsInv, NEW t \in Callers, SendDelete(t)
  PROVE  \E text : \E p \in Programs, n \in 0..sent :
            /\ caller[t] = [pc |-> "delete", prog |-> p, text |-> text,
                            since |-> n]
            /\ Queued(Deletion(p))
            /\ Goes(t, [pc |-> "add", prog |-> p, text |-> text,
                        since |-> n])
  <1>1. PICK text : \E p \in Programs, n \in 0..sent :
           caller[t] = [pc |-> "delete", prog |-> p, text |-> text,
                        since |-> n]
    <2>1. Running(caller[t]) /\ caller[t].pc = "delete"
      BY DEF SendDelete, CallsInv, CallersOK
    <2>2. PICK text :
             \E pc \in {"delete", "add"}, p \in Programs, n \in 0..sent :
                caller[t] = [pc |-> pc, prog |-> p, text |-> text,
                             since |-> n]
      BY <2>1 DEF Running
    <2>3. \E p \in Programs, n \in 0..sent :
             caller[t] = [pc |-> "delete", prog |-> p, text |-> text,
                          since |-> n]
      BY <2>1, <2>2
    <2> QED
      BY <2>3
  <1>2. PICK p \in Programs, n \in 0..sent :
           caller[t] = [pc |-> "delete", prog |-> p, text |-> text,
                        since |-> n]
    BY <1>1
  <1>3. Queued(Deletion(p))
    BY <1>2, QueuedFacts DEF SendDelete
  <1>4. [caller[t] EXCEPT !.pc = "add"]
        = [pc |-> "add", prog |-> p, text |-> text, since |-> n]
    BY <1>2
  <1>5. caller' = [caller EXCEPT ![t] = [caller[t] EXCEPT !.pc = "add"]]
    BY DEF SendDelete
  <1> QED
    BY <1>2, <1>3, <1>4, <1>5, GoesFacts DEF CallsInv

LEMMA Adding ==
  ASSUME QueueInv, CallsInv, NEW t \in Callers, SendAdd(t)
  PROVE  \E text : \E p \in Programs, n \in 0..sent :
            /\ caller[t] = [pc |-> "add", prog |-> p, text |-> text,
                            since |-> n]
            /\ Queued(Addition(p, text, n))
            /\ Goes(t, Idle)
  <1>1. PICK text : \E p \in Programs, n \in 0..sent :
           caller[t] = [pc |-> "add", prog |-> p, text |-> text, since |-> n]
    <2>1. Running(caller[t]) /\ caller[t].pc = "add"
      BY DEF SendAdd, CallsInv, CallersOK
    <2>2. PICK text :
             \E pc \in {"delete", "add"}, p \in Programs, n \in 0..sent :
                caller[t] = [pc |-> pc, prog |-> p, text |-> text,
                             since |-> n]
      BY <2>1 DEF Running
    <2>3. \E p \in Programs, n \in 0..sent :
             caller[t] = [pc |-> "add", prog |-> p, text |-> text,
                          since |-> n]
      BY <2>1, <2>2
    <2> QED
      BY <2>3
  <1>2. PICK p \in Programs, n \in 0..sent :
           caller[t] = [pc |-> "add", prog |-> p, text |-> text, since |-> n]
    BY <1>1
  <1>3. Queued(Addition(p, text, n))
    BY <1>2, QueuedFacts DEF SendAdd
  <1> QED
    BY <1>2, <1>3, GoesFacts DEF SendAdd, CallsInv

\* A call that begins.
Begins(t, p, pc, text, n) ==
    /\ caller[t] = Idle /\ at # "down"
    /\ Goes(t, [pc |-> pc, prog |-> p, text |-> text, since |-> n])
    /\ UNCHANGED <<vars, issued, thrown>>

LEMMA Beginning ==
  ASSUME QueueInv, CallsInv, NEW t \in Callers, NEW p \in Programs
  PROVE  /\ AddProgram(t, p) =>
               Begins(t, p, "delete", calls + 1, sent)
         /\ UpdateProgram(t, p) =>
               IF Live(p) = {} THEN Begins(t, p, "add", NoCaptions, 0)
               ELSE Begins(t, p, "delete", CaptionsKept(FirstHit(p)), sent)
         /\ UpdateMisreads(t, p) => Begins(t, p, "add", NoCaptions, 0)
  BY GoesFacts
     DEF AddProgram, UpdateProgram, UpdateMisreads, AsNew, AsKnown, Call,
         Begins, AddStartsWith, CallsInv

LEMMA CallsStep == QueueInv /\ CallsInv /\ [ProgramNext]_progVars => CallsInv'
  <1> SUFFICES ASSUME QueueInv, CallsInv, [ProgramNext]_progVars
               PROVE  CallsInv'
    OBVIOUS
  <1>0. sent \in Nat
    BY QueueAssumption DEF QueueAssumption, QueueInv, TypeOK
  <1>1. ASSUME NEW t \in Callers, NEW p \in Programs, NEW text,
               NEW pc \in {"delete", "add"}, NEW n \in 0..sent,
               Begins(t, p, pc, text, n)
        PROVE  CallsInv'
    <2>0. sent' = sent /\ at' = at /\ at # "down" /\ UNCHANGED issued
      BY <1>1 DEF Begins, vars
    <2>1. \A r : Running(r) => Running(r)'
      BY <2>0 DEF Running
    <2>2. Running([pc |-> pc, prog |-> p, text |-> text, since |-> n])
      BY DEF Running
    <2>3. Goes(t, [pc |-> pc, prog |-> p, text |-> text, since |-> n])
      BY <1>1 DEF Begins
    <2>4. CallersOK'
      BY <2>0, <2>1, <2>2, <2>3 DEF Goes, CallsInv, CallersOK
    <2> QED
      BY <2>0, <2>4 DEF CallsInv, IssuedOK
  <1>2. ASSUME NEW t \in Callers, NEW p \in Programs, AddProgram(t, p)
        PROVE  CallsInv'
    BY <1>0, <1>1, <1>2, Beginning
  <1>3. ASSUME NEW t \in Callers, NEW p \in Programs,
               UpdateProgram(t, p) \/ UpdateMisreads(t, p)
        PROVE  CallsInv'
    BY <1>0, <1>1, <1>3, Beginning
  <1>4. ASSUME NEW action, Queued(action), action.prog \in Programs,
               \/ action = Deletion(action.prog)
               \/ action.type = "add" /\ action.since \in Nat
        PROVE  /\ IssuedOK'
               /\ \A r : Running(r) => Running(r)'
    <2>1. IssuedOK'
      BY <1>4 DEF Queued, CallsInv, IssuedOK
    <2>2. 0..sent \subseteq 0..sent'
      BY <1>4 DEF Queued
    <2> QED
      BY <2>1, <2>2 DEF Running
  <1>5. ASSUME NEW t \in Callers, SendDelete(t)
        PROVE  CallsInv'
    <2>1. PICK text : \E p \in Programs, n \in 0..sent :
             /\ Queued(Deletion(p))
             /\ Goes(t, [pc |-> "add", prog |-> p, text |-> text,
                         since |-> n])
      BY <1>5, Deleting
    <2>2. PICK p \in Programs, n \in 0..sent :
             /\ Queued(Deletion(p))
             /\ Goes(t, [pc |-> "add", prog |-> p, text |-> text,
                         since |-> n])
      BY <2>1
    <2>3. IssuedOK' /\ \A r : Running(r) => Running(r)'
      BY <1>4, <2>2 DEF Deletion
    <2>4. Running([pc |-> "add", prog |-> p, text |-> text, since |-> n])
      BY DEF Running
    <2> QED
      BY <2>2, <2>3, <2>4 DEF CallsInv, CallersOK, Goes, Queued
  <1>6. ASSUME NEW t \in Callers, SendAdd(t)
        PROVE  CallsInv'
    <2>1. PICK text : \E p \in Programs, n \in 0..sent :
             Queued(Addition(p, text, n)) /\ Goes(t, Idle)
      BY <1>6, Adding
    <2>2. PICK p \in Programs, n \in 0..sent :
             Queued(Addition(p, text, n)) /\ Goes(t, Idle)
      BY <2>1
    <2>3. IssuedOK' /\ \A r : Running(r) => Running(r)'
      BY <1>4, <2>2 DEF Addition
    <2> QED
      BY <2>2, <2>3 DEF CallsInv, CallersOK, Goes, Queued
  <1>7. CASE IndexerStep
    <2>1. /\ UNCHANGED <<sent, issued, caller>>
          /\ at' = "down" => UNCHANGED <<at, actionList>>
      BY <1>7 DEF IndexerStep, callVars, Indexer, Restart, Goto, CheckStop,
           Peek, Drain, EnterIndexDocuments, CreateIndexWriter, CreateIndex,
           PerformAction, PerformFails, PerformThrows, FinishBatch, Flush,
           CloseWriter, CloseFails, WaitForAction, FinalizeWriter
    <2>2. IssuedOK'
      BY <2>1 DEF CallsInv, IssuedOK
    <2>3. CallersOK'
      BY <2>1 DEF CallsInv, CallersOK, Running, AllIdle
    <2> QED
      BY <2>2, <2>3 DEF CallsInv
  <1>8. CASE ProgramCrash
    <2>1. caller' \in [Callers -> {Idle}] /\ actionList' = <<>>
          /\ UNCHANGED <<sent, issued>>
      BY <1>8 DEF ProgramCrash, Crash
    <2> QED
      BY <2>1 DEF CallsInv, IssuedOK, CallersOK, AllIdle
  <1>9. CASE UNCHANGED progVars
    <2>1. UNCHANGED <<at, actionList, sent, issued, caller>>
      BY <1>9 DEF progVars, vars, callVars
    <2>2. \A r : Running(r) => Running(r)'
      BY <2>1 DEF Running
    <2>3. AllIdle' = AllIdle
      BY <2>1 DEF AllIdle
    <2>4. IssuedOK'
      BY <2>1 DEF CallsInv, IssuedOK
    <2> QED
      BY <2>1, <2>2, <2>3, <2>4 DEF CallsInv, CallersOK
  <1>10. CASE Calling
    BY <1>2, <1>3, <1>5, <1>6, <1>9, <1>10 DEF Calling, UpdateThrows
  <1> QED
    BY <1>7, <1>8, <1>9, <1>10 DEF ProgramNext

LEMMA CallsInvariant == ProgramSpec => []CallsInv
  BY CallsInit, CallsStep, QueueInvariant, PTL DEF ProgramSpec

-----------------------------------------------------------------------------
(* Replacements.                                                           *)

\* The deletions of program p that were queued after n, up to m.
Deletions(p, n, m) == {d \in n + 1..m : issued[d] = Deletion(p)}

\* What a crash lost: the calls of that time are gone as well.
Crashed == lost \ thrown

\* A thread that is to add the new document has queued the deletion of the
\* old one, and no crash came after that.
Prepared(t) ==
    \E d \in Deletions(caller[t].prog, caller[t].since, sent) :
        d \notin Crashed

\* Action a is neither in the index nor on its way there.
Gone(a) == \A s \in {actionList, toIndex, buffered, index} : a \notin SeqSet(s)

\* The same for an addition that was queued: if a crash took its deletion, it
\* took the addition as well.
Covered(a) ==
    \E d \in Deletions(issued[a].prog, issued[a].since, a - 1) :
        d \in Crashed => Gone(a)

ReplaceInv ==
    /\ \A t \in Callers :
          caller[t] # Idle /\ caller[t].pc = "add" /\ caller[t].since > 0
              => Prepared(t)
    /\ \A a \in 1..sent :
          issued[a].type = "add" /\ issued[a].since > 0 => Covered(a)

\* What has been queued, and where it can be.
LEMMA Whereabouts ==
  ASSUME QueueInv
  PROVE  /\ sent \in Nat
         /\ 1..sent = SeqSet(actionList) \union SeqSet(toIndex)
                        \union SeqSet(buffered) \union SeqSet(index)
                        \union failed \union lost
         /\ \A s \in {actionList, toIndex, buffered} :
               \A a \in SeqSet(index), d \in SeqSet(s) : a < d
  <1>1. sent \in Nat
    BY QueueAssumption DEF QueueAssumption, QueueInv, TypeOK
  <1>2. 1..sent = SeqSet(actionList) \union SeqSet(toIndex)
                     \union SeqSet(buffered) \union SeqSet(index)
                     \union failed \union lost
    BY DEF QueueInv, AccountInv, NothingVanishes
  <1>3. \A s \in {actionList, toIndex, buffered} : Before(index, s)
    BY DEF QueueInv, OrderInv, AppliedInOrder
  <1>4. \A s \in {actionList, toIndex, buffered} :
           \A a \in SeqSet(index), d \in SeqSet(s) : a < d
    BY <1>3 DEF Before, SeqSet
  <1> QED
    BY <1>1, <1>2, <1>4

\* No step brings back an action that is gone.
LEMMA GoneStays ==
  ASSUME QueueInv, Next, NEW a \in 1..sent, Gone(a)
  PROVE  Gone(a)'
  <1> DEFINE Q == SeqSet(actionList)
             T == SeqSet(toIndex)
             B == SeqSet(buffered)
             X == SeqSet(index)
  <1>0. /\ actionList \in Seq(Ids) /\ toIndex \in Seq(Ids)
        /\ buffered \in Seq(Ids) /\ index \in Seq(Ids) /\ sent \in Nat
        /\ SeqSet(<<>>) = {}
    BY Whereabouts DEF QueueInv, TypeOK, SeqSet
  <1>1. a \notin Q \union T \union B \union X
    BY DEF Gone
  <1>2. SUFFICES Q' \union T' \union B' \union X'
                    \subseteq Q \union T \union B \union X \union {sent + 1}
    BY <1>0, <1>1 DEF Gone
  <1>3. CASE AddQueueAction
    <2>1. /\ sent + 1 \in Ids /\ actionList' = Append(actionList, sent + 1)
          /\ UNCHANGED <<toIndex, buffered, index>>
      BY <1>0, <1>3, QueueAssumption DEF AddQueueAction, Ids
    <2> QED
      BY <1>0, <2>1, AppendMembers
  <1>4. CASE Drain \/ Crash
    BY <1>0, <1>4 DEF Drain, Crash
  <1>5. CASE Buffering
    <2>1. /\ Head(toIndex) \in Ids /\ toIndex # <<>>
          /\ buffered' = Append(buffered, Head(toIndex))
          /\ toIndex' = Tail(toIndex) \/ toIndex' = <<>>
          /\ UNCHANGED <<actionList, index>>
      BY <1>0, <1>5 DEF Buffering
    <2>2. T = {Head(toIndex)} \union SeqSet(Tail(toIndex))
      BY <1>0, <2>1, Members
    <2>3. B' = B \union {Head(toIndex)}
      BY <1>0, <2>1, AppendMembers
    <2>4. T' = SeqSet(Tail(toIndex)) \/ T' = {}
      BY <1>0, <2>1
    <2>5. Q' = Q /\ X' = X
      BY <2>1
    <2> HIDE DEF Q, T, B, X
    <2> QED
      BY <2>2, <2>3, <2>4, <2>5
  <1>6. CASE Skipping
    <2>1. toIndex # <<>> /\ toIndex' = Tail(toIndex)
          /\ UNCHANGED <<actionList, buffered, index>>
      BY <1>6 DEF Skipping
    <2>2. T = {Head(toIndex)} \union T'
      BY <1>0, <2>1, Members
    <2>3. Q' = Q /\ B' = B /\ X' = X
      BY <2>1
    <2> HIDE DEF Q, T, B, X
    <2> QED
      BY <2>2, <2>3
  <1>7. CASE Dropping \/ CloseFails
    BY <1>0, <1>7 DEF Dropping, CloseFails
  <1>8. CASE Flush \/ CloseWriter
    <2>1. /\ index' = index \o buffered /\ buffered' = <<>>
          /\ UNCHANGED <<actionList, toIndex>>
      BY <1>8 DEF Flush, CloseWriter
    <2>2. X' = X \union B
      BY <1>0, <2>1, Members
    <2> QED
      BY <1>0, <2>1, <2>2
  <1>9. CASE \/ StopIndexing \/ ShutdownReturns \/ CheckStop \/ Peek
             \/ EnterIndexDocuments \/ CreateIndexWriter \/ CreateIndex
             \/ FinishBatch \/ WaitForAction \/ SpuriousWakeup
             \/ FinalizeWriter \/ Restart
    BY <1>9 DEF StopIndexing, ShutdownReturns, CheckStop, Peek,
                EnterIndexDocuments, CreateIndexWriter, CreateIndex,
                FinishBatch, WaitForAction, SpuriousWakeup, FinalizeWriter,
                Restart
  <1> QED
    BY <1>3, <1>4, <1>5, <1>6, <1>7, <1>8, <1>9, BatchSteps
    DEF Next, Indexer

\* What a step of the indexer loses is thrown away, no crash.
LEMMA IndexerKinds ==
  ASSUME IndexerStep
  PROVE  /\ failed \subseteq failed' /\ lost \subseteq lost'
         /\ thrown' = thrown \union (lost' \ lost)
         /\ UNCHANGED <<sent, issued, caller, calls, latest, overlapped,
                        misread, crashes>>
  BY DEF IndexerStep, callVars, Indexer, CheckStop, Peek, Drain,
         EnterIndexDocuments, CreateIndexWriter, CreateIndex, PerformAction,
         PerformFails, PerformThrows, FinishBatch, Flush, CloseWriter,
         CloseFails, WaitForAction, FinalizeWriter, Restart

LEMMA ReplaceInit == ProgramInit => ReplaceInv
  BY DEF ProgramInit, Init, ReplaceInv

LEMMA ReplaceCalling ==
  ASSUME QueueInv, CallsInv, ReplaceInv, Calling
  PROVE  ReplaceInv'
  <1>0. sent \in Nat /\ lost \subseteq 1..sent
    BY Whereabouts
  <1>1. ASSUME NEW t \in Callers, NEW p \in Programs, NEW text,
               NEW pc, NEW n, Begins(t, p, pc, text, n),
               pc = "delete" \/ n = 0
        PROVE  ReplaceInv'
    <2>1. UNCHANGED <<sent, issued, lost, thrown, actionList, toIndex,
                      buffered, index>>
      BY <1>1 DEF Begins, vars
    <2>2. \A u \in Callers : u = t \/ caller'[u] = caller[u]
      BY <1>1 DEF Begins, Goes
    <2>3. caller'[t].pc = "delete" \/ caller'[t].since = 0
      BY <1>1 DEF Begins, Goes
    <2> QED
      BY <2>1, <2>2, <2>3
         DEF ReplaceInv, Prepared, Covered, Deletions, Crashed, Gone
  <1>2. ASSUME NEW t \in Callers, NEW p \in Programs,
               \/ AddProgram(t, p) \/ UpdateProgram(t, p)
               \/ UpdateMisreads(t, p)
        PROVE  ReplaceInv'
    BY <1>1, <1>2, Beginning
  <1>3. ASSUME NEW action, Queued(action), AddQueueAction
        PROVE  /\ \A u \in Callers :
                     caller'[u] = caller[u] /\ caller[u] # Idle
                     /\ caller[u].pc = "add" /\ caller[u].since > 0
                        => Prepared(u)'
               /\ \A a \in 1..sent :
                     issued'[a].type = "add" /\ issued'[a].since > 0
                        => Covered(a)'
    <2>0. Crashed' = Crashed
      BY <1>3 DEF Crashed, Queued
    <2>1. ASSUME NEW q, NEW k \in Nat, NEW m \in 0..sent
          PROVE  Deletions(q, k, m) \subseteq Deletions(q, k, m)'
      BY <1>0, <1>3 DEF Deletions, Queued
    <2>2. ASSUME NEW q, NEW k \in Nat
          PROVE  Deletions(q, k, sent) \subseteq Deletions(q, k, sent)'
      BY <1>0, <1>3 DEF Deletions, Queued
    <2>3. ASSUME NEW u \in Callers, caller'[u] = caller[u],
                 caller[u] # Idle, caller[u].pc = "add", caller[u].since > 0
          PROVE  Prepared(u)'
      <3>1. caller[u].since \in Nat
        BY <2>3 DEF CallsInv, CallersOK, Running
      <3>2. Prepared(u)
        BY <2>3 DEF ReplaceInv
      <3> QED
        BY <2>0, <2>2, <2>3, <3>1, <3>2 DEF Prepared
    <2>4. ASSUME NEW a \in 1..sent, issued'[a].type = "add",
                 issued'[a].since > 0
          PROVE  Covered(a)'
      <3>1. issued'[a] = issued[a]
        BY <1>3 DEF Queued
      <3>2. Covered(a)
        BY <2>4, <3>1 DEF ReplaceInv
      <3>3. issued[a].since \in Nat /\ a - 1 \in 0..sent
        BY <2>4, <3>1, <1>0 DEF CallsInv, IssuedOK, Deletion
      <3>4. Gone(a) => Gone(a)'
        BY <1>3, GoneStays DEF Next
      <3> QED
        BY <2>0, <2>1, <3>1, <3>2, <3>3, <3>4 DEF Covered
    <2> QED
      BY <2>3, <2>4
  <1>4. ASSUME NEW t \in Callers, SendDelete(t)
        PROVE  ReplaceInv'
    <2>1. PICK text : \E p \in Programs, n \in 0..sent :
             /\ Queued(Deletion(p))
             /\ Goes(t, [pc |-> "add", prog |-> p, text |-> text,
                         since |-> n])
      BY <1>4, Deleting
    <2>2. PICK p \in Programs, n \in 0..sent :
             /\ Queued(Deletion(p))
             /\ Goes(t, [pc |-> "add", prog |-> p, text |-> text,
                         since |-> n])
      BY <2>1
    <2>3. Prepared(t)'
      <3>1. sent' \in n + 1..sent' /\ sent' \notin Crashed'
        BY <1>0, <2>2 DEF Queued, Crashed
      <3>2. caller'[t].prog = p /\ caller'[t].since = n
        BY <2>2 DEF Goes
      <3>3. sent' \in Deletions(p, n, sent)'
        BY <2>2, <3>1 DEF Deletions, Queued
      <3> QED
        BY <3>1, <3>2, <3>3 DEF Prepared
    <2>4. issued'[sent'].type # "add"
      BY <2>2 DEF Queued, Deletion
    <2>5. AddQueueAction
      BY <1>4 DEF SendDelete
    <2> QED
      BY <1>3, <2>2, <2>3, <2>4, <2>5 DEF ReplaceInv, Goes, Queued
  <1>5. ASSUME NEW t \in Callers, SendAdd(t)
        PROVE  ReplaceInv'
    <2>1. PICK text : \E p \in Programs, n \in 0..sent :
             /\ caller[t] = [pc |-> "add", prog |-> p, text |-> text,
                             since |-> n]
             /\ Queued(Addition(p, text, n)) /\ Goes(t, Idle)
      BY <1>5, Adding
    <2>2. PICK p \in Programs, n \in 0..sent :
             /\ caller[t] = [pc |-> "add", prog |-> p, text |-> text,
                             since |-> n]
             /\ Queued(Addition(p, text, n)) /\ Goes(t, Idle)
      BY <2>1
    <2>3. ASSUME n > 0
          PROVE  Covered(sent)'
      <3>1. Prepared(t)
        BY <2>2, <2>3 DEF ReplaceInv, Idle
      <3>2. issued'[sent'].prog = p /\ issued'[sent'].since = n
        BY <2>2 DEF Queued, Addition
      <3>3. PICK d \in Deletions(p, n, sent) : d \notin Crashed
        BY <2>2, <3>1 DEF Prepared
      <3>4. d \in Deletions(p, n, sent - 1)'
        BY <1>0, <2>2 DEF Deletions, Queued
      <3>5. d \notin Crashed'
        BY <2>2, <3>3 DEF Queued, Crashed
      <3> QED
        BY <3>2, <3>4, <3>5 DEF Covered
    <2>4. AddQueueAction
      BY <1>5 DEF SendAdd
    <2> QED
      BY <1>3, <2>2, <2>3, <2>4 DEF ReplaceInv, Goes, Queued, Addition
  <1>6. CASE UNCHANGED progVars
    BY <1>6 DEF progVars, vars, callVars, ReplaceInv, Prepared, Covered,
                Deletions, Crashed, Gone
  <1> QED
    BY <1>2, <1>4, <1>5, <1>6 DEF Calling, UpdateThrows

\* Steps that queue nothing.
LEMMA ReplaceQueue ==
  ASSUME QueueInv, CallsInv, ReplaceInv, IndexerStep
  PROVE  ReplaceInv'
  <1>0. UNCHANGED <<sent, issued, caller>> /\ Crashed' \subseteq Crashed
    BY IndexerKinds DEF Crashed
  <1>1. \A t \in Callers : Prepared(t) => Prepared(t)'
    BY <1>0 DEF Prepared, Deletions
  <1>2. \A a \in 1..sent : Covered(a) => Covered(a)'
    <2>1. \A a \in 1..sent : Gone(a) => Gone(a)'
      BY GoneStays DEF IndexerStep, Next
    <2> QED
      BY <1>0, <2>1 DEF Covered, Deletions
  <1> QED
    BY <1>0, <1>1, <1>2 DEF ReplaceInv

LEMMA ReplaceCrash ==
  ASSUME QueueInv, CallsInv, ReplaceInv, ProgramCrash
  PROVE  ReplaceInv'
  <1>0. /\ sent' = sent /\ issued' = issued /\ thrown' = thrown
        /\ \A t \in Callers : caller'[t] = Idle
        /\ lost' = lost \union SeqSet(buffered) \union SeqSet(toIndex)
                        \union SeqSet(actionList)
        /\ index' = index
        /\ actionList' = <<>> /\ toIndex' = <<>> /\ buffered' = <<>>
    BY DEF ProgramCrash, Crash
  <1>1. ASSUME NEW a \in 1..sent, Covered(a)
        PROVE  Covered(a)'
    <2>1. PICK d \in Deletions(issued[a].prog, issued[a].since, a - 1) :
             d \in Crashed => Gone(a)
      BY <1>1 DEF Covered
    <2>2. d < a /\ ~(a < d)
      BY Whereabouts DEF Deletions
    <2>3. ASSUME d \in Crashed'
          PROVE  Gone(a)'
      <3>1. a \notin SeqSet(index)
        <4>1. CASE d \in Crashed
          BY <2>1, <4>1 DEF Gone
        <4>2. CASE d \notin Crashed
          <5>1. \E s \in {actionList, toIndex, buffered} : d \in SeqSet(s)
            BY <1>0, <2>3, <4>2 DEF Crashed
          <5> QED
            BY <2>2, <5>1, Whereabouts
        <4> QED
          BY <4>1, <4>2
      <3>2. SeqSet(<<>>) = {}
        BY DEF SeqSet
      <3> QED
        BY <1>0, <3>1, <3>2 DEF Gone
    <2>4. d \in Deletions(issued[a].prog, issued[a].since, a - 1)'
      BY <1>0 DEF Deletions
    <2> QED
      BY <1>0, <2>3, <2>4 DEF Covered
  <1> QED
    BY <1>0, <1>1 DEF ReplaceInv

\* As soon as a searcher sees the document that a replacing call added, it
\* sees none that was queued before that call began: across crashes, and
\* across closes that fail and locks that come free again, unless a deletion
\* queued within that very replacement was skipped or thrown away.
THEOREM NewReplacesOld == ProgramSpec => []ReplacedTogether
  <1>1. QueueInv /\ CallsInv /\ ReplaceInv /\ [ProgramNext]_progVars
        => ReplaceInv'
    <2> SUFFICES ASSUME QueueInv, CallsInv, ReplaceInv,
                        [ProgramNext]_progVars
                 PROVE  ReplaceInv'
      OBVIOUS
    <2>1. CASE UNCHANGED progVars
      BY <2>1 DEF progVars, vars, callVars, ReplaceInv, Prepared, Covered,
                  Deletions, Crashed, Gone
    <2> QED
      BY <2>1, ReplaceCalling, ReplaceQueue, ReplaceCrash DEF ProgramNext
  <1>2. QueueInv /\ CallsInv /\ ReplaceInv => ReplacedTogether
    <2> SUFFICES ASSUME QueueInv, CallsInv, ReplaceInv,
                        NEW a \in SeqSet(index), issued[a].type = "add",
                        ~\E d \in (failed \union thrown)
                                     \intersect
                                       (issued[a].since + 1)..(a - 1) :
                             issued[d] = Deletion(issued[a].prog),
                        NEW b \in Live(issued[a].prog)
                 PROVE  b > issued[a].since
      BY DEF ReplacedTogether
    <2>0. a \in 1..sent /\ b \in 1..sent /\ sent \in Nat
      BY Whereabouts DEF Live
    <2>1. issued[a].since \in Nat
      BY <2>0 DEF CallsInv, IssuedOK, Deletion
    <2>2. CASE issued[a].since = 0
      BY <2>0, <2>2
    <2>3. CASE issued[a].since > 0
      <3>1. PICK d \in Deletions(issued[a].prog, issued[a].since, a - 1) :
               d \in Crashed => Gone(a)
        BY <2>0, <2>3 DEF ReplaceInv, Covered
      <3>2. /\ d \in 1..sent /\ d < a /\ issued[a].since < d
            /\ d \in issued[a].since + 1..a - 1
            /\ issued[d] = Deletion(issued[a].prog)
        BY <2>0, <2>1 DEF Deletions
      <3>3. d \notin failed \union thrown /\ d \notin Crashed
        BY <3>1, <3>2 DEF Gone
      <3>4. d \in SeqSet(index)
        <4>1. \A s \in {actionList, toIndex, buffered} : d \notin SeqSet(s)
          BY <3>2, <2>0, Whereabouts
        <4> QED
          BY <3>2, <3>3, <4>1, Whereabouts DEF Crashed
      <3>5. d < b
        BY <3>2, <3>4 DEF Live
      <3> QED
        BY <2>0, <2>1, <3>2, <3>5
    <2> QED
      BY <2>1, <2>2, <2>3
  <1> QED
    BY <1>1, <1>2, ReplaceInit, QueueInvariant, CallsInvariant, PTL
       DEF ProgramSpec

-----------------------------------------------------------------------------
(* Nothing goes missing.                                                   *)

\* When all is performed, what was queued for a program is indexed, unless an
\* action of that program failed or was lost.
LEMMA AllIndexed ==
  ASSUME QueueInv, Settled, NEW p, ~GivenUp(p),
         NEW a \in 1..sent, issued[a].prog = p
  PROVE  a \in SeqSet(index)
  <1>1. SeqSet(<<>>) = {}
    BY DEF SeqSet
  <1> QED
    BY <1>1, Whereabouts DEF Settled, GivenUp

\* A program that was given up stays so.
LEMMA GivenUpStays ==
  ASSUME QueueInv, failed \subseteq failed', lost \subseteq lost',
         \A a \in 1..sent : issued'[a] = issued[a]
  PROVE  \A p : GivenUp(p) => GivenUp(p)'
  BY Whereabouts DEF GivenUp

\* The last action of each program.
Last(p, m) == /\ issued[m].prog = p
              /\ \A k \in 1..sent : issued[k].prog = p => k <= m

\* Each deletion is followed by an addition, or will be.
Followed(d) ==
    \/ \E a \in d + 1..sent : /\ issued[a].type = "add"
                              /\ issued[a].prog = issued[d].prog
    \/ \E t \in Callers : /\ caller[t] # Idle /\ caller[t].pc = "add"
                          /\ caller[t].prog = issued[d].prog

MissingInv ==
    /\ \A p \in Touched : \E m \in 1..sent : Last(p, m)
    /\ crashes = 0 =>
          \A d \in 1..sent : issued[d].type = "delete" => Followed(d)

LEMMA MissingInit == ProgramInit => MissingInv
  BY DEF ProgramInit, Init, MissingInv, Touched

\* The last action of a program once another one was queued.
LEMMA LastQueued ==
  ASSUME MissingInv, NEW action, Queued(action)
  PROVE  (\A p \in Touched : \E m \in 1..sent : Last(p, m))'
  <1>1. SUFFICES ASSUME NEW p \in Touched'
                 PROVE  \E m \in 1..sent' : Last(p, m)'
    OBVIOUS
  <1>2. CASE p = action.prog
    <2>1. Last(p, sent)'
      BY <1>2 DEF Last, Queued
    <2>2. sent' \in 1..sent'
      BY DEF Queued
    <2> QED
      BY <2>1, <2>2
  <1>3. CASE p # action.prog
    <2>1. p \in Touched
      BY <1>3 DEF Touched, Queued
    <2>2. PICK m \in 1..sent : Last(p, m)
      BY <2>1 DEF MissingInv
    <2>3. Last(p, m)' /\ m \in 1..sent'
      BY <1>3, <2>2 DEF Last, Queued
    <2> QED
      BY <2>3
  <1> QED
    BY <1>2, <1>3

LEMMA MissingStep ==
  QueueInv /\ CallsInv /\ MissingInv /\ [ProgramNext]_progVars => MissingInv'
  <1> SUFFICES ASSUME QueueInv, CallsInv, MissingInv, [ProgramNext]_progVars
               PROVE  MissingInv'
    OBVIOUS
  <1>0. sent \in Nat /\ crashes \in Nat
    BY QueueAssumption DEF QueueAssumption, QueueInv, TypeOK
  <1>1. ASSUME NEW t \in Callers, NEW p, NEW text, NEW pc, NEW n,
               Begins(t, p, pc, text, n)
        PROVE  MissingInv'
    <2>1. UNCHANGED <<sent, issued, crashes>> /\ caller[t] = Idle
          /\ \A u \in Callers \ {t} : caller'[u] = caller[u]
      BY <1>1 DEF Begins, Goes, vars
    <2>2. \A d \in 1..sent : Followed(d) => Followed(d)'
      BY <2>1 DEF Followed
    <2> QED
      BY <2>1, <2>2 DEF MissingInv, Last, Touched
  <1>2. ASSUME NEW t \in Callers, NEW p \in Programs,
               \/ AddProgram(t, p) \/ UpdateProgram(t, p)
               \/ UpdateMisreads(t, p)
        PROVE  MissingInv'
    BY <1>1, <1>2, Beginning
  <1>3. ASSUME NEW t \in Callers, SendDelete(t)
        PROVE  MissingInv'
    <2>1. PICK text : \E p \in Programs, n \in 0..sent :
             /\ caller[t] = [pc |-> "delete", prog |-> p, text |-> text,
                             since |-> n]
             /\ Queued(Deletion(p))
             /\ Goes(t, [pc |-> "add", prog |-> p, text |-> text,
                         since |-> n])
      BY <1>3, Deleting
    <2>2. PICK p \in Programs, n \in 0..sent :
             /\ caller[t] = [pc |-> "delete", prog |-> p, text |-> text,
                             since |-> n]
             /\ Queued(Deletion(p))
             /\ Goes(t, [pc |-> "add", prog |-> p, text |-> text,
                         since |-> n])
      BY <2>1
    <2>3. ASSUME NEW d \in 1..sent, Followed(d)
          PROVE  Followed(d)'
      BY <1>0, <2>2, <2>3 DEF Followed, Goes, Queued
    <2>4. Followed(sent)'
      BY <2>2 DEF Followed, Goes, Queued, Deletion, Idle
    <2>5. crashes' = crashes /\ 1..sent' = 1..sent \union {sent'}
          /\ \A d \in 1..sent : issued'[d] = issued[d]
      BY <2>2 DEF Queued
    <2> QED
      BY <2>2, <2>3, <2>4, <2>5, LastQueued DEF MissingInv
  <1>4. ASSUME NEW t \in Callers, SendAdd(t)
        PROVE  MissingInv'
    <2>1. PICK text : \E p \in Programs, n \in 0..sent :
             /\ caller[t] = [pc |-> "add", prog |-> p, text |-> text,
                             since |-> n]
             /\ Queued(Addition(p, text, n)) /\ Goes(t, Idle)
      BY <1>4, Adding
    <2>2. PICK p \in Programs, n \in 0..sent :
             /\ caller[t] = [pc |-> "add", prog |-> p, text |-> text,
                             since |-> n]
             /\ Queued(Addition(p, text, n)) /\ Goes(t, Idle)
      BY <2>1
    <2>3. ASSUME NEW d \in 1..sent, Followed(d)
          PROVE  Followed(d)'
      <3>1. CASE issued[d].prog = p
        <4>1. sent' \in d + 1..sent' /\ issued'[d] = issued[d]
          BY <1>0, <2>2 DEF Queued
        <4>2. issued'[sent'].type = "add" /\ issued'[sent'].prog = p
          BY <2>2 DEF Queued, Addition
        <4> QED
          BY <3>1, <4>1, <4>2 DEF Followed
      <3>2. CASE issued[d].prog # p
        <4>1. \A a \in d + 1..sent : a \in d + 1..sent' /\ a \in 1..sent
          BY <1>0, <2>2 DEF Queued
        <4>2. \A u \in Callers : u = t \/ caller'[u] = caller[u]
          BY <2>2 DEF Goes
        <4>3. caller[t].prog = p
          BY <2>2
        <4>4. \A a \in 1..sent : issued'[a] = issued[a]
          BY <2>2 DEF Queued
        <4> QED
          BY <2>3, <3>2, <4>1, <4>2, <4>3, <4>4 DEF Followed
      <3> QED
        BY <3>1, <3>2
    <2>4. issued'[sent'].type # "delete"
      BY <2>2 DEF Queued, Addition
    <2>5. crashes' = crashes /\ 1..sent' = 1..sent \union {sent'}
          /\ \A d \in 1..sent : issued'[d] = issued[d]
      BY <2>2 DEF Queued
    <2> QED
      BY <2>2, <2>3, <2>4, <2>5, LastQueued DEF MissingInv
  <1>5. CASE IndexerStep
    <2>1. UNCHANGED <<sent, issued, caller, crashes>>
      BY <1>5, IndexerKinds
    <2> QED
      BY <2>1 DEF MissingInv, Followed, Last, Touched
  <1>6. CASE ProgramCrash
    <2>1. UNCHANGED <<sent, issued>> /\ crashes' # 0
      BY <1>0, <1>6 DEF ProgramCrash, Crash
    <2> QED
      BY <2>1 DEF MissingInv, Last, Touched
  <1>7. CASE UNCHANGED progVars
    BY <1>7 DEF progVars, vars, callVars, MissingInv, Followed, Last, Touched
  <1> QED
    BY <1>2, <1>3, <1>4, <1>5, <1>6, <1>7
       DEF ProgramNext, Calling, UpdateThrows

\* However the calls interleave, no program that was ever added is missing
\* when everything is performed, unless an action of its own failed or was
\* lost.
THEOREM NothingGoesMissing == ProgramSpec => []NeverLeftMissing
  <1>1. QueueInv /\ CallsInv /\ MissingInv => NeverLeftMissing
    <2> SUFFICES ASSUME QueueInv, CallsInv, MissingInv,
                        Quiet, crashes = 0, NEW p \in Touched, ~GivenUp(p)
                 PROVE  Live(p) # {}
      BY DEF NeverLeftMissing
    <2>1. PICK m \in 1..sent : Last(p, m)
      BY DEF MissingInv
    <2>2. sent \in Nat /\ SeqSet(index) \subseteq 1..sent
          /\ m \in SeqSet(index)
      BY <2>1, AllIndexed, Whereabouts DEF Quiet, Last
    <2>3. issued[m].type = "add"
      <3>1. SUFFICES ASSUME issued[m].type # "add"
                     PROVE  FALSE
        OBVIOUS
      <3>2. issued[m].type = "delete"
        BY <3>1 DEF CallsInv, IssuedOK, Deletion
      <3>3. \E a \in m + 1..sent : issued[a].prog = p
        BY <2>1, <3>2 DEF MissingInv, Followed, Last, Quiet, AllIdle
      <3> QED
        BY <2>1, <2>2, <3>3 DEF Last
    <2>4. ASSUME NEW d \in 1..sent, issued[d] = Deletion(p)
          PROVE  d < m
      <3>1. issued[d].prog = p /\ issued[d].type = "delete"
        BY <2>4 DEF Deletion
      <3> QED
        BY <2>1, <2>2, <2>3, <3>1 DEF Last
    <2> QED
      BY <2>1, <2>2, <2>3, <2>4 DEF Live, Last
  <1> QED
    BY <1>1, MissingInit, MissingStep, QueueInvariant, CallsInvariant, PTL
       DEF ProgramSpec

-----------------------------------------------------------------------------
(* Calls one after the other.                                              *)

\* The additions of program p that were queued.
Adds(p) == {a \in 1..sent : issued[a].type = "add" /\ issued[a].prog = p}

\* Once all is performed, program p has no document.
Cleared(p) == \A a \in Adds(p) : Deletions(p, a, sent) # {}

\* Once all is performed, program p has one document with the latest
\* captions, unless it has never been added.
Tidy(p) ==
    IF p \notin Touched THEN latest[p] = NoCaptions
    ELSE \E a \in Adds(p) :
            /\ issued[a].text = latest[p] /\ Deletions(p, a, sent) = {}
            /\ \A b \in Adds(p) \ {a} : Deletions(p, b, sent) # {}

Busy(t) == caller[t] # Idle

\* A program of which nothing is said.
Excepted(p) == GivenUp(p) \/ p \in misread

SequentialInv ==
    /\ latest \in [Programs -> Nat] /\ calls \in Nat
    /\ (~overlapped /\ crashes = 0) =>
          /\ \A t, u \in Callers : Busy(t) /\ Busy(u) => t = u
          /\ \A p \in Programs :
                \/ Tidy(p) \/ Excepted(p)
                \/ \E t \in Callers : Busy(t) /\ caller[t].prog = p
          /\ \A t \in Callers :
                Busy(t) /\ ~Excepted(caller[t].prog) =>
                   /\ caller[t].text = latest[caller[t].prog]
                   /\ caller[t].pc = "add" => Cleared(caller[t].prog)

LEMMA SequentialInit == ProgramInit => SequentialInv
  BY DEF ProgramInit, Init, SequentialInv, Busy, Tidy, Touched, NoCaptions

\* An action of another program changes nothing.
LEMMA QueuedElsewhere ==
  ASSUME NEW action, Queued(action), NEW p, action.prog # p,
         latest' = latest
  PROVE  Tidy(p) => Tidy(p)'
  <1>1. Adds(p)' = Adds(p)
    BY DEF Adds, Queued
  <1>2. \A a \in Adds(p) : Deletions(p, a, sent)' = Deletions(p, a, sent)
    <2>1. action # Deletion(p)
      BY DEF Deletion
    <2>2. ASSUME NEW a \in 1..sent
          PROVE  Deletions(p, a, sent)' = Deletions(p, a, sent)
      BY <2>1 DEF Deletions, Queued
    <2> QED
      BY <2>2 DEF Adds
  <1>3. p \in Touched' <=> p \in Touched
    BY DEF Touched, Queued
  <1>4. \A a \in Adds(p) : issued'[a] = issued[a]
    BY DEF Adds, Queued
  <1> QED
    BY <1>1, <1>2, <1>3, <1>4 DEF Tidy

\* What an update finds in an index that shows all.
LEMMA LiveWhenSettled ==
  ASSUME QueueInv, Settled, NEW p, ~GivenUp(p)
  PROVE  Live(p) = {a \in Adds(p) : Deletions(p, a, sent) = {}}
  <1>1. /\ SeqSet(index) \subseteq 1..sent /\ sent \in Nat
        /\ \A a \in 1..sent : issued[a].prog = p => a \in SeqSet(index)
    BY AllIndexed, Whereabouts
  <1>2. ASSUME NEW a \in Adds(p)
        PROVE  (\A d \in 1..sent : issued[d] = Deletion(p) => d < a)
               <=> Deletions(p, a, sent) = {}
    <2>1. a \in 1..sent /\ issued[a] # Deletion(p)
      BY DEF Adds, Deletion
    <2>2. \A d \in 1..sent : d < a \/ d = a \/ d \in a + 1..sent
      BY <1>1, <2>1
    <2>3. \A d \in a + 1..sent : d \in 1..sent /\ ~(d < a)
      BY <1>1, <2>1
    <2> QED
      BY <2>1, <2>2, <2>3 DEF Deletions
  <1>3. Deletion(p).prog = p
    BY DEF Deletion
  <1>4. \A d \in 1..sent : issued[d] = Deletion(p) => d \in SeqSet(index)
    BY <1>1, <1>3
  <1>5. \A a : (a \in SeqSet(index) /\ issued[a].type = "add"
                   /\ issued[a].prog = p) <=> a \in Adds(p)
    BY <1>1 DEF Adds
  <1> QED
    BY <1>1, <1>2, <1>4, <1>5 DEF Live

LEMMA SequentialAdd ==
  ASSUME QueueInv, CallsInv, SequentialInv, NEW t \in Callers,
         NEW p \in Programs, AddProgram(t, p)
  PROVE  SequentialInv'
  <1>1. Begins(t, p, "delete", calls + 1, sent)
    BY Beginning
  <1>2. /\ latest' = [latest EXCEPT ![p] = calls + 1]
        /\ calls' = calls + 1
        /\ ~overlapped' => ~overlapped /\ AllIdle
        /\ misread' = misread \ {p}
    BY DEF AddProgram, Call
  <1>3. UNCHANGED <<sent, issued, crashes, failed, lost>>
    BY <1>1 DEF Begins, vars
  <1>4. latest' \in [Programs -> Nat] /\ calls' \in Nat
    BY <1>2 DEF SequentialInv
  <1>5. ASSUME ~overlapped', crashes = 0
        PROVE  /\ \A u \in Callers \ {t} : caller'[u] = Idle
               /\ \A q \in Programs \ {p} : Tidy(q)' \/ Excepted(q)'
    <2>1. \A u \in Callers : caller[u] = Idle
      BY <1>2, <1>5 DEF AllIdle
    <2>2. \A q \in Programs \ {p} : Tidy(q) \/ Excepted(q)
      BY <1>2, <1>5, <2>1 DEF SequentialInv, Busy
    <2>3. \A q \in Programs \ {p} : latest'[q] = latest[q]
      BY <1>2 DEF SequentialInv
    <2>4. \A q \in Programs \ {p} : Tidy(q)' \/ Excepted(q)'
      BY <1>2, <1>3, <2>2, <2>3 DEF Tidy, Touched, Adds, Deletions, GivenUp, Excepted
    <2> QED
      BY <1>1, <2>1, <2>4 DEF Begins, Goes
  <1>6. /\ caller'[t] # Idle /\ caller'[t].prog = p
        /\ caller'[t].text = latest'[p] /\ caller'[t].pc # "add"
    BY <1>1, <1>2 DEF Begins, Goes, Idle, SequentialInv
  <1> QED
    BY <1>3, <1>4, <1>5, <1>6 DEF SequentialInv, Busy

LEMMA SequentialUpdate ==
  ASSUME QueueInv, CallsInv, SequentialInv, NEW t \in Callers,
         NEW p \in Programs, UpdateProgram(t, p)
  PROVE  SequentialInv'
  <1>1. /\ latest' = latest /\ calls' = calls + 1
        /\ ~overlapped' => ~overlapped /\ AllIdle /\ Settled
        /\ UNCHANGED <<vars, issued, misread>>
    BY DEF UpdateProgram, Call
  <1>2. UNCHANGED <<sent, issued, crashes, failed, lost>>
    BY <1>1 DEF vars
  <1>3. \A q \in Programs : /\ Tidy(q)' = Tidy(q) /\ Cleared(q)' = Cleared(q)
                            /\ Excepted(q)' = Excepted(q)
    BY <1>1, <1>2
       DEF Tidy, Cleared, Touched, Adds, Deletions, GivenUp, Excepted
  <1>4. /\ \A u \in Callers \ {t} : caller'[u] = caller[u]
        /\ caller'[t] # Idle /\ caller'[t].prog = p
        /\ Live(p) = {} => caller'[t].text = NoCaptions
        /\ Live(p) # {} => /\ caller'[t].pc # "add"
                           /\ caller'[t].text = issued[FirstHit(p)].text
    <2>1. IF Live(p) = {}
            THEN Begins(t, p, "add", NoCaptions, 0)
            ELSE Begins(t, p, "delete", CaptionsKept(FirstHit(p)), sent)
      BY Beginning
    <2>2. CASE Live(p) = {}
      <3>1. Begins(t, p, "add", NoCaptions, 0)
        BY <2>1, <2>2
      <3> QED
        BY <2>2, <3>1 DEF Begins, Goes, Idle
    <2>3. CASE Live(p) # {}
      <3>1. Begins(t, p, "delete", issued[FirstHit(p)].text, sent)
        BY <2>1, <2>3 DEF CaptionsKept
      <3> QED
        BY <2>3, <3>1 DEF Begins, Goes, Idle
    <2> QED
      BY <2>2, <2>3
  <1>5. ASSUME ~overlapped', crashes = 0, ~Excepted(p)
        PROVE  /\ caller'[t].text = latest[p]
               /\ caller'[t].pc = "add" => Cleared(p)
    <2>1. \A u \in Callers : caller[u] = Idle
      BY <1>1, <1>5 DEF AllIdle
    <2>2. Tidy(p)
      BY <1>1, <1>5, <2>1 DEF SequentialInv, Busy
    <2>3. Live(p) = {a \in Adds(p) : Deletions(p, a, sent) = {}}
      BY <1>1, <1>5, LiveWhenSettled DEF Excepted
    <2>4. CASE p \notin Touched
      <3>1. Adds(p) = {}
        BY <2>4 DEF Adds, Touched
      <3> QED
        BY <1>4, <2>2, <2>3, <2>4, <3>1 DEF Tidy, Cleared
    <2>5. CASE p \in Touched
      <3>1. PICK a \in Adds(p) :
               /\ issued[a].text = latest[p] /\ Deletions(p, a, sent) = {}
               /\ \A b \in Adds(p) \ {a} : Deletions(p, b, sent) # {}
        BY <2>2, <2>5 DEF Tidy
      <3>2. Live(p) = {a}
        BY <2>3, <3>1
      <3>3. a \in Nat
        BY Whereabouts DEF Adds
      <3>4. FirstHit(p) = a
        BY <3>2, <3>3 DEF FirstHit
      <3> QED
        BY <1>4, <3>1, <3>2, <3>4
    <2> QED
      BY <2>4, <2>5
  <1>6. ASSUME ~overlapped', crashes = 0
        PROVE  /\ \A u \in Callers \ {t} : caller'[u] = Idle
               /\ \A q \in Programs : Tidy(q)' \/ Excepted(q)'
    BY <1>1, <1>3, <1>4, <1>6 DEF SequentialInv, Busy, AllIdle
  <1> QED
    BY <1>1, <1>2, <1>3, <1>4, <1>5, <1>6 DEF SequentialInv, Busy

LEMMA SequentialMisread ==
  ASSUME QueueInv, CallsInv, SequentialInv, NEW t \in Callers,
         NEW p \in Programs, UpdateMisreads(t, p)
  PROVE  SequentialInv'
  <1>1. /\ latest' = latest /\ calls' = calls + 1
        /\ ~overlapped' => ~overlapped /\ AllIdle
        /\ misread' = misread \union {p}
        /\ UNCHANGED <<sent, issued, crashes, failed, lost>>
    BY DEF UpdateMisreads, Call, vars
  <1>2. \A q \in Programs \ {p} : /\ Tidy(q)' = Tidy(q)
                                  /\ Excepted(q)' = Excepted(q)
    BY <1>1 DEF Tidy, Touched, Adds, Deletions, GivenUp, Excepted
  <1>3. /\ \A u \in Callers \ {t} : caller'[u] = caller[u]
        /\ caller'[t].prog = p
    <2>1. Begins(t, p, "add", NoCaptions, 0)
      BY Beginning
    <2> QED
      BY <2>1 DEF Begins, Goes
  <1>4. Excepted(p)'
    BY <1>1 DEF Excepted
  <1>5. ASSUME ~overlapped', crashes = 0
        PROVE  /\ \A u \in Callers \ {t} : caller'[u] = Idle
               /\ \A q \in Programs : Tidy(q)' \/ Excepted(q)'
    BY <1>1, <1>2, <1>3, <1>4, <1>5 DEF SequentialInv, Busy, AllIdle
  <1> QED
    BY <1>1, <1>3, <1>4, <1>5 DEF SequentialInv, Busy

LEMMA SequentialSend ==
  ASSUME QueueInv, CallsInv, SequentialInv, NEW t \in Callers,
         SendDelete(t) \/ SendAdd(t)
  PROVE  SequentialInv'
  <1>0. /\ latest' = latest /\ calls' = calls /\ overlapped' = overlapped
        /\ misread' = misread /\ sent \in Nat
    BY Whereabouts DEF SendDelete, SendAdd
  <1>1. ASSUME NEW action, NEW p \in Programs, Queued(action),
               action.prog = p, caller[t] # Idle, caller[t].prog = p,
               \A u \in Callers \ {t} : caller'[u] = caller[u],
               ~overlapped, crashes = 0
        PROVE  /\ \A u \in Callers \ {t} : caller'[u] = Idle
               /\ \A q \in Programs \ {p} : Tidy(q)' \/ Excepted(q)'
               /\ Excepted(p) => Excepted(p)'
               /\ ~Excepted(p) => /\ caller[t].text = latest[p]
                                  /\ caller[t].pc = "add" => Cleared(p)
    <2>0. \A q : Excepted(q) => Excepted(q)'
      BY <1>0, <1>1, GivenUpStays DEF Queued, Excepted
    <2>1. \A u \in Callers \ {t} : caller[u] = Idle
      BY <1>1 DEF SequentialInv, Busy
    <2>2. \A q \in Programs \ {p} : Tidy(q) \/ Excepted(q)
      BY <1>1, <2>1 DEF SequentialInv, Busy
    <2>3. \A q \in Programs \ {p} : Tidy(q)' \/ Excepted(q)'
      BY <1>0, <1>1, <2>0, <2>2, QueuedElsewhere
    <2> QED
      BY <1>1, <2>0, <2>1, <2>3 DEF SequentialInv, Busy
  <1>2. CASE SendDelete(t)
    <2>1. PICK text : \E p \in Programs, n \in 0..sent :
             /\ caller[t] = [pc |-> "delete", prog |-> p, text |-> text,
                             since |-> n]
             /\ Queued(Deletion(p))
             /\ Goes(t, [pc |-> "add", prog |-> p, text |-> text,
                         since |-> n])
      BY <1>2, Deleting
    <2>2. PICK p \in Programs, n \in 0..sent :
             /\ caller[t] = [pc |-> "delete", prog |-> p, text |-> text,
                             since |-> n]
             /\ Queued(Deletion(p))
             /\ Goes(t, [pc |-> "add", prog |-> p, text |-> text,
                         since |-> n])
      BY <2>1
    <2>3. Cleared(p)'
      <3>1. ASSUME NEW a \in Adds(p)'
            PROVE  sent' \in Deletions(p, a, sent)'
        BY <1>0, <2>2 DEF Adds, Deletions, Deletion, Queued
      <3> QED
        BY <3>1 DEF Cleared
    <2>4. /\ caller[t] # Idle /\ caller[t].prog = p /\ caller[t].text = text
          /\ caller'[t] # Idle /\ caller'[t].prog = p
          /\ caller'[t].text = text
          /\ \A u \in Callers \ {t} : caller'[u] = caller[u]
          /\ Deletion(p).prog = p
          /\ crashes' = crashes
      BY <2>2 DEF Goes, Idle, Deletion, Queued
    <2>5. ASSUME ~overlapped, crashes = 0
          PROVE  /\ \A u \in Callers \ {t} : caller'[u] = Idle
                 /\ \A q \in Programs \ {p} : Tidy(q)' \/ Excepted(q)'
                 /\ ~Excepted(p)' => text = latest[p]
      BY <1>1, <2>2, <2>4, <2>5
    <2> QED
      BY <1>0, <2>3, <2>4, <2>5 DEF SequentialInv, Busy
  <1>3. CASE SendAdd(t)
    <2>1. PICK text : \E p \in Programs, n \in 0..sent :
             /\ caller[t] = [pc |-> "add", prog |-> p, text |-> text,
                             since |-> n]
             /\ Queued(Addition(p, text, n)) /\ Goes(t, Idle)
      BY <1>3, Adding
    <2>2. PICK p \in Programs, n \in 0..sent :
             /\ caller[t] = [pc |-> "add", prog |-> p, text |-> text,
                             since |-> n]
             /\ Queued(Addition(p, text, n)) /\ Goes(t, Idle)
      BY <2>1
    <2>3. /\ caller[t] # Idle /\ caller[t].prog = p /\ caller[t].text = text
          /\ caller[t].pc = "add" /\ caller'[t] = Idle
          /\ \A u \in Callers \ {t} : caller'[u] = caller[u]
          /\ Addition(p, text, n).prog = p
          /\ crashes' = crashes
      BY <2>2 DEF Goes, Idle, Addition, Queued
    <2>4. ASSUME ~overlapped, crashes = 0
          PROVE  /\ \A u \in Callers \ {t} : caller'[u] = Idle
                 /\ \A q \in Programs \ {p} : Tidy(q)' \/ Excepted(q)'
                 /\ ~Excepted(p)' => text = latest[p] /\ Cleared(p)
      BY <1>1, <2>2, <2>3, <2>4
    <2>5. ASSUME text = latest[p], Cleared(p)
          PROVE  Tidy(p)'
      <3>1. /\ sent' \in Adds(p)' /\ issued'[sent'].text = latest'[p]
            /\ p \in Touched'
        BY <1>0, <2>2, <2>5 DEF Queued, Adds, Addition, Touched
      <3>2. Deletions(p, sent, sent)' = {}
        <4>1. sent' \in Nat
          BY <1>0, <2>2 DEF Queued
        <4> QED
          BY <4>1 DEF Deletions
      <3>3. ASSUME NEW b \in Adds(p)', b # sent'
            PROVE  Deletions(p, b, sent)' # {}
        <4>1. b \in Adds(p)
          BY <2>2, <3>3 DEF Adds, Queued
        <4>2. PICK d \in Deletions(p, b, sent) : TRUE
          BY <2>5, <4>1 DEF Cleared
        <4>3. d \in Deletions(p, b, sent)'
          BY <1>0, <2>2, <4>1 DEF Deletions, Adds, Queued
        <4> QED
          BY <4>3
      <3> QED
        BY <3>1, <3>2, <3>3 DEF Tidy
    <2> QED
      BY <1>0, <2>3, <2>4, <2>5 DEF SequentialInv, Busy
  <1> QED
    BY <1>2, <1>3

LEMMA SequentialStep ==
  QueueInv /\ CallsInv /\ SequentialInv /\ [ProgramNext]_progVars
  => SequentialInv'
  <1> SUFFICES ASSUME QueueInv, CallsInv, SequentialInv,
                      [ProgramNext]_progVars
               PROVE  SequentialInv'
    OBVIOUS
  \* A step that queues nothing and in which no call goes on.
  <1>0. ASSUME UNCHANGED <<sent, issued, caller, calls, latest, overlapped,
                           misread, crashes>>,
               failed \subseteq failed', lost \subseteq lost'
        PROVE  SequentialInv'
    <2>1. \A p : Excepted(p) => Excepted(p)'
      BY <1>0, GivenUpStays DEF Excepted
    <2>2. \A p : Tidy(p)' = Tidy(p) /\ Cleared(p)' = Cleared(p)
      BY <1>0 DEF Tidy, Cleared, Touched, Adds, Deletions
    <2>3. \A t : Busy(t)' = Busy(t)
      BY <1>0 DEF Busy
    <2> QED
      BY <1>0, <2>1, <2>2, <2>3 DEF SequentialInv
  <1>1. CASE IndexerStep
    <2>1. /\ UNCHANGED <<sent, issued, caller, calls, latest, overlapped,
                         misread, crashes>>
          /\ failed \subseteq failed' /\ lost \subseteq lost'
      BY <1>1, IndexerKinds
    <2> QED
      BY <1>0, <2>1
  <1>2. CASE ProgramCrash
    <2>1. UNCHANGED <<calls, latest>> /\ crashes' # 0
      BY <1>2, QueueAssumption
         DEF QueueAssumption, QueueInv, TypeOK, ProgramCrash, Crash
    <2> QED
      BY <2>1 DEF SequentialInv
  <1>3. CASE UNCHANGED progVars
    <2>1. UNCHANGED <<sent, issued, caller, calls, latest, overlapped,
                      misread, crashes, failed, lost>>
      BY <1>3 DEF progVars, vars, callVars
    <2> QED
      BY <1>0, <2>1
  <1> QED
    BY <1>1, <1>2, <1>3, SequentialAdd, SequentialUpdate, SequentialMisread,
       SequentialSend
       DEF ProgramNext, Calling, UpdateThrows

\* Calls that do not run beside each other, and updates that see the index of
\* all earlier calls, leave one document for each program, with the captions
\* of the last addProgram, unless an action of that program failed or was
\* lost, or an update could not read the program since.
THEOREM OneLatestDocument == ProgramSpec => []OneDocumentWithLatestCaptions
  <1>1. QueueInv /\ CallsInv /\ SequentialInv
        => OneDocumentWithLatestCaptions
    <2> SUFFICES ASSUME QueueInv, CallsInv, SequentialInv,
                        Quiet, ~overlapped, crashes = 0,
                        NEW p \in Touched, ~Excepted(p)
                 PROVE  \E a \in Live(p) :
                           Live(p) = {a} /\ issued[a].text = latest[p]
      BY DEF OneDocumentWithLatestCaptions, Excepted
    <2>1. p \in Programs
      BY DEF Touched, CallsInv, IssuedOK
    <2>2. Tidy(p)
      BY <2>1 DEF SequentialInv, Busy, Quiet, AllIdle
    <2>3. PICK a \in Adds(p) :
             /\ issued[a].text = latest[p] /\ Deletions(p, a, sent) = {}
             /\ \A b \in Adds(p) \ {a} : Deletions(p, b, sent) # {}
      BY <2>2 DEF Tidy
    <2>4. Live(p) = {c \in Adds(p) : Deletions(p, c, sent) = {}}
      BY LiveWhenSettled DEF Quiet, Excepted
    <2> QED
      BY <2>3, <2>4
  <1> QED
    BY <1>1, SequentialInit, SequentialStep, QueueInvariant, CallsInvariant,
       PTL DEF ProgramSpec
=============================================================================
