------------------------- MODULE RemoteControlProofs -------------------------
(***************************************************************************)
(* Theorem about RemoteControl, for any channels, any keys and any         *)
(* failures of the media centre and the movie.                             *)
(*                                                                         *)
(* TimerOfLastDigit says nothing while the buffer is empty, yet a timer    *)
(* may be running then (Enter leaves it set), and the next digit must find *)
(* it to clear it.  OneTimer keeps hold of it: the page never has a timer  *)
(* it does not know.                                                       *)
(***************************************************************************)
EXTENDS RemoteControl, TLAPS

RemoteTypeOK == keys \in Nat /\ digitBuffer \in Seq(Digits)

\* The one timer that may be running is the one digitTimer names.
OneTimer == timers \subseteq {digitTimer} \ {NoTimer}

RemoteInv == RemoteTypeOK /\ OneTimer /\ TimerOfLastDigit

-----------------------------------------------------------------------------

LEMMA RemoteInit_Inv == RemoteInit => RemoteInv
  BY DEF RemoteInit, RemoteInv, RemoteTypeOK, OneTimer, TimerOfLastDigit,
     NoTimer

\* applyDigits leaves nothing in the buffer.
LEMMA ApplyEmpties ==
  ASSUME NEW digits, Apply(digits), digits = digitBuffer \/ digits # <<>>
  PROVE  digitBuffer' = <<>>
  BY DEF Apply

LEMMA AppendDigit_Inv ==
  ASSUME RemoteInv, NEW digit \in Digits, AppendDigit(digit)
  PROVE  RemoteInv'
  <1> DEFINE digits == Append(digitBuffer, digit)
  <1>1. digits \in Seq(Digits) /\ digits # <<>>
    <2>1. digitBuffer \in Seq(Digits)
      BY DEF RemoteInv, RemoteTypeOK
    <2>2. digits \in Seq(Digits) /\ Len(digits) = Len(digitBuffer) + 1
      BY <2>1
    <2>3. Len(digitBuffer) \in Nat /\ Len(<<>>) = 0
      BY <2>1
    <2> QED
      BY <2>2, <2>3
  <1>2. keys \in Nat /\ keys' = keys + 1 /\ keys' \in Nat /\ keys' # NoTimer
    BY DEF RemoteInv, RemoteTypeOK, AppendDigit, NoTimer
  <1>3. timers \ {digitTimer} = {}
    BY DEF RemoteInv, OneTimer
  <1> HIDE DEF digits
  <1>4. CASE Collect(digits)
    BY <1>1, <1>2, <1>3, <1>4
       DEF Collect, Rearm, RemoteInv, RemoteTypeOK, OneTimer,
           TimerOfLastDigit
  <1>5. CASE Apply(digits) /\ digitTimer' = NoTimer
             /\ timers' = timers \ {digitTimer}
    <2>1. digitBuffer' = <<>>
      BY <1>1, <1>5, ApplyEmpties
    <2> QED
      BY <1>2, <1>3, <1>5, <2>1
         DEF RemoteInv, RemoteTypeOK, OneTimer, TimerOfLastDigit
  <1> QED
    BY <1>4, <1>5 DEF AppendDigit, digits

LEMMA RemoteStep_Inv == RemoteInv /\ [RemoteNext]_remoteVars => RemoteInv'
  <1> SUFFICES ASSUME RemoteInv, [RemoteNext]_remoteVars
               PROVE  RemoteInv'
    OBVIOUS
  <1> USE DEF RemoteInv, RemoteTypeOK, OneTimer, TimerOfLastDigit
  <1>1. CASE \E digit \in Digits : AppendDigit(digit)
    BY <1>1, AppendDigit_Inv
  <1>2. CASE ShiftedDigit \/ ShiftKey
    BY <1>2 DEF ShiftedDigit, ShiftKey
  <1>3. CASE EnterKey
    <2>1. digitBuffer' = <<>>
      BY <1>3, ApplyEmpties DEF EnterKey
    <2> QED
      BY <1>3, <2>1 DEF EnterKey
  <1>4. CASE ChannelUp \/ ChannelDown
    BY <1>4 DEF ChannelUp, ChannelDown
  <1>5. ASSUME NEW timer \in 1..MaxKeys, TimeOut(timer)
        PROVE  RemoteInv'
    <2>1. digitBuffer' = <<>>
      BY <1>5, ApplyEmpties DEF TimeOut
    <2> QED
      BY <1>5, <2>1 DEF TimeOut
  <1>6. CASE UNCHANGED remoteVars
    BY <1>6 DEF remoteVars
  <1> QED
    BY <1>1, <1>2, <1>3, <1>4, <1>5, <1>6 DEF RemoteNext

LEMMA RemoteInvariant == RemoteSpec => []RemoteInv
  BY RemoteInit_Inv, RemoteStep_Inv, PTL DEF RemoteSpec

\* However keys and timers follow one another, digits that wait are applied by
\* the timer of the last of them: no timer of an earlier digit, and none that
\* Enter left behind, cuts the pause of 1.5 seconds short.
THEOREM PauseKept == RemoteSpec => []TimerOfLastDigit
  <1>1. RemoteInv => TimerOfLastDigit
    BY DEF RemoteInv
  <1> QED
    BY <1>1, RemoteInvariant, PTL
=============================================================================
