---------------------------- MODULE RemoteControl ----------------------------
(***************************************************************************)
(* The page of the media centre that answers the remote control           *)
(* (fliptv.js): digits are collected until there are three, until Enter,   *)
(* or until a timer of 1.5 seconds runs out, and are then a channel to     *)
(* tune to.  The browser runs one handler at a time; what can interleave   *)
(* are the keys and the timers.  The media centre and the Flash movie are  *)
(* other programs, and a call of either may throw.                         *)
(***************************************************************************)
EXTENDS Naturals, Sequences, FiniteSets

CONSTANTS Digits,        \* the digit keys of the instance
          channels,      \* channel numbers in the order of channelmap.js
          MaxKeys,       \* bound: digit keys pressed
          Faults         \* which calls may throw

FaultKinds == {"flash", "media"}

ASSUME RemoteAssumption ==
    /\ Digits \subseteq 0..9 /\ Digits # {}
    /\ channels \in Seq(Nat) /\ channels # <<>>
    /\ MaxKeys \in Nat /\ Faults \subseteq FaultKinds

VARIABLES
    index,          \* currentChannelIndex, counted from 1
    digitBuffer, digitTimer, shift,
    timers,         \* timers of the browser that have not run out; a timer
                    \* has the number of the digit key that set it
    tuned,          \* what the media centre plays, as an index
    shown,          \* what the Flash movie was last told, 0 for digits
    keys,           \* how many digit keys were appended
    unannounced     \* history: the movie threw at the last digit

remoteVars == <<index, digitBuffer, digitTimer, shift, timers, tuned, shown,
                keys, unannounced>>

NoTimer == 0
BufferSize == 3

RemoteInit ==
    /\ index = 1 /\ tuned = 1 /\ shown = 1
    /\ digitBuffer = <<>> /\ digitTimer = NoTimer /\ shift = FALSE
    /\ timers = {} /\ keys = 0 /\ unannounced = FALSE

-----------------------------------------------------------------------------

\* resyncChannel: play the channel, then tell the movie.  index has changed
\* already; the exception of either call is caught by onRemoteEvent, or ends
\* the timer's function.
ResyncChannel ==
    \/ tuned' = index' /\ shown' = index'
    \/ "media" \in Faults /\ UNCHANGED <<tuned, shown>>
    \/ "flash" \in Faults /\ tuned' = index' /\ UNCHANGED shown

\* parseInt: a leading zero makes the number octal, up to the first digit
\* that is none.
ParseInt(digits) ==
    LET Digit(i) == IF i <= Len(digits) THEN digits[i] ELSE 0
        octal == Head(digits) = 0 /\ Len(digits) > 1
    IN  IF ~octal
        THEN CASE Len(digits) = 1 -> Digit(1)
               [] Len(digits) = 2 -> 10 * Digit(1) + Digit(2)
               [] OTHER -> 100 * Digit(1) + 10 * Digit(2) + Digit(3)
        ELSE IF Digit(2) > 7 THEN 0
        ELSE IF Len(digits) = 2 \/ Digit(3) > 7 THEN Digit(2)
        ELSE 8 * Digit(2) + Digit(3)

Listed(channel) == {i \in DOMAIN channels : channels[i] = channel}

\* setChannel: the first entry of that number
SetChannel(channel) ==
    /\ index' = CHOOSE i \in Listed(channel) : \A j \in Listed(channel) : i <= j
    /\ ResyncChannel

\* onPendingChannelChangeCancel: the movie shows the current channel again.
CancelPending ==
    /\ UNCHANGED <<index, tuned>>
    /\ \/ shown' = index
       \/ "flash" \in Faults /\ UNCHANGED shown

\* applyDigits on what the buffer is to hold
Apply(digits) ==
    IF digits = <<>>
    THEN UNCHANGED <<index, digitBuffer, tuned, shown>>
    ELSE /\ digitBuffer' = <<>>
         /\ IF Listed(ParseInt(digits)) # {}
            THEN SetChannel(ParseInt(digits)) ELSE CancelPending

\* mutant: the timer of the digit before is left running
RearmOverlapping ==
    /\ digitTimer' = keys' /\ timers' = timers \cup {keys'}

\* mutant: a timer is set only for the first digit
RearmOnce ==
    /\ digitTimer' = IF digitTimer = NoTimer THEN keys' ELSE NoTimer
    /\ timers' = (timers \ {digitTimer}) \cup ({digitTimer'} \ {NoTimer})

\* The timer of the digit before is cleared and one is set for this digit.
Rearm == /\ digitTimer' = keys'
         /\ timers' = (timers \ {digitTimer}) \cup {keys'}

\* A digit that is not the last: the movie is told before the timer is set.
Collect(digits) ==
    /\ digitBuffer' = digits /\ UNCHANGED <<index, tuned>>
    /\ \/ /\ Rearm /\ unannounced' = FALSE
          /\ shown' = 0
       \/ /\ "flash" \in Faults /\ unannounced' = TRUE
          /\ digitTimer' = NoTimer /\ timers' = timers \ {digitTimer}
          /\ UNCHANGED shown

\* appendDigit
AppendDigit(digit) ==
    LET digits == Append(digitBuffer, digit) IN
    /\ ~shift /\ keys < MaxKeys /\ keys' = keys + 1
    /\ \/ Len(digits) < BufferSize /\ Collect(digits)
       \/ /\ Len(digits) = BufferSize /\ Apply(digits)
          /\ digitTimer' = NoTimer /\ timers' = timers \ {digitTimer}
          /\ unannounced' = FALSE
    /\ UNCHANGED shift

\* A digit under the shift key is left to the movie.  Arrows and unknown keys
\* do the same here: any key but shift itself ends the shift.
ShiftedDigit ==
    /\ shift /\ shift' = FALSE
    /\ UNCHANGED <<index, digitBuffer, digitTimer, timers, tuned, shown, keys,
                   unannounced>>

ShiftKey ==
    /\ ~shift /\ shift' = TRUE
    /\ UNCHANGED <<index, digitBuffer, digitTimer, timers, tuned, shown, keys,
                   unannounced>>

\* The timer stays set.
EnterKey ==
    /\ Apply(digitBuffer) /\ shift' = FALSE
    /\ UNCHANGED <<digitTimer, timers, keys, unannounced>>

\* channelUp and channelDown leave the buffer and its timer alone.
ChannelUp ==
    /\ index' = IF index = Len(channels) THEN 1 ELSE index + 1
    /\ ResyncChannel /\ shift' = FALSE
    /\ UNCHANGED <<digitBuffer, digitTimer, timers, keys, unannounced>>

ChannelDown ==
    /\ index' = IF index = 1 THEN Len(channels) ELSE index - 1
    /\ ResyncChannel /\ shift' = FALSE
    /\ UNCHANGED <<digitBuffer, digitTimer, timers, keys, unannounced>>

\* The function of a timer; digitTimer keeps the number of a timer that is
\* over, and clearing that does nothing.
TimeOut(timer) ==
    /\ timer \in timers /\ timers' = timers \ {timer}
    /\ Apply(digitBuffer)
    /\ UNCHANGED <<digitTimer, shift, keys, unannounced>>

RemoteNext ==
    \/ (\E digit \in Digits : AppendDigit(digit))
    \/ ShiftedDigit \/ ShiftKey \/ EnterKey \/ ChannelUp \/ ChannelDown
    \/ (\E timer \in 1..MaxKeys : TimeOut(timer))

\* Timers run out.  Nobody presses a key for ever: digit keys are bounded, and
\* the others do not hold a timer up.
RemoteSpec == /\ RemoteInit /\ [][RemoteNext]_remoteVars
              /\ \A timer \in 1..MaxKeys : WF_remoteVars(TimeOut(timer))

-----------------------------------------------------------------------------
(* Properties.                                                             *)

\* Digits that wait in the buffer are applied by the timer of the last of
\* them and by no other, however Enter, the channel keys and digits follow one
\* another: never before the pause the user was promised.  If the movie threw
\* there is no timer.
TimerOfLastDigit ==
    digitBuffer # <<>> => timers = IF unannounced THEN {} ELSE {keys}

\* Digits do not stay in the buffer, unless the movie threw.
DigitsApplied ==
    digitBuffer # <<>> /\ ~unannounced ~> digitBuffer = <<>> \/ unannounced
=============================================================================
