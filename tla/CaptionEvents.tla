---------------------------- MODULE CaptionEvents ----------------------------
(***************************************************************************)
(* What the capture side of one channel sends to the search site           *)
(* (com.knowbout.cc2nlp, the events of CCEventService), and the schedule   *)
(* of the channel.                                                         *)
(*                                                                         *)
(* A showing is its place in the schedule; Title is its program id, which  *)
(* a rerun shares.  Time is counted in half showings: showing p is on air  *)
(* at 2p - 1 and, in its last SCHEDULE_VARIANCE (two minutes), at 2p.      *)
(***************************************************************************)
EXTENDS Naturals, Sequences, FiniteSets

CONSTANTS MaxPrograms,   \* bound: showings in the schedule, two at least so
                         \* that time can pass into another one
          Title,         \* the program id of each showing
          Faults         \* which failures the environment injects

Programs == 1..MaxPrograms
Titles == {Title[p] : p \in Programs}

FaultKinds == {"down",      \* the search site cannot be reached
               "reply",     \* it does the call and the reply is lost
               "hang",      \* the call never returns
               "forget",    \* it restarts, or its HashMap loses an entry
               "index",     \* its indexer gives up an action
               "epg",       \* it cannot reach the EPG service itself, or is
                            \* told of a program without a network
               "fatal",     \* an Error ends the sending thread
               "disconnect"}\* the capture card or its socket goes away

ASSUME EventsAssumption == /\ MaxPrograms \in Nat \ {0, 1}
                           /\ DOMAIN Title = Programs
                           /\ Faults \subseteq FaultKinds

\* The showing on air, and the one that is on air two minutes later.
OnAir(t) == (t + 1) \div 2
OnAirSoon(t) == OnAir(t + 1)

\* id: how many pieces of caption data had been heard when the event was made.
ProgramStartEvent(p, id) == [kind |-> "start", prog |-> p, id |-> id]
CCSentenceEvent(p, id) == [kind |-> "sentence", prog |-> p, id |-> id]
\* XDS, interactive TV and caption type events: the search site answers them
\* and does nothing.
OtherEvent(p, id) == [kind |-> "other", prog |-> p, id |-> id]

NoEvent == [kind |-> "none", prog |-> 0, id |-> 0]

\* The order in which the reader makes the events: a start event comes before
\* the sentence that caused it.
Place(e) == 2 * e.id + (IF e.kind = "start" THEN 1 ELSE 2)

SeqSet(s) == {s[i] : i \in 1..Len(s)}
=============================================================================
