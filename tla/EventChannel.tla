---------------------------- MODULE EventChannel -----------------------------
(***************************************************************************)
(* What the way from the captions of a channel to a search site promises,  *)
(* with the reader, the queue, its bound and the tries left out: events    *)
(* stand in one line in the order in which they were made, and only the    *)
(* first of them is handled.  It may be handled again while it stays the   *)
(* first.  A run of neighbouring events may be lost, but none overtakes    *)
(* another and none comes back.                                            *)
(***************************************************************************)
EXTENDS Naturals, Sequences

CONSTANT Place(_)     \* the moment at which an event was made

VARIABLES last,       \* no event has been made after this moment
          line,       \* the events that are made, and not handled or lost
          served      \* the moment of the last event that was handled

channel == <<last, line, served>>

Init == last = 0 /\ line = <<>> /\ served = 0

\* Events join the line at its end, each made after all those before it.
Made == Len(line) + 1..Len(line')

Make ==
    /\ last <= last'
    /\ Len(line) <= Len(line') /\ SubSeq(line', 1, Len(line)) = line
    /\ \A i \in Made : last < Place(line'[i]) /\ Place(line'[i]) <= last'
    /\ \A i, j \in Made : i < j => Place(line'[i]) < Place(line'[j])
    /\ UNCHANGED served

\* When the reply is lost, the event stays to be handled again.
Serve ==
    /\ line # <<>>
    /\ served' = Place(Head(line))
    /\ line' \in {line, Tail(line)}
    /\ UNCHANGED last

\* Events i..j of the line are lost.
Lose(i, j) ==
    /\ line' = SubSeq(line, 1, i - 1) \o SubSeq(line, j + 1, Len(line))
    /\ UNCHANGED <<last, served>>

Next == \/ Make \/ Serve
        \/ \E i \in 1..Len(line) : \E j \in i..Len(line) : Lose(i, j)

Spec == Init /\ [][Next]_channel
=============================================================================
