------------------------------ MODULE ActionLog ------------------------------
(***************************************************************************)
(* What an index promises to the code that sends it work, with the thread, *)
(* the monitor and the Lucene writer of IndexerQueue left out: actions are *)
(* accepted in some order, take effect in that order and at most once, and *)
(* a failure may discard a run of neighbouring actions that have not taken *)
(* effect yet, but never reorder, repeat or invent one.                    *)
(***************************************************************************)
EXTENDS Naturals, Sequences

CONSTANT MaxActions      \* how many actions are ever submitted

VARIABLES submitted,     \* number of actions accepted; they are 1, 2, ...
          pending,       \* accepted, not yet visible to a searcher
          applied        \* visible in the index, in the order they took effect

log == <<submitted, pending, applied>>

Init == submitted = 0 /\ pending = <<>> /\ applied = <<>>

Submit ==
    /\ submitted < MaxActions
    /\ submitted' = submitted + 1
    /\ pending' = Append(pending, submitted + 1)
    /\ UNCHANGED applied

\* A searcher opened from now on sees the first n pending actions.
Commit(n) ==
    /\ applied' = applied \o SubSeq(pending, 1, n)
    /\ pending' = SubSeq(pending, n + 1, Len(pending))
    /\ UNCHANGED submitted

\* Pending actions i..j are given up.
Discard(i, j) ==
    /\ pending' = SubSeq(pending, 1, i - 1)
                    \o SubSeq(pending, j + 1, Len(pending))
    /\ UNCHANGED <<submitted, applied>>

Next == \/ Submit
        \/ \E n \in 1..Len(pending) : Commit(n)
        \/ \E i \in 1..Len(pending) : \E j \in i..Len(pending) : Discard(i, j)

Spec == Init /\ [][Next]_log
=============================================================================
