------------------------------ MODULE VoteTally ------------------------------
(***************************************************************************)
(* What the files of a record promise about its votes, without bytes or    *)
(* mutex: they hold a count that grows by one vote at a time, up to a      *)
(* capacity, or nothing that can be counted.  VoteBitmap implements it.    *)
(***************************************************************************)
EXTENDS Integers

CONSTANT Capacity  \* the votes that are counted; later ones are not

VARIABLES
    tally,   \* the votes: how many are credible, and how many there are
    stored,  \* what the files hold of it, taken together at one moment
    ruined   \* a write was cut off in the middle

vars == <<tally, stored, ruined>>

Uncountable == [credible |-> 0, total |-> -1]

Init ==
    /\ tally = [credible |-> 0, total |-> 0]
    /\ stored = tally
    /\ ruined = FALSE

\* The files hold the count, or cannot be counted.
Holds == stored' \in {tally', Uncountable}

\* A vote counts; the files may hold it already.
Vote(v) ==
    /\ ~ruined /\ ~ruined'
    /\ tally.total < Capacity
    /\ tally' = [credible |-> tally.credible + v, total |-> tally.total + 1]
    /\ Holds

\* A vote begins to be written, is being written or was not counted.
Write ==
    /\ ~ruined /\ ~ruined'
    /\ tally' = tally
    /\ Holds

\* Cut off in the middle, the record takes no votes any more, and what its
\* files hold does not change.
Ruin ==
    /\ ~ruined /\ ruined'
    /\ tally' = tally
    /\ Holds

Next == (\E v \in 0..1 : Vote(v)) \/ Write \/ Ruin

Spec == Init /\ [][Next]_vars
=============================================================================
