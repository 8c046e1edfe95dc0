--------------------------- MODULE MCRecordStore ----------------------------
(***************************************************************************)
(* Instances of RecordStore for TLC.  The requests are the bound: each     *)
(* runs once, so the number of records, commits and votes is theirs.       *)
(* Requests, and foreign writers, are interchangeable.  When one request   *)
(* is handled at a time, two of them may be cut off.                       *)
(*                                                                         *)
(* The names of the files and the tokens, which RecordStore leaves out,    *)
(* are evaluated on the way, for texts of up to two characters.            *)
(***************************************************************************)
EXTENDS RecordStore, RecordTokens, TLC

Symmetry == Permutations(Requests) \cup Permutations(Foreign)

\* The bound on requests that are cut off: one, and another that goes on from
\* what it has left, or that repeats it.
AtMostTwoCut == Cardinality({r \in Requests : pc[r] \in {"cut", "torn"}}) <= 2

Texts   == UNION {[1..n -> {"1", "2", Dash}] : n \in 0..2}
Numbers == {t \in Texts : Plain(t) /\ Len(t) > 0}

\* A token leads to the record it was given for and to no other one.
ASSUME TokensFindTheirRecordSmall ==
    \A token \in Texts, id, other, timestamp \in Numbers :
        /\ IDOfPrefix(FileNamePrefix(timestamp, id)) = {id}
        /\ ParseTokenAndID(FullToken(token, id)) = {<<token, id>>}
        /\ Found({FileNamePrefix(timestamp, other)}, id) # {} <=> other = id
=============================================================================
