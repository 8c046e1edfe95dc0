----------------------------- MODULE MCVoteLock ------------------------------
(***************************************************************************)
(* Instances of VoteLock for TLC.  Each vote is handled once, so their     *)
(* number bounds the runs: the second vote follows the first, overlaps it, *)
(* or meets what it left behind.                                           *)
(***************************************************************************)
EXTENDS VoteLock
=============================================================================
