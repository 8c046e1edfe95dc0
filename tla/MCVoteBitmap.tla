---------------------------- MODULE MCVoteBitmap ----------------------------
(***************************************************************************)
(* Instances of VoteBitmap for TLC: a block of three positions instead of  *)
(* 256, and enough voters to fill it.  Every voter votes once, so the      *)
(* votes are bounded by their number; voters are interchangeable.          *)
(***************************************************************************)
EXTENDS VoteBitmapProofs, TLC

VoterSymmetry == Permutations(Voters)
=============================================================================
