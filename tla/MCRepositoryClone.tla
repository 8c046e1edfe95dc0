-------------------------- MODULE MCRepositoryClone ---------------------------
(***************************************************************************)
(* Instances of RepositoryClone for TLC.  Each request is handled once.    *)
(* Requests do not differ, so they are symmetric: no property is temporal  *)
(* beyond a single step.                                                   *)
(***************************************************************************)
EXTENDS RepositoryClone, TLC

Symmetric == Permutations(Requests)
=============================================================================
