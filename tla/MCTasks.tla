------------------------------ MODULE MCTasks ------------------------------
(***************************************************************************)
(* A small instance of Tasks for TLC.                                      *)
(***************************************************************************)
EXTENDS Tasks, TLC

AnyBlock == Permutations(Blocks)
=============================================================================
