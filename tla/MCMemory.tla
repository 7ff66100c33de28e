------------------------------ MODULE MCMemory ------------------------------
(***************************************************************************)
(* A small instance of Memory for TLC.                                     *)
(***************************************************************************)
EXTENDS Memory, TLC

CONSTANTS thread, interrupt

\* The two callers do the same things.
CallerSymmetry == Permutations(Callers)
=============================================================================
