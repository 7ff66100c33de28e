------------------------------- MODULE MCDwhci -------------------------------
(***************************************************************************)
(* Small instances of Dwhci for TLC.                                       *)
(***************************************************************************)
EXTENDS Dwhci

CONSTANTS keyboard, mouse, midi

\* A keyboard is polled every tick, a mouse every second one.
MCDelay == [u \in Async |-> IF u = mouse THEN 2 ELSE 0]
=============================================================================
