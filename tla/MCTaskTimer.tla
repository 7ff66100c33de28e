----------------------------- MODULE MCTaskTimer -----------------------------
(***************************************************************************)
(* A small instance of TaskTimer for TLC.                                  *)
(***************************************************************************)
EXTENDS TaskTimer

CONSTANTS channel1, channel2
=============================================================================
