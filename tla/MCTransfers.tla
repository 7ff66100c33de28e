---------------------------- MODULE MCTransfers ----------------------------
(***************************************************************************)
(* Small instances of Transfers for TLC.                                   *)
(***************************************************************************)
EXTENDS Transfers

CONSTANTS ep0, epIn, epOut
=============================================================================
