----------------------------- MODULE UsbRequests -----------------------------
(***************************************************************************)
(* What the host controller driver promises the owner of a request (an     *)
(* URB), without channels, stages or registers.  A transfer stage of an    *)
(* URB is accepted, if a channel is left for it; an accepted one succeeds  *)
(* or fails; the outcome is reported to the URB's completion routine       *)
(* exactly once, one report at a time, and only the report lets the owner  *)
(* submit the URB again.  The completion routine of an input device        *)
(* submits it at once.                                                     *)
(***************************************************************************)
EXTENDS Naturals, FiniteSets

CONSTANTS
  Urbs,       (* the requests that may be in use                        *)
  Resubmits,  (* those whose completion routine submits them again      *)
  Capacity    (* how many stages are in service at most                 *)

VARIABLE phase

Phases == {"idle", "accepted", "succeeded", "failed"}

TypeOK == phase \in [Urbs -> Phases]

InService == {u \in Urbs : phase[u] = "accepted"}
Reporting == {u \in Urbs : phase[u] \in {"succeeded", "failed"}}

Init == phase = [u \in Urbs |-> "idle"]

Accept(u) ==
  /\ phase[u] = "idle"
  /\ Cardinality(InService) < Capacity
  /\ phase' = [phase EXCEPT ![u] = "accepted"]

Finish(u) ==
  /\ phase[u] = "accepted"
  /\ Reporting = {}
  /\ \E outcome \in {"succeeded", "failed"} : phase' = [phase EXCEPT ![u] = outcome]

Report(u) ==
  /\ u \in Reporting
  /\ phase' = [phase EXCEPT ![u] = IF u \in Resubmits THEN "accepted" ELSE "idle"]

Next == \E u \in Urbs : Accept(u) \/ Finish(u) \/ Report(u)

Spec == Init /\ [][Next]_phase
=============================================================================
