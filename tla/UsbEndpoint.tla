----------------------------- MODULE UsbEndpoint -----------------------------
(***************************************************************************)
(* The packet identifier an endpoint uses next (usbendpoint.cpp).          *)
(***************************************************************************)
EXTENDS Integers

PIDs == {"Setup", "Data0", "Data1"}

\* Control endpoints begin with a setup packet, the others with DATA0.
InitialPID(isControl) == IF isControl THEN "Setup" ELSE "Data0"

GetNextPID(pid, status) == IF status THEN "Data1" ELSE pid

Toggled(pid, packets) ==
  IF packets % 2 = 0 THEN pid ELSE IF pid = "Data0" THEN "Data1" ELSE "Data0"

\* Slip: a transaction of any number of packets toggles once.
SkipPIDOnce(pid, packets, status) ==
  CASE status           -> "Setup"
    [] ~status /\ pid = "Setup" -> "Data1"
    [] ~status /\ pid # "Setup" -> Toggled(pid, 1)

SkipPID(pid, packets, status) ==
  CASE status           -> "Setup"
    [] ~status /\ pid = "Setup" -> "Data1"
    [] ~status /\ pid # "Setup" -> Toggled(pid, packets)
=============================================================================
