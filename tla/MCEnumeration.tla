--------------------------- MODULE MCEnumeration ---------------------------
(***************************************************************************)
(* A small tree for TLC: a hub on the root port with two ports, on its     *)
(* first port another hub.                                                 *)
(***************************************************************************)
EXTENDS Enumeration

HubOf == [d \in 2 .. 4 |-> IF d = 4 THEN 2 ELSE 1]
PortThere == [d \in 2 .. 4 |-> IF d = 3 THEN 2 ELSE 1]
PluggedIn == [d \in 1 .. 4 |-> CASE d = 1 -> {"hub", "keyboard", "empty"}
                                 [] d = 2 -> {"hub", "keyboard", "empty"}
                                 [] d = 3 -> {"keyboard", "other", "empty"}
                                 [] d = 4 -> {"keyboard", "empty"}]
=============================================================================
