---------------------------- MODULE KernelTimers ----------------------------
(***************************************************************************)
(* What StartKernelTimer promises: a timer started with delay d fires in   *)
(* the d-th tick from then on (in the first, if d is 0), once, whatever    *)
(* value the tick counter has and however many timers run beside it.       *)
(***************************************************************************)
EXTENDS Integers

CONSTANTS Clients, Delays, Off

VARIABLES
  left,     (* the ticks every client's timer has left, or Off           *)
  scanning  (* a tick is being handled                                   *)

Due(c) == left[c] # Off /\ left[c] <= 0

Init == left = [c \in Clients |-> Off] /\ scanning = FALSE

Start(c, d) ==
  /\ ~scanning /\ left[c] = Off
  /\ left' = [left EXCEPT ![c] = d]
  /\ UNCHANGED scanning

Tick ==
  /\ ~scanning
  /\ left' = [c \in Clients |-> IF left[c] = Off THEN Off ELSE left[c] - 1]
  /\ scanning' = TRUE

Fire(c) ==
  /\ scanning /\ Due(c)
  /\ left' = [left EXCEPT ![c] = Off]
  /\ UNCHANGED scanning

Done ==
  /\ scanning /\ \A c \in Clients : ~Due(c)
  /\ scanning' = FALSE
  /\ UNCHANGED left

Next ==
  \/ \E c \in Clients : Fire(c) \/ \E d \in Delays : Start(c, d)
  \/ Tick \/ Done

Spec == Init /\ [][Next]_<<left, scanning>>
=============================================================================
