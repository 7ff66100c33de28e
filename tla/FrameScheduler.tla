--------------------------- MODULE FrameScheduler ---------------------------
(***************************************************************************)
(* The frame schedulers of the split transactions, as operators on a       *)
(* scheduler's state: dwhciframeschednper.cpp for control and bulk         *)
(* endpoints, dwhciframeschedper.cpp for interrupt endpoints.  A split     *)
(* transaction is a start-split, then complete-splits until the hub hands  *)
(* over a result or the scheduler runs out of tries.                       *)
(*                                                                         *)
(* A transaction status is a set of the interrupt bits below.              *)
(***************************************************************************)
EXTENDS Integers

\* DWHCI_HOST_CHAN_INT_*; "Error" stands for DWHCI_HOST_CHAN_INT_ERROR_MASK.
Bits == {"XferComplete", "Halted", "Ack", "Nak", "Nyet", "Error"}

SchedulerStates ==
  {"StartSplit", "StartSplitComplete", "CompleteSplit", "CompleteRetry",
   "CompleteSplitComplete", "CompleteSplitFailed", "Unknown"}

FrameUnset == 8

(***************************************************************************)
(* m_nTries is unsigned and not initialised by the constructor.  -1 stands *)
(* for a value nothing reads: the uninitialised one, and the wrapped one   *)
(* `m_nTries-- == 0' leaves when the tries are used up.                    *)
(***************************************************************************)
Schedulers ==
  [periodic  : BOOLEAN,
   state     : SchedulerStates,
   tries     : -1 .. 3,
   nextFrame : 0 .. FrameUnset]

NewScheduler(periodic) ==
  [periodic |-> periodic, state |-> "Unknown", tries |-> -1, nextFrame |-> FrameUnset]

StartSplit(s) ==
  [s EXCEPT !.state = "StartSplit",
            !.nextFrame = IF s.periodic THEN FrameUnset ELSE @]

(***************************************************************************)
(* CompleteSplit returns whether another complete-split is to be made;     *)
(* only the non-periodic one accepts a call in state CompleteSplit.        *)
(***************************************************************************)
CompleteSplitResult(s) ==
  s.state \in {"StartSplitComplete", "CompleteRetry"}
                 \cup (IF s.periodic THEN {} ELSE {"CompleteSplit"})

CompleteSplit(s) ==
  CASE s.state = "StartSplitComplete" ->
         [s EXCEPT !.state = "CompleteSplit",
                   !.tries = IF s.periodic /\ s.nextFrame = 5 THEN 2 ELSE 3,
                   !.nextFrame = IF s.periodic THEN (@ + 2) % 8 ELSE @]
    [] s.state = "CompleteRetry" /\ s.periodic ->
         [s EXCEPT !.nextFrame = (@ + 1) % 8]
    [] OTHER -> s

\* One more unsuccessful complete-split: `m_nTries-- == 0' gives up.
UseTry(s) ==
  [s EXCEPT !.state = IF s.tries = 0 THEN "CompleteSplitFailed" ELSE "CompleteRetry",
            !.tries = s.tries - 1]

TransactionComplete(s, status) ==
  CASE s.state = "StartSplit" -> [s EXCEPT !.state = "StartSplitComplete"]
    [] s.state \in {"CompleteSplit", "CompleteRetry"} ->
         CASE "XferComplete" \in status -> [s EXCEPT !.state = "CompleteSplitComplete"]
           [] "XferComplete" \notin status /\ status \cap {"Nyet", "Ack"} # {} -> UseTry(s)
           [] status \cap {"XferComplete", "Nyet", "Ack"} = {} /\ "Nak" \in status ->
                IF s.periodic THEN [s EXCEPT !.state = "CompleteSplitFailed"] ELSE UseTry(s)
           [] OTHER -> s
    [] OTHER -> s

(***************************************************************************)
(* WaitForFrame of the periodic scheduler, when the frame counter reads    *)
(* `frame': the first transaction of a cycle picks the next microframe,    *)
(* never the 6th; afterwards the microframe is the one already chosen.     *)
(***************************************************************************)
WaitForFrame(s, frame) ==
  IF s.periodic /\ s.nextFrame = FrameUnset
  THEN [s EXCEPT !.nextFrame = IF (frame + 1) % 8 = 6 THEN 7 ELSE (frame + 1) % 8]
  ELSE s

(***************************************************************************)
(* The calls that do not run into an assert of the source: the states      *)
(* CompleteSplit and TransactionComplete have a case for, a start-split    *)
(* acknowledged, a complete-split with a status known to the scheduler.    *)
(***************************************************************************)
CompleteSplitAsserts(s) ==
  CompleteSplitResult(s) \/ s.state \in {"CompleteSplitComplete", "CompleteSplitFailed"}

TransactionCompleteAsserts(s, status) ==
  \/ s.state = "StartSplit" /\ "Ack" \in status
  \/ /\ s.state \in {"CompleteSplit", "CompleteRetry"}
     /\ status \cap {"XferComplete", "Nyet", "Ack", "Nak"} # {}
=============================================================================
