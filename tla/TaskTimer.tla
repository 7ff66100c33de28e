------------------------------ MODULE TaskTimer ------------------------------
(***************************************************************************)
(* The tick and the kernel timers (TaskTimer.cpp).  The system timer       *)
(* counts microseconds in CLO and raises the timer interrupt when CLO      *)
(* meets C3; the handler moves C3 on by a period, clears the match and     *)
(* scans the table of timers.  Both counters wrap around.                  *)
(***************************************************************************)
EXTENDS Integers, FiniteSets

CONSTANTS
  ClockSize,  (* CLO and C3 count modulo 2^32                               *)
  Period,     (* CLOCKHZ / HZ                                               *)
  Latency,    (* how late the handler may clear a match                     *)
  TickSize,   (* tickCount counts modulo 2^32                               *)
  NTimers,    (* the size of s_kernelTimers, 16                             *)
  Clients,    (* the timers in use: one for every channel of the USB host   *)
  Delays,     (* the delays they are started with                           *)
  NoClient    (* handler == nullptr                                         *)

Clock == 0 .. ClockSize - 1
Ticks == 0 .. TickSize - 1

(***************************************************************************)
(* A handler held up for a whole period would clear the next match         *)
(* together with its own, and CLO would have to wrap around to meet C3     *)
(* again (71 minutes): nothing in the source excludes it, so it is assumed.*)
(* StartKernelTimer does not look where the table ends.  No number of      *)
(* ticks is the nullptr.                                                   *)
(***************************************************************************)
ASSUME ConstantsAssumption ==
  /\ ClockSize \in Nat /\ Period \in Nat /\ Latency \in Nat /\ TickSize \in Nat
  /\ 0 < Period /\ Latency < Period /\ 2 * Period <= ClockSize
  /\ NTimers \in Nat /\ IsFiniteSet(Clients) /\ Cardinality(Clients) <= NTimers
  /\ NoClient \notin Clients \cup Int
  /\ 2 < TickSize /\ Delays \subseteq Nat /\ \A d \in Delays : 2 * d < TickSize

VARIABLES
  clo, c3, matched, (* the system timer: CLO, C3 and bit 3 of CS           *)
  late,             (* the time since an unserved match                     *)
  step,             (* what HandleTimerInterrupt does next, or "idle"       *)
  tickCount,
  slot,             (* s_kernelTimers, and the words behind it              *)
  cursor            (* i of the scan                                        *)

vars == <<clo, c3, matched, late, step, tickCount, slot, cursor>>

Timers == 0 .. NTimers - 1
Slots  == 0 .. NTimers
Unused == [client |-> NoClient, expiration |-> 0]

InUse(i) == slot[i].client # NoClient

Init ==
  /\ clo \in Clock /\ c3 = (clo + Period) % ClockSize
  /\ matched = FALSE /\ late = 0
  /\ step = "idle" /\ cursor = 0
  /\ tickCount = 0
  /\ slot = [i \in Slots |-> Unused]

-----------------------------------------------------------------------------
(* The system timer.                                                         *)

Microsecond ==
  /\ matched => late < Latency
  /\ clo' = (clo + 1) % ClockSize
  /\ matched' = (matched \/ clo' = c3)
  /\ late' = IF matched THEN late + 1 ELSE 0
  /\ UNCHANGED <<c3, step, tickCount, slot, cursor>>

-----------------------------------------------------------------------------
(* HandleTimerInterrupt.                                                     *)

MoveCompare ==
  /\ step = "idle" /\ matched
  /\ c3' = (c3 + Period) % ClockSize
  /\ step' = "compare"
  /\ UNCHANGED <<clo, matched, late, tickCount, slot, cursor>>

\* Slip: the period is left out when the compare value has been passed.
CatchUpToNow ==
  /\ step = "compare"
  /\ c3' = IF c3 < clo THEN clo ELSE c3
  /\ step' = "clear"
  /\ UNCHANGED <<clo, matched, late, tickCount, slot, cursor>>

\* Slip: the new compare value is not reduced to the width of the register.
CatchUpUnwrapped ==
  /\ step = "compare"
  /\ c3' = IF c3 < clo THEN clo + Period ELSE c3
  /\ step' = "clear"
  /\ UNCHANGED <<clo, matched, late, tickCount, slot, cursor>>

\* A plain comparison: also taken when c3 has wrapped around and clo has not.
CatchUp ==
  /\ step = "compare"
  /\ c3' = IF c3 < clo THEN (clo + Period) % ClockSize ELSE c3
  /\ step' = "clear"
  /\ UNCHANGED <<clo, matched, late, tickCount, slot, cursor>>

ClearMatch ==
  /\ step = "clear"
  /\ matched' = FALSE /\ late' = 0
  /\ step' = "tick"
  /\ UNCHANGED <<clo, c3, tickCount, slot, cursor>>

CountTick ==
  /\ step = "tick"
  /\ tickCount' = (tickCount + 1) % TickSize
  /\ step' = "scan" /\ cursor' = 0
  /\ UNCHANGED <<clo, c3, matched, late, slot>>

\* The cast to i32.
Signed(n) == IF 2 * n < TickSize THEN n ELSE n - TickSize

TimeDelta(i) == Signed((slot[i].expiration - tickCount) % TickSize)

\* Slip: the counters are compared, not their difference.
DueUnsigned(i) == InUse(i) /\ slot[i].expiration <= tickCount

Due(i) == InUse(i) /\ TimeDelta(i) <= 0

\* The handler of the USB host driver starts a transaction, never a timer.
FireTimer(i) ==
  /\ step = "scan"
  /\ i >= cursor /\ Due(i) /\ \A j \in Timers : j >= cursor /\ Due(j) => i <= j
  /\ slot' = [slot EXCEPT ![i].client = NoClient]
  /\ cursor' = i + 1
  /\ UNCHANGED <<clo, c3, matched, late, step, tickCount>>

Return ==
  /\ step = "scan"
  /\ \A i \in Timers : i >= cursor => ~Due(i)
  /\ step' = "idle" /\ cursor' = 0
  /\ UNCHANGED <<clo, c3, matched, late, tickCount, slot>>

-----------------------------------------------------------------------------
(* StartKernelTimer, from the USB interrupt, which the timer interrupt does  *)
(* not preempt.  A channel starts a timer only after its last one fired.     *)

Unclaimed(i) == i \in Timers => ~InUse(i)

StartKernelTimer(c, hertzDelay) ==
  /\ step = "idle"
  /\ \A i \in Slots : slot[i].client # c
  /\ \E i \in Slots :
       /\ Unclaimed(i) /\ \A j \in Slots : Unclaimed(j) => i <= j
       /\ slot' = [slot EXCEPT ![i] =
            [client |-> c, expiration |-> (tickCount + hertzDelay) % TickSize]]
  /\ UNCHANGED <<clo, c3, matched, late, step, tickCount, cursor>>

-----------------------------------------------------------------------------

HandlerNext ==
  \/ MoveCompare
  \/ CatchUp
  \/ ClearMatch
  \/ CountTick
  \/ \E i \in Timers : FireTimer(i)
  \/ Return

Next ==
  \/ Microsecond
  \/ HandlerNext
  \/ \E c \in Clients, d \in Delays : StartKernelTimer(c, d)

Spec == Init /\ [][Next]_vars

\* Time passes, and an interrupt that is pending is served.
FairSpec == Spec /\ WF_vars(Microsecond) /\ WF_vars(HandlerNext)

-----------------------------------------------------------------------------

TypeOK ==
  /\ clo \in Clock /\ c3 \in Clock /\ matched \in BOOLEAN /\ late \in 0 .. Latency
  /\ step \in {"idle", "compare", "clear", "tick", "scan"}
  /\ tickCount \in Ticks
  /\ slot \in [Slots -> [client : Clients \cup {NoClient}, expiration : Ticks]]
  /\ cursor \in Slots

(***************************************************************************)
(* Unless a match is waiting to be served, the next one is at most a       *)
(* period away: late handlers and the wrap-around of both counters never   *)
(* leave C3 behind CLO, where the tick would stop until CLO wraps around.  *)
(***************************************************************************)
NextMatchIsNear == ~matched => (c3 - clo) % ClockSize \in 1 .. Period

(***************************************************************************)
(* StartKernelTimer never writes behind the table.                         *)
(***************************************************************************)
TableSuffices == ~InUse(NTimers)

\* What the interrupt handler keeps true, however late it comes and whatever wraps around.
TickKeepsUp == TypeOK /\ NextMatchIsNear /\ TableSuffices

(***************************************************************************)
(* A timer that was started fires: the tick never stops.                   *)
(***************************************************************************)
TimersFire ==
  \A c \in Clients :
    (\E i \in Slots : slot[i].client = c) ~> (\A i \in Slots : slot[i].client # c)

-----------------------------------------------------------------------------

TicksLeft(c) ==
  IF \E i \in Slots : slot[i].client = c
  THEN TimeDelta(CHOOSE i \in Slots : slot[i].client = c)
  ELSE NoClient

Abstract == INSTANCE KernelTimers
  WITH Off <- NoClient, left <- [c \in Clients |-> TicksLeft(c)], scanning <- step = "scan"

(***************************************************************************)
(* The table of expirations, compared modulo 2^32, keeps the promise of    *)
(* StartKernelTimer: every timer fires in the very tick it was started for.*)
(***************************************************************************)
ImplementsTimers == Abstract!Spec
=============================================================================
