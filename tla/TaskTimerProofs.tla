--------------------------- MODULE TaskTimerProofs ---------------------------
(***************************************************************************)
(* Proofs about TaskTimer, for counters of any width, any period and any   *)
(* number of timers: the tick keeps up with the clock, the table of timers *)
(* suffices, and it implements KernelTimers.                               *)
(***************************************************************************)
EXTENDS TaskTimer, FiniteSetTheorems, TLAPS

\* The time from a to b, on a clock that wraps around.
Ahead(a, b) == (b - a) % ClockSize

(***************************************************************************)
(* How far CLO is from C3.  The handler moves C3 on while the match is     *)
(* still pending: until it clears the match, C3 must stay out of the reach *)
(* of the latency that is left.                                            *)
(***************************************************************************)
ClockSound ==
  /\ step \in {"compare", "clear"} => matched
  /\ matched => CASE step = "compare" -> Ahead(clo, c3) = Period - late
                  [] step = "clear"   -> Ahead(clo, c3) \in Period - late .. Period
                  [] OTHER            -> Ahead(c3, clo) = late
  /\ NextMatchIsNear

OneTimerEach == \A i, j \in Slots : InUse(i) /\ slot[i].client = slot[j].client => i = j

(***************************************************************************)
(* A timer that is due fires in this very scan: none is ever more than a   *)
(* tick late, so that the difference of the counters keeps its sign.       *)
(***************************************************************************)
NeverLate ==
  \A i \in Slots : InUse(i) =>
    TimeDelta(i) >= IF step # "scan" THEN 0 ELSE IF i < cursor THEN 1 ELSE -1

IInv ==
  /\ TypeOK
  /\ ClockSound
  /\ TableSuffices
  /\ OneTimerEach
  /\ NeverLate

-----------------------------------------------------------------------------
(* Counters that wrap around.                                                *)

Later(a, b, m) == (a + b) % m
Since(a, b, m) == (b - a) % m

LEMMA WrapAround ==
  ASSUME NEW m \in Nat \ {0}, NEW a \in 0 .. m - 1, NEW b \in 0 .. m - 1
  PROVE  /\ Later(a, b, m) = IF a + b < m THEN a + b ELSE a + b - m
         /\ Since(a, b, m) = IF a <= b THEN b - a ELSE b - a + m
         /\ Later(a, b, m) \in 0 .. m - 1 /\ Since(a, b, m) \in 0 .. m - 1
<1>1. a + b < m => Later(a, b, m) = a + b
  BY DEF Later
<1>2. a + b >= m => Later(a, b, m) = a + b - m
  BY DEF Later
<1>3. a <= b => Since(a, b, m) = b - a
  BY DEF Since
<1>4. a > b => Since(a, b, m) = b - a + m
  BY DEF Since
<1>5. Later(a, b, m) \in 0 .. m - 1 /\ Since(a, b, m) \in 0 .. m - 1
  BY DEF Later, Since
<1>6. QED
  BY <1>1, <1>2, <1>3, <1>4, <1>5

\* The constants, as the proofs use them.
LEMMA Constants ==
  /\ ClockSize \in Nat \ {0} /\ TickSize \in Nat \ {0} /\ TickSize > 2
  /\ Period \in Nat /\ Period > 0 /\ 2 * Period <= ClockSize
  /\ Latency \in Nat /\ Latency < Period
  /\ 1 \in Clock /\ Period \in Clock /\ 1 \in Ticks /\ NTimers \in Nat
BY ConstantsAssumption DEF Clock, Ticks

LEMMA ClockMoves ==
  ASSUME NEW a \in Clock, NEW b \in Clock
  PROVE  /\ Ahead(a, b) = IF a <= b THEN b - a ELSE b - a + ClockSize
         /\ Ahead(a, b) \in Clock
         /\ (a + 1) % ClockSize = IF a + 1 < ClockSize THEN a + 1 ELSE 0
         /\ (a + Period) % ClockSize
              = IF a + Period < ClockSize THEN a + Period ELSE a + Period - ClockSize
         /\ (a + 1) % ClockSize \in Clock /\ (a + Period) % ClockSize \in Clock
<1>1. /\ Ahead(a, b) = Since(a, b, ClockSize)
      /\ (a + 1) % ClockSize = Later(a, 1, ClockSize)
      /\ (a + Period) % ClockSize = Later(a, Period, ClockSize)
  BY DEF Ahead, Since, Later
<1>2. /\ Since(a, b, ClockSize) = IF a <= b THEN b - a ELSE b - a + ClockSize
      /\ Since(a, b, ClockSize) \in Clock
  BY Constants, WrapAround DEF Clock
<1>3. /\ Later(a, 1, ClockSize) = IF a + 1 < ClockSize THEN a + 1 ELSE a + 1 - ClockSize
      /\ Later(a, 1, ClockSize) \in Clock
  BY Constants, WrapAround DEF Clock
<1>4. /\ Later(a, Period, ClockSize)
           = IF a + Period < ClockSize THEN a + Period ELSE a + Period - ClockSize
      /\ Later(a, Period, ClockSize) \in Clock
  BY Constants, WrapAround DEF Clock
<1>5. a + 1 >= ClockSize => a + 1 - ClockSize = 0
  BY Constants DEF Clock
<1>6. QED
  BY <1>1, <1>2, <1>3, <1>4, <1>5, Constants

-----------------------------------------------------------------------------
(* The clock.                                                                *)

\* CLO comes nearer to C3, or leaves it further behind.
LEMMA ClockTicks ==
  ASSUME NEW a \in Clock, NEW b \in Clock
  PROVE  LET next == (a + 1) % ClockSize IN
         /\ Ahead(a, b) > 0 => Ahead(next, b) = Ahead(a, b) - 1
         /\ next = b <=> Ahead(a, b) = 1
         /\ Ahead(b, a) < ClockSize - 1 => Ahead(b, next) = Ahead(b, a) + 1
         /\ next = b => Ahead(b, next) = 0
<1> DEFINE next == (a + 1) % ClockSize
<1>1. next = (IF a + 1 < ClockSize THEN a + 1 ELSE 0) /\ next \in Clock
  BY ClockMoves
<1> HIDE DEF next
<1>2. /\ Ahead(a, b) = IF a <= b THEN b - a ELSE b - a + ClockSize
      /\ Ahead(b, a) = IF b <= a THEN a - b ELSE a - b + ClockSize
      /\ Ahead(next, b) = IF next <= b THEN b - next ELSE b - next + ClockSize
      /\ Ahead(b, next) = IF b <= next THEN next - b ELSE next - b + ClockSize
  BY <1>1, ClockMoves
<1>3. /\ Ahead(a, b) > 0 => Ahead(next, b) = Ahead(a, b) - 1
      /\ next = b <=> Ahead(a, b) = 1
      /\ Ahead(b, a) < ClockSize - 1 => Ahead(b, next) = Ahead(b, a) + 1
      /\ next = b => Ahead(b, next) = 0
  BY <1>1, <1>2, Constants DEF Clock
<1>4. QED
  BY <1>3 DEF next

\* A period more on C3, or a period from now.
LEMMA CompareMoves ==
  ASSUME NEW a \in Clock, NEW b \in Clock
  PROVE  /\ Ahead(b, a) <= Latency => Ahead(a, (b + Period) % ClockSize) = Period - Ahead(b, a)
         /\ Ahead(a, (a + Period) % ClockSize) = Period
<1> DEFINE next == (b + Period) % ClockSize
           now == (a + Period) % ClockSize
<1>1. /\ next = (IF b + Period < ClockSize THEN b + Period ELSE b + Period - ClockSize)
      /\ now = (IF a + Period < ClockSize THEN a + Period ELSE a + Period - ClockSize)
      /\ next \in Clock /\ now \in Clock
  BY ClockMoves
<1> HIDE DEF next, now
<1>2. /\ Ahead(b, a) = IF b <= a THEN a - b ELSE a - b + ClockSize
      /\ Ahead(a, next) = IF a <= next THEN next - a ELSE next - a + ClockSize
      /\ Ahead(a, now) = IF a <= now THEN now - a ELSE now - a + ClockSize
  BY <1>1, ClockMoves
<1>3. /\ Ahead(b, a) <= Latency => Ahead(a, next) = Period - Ahead(b, a)
      /\ Ahead(a, now) = Period
  BY <1>1, <1>2, Constants DEF Clock
<1>4. QED
  BY <1>3 DEF next, now

LEMMA MicrosecondClock ==
  ASSUME TypeOK, ClockSound, Microsecond
  PROVE  ClockSound' /\ clo' \in Clock /\ late' \in 0 .. Latency /\ matched' \in BOOLEAN
<1>1. /\ matched => late < Latency
      /\ clo' = (clo + 1) % ClockSize /\ matched' = (matched \/ clo' = c3)
      /\ late' = IF matched THEN late + 1 ELSE 0
      /\ UNCHANGED <<c3, step>>
  BY DEF Microsecond
<1>2. clo \in Clock /\ c3 \in Clock /\ clo' \in Clock /\ late \in 0 .. Latency /\ matched \in BOOLEAN
  BY <1>1, ClockMoves DEF TypeOK
<1>3. /\ Ahead(clo, c3) > 0 => Ahead(clo', c3) = Ahead(clo, c3) - 1
      /\ clo' = c3 <=> Ahead(clo, c3) = 1
      /\ Ahead(c3, clo) < ClockSize - 1 => Ahead(c3, clo') = Ahead(c3, clo) + 1
      /\ clo' = c3 => Ahead(c3, clo') = 0
      /\ Ahead(clo, c3) \in Nat /\ Ahead(c3, clo) \in Nat
  <2>1. Ahead(clo, c3) \in Clock /\ Ahead(c3, clo) \in Clock
    BY <1>2, ClockMoves
  <2>2. QED
    BY <1>1, <1>2, <2>1, ClockTicks, Constants DEF Clock
<1>4. late' \in 0 .. Latency /\ matched' \in BOOLEAN
  BY <1>1, <1>2, Constants
<1>5. CASE matched
  <2>1. matched' /\ late' = late + 1 /\ late < Latency /\ step' = step /\ c3' = c3
    BY <1>1, <1>5
  <2>2. CASE step = "compare"
    BY <1>2, <1>3, <1>5, <2>1, <2>2, Constants DEF ClockSound, NextMatchIsNear
  <2>3. CASE step = "clear"
    BY <1>2, <1>3, <1>5, <2>1, <2>3, Constants DEF ClockSound, NextMatchIsNear
  <2>4. CASE step \notin {"compare", "clear"}
    BY <1>2, <1>3, <1>5, <2>1, <2>4, Constants DEF ClockSound, NextMatchIsNear
  <2>5. QED
    BY <1>2, <1>4, <2>2, <2>3, <2>4
<1>6. CASE ~matched
  <2>1. step \notin {"compare", "clear"} /\ Ahead(clo, c3) \in 1 .. Period
    BY <1>6 DEF ClockSound, NextMatchIsNear, Ahead
  <2>2. matched' <=> Ahead(clo, c3) = 1
    BY <1>1, <1>3, <1>6
  <2>3. late' = 0 /\ step' = step /\ c3' = c3
    BY <1>1, <1>6
  <2>4. ClockSound'
    BY <1>3, <2>1, <2>2, <2>3, Constants DEF ClockSound, NextMatchIsNear, Ahead
  <2>5. QED
    BY <1>2, <1>4, <2>4
<1>7. QED
  BY <1>5, <1>6

\* The handler moves C3 on before it clears the match.
LEMMA HandlerClock ==
  ASSUME TypeOK, ClockSound, MoveCompare \/ CatchUp \/ ClearMatch
  PROVE  ClockSound' /\ c3' \in Clock /\ late' \in 0 .. Latency /\ matched' \in BOOLEAN
<1>1. /\ clo \in Clock /\ c3 \in Clock /\ late \in 0 .. Latency
      /\ (c3 + Period) % ClockSize \in Clock /\ (clo + Period) % ClockSize \in Clock
  BY ClockMoves DEF TypeOK
<1>2. CASE MoveCompare
  <2>1. /\ step = "idle" /\ matched /\ step' = "compare" /\ matched' = matched /\ late' = late
        /\ clo' = clo /\ c3' = (c3 + Period) % ClockSize
    BY <1>2 DEF MoveCompare
  <2>2. Ahead(c3, clo) = late
    BY <2>1 DEF ClockSound
  <2>3. Ahead(clo, c3') = Period - late
    BY <1>1, <2>1, <2>2, CompareMoves, Constants
  <2>4. QED
    BY <1>1, <2>1, <2>3 DEF ClockSound, NextMatchIsNear, TypeOK
<1>3. CASE CatchUp
  <2>1. /\ step = "compare" /\ step' = "clear" /\ matched /\ matched' /\ late' = late
        /\ clo' = clo /\ c3' = IF c3 < clo THEN (clo + Period) % ClockSize ELSE c3
        /\ matched' = matched
    BY <1>3 DEF CatchUp, ClockSound
  <2>2. Ahead(clo, c3) = Period - late
    BY <2>1 DEF ClockSound
  <2>3. Ahead(clo, (clo + Period) % ClockSize) = Period
    BY <1>1, CompareMoves
  <2>4. Ahead(clo, c3') \in Period - late .. Period
    BY <1>1, <2>1, <2>2, <2>3, Constants
  <2>5. QED
    BY <1>1, <2>1, <2>4 DEF ClockSound, NextMatchIsNear, TypeOK
<1>4. CASE ClearMatch
  <2>1. /\ step = "clear" /\ step' = "tick" /\ matched /\ ~matched' /\ late' = 0
        /\ clo' = clo /\ c3' = c3 /\ matched' = FALSE
    BY <1>4 DEF ClearMatch, ClockSound
  <2>2. Ahead(clo, c3) \in Period - late .. Period
    BY <2>1 DEF ClockSound
  <2>3. Ahead(clo, c3) \in 1 .. Period
    BY <1>1, <2>2, Constants
  <2>4. NextMatchIsNear'
    BY <2>1, <2>3 DEF NextMatchIsNear, Ahead
  <2>5. ClockSound'
    BY <2>1, <2>4 DEF ClockSound
  <2>6. late' \in 0 .. Latency
    BY <2>1, Constants
  <2>7. c3' \in Clock /\ matched' \in BOOLEAN
    BY <1>1, <2>1
  <2>8. QED
    BY <2>5, <2>6, <2>7
<1>5. QED
  BY <1>2, <1>3, <1>4

-----------------------------------------------------------------------------
(* The table of timers.                                                      *)

\* A tick brings every timer one nearer, and a new timer has its whole delay left.
LEMMA TicksPass ==
  ASSUME NEW t \in Ticks, NEW e \in Ticks
  PROVE  /\ Signed((e - t) % TickSize) >= 0 =>
              Signed((e - ((t + 1) % TickSize)) % TickSize) = Signed((e - t) % TickSize) - 1
         /\ \A d \in Nat : 2 * d < TickSize =>
              /\ (t + d) % TickSize \in Ticks
              /\ Signed((((t + d) % TickSize) - t) % TickSize) = d
         /\ Signed((e - t) % TickSize) \in Int
<1> DEFINE next == Later(t, 1, TickSize)
<1>1. next = (IF t + 1 < TickSize THEN t + 1 ELSE t + 1 - TickSize) /\ next \in Ticks
  BY Constants, WrapAround DEF Ticks
<1>2. /\ Since(t, e, TickSize) = IF t <= e THEN e - t ELSE e - t + TickSize
      /\ Since(t, e, TickSize) \in Ticks
  BY Constants, WrapAround DEF Ticks
<1> HIDE DEF next
<1>3. Since(next, e, TickSize) = (IF next <= e THEN e - next ELSE e - next + TickSize)
  BY <1>1, Constants, WrapAround, ZenonT(40) DEF Ticks
<1>4. Signed(Since(t, e, TickSize)) >= 0 =>
        Signed(Since(next, e, TickSize)) = Signed(Since(t, e, TickSize)) - 1
  BY <1>1, <1>2, <1>3, Constants DEF Signed, Ticks
<1>5. ASSUME NEW d \in Nat, 2 * d < TickSize
      PROVE  Later(t, d, TickSize) \in Ticks /\ Signed(Since(t, Later(t, d, TickSize), TickSize)) = d
  <2> DEFINE new == Later(t, d, TickSize)
  <2>0. d \in Ticks
    BY <1>5, Constants DEF Ticks
  <2>1. new = (IF t + d < TickSize THEN t + d ELSE t + d - TickSize) /\ new \in Ticks
    BY <2>0, Constants, WrapAround DEF Ticks
  <2> HIDE DEF new
  <2>2. Since(t, new, TickSize) = (IF t <= new THEN new - t ELSE new - t + TickSize)
    BY <2>1, Constants, WrapAround DEF Ticks
  <2>3. Signed(Since(t, new, TickSize)) = d
    BY <1>5, <2>1, <2>2, Constants DEF Signed, Ticks
  <2>4. QED
    BY <2>1, <2>3 DEF new
<1>6. Signed(Since(t, e, TickSize)) \in Int
  BY <1>2, Constants DEF Signed, Ticks
<1>7. /\ (t + 1) % TickSize = next /\ (e - t) % TickSize = Since(t, e, TickSize)
      /\ (e - next) % TickSize = Since(next, e, TickSize)
  BY DEF next, Later, Since
<1>8. ASSUME NEW d \in Nat, 2 * d < TickSize
      PROVE  /\ (t + d) % TickSize \in Ticks
             /\ Signed((((t + d) % TickSize) - t) % TickSize) = d
  BY <1>5, <1>8, Zenon DEF Later, Since
<1>9. Signed((e - ((t + 1) % TickSize)) % TickSize) = Signed(Since(next, e, TickSize))
  BY <1>7
<1>10. Signed((e - t) % TickSize) = Signed(Since(t, e, TickSize))
  BY <1>7
<1> HIDE DEF next
<1>11. QED
  BY <1>4, <1>6, <1>8, <1>9, <1>10

SlotRecords == [client : Clients \cup {NoClient}, expiration : Ticks]

LEMMA SlotFacts ==
  ASSUME TypeOK, NEW i \in Slots
  PROVE  /\ slot[i] \in SlotRecords /\ slot[i].expiration \in Ticks /\ tickCount \in Ticks
         /\ TimeDelta(i) \in Int /\ (i \in Timers <=> i # NTimers)
<1>1. slot[i] \in SlotRecords /\ slot[i].expiration \in Ticks /\ tickCount \in Ticks
  BY DEF TypeOK, SlotRecords
<1>2. TimeDelta(i) \in Int
  BY <1>1, TicksPass DEF TimeDelta
<1>3. i \in Timers <=> i # NTimers
  BY Constants DEF Timers, Slots
<1>4. QED
  BY <1>1, <1>2, <1>3

\* There is a free timer for a client without one.
LEMMA TimerIsFree ==
  ASSUME TypeOK, OneTimerEach, NEW c \in Clients, \A i \in Slots : slot[i].client # c
  PROVE  \E i \in Timers : ~InUse(i)
<1> SUFFICES ASSUME \A i \in Timers : InUse(i)
             PROVE  FALSE
  OBVIOUS
<1> DEFINE client == [i \in Timers |-> slot[i].client]
<1>1. Timers \subseteq Slots
  BY Constants DEF Timers, Slots
<1>2. \A i \in Timers : client[i] \in Clients \ {c}
  BY <1>1, SlotFacts DEF InUse, SlotRecords
<1>3. \A i, j \in Timers : client[i] = client[j] => i = j
  BY <1>1 DEF OneTimerEach
<1>4. client \in Injection(Timers, Clients \ {c})
  BY <1>2, <1>3 DEF Injection, IsInjective
<1>5. /\ IsFiniteSet(Clients \ {c}) /\ Cardinality(Clients \ {c}) = Cardinality(Clients) - 1
      /\ Cardinality(Clients) \in Nat
  BY ConstantsAssumption, FS_RemoveElement, FS_CardinalityType
<1>6. Cardinality(Timers) = NTimers
  <2>1. Cardinality(Timers) = IF 0 > NTimers - 1 THEN 0 ELSE (NTimers - 1) - 0 + 1
    BY Constants, FS_Interval DEF Timers
  <2>2. QED
    BY <2>1, Constants
<1>7. Cardinality(Timers) <= Cardinality(Clients \ {c})
  BY <1>4, <1>5, FS_Injection
<1>8. QED
  BY <1>5, <1>6, <1>7, ConstantsAssumption

\* The timer that StartKernelTimer takes, inside the table.
LEMMA StartedTimer ==
  ASSUME IInv, NEW c \in Clients, NEW d \in Delays, StartKernelTimer(c, d)
  PROVE  \E i \in Timers :
           /\ i \in Slots /\ ~InUse(i) /\ slot' \in [Slots -> SlotRecords]
           /\ slot'[i].client = c /\ \A j \in Slots \ {i} : slot'[j] = slot[j]
           /\ TimeDelta(i)' = d
<1>1. PICK i \in Slots :
        /\ step = "idle" /\ (\A j \in Slots : slot[j].client # c)
        /\ Unclaimed(i) /\ \A j \in Slots : Unclaimed(j) => i <= j
        /\ slot' = [slot EXCEPT ![i] =
             [client |-> c, expiration |-> (tickCount + d) % TickSize]]
        /\ UNCHANGED <<clo, c3, matched, late, step, tickCount, cursor>>
  BY DEF StartKernelTimer
<1> DEFINE e == (tickCount + d) % TickSize
<1>2. d \in Nat /\ 2 * d < TickSize /\ tickCount \in Ticks
  BY ConstantsAssumption DEF IInv, TypeOK
<1>3. e \in Ticks /\ Signed((e - tickCount) % TickSize) = d
  BY <1>2, TicksPass
<1> HIDE DEF e
<1>4. i \in Timers /\ ~InUse(i)
  <2>1. PICK j \in Timers : ~InUse(j)
    BY <1>1, TimerIsFree DEF IInv
  <2>2. i <= j
    BY <1>1, <2>1, Constants DEF Unclaimed, Timers, Slots
  <2>3. i \in Timers
    BY <2>1, <2>2, Constants DEF Timers, Slots
  <2>4. QED
    BY <1>1, <2>3 DEF Unclaimed
<1>5. /\ slot' \in [Slots -> SlotRecords]
      /\ slot'[i] = [client |-> c, expiration |-> e]
      /\ \A j \in Slots \ {i} : slot'[j] = slot[j]
  BY <1>1, <1>3 DEF IInv, TypeOK, SlotRecords, e
<1>6. TimeDelta(i)' = d
  BY <1>1, <1>3, <1>5 DEF TimeDelta
<1>7. QED
  BY <1>4, <1>5, <1>6

LEMMA StartPreserves ==
  ASSUME IInv, NEW c \in Clients, NEW d \in Delays, StartKernelTimer(c, d)
  PROVE  IInv'
<1>1. /\ step = "idle" /\ (\A j \in Slots : slot[j].client # c)
      /\ UNCHANGED <<clo, c3, matched, late, step, tickCount, cursor>>
  BY DEF StartKernelTimer
<1>2. d \in Nat
  BY ConstantsAssumption
<1>3. PICK i \in Timers :
        /\ i \in Slots /\ ~InUse(i) /\ slot' \in [Slots -> SlotRecords]
        /\ slot'[i].client = c /\ \A j \in Slots \ {i} : slot'[j] = slot[j]
        /\ TimeDelta(i)' = d
  BY StartedTimer
<1>4. TypeOK'
  BY <1>1, <1>3 DEF IInv, TypeOK, SlotRecords
<1>5. ClockSound'
  BY <1>1 DEF IInv, ClockSound, NextMatchIsNear
<1>6. TableSuffices'
  BY <1>3, Constants DEF IInv, TableSuffices, InUse, Timers, Slots
<1>7. OneTimerEach'
  BY <1>1, <1>3 DEF IInv, OneTimerEach, InUse
<1>8. NeverLate'
  <2> SUFFICES ASSUME NEW j \in Slots, InUse(j)'
               PROVE  TimeDelta(j)' >= 0
    BY <1>1 DEF NeverLate
  <2>1. CASE j = i
    BY <1>2, <1>3, <2>1
  <2>2. CASE j # i
    <3>1. TimeDelta(j)' = TimeDelta(j) /\ InUse(j)
      BY <1>1, <1>3, <2>2 DEF TimeDelta, InUse
    <3>2. QED
      BY <1>1, <3>1 DEF IInv, NeverLate
  <2>3. QED
    BY <2>1, <2>2
<1>9. QED
  BY <1>4, <1>5, <1>6, <1>7, <1>8 DEF IInv

LEMMA FirePreserves ==
  ASSUME IInv, NEW i \in Timers, FireTimer(i)
  PROVE  IInv'
<1>1. /\ step = "scan" /\ i >= cursor /\ Due(i)
      /\ \A j \in Timers : j >= cursor /\ Due(j) => i <= j
      /\ slot' = [slot EXCEPT ![i].client = NoClient] /\ cursor' = i + 1
      /\ UNCHANGED <<clo, c3, matched, late, step, tickCount>>
  BY DEF FireTimer
<1>2. i \in Slots /\ cursor \in Slots /\ slot[i] \in SlotRecords /\ NTimers \in Slots /\ i # NTimers
  BY Constants, SlotFacts DEF IInv, TypeOK, Timers, Slots
<1>3. /\ slot' \in [Slots -> SlotRecords] /\ slot'[i].client = NoClient
      /\ \A j \in Slots \ {i} : slot'[j] = slot[j]
  BY <1>1, <1>2 DEF IInv, TypeOK, SlotRecords
<1>4. TypeOK'
  <2>1. cursor' \in Slots
    BY <1>1, <1>2, Constants DEF Timers, Slots
  <2>2. QED
    BY <1>1, <1>3, <2>1 DEF IInv, TypeOK, SlotRecords
<1>5. ClockSound'
  BY <1>1 DEF IInv, ClockSound, NextMatchIsNear
<1>6. TableSuffices' /\ OneTimerEach'
  BY <1>2, <1>3 DEF IInv, TableSuffices, OneTimerEach, InUse
<1>7. NeverLate'
  <2> SUFFICES ASSUME NEW j \in Slots, InUse(j)'
               PROVE  TimeDelta(j)' >= IF j < cursor' THEN 1 ELSE -1
    BY <1>1 DEF NeverLate
  <2>1. j # i /\ TimeDelta(j)' = TimeDelta(j) /\ InUse(j) /\ TimeDelta(j) \in Int /\ j \in Int
    BY <1>1, <1>3, SlotFacts DEF IInv, TimeDelta, InUse, Slots
  <2>2. TimeDelta(j) >= IF j < cursor THEN 1 ELSE -1
    BY <1>1, <2>1 DEF IInv, NeverLate
  <2>3. j < cursor' /\ j >= cursor => TimeDelta(j) >= 1
    <3>1. j < cursor' => j < i /\ j \in Timers
      BY <1>1, <2>1, Constants DEF Timers, Slots
    <3>2. j >= cursor /\ j < i /\ j \in Timers => ~Due(j)
      BY <1>1, <2>1, Constants DEF Timers
    <3>3. QED
      BY <2>1, <3>1, <3>2 DEF Due
  <2>4. QED
    BY <1>2, <2>1, <2>2, <2>3 DEF Slots
<1>8. QED
  BY <1>4, <1>5, <1>6, <1>7 DEF IInv

\* Nothing that is due is left behind at the end of a scan.
LEMMA NothingLeft ==
  ASSUME IInv, step = "scan", \A i \in Timers : i >= cursor => ~Due(i),
         NEW i \in Slots, InUse(i)
  PROVE  TimeDelta(i) >= 1
<1>1. i \in Timers /\ TimeDelta(i) \in Int
  BY SlotFacts DEF IInv, TableSuffices
<1>2. CASE i < cursor
  BY <1>2 DEF IInv, NeverLate
<1>3. CASE i >= cursor
  BY <1>1, <1>3 DEF Due
<1>4. QED
  BY <1>1, <1>2, <1>3, Constants DEF IInv, TypeOK, Timers, Slots

LEMMA ReturnPreserves ==
  ASSUME IInv, Return
  PROVE  IInv'
<1>1. /\ step = "scan" /\ (\A i \in Timers : i >= cursor => ~Due(i))
      /\ step' = "idle" /\ cursor' = 0
      /\ UNCHANGED <<clo, c3, matched, late, tickCount, slot>>
  BY DEF Return
<1>2. TypeOK'
  BY <1>1, Constants DEF IInv, TypeOK, Slots
<1>3. ClockSound'
  BY <1>1 DEF IInv, ClockSound, NextMatchIsNear
<1>4. TableSuffices' /\ OneTimerEach'
  BY <1>1 DEF IInv, TableSuffices, OneTimerEach, InUse
<1>5. NeverLate'
  <2> SUFFICES ASSUME NEW i \in Slots, InUse(i)
               PROVE  TimeDelta(i) >= 0
    BY <1>1 DEF NeverLate, InUse, TimeDelta
  <2>1. TimeDelta(i) >= 1 /\ TimeDelta(i) \in Int
    BY <1>1, NothingLeft, SlotFacts DEF IInv
  <2>2. QED
    BY <2>1
<1>6. QED
  BY <1>2, <1>3, <1>4, <1>5 DEF IInv

LEMMA CountTickPreserves ==
  ASSUME IInv, CountTick
  PROVE  /\ IInv'
         /\ \A i \in Slots : InUse(i) => TimeDelta(i)' = TimeDelta(i) - 1
<1>1. /\ step = "tick" /\ step' = "scan" /\ cursor' = 0
      /\ tickCount' = (tickCount + 1) % TickSize
      /\ UNCHANGED <<clo, c3, matched, late, slot>>
  BY DEF CountTick
<1>2. TypeOK'
  <2>1. \A n \in Int : n % TickSize \in Ticks
    BY Constants DEF Ticks
  <2>2. tickCount' \in Ticks
    BY <1>1, <2>1, Constants DEF IInv, TypeOK, Ticks
  <2>3. QED
    BY <1>1, <2>2, Constants DEF IInv, TypeOK, Slots
<1>3. ClockSound'
  BY <1>1 DEF IInv, ClockSound, NextMatchIsNear
<1>4. TableSuffices' /\ OneTimerEach'
  BY <1>1 DEF IInv, TableSuffices, OneTimerEach, InUse
<1>5. ASSUME NEW i \in Slots, InUse(i)
      PROVE  TimeDelta(i)' = TimeDelta(i) - 1 /\ TimeDelta(i) >= 0 /\ TimeDelta(i) \in Int
  <2>1. slot[i].expiration \in Ticks /\ tickCount \in Ticks /\ TimeDelta(i) \in Int
    BY SlotFacts DEF IInv
  <2>2. TimeDelta(i) >= 0
    BY <1>1, <1>5 DEF IInv, NeverLate
  <2>3. QED
    BY <1>1, <2>1, <2>2, TicksPass DEF TimeDelta
<1>6. NeverLate'
  <2> SUFFICES ASSUME NEW i \in Slots, InUse(i)'
               PROVE  TimeDelta(i)' >= -1 /\ ~(i < cursor')
    BY <1>1 DEF NeverLate
  <2>1. InUse(i)
    BY <1>1 DEF InUse
  <2>2. QED
    BY <1>1, <1>5, <2>1, Constants DEF Slots
<1>7. QED
  BY <1>2, <1>3, <1>4, <1>5, <1>6 DEF IInv

-----------------------------------------------------------------------------
(* The invariant is inductive.                                               *)

LEMMA InitIInv == Init => IInv
<1> SUFFICES ASSUME Init PROVE IInv
  OBVIOUS
<1>1. clo \in Clock /\ c3 = (clo + Period) % ClockSize /\ c3 \in Clock
  BY ClockMoves DEF Init
<1>2. Ahead(clo, c3) = Period
  BY <1>1, CompareMoves
<1>3. TypeOK
  <2>1. 0 \in Ticks /\ 0 \in Slots /\ 0 \in 0 .. Latency
    BY Constants DEF Ticks, Slots
  <2>2. slot \in [Slots -> SlotRecords]
    BY <2>1 DEF Init, Unused, SlotRecords
  <2>3. QED
    BY <1>1, <2>1, <2>2 DEF Init, TypeOK, SlotRecords
<1>4. ClockSound
  <2>1. Ahead(clo, c3) \in 1 .. Period
    BY <1>2, Constants
  <2>2. NextMatchIsNear
    BY <2>1 DEF NextMatchIsNear, Ahead
  <2>3. QED
    BY <2>2 DEF Init, ClockSound
<1>5. TableSuffices /\ OneTimerEach /\ NeverLate
  BY Constants DEF Init, TableSuffices, OneTimerEach, NeverLate, InUse, Unused, Slots
<1>6. QED
  BY <1>3, <1>4, <1>5 DEF IInv

LEMMA ClockPreserves ==
  ASSUME IInv, Microsecond \/ MoveCompare \/ CatchUp \/ ClearMatch \/ UNCHANGED vars
  PROVE  /\ IInv'
         /\ UNCHANGED <<slot, tickCount>> /\ (step' = "scan" <=> step = "scan")
<1>1. UNCHANGED <<slot, tickCount, cursor>> /\ (step' = "scan" <=> step = "scan")
  BY DEF Microsecond, MoveCompare, CatchUp, ClearMatch, vars
<1>2. /\ ClockSound' /\ clo' \in Clock /\ c3' \in Clock
      /\ late' \in 0 .. Latency /\ matched' \in BOOLEAN
      /\ step' \in {"idle", "compare", "clear", "tick", "scan"}
  <2>1. CASE Microsecond
    BY <2>1, MicrosecondClock DEF IInv, TypeOK, Microsecond
  <2>2. CASE MoveCompare \/ CatchUp \/ ClearMatch
    <3>1. /\ ClockSound' /\ c3' \in Clock /\ late' \in 0 .. Latency /\ matched' \in BOOLEAN
      BY <2>2, HandlerClock DEF IInv
    <3>2. clo' \in Clock /\ step' \in {"idle", "compare", "clear", "tick", "scan"}
      BY <2>2 DEF IInv, TypeOK, MoveCompare, CatchUp, ClearMatch
    <3>3. QED
      BY <3>1, <3>2
  <2>3. CASE UNCHANGED vars
    BY <2>3 DEF vars, IInv, TypeOK, ClockSound, NextMatchIsNear
  <2>4. QED
    BY <2>1, <2>2, <2>3
<1>3. TypeOK'
  BY <1>1, <1>2 DEF IInv, TypeOK
<1>4. TableSuffices' /\ OneTimerEach' /\ NeverLate'
  BY <1>1 DEF IInv, TableSuffices, OneTimerEach, NeverLate, InUse, TimeDelta
<1>5. QED
  BY <1>1, <1>2, <1>3, <1>4 DEF IInv

\* The invariant, for counters of any width and a table of any size.
THEOREM Invariance == Spec => []IInv
<1>1. IInv /\ [Next]_vars => IInv'
  <2> SUFFICES ASSUME IInv, [Next]_vars PROVE IInv'
    OBVIOUS
  <2>1. CASE Microsecond \/ MoveCompare \/ CatchUp \/ ClearMatch \/ UNCHANGED vars
    BY <2>1, ClockPreserves
  <2>2. CASE CountTick
    BY <2>2, CountTickPreserves
  <2>3. CASE \E i \in Timers : FireTimer(i)
    BY <2>3, FirePreserves
  <2>4. CASE Return
    BY <2>4, ReturnPreserves
  <2>5. CASE \E c \in Clients, d \in Delays : StartKernelTimer(c, d)
    BY <2>5, StartPreserves
  <2>6. QED
    BY <2>1, <2>2, <2>3, <2>4, <2>5 DEF Next, HandlerNext
<1>2. QED
  BY InitIInv, <1>1, PTL DEF Spec

(***************************************************************************)
(* However late the handler comes (within a period) and whatever wraps     *)
(* around, C3 stays ahead of CLO, and the table of timers suffices.        *)
(***************************************************************************)
THEOREM HandlerKeepsUp == Spec => []TickKeepsUp
<1>1. IInv => TickKeepsUp
  BY DEF IInv, ClockSound, TickKeepsUp
<1>2. QED
  BY Invariance, <1>1, PTL

-----------------------------------------------------------------------------
(* The table implements KernelTimers.                                        *)

\* The ticks that a table s of timers leaves to a client in tick t.
TicksOf(c, s, t) ==
  IF \E i \in Slots : s[i].client = c
  THEN Signed((s[CHOOSE i \in Slots : s[i].client = c].expiration - t) % TickSize)
  ELSE NoClient

LEMMA TicksOfTable ==
  ASSUME NEW s, NEW t, NEW c, NEW i \in Slots,
         s[i].client = c, \A j \in Slots : s[j].client = c => j = i
  PROVE  TicksOf(c, s, t) = Signed((s[i].expiration - t) % TickSize)
<1>1. (CHOOSE j \in Slots : s[j].client = c) = i
  OBVIOUS
<1>2. QED
  BY <1>1 DEF TicksOf

LEMMA TicksAreLeft ==
  ASSUME NEW c
  PROVE  /\ TicksLeft(c) = TicksOf(c, slot, tickCount)
         /\ TicksLeft(c)' = TicksOf(c, slot', tickCount')
BY DEF TicksLeft, TicksOf, TimeDelta

\* What a client has left in a state that the invariant holds of.
LEMMA LeftInSlot ==
  ASSUME IInv, NEW i \in Slots, InUse(i)
  PROVE  /\ slot[i].client \in Clients /\ TicksLeft(slot[i].client) = TimeDelta(i)
         /\ TimeDelta(i) # NoClient /\ TimeDelta(i) \in Int
<1>1. slot[i].client \in Clients /\ TimeDelta(i) \in Int
  BY SlotFacts DEF IInv, InUse, SlotRecords
<1>2. \A j \in Slots : slot[j].client = slot[i].client => j = i
  BY DEF IInv, OneTimerEach
<1>3. TicksOf(slot[i].client, slot, tickCount) = TimeDelta(i)
  BY <1>2, TicksOfTable DEF TimeDelta
<1>4. QED
  BY <1>1, <1>3, TicksAreLeft, ConstantsAssumption

\* And in the next one.
LEMMA LeftInNextSlot ==
  ASSUME IInv', NEW i \in Slots, InUse(i)'
  PROVE  TicksOf(slot'[i].client, slot', tickCount') = TimeDelta(i)'
<1>1. \A j \in Slots : slot'[j].client = slot'[i].client => j = i
  BY DEF IInv, OneTimerEach, InUse
<1>2. QED
  BY <1>1, TicksOfTable DEF TimeDelta

LEMMA NothingLeftOf ==
  ASSUME NEW c
  PROVE  /\ (\A i \in Slots : slot[i].client # c) => TicksLeft(c) = NoClient
         /\ (\A i \in Slots : slot'[i].client # c) => TicksLeft(c)' = NoClient
BY DEF TicksLeft

\* A step of the table is a step of every client's timer.
Left == [c \in Clients |-> TicksLeft(c)]

\* A client whose timer nothing happens to.
LEMMA SameLeft ==
  ASSUME IInv, IInv', tickCount' = tickCount, NEW c \in Clients,
         NEW i \in Slots, \A j \in Slots \ {i} : slot'[j] = slot[j],
         slot[i].client # c, slot'[i].client # c
  PROVE  TicksLeft(c)' = TicksLeft(c)
<1>1. CASE \E j \in Slots : slot[j].client = c
  <2>1. PICK j \in Slots : slot[j].client = c
    BY <1>1
  <2>2. j # i /\ slot'[j] = slot[j] /\ InUse(j) /\ InUse(j)' /\ TimeDelta(j)' = TimeDelta(j)
    BY <2>1, ConstantsAssumption DEF InUse, TimeDelta
  <2>3. TicksLeft(c) = TimeDelta(j)
    BY <2>1, <2>2, LeftInSlot
  <2>4. TicksOf(slot'[j].client, slot', tickCount') = TimeDelta(j)'
    BY <2>2, LeftInNextSlot
  <2>5. QED
    BY <2>1, <2>2, <2>3, <2>4, TicksAreLeft
<1>2. CASE \A j \in Slots : slot[j].client # c
  <2>1. \A j \in Slots : slot'[j].client # c
    BY <1>2
  <2>2. QED
    BY <1>2, <2>1, NothingLeftOf
<1>3. QED
  BY <1>1, <1>2

LEMMA FireStep ==
  ASSUME IInv, IInv', NEW i \in Timers, FireTimer(i)
  PROVE  \E c \in Clients : Abstract!Fire(c)
<1>1. /\ step = "scan" /\ Due(i) /\ step' = step /\ tickCount' = tickCount
      /\ slot' = [slot EXCEPT ![i].client = NoClient] /\ i \in Slots
  BY Constants DEF FireTimer, Timers, Slots
<1>2. PICK c \in Clients :
        /\ slot[i].client = c
        /\ TicksLeft(c) = TimeDelta(i) /\ TimeDelta(i) # NoClient /\ TimeDelta(i) <= 0
  BY <1>1, LeftInSlot DEF Due
<1>3. /\ slot'[i].client = NoClient /\ \A j \in Slots \ {i} : slot'[j] = slot[j]
  BY <1>1, SlotFacts DEF IInv, TypeOK, SlotRecords
<1>4. TicksLeft(c)' = NoClient
  <2>1. \A j \in Slots : slot'[j].client # c
    BY <1>1, <1>2, <1>3, ConstantsAssumption DEF IInv, OneTimerEach, InUse
  <2>2. QED
    BY <2>1, NothingLeftOf
<1>5. \A d \in Clients \ {c} : TicksLeft(d)' = TicksLeft(d)
  BY <1>1, <1>2, <1>3, SameLeft, ConstantsAssumption
<1>6. Left' = [Left EXCEPT ![c] = NoClient]
  BY <1>2, <1>4, <1>5 DEF Left
<1>7. Abstract!Fire(c)
  BY <1>1, <1>2, <1>6 DEF Abstract!Fire, Abstract!Due, Left
<1>8. QED
  BY <1>2, <1>7

LEMMA StartStep ==
  ASSUME IInv, IInv', NEW c \in Clients, NEW d \in Delays, StartKernelTimer(c, d)
  PROVE  Abstract!Start(c, d)
<1>1. step = "idle" /\ step' = step /\ tickCount' = tickCount /\ \A j \in Slots : slot[j].client # c
  BY DEF StartKernelTimer
<1>2. PICK i \in Timers :
        /\ i \in Slots /\ ~InUse(i)
        /\ slot'[i].client = c /\ \A j \in Slots \ {i} : slot'[j] = slot[j]
        /\ TimeDelta(i)' = d
  BY StartedTimer
<1>3. TicksLeft(c) = NoClient
  BY <1>1, NothingLeftOf
<1>4. TicksLeft(c)' = d
  <2>1. InUse(i)'
    BY <1>2, ConstantsAssumption DEF InUse
  <2>2. TicksOf(slot'[i].client, slot', tickCount') = TimeDelta(i)'
    BY <1>2, <2>1, LeftInNextSlot
  <2>3. QED
    BY <1>2, <2>2, TicksAreLeft
<1>5. \A b \in Clients \ {c} : TicksLeft(b)' = TicksLeft(b)
  BY <1>1, <1>2, SameLeft, ConstantsAssumption DEF InUse
<1>6. Left' = [Left EXCEPT ![c] = d]
  BY <1>4, <1>5 DEF Left
<1>7. QED
  BY <1>1, <1>3, <1>6 DEF Abstract!Start, Left

LEMMA TickStep ==
  ASSUME IInv, IInv', CountTick
  PROVE  Abstract!Tick
<1>1. step = "tick" /\ step' = "scan" /\ slot' = slot
  BY DEF CountTick
<1>2. ASSUME NEW c \in Clients
      PROVE  TicksLeft(c)' = IF TicksLeft(c) = NoClient THEN NoClient ELSE TicksLeft(c) - 1
  <2>1. CASE \E j \in Slots : slot[j].client = c
    <3>1. PICK j \in Slots : slot[j].client = c
      BY <2>1
    <3>2. InUse(j) /\ InUse(j)'
      BY <1>1, <3>1, ConstantsAssumption DEF InUse
    <3>3. TicksLeft(c) = TimeDelta(j) /\ TimeDelta(j) # NoClient
      BY <3>1, <3>2, LeftInSlot
    <3>4. TicksOf(slot'[j].client, slot', tickCount') = TimeDelta(j)'
      BY <3>2, LeftInNextSlot
    <3>5. TimeDelta(j)' = TimeDelta(j) - 1
      BY <3>2, CountTickPreserves
    <3>6. QED
      BY <1>1, <3>1, <3>3, <3>4, <3>5, TicksAreLeft
  <2>2. CASE \A j \in Slots : slot[j].client # c
    BY <1>1, <2>2, NothingLeftOf
  <2>3. QED
    BY <2>1, <2>2
<1>3. Left' = [c \in Clients |-> IF Left[c] = NoClient THEN NoClient ELSE Left[c] - 1]
  BY <1>2 DEF Left
<1>4. QED
  BY <1>1, <1>3 DEF Abstract!Tick, Left

LEMMA ReturnStep ==
  ASSUME IInv, IInv', Return
  PROVE  Abstract!Done
<1>1. /\ step = "scan" /\ step' = "idle" /\ UNCHANGED <<slot, tickCount>>
      /\ \A i \in Timers : i >= cursor => ~Due(i)
  BY DEF Return
<1>2. ASSUME NEW c \in Clients
      PROVE  TicksLeft(c)' = TicksLeft(c) /\ (TicksLeft(c) # NoClient => ~(TicksLeft(c) <= 0))
  <2>1. TicksLeft(c)' = TicksLeft(c)
    BY <1>1, TicksAreLeft
  <2>2. CASE \E j \in Slots : slot[j].client = c
    <3>1. PICK j \in Slots : slot[j].client = c
      BY <2>2
    <3>2. InUse(j)
      BY <3>1, ConstantsAssumption DEF InUse
    <3>3. TicksLeft(c) = TimeDelta(j) /\ TimeDelta(j) \in Int /\ TimeDelta(j) >= 1
      BY <1>1, <3>1, <3>2, LeftInSlot, NothingLeft
    <3>4. QED
      BY <2>1, <3>3
  <2>3. CASE \A j \in Slots : slot[j].client # c
    BY <2>1, <2>3, NothingLeftOf
  <2>4. QED
    BY <2>2, <2>3
<1>3. Left' = Left /\ \A c \in Clients : ~(Left[c] # NoClient /\ Left[c] <= 0)
  BY <1>2 DEF Left
<1>4. QED
  BY <1>1, <1>3 DEF Abstract!Done, Abstract!Due, Left

LEMMA ClockStep ==
  ASSUME UNCHANGED <<slot, tickCount>>, step' = "scan" <=> step = "scan"
  PROVE  UNCHANGED <<Left, step = "scan">>
<1>1. \A c \in Clients : TicksLeft(c)' = TicksLeft(c)
  BY TicksAreLeft
<1>2. Left' = Left
  BY <1>1 DEF Left
<1>3. QED
  BY <1>2

(***************************************************************************)
(* Whatever the widths of the counters, the table of expirations keeps the *)
(* promise of StartKernelTimer: every timer fires in the very tick it was  *)
(* started for, once, and the scan leaves none that is due.                *)
(***************************************************************************)
THEOREM TableImplementsTimers == Spec => ImplementsTimers
<1>1. Init => Abstract!Init
  <2> SUFFICES ASSUME Init PROVE Abstract!Init
    OBVIOUS
  <2>1. \A c \in Clients, i \in Slots : slot[i].client # c
    BY ConstantsAssumption DEF Init, Unused
  <2>2. \A c \in Clients : TicksLeft(c) = NoClient
    BY <2>1, NothingLeftOf
  <2>3. QED
    BY <2>2 DEF Init, Abstract!Init
<1>2. IInv /\ IInv' /\ [Next]_vars =>
        [Abstract!Next]_<<[c \in Clients |-> TicksLeft(c)], step = "scan">>
  <2> SUFFICES ASSUME IInv, IInv', [Next]_vars
               PROVE  Abstract!Next \/ UNCHANGED <<Left, step = "scan">>
    BY DEF Left
  <2>1. CASE Microsecond \/ MoveCompare \/ CatchUp \/ ClearMatch \/ UNCHANGED vars
    BY <2>1, ClockPreserves, ClockStep
  <2>2. CASE CountTick
    BY <2>2, TickStep DEF Abstract!Next
  <2>3. CASE \E i \in Timers : FireTimer(i)
    BY <2>3, FireStep DEF Abstract!Next
  <2>4. CASE Return
    BY <2>4, ReturnStep DEF Abstract!Next
  <2>5. CASE \E c \in Clients, d \in Delays : StartKernelTimer(c, d)
    BY <2>5, StartStep DEF Abstract!Next
  <2>6. QED
    BY <2>1, <2>2, <2>3, <2>4, <2>5 DEF Next, HandlerNext
<1>3. QED
  BY <1>1, <1>2, Invariance, PTL DEF Spec, ImplementsTimers, Abstract!Spec
=============================================================================
