-------------------------------- MODULE Dwhci --------------------------------
(***************************************************************************)
(* The USB host controller driver (dwhcidevice.cpp): a pool of channels,   *)
(* one transfer stage per channel, the interrupt handler that moves the    *)
(* stages on, the kernel timers that delay polling, one thread that calls  *)
(* the blocking requests, and the completion routines that resubmit the    *)
(* requests of the input devices from interrupt context.                   *)
(*                                                                         *)
(* The program has one CPU: thread code, the USB interrupt and the timer   *)
(* interrupt interleave, but an interrupt handler runs with interrupts     *)
(* masked and is never preempted.  The controller runs beside all of them. *)
(*                                                                         *)
(* An operator introduced as a `Slip' is a mistake the source does not     *)
(* make.  No action uses it: it is there to be put in the place of the     *)
(* definition after it, to see which property notices (see README.md).     *)
(***************************************************************************)
EXTENDS FrameScheduler, FiniteSets

CONSTANTS
  NChannels,    (* m_nChannels, read from the hardware configuration        *)
  NTimers,      (* the size of s_kernelTimers                               *)
  Sync,         (* the URB a blocking request keeps on the caller's stack   *)
  Async,        (* the URBs of the input devices, resubmitted for ever      *)
  Periodic,     (* those on an interrupt endpoint (the others: bulk)        *)
  Split,        (* those of a low or full speed device behind a hub         *)
  Delay,        (* timer ticks between two polls of a periodic endpoint     *)
  MaxPackets,   (* the longest data stage, in packets                       *)
  Microframes,  (* what the frame counter may read                          *)
  InQEMU,       (* m_bRunningInQEMU                                         *)
  NoUrb,        (* the null pointer, for URBs and channels                  *)
  NoChannel

Channels == 0 .. NChannels - 1
Timers   == 0 .. NTimers - 1
Urbs     == Async \cup {Sync}

ASSUME ConstantsAssumption ==
  /\ NChannels \in Nat \ {0} /\ NTimers \in Nat
  /\ NChannels <= NTimers  \* both are at most 16, the table has 16 slots
  /\ MaxPackets \in Nat \ {0}
  /\ Sync \notin Async /\ NoUrb \notin Urbs /\ NoChannel \notin Channels
  /\ Periodic \subseteq Async /\ Split \subseteq Async
  /\ Delay \in [Async -> Nat]
  /\ Microframes \subseteq 0 .. 7 /\ Microframes # {}
  /\ InQEMU \in BOOLEAN

VARIABLES
  channelAllocated, (* m_nChannelAllocated: the set of allocated channels   *)
  stage,            (* m_StageData                                          *)
  waiting,          (* m_bWaiting                                           *)
  urbStatus,        (* m_bStatus of every URB                               *)
  hw,               (* what the controller holds for every channel          *)
  allMask,          (* DWHCI_HOST_ALLCHAN_INT_MASK                          *)
  timer,            (* s_kernelTimers                                       *)
  cpu,              (* what the CPU runs: "thread", "usb" or "timer"        *)
  pending,          (* AllChanInterrupt, less the channels handled          *)
  callback,         (* the URB whose completion routine is about to run     *)
  cursor,           (* the next timer slot of the scan                      *)
  pc, job, channel, (* the thread: where it is, its request, its channel    *)
  streaming         (* the devices whose StartRequest returned TRUE         *)

stageVars  == <<channelAllocated, stage, hw, allMask>>
threadVars == <<pc, job, channel>>
vars == <<channelAllocated, stage, waiting, urbStatus, hw, allMask, timer, cpu,
          pending, callback, cursor, pc, job, channel, streaming>>

-----------------------------------------------------------------------------
(* The data of a transfer stage: dwhcixferstagedata.cpp.                     *)

StageStates == {"None", "NoSplitTransfer", "StartSplit", "CompleteSplit", "PeriodicDelay"}
SubStates   == {"None", "WaitForChannelDisable", "WaitForTransactionComplete"}

Stages ==
  [urb : Urbs \cup {NoUrb}, split : BOOLEAN, periodic : BOOLEAN, splitComplete : BOOLEAN,
   packets : 0 .. MaxPackets, state : StageStates, sub : SubStates, sched : Schedulers]

(***************************************************************************)
(* The constructor; `split' and `periodic' come from the URB's device and  *)
(* endpoint.  It writes 0 to the state and the substate, which the         *)
(* enumerations call NoSplitTransfer and WaitForChannelDisable.  "None"    *)
(* stands for that 0, so that an interrupt that found it before the first  *)
(* transaction sets both would be noticed (InterruptsAreExpected).         *)
(***************************************************************************)
NewStage(u, split, packets) ==
  [urb |-> u, split |-> split, periodic |-> u \in Periodic, splitComplete |-> FALSE,
   packets |-> packets, state |-> "None", sub |-> "None",
   sched |-> NewScheduler(u \in Periodic)]

\* The destructor clears m_pURB and the other pointers.
Destroyed(s) ==
  [s EXCEPT !.urb = NoUrb, !.sched.state = "Unknown"]

\* Slip: the bit a transaction without a result reports is left out.
StatusMaskWithoutHalted(s) ==
  {"XferComplete", "Error"}
     \cup (IF s.split \/ s.periodic THEN {"Ack", "Nak", "Nyet"} ELSE {})

StatusMask(s) ==
  {"XferComplete", "Halted", "Error"}
     \cup (IF s.split \/ s.periodic THEN {"Ack", "Nak", "Nyet"} ELSE {})

\* Slip: the packet is looked for in the start-split.
CountPacketsOfStartSplit(s, status) ==
  IF s.split /\ ~s.splitComplete /\ s.packets > 0 /\ "XferComplete" \in status
  THEN [s EXCEPT !.packets = @ - 1]
  ELSE s

(***************************************************************************)
(* TransactionComplete: a split transaction carries one packet, which is   *)
(* through when its complete-split reports XferComplete.  Packets of other *)
(* transfers are not counted: nothing asks for them.                       *)
(***************************************************************************)
CountPackets(s, status) ==
  IF /\ s.split /\ s.splitComplete /\ s.packets > 0
     /\ "XferComplete" \in status
     /\ status \cap {"Error", "Nak", "Nyet"} = {}
  THEN [s EXCEPT !.packets = @ - 1]
  ELSE s

IsStageComplete(s) == s.packets = 0

\* Slip: the frame scheduler is not told that a new cycle begins.
BeginCycleUnscheduled(s) ==
  IF s.split
  THEN [s EXCEPT !.state = "StartSplit", !.splitComplete = FALSE]
  ELSE [s EXCEPT !.state = "NoSplitTransfer"]

\* State and scheduler of a stage whose next transaction is its first one.
BeginCycle(s) ==
  IF s.split
  THEN [s EXCEPT !.state = "StartSplit", !.splitComplete = FALSE, !.sched = StartSplit(@)]
  ELSE [s EXCEPT !.state = "NoSplitTransfer"]

-----------------------------------------------------------------------------
(* The registers of a channel.  run: "active" while the ENABLE bit is set,   *)
(* "stopping" from a request to disable it until the controller halts it.    *)
(* kind: the transaction programmed last, which limits what it can report.   *)

ChannelRegisters ==
  [run : {"idle", "active", "stopping"}, int : SUBSET Bits, mask : SUBSET Bits,
   kind : {"plain", "polled", "start", "complete"}]

TransactionKind(s) ==
  IF s.split THEN IF s.splitComplete THEN "complete" ELSE "start"
             ELSE IF s.periodic THEN "polled" ELSE "plain"

\* StartChannel, for a stage and the registers of its channel.
ChannelStage(s, frame) ==
  [s EXCEPT !.sub = "WaitForTransactionComplete",
            !.sched = IF s.split /\ ~InQEMU THEN WaitForFrame(@, frame) ELSE @]

ChannelStarted(s) ==
  [run |-> "active", int |-> {}, mask |-> StatusMask(s), kind |-> TransactionKind(s)]

(***************************************************************************)
(* StartTransaction for stage s on channel c whose registers are h: a      *)
(* channel the controller has not disabled yet is disabled first.          *)
(***************************************************************************)
StartedStage(s, h, frame) ==
  IF h.run = "active" THEN [s EXCEPT !.sub = "WaitForChannelDisable"]
                      ELSE ChannelStage(s, frame)

\* Slip: the channel is programmed without waiting for it to be disabled.
StartedChannelAtOnce(s, h) == ChannelStarted(s)

StartedChannel(s, h) ==
  IF h.run = "active" THEN [h EXCEPT !.run = "stopping", !.mask = {"Halted"}]
                      ELSE ChannelStarted(s)

StartTransaction(c, s) ==
  /\ \E frame \in Microframes :
       stage' = [stage EXCEPT ![c] = StartedStage(s, hw[c], frame)]
  /\ hw' = [hw EXCEPT ![c] = StartedChannel(s, hw[c])]

\* Bits the controller still raises that reach the processor.
Raised(c) == hw[c].int \cap hw[c].mask # {}

-----------------------------------------------------------------------------
(* AllocateChannel takes the first free channel.                             *)

FreeChannels == Channels \ channelAllocated

FirstFree == CHOOSE c \in FreeChannels : \A d \in FreeChannels : c <= d

-----------------------------------------------------------------------------
(* Thread context.  job is the request being made: its URB, whether it goes  *)
(* to a device behind a hub, and how many stages are left.                   *)

NoJob == [urb |-> Sync, split |-> FALSE, left |-> 1]

ThreadRuns == cpu = "thread"

ThreadUnchanged == UNCHANGED <<cpu, pending, callback, cursor, timer>>

(***************************************************************************)
(* DWHCIDeviceControlMessage and DWHCIDeviceTransfer, up to the first      *)
(* stage: a control request has two or three stages, a bulk one has one.   *)
(* TransferStage sets m_bWaiting before it asks for a channel.             *)
(***************************************************************************)
SubmitBlockingRequest ==
  /\ ThreadRuns /\ pc = "idle"
  /\ \E split \in BOOLEAN, left \in 1 .. 3 :
       job' = [urb |-> Sync, split |-> split, left |-> left]
  /\ urbStatus' = [urbStatus EXCEPT ![Sync] = FALSE]
  /\ waiting' = TRUE
  /\ pc' = "allocate"
  /\ ThreadUnchanged
  /\ UNCHANGED <<stageVars, channel, streaming>>

\* StartRequest of an input device, from its Configure.
SubmitAsyncRequest(u) ==
  /\ ThreadRuns /\ pc = "idle"
  /\ u \notin streaming
  /\ job' = [urb |-> u, split |-> u \in Split, left |-> 1]
  /\ urbStatus' = [urbStatus EXCEPT ![u] = FALSE]
  /\ pc' = "allocate"
  /\ ThreadUnchanged
  /\ UNCHANGED <<stageVars, waiting, channel, streaming>>

\* Slip: m_bWaiting stays set when there is no channel.
AllocateChannelStillWaiting ==
  /\ ThreadRuns /\ pc = "allocate"
  /\ \/ /\ FreeChannels # {}
        /\ channel' = FirstFree
        /\ channelAllocated' = channelAllocated \cup {FirstFree}
        /\ pc' = "build"
        /\ UNCHANGED job
     \/ /\ FreeChannels = {}
        /\ pc' = "idle" /\ job' = NoJob
        /\ UNCHANGED <<channel, channelAllocated>>
  /\ ThreadUnchanged
  /\ UNCHANGED <<stage, waiting, urbStatus, hw, allMask, streaming>>

\* TransferStageAsync, first step: no channel fails the request.
AllocateChannel ==
  /\ ThreadRuns /\ pc = "allocate"
  /\ \/ /\ FreeChannels # {}
        /\ channel' = FirstFree
        /\ channelAllocated' = channelAllocated \cup {FirstFree}
        /\ pc' = "build"
        /\ UNCHANGED <<waiting, job>>
     \/ /\ FreeChannels = {}
        /\ waiting' = IF job.urb = Sync THEN FALSE ELSE waiting
        /\ pc' = "idle" /\ job' = NoJob
        /\ UNCHANGED <<channel, channelAllocated>>
  /\ ThreadUnchanged
  /\ UNCHANGED <<stage, urbStatus, hw, allMask, streaming>>

\* Second step: build the stage and let the channel interrupt.
BuildStage ==
  /\ ThreadRuns /\ pc = "build"
  /\ \E packets \in 1 .. MaxPackets :
       stage' = [stage EXCEPT ![channel] = NewStage(job.urb, job.split, packets)]
  /\ allMask' = allMask \cup {channel}
  /\ pc' = "start"
  /\ ThreadUnchanged
  /\ UNCHANGED <<channelAllocated, waiting, urbStatus, hw, job, channel, streaming>>

\* Third step: the first transaction.  A blocking request then waits.
StartStage ==
  /\ ThreadRuns /\ pc = "start"
  /\ StartTransaction(channel, BeginCycle(stage[channel]))
  /\ channel' = NoChannel
  /\ \/ /\ job.urb = Sync
        /\ pc' = "wait"
        /\ UNCHANGED <<streaming, job>>
     \/ /\ job.urb # Sync
        /\ pc' = "idle" /\ job' = NoJob
        /\ streaming' = streaming \cup {job.urb}
  /\ ThreadUnchanged
  /\ UNCHANGED <<channelAllocated, waiting, urbStatus, allMask>>

(***************************************************************************)
(* The busy-wait of TransferStage ends.  A stage that failed ends the      *)
(* request; else the next stage follows.                                   *)
(***************************************************************************)
FinishWait ==
  /\ ThreadRuns /\ pc = "wait" /\ ~waiting
  /\ \/ /\ urbStatus[Sync] /\ job.left > 1
        /\ job' = [job EXCEPT !.left = @ - 1]
        /\ waiting' = TRUE
        /\ pc' = "allocate"
     \/ /\ ~urbStatus[Sync] \/ job.left = 1
        /\ pc' = "idle" /\ job' = NoJob
        /\ UNCHANGED waiting
  /\ ThreadUnchanged
  /\ UNCHANGED <<stageVars, urbStatus, channel, streaming>>

-----------------------------------------------------------------------------
(* The USB interrupt.                                                        *)

UsbUnchanged == UNCHANGED <<cursor, pc, job, channel>>

(***************************************************************************)
(* InterruptHandler: the snapshot of AllChanInterrupt is not filtered by   *)
(* the all-channel mask, which only gates the interrupt line.              *)
(***************************************************************************)
InterruptHandler ==
  /\ ThreadRuns
  /\ \E c \in allMask : Raised(c)
  /\ cpu' = "usb"
  /\ pending' = {c \in Channels : Raised(c)}
  /\ UsbUnchanged
  /\ UNCHANGED <<stageVars, waiting, urbStatus, timer, callback, streaming>>

InterruptReturn ==
  /\ cpu = "usb" /\ pending = {} /\ callback = NoUrb
  /\ cpu' = "thread"
  /\ UsbUnchanged
  /\ UNCHANGED <<stageVars, waiting, urbStatus, timer, pending, callback, streaming>>

\* The channel the loop handles next; it masks the channel's interrupt first.
Handling(c) ==
  /\ cpu = "usb" /\ callback = NoUrb
  /\ c \in pending /\ \A d \in pending : c <= d
  /\ pending' = pending \ {c}
  /\ UNCHANGED cpu

\* A request to disable the channel is answered: now the channel starts.
ChannelDisabled(c) ==
  /\ Handling(c)
  /\ stage[c].sub = "WaitForChannelDisable"
  /\ \E frame \in Microframes :
       stage' = [stage EXCEPT ![c] = ChannelStage(@, frame)]
  /\ hw' = [hw EXCEPT ![c] = ChannelStarted(stage[c])]
  /\ UsbUnchanged
  /\ UNCHANGED <<channelAllocated, allMask, waiting, urbStatus, timer, callback, streaming>>

\* A transaction halted without a result is started again.
RestartHalted(c) ==
  /\ Handling(c)
  /\ stage[c].sub = "WaitForTransactionComplete"
  /\ hw[c].int = {"Halted"}
  /\ StartTransaction(c, stage[c])
  /\ UsbUnchanged
  /\ UNCHANGED <<channelAllocated, allMask, waiting, urbStatus, timer, callback, streaming>>

(***************************************************************************)
(* The ends of a transaction.  `Status' is what ChanInterrupt reads, t the *)
(* stage after TransactionComplete.                                        *)
(***************************************************************************)
Status(c) == hw[c].int

Completed(c) ==
  /\ Handling(c)
  /\ stage[c].sub = "WaitForTransactionComplete"
  /\ hw[c].int # {"Halted"}

\* Slip: the channel is not freed.
FinishStageLeaking(c, ok) ==
  /\ urbStatus' = [urbStatus EXCEPT ![stage[c].urb] = ok]
  /\ allMask' = allMask \ {c}
  /\ hw' = [hw EXCEPT ![c].mask = {}]
  /\ stage' = [stage EXCEPT ![c] = Destroyed(@)]
  /\ callback' = stage[c].urb
  /\ UsbUnchanged
  /\ UNCHANGED <<channelAllocated, waiting, timer, streaming>>

\* Slip: the stage outlives the report.
FinishStageUndestroyed(c, ok) ==
  /\ urbStatus' = [urbStatus EXCEPT ![stage[c].urb] = ok]
  /\ allMask' = allMask \ {c}
  /\ hw' = [hw EXCEPT ![c].mask = {}]
  /\ channelAllocated' = channelAllocated \ {c}
  /\ callback' = stage[c].urb
  /\ UsbUnchanged
  /\ UNCHANGED <<stage, waiting, timer, streaming>>

(***************************************************************************)
(* Disable the channel's interrupt, destroy the stage, free the channel    *)
(* and call the completion routine.                                        *)
(***************************************************************************)
FinishStage(c, ok) ==
  /\ urbStatus' = [urbStatus EXCEPT ![stage[c].urb] = ok]
  /\ allMask' = allMask \ {c}
  /\ hw' = [hw EXCEPT ![c].mask = {}]
  /\ stage' = [stage EXCEPT ![c] = Destroyed(@)]
  /\ channelAllocated' = channelAllocated \ {c}
  /\ callback' = stage[c].urb
  /\ UsbUnchanged
  /\ UNCHANGED <<waiting, timer, streaming>>

\* Slip: the last slot is not looked at.
FreeTimersButLast == {i \in Timers : i < NTimers - 1 /\ timer[i].channel = NoChannel}

(***************************************************************************)
(* StartKernelTimer: the first unused slot.  Without one the source writes *)
(* past the table, where no scan looks: the timer never fires.             *)
(***************************************************************************)
FreeTimers == {i \in Timers : timer[i].channel = NoChannel}

ArmTimer(c, ticks) ==
  \/ \E i \in FreeTimers :
       /\ \A j \in FreeTimers : i <= j
       /\ timer' = [timer EXCEPT ![i] = [channel |-> c, left |-> ticks]]
  \/ FreeTimers = {} /\ UNCHANGED timer

\* Slip: the channel may still interrupt during the delay.
DelayStageUnmasked(c, t) ==
  /\ stage' = [stage EXCEPT ![c] = [t EXCEPT !.state = "PeriodicDelay"]]
  /\ ArmTimer(c, Delay[t.urb])
  /\ UsbUnchanged
  /\ UNCHANGED <<channelAllocated, hw, allMask, waiting, urbStatus, callback, streaming>>

\* The endpoint is polled again after its interval; t is the stage on c.
DelayStage(c, t) ==
  /\ stage' = [stage EXCEPT ![c] = [t EXCEPT !.state = "PeriodicDelay"]]
  /\ hw' = [hw EXCEPT ![c].mask = {}]
  /\ ArmTimer(c, Delay[t.urb])
  /\ UsbUnchanged
  /\ UNCHANGED <<channelAllocated, allMask, waiting, urbStatus, callback, streaming>>

ContinueStage(c, t) ==
  /\ StartTransaction(c, t)
  /\ UsbUnchanged
  /\ UNCHANGED <<channelAllocated, allMask, waiting, urbStatus, timer, callback, streaming>>

NoSplitComplete(c) ==
  /\ Completed(c)
  /\ stage[c].state = "NoSplitTransfer"
  /\ LET retry == Status(c) \cap {"Nak", "Nyet"} # {} /\ stage[c].periodic
     IN  \/ "Error" \in Status(c) /\ FinishStage(c, FALSE)
         \/ "Error" \notin Status(c) /\ retry /\ DelayStage(c, stage[c])
         \/ "Error" \notin Status(c) /\ ~retry /\ FinishStage(c, TRUE)

\* The label LeaveCompleteSplit, with t the stage so far.
LeaveCompleteSplit(c, t) ==
  \/ IsStageComplete(t) /\ FinishStage(c, TRUE)
  \/ ~IsStageComplete(t) /\ ~t.periodic /\ ContinueStage(c, BeginCycle(t))
  \/ ~IsStageComplete(t) /\ t.periodic /\ DelayStage(c, t)

\* CompleteSplit of the scheduler decides whether to go on with complete-splits.
ScheduleCompleteSplit(c, t) ==
  LET next == [t EXCEPT !.sched = CompleteSplit(@)]
  IN  \/ CompleteSplitResult(t.sched) /\ ContinueStage(c, next)
      \/ ~CompleteSplitResult(t.sched) /\ LeaveCompleteSplit(c, next)

StartSplitComplete(c) ==
  /\ Completed(c)
  /\ stage[c].state = "StartSplit"
  /\ \/ /\ Status(c) \cap {"Error", "Nak", "Nyet"} # {}
        /\ FinishStage(c, FALSE)
     \/ /\ Status(c) \cap {"Error", "Nak", "Nyet"} = {}
        /\ ScheduleCompleteSplit(c, [stage[c] EXCEPT
             !.sched = TransactionComplete(@, Status(c)),
             !.state = "CompleteSplit", !.splitComplete = TRUE])

CompleteSplitComplete(c) ==
  /\ Completed(c)
  /\ stage[c].state = "CompleteSplit"
  /\ \/ "Error" \in Status(c) /\ FinishStage(c, FALSE)
     \/ /\ "Error" \notin Status(c)
        /\ ScheduleCompleteSplit(c, [CountPackets(stage[c], Status(c)) EXCEPT
             !.sched = TransactionComplete(@, Status(c))])

(***************************************************************************)
(* The completion routines.  A blocking request's clears m_bWaiting; an    *)
(* input device's submits its request again, in interrupt context, and     *)
(* ignores the result: without a channel the device falls silent.          *)
(***************************************************************************)
CompletionRoutine ==
  /\ callback = Sync
  /\ waiting' = FALSE
  /\ callback' = NoUrb
  /\ UsbUnchanged
  /\ UNCHANGED <<stageVars, urbStatus, timer, cpu, pending, streaming>>

\* Slip: a failed request is not submitted again.
ResubmitSuccessful(u) ==
  /\ callback = u
  /\ callback' = NoUrb
  /\ urbStatus' = [urbStatus EXCEPT ![u] = FALSE]
  /\ \/ /\ urbStatus[u] /\ FreeChannels # {}
        /\ \E packets \in 1 .. MaxPackets :
             StartTransaction(FirstFree, BeginCycle(NewStage(u, u \in Split, packets)))
        /\ channelAllocated' = channelAllocated \cup {FirstFree}
        /\ allMask' = allMask \cup {FirstFree}
     \/ /\ ~urbStatus[u] \/ FreeChannels = {}
        /\ UNCHANGED stageVars
  /\ UsbUnchanged
  /\ UNCHANGED <<waiting, timer, cpu, pending, streaming>>

Resubmit(u) ==
  /\ callback = u
  /\ callback' = NoUrb
  /\ urbStatus' = [urbStatus EXCEPT ![u] = FALSE]
  /\ \/ /\ FreeChannels # {}
        /\ \E packets \in 1 .. MaxPackets :
             StartTransaction(FirstFree, BeginCycle(NewStage(u, u \in Split, packets)))
        /\ channelAllocated' = channelAllocated \cup {FirstFree}
        /\ allMask' = allMask \cup {FirstFree}
     \/ /\ FreeChannels = {}
        /\ UNCHANGED stageVars
  /\ UsbUnchanged
  /\ UNCHANGED <<waiting, timer, cpu, pending, streaming>>

-----------------------------------------------------------------------------
(* The timer interrupt: HandleTimerInterrupt and DWHCIDeviceTimerHandler.    *)
(* `left' is the expiration of a slot less the tick count.                   *)

Due(i) == timer[i].channel # NoChannel /\ timer[i].left <= 0

TimerUnchanged ==
  UNCHANGED <<channelAllocated, allMask, waiting, urbStatus, pending, callback,
              pc, job, channel, streaming>>

HandleTimerInterrupt ==
  /\ ThreadRuns
  /\ cpu' = "timer" /\ cursor' = 0
  /\ timer' = [i \in Timers |-> IF timer[i].channel = NoChannel THEN timer[i]
                                ELSE [timer[i] EXCEPT !.left = @ - 1]]
  /\ TimerUnchanged
  /\ UNCHANGED <<stage, hw>>

\* Slip: the slot is not cleared before the handler runs.
FireTimerKeepingSlot(i) ==
  /\ cpu = "timer"
  /\ i >= cursor /\ Due(i) /\ \A j \in Timers : j >= cursor /\ Due(j) => i <= j
  /\ cursor' = i + 1
  /\ LET c == timer[i].channel IN StartTransaction(c, BeginCycle(stage[c]))
  /\ TimerUnchanged
  /\ UNCHANGED <<timer, cpu>>

FireTimer(i) ==
  /\ cpu = "timer"
  /\ i >= cursor /\ Due(i) /\ \A j \in Timers : j >= cursor /\ Due(j) => i <= j
  /\ cursor' = i + 1
  /\ timer' = [timer EXCEPT ![i] = [channel |-> NoChannel, left |-> 0]]
  /\ LET c == timer[i].channel IN StartTransaction(c, BeginCycle(stage[c]))
  /\ TimerUnchanged
  /\ UNCHANGED cpu

TimerReturn ==
  /\ cpu = "timer"
  /\ \A i \in Timers : i >= cursor => ~Due(i)
  /\ cpu' = "thread" /\ cursor' = 0
  /\ TimerUnchanged
  /\ UNCHANGED <<stage, hw, timer>>

-----------------------------------------------------------------------------
(* The controller.  What a transaction of each kind can report: a result,    *)
(* always with Halted, or an early Ack (not unmasked for a plain one).  NAK  *)
(* and NYET of a plain transfer the controller handles itself.               *)

Results(kind) ==
  {{"Halted"}, {"Error", "Halted"}} \cup
  CASE kind = "plain"    -> {{"XferComplete", "Halted"}}
    [] kind = "polled"   -> {{"Ack"}, {"XferComplete", "Halted"}, {"Nak", "Halted"}}
    [] kind = "start"    -> {{"Ack"}, {"Ack", "Halted"}, {"Nyet", "Halted"}}
    [] kind = "complete" -> {{"Ack"}, {"XferComplete", "Halted"}, {"Nak", "Halted"},
                             {"Nyet", "Halted"}}

Reported(h, bits) ==
  [h EXCEPT !.int = @ \cup bits, !.run = IF "Halted" \in bits THEN "idle" ELSE @]

Report(c, bits) == hw' = [hw EXCEPT ![c] = Reported(@, bits)]

HardwareUnchanged ==
  UNCHANGED <<channelAllocated, stage, waiting, urbStatus, allMask, timer, cpu, pending,
              callback, cursor, pc, job, channel, streaming>>

TransactionResult(c) ==
  /\ hw[c].run = "active"
  /\ \E bits \in Results(hw[c].kind) :
       /\ "Ack" \in hw[c].int => bits \cap {"Error", "Nak", "Nyet"} = {}
       /\ Report(c, bits)
  /\ HardwareUnchanged

ChannelHalts(c) ==
  /\ hw[c].run = "stopping"
  /\ Report(c, {"Halted"})
  /\ HardwareUnchanged

-----------------------------------------------------------------------------

Init ==
  /\ channelAllocated = {}
  /\ stage = [c \in Channels |-> Destroyed(NewStage(NoUrb, FALSE, 1))]
  /\ waiting = FALSE
  /\ urbStatus = [u \in Urbs |-> FALSE]
  /\ hw = [c \in Channels |-> [run |-> "idle", int |-> {}, mask |-> {}, kind |-> "plain"]]
  /\ allMask = {}
  /\ timer = [i \in Timers |-> [channel |-> NoChannel, left |-> 0]]
  /\ cpu = "thread" /\ pending = {} /\ callback = NoUrb /\ cursor = 0
  /\ pc = "idle" /\ channel = NoChannel
  /\ job = NoJob
  /\ streaming = {}

ThreadNext ==
  \/ SubmitBlockingRequest
  \/ \E u \in Async : SubmitAsyncRequest(u)
  \/ AllocateChannel
  \/ BuildStage
  \/ StartStage
  \/ FinishWait

ChannelInterruptHandler(c) ==
  \/ ChannelDisabled(c)
  \/ RestartHalted(c)
  \/ NoSplitComplete(c)
  \/ StartSplitComplete(c)
  \/ CompleteSplitComplete(c)

InterruptNext ==
  \/ \E c \in Channels : ChannelInterruptHandler(c)
  \/ CompletionRoutine
  \/ \E u \in Async : Resubmit(u)
  \/ InterruptReturn

TimerNext ==
  \/ \E i \in Timers : FireTimer(i)
  \/ TimerReturn

HardwareNext ==
  \E c \in Channels : TransactionResult(c) \/ ChannelHalts(c)

Next ==
  \/ ThreadNext
  \/ InterruptHandler
  \/ InterruptNext
  \/ HandleTimerInterrupt
  \/ TimerNext
  \/ HardwareNext

Spec == Init /\ [][Next]_vars

(***************************************************************************)
(* Fairness.  The program runs whenever no interrupt handler does, and it  *)
(* is interrupted for ever only if it also runs for ever (ticks are 10 ms  *)
(* apart): strong fairness for the thread and for both interrupt lines,    *)
(* weak fairness for handlers, which nothing preempts.  The controller     *)
(* halts a channel it was asked to halt, and a device that is asked again  *)
(* and again for the same kind of transaction at last completes one.       *)
(***************************************************************************)
ThreadStep == AllocateChannel \/ BuildStage \/ StartStage \/ FinishWait

Answer(u, kind) ==
  \E c \in Channels :
    /\ stage[c].urb = u
    /\ hw[c].run = "active" /\ hw[c].kind = kind /\ hw[c].int = {}
    /\ Report(c, IF kind = "start" THEN {"Ack", "Halted"} ELSE {"XferComplete", "Halted"})
    /\ HardwareUnchanged

\* The kinds of transaction a request's device is ever asked for.
Kinds(u) ==
  IF u = Sync THEN {"plain", "start", "complete"}
  ELSE IF u \in Split THEN {"start", "complete"}
  ELSE IF u \in Periodic THEN {"polled"} ELSE {"plain"}

Fairness ==
  /\ SF_vars(ThreadStep)
  /\ SF_vars(InterruptHandler) /\ SF_vars(HandleTimerInterrupt)
  /\ WF_vars(InterruptNext) /\ WF_vars(TimerNext)
  /\ \A c \in Channels : WF_vars(ChannelHalts(c))
  /\ \A u \in Urbs : \A kind \in Kinds(u) : SF_vars(Answer(u, kind))

FairSpec == Spec /\ Fairness

-----------------------------------------------------------------------------
(* Invariants.                                                               *)

TypeOK ==
  /\ channelAllocated \subseteq Channels
  /\ stage \in [Channels -> Stages]
  /\ waiting \in BOOLEAN
  /\ urbStatus \in [Urbs -> BOOLEAN]
  /\ hw \in [Channels -> ChannelRegisters]
  /\ allMask \subseteq Channels
  /\ timer \in [Timers -> [channel : Channels \cup {NoChannel}, left : Int]]
  /\ cpu \in {"thread", "usb", "timer"}
  /\ pending \subseteq Channels
  /\ callback \in Urbs \cup {NoUrb}
  /\ cursor \in 0 .. NTimers
  /\ pc \in {"idle", "allocate", "build", "start", "wait"}
  /\ job \in [urb : Urbs, split : BOOLEAN, left : 1 .. 3]
  /\ channel \in Channels \cup {NoChannel}
  /\ streaming \subseteq Async

-----------------------------------------------------------------------------

Live(c) == stage[c].urb # NoUrb

Running(c) == stage[c].state \in {"NoSplitTransfer", "StartSplit", "CompleteSplit"}

(***************************************************************************)
(* A channel is allocated exactly while a stage lives on it (from the      *)
(* thread's AllocateChannel until it has built the stage, it is about to), *)
(* and no URB is on two channels.  What FreeChannel asserts, and what      *)
(* makes the pool neither leak nor hand a channel out twice.               *)
(***************************************************************************)
ChannelOwnership ==
  /\ \A c \in Channels : Live(c) => c \in channelAllocated
  /\ \A c \in channelAllocated : Live(c) \/ (pc = "build" /\ channel = c)
  /\ \A c, d \in Channels : Live(c) /\ stage[c].urb = stage[d].urb => c = d

(***************************************************************************)
(* A channel whose interrupt is unmasked, or that is still in the snapshot *)
(* an earlier channel's completion routine has outdated, has a live stage  *)
(* that awaits the interrupt: the asserts of ChannelInterruptHandler.      *)
(***************************************************************************)
InterruptsAreExpected ==
  \A c \in Channels :
    c \in pending \/ hw[c].mask # {} => Live(c) /\ Running(c) /\ stage[c].sub # "None"

(***************************************************************************)
(* Once started, a stage always has something that will move it on: an     *)
(* armed timer, or a controller that is still to report with the bit       *)
(* unmasked on both levels.  Were this broken the stage, and with it the   *)
(* blocking call, would hang: there is no timeout.                         *)
(***************************************************************************)
StageHasFuture ==
  \A c \in Channels :
    Live(c) /\ ~(pc = "start" /\ channel = c) =>
      IF Running(c)
      THEN /\ c \in allMask /\ "Halted" \in hw[c].mask
           /\ \/ hw[c].run = "idle" /\ "Halted" \in hw[c].int
              \/ hw[c].run = "active" /\ stage[c].sub = "WaitForTransactionComplete"
              \/ hw[c].run = "stopping" /\ stage[c].sub = "WaitForChannelDisable"
      ELSE \E i \in Timers : timer[i].channel = c

(***************************************************************************)
(* A timer is armed only for a live stage in its periodic delay, and for   *)
(* each at most one: the assert of DWHCIDeviceTimerHandler.                *)
(***************************************************************************)
TimerOwnership ==
  \A i \in Timers :
    timer[i].channel # NoChannel =>
      /\ Live(timer[i].channel)
      /\ stage[timer[i].channel].state = "PeriodicDelay"
      /\ \A j \in Timers : timer[j].channel = timer[i].channel => i = j

(***************************************************************************)
(* m_bWaiting is set exactly while a blocking request has a stage to wait  *)
(* for, so the busy-wait of TransferStage neither ends early nor misses    *)
(* its end, and the assert on entry (no nested blocking request) holds.    *)
(***************************************************************************)
SyncInService == callback = Sync \/ \E c \in Channels : stage[c].urb = Sync

WaitingMatchesRequest ==
  /\ pc \in {"allocate", "build", "start"} /\ job.urb = Sync => waiting
  /\ waiting => pc # "idle"
  /\ SyncInService => waiting /\ pc \in {"start", "wait"} /\ job.urb = Sync
  /\ pc = "wait" /\ waiting => SyncInService

(***************************************************************************)
(* Once StartRequest of an input device has returned TRUE, the device      *)
(* always has its request in service or its completion routine about to    *)
(* run.  The routine ignores the result of the resubmission; it cannot     *)
(* fail because the stage's channel was freed first and nothing else can   *)
(* allocate it in between.                                                 *)
(***************************************************************************)
StreamsNeverDie ==
  \A u \in streaming : callback = u \/ \E c \in Channels : stage[c].urb = u

(***************************************************************************)
(* The frame scheduler is called only in states it has a case for: the     *)
(* asserts of its CompleteSplit and TransactionComplete.                   *)
(***************************************************************************)
SchedulerAsserts ==
  \A c \in pending :
    /\ stage[c].split
    /\ stage[c].sub = "WaitForTransactionComplete"
    /\ hw[c].int # {"Halted"} /\ "Error" \notin hw[c].int
    /\ stage[c].state = "StartSplit" => hw[c].int \cap {"Nak", "Nyet"} = {}
    => /\ TransactionCompleteAsserts(stage[c].sched, hw[c].int)
       /\ CompleteSplitAsserts(TransactionComplete(stage[c].sched, hw[c].int))
       /\ stage[c].packets > 0

(***************************************************************************)
(* The registers of a channel are programmed only while the controller has *)
(* it disabled: the reason StartTransaction waits for the channel.         *)
(***************************************************************************)
NeverReprogramsRunningChannel ==
  [][\A c \in Channels :
       hw[c].run # "idle" =>
         /\ hw'[c].kind = hw[c].kind
         /\ hw[c].int \subseteq hw'[c].int
         /\ hw[c].run = "stopping" => hw'[c].run # "active"]_vars

(***************************************************************************)
(* A blocking request returns: its stages end, and each end is noticed.    *)
(***************************************************************************)
BlockingRequestReturns == pc # "idle" /\ job.urb = Sync ~> pc = "idle"

(***************************************************************************)
(* An input device that was started is heard again and again, over every   *)
(* poll, delay and resubmission.                                           *)
(***************************************************************************)
StreamsAreServed == \A u \in Async : u \in streaming ~> callback = u

-----------------------------------------------------------------------------
(* The driver implements UsbRequests.                                        *)

PhaseOf(u) ==
  IF callback = u THEN IF urbStatus[u] THEN "succeeded" ELSE "failed"
  ELSE IF \E c \in Channels : stage[c].urb = u THEN "accepted" ELSE "idle"

Requests == INSTANCE UsbRequests
  WITH Urbs <- Urbs, Resubmits <- Async, Capacity <- NChannels,
       phase <- [u \in Urbs |-> PhaseOf(u)]

(***************************************************************************)
(* Every stage is completed and reported exactly once, as UsbRequests      *)
(* promises.                                                               *)
(***************************************************************************)
ImplementsRequests == Requests!Spec
=============================================================================
