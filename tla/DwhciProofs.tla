----------------------------- MODULE DwhciProofs -----------------------------
(***************************************************************************)
(* Proofs about Dwhci, for every number of channels and timers and every   *)
(* set of devices.                                                         *)
(***************************************************************************)
EXTENDS Dwhci, WellFoundedInduction, FiniteSetTheorems, TLAPS

(***************************************************************************)
(* The scheduler operators keep a scheduler well formed.  TriesOK is what  *)
(* makes `m_nTries--' safe: a scheduler that may still count a try has     *)
(* m_nTries set, and it has not wrapped.                                   *)
(***************************************************************************)
TriesOK(s) == s.state \in {"CompleteSplit", "CompleteRetry"} => s.tries >= 0

GoodSchedulers == {s \in Schedulers : TriesOK(s)}

GoodStages ==
  [urb : Urbs \cup {NoUrb}, split : BOOLEAN, periodic : BOOLEAN, splitComplete : BOOLEAN,
   packets : 0 .. MaxPackets, state : StageStates, sub : SubStates, sched : GoodSchedulers]

\* A frame scheduler starts with no tries to count.
LEMMA NewSchedulerGood ==
  ASSUME NEW periodic \in BOOLEAN
  PROVE  NewScheduler(periodic) \in GoodSchedulers
BY DEF NewScheduler, GoodSchedulers, Schedulers, SchedulerStates, FrameUnset, TriesOK

\* Another m_nNextFrame leaves a scheduler well formed.
LEMMA UpdatedFrame ==
  ASSUME NEW s \in GoodSchedulers, NEW frame \in 0 .. FrameUnset
  PROVE  [s EXCEPT !.nextFrame = frame] \in GoodSchedulers
<1> DEFINE f == [s EXCEPT !.nextFrame = frame]
<1>1. s \in Schedulers /\ TriesOK(s)
  BY DEF GoodSchedulers
<1>2. f \in Schedulers /\ f.state = s.state /\ f.tries = s.tries
  BY <1>1 DEF Schedulers
<1> HIDE DEF f
<1>3. f \in GoodSchedulers
  BY <1>1, <1>2 DEF GoodSchedulers, TriesOK
<1>4. QED
  BY <1>3 DEF f

\* A state that counts tries is entered with tries left.
LEMMA UpdatedScheduler ==
  ASSUME NEW s \in GoodSchedulers, NEW state \in SchedulerStates,
         NEW tries \in -1 .. 3, NEW frame \in 0 .. FrameUnset,
         state \in {"CompleteSplit", "CompleteRetry"} => tries >= 0
  PROVE  /\ [s EXCEPT !.state = state, !.tries = tries] \in GoodSchedulers
         /\ [s EXCEPT !.state = state, !.tries = tries, !.nextFrame = frame] \in GoodSchedulers
<1> DEFINE st == [s EXCEPT !.state = state, !.tries = tries]
           stf == [s EXCEPT !.state = state, !.tries = tries, !.nextFrame = frame]
<1>1. st \in Schedulers /\ st.state = state /\ st.tries = tries
  BY DEF GoodSchedulers, Schedulers
<1>2. stf \in Schedulers /\ stf.state = state /\ stf.tries = tries
  BY DEF GoodSchedulers, Schedulers
<1> HIDE DEF st, stf
<1>3. {st, stf} \subseteq GoodSchedulers
  BY <1>1, <1>2 DEF GoodSchedulers, TriesOK
<1>4. QED
  BY <1>3 DEF st, stf

\* A state that does not count tries may be entered with any m_nTries.
LEMMA OtherState ==
  ASSUME NEW s \in GoodSchedulers, NEW frame \in 0 .. FrameUnset,
         NEW state \in SchedulerStates \ {"CompleteSplit", "CompleteRetry"}
  PROVE  /\ [s EXCEPT !.state = state] \in GoodSchedulers
         /\ [s EXCEPT !.state = state, !.nextFrame = frame] \in GoodSchedulers
<1> DEFINE st == [s EXCEPT !.state = state]
           stf == [s EXCEPT !.state = state, !.nextFrame = frame]
<1>1. st \in Schedulers /\ st.state = state
  BY DEF Schedulers, GoodSchedulers
<1>2. stf \in Schedulers /\ stf.state = state
  BY DEF Schedulers, GoodSchedulers
<1> HIDE DEF st, stf
<1>3. {st, stf} \subseteq GoodSchedulers
  BY <1>1, <1>2 DEF GoodSchedulers, TriesOK
<1>4. QED
  BY <1>3 DEF st, stf

\* Microframe numbers wrap at 8.
LEMMA FrameArithmetic ==
  ASSUME NEW n \in Nat
  PROVE  (n + 1) % 8 \in 0 .. FrameUnset /\ (n + 2) % 8 \in 0 .. FrameUnset
BY DEF FrameUnset

\* DWHCIFrameScheduler*_StartSplit keeps the scheduler well formed.
LEMMA StartSplitGood ==
  ASSUME NEW s \in GoodSchedulers
  PROVE  StartSplit(s) \in GoodSchedulers
<1> DEFINE frame == IF s.periodic THEN FrameUnset ELSE s.nextFrame
<1>1. frame \in 0 .. FrameUnset
  BY DEF GoodSchedulers, Schedulers, FrameUnset
<1> HIDE DEF frame
<1>2. [s EXCEPT !.state = "StartSplit", !.nextFrame = frame] \in GoodSchedulers
  BY <1>1, OtherState DEF SchedulerStates
<1>3. QED
  BY <1>2 DEF StartSplit, frame

\* WaitForFrame skips microframe 6 and keeps the scheduler well formed.
LEMMA WaitForFrameGood ==
  ASSUME NEW s \in GoodSchedulers, NEW frame \in 0 .. 7
  PROVE  WaitForFrame(s, frame) \in GoodSchedulers
<1> DEFINE next == IF (frame + 1) % 8 = 6 THEN 7 ELSE (frame + 1) % 8
<1>1. next \in 0 .. FrameUnset
  BY FrameArithmetic DEF FrameUnset
<1> HIDE DEF next
<1>2. [s EXCEPT !.nextFrame = next] \in GoodSchedulers
  BY <1>1, UpdatedFrame
<1>3. QED
  BY <1>2 DEF WaitForFrame, next

\* DWHCIFrameScheduler*_CompleteSplit sets up its tries.
LEMMA CompleteSplitGood ==
  ASSUME NEW s \in GoodSchedulers
  PROVE  CompleteSplit(s) \in GoodSchedulers
<1> DEFINE tries == IF s.periodic /\ s.nextFrame = 5 THEN 2 ELSE 3
           frame == IF s.periodic THEN (s.nextFrame + 2) % 8 ELSE s.nextFrame
           retry == (s.nextFrame + 1) % 8
<1>1. s.state \in SchedulerStates /\ s.tries \in -1 .. 3 /\ TriesOK(s) /\ s.nextFrame \in 0 .. FrameUnset
  BY DEF GoodSchedulers, Schedulers
<1>2. frame \in 0 .. FrameUnset /\ retry \in 0 .. FrameUnset
  BY <1>1, FrameArithmetic DEF FrameUnset
<1>3. tries \in -1 .. 3 /\ tries >= 0
  OBVIOUS
<1> HIDE DEF tries, frame, retry
<1>4. [s EXCEPT !.state = "CompleteSplit", !.tries = tries, !.nextFrame = frame] \in GoodSchedulers
  BY <1>2, <1>3, "CompleteSplit" \in SchedulerStates, UpdatedScheduler DEF SchedulerStates
<1>5. [s EXCEPT !.nextFrame = retry] \in GoodSchedulers
  BY <1>2, UpdatedFrame
<1>6. QED
  <2>1. CASE s.state = "StartSplitComplete"
    BY <1>4, <2>1 DEF CompleteSplit, tries, frame
  <2>2. CASE s.state = "CompleteRetry" /\ s.periodic
    BY <1>5, <2>2 DEF CompleteSplit, retry
  <2>3. CASE s.state # "StartSplitComplete" /\ ~(s.state = "CompleteRetry" /\ s.periodic)
    BY <2>3 DEF CompleteSplit
  <2>4. QED
    BY <2>1, <2>2, <2>3

\* A complete-split try is counted down and never below zero.
LEMMA UseTryGood ==
  ASSUME NEW s \in GoodSchedulers, s.state \in {"CompleteSplit", "CompleteRetry"}
  PROVE  UseTry(s) \in GoodSchedulers
<1> DEFINE state == IF s.tries = 0 THEN "CompleteSplitFailed" ELSE "CompleteRetry"
<1>1. s.tries \in 0 .. 3 /\ s.nextFrame \in 0 .. FrameUnset
  BY DEF GoodSchedulers, Schedulers, TriesOK
<1>2. state \in SchedulerStates /\ s.tries - 1 \in -1 .. 3
      /\ (state \in {"CompleteSplit", "CompleteRetry"} => s.tries - 1 >= 0)
  BY <1>1 DEF SchedulerStates
<1> HIDE DEF state
<1>3. [s EXCEPT !.state = state, !.tries = s.tries - 1] \in GoodSchedulers
  BY <1>1, <1>2, UpdatedScheduler
<1>4. QED
  BY <1>3 DEF UseTry, state

\* DWHCIFrameScheduler*_TransactionComplete keeps the scheduler well formed.
LEMMA TransactionCompleteGood ==
  ASSUME NEW s \in GoodSchedulers, NEW status \in SUBSET Bits
  PROVE  TransactionComplete(s, status) \in GoodSchedulers
<1>1. s.nextFrame \in 0 .. FrameUnset
  BY DEF GoodSchedulers, Schedulers
<1>2. \A state \in {"StartSplitComplete", "CompleteSplitComplete", "CompleteSplitFailed"} :
        [s EXCEPT !.state = state] \in GoodSchedulers
  BY <1>1, OtherState DEF SchedulerStates
<1>3. s.state \in {"CompleteSplit", "CompleteRetry"} => UseTry(s) \in GoodSchedulers
  BY UseTryGood
<1>4. QED
  BY <1>2, <1>3 DEF TransactionComplete

-----------------------------------------------------------------------------
(***************************************************************************)
(* The stage operators, by what they do to the fields the invariant is     *)
(* about.                                                                  *)
(***************************************************************************)
SameRequest(s, t) == t.urb = s.urb /\ t.periodic = s.periodic

\* The strengthened set of stage data refines the one of TypeOK.
LEMMA GoodStagesAreStages == GoodStages \subseteq Stages
BY DEF GoodStages, Stages, GoodSchedulers

\* DWHCITransferStageData() constructs a well-formed stage for its request.
LEMMA NewStageGood ==
  ASSUME NEW u \in Urbs \cup {NoUrb}, NEW split \in BOOLEAN, NEW packets \in 0 .. MaxPackets
  PROVE  /\ NewStage(u, split, packets) \in GoodStages
         /\ NewStage(u, split, packets).urb = u
         /\ NewStage(u, split, packets).periodic <=> u \in Periodic
         /\ NewStage(u, split, packets).sub = "None"
         /\ NewStage(u, split, packets).state = "None"
<1>1. ASSUME NEW periodic \in BOOLEAN, periodic <=> u \in Periodic
      PROVE  LET t == [urb |-> u, split |-> split, periodic |-> periodic,
                       splitComplete |-> FALSE, packets |-> packets, state |-> "None",
                       sub |-> "None", sched |-> NewScheduler(periodic)]
             IN  t \in GoodStages /\ t.urb = u /\ (t.periodic <=> u \in Periodic)
                 /\ t.sub = "None" /\ t.state = "None"
  BY <1>1, NewSchedulerGood DEF GoodStages, StageStates, SubStates
<1>2. PICK periodic : periodic = (u \in Periodic)
  OBVIOUS
<1>3. NewStage(u, split, packets)
        = [urb |-> u, split |-> split, periodic |-> periodic,
           splitComplete |-> FALSE, packets |-> packets, state |-> "None",
           sub |-> "None", sched |-> NewScheduler(periodic)]
  BY <1>2, Zenon DEF NewStage
<1>4. periodic \in BOOLEAN /\ (periodic <=> u \in Periodic)
  <2>1. CASE u \in Periodic
    <3>1. (u \in Periodic) = TRUE
      BY <2>1
    <3>2. QED
      BY <1>2, <2>1, <3>1
  <2>2. CASE u \notin Periodic
    <3>1. (u \in Periodic) = FALSE
      BY <2>2
    <3>2. QED
      BY <1>2, <2>2, <3>1
  <2>3. QED
    BY <2>1, <2>2
<1>5. QED
  BY <1>1, <1>3, <1>4

\* _DWHCITransferStageData() leaves a well-formed stage without a request.
LEMMA DestroyedGood ==
  ASSUME NEW s \in GoodStages
  PROVE  Destroyed(s) \in GoodStages /\ Destroyed(s).urb = NoUrb
<1> DEFINE sched == [s.sched EXCEPT !.state = "Unknown"]
<1>1. s.sched \in GoodSchedulers
  BY DEF GoodStages
<1>2. s.sched.nextFrame \in 0 .. FrameUnset
  BY <1>1 DEF GoodSchedulers, Schedulers
<1>3. sched \in GoodSchedulers
  BY <1>1, <1>2, OtherState DEF SchedulerStates
<1>4. Destroyed(s) = [s EXCEPT !.urb = NoUrb, !.sched = sched]
  BY DEF Destroyed, GoodStages
<1> HIDE DEF sched
<1>5. QED
  BY <1>3, <1>4 DEF GoodStages

\* TransactionComplete never counts more packets than are left.
LEMMA CountPacketsGood ==
  ASSUME NEW s \in GoodStages, NEW status
  PROVE  /\ CountPackets(s, status) \in GoodStages
         /\ SameRequest(s, CountPackets(s, status))
         /\ CountPackets(s, status).state = s.state
         /\ CountPackets(s, status).sched = s.sched
<1>1. s.packets \in 0 .. MaxPackets /\ MaxPackets \in Nat
  BY ConstantsAssumption DEF GoodStages
<1>2. ASSUME NEW p \in 0 .. MaxPackets
      PROVE  LET t == [s EXCEPT !.packets = p]
             IN  t \in GoodStages /\ SameRequest(s, t) /\ t.state = s.state /\ t.sched = s.sched
  BY DEF GoodStages, SameRequest
<1>3. s.packets > 0 => s.packets - 1 \in 0 .. MaxPackets
  BY <1>1
<1>4. CASE CountPackets(s, status) = s
  BY <1>4 DEF SameRequest
<1>5. CASE s.packets > 0 /\ CountPackets(s, status) = [s EXCEPT !.packets = s.packets - 1]
  BY <1>2, <1>3, <1>5
<1>6. QED
  BY <1>4, <1>5 DEF CountPackets

\* A split cycle begins with a start-split, any other stage with a transfer.
LEMMA BeginCycleGood ==
  ASSUME NEW s \in GoodStages
  PROVE  /\ BeginCycle(s) \in GoodStages
         /\ SameRequest(s, BeginCycle(s))
         /\ BeginCycle(s).state \in {"NoSplitTransfer", "StartSplit"}
<1> DEFINE sched == StartSplit(s.sched)
<1>1. sched \in GoodSchedulers
  BY StartSplitGood DEF GoodStages
<1>2. \/ BeginCycle(s) = [s EXCEPT !.state = "StartSplit", !.splitComplete = FALSE,
                                  !.sched = sched]
      \/ BeginCycle(s) = [s EXCEPT !.state = "NoSplitTransfer"]
  BY DEF BeginCycle
<1> HIDE DEF sched
<1>3. QED
  BY <1>1, <1>2, ZenonT(40) DEF GoodStages, SameRequest, StageStates

\* StartChannel changes only what the stage waits for.
LEMMA ChannelStageGood ==
  ASSUME NEW s \in GoodStages, NEW frame \in Microframes
  PROVE  /\ ChannelStage(s, frame) \in GoodStages
         /\ SameRequest(s, ChannelStage(s, frame))
         /\ ChannelStage(s, frame).state = s.state
         /\ ChannelStage(s, frame).sub = "WaitForTransactionComplete"
<1> DEFINE sched == IF s.split /\ ~InQEMU THEN WaitForFrame(s.sched, frame) ELSE s.sched
<1>1. s.sched \in GoodSchedulers /\ frame \in 0 .. 7
  BY ConstantsAssumption DEF GoodStages
<1>2. sched \in GoodSchedulers
  BY <1>1, WaitForFrameGood
<1>3. ChannelStage(s, frame) = [s EXCEPT !.sub = "WaitForTransactionComplete", !.sched = sched]
  BY DEF ChannelStage
<1> HIDE DEF sched
<1>4. QED
  BY <1>2, <1>3 DEF GoodStages, SameRequest, SubStates

\* StartTransaction leaves the stage waiting for a channel interrupt.
LEMMA StartedStageGood ==
  ASSUME NEW s \in GoodStages, NEW h, NEW frame \in Microframes
  PROVE  /\ StartedStage(s, h, frame) \in GoodStages
         /\ SameRequest(s, StartedStage(s, h, frame))
         /\ StartedStage(s, h, frame).state = s.state
         /\ StartedStage(s, h, frame).sub # "None"
<1>1. CASE StartedStage(s, h, frame) = [s EXCEPT !.sub = "WaitForChannelDisable"]
  BY <1>1 DEF GoodStages, SameRequest, SubStates
<1>2. CASE StartedStage(s, h, frame) = ChannelStage(s, frame)
  BY <1>2, ChannelStageGood
<1>3. QED
  BY <1>1, <1>2 DEF StartedStage

\* StartTransaction programs the channel registers within their types.
LEMMA StartedChannelType ==
  ASSUME NEW s \in GoodStages, NEW h \in ChannelRegisters
  PROVE  StartedChannel(s, h) \in ChannelRegisters /\ ChannelStarted(s) \in ChannelRegisters
<1>1. StatusMask(s) \subseteq Bits /\ {"Halted"} \subseteq Bits
  BY DEF StatusMask, Bits
<1>2. TransactionKind(s) \in {"plain", "polled", "start", "complete"}
  BY DEF TransactionKind
<1>3. ChannelStarted(s) \in ChannelRegisters
  BY <1>1, <1>2 DEF ChannelStarted, ChannelRegisters
<1>4. [h EXCEPT !.run = "stopping", !.mask = {"Halted"}] \in ChannelRegisters
  BY <1>1 DEF ChannelRegisters
<1>5. QED
  BY <1>3, <1>4 DEF StartedChannel

-----------------------------------------------------------------------------
(***************************************************************************)
(* The inductive invariant.  The invariants of Dwhci lean on each other: a *)
(* channel is freed only by a handler whose stage is alive, which the      *)
(* pending set guarantees (InterruptsAreExpected); the handler's result    *)
(* finds its owner only if the owner is still waiting or streaming.        *)
(***************************************************************************)
Typed == TypeOK /\ stage \in [Channels -> GoodStages]

\* Only an input device's stage is polled, so the timer interval exists.
PollsHaveInterval ==
  \A c \in Channels : Live(c) /\ stage[c].periodic => stage[c].urb \in Periodic

\* What the thread knows in the middle of TransferStageAsync.
ThreadState ==
  /\ pc = "build" => channel \in channelAllocated /\ ~Live(channel)
  /\ pc = "start" =>
       /\ channel \in Channels
       /\ stage[channel].urb = job.urb
       /\ stage[channel].sub = "None" /\ stage[channel].state = "None"
  /\ pc \in {"allocate", "build"} => \A c \in Channels : stage[c].urb # job.urb
  /\ pc = "wait" \/ waiting => job.urb = Sync
  /\ pc \in {"allocate", "build", "start"} /\ job.urb \in Async =>
       job.urb \notin streaming /\ callback # job.urb

\* While a completion routine is due, its URB and a channel are free.
CallbackState ==
  /\ callback # NoUrb =>
       /\ cpu = "usb"
       /\ FreeChannels # {}
       /\ \A c \in Channels : stage[c].urb # callback
  /\ pending # {} => cpu = "usb"

InService(u) == callback = u \/ \E c \in Channels : stage[c].urb = u

OnlyStartedDevices ==
  \A u \in Async : InService(u) => u \in streaming \/ (pc = "start" /\ job.urb = u)

IInv ==
  /\ Typed
  /\ PollsHaveInterval
  /\ ThreadState
  /\ CallbackState
  /\ OnlyStartedDevices
  /\ ChannelOwnership
  /\ InterruptsAreExpected
  /\ TimerOwnership
  /\ WaitingMatchesRequest
  /\ StreamsNeverDie

-----------------------------------------------------------------------------
(***************************************************************************)
(* The effects the handlers share: the stage of a channel moves on, its    *)
(* endpoint is given a rest, or it ends.                                   *)
(***************************************************************************)
LEMMA StartTransactionEffect ==
  ASSUME Typed, NEW c \in Channels, NEW s \in GoodStages, StartTransaction(c, s)
  PROVE  \E t \in GoodStages, h \in ChannelRegisters :
           /\ stage' = [stage EXCEPT ![c] = t] /\ hw' = [hw EXCEPT ![c] = h]
           /\ SameRequest(s, t) /\ t.state = s.state /\ t.sub # "None"
<1>1. PICK frame \in Microframes : stage' = [stage EXCEPT ![c] = StartedStage(s, hw[c], frame)]
  BY DEF StartTransaction
<1>2. hw[c] \in ChannelRegisters
  BY DEF Typed, TypeOK
<1>3. hw' = [hw EXCEPT ![c] = StartedChannel(s, hw[c])]
  BY DEF StartTransaction
<1>4. QED
  BY <1>1, <1>2, <1>3, StartedStageGood, StartedChannelType

\* A step that moves a live stage on, its request unchanged, keeps the invariant.
LEMMA StageMoved ==
  ASSUME IInv, NEW c \in Channels, Live(c), stage[c].state # "None",
         NEW t \in GoodStages, NEW h \in ChannelRegisters,
         stage' = [stage EXCEPT ![c] = t], hw' = [hw EXCEPT ![c] = h],
         SameRequest(stage[c], t), t.sub # "None",
         t.state \in {"NoSplitTransfer", "StartSplit", "CompleteSplit"},
         pending' \subseteq pending, cpu' = cpu, cursor' \in 0 .. NTimers,
         timer' \in [Timers -> [channel : Channels \cup {NoChannel}, left : Int]],
         \A i \in Timers : timer'[i].channel # c /\ timer'[i].channel \in {timer[i].channel, NoChannel},
         UNCHANGED <<channelAllocated, waiting, urbStatus, allMask, callback, pc, job, channel,
                     streaming>>
  PROVE  IInv'
<1> USE DEF IInv, Live, Running, InService, SyncInService, FreeChannels
<1>1. \A d \in Channels : stage'[d] = IF d = c THEN t ELSE stage[d]
  BY DEF Typed
<1>2. \A d \in Channels : hw'[d] = IF d = c THEN h ELSE hw[d]
  BY DEF Typed, TypeOK
<1>3. \A d \in Channels : stage'[d].urb = stage[d].urb /\ (stage'[d].periodic <=> stage[d].periodic)
  BY <1>1 DEF SameRequest
<1>4. Typed'
  BY GoodStagesAreStages DEF Typed, TypeOK
<1>5. PollsHaveInterval'
  BY <1>3 DEF PollsHaveInterval
<1>6. ThreadState'
  <2>1. pc = "start" => channel # c
    BY DEF ThreadState
  <2>2. pc = "build" => channel \in Channels
    BY DEF ThreadState, Typed, TypeOK
  <2>3. QED
    BY <1>1, <1>3, <2>1, <2>2 DEF ThreadState
<1>7. CallbackState'
  BY <1>3 DEF CallbackState
<1>8. OnlyStartedDevices'
  BY <1>3 DEF OnlyStartedDevices
<1>9. ChannelOwnership'
  BY <1>3 DEF ChannelOwnership
<1>10. InterruptsAreExpected'
  BY <1>1, <1>2, <1>3 DEF InterruptsAreExpected
<1>11. TimerOwnership'
  BY <1>1, <1>3 DEF TimerOwnership, Typed, TypeOK
<1>12. WaitingMatchesRequest'
  BY <1>3 DEF WaitingMatchesRequest
<1>13. StreamsNeverDie'
  BY <1>3 DEF StreamsNeverDie
<1>14. QED
  BY <1>4, <1>5, <1>6, <1>7, <1>8, <1>9, <1>10, <1>11, <1>12, <1>13

\* A handler runs for a live stage that awaits it.
LEMMA HandledStage ==
  ASSUME IInv, NEW c \in Channels, Handling(c)
  PROVE  /\ Live(c) /\ Running(c) /\ stage[c].sub # "None"
         /\ stage[c] \in GoodStages
         /\ stage[c].state # "None" /\ stage[c].state # "PeriodicDelay"
         /\ \A i \in Timers : timer[i].channel # c
         /\ hw[c] \in ChannelRegisters /\ hw[c].int \in SUBSET Bits
         /\ pending' \subseteq pending /\ cpu' = cpu
<1> USE DEF IInv
<1>1. Live(c) /\ Running(c) /\ stage[c].sub # "None"
  BY DEF InterruptsAreExpected, Handling
<1>2. stage[c] \in GoodStages /\ hw[c] \in ChannelRegisters
  BY DEF Typed, TypeOK
<1>3. stage[c].state # "None" /\ stage[c].state # "PeriodicDelay"
  BY <1>1 DEF Running
<1>4. \A i \in Timers : timer[i].channel # c
  BY <1>3, ConstantsAssumption DEF TimerOwnership
<1>5. hw[c].int \in SUBSET Bits
  BY <1>2 DEF ChannelRegisters
<1>6. QED
  BY <1>1, <1>2, <1>3, <1>4, <1>5 DEF Handling

\* The same for a step of ChannelInterruptHandler.
LEMMA MovedByHandler ==
  ASSUME IInv, NEW c \in Channels, Handling(c), NEW t \in GoodStages, NEW h \in ChannelRegisters,
         stage' = [stage EXCEPT ![c] = t], hw' = [hw EXCEPT ![c] = h],
         SameRequest(stage[c], t), t.sub # "None",
         t.state \in {"NoSplitTransfer", "StartSplit", "CompleteSplit"},
         UsbUnchanged,
         UNCHANGED <<channelAllocated, allMask, waiting, urbStatus, timer, callback, streaming>>
  PROVE  IInv'
<1>1. cursor' \in 0 .. NTimers /\ timer' \in [Timers -> [channel : Channels \cup {NoChannel}, left : Int]]
  BY DEF IInv, Typed, TypeOK, UsbUnchanged
<1>2. UNCHANGED <<channelAllocated, waiting, urbStatus, allMask, callback, pc, job, channel, streaming>>
  BY DEF UsbUnchanged
<1>3. \A i \in Timers : timer'[i].channel # c /\ timer'[i].channel \in {timer[i].channel, NoChannel}
  BY HandledStage
<1>4. QED
  BY <1>1, <1>2, <1>3, HandledStage, StageMoved

\* The interrupt handler starts the next transaction of the stage.
LEMMA StageContinued ==
  ASSUME IInv, NEW c \in Channels, Handling(c), NEW s \in GoodStages, SameRequest(stage[c], s),
         s.state \in {"NoSplitTransfer", "StartSplit", "CompleteSplit"}, ContinueStage(c, s)
  PROVE  IInv'
<1>1. PICK t \in GoodStages, h \in ChannelRegisters :
        /\ stage' = [stage EXCEPT ![c] = t] /\ hw' = [hw EXCEPT ![c] = h]
        /\ SameRequest(s, t) /\ t.state = s.state /\ t.sub # "None"
  BY StartTransactionEffect DEF ContinueStage, IInv
<1>2. SameRequest(stage[c], t)
  BY <1>1 DEF SameRequest
<1>3. QED
  BY <1>1, <1>2, MovedByHandler DEF ContinueStage

\* The interrupt handler puts a periodic stage off: exactly one timer is armed for it.
LEMMA StageDelayed ==
  ASSUME IInv, NEW c \in Channels, Handling(c), NEW s \in GoodStages, SameRequest(stage[c], s),
         s.periodic, DelayStage(c, s)
  PROVE  IInv'
<1> USE DEF IInv, Live, Running, InService, SyncInService, FreeChannels
<1> DEFINE t == [s EXCEPT !.state = "PeriodicDelay"]
<1>1. t \in GoodStages /\ SameRequest(stage[c], t) /\ t.state = "PeriodicDelay"
  BY DEF GoodStages, SameRequest, StageStates
<1>2. stage' = [stage EXCEPT ![c] = t] /\ hw' = [hw EXCEPT ![c].mask = {}]
      /\ ArmTimer(c, Delay[s.urb]) /\ pending' = pending \ {c} /\ cpu' = cpu
      /\ UNCHANGED <<cursor, channelAllocated, waiting, urbStatus, allMask, callback, pc, job,
                     channel, streaming>>
  BY DEF DelayStage, UsbUnchanged, Handling
<1>3. Delay[s.urb] \in Int
  <2>1. stage[c].urb \in Periodic
    BY HandledStage DEF SameRequest, PollsHaveInterval
  <2>2. QED
    BY <2>1, ConstantsAssumption DEF SameRequest
<1> HIDE DEF t
<1>4. \A d \in Channels : stage'[d] = IF d = c THEN t ELSE stage[d]
  BY <1>2 DEF Typed
<1>5. \A d \in Channels : hw'[d] = IF d = c THEN [hw[c] EXCEPT !.mask = {}] ELSE hw[d]
  BY <1>2 DEF Typed, TypeOK
<1>6. [hw[c] EXCEPT !.mask = {}] \in ChannelRegisters /\ [hw[c] EXCEPT !.mask = {}].mask = {}
  BY HandledStage DEF ChannelRegisters
<1>7. \A d \in Channels : stage'[d].urb = stage[d].urb /\ (stage'[d].periodic <=> stage[d].periodic)
  BY <1>1, <1>4 DEF SameRequest
<1>8. /\ timer' \in [Timers -> [channel : Channels \cup {NoChannel}, left : Int]]
      /\ \A i, j \in Timers :
           /\ timer'[i].channel \in {timer[i].channel, c}
           /\ timer'[i].channel = c /\ timer'[j].channel = c => i = j
  <2>1. CASE timer' = timer
    BY <2>1, HandledStage DEF Typed, TypeOK
  <2>2. ASSUME NEW k \in FreeTimers,
               timer' = [timer EXCEPT ![k] = [channel |-> c, left |-> Delay[s.urb]]]
        PROVE  <1>8!1 /\ <1>8!2
    BY <1>3, <2>2, HandledStage DEF Typed, TypeOK, FreeTimers
  <2>3. QED
    BY <1>2, <2>1, <2>2 DEF ArmTimer
<1>9. Typed'
  <2>1. stage' \in [Channels -> GoodStages] /\ hw' \in [Channels -> ChannelRegisters]
    BY <1>1, <1>2, <1>6 DEF Typed, TypeOK
  <2>2. QED
    BY <1>2, <1>8, <2>1, GoodStagesAreStages DEF Typed, TypeOK
<1>10. PollsHaveInterval'
  BY <1>7 DEF PollsHaveInterval
<1>11. ThreadState'
  <2>1. pc = "start" => channel # c
    BY HandledStage DEF ThreadState
  <2>2. pc = "build" => channel \in Channels
    BY DEF ThreadState, Typed, TypeOK
  <2>3. QED
    BY <1>2, <1>4, <1>7, <2>1, <2>2 DEF ThreadState
<1>12. CallbackState'
  BY <1>2, <1>7 DEF CallbackState
<1>13. OnlyStartedDevices'
  BY <1>2, <1>7 DEF OnlyStartedDevices
<1>14. ChannelOwnership'
  BY <1>2, <1>7 DEF ChannelOwnership
<1>15. InterruptsAreExpected'
  <2>1. c \notin pending' /\ hw'[c].mask = {}
    BY <1>2, <1>5, <1>6
  <2>2. ASSUME NEW d \in Channels, d # c
        PROVE  stage'[d] = stage[d] /\ hw'[d] = hw[d] /\ (d \in pending' => d \in pending)
    BY <1>2, <1>4, <1>5, <2>2
  <2>3. QED
    BY <2>1, <2>2 DEF InterruptsAreExpected
<1>16. TimerOwnership'
  <2>1. \A i, j \in Timers : timer[i].channel # c
    BY HandledStage
  <2>2. stage'[c].state = "PeriodicDelay" /\ stage'[c].urb # NoUrb
    BY <1>1, <1>4, HandledStage DEF SameRequest
  <2>3. QED
    BY <1>4, <1>8, <2>1, <2>2, ConstantsAssumption DEF TimerOwnership
<1>17. WaitingMatchesRequest'
  BY <1>2, <1>7 DEF WaitingMatchesRequest
<1>18. StreamsNeverDie'
  BY <1>2, <1>7 DEF StreamsNeverDie
<1>19. QED
  BY <1>9, <1>10, <1>11, <1>12, <1>13, <1>14, <1>15, <1>16, <1>17, <1>18

\* The interrupt handler ends the stage: its channel and its request go together.
LEMMA StageFinished ==
  ASSUME IInv, NEW c \in Channels, Handling(c), NEW ok \in BOOLEAN, FinishStage(c, ok)
  PROVE  IInv'
<1> USE DEF IInv, Live, Running, InService, SyncInService, FreeChannels
<1> DEFINE u == stage[c].urb
<1>1. stage' = [stage EXCEPT ![c] = Destroyed(stage[c])] /\ hw' = [hw EXCEPT ![c].mask = {}]
      /\ urbStatus' = [urbStatus EXCEPT ![u] = ok] /\ allMask' = allMask \ {c}
      /\ channelAllocated' = channelAllocated \ {c} /\ callback' = u
      /\ pending' = pending \ {c} /\ cpu' = cpu
      /\ UNCHANGED <<cursor, waiting, timer, pc, job, channel, streaming>>
  BY DEF FinishStage, UsbUnchanged, Handling
<1>2. Destroyed(stage[c]) \in GoodStages /\ Destroyed(stage[c]).urb = NoUrb
  BY HandledStage, DestroyedGood
<1>3. u \in Urbs /\ u # NoUrb /\ callback = NoUrb /\ cpu = "usb"
  BY HandledStage DEF GoodStages, Handling
<1>4. \A d \in Channels : stage'[d] = IF d = c THEN Destroyed(stage[c]) ELSE stage[d]
  BY <1>1 DEF Typed
<1>5. \A d \in Channels : hw'[d] = IF d = c THEN [hw[c] EXCEPT !.mask = {}] ELSE hw[d]
  BY <1>1 DEF Typed, TypeOK
<1>6. [hw[c] EXCEPT !.mask = {}] \in ChannelRegisters /\ [hw[c] EXCEPT !.mask = {}].mask = {}
  BY HandledStage DEF ChannelRegisters
<1>7. \A d \in Channels : d # c => stage[d].urb # u
  BY <1>3 DEF ChannelOwnership
<1>8. pc \in {"build", "start"} => channel # c /\ channel \in Channels
  BY HandledStage DEF ThreadState, Typed, TypeOK
<1> HIDE DEF u
<1>9. Typed'
  <2>1. stage' \in [Channels -> GoodStages] /\ hw' \in [Channels -> ChannelRegisters]
    BY <1>1, <1>2, <1>6 DEF Typed, TypeOK
  <2>2. QED
    BY <1>1, <1>3, <2>1, GoodStagesAreStages DEF Typed, TypeOK
<1>10. PollsHaveInterval'
  BY <1>2, <1>4 DEF PollsHaveInterval
<1>11. ThreadState'
  <2>1. pc \in {"allocate", "build", "start"} => job.urb # u /\ job.urb # NoUrb
    BY <1>3, <1>7, <1>8, HandledStage, ConstantsAssumption DEF ThreadState, Typed, TypeOK, u
  <2>2. QED
    BY <1>1, <1>2, <1>4, <1>8, <2>1 DEF ThreadState
<1>12. CallbackState'
  <2>1. c \in FreeChannels'
    BY <1>1
  <2>2. QED
    BY <1>1, <1>2, <1>3, <1>4, <1>7, <2>1 DEF CallbackState
<1>13. \A v : v # NoUrb => (InService(v)' <=> InService(v))
  BY <1>1, <1>2, <1>3, <1>4, <1>7 DEF u
<1>14. Sync # NoUrb /\ \A v \in Async : v # NoUrb
  BY ConstantsAssumption DEF Urbs
<1>15. OnlyStartedDevices'
  BY <1>1, <1>13, <1>14 DEF OnlyStartedDevices
<1>16. ChannelOwnership'
  BY <1>1, <1>2, <1>4, <1>8 DEF ChannelOwnership
<1>17. InterruptsAreExpected'
  <2>1. c \notin pending' /\ hw'[c].mask = {}
    BY <1>1, <1>5, <1>6
  <2>2. ASSUME NEW d \in Channels, d # c
        PROVE  stage'[d] = stage[d] /\ hw'[d] = hw[d] /\ (d \in pending' => d \in pending)
    BY <1>1, <1>4, <1>5, <2>2
  <2>3. QED
    BY <2>1, <2>2 DEF InterruptsAreExpected
<1>18. TimerOwnership'
  <2>1. \A i \in Timers : timer'[i].channel # NoChannel =>
          timer'[i].channel \in Channels /\ timer'[i].channel # c
    BY <1>1, HandledStage DEF Typed, TypeOK
  <2>2. QED
    BY <1>1, <1>4, <2>1 DEF TimerOwnership
<1>19. WaitingMatchesRequest'
  <2>1. SyncInService' <=> SyncInService
    BY <1>13, <1>14
  <2>2. QED
    BY <1>1, <2>1 DEF WaitingMatchesRequest
<1>20. StreamsNeverDie'
  BY <1>1, <1>13, <1>14 DEF StreamsNeverDie, Typed, TypeOK
<1>21. QED
  BY <1>9, <1>10, <1>11, <1>12, <1>15, <1>16, <1>17, <1>18, <1>19, <1>20

-----------------------------------------------------------------------------
(***************************************************************************)
(* Every action preserves the invariant.                                   *)
(***************************************************************************)
LEMMA CompleteSplitScheduled ==
  ASSUME IInv, NEW c \in Channels, Handling(c), NEW t \in GoodStages, SameRequest(stage[c], t),
         t.state = "CompleteSplit", ScheduleCompleteSplit(c, t)
  PROVE  IInv'
<1> DEFINE sched == CompleteSplit(t.sched)
           next == [t EXCEPT !.sched = sched]
<1>1. sched \in GoodSchedulers
  BY CompleteSplitGood DEF GoodStages
<1> HIDE DEF sched
<1>2. next \in GoodStages /\ SameRequest(stage[c], next) /\ next.state = "CompleteSplit"
  BY <1>1 DEF GoodStages, SameRequest
<1>3. ContinueStage(c, next) \/ LeaveCompleteSplit(c, next)
  BY DEF ScheduleCompleteSplit, sched
<1> HIDE DEF next
<1>4. CASE ContinueStage(c, next)
  BY <1>2, <1>4, StageContinued
<1>5. CASE FinishStage(c, TRUE)
  BY <1>5, StageFinished
<1>6. CASE ContinueStage(c, BeginCycle(next))
  <2>1. BeginCycle(next) \in GoodStages /\ SameRequest(stage[c], BeginCycle(next))
        /\ BeginCycle(next).state \in {"NoSplitTransfer", "StartSplit", "CompleteSplit"}
    BY <1>2, BeginCycleGood DEF SameRequest
  <2>2. QED
    BY <1>6, <2>1, StageContinued
<1>7. CASE next.periodic /\ DelayStage(c, next)
  BY <1>2, <1>7, StageDelayed
<1>8. QED
  BY <1>3, <1>4, <1>5, <1>6, <1>7 DEF LeaveCompleteSplit

\* Every way through DWHCIDeviceChannelInterruptHandler keeps the invariant.
LEMMA ChannelInterruptStep ==
  ASSUME IInv, NEW c \in Channels, ChannelInterruptHandler(c)
  PROVE  IInv'
<1>1. CASE ChannelDisabled(c)
  <2>1. Handling(c)
    BY <1>1 DEF ChannelDisabled
  <2>2. PICK frame \in Microframes : stage' = [stage EXCEPT ![c] = ChannelStage(stage[c], frame)]
    BY <1>1 DEF ChannelDisabled
  <2>3. ChannelStage(stage[c], frame) \in GoodStages
        /\ SameRequest(stage[c], ChannelStage(stage[c], frame))
        /\ ChannelStage(stage[c], frame).sub # "None"
        /\ ChannelStage(stage[c], frame).state \in {"NoSplitTransfer", "StartSplit", "CompleteSplit"}
    BY <2>1, HandledStage, ChannelStageGood DEF Running
  <2>4. ChannelStarted(stage[c]) \in ChannelRegisters
    BY <2>1, HandledStage, StartedChannelType
  <2>5. QED
    BY <1>1, <2>1, <2>2, <2>3, <2>4, MovedByHandler DEF ChannelDisabled
<1>2. CASE RestartHalted(c)
  <2>1. Handling(c) /\ ContinueStage(c, stage[c])
    BY <1>2 DEF RestartHalted, ContinueStage
  <2>2. QED
    BY <2>1, HandledStage, StageContinued DEF Running, SameRequest
<1>3. CASE NoSplitComplete(c)
  <2>1. Handling(c) /\ SameRequest(stage[c], stage[c])
    BY <1>3 DEF NoSplitComplete, Completed, SameRequest
  <2>2. \/ FinishStage(c, FALSE) \/ FinishStage(c, TRUE)
        \/ stage[c].periodic /\ DelayStage(c, stage[c])
    BY <1>3 DEF NoSplitComplete
  <2>3. QED
    BY <2>1, <2>2, HandledStage, StageFinished, StageDelayed
<1>4. CASE StartSplitComplete(c)
  <2> DEFINE sched == TransactionComplete(stage[c].sched, Status(c))
             t == [stage[c] EXCEPT !.sched = sched, !.state = "CompleteSplit", !.splitComplete = TRUE]
  <2>1. Handling(c)
    BY <1>4 DEF StartSplitComplete, Completed
  <2>2. FinishStage(c, FALSE) \/ ScheduleCompleteSplit(c, t)
    BY <1>4 DEF StartSplitComplete
  <2>3. stage[c] \in GoodStages /\ sched \in GoodSchedulers
    BY <2>1, HandledStage, TransactionCompleteGood DEF GoodStages, Status
  <2> HIDE DEF sched
  <2>4. t \in GoodStages /\ SameRequest(stage[c], t) /\ t.state = "CompleteSplit"
    BY <2>3 DEF GoodStages, SameRequest, StageStates
  <2>5. QED
    BY <2>1, <2>2, <2>4, StageFinished, CompleteSplitScheduled
<1>5. CASE CompleteSplitComplete(c)
  <2> DEFINE s == CountPackets(stage[c], Status(c))
             sched == TransactionComplete(s.sched, Status(c))
             t == [s EXCEPT !.sched = sched]
  <2>1. Handling(c) /\ stage[c].state = "CompleteSplit"
    BY <1>5 DEF CompleteSplitComplete, Completed
  <2>2. FinishStage(c, FALSE) \/ ScheduleCompleteSplit(c, t)
    BY <1>5 DEF CompleteSplitComplete
  <2>3. s \in GoodStages /\ SameRequest(stage[c], s) /\ s.state = "CompleteSplit"
    BY <2>1, HandledStage, CountPacketsGood
  <2> HIDE DEF s
  <2>4. sched \in GoodSchedulers
    BY <2>1, <2>3, HandledStage, TransactionCompleteGood DEF GoodStages, Status
  <2> HIDE DEF sched
  <2>5. t \in GoodStages /\ SameRequest(stage[c], t) /\ t.state = "CompleteSplit"
    BY <2>3, <2>4 DEF GoodStages, SameRequest
  <2>6. QED
    BY <2>1, <2>2, <2>5, StageFinished, CompleteSplitScheduled
<1>6. QED
  BY <1>1, <1>2, <1>3, <1>4, <1>5 DEF ChannelInterruptHandler

\* The search of AllocateChannel finds a channel when one is free.
LEMMA FirstFreeIsFree ==
  ASSUME FreeChannels # {}
  PROVE  FirstFree \in FreeChannels
<1>1. FreeChannels \subseteq Nat
  BY ConstantsAssumption DEF FreeChannels, Channels
<1>2. PICK R : R = OpToRel(<, Nat)
  OBVIOUS
<1>3. IsWellFoundedOn(R, Nat)
  BY <1>2, NatLessThanWellFounded
<1>4. \A c, d \in Nat : d < c => <<d, c>> \in R
  BY <1>2 DEF OpToRel
<1>5. PICK c \in FreeChannels : \A d \in FreeChannels : ~ (<<d, c>> \in R)
  BY <1>1, <1>3, WFMin
<1>6. \A d \in FreeChannels : ~(d < c)
  BY <1>1, <1>4, <1>5
<1>7. \A d \in FreeChannels : c <= d
  BY <1>1, <1>6
<1>8. QED
  BY <1>7 DEF FirstFree

\* The thread submits requests, starts their stages and waits for one.
LEMMA ThreadStepPreserves ==
  ASSUME IInv, ThreadNext
  PROVE  IInv'
<1> USE DEF IInv, Live, Running, InService, SyncInService, FreeChannels, ThreadRuns
<1>0. callback = NoUrb /\ pending = {} /\ Sync # NoUrb /\ NoUrb \notin Async /\ Sync \notin Async
  <2>1. cpu = "thread"
    BY DEF ThreadNext, SubmitBlockingRequest, SubmitAsyncRequest, AllocateChannel, BuildStage,
           StartStage, FinishWait
  <2>2. QED
    BY <2>1, ConstantsAssumption DEF CallbackState, Urbs
<1>1. CASE SubmitBlockingRequest
  <2> USE <1>1 DEF SubmitBlockingRequest, ThreadUnchanged, stageVars
  <2>1. job'.urb = Sync /\ job' \in [urb : Urbs, split : BOOLEAN, left : 1 .. 3]
    BY DEF Urbs
  <2>2. \A c \in Channels : stage[c].urb # Sync
    BY DEF WaitingMatchesRequest
  <2>3. Typed'
    BY <2>1 DEF Typed, TypeOK
  <2>4. ThreadState'
    BY <1>0, <2>1, <2>2 DEF ThreadState
  <2>5. WaitingMatchesRequest'
    BY <1>0, <2>1, <2>2 DEF WaitingMatchesRequest
  <2>6. OnlyStartedDevices'
    BY <1>0 DEF OnlyStartedDevices
  <2>7. PollsHaveInterval' /\ CallbackState' /\ ChannelOwnership' /\ TimerOwnership' /\ StreamsNeverDie'
    BY DEF PollsHaveInterval, CallbackState, ChannelOwnership, TimerOwnership, StreamsNeverDie
  <2>8. InterruptsAreExpected'
    BY DEF InterruptsAreExpected
  <2>9. QED
    BY <2>3, <2>4, <2>5, <2>6, <2>7, <2>8
<1>2. CASE \E u \in Async : SubmitAsyncRequest(u)
  <2> PICK u \in Async : SubmitAsyncRequest(u)
    BY <1>2
  <2> USE DEF SubmitAsyncRequest, ThreadUnchanged, stageVars
  <2>1. job'.urb = u /\ job' \in [urb : Urbs, split : BOOLEAN, left : 1 .. 3]
    BY DEF Urbs
  <2>2. \A c \in Channels : stage[c].urb # u
    BY DEF OnlyStartedDevices
  <2>3. Typed'
    BY <2>1 DEF Typed, TypeOK
  <2>4. ThreadState'
    BY <1>0, <2>1, <2>2 DEF ThreadState, WaitingMatchesRequest
  <2>5. WaitingMatchesRequest'
    BY <1>0, <2>1, <2>2 DEF WaitingMatchesRequest
  <2>6. OnlyStartedDevices'
    BY <1>0 DEF OnlyStartedDevices
  <2>7. PollsHaveInterval' /\ CallbackState' /\ ChannelOwnership' /\ TimerOwnership' /\ StreamsNeverDie'
    BY DEF PollsHaveInterval, CallbackState, ChannelOwnership, TimerOwnership, StreamsNeverDie
  <2>8. InterruptsAreExpected'
    BY DEF InterruptsAreExpected
  <2>9. QED
    BY <2>3, <2>4, <2>5, <2>6, <2>7, <2>8
<1>3. CASE AllocateChannel
  <2> USE <1>3 DEF AllocateChannel, ThreadUnchanged
  <2>1. CASE FreeChannels # {} /\ channel' = FirstFree /\ pc' = "build"
             /\ channelAllocated' = channelAllocated \cup {FirstFree} /\ UNCHANGED <<waiting, job>>
    <3> USE <2>1
    <3>1. channel' \in Channels /\ channel' \notin channelAllocated
      BY FirstFreeIsFree
    <3>2. ~Live(channel')
      BY <3>1 DEF ChannelOwnership
    <3>3. Typed'
      BY <3>1 DEF Typed, TypeOK
    <3>4. ThreadState'
      BY <1>0, <3>1, <3>2 DEF ThreadState
    <3>5. CallbackState'
      BY <1>0 DEF CallbackState
    <3>6. ChannelOwnership'
      BY <3>1 DEF ChannelOwnership
    <3>7. WaitingMatchesRequest'
      BY <1>0 DEF WaitingMatchesRequest
    <3>8. PollsHaveInterval' /\ OnlyStartedDevices' /\ TimerOwnership' /\ StreamsNeverDie'
      BY <1>0 DEF PollsHaveInterval, OnlyStartedDevices, TimerOwnership, StreamsNeverDie
    <3>9. InterruptsAreExpected'
      BY DEF InterruptsAreExpected
    <3>10. QED
      BY <3>3, <3>4, <3>5, <3>6, <3>7, <3>8, <3>9
  <2>2. CASE FreeChannels = {} /\ pc' = "idle" /\ job' = NoJob
             /\ waiting' = (IF job.urb = Sync THEN FALSE ELSE waiting)
             /\ UNCHANGED <<channel, channelAllocated>>
    <3> USE <2>2
    <3>1. NoJob \in [urb : Urbs, split : BOOLEAN, left : 1 .. 3] /\ NoJob.urb = Sync
      BY DEF NoJob, Urbs
    <3>2. Typed'
      BY <3>1 DEF Typed, TypeOK
    <3>3. ThreadState' /\ CallbackState' /\ ChannelOwnership'
      BY <1>0 DEF ThreadState, CallbackState, ChannelOwnership
    <3>4. WaitingMatchesRequest'
      <4>1. ~SyncInService /\ ~waiting'
        BY <1>0 DEF ThreadState, WaitingMatchesRequest
      <4>2. QED
        BY <4>1 DEF WaitingMatchesRequest
    <3>5. PollsHaveInterval' /\ OnlyStartedDevices' /\ TimerOwnership' /\ StreamsNeverDie'
      BY <1>0 DEF PollsHaveInterval, OnlyStartedDevices, TimerOwnership, StreamsNeverDie
    <3>6. InterruptsAreExpected'
      BY DEF InterruptsAreExpected
    <3>7. QED
      BY <3>2, <3>3, <3>4, <3>5, <3>6
  <2>3. QED
    BY <2>1, <2>2
<1>4. CASE BuildStage
  <2> USE <1>4 DEF BuildStage, ThreadUnchanged
  <2>1. PICK packets \in 1 .. MaxPackets :
          stage' = [stage EXCEPT ![channel] = NewStage(job.urb, job.split, packets)]
    OBVIOUS
  <2> DEFINE t == NewStage(job.urb, job.split, packets)
  <2>2. channel \in Channels /\ channel \in channelAllocated /\ ~Live(channel)
    BY DEF ThreadState, Typed, TypeOK
  <2>3. job.urb \in Urbs /\ job.split \in BOOLEAN /\ job.urb # NoUrb /\ packets \in 0 .. MaxPackets
    BY ConstantsAssumption DEF Typed, TypeOK, Urbs
  <2>4. t \in GoodStages /\ t.urb = job.urb /\ (t.periodic <=> job.urb \in Periodic)
        /\ t.sub = "None" /\ t.state = "None"
    BY <2>3, NewStageGood
  <2>5. \A c \in Channels : stage'[c] = IF c = channel THEN t ELSE stage[c]
    BY <2>1 DEF Typed
  <2> HIDE DEF t
  <2>6. \A c \in Channels : stage[c].urb # job.urb
    BY DEF ThreadState
  <2>7. Typed'
    <3>1. stage' \in [Channels -> GoodStages]
      BY <2>1, <2>4 DEF Typed, t
    <3>2. QED
      BY <2>2, <3>1, GoodStagesAreStages DEF Typed, TypeOK
  <2>8. PollsHaveInterval'
    BY <2>4, <2>5 DEF PollsHaveInterval
  <2>9. ThreadState'
    BY <2>2, <2>4, <2>5 DEF ThreadState
  <2>10. CallbackState'
    BY <1>0 DEF CallbackState
  <2>11. OnlyStartedDevices'
    BY <1>0, <2>4, <2>5 DEF OnlyStartedDevices
  <2>12. ChannelOwnership'
    BY <2>2, <2>3, <2>4, <2>5, <2>6 DEF ChannelOwnership
  <2>13. InterruptsAreExpected'
    <3>1. channel \notin pending /\ hw[channel].mask = {}
      BY <2>2 DEF InterruptsAreExpected
    <3>2. QED
      BY <2>5, <3>1 DEF InterruptsAreExpected
  <2>14. TimerOwnership'
    BY <2>2, <2>5 DEF TimerOwnership, Typed, TypeOK
  <2>15. WaitingMatchesRequest'
    <3>1. SyncInService' <=> job.urb = Sync
      BY <1>0, <2>2, <2>4, <2>5 DEF WaitingMatchesRequest
    <3>2. QED
      BY <3>1 DEF WaitingMatchesRequest
  <2>16. StreamsNeverDie'
    <3>1. \A u \in streaming : u # NoUrb
      BY <1>0 DEF Typed, TypeOK
    <3>2. QED
      BY <1>0, <2>2, <2>5, <3>1 DEF StreamsNeverDie
  <2>17. QED
    BY <2>7, <2>8, <2>9, <2>10, <2>11, <2>12, <2>13, <2>14, <2>15, <2>16
<1>5. CASE StartStage
  <2> USE <1>5 DEF StartStage, ThreadUnchanged
  <2>1. channel \in Channels /\ stage[channel].urb = job.urb /\ stage[channel].state = "None"
        /\ stage[channel] \in GoodStages /\ job.urb # NoUrb
    BY ConstantsAssumption DEF ThreadState, Typed, TypeOK, Urbs
  <2>2. BeginCycle(stage[channel]) \in GoodStages
        /\ SameRequest(stage[channel], BeginCycle(stage[channel]))
        /\ BeginCycle(stage[channel]).state \in {"NoSplitTransfer", "StartSplit"}
    BY <2>1, BeginCycleGood
  <2>3. PICK t \in GoodStages, h \in ChannelRegisters :
          /\ stage' = [stage EXCEPT ![channel] = t] /\ hw' = [hw EXCEPT ![channel] = h]
          /\ SameRequest(BeginCycle(stage[channel]), t)
          /\ t.state = BeginCycle(stage[channel]).state /\ t.sub # "None"
    BY <2>1, <2>2, StartTransactionEffect
  <2>4. t.urb = job.urb /\ t.periodic = stage[channel].periodic
        /\ t.state \in {"NoSplitTransfer", "StartSplit"} /\ t.sub # "None"
    BY <2>1, <2>2, <2>3 DEF SameRequest
  <2>5. /\ \A c \in Channels : stage'[c] = IF c = channel THEN t ELSE stage[c]
        /\ \A c \in Channels : hw'[c] = IF c = channel THEN h ELSE hw[c]
    BY <2>3 DEF Typed, TypeOK
  <2>6. \A c \in Channels : stage'[c].urb = stage[c].urb /\ (stage'[c].periodic <=> stage[c].periodic)
    BY <2>1, <2>4, <2>5
  <2>7. job'.urb = Sync \/ pc' = "idle"
    OBVIOUS
  <2>8. job' \in [urb : Urbs, split : BOOLEAN, left : 1 .. 3] /\ channel' \in Channels \cup {NoChannel}
        /\ pc' \in {"idle", "wait"} /\ streaming' \subseteq Async
    <3>1. NoJob \in [urb : Urbs, split : BOOLEAN, left : 1 .. 3]
      BY DEF NoJob, Urbs
    <3>2. job.urb # Sync => job.urb \in Async
      BY DEF Typed, TypeOK, Urbs
    <3>3. job' = job \/ job' = NoJob
      OBVIOUS
    <3>4. QED
      BY <3>1, <3>2, <3>3 DEF Typed, TypeOK
  <2>9. Typed'
    <3>1. stage' \in [Channels -> GoodStages] /\ hw' \in [Channels -> ChannelRegisters]
      BY <2>3 DEF Typed, TypeOK
    <3>2. QED
      BY <2>8, <3>1, GoodStagesAreStages DEF Typed, TypeOK
  <2>10. PollsHaveInterval'
    BY <2>6 DEF PollsHaveInterval
  <2>11. ThreadState'
    BY <2>8 DEF ThreadState, NoJob
  <2>12. CallbackState'
    BY <1>0 DEF CallbackState
  <2>13. OnlyStartedDevices'
    BY <1>0, <2>6 DEF OnlyStartedDevices
  <2>14. ChannelOwnership'
    BY <2>6, <2>8 DEF ChannelOwnership, Typed, TypeOK
  <2>15. InterruptsAreExpected'
    BY <2>1, <2>4, <2>5 DEF InterruptsAreExpected
  <2>16. TimerOwnership'
    BY <2>1, <2>5, ConstantsAssumption DEF TimerOwnership, Typed, TypeOK
  <2>17. WaitingMatchesRequest'
    BY <2>6, <2>8, <1>0, <2>1 DEF WaitingMatchesRequest, ThreadState
  <2>18. StreamsNeverDie'
    BY <1>0, <2>1, <2>6 DEF StreamsNeverDie
  <2>19. QED
    BY <2>9, <2>10, <2>11, <2>12, <2>13, <2>14, <2>15, <2>16, <2>17, <2>18
<1>6. CASE FinishWait
  <2> USE <1>6 DEF FinishWait, ThreadUnchanged, stageVars
  <2>1. job' \in [urb : Urbs, split : BOOLEAN, left : 1 .. 3] /\ job'.urb = Sync
        /\ pc' \in {"idle", "allocate"}
    <3>1. NoJob \in [urb : Urbs, split : BOOLEAN, left : 1 .. 3] /\ NoJob.urb = Sync
      BY DEF NoJob, Urbs
    <3>2. job \in [urb : Urbs, split : BOOLEAN, left : 1 .. 3] /\ job.urb = Sync
      BY DEF Typed, TypeOK, ThreadState
    <3>3. job.left > 1 => job.left - 1 \in 1 .. 3
      BY <3>2
    <3>4. CASE job.left > 1 /\ job' = [job EXCEPT !.left = @ - 1] /\ pc' = "allocate"
      BY <3>2, <3>3, <3>4
    <3>5. CASE job' = NoJob /\ pc' = "idle"
      BY <3>1, <3>5
    <3>6. QED
      BY <3>4, <3>5
  <2>2. ~SyncInService
    BY DEF WaitingMatchesRequest
  <2>3. Typed'
    BY <2>1 DEF Typed, TypeOK
  <2>4. ThreadState'
    BY <1>0, <2>1, <2>2 DEF ThreadState
  <2>5. WaitingMatchesRequest'
    BY <2>1, <2>2 DEF WaitingMatchesRequest
  <2>6. OnlyStartedDevices'
    BY <1>0 DEF OnlyStartedDevices
  <2>7. PollsHaveInterval' /\ CallbackState' /\ ChannelOwnership' /\ TimerOwnership' /\ StreamsNeverDie'
    BY DEF PollsHaveInterval, CallbackState, ChannelOwnership, TimerOwnership, StreamsNeverDie
  <2>8. InterruptsAreExpected'
    BY DEF InterruptsAreExpected
  <2>9. QED
    BY <2>3, <2>4, <2>5, <2>6, <2>7, <2>8
<1>7. QED
  BY <1>1, <1>2, <1>3, <1>4, <1>5, <1>6 DEF ThreadNext

\* The USB interrupt is taken, and its snapshot of HAINT is worked off.
LEMMA UsbInterruptPreserves ==
  ASSUME IInv, InterruptHandler \/ InterruptReturn
  PROVE  IInv'
<1> USE DEF IInv, Live, Running, InService, SyncInService, FreeChannels, UsbUnchanged, stageVars
<1>1. /\ UNCHANGED <<channelAllocated, stage, hw, allMask, waiting, urbStatus, timer, callback,
                     streaming, cursor, pc, job, channel>>
      /\ cpu' \in {"thread", "usb"} /\ pending' \subseteq Channels
      /\ callback # NoUrb \/ pending' # {} => cpu' = "usb"
      /\ \A c \in pending' : hw[c].mask # {}
  BY DEF InterruptHandler, InterruptReturn, ThreadRuns, CallbackState, Raised
<1>2. Typed'
  BY <1>1 DEF Typed, TypeOK
<1>3. CallbackState'
  BY <1>1 DEF CallbackState
<1>4. InterruptsAreExpected'
  BY <1>1 DEF InterruptsAreExpected
<1>5. ThreadState' /\ WaitingMatchesRequest' /\ PollsHaveInterval' /\ OnlyStartedDevices'
  BY <1>1 DEF ThreadState, WaitingMatchesRequest, PollsHaveInterval, OnlyStartedDevices
<1>6. ChannelOwnership' /\ TimerOwnership' /\ StreamsNeverDie'
  BY <1>1 DEF ChannelOwnership, TimerOwnership, StreamsNeverDie
<1>7. QED
  BY <1>2, <1>3, <1>4, <1>5, <1>6

\* The completion routine of a blocking request, which ends its wait.
LEMMA CompletionPreserves ==
  ASSUME IInv, CompletionRoutine
  PROVE  IInv'
<1> USE DEF IInv, Live, Running, InService, SyncInService, FreeChannels, UsbUnchanged, stageVars,
            CompletionRoutine
<1>1. Sync # NoUrb /\ Sync \notin Async /\ \A c \in Channels : stage[c].urb # Sync
  BY ConstantsAssumption DEF CallbackState, Urbs
<1>2. pc \in {"start", "wait"} /\ job.urb = Sync
  BY DEF WaitingMatchesRequest
<1>3. pc = "wait"
  BY <1>1, <1>2 DEF ThreadState
<1>4. Typed'
  BY DEF Typed, TypeOK
<1>5. CallbackState'
  BY DEF CallbackState
<1>6. ThreadState'
  BY <1>3 DEF ThreadState
<1>7. OnlyStartedDevices'
  BY <1>1, <1>3, ConstantsAssumption DEF OnlyStartedDevices, Urbs
<1>8. WaitingMatchesRequest'
  BY <1>1, <1>3 DEF WaitingMatchesRequest
<1>9. StreamsNeverDie'
  BY <1>1 DEF StreamsNeverDie, Typed, TypeOK
<1>10. PollsHaveInterval' /\ ChannelOwnership' /\ TimerOwnership' /\ InterruptsAreExpected'
  BY <1>3 DEF PollsHaveInterval, ChannelOwnership, TimerOwnership, InterruptsAreExpected
<1>11. QED
  BY <1>4, <1>5, <1>6, <1>7, <1>8, <1>9, <1>10

\* A resubmission finds a channel: the one its own stage was on, at least.
LEMMA ResubmitPreserves ==
  ASSUME IInv, NEW u \in Async, Resubmit(u)
  PROVE  IInv'
<1> USE DEF IInv, Live, Running, InService, SyncInService, UsbUnchanged
<1>1. u # NoUrb /\ u # Sync /\ u \in Urbs /\ callback = u /\ callback' = NoUrb
      /\ Sync # NoUrb /\ NoUrb \notin Async
  BY ConstantsAssumption DEF Resubmit, Urbs
<1>2. FreeChannels # {} /\ cpu = "usb" /\ \A c \in Channels : stage[c].urb # u
  BY <1>1 DEF CallbackState
<1>3. PICK c : c = FirstFree
  OBVIOUS
<1>4. c \in Channels /\ c \notin channelAllocated
  BY <1>2, <1>3, FirstFreeIsFree DEF FreeChannels
<1>5. ~Live(c) /\ c \notin pending
  BY <1>4 DEF ChannelOwnership, InterruptsAreExpected
<1>6. \A i \in Timers : timer[i].channel # c
  BY <1>4, <1>5, ConstantsAssumption DEF TimerOwnership
<1>7. PICK packets \in 1 .. MaxPackets :
        StartTransaction(c, BeginCycle(NewStage(u, u \in Split, packets)))
  BY <1>2, <1>3 DEF Resubmit
<1>8. PICK split \in BOOLEAN : split = (u \in Split)
  <2>1. CASE u \in Split
    <3>1. (u \in Split) = TRUE
      BY <2>1
    <3>2. QED
      BY <3>1
  <2>2. CASE u \notin Split
    <3>1. (u \in Split) = FALSE
      BY <2>2
    <3>2. QED
      BY <3>1
  <2>3. QED
    BY <2>1, <2>2
<1> DEFINE n == NewStage(u, split, packets)
<1>9. n \in GoodStages /\ n.urb = u /\ (n.periodic <=> u \in Periodic)
  <2>1. packets \in 0 .. MaxPackets
    BY ConstantsAssumption
  <2>2. QED
    BY <1>1, <2>1, NewStageGood
<1>10. StartTransaction(c, BeginCycle(n))
  BY <1>7, <1>8, Zenon
<1> HIDE DEF n
<1>11. PICK t \in GoodStages, h \in ChannelRegisters :
         /\ stage' = [stage EXCEPT ![c] = t] /\ hw' = [hw EXCEPT ![c] = h]
         /\ SameRequest(BeginCycle(n), t) /\ t.state = BeginCycle(n).state /\ t.sub # "None"
  BY <1>4, <1>9, <1>10, BeginCycleGood, StartTransactionEffect
<1>12. t.urb = u /\ (t.periodic <=> u \in Periodic) /\ t.state \in {"NoSplitTransfer", "StartSplit"}
       /\ t.sub # "None"
  BY <1>9, <1>11, BeginCycleGood DEF SameRequest
<1>13. /\ \A d \in Channels : stage'[d] = IF d = c THEN t ELSE stage[d]
       /\ \A d \in Channels : hw'[d] = IF d = c THEN h ELSE hw[d]
  BY <1>11 DEF Typed, TypeOK
<1>14. /\ channelAllocated' = channelAllocated \cup {c} /\ allMask' = allMask \cup {c}
       /\ urbStatus' = [urbStatus EXCEPT ![u] = FALSE]
       /\ UNCHANGED <<waiting, timer, cpu, pending, streaming, cursor, pc, job, channel>>
  BY <1>2, <1>3 DEF Resubmit
<1>15. Typed'
  <2>1. stage' \in [Channels -> GoodStages] /\ hw' \in [Channels -> ChannelRegisters]
    BY <1>11 DEF Typed, TypeOK
  <2>2. QED
    BY <1>1, <1>4, <1>14, <2>1, GoodStagesAreStages DEF Typed, TypeOK
<1>16. \A v : v # NoUrb => (InService(v)' <=> InService(v))
  BY <1>1, <1>2, <1>4, <1>5, <1>12, <1>13
<1>17. PollsHaveInterval'
  BY <1>12, <1>13 DEF PollsHaveInterval
<1>18. ThreadState'
  <2>1. pc \in {"build", "start"} => channel # c /\ channel \in Channels
    BY <1>4, <1>5, ConstantsAssumption DEF ThreadState, Typed, TypeOK, Urbs
  <2>2. pc \in {"allocate", "build"} => job.urb # u
    BY <1>1 DEF ThreadState
  <2>3. job.urb \in Async => job.urb # NoUrb
    BY <1>1
  <2>4. QED
    BY <1>1, <1>12, <1>13, <1>14, <2>1, <2>2, <2>3 DEF ThreadState
<1>19. CallbackState'
  BY <1>1, <1>2, <1>14 DEF CallbackState
<1>20. OnlyStartedDevices'
  BY <1>1, <1>14, <1>16 DEF OnlyStartedDevices
<1>21. ChannelOwnership'
  BY <1>2, <1>4, <1>12, <1>13, <1>14, <1>1 DEF ChannelOwnership, Typed, TypeOK
<1>22. InterruptsAreExpected'
  BY <1>1, <1>5, <1>12, <1>13, <1>14 DEF InterruptsAreExpected
<1>23. TimerOwnership'
  BY <1>6, <1>13, <1>14 DEF TimerOwnership, Typed, TypeOK
<1>24. WaitingMatchesRequest'
  <2>1. SyncInService' <=> SyncInService
    BY <1>1, <1>16
  <2>2. QED
    BY <1>14, <2>1 DEF WaitingMatchesRequest
<1>25. StreamsNeverDie'
  BY <1>1, <1>14, <1>16 DEF StreamsNeverDie, Typed, TypeOK
<1>26. QED
  BY <1>15, <1>17, <1>18, <1>19, <1>20, <1>21, <1>22, <1>23, <1>24, <1>25

\* A timer counts down or fires, and the delayed stage goes on.
LEMMA TimerPreserves ==
  ASSUME IInv, HandleTimerInterrupt \/ TimerNext
  PROVE  IInv'
<1>1. CASE HandleTimerInterrupt \/ TimerReturn
  <2> USE DEF IInv, Live, Running, InService, SyncInService, FreeChannels
  <2>1. /\ UNCHANGED <<channelAllocated, stage, hw, allMask, waiting, urbStatus, pending, callback,
                       streaming, pc, job, channel>>
        /\ cpu' \in {"thread", "timer"} /\ cpu # "usb" /\ cursor' = 0
    BY <1>1 DEF HandleTimerInterrupt, TimerReturn, TimerUnchanged, ThreadRuns
  <2>2. callback = NoUrb /\ pending = {}
    BY <2>1 DEF CallbackState
  <2>3. /\ timer' \in [Timers -> [channel : Channels \cup {NoChannel}, left : Int]]
        /\ \A i \in Timers : timer'[i].channel = timer[i].channel
    <3>1. CASE timer' = timer
      BY <3>1 DEF Typed, TypeOK
    <3>2. CASE timer' = [i \in Timers |-> IF timer[i].channel = NoChannel THEN timer[i]
                                          ELSE [timer[i] EXCEPT !.left = @ - 1]]
      BY <3>2 DEF Typed, TypeOK
    <3>3. QED
      BY <1>1, <3>1, <3>2 DEF HandleTimerInterrupt, TimerReturn
  <2>4. Typed'
    BY <2>1, <2>3, ConstantsAssumption DEF Typed, TypeOK
  <2>5. CallbackState' /\ InterruptsAreExpected'
    BY <2>1, <2>2 DEF CallbackState, InterruptsAreExpected
  <2>6. ThreadState' /\ WaitingMatchesRequest' /\ PollsHaveInterval' /\ OnlyStartedDevices'
    BY <2>1 DEF ThreadState, WaitingMatchesRequest, PollsHaveInterval, OnlyStartedDevices
  <2>7. ChannelOwnership' /\ TimerOwnership' /\ StreamsNeverDie'
    BY <2>1, <2>3 DEF ChannelOwnership, TimerOwnership, StreamsNeverDie
  <2>8. QED
    BY <2>4, <2>5, <2>6, <2>7
<1>2. ASSUME NEW i \in Timers, FireTimer(i)
      PROVE  IInv'
  <2> DEFINE c == timer[i].channel
  <2>1. c \in Channels /\ Live(c) /\ stage[c].state = "PeriodicDelay"
        /\ \A j \in Timers : timer[j].channel = c => i = j
    BY <1>2 DEF FireTimer, Due, IInv, TimerOwnership, Typed, TypeOK
  <2>2. stage[c] \in GoodStages /\ StartTransaction(c, BeginCycle(stage[c]))
        /\ c # NoChannel
    BY <1>2, <2>1, ConstantsAssumption DEF FireTimer, IInv, Typed
  <2>3. BeginCycle(stage[c]) \in GoodStages /\ SameRequest(stage[c], BeginCycle(stage[c]))
        /\ BeginCycle(stage[c]).state \in {"NoSplitTransfer", "StartSplit"}
    BY <2>2, BeginCycleGood
  <2>4. /\ timer' = [timer EXCEPT ![i] = [channel |-> NoChannel, left |-> 0]]
        /\ cursor' = i + 1 /\ cpu' = cpu
        /\ UNCHANGED <<channelAllocated, allMask, waiting, urbStatus, pending, callback, pc, job,
                       channel, streaming>>
    BY <1>2 DEF FireTimer, TimerUnchanged
  <2>5. cursor' \in 0 .. NTimers
    BY <2>4, ConstantsAssumption DEF Timers
  <2> HIDE DEF c
  <2>6. timer' \in [Timers -> [channel : Channels \cup {NoChannel}, left : Int]]
    BY <2>4 DEF IInv, Typed, TypeOK
  <2>7. \A j \in Timers : timer'[j].channel # c /\ timer'[j].channel \in {timer[j].channel, NoChannel}
    BY <2>1, <2>2, <2>4 DEF IInv, Typed, TypeOK, c
  <2>8. PICK t \in GoodStages, h \in ChannelRegisters :
          /\ stage' = [stage EXCEPT ![c] = t] /\ hw' = [hw EXCEPT ![c] = h]
          /\ SameRequest(BeginCycle(stage[c]), t)
          /\ t.state = BeginCycle(stage[c]).state /\ t.sub # "None"
    BY <2>1, <2>2, <2>3, StartTransactionEffect DEF IInv
  <2>9. SameRequest(stage[c], t) /\ t.state \in {"NoSplitTransfer", "StartSplit", "CompleteSplit"}
    BY <2>3, <2>8 DEF SameRequest
  <2>10. QED
    BY <2>1, <2>4, <2>5, <2>6, <2>7, <2>8, <2>9, StageMoved
<1>3. QED
  BY <1>1, <1>2 DEF TimerNext

\* The host controller performs a transaction or disables a channel.
LEMMA HardwarePreserves ==
  ASSUME IInv, HardwareNext
  PROVE  IInv'
<1> USE DEF IInv, Live, Running, InService, SyncInService, FreeChannels
<1>1. PICK c \in Channels, bits \in SUBSET Bits : Report(c, bits) /\ HardwareUnchanged
  <2>1. \A kind \in {"plain", "polled", "start", "complete"} : Results(kind) \subseteq SUBSET Bits
    BY DEF Results, Bits
  <2>2. \A c \in Channels : hw[c].kind \in {"plain", "polled", "start", "complete"}
    BY DEF Typed, TypeOK, ChannelRegisters
  <2>3. {"Halted"} \in SUBSET Bits
    BY DEF Bits
  <2>4. QED
    BY <2>1, <2>2, <2>3 DEF HardwareNext, TransactionResult, ChannelHalts
<1>2. /\ hw' \in [Channels -> ChannelRegisters]
      /\ \A d \in Channels : hw'[d].mask = hw[d].mask
  <2>1. Reported(hw[c], bits) \in ChannelRegisters /\ Reported(hw[c], bits).mask = hw[c].mask
    BY ZenonT(40) DEF Reported, Typed, TypeOK, ChannelRegisters
  <2>2. QED
    BY <1>1, <2>1 DEF Report, Typed, TypeOK
<1>3. Typed'
  BY <1>1, <1>2 DEF Typed, TypeOK, HardwareUnchanged
<1>4. InterruptsAreExpected'
  BY <1>1, <1>2 DEF InterruptsAreExpected, HardwareUnchanged
<1>5. ThreadState' /\ WaitingMatchesRequest' /\ PollsHaveInterval' /\ OnlyStartedDevices'
  BY <1>1 DEF ThreadState, WaitingMatchesRequest, PollsHaveInterval, OnlyStartedDevices, HardwareUnchanged
<1>6. ChannelOwnership' /\ TimerOwnership' /\ StreamsNeverDie' /\ CallbackState'
  BY <1>1 DEF ChannelOwnership, TimerOwnership, StreamsNeverDie, CallbackState, HardwareUnchanged
<1>7. QED
  BY <1>3, <1>4, <1>5, <1>6

-----------------------------------------------------------------------------

\* The initial state satisfies the invariant.
LEMMA InitIInv == Init => IInv
<1> SUFFICES ASSUME Init PROVE IInv
  OBVIOUS
<1> USE DEF Init, Live, Running, InService, SyncInService, FreeChannels
<1>1. Sync \in Urbs /\ NoUrb \notin Urbs /\ MaxPackets \in Nat \ {0} /\ 0 \in Channels
  BY ConstantsAssumption DEF Urbs, Channels
<1>2. Destroyed(NewStage(NoUrb, FALSE, 1)) \in GoodStages
      /\ Destroyed(NewStage(NoUrb, FALSE, 1)).urb = NoUrb
  <2>1. 1 \in 0 .. MaxPackets /\ NoUrb \in Urbs \cup {NoUrb} /\ FALSE \in BOOLEAN
    BY <1>1
  <2>2. NewStage(NoUrb, FALSE, 1) \in GoodStages
    BY <2>1, NewStageGood
  <2>3. QED
    BY <2>2, DestroyedGood
<1>3. \A c \in Channels : stage[c].urb = NoUrb
  BY <1>2
<1>4. Typed
  <2>1. stage \in [Channels -> GoodStages]
    BY <1>2
  <2>2. hw \in [Channels -> ChannelRegisters]
    BY DEF ChannelRegisters
  <2>3. job \in [urb : Urbs, split : BOOLEAN, left : 1 .. 3]
    BY <1>1 DEF NoJob
  <2>4. cursor \in 0 .. NTimers
    BY ConstantsAssumption
  <2>5. timer \in [Timers -> [channel : Channels \cup {NoChannel}, left : Int]]
    OBVIOUS
  <2>6. urbStatus \in [Urbs -> BOOLEAN]
    OBVIOUS
  <2>7. QED
    BY <1>1, <2>1, <2>2, <2>3, <2>4, <2>5, <2>6, GoodStagesAreStages DEF Typed, TypeOK
<1>5. InterruptsAreExpected
  BY DEF InterruptsAreExpected
<1>6. PollsHaveInterval /\ ThreadState /\ ChannelOwnership /\ TimerOwnership /\ StreamsNeverDie
  BY <1>3 DEF PollsHaveInterval, ThreadState, ChannelOwnership, TimerOwnership, StreamsNeverDie
<1>7. CallbackState /\ OnlyStartedDevices /\ WaitingMatchesRequest
  <2>1. \A u \in Urbs : ~InService(u)
    BY <1>1, <1>3
  <2>2. QED
    BY <1>1, <2>1 DEF CallbackState, OnlyStartedDevices, WaitingMatchesRequest, Urbs
<1>8. QED
  BY <1>4, <1>5, <1>6, <1>7 DEF IInv

\* A step that changes no variable keeps the invariant.
LEMMA StutterIInv == IInv /\ UNCHANGED vars => IInv'
BY DEF vars, IInv, Typed, TypeOK, PollsHaveInterval, ThreadState, CallbackState, OnlyStartedDevices,
       ChannelOwnership, InterruptsAreExpected, TimerOwnership, WaitingMatchesRequest, StreamsNeverDie,
       Live, Running, InService, SyncInService, FreeChannels

\* Every step of the thread, the handlers, the timers and the controller.
LEMMA NextIInv == IInv /\ [Next]_vars => IInv'
<1> SUFFICES ASSUME IInv, [Next]_vars PROVE IInv'
  OBVIOUS
<1>1. CASE ThreadNext
  BY <1>1, ThreadStepPreserves
<1>2. CASE InterruptHandler
  BY <1>2, UsbInterruptPreserves
<1>3. CASE InterruptNext
  BY <1>3, ChannelInterruptStep, CompletionPreserves, ResubmitPreserves, UsbInterruptPreserves
  DEF InterruptNext
<1>4. CASE HandleTimerInterrupt \/ TimerNext
  BY <1>4, TimerPreserves
<1>5. CASE HardwareNext
  BY <1>5, HardwarePreserves
<1>6. CASE UNCHANGED vars
  BY <1>6, StutterIInv
<1>7. QED
  BY <1>1, <1>2, <1>3, <1>4, <1>5, <1>6 DEF Next

(***************************************************************************)
(* The inductive invariant holds in every state of the driver, for any     *)
(* number of channels, timers, requests and packets.                       *)
(***************************************************************************)
THEOREM Invariance == Spec => []IInv
BY InitIInv, NextIInv, PTL DEF Spec

(***************************************************************************)
(* Every variable keeps its type; in particular no delay is asked for an   *)
(* endpoint without an interval, and no packet counter goes below zero.    *)
(***************************************************************************)
THEOREM TypeCorrect == Spec => []TypeOK
<1>1. IInv => TypeOK
  BY DEF IInv, Typed
<1>2. QED
  BY <1>1, Invariance, PTL

(***************************************************************************)
(* The channel pool neither leaks nor hands a channel out twice, and the   *)
(* assert of FreeChannel never fails.                                      *)
(***************************************************************************)
THEOREM ChannelsAreOwned == Spec => []ChannelOwnership
<1>1. IInv => ChannelOwnership
  BY DEF IInv
<1>2. QED
  BY <1>1, Invariance, PTL

(***************************************************************************)
(* A channel interrupt, stale snapshot included, finds a live stage that   *)
(* awaits it: the asserts of ChannelInterruptHandler never fail.           *)
(***************************************************************************)
THEOREM InterruptsFindStages == Spec => []InterruptsAreExpected
<1>1. IInv => InterruptsAreExpected
  BY DEF IInv
<1>2. QED
  BY <1>1, Invariance, PTL

(***************************************************************************)
(* A kernel timer fires only for a live stage in its delay: the assert of  *)
(* DWHCIDeviceTimerHandler never fails.                                    *)
(***************************************************************************)
THEOREM TimersAreOwned == Spec => []TimerOwnership
<1>1. IInv => TimerOwnership
  BY DEF IInv
<1>2. QED
  BY <1>1, Invariance, PTL

(***************************************************************************)
(* m_bWaiting is set exactly while the blocking request is in service, so  *)
(* the busy-wait neither ends early nor misses the end.                    *)
(***************************************************************************)
THEOREM WaitIsExact == Spec => []WaitingMatchesRequest
<1>1. IInv => WaitingMatchesRequest
  BY DEF IInv
<1>2. QED
  BY <1>1, Invariance, PTL

(***************************************************************************)
(* A device that was started never falls silent: its resubmission, whose   *)
(* result is ignored, always finds a channel.                              *)
(***************************************************************************)
THEOREM StreamsLive == Spec => []StreamsNeverDie
<1>1. IInv => StreamsNeverDie
  BY DEF IInv
<1>2. QED
  BY <1>1, Invariance, PTL

-----------------------------------------------------------------------------
(***************************************************************************)
(* What the controller holds for a channel agrees with the stage on it, so *)
(* that every stage has a future, no running channel is programmed, and no *)
(* assert of the schedulers fails; and, at the end, that the driver        *)
(* implements UsbRequests.                                                 *)
(***************************************************************************)

RunningStates == {"NoSplitTransfer", "StartSplit", "CompleteSplit"}

(***************************************************************************)
(* The second inductive invariant, channel by channel.  A controller that  *)
(* has reported Halted is done with the channel.  A start-split never      *)
(* reports XferComplete or NAK.                                            *)
(***************************************************************************)
Consistent(h) ==
  /\ h.run # "idle" => "Halted" \notin h.int
  /\ h.kind = "start" => h.int \subseteq {"Ack", "Nyet", "Error", "Halted"}

\* The stage, its frame scheduler and the kind of the next transaction go together.
Scheduled(s) ==
  /\ s.packets > 0
  /\ s.state = "NoSplitTransfer" <=> ~s.split
  /\ s.state = "StartSplit" => ~s.splitComplete /\ s.sched.state = "StartSplit"
  /\ s.state = "CompleteSplit" =>
       s.splitComplete /\ s.sched.state \in {"CompleteSplit", "CompleteRetry"}

\* The channel was asked to halt, with nothing but that unmasked.
AwaitsDisable(s, h) ==
  /\ s.sub = "WaitForChannelDisable"
  /\ h.mask = {"Halted"}
  /\ h.run = "stopping" \/ (h.run = "idle" /\ "Halted" \in h.int)

\* The controller carries out the transaction of this stage.
AwaitsResult(s, h) ==
  /\ s.sub = "WaitForTransactionComplete"
  /\ h.mask = StatusMask(s) /\ h.kind = TransactionKind(s)
  /\ h.run = "active" \/ (h.run = "idle" /\ "Halted" \in h.int)

Building(c) == pc = "start" /\ channel = c

Underway(c) ==
  /\ stage[c].state \in RunningStates /\ Scheduled(stage[c])
  /\ c \in allMask
  /\ AwaitsDisable(stage[c], hw[c]) \/ AwaitsResult(stage[c], hw[c])

Armed(c) == \E i \in Timers : timer[i].channel = c

Resting(c) ==
  /\ stage[c].state = "PeriodicDelay" /\ stage[c].packets > 0
  /\ hw[c].run # "stopping"
  /\ c \in allMask /\ Armed(c)

Fresh(c) ==
  /\ Building(c) /\ c \in allMask
  /\ stage[c].packets > 0 /\ stage[c].state = "None"
  /\ hw[c].run # "stopping"

ChannelSound(c) ==
  /\ Consistent(hw[c])
  /\ c \in pending => Raised(c)
  /\ ~Live(c) => hw[c].run # "stopping"
  /\ Live(c) => Underway(c) \/ Resting(c) \/ Fresh(c)

HInv == \A c \in Channels : ChannelSound(c)

\* What NeverReprogramsRunningChannel demands of a step.
NotReprogrammed(c) ==
  hw[c].run # "idle" =>
    /\ hw'[c].kind = hw[c].kind
    /\ hw[c].int \subseteq hw'[c].int
    /\ hw[c].run = "stopping" => hw'[c].run # "active"

HStep == HInv' /\ \A c \in Channels : NotReprogrammed(c)

-----------------------------------------------------------------------------
(* The operators on a stage and its channel.                                 *)

\* WaitForFrame chooses a microframe and nothing else.
LEMMA WaitForFrameState ==
  ASSUME NEW s \in GoodSchedulers, NEW frame \in 0 .. 7
  PROVE  WaitForFrame(s, frame).state = s.state
<1> DEFINE next == IF (frame + 1) % 8 = 6 THEN 7 ELSE (frame + 1) % 8
<1>1. s \in Schedulers
  BY DEF GoodSchedulers
<1>2. WaitForFrame(s, frame) = s \/ WaitForFrame(s, frame) = [s EXCEPT !.nextFrame = next]
  BY DEF WaitForFrame
<1> HIDE DEF next
<1>3. [s EXCEPT !.nextFrame = next].state = s.state
  BY <1>1 DEF Schedulers
<1>4. QED
  BY <1>2, <1>3

\* A cycle that begins is scheduled from its start-split on.
LEMMA BeginCycleScheduled ==
  ASSUME NEW s \in GoodStages, s.packets > 0
  PROVE  /\ BeginCycle(s) \in GoodStages /\ BeginCycle(s).urb = s.urb
         /\ BeginCycle(s).state \in RunningStates /\ Scheduled(BeginCycle(s))
<1> DEFINE sched == StartSplit(s.sched)
<1>1. s.sched \in GoodSchedulers /\ sched \in GoodSchedulers /\ s.split \in BOOLEAN
  BY StartSplitGood DEF GoodStages
<1>2. sched.state = "StartSplit"
  <2>1. s.sched \in Schedulers
    BY <1>1 DEF GoodSchedulers
  <2>2. QED
    BY <2>1 DEF StartSplit, Schedulers
<1>3. BeginCycle(s) = IF s.split THEN [s EXCEPT !.state = "StartSplit", !.splitComplete = FALSE,
                                               !.sched = sched]
                                ELSE [s EXCEPT !.state = "NoSplitTransfer"]
  BY DEF BeginCycle
<1> HIDE DEF sched
<1>4. CASE s.split
  BY <1>1, <1>2, <1>3, <1>4, BeginCycleGood DEF GoodStages, Scheduled, RunningStates
<1>5. CASE ~s.split
  BY <1>1, <1>3, <1>5, BeginCycleGood DEF GoodStages, Scheduled, RunningStates
<1>6. QED
  BY <1>1, <1>4, <1>5

\* StartChannel: the controller carries out what the stage says.
LEMMA ChannelStageSound ==
  ASSUME NEW s \in GoodStages, s.state \in RunningStates, Scheduled(s), NEW frame \in Microframes
  PROVE  LET t == ChannelStage(s, frame)
             k == ChannelStarted(s)
         IN  /\ t \in GoodStages /\ t.urb = s.urb /\ t.state \in RunningStates
             /\ Scheduled(t) /\ AwaitsResult(t, k) /\ Consistent(k)
<1> DEFINE sched == IF s.split /\ ~InQEMU THEN WaitForFrame(s.sched, frame) ELSE s.sched
           t == ChannelStage(s, frame)
           k == ChannelStarted(s)
<1>1. s.sched \in GoodSchedulers /\ frame \in 0 .. 7
  BY ConstantsAssumption DEF GoodStages
<1>2. sched.state = s.sched.state
  BY <1>1, WaitForFrameState
<1>3. t = [s EXCEPT !.sub = "WaitForTransactionComplete", !.sched = sched]
  BY DEF ChannelStage
<1> HIDE DEF sched
<1>4. /\ t.split = s.split /\ t.periodic = s.periodic /\ t.splitComplete = s.splitComplete
      /\ t.packets = s.packets /\ t.state = s.state /\ t.sched.state = s.sched.state
      /\ t.sub = "WaitForTransactionComplete" /\ t.urb = s.urb
  BY <1>2, <1>3 DEF GoodStages
<1>5. t \in GoodStages
  BY ChannelStageGood
<1>6. k.run = "active" /\ k.int = {} /\ k.mask = StatusMask(s) /\ k.kind = TransactionKind(s)
  BY DEF ChannelStarted
<1>7. StatusMask(t) = StatusMask(s) /\ TransactionKind(t) = TransactionKind(s)
  BY <1>4 DEF StatusMask, TransactionKind
<1> HIDE DEF t, k
<1>8. Scheduled(t) /\ AwaitsResult(t, k) /\ Consistent(k)
  BY <1>4, <1>6, <1>7 DEF Scheduled, AwaitsResult, Consistent
<1>9. QED
  BY <1>4, <1>5, <1>8 DEF t, k

\* StartTransaction: the same, or the channel is asked to halt first.
LEMMA StartedSound ==
  ASSUME NEW s \in GoodStages, s.state \in RunningStates, Scheduled(s), NEW frame \in Microframes,
         NEW h \in ChannelRegisters, Consistent(h), h.run # "stopping"
  PROVE  LET t == StartedStage(s, h, frame)
             k == StartedChannel(s, h)
         IN  /\ t \in GoodStages /\ t.urb = s.urb /\ t.state \in RunningStates
             /\ Scheduled(t) /\ Consistent(k)
             /\ AwaitsDisable(t, k) \/ AwaitsResult(t, k)
             /\ h.run = "active" => k.kind = h.kind /\ h.int \subseteq k.int
<1>1. CASE h.run = "active"
  <2> DEFINE t == [s EXCEPT !.sub = "WaitForChannelDisable"]
             k == [h EXCEPT !.run = "stopping", !.mask = {"Halted"}]
  <2>1. StartedStage(s, h, frame) = t /\ StartedChannel(s, h) = k
    BY <1>1 DEF StartedStage, StartedChannel
  <2>2. /\ t.split = s.split /\ t.splitComplete = s.splitComplete
        /\ t.packets = s.packets /\ t.state = s.state /\ t.sched = s.sched
        /\ t.sub = "WaitForChannelDisable" /\ t.urb = s.urb /\ t \in GoodStages
    BY DEF GoodStages, SubStates
  <2>3. k.run = "stopping" /\ k.mask = {"Halted"} /\ k.int = h.int /\ k.kind = h.kind
    BY DEF ChannelRegisters
  <2> HIDE DEF t, k
  <2>4. Scheduled(t) /\ AwaitsDisable(t, k) /\ Consistent(k)
    BY <1>1, <2>2, <2>3 DEF Scheduled, AwaitsDisable, Consistent
  <2>5. QED
    BY <2>1, <2>2, <2>3, <2>4
<1>2. CASE h.run # "active"
  <2>1. StartedStage(s, h, frame) = ChannelStage(s, frame) /\ StartedChannel(s, h) = ChannelStarted(s)
    BY <1>2 DEF StartedStage, StartedChannel
  <2>2. QED
    BY <1>2, <2>1, ChannelStageSound
<1>3. QED
  BY <1>1, <1>2

-----------------------------------------------------------------------------
(* The steps that touch one channel.                                         *)

\* A channel that a step leaves alone stays sound, if its timer stays armed.
LEMMA UntouchedChannel ==
  ASSUME NEW d \in Channels, ChannelSound(d), stage'[d] = stage[d], hw'[d] = hw[d],
         d \in allMask => d \in allMask', d \in pending' => d \in pending,
         Building(d) => Building(d)', Armed(d) => Armed(d)'
  PROVE  ChannelSound(d)' /\ NotReprogrammed(d)
<1>1. Live(d)' <=> Live(d)
  BY DEF Live
<1>2. (d \in pending' => Raised(d)')
  BY DEF ChannelSound, Raised
<1>3. Underway(d) => Underway(d)'
  BY DEF Underway
<1>4. Resting(d) => Resting(d)'
  BY DEF Resting
<1>5. Fresh(d) => Fresh(d)'
  BY DEF Fresh
<1>6. NotReprogrammed(d)
  <2>1. hw[d].run = "stopping" => hw[d].run # "active"
    OBVIOUS
  <2>2. QED
    BY <2>1 DEF NotReprogrammed
<1>7. QED
  BY <1>1, <1>2, <1>3, <1>4, <1>5, <1>6 DEF ChannelSound

\* A step that touches no channel at all.
LEMMA NoChannelTouched ==
  ASSUME HInv, UNCHANGED <<stage, hw, allMask>>,
         \A d \in Channels : d \in pending' => d \in pending \/ Raised(d),
         \A d \in Channels : Building(d) => Building(d)',
         \A d \in Channels : Armed(d) => Armed(d)'
  PROVE  HStep
<1>1. ASSUME NEW d \in Channels
      PROVE  ChannelSound(d)' /\ NotReprogrammed(d)
  <2>1. ChannelSound(d)
    BY DEF HInv
  <2>2. (Live(d)' <=> Live(d)) /\ (d \in pending' => Raised(d)')
    BY <2>1 DEF Live, Raised, ChannelSound
  <2>3. Underway(d) => Underway(d)'
    BY DEF Underway
  <2>4. (Resting(d) => Resting(d)') /\ (Fresh(d) => Fresh(d)')
    BY DEF Resting, Fresh
  <2>5. NotReprogrammed(d)
    BY DEF NotReprogrammed
  <2>6. QED
    BY <2>1, <2>2, <2>3, <2>4, <2>5 DEF ChannelSound
<1>2. QED
  BY <1>1 DEF HStep, HInv

\* StartTransaction of a stage that may be started, wherever it is called from.
LEMMA TransactionStarted ==
  ASSUME Typed, HInv, NEW c \in Channels, NEW s \in GoodStages,
         s.urb # NoUrb, s.state \in RunningStates, Scheduled(s), hw[c].run # "stopping",
         StartTransaction(c, s),
         c \in allMask', allMask \subseteq allMask', c \notin pending', pending' \subseteq pending,
         \A d \in Channels \ {c} : Building(d) => Building(d)',
         \A d \in Channels \ {c} : Armed(d) => Armed(d)'
  PROVE  HStep
<1>1. PICK frame \in Microframes : stage' = [stage EXCEPT ![c] = StartedStage(s, hw[c], frame)]
  BY DEF StartTransaction
<1> DEFINE t == StartedStage(s, hw[c], frame)
           k == StartedChannel(s, hw[c])
<1>2. hw[c] \in ChannelRegisters /\ Consistent(hw[c])
  BY DEF Typed, TypeOK, HInv, ChannelSound
<1>3. /\ t.urb = s.urb /\ t.state \in RunningStates /\ Scheduled(t) /\ Consistent(k)
      /\ AwaitsDisable(t, k) \/ AwaitsResult(t, k)
      /\ hw[c].run = "active" => k.kind = hw[c].kind /\ hw[c].int \subseteq k.int
  BY <1>2, StartedSound
<1>4. stage' = [stage EXCEPT ![c] = t] /\ hw' = [hw EXCEPT ![c] = k]
  BY <1>1 DEF StartTransaction
<1> HIDE DEF t, k
<1>5. \A d \in Channels : stage'[d] = (IF d = c THEN t ELSE stage[d])
                          /\ hw'[d] = IF d = c THEN k ELSE hw[d]
  BY <1>4 DEF Typed, TypeOK
<1>6. ASSUME NEW d \in Channels, d # c
      PROVE  ChannelSound(d)' /\ NotReprogrammed(d)
  BY <1>5, <1>6, UntouchedChannel DEF HInv
<1>7. ChannelSound(c)'
  <2>1. Live(c)' /\ Underway(c)'
    BY <1>3, <1>5 DEF Live, Underway
  <2>2. QED
    BY <1>3, <1>5, <2>1 DEF ChannelSound
<1>8. NotReprogrammed(c)
  <2>1. hw[c].run \in {"idle", "active"}
    BY <1>2 DEF ChannelRegisters
  <2>2. QED
    BY <1>3, <1>5, <2>1 DEF NotReprogrammed
<1>9. QED
  BY <1>6, <1>7, <1>8 DEF HStep, HInv

\* The handler of a channel runs for a stage that is underway.
LEMMA HandledUnderway ==
  ASSUME IInv, HInv, NEW c \in Channels, Handling(c)
  PROVE  /\ Live(c) /\ Underway(c) /\ Consistent(hw[c]) /\ Raised(c)
         /\ stage[c] \in GoodStages /\ stage[c].urb # NoUrb /\ hw[c] \in ChannelRegisters
         /\ pending' = pending \ {c} /\ cpu = "usb" /\ callback = NoUrb
<1>1. Live(c) /\ stage[c] \in GoodStages /\ hw[c] \in ChannelRegisters
      /\ stage[c].state \notin {"None", "PeriodicDelay"}
  BY HandledStage
<1>2. ChannelSound(c) /\ c \in pending
  BY DEF HInv, Handling
<1>3. Underway(c)
  BY <1>1, <1>2 DEF ChannelSound, Resting, Fresh
<1>4. QED
  BY <1>1, <1>2, <1>3 DEF ChannelSound, Live, Handling

\* A channel whose handler runs is not being halted any more.
LEMMA HandledNotStopping ==
  ASSUME IInv, HInv, NEW c \in Channels, Handling(c)
  PROVE  hw[c].run # "stopping" /\ (stage[c].sub = "WaitForChannelDisable" => hw[c].run = "idle")
<1>1. Underway(c) /\ Consistent(hw[c]) /\ Raised(c) /\ hw[c] \in ChannelRegisters
  BY HandledUnderway
<1>2. CASE AwaitsDisable(stage[c], hw[c])
  <2>1. "Halted" \in hw[c].int
    BY <1>1, <1>2 DEF AwaitsDisable, Raised
  <2>2. QED
    BY <1>1, <2>1 DEF Consistent
<1>3. CASE AwaitsResult(stage[c], hw[c])
  BY <1>3 DEF AwaitsResult
<1>4. QED
  BY <1>1, <1>2, <1>3 DEF Underway

\* ContinueStage with a stage that may be started.
LEMMA ContinueSound ==
  ASSUME IInv, HInv, NEW c \in Channels, Handling(c), NEW s \in GoodStages,
         s.urb # NoUrb, s.state \in RunningStates, Scheduled(s), ContinueStage(c, s)
  PROVE  HStep
<1>1. /\ Underway(c) /\ pending' = pending \ {c}
      /\ hw[c].run # "stopping"
  BY HandledUnderway, HandledNotStopping
<1>2. /\ StartTransaction(c, s)
      /\ UNCHANGED <<allMask, timer, pc, channel>>
  BY DEF ContinueStage, UsbUnchanged
<1>3. \A d \in Channels : (Building(d) => Building(d)') /\ (Armed(d) => Armed(d)')
  BY <1>2 DEF Building, Armed
<1>4. QED
  BY <1>1, <1>2, <1>3, TransactionStarted DEF Underway, IInv

\* FinishStage leaves the channel free, and not halting.
LEMMA FinishSound ==
  ASSUME IInv, HInv, NEW c \in Channels, Handling(c), NEW ok, FinishStage(c, ok)
  PROVE  HStep
<1> DEFINE k == [hw[c] EXCEPT !.mask = {}]
<1>1. /\ stage[c] \in GoodStages /\ hw[c] \in ChannelRegisters /\ Consistent(hw[c])
      /\ pending' = pending \ {c} /\ hw[c].run # "stopping"
  BY HandledUnderway, HandledNotStopping
<1>2. k.run = hw[c].run /\ k.int = hw[c].int /\ k.kind = hw[c].kind
  BY <1>1 DEF ChannelRegisters
<1>3. /\ stage' = [stage EXCEPT ![c] = Destroyed(stage[c])] /\ hw' = [hw EXCEPT ![c] = k]
      /\ allMask' = allMask \ {c}
      /\ UNCHANGED <<timer, pc, channel>>
  BY DEF FinishStage, UsbUnchanged
<1> HIDE DEF k
<1>4. \A d \in Channels : stage'[d] = (IF d = c THEN Destroyed(stage[c]) ELSE stage[d])
                          /\ hw'[d] = IF d = c THEN k ELSE hw[d]
  BY <1>3 DEF IInv, Typed, TypeOK
<1>5. \A d \in Channels : (Building(d) => Building(d)') /\ (Armed(d) => Armed(d)')
  BY <1>3 DEF Building, Armed
<1>6. ASSUME NEW d \in Channels, d # c
      PROVE  ChannelSound(d)' /\ NotReprogrammed(d)
  BY <1>1, <1>3, <1>4, <1>5, <1>6, UntouchedChannel DEF HInv
<1>7. ~Live(c)'
  BY <1>1, <1>4, DestroyedGood DEF Live
<1>8. ChannelSound(c)' /\ NotReprogrammed(c)
  BY <1>1, <1>2, <1>4, <1>7 DEF ChannelSound, Consistent, NotReprogrammed
<1>9. QED
  BY <1>6, <1>8 DEF HStep, HInv

\* How many channels and timers there are.
LEMMA PoolSizes ==
  /\ IsFiniteSet(Channels) /\ Cardinality(Channels) = NChannels
  /\ IsFiniteSet(Timers) /\ Cardinality(Timers) = NTimers
<1>1. NChannels \in Nat /\ NTimers \in Nat /\ 0 \in Int /\ NChannels - 1 \in Int /\ NTimers - 1 \in Int
  BY ConstantsAssumption
<1>2. /\ IsFiniteSet(0 .. NChannels - 1)
      /\ Cardinality(0 .. NChannels - 1) = IF 0 > NChannels - 1 THEN 0 ELSE NChannels - 1 - 0 + 1
  BY <1>1, FS_Interval
<1>3. /\ IsFiniteSet(0 .. NTimers - 1)
      /\ Cardinality(0 .. NTimers - 1) = IF 0 > NTimers - 1 THEN 0 ELSE NTimers - 1 - 0 + 1
  BY <1>1, FS_Interval
<1>4. QED
  BY <1>1, <1>2, <1>3 DEF Channels, Timers

(***************************************************************************)
(* The table of timers suffices: a timer belongs to a channel of its own   *)
(* that rests, so with one channel not resting one slot is unused.         *)
(***************************************************************************)
LEMMA TimerIsFree ==
  ASSUME Typed, TimerOwnership, NEW c \in Channels, stage[c].state # "PeriodicDelay"
  PROVE  FreeTimers # {}
<1> SUFFICES ASSUME FreeTimers = {}
             PROVE  FALSE
  OBVIOUS
<1>1. \A i \in Timers : timer[i].channel \in Channels \ {c}
  <2>1. \A i \in Timers : timer[i].channel # NoChannel
    BY DEF FreeTimers
  <2>2. QED
    BY <2>1 DEF TimerOwnership, Typed, TypeOK
<1>2. \A i, j \in Timers : timer[i].channel = timer[j].channel => i = j
  BY <1>1, ConstantsAssumption DEF TimerOwnership
<1> DEFINE owner == [i \in Timers |-> timer[i].channel]
<1>3. owner \in Injection(Timers, Channels \ {c})
  BY <1>1, <1>2 DEF Injection, IsInjective
<1> HIDE DEF owner
<1>4. IsFiniteSet(Channels) /\ Cardinality(Channels) = NChannels /\ Cardinality(Timers) = NTimers
  BY PoolSizes
<1>5. IsFiniteSet(Channels \ {c}) /\ Cardinality(Channels \ {c}) = NChannels - 1
  BY <1>4, FS_RemoveElement
<1>6. NTimers <= NChannels - 1
  BY <1>3, <1>4, <1>5, FS_Injection
<1>7. QED
  BY <1>6, ConstantsAssumption

\* DelayStage arms a timer for the stage and silences its channel.
LEMMA DelaySound ==
  ASSUME IInv, HInv, NEW c \in Channels, Handling(c), NEW s \in GoodStages,
         s.packets > 0, s.urb # NoUrb, DelayStage(c, s)
  PROVE  HStep
<1> DEFINE k == [hw[c] EXCEPT !.mask = {}]
           t == [s EXCEPT !.state = "PeriodicDelay"]
           armed(i) == [timer EXCEPT ![i] = [channel |-> c, left |-> Delay[s.urb]]]
<1>1. /\ hw[c] \in ChannelRegisters /\ Consistent(hw[c])
      /\ pending' = pending \ {c} /\ hw[c].run # "stopping" /\ stage[c].state # "PeriodicDelay"
      /\ c \in allMask
  BY HandledUnderway, HandledNotStopping, HandledStage DEF Underway
<1>2. /\ k.run = hw[c].run /\ k.int = hw[c].int /\ k.kind = hw[c].kind
      /\ t.state = "PeriodicDelay" /\ t.packets > 0 /\ t.urb # NoUrb
  BY <1>1 DEF ChannelRegisters, GoodStages
<1>3. /\ stage' = [stage EXCEPT ![c] = t] /\ hw' = [hw EXCEPT ![c] = k]
      /\ UNCHANGED <<allMask, pc, channel>>
  BY DEF DelayStage, UsbUnchanged
<1>4. PICK i \in FreeTimers : timer' = armed(i)
  BY <1>1, TimerIsFree DEF DelayStage, ArmTimer, IInv
<1> HIDE DEF k, t
<1>5. \A d \in Channels : stage'[d] = (IF d = c THEN t ELSE stage[d])
                          /\ hw'[d] = IF d = c THEN k ELSE hw[d]
  BY <1>3 DEF IInv, Typed, TypeOK
<1>6. Armed(c)' /\ \A d \in Channels : Armed(d) => Armed(d)'
  <2>1. i \in Timers /\ timer[i].channel = NoChannel
    BY DEF FreeTimers
  <2>2. \A j \in Timers : timer'[j].channel = IF j = i THEN c ELSE timer[j].channel
    BY <1>4, <2>1 DEF IInv, Typed, TypeOK
  <2>3. QED
    BY <2>1, <2>2, ConstantsAssumption DEF Armed
<1>7. ASSUME NEW d \in Channels, d # c
      PROVE  ChannelSound(d)' /\ NotReprogrammed(d)
  <2>1. Building(d) => Building(d)'
    BY <1>3 DEF Building
  <2>2. QED
    BY <1>1, <1>3, <1>5, <1>6, <1>7, <2>1, UntouchedChannel DEF HInv
<1>8. ChannelSound(c)' /\ NotReprogrammed(c)
  BY <1>1, <1>2, <1>3, <1>5, <1>6 DEF ChannelSound, Resting, Live, Consistent, NotReprogrammed
<1>9. QED
  BY <1>7, <1>8 DEF HStep, HInv

-----------------------------------------------------------------------------
(* The frame schedulers of a split transaction.                              *)

\* Another complete-split is made only in a state TransactionComplete has a case for.
LEMMA CompleteSplitState ==
  ASSUME NEW s \in GoodSchedulers, CompleteSplitResult(s)
  PROVE  CompleteSplit(s).state \in {"CompleteSplit", "CompleteRetry"}
<1>1. s \in Schedulers /\ s.state \in {"StartSplitComplete", "CompleteRetry", "CompleteSplit"}
  BY DEF GoodSchedulers, CompleteSplitResult
<1>2. CASE s.state = "StartSplitComplete"
  <2> DEFINE tries == IF s.periodic /\ s.nextFrame = 5 THEN 2 ELSE 3
             frame == IF s.periodic THEN (s.nextFrame + 2) % 8 ELSE s.nextFrame
  <2>1. CompleteSplit(s) = [s EXCEPT !.state = "CompleteSplit", !.tries = tries, !.nextFrame = frame]
    BY <1>2 DEF CompleteSplit
  <2> HIDE DEF tries, frame
  <2>2. QED
    BY <1>1, <2>1 DEF Schedulers
<1>3. CASE s.state = "CompleteRetry" /\ s.periodic
  <2> DEFINE frame == (s.nextFrame + 1) % 8
  <2>1. CompleteSplit(s) = [s EXCEPT !.nextFrame = frame]
    BY <1>3 DEF CompleteSplit
  <2> HIDE DEF frame
  <2>2. QED
    BY <1>1, <1>3, <2>1 DEF Schedulers
<1>4. CASE s.state # "StartSplitComplete" /\ ~(s.state = "CompleteRetry" /\ s.periodic)
  BY <1>1, <1>4 DEF CompleteSplit
<1>5. QED
  BY <1>2, <1>3, <1>4

\* UseTry goes on or gives up.
LEMMA UseTryState ==
  ASSUME NEW s \in GoodSchedulers
  PROVE  UseTry(s).state \in {"CompleteSplitFailed", "CompleteRetry"}
<1> DEFINE state == IF s.tries = 0 THEN "CompleteSplitFailed" ELSE "CompleteRetry"
<1>1. UseTry(s) = [s EXCEPT !.state = state, !.tries = s.tries - 1]
  BY DEF UseTry
<1>2. state \in {"CompleteSplitFailed", "CompleteRetry"}
  OBVIOUS
<1> HIDE DEF state
<1>3. s \in Schedulers
  BY DEF GoodSchedulers
<1>4. QED
  BY <1>1, <1>2, <1>3 DEF Schedulers

\* TransactionComplete of a start-split.
LEMMA AfterStartSplit ==
  ASSUME NEW s \in GoodSchedulers, NEW status, s.state = "StartSplit"
  PROVE  TransactionComplete(s, status).state = "StartSplitComplete"
<1>1. TransactionComplete(s, status) = [s EXCEPT !.state = "StartSplitComplete"]
  BY DEF TransactionComplete
<1>2. QED
  BY <1>1 DEF GoodSchedulers, Schedulers

\* TransactionComplete of a complete-split: a packet that got through ends the cycle.
LEMMA AfterCompleteSplit ==
  ASSUME NEW s \in GoodSchedulers, NEW status \in SUBSET Bits,
         s.state \in {"CompleteSplit", "CompleteRetry"}
  PROVE  LET t == TransactionComplete(s, status) IN
         /\ "XferComplete" \in status => t.state = "CompleteSplitComplete"
         /\ status \cap {"XferComplete", "Nyet", "Ack", "Nak"} # {} =>
              t.state \in {"CompleteSplitComplete", "CompleteSplitFailed", "CompleteRetry"}
<1>1. s \in Schedulers
  BY DEF GoodSchedulers
<1>2. /\ [s EXCEPT !.state = "CompleteSplitComplete"].state = "CompleteSplitComplete"
      /\ [s EXCEPT !.state = "CompleteSplitFailed"].state = "CompleteSplitFailed"
  BY <1>1 DEF Schedulers
<1>3. CASE "XferComplete" \in status
  <2>1. TransactionComplete(s, status) = [s EXCEPT !.state = "CompleteSplitComplete"]
    BY <1>3 DEF TransactionComplete
  <2>2. QED
    BY <1>2, <2>1
<1>4. CASE "XferComplete" \notin status /\ status \cap {"Nyet", "Ack"} # {}
  <2>1. TransactionComplete(s, status) = UseTry(s)
    BY <1>4 DEF TransactionComplete
  <2>2. QED
    BY <1>4, <2>1, UseTryState
<1>5. CASE status \cap {"XferComplete", "Nyet", "Ack"} = {} /\ "Nak" \in status
  <2>1. TransactionComplete(s, status)
          \in {[s EXCEPT !.state = "CompleteSplitFailed"], UseTry(s)}
    BY <1>5 DEF TransactionComplete
  <2>2. QED
    BY <1>2, <1>5, <2>1, UseTryState
<1>6. QED
  BY <1>3, <1>4, <1>5

-----------------------------------------------------------------------------
(* Every action.                                                             *)

\* Behind TransactionComplete the scheduler decides how the stage goes on.
LEMMA ScheduleSound ==
  ASSUME IInv, HInv, NEW c \in Channels, Handling(c), NEW t \in GoodStages, t.urb # NoUrb,
         t.state = "CompleteSplit", t.split, t.splitComplete,
         CompleteSplitResult(t.sched) => t.packets > 0,
         ScheduleCompleteSplit(c, t)
  PROVE  HStep
<1> DEFINE sched == CompleteSplit(t.sched)
           next == [t EXCEPT !.sched = sched]
<1>1. t.sched \in GoodSchedulers /\ sched \in GoodSchedulers
  BY CompleteSplitGood DEF GoodStages
<1>2. CompleteSplitResult(t.sched) => sched.state \in {"CompleteSplit", "CompleteRetry"}
  BY <1>1, CompleteSplitState
<1>3. \/ CompleteSplitResult(t.sched) /\ ContinueStage(c, next)
      \/ LeaveCompleteSplit(c, next)
  BY DEF ScheduleCompleteSplit
<1> HIDE DEF sched
<1>4. /\ next \in GoodStages /\ next.urb # NoUrb /\ next.state = "CompleteSplit"
      /\ next.split /\ next.splitComplete /\ next.packets = t.packets /\ next.sched = sched
  BY <1>1 DEF GoodStages
<1> HIDE DEF next
<1>5. next.packets # 0 => next.packets > 0
  BY <1>4, ConstantsAssumption DEF GoodStages
<1>6. CASE CompleteSplitResult(t.sched) /\ ContinueStage(c, next)
  <2>1. Scheduled(next) /\ next.state \in RunningStates
    BY <1>2, <1>4, <1>6 DEF Scheduled, RunningStates
  <2>2. QED
    BY <1>4, <1>6, <2>1, ContinueSound
<1>7. CASE FinishStage(c, TRUE)
  BY <1>7, FinishSound
<1>8. CASE next.packets # 0 /\ ContinueStage(c, BeginCycle(next))
  BY <1>4, <1>5, <1>8, BeginCycleScheduled, ContinueSound
<1>9. CASE next.packets # 0 /\ DelayStage(c, next)
  BY <1>4, <1>5, <1>9, DelaySound
<1>10. QED
  BY <1>3, <1>6, <1>7, <1>8, <1>9 DEF LeaveCompleteSplit, IsStageComplete

\* Every way through DWHCIDeviceChannelInterruptHandler.
LEMMA HandlerSound ==
  ASSUME IInv, HInv, NEW c \in Channels, ChannelInterruptHandler(c)
  PROVE  HStep
<1>1. CASE ChannelDisabled(c)
  <2> DEFINE k == ChannelStarted(stage[c])
  <2>1. Handling(c) /\ stage[c].sub = "WaitForChannelDisable"
    BY <1>1 DEF ChannelDisabled
  <2>2. /\ Live(c) /\ Underway(c) /\ stage[c] \in GoodStages /\ pending' = pending \ {c}
        /\ hw[c].run = "idle"
    BY <2>1, HandledUnderway, HandledNotStopping
  <2>3. PICK frame \in Microframes : stage' = [stage EXCEPT ![c] = ChannelStage(stage[c], frame)]
    BY <1>1 DEF ChannelDisabled
  <2> DEFINE t == ChannelStage(stage[c], frame)
  <2>4. /\ t.urb = stage[c].urb /\ t.state \in RunningStates /\ Scheduled(t)
        /\ AwaitsResult(t, k) /\ Consistent(k)
    BY <2>2, ChannelStageSound DEF Underway
  <2>5. hw' = [hw EXCEPT ![c] = k] /\ UNCHANGED <<allMask, timer, pc, channel>>
    BY <1>1 DEF ChannelDisabled, UsbUnchanged
  <2> HIDE DEF t, k
  <2>6. \A d \in Channels : stage'[d] = (IF d = c THEN t ELSE stage[d])
                            /\ hw'[d] = IF d = c THEN k ELSE hw[d]
    BY <2>3, <2>5 DEF IInv, Typed, TypeOK, t
  <2>7. \A d \in Channels : (Building(d) => Building(d)') /\ (Armed(d) => Armed(d)')
    BY <2>5 DEF Building, Armed
  <2>8. ASSUME NEW d \in Channels, d # c
        PROVE  ChannelSound(d)' /\ NotReprogrammed(d)
    BY <2>2, <2>5, <2>6, <2>7, <2>8, UntouchedChannel DEF HInv
  <2>9. Underway(c)' /\ Live(c)'
    BY <2>2, <2>4, <2>5, <2>6 DEF Underway, Live
  <2>10. ChannelSound(c)' /\ NotReprogrammed(c)
    BY <2>2, <2>4, <2>6, <2>9 DEF ChannelSound, NotReprogrammed
  <2>11. QED
    BY <2>8, <2>10 DEF HStep, HInv
<1>2. CASE RestartHalted(c)
  <2>1. Handling(c) /\ ContinueStage(c, stage[c])
    BY <1>2 DEF RestartHalted, ContinueStage
  <2>2. QED
    BY <2>1, HandledUnderway, ContinueSound DEF Underway
<1>3. CASE NoSplitComplete(c)
  <2>1. Handling(c)
    BY <1>3 DEF NoSplitComplete, Completed
  <2>2. FinishStage(c, FALSE) \/ FinishStage(c, TRUE) \/ DelayStage(c, stage[c])
    BY <1>3 DEF NoSplitComplete
  <2>3. stage[c] \in GoodStages /\ stage[c].urb # NoUrb /\ stage[c].packets > 0
    BY <2>1, HandledUnderway DEF Underway, Scheduled
  <2>4. QED
    BY <2>1, <2>2, <2>3, FinishSound, DelaySound
<1>4. CASE StartSplitComplete(c)
  <2> DEFINE sched == TransactionComplete(stage[c].sched, Status(c))
             t == [stage[c] EXCEPT !.sched = sched, !.state = "CompleteSplit", !.splitComplete = TRUE]
  <2>1. Handling(c) /\ stage[c].state = "StartSplit"
    BY <1>4 DEF StartSplitComplete, Completed
  <2>2. FinishStage(c, FALSE) \/ ScheduleCompleteSplit(c, t)
    BY <1>4 DEF StartSplitComplete
  <2>3. /\ stage[c] \in GoodStages /\ stage[c].urb # NoUrb /\ stage[c].packets > 0
        /\ stage[c].split \in BOOLEAN /\ stage[c].split
        /\ stage[c].sched \in GoodSchedulers /\ stage[c].sched.state = "StartSplit"
    BY <2>1, HandledUnderway DEF Underway, Scheduled, GoodStages
  <2>4. Status(c) \in SUBSET Bits
    BY <2>1, HandledStage DEF Status
  <2>5. sched \in GoodSchedulers
    BY <2>3, <2>4, TransactionCompleteGood
  <2> HIDE DEF sched
  <2>6. /\ t \in GoodStages /\ t.urb # NoUrb /\ t.state = "CompleteSplit" /\ t.split
        /\ t.splitComplete /\ t.packets > 0
    BY <2>3, <2>5 DEF GoodStages, StageStates
  <2> HIDE DEF t
  <2>7. QED
    BY <2>1, <2>2, <2>6, FinishSound, ScheduleSound
<1>5. CASE CompleteSplitComplete(c)
  <2> DEFINE s == CountPackets(stage[c], Status(c))
             sched == TransactionComplete(s.sched, Status(c))
             t == [s EXCEPT !.sched = sched]
  <2>1. Handling(c) /\ stage[c].state = "CompleteSplit"
    BY <1>5 DEF CompleteSplitComplete, Completed
  <2>2. FinishStage(c, FALSE) \/ ScheduleCompleteSplit(c, t)
    BY <1>5 DEF CompleteSplitComplete
  <2>3. /\ stage[c] \in GoodStages /\ stage[c].urb # NoUrb /\ stage[c].packets > 0
        /\ stage[c].split \in BOOLEAN /\ stage[c].split /\ stage[c].splitComplete
        /\ stage[c].sched \in GoodSchedulers
        /\ stage[c].sched.state \in {"CompleteSplit", "CompleteRetry"}
    BY <2>1, HandledUnderway DEF Underway, Scheduled, GoodStages
  <2>4. Status(c) \in SUBSET Bits
    BY <2>1, HandledStage DEF Status
  <2>5. /\ s \in GoodStages /\ s.urb # NoUrb /\ s.state = "CompleteSplit" /\ s.split
        /\ s.splitComplete /\ s.sched = stage[c].sched
        /\ "XferComplete" \notin Status(c) => s.packets > 0
    <3>1. s \in GoodStages /\ SameRequest(stage[c], s) /\ s.state = stage[c].state
          /\ s.sched = stage[c].sched
      BY <2>3, CountPacketsGood
    <3>2. s = stage[c] \/ ("XferComplete" \in Status(c)
                           /\ s = [stage[c] EXCEPT !.packets = stage[c].packets - 1])
      BY DEF CountPackets
    <3>3. s.split = stage[c].split /\ s.splitComplete = stage[c].splitComplete
      BY <2>3, <3>2 DEF GoodStages
    <3>4. QED
      BY <2>1, <2>3, <3>1, <3>2, <3>3 DEF SameRequest
  <2> HIDE DEF s
  <2>6. sched \in GoodSchedulers /\ ("XferComplete" \in Status(c) => sched.state = "CompleteSplitComplete")
    BY <2>3, <2>4, <2>5, TransactionCompleteGood, AfterCompleteSplit
  <2> HIDE DEF sched
  <2>7. /\ t \in GoodStages /\ t.urb # NoUrb /\ t.state = "CompleteSplit" /\ t.split
        /\ t.splitComplete /\ t.packets = s.packets /\ t.sched = sched
    BY <2>5, <2>6 DEF GoodStages
  <2>8. CompleteSplitResult(t.sched) => t.packets > 0
    BY <2>5, <2>6, <2>7 DEF CompleteSplitResult
  <2> HIDE DEF t
  <2>9. QED
    BY <2>1, <2>2, <2>7, <2>8, FinishSound, ScheduleSound
<1>6. QED
  BY <1>1, <1>2, <1>3, <1>4, <1>5 DEF ChannelInterruptHandler

\* A stage that is built on a free channel and started there.
LEMMA BuiltStage ==
  ASSUME NEW u \in Urbs, NEW split \in BOOLEAN, NEW packets \in 1 .. MaxPackets
  PROVE  LET n == NewStage(u, split, packets)
         IN  n \in GoodStages /\ n.urb = u /\ n.packets > 0 /\ n.state = "None"
<1>1. packets \in 0 .. MaxPackets /\ packets > 0
  BY ConstantsAssumption
<1>2. NewStage(u, split, packets).packets = packets
  BY DEF NewStage
<1>3. QED
  BY <1>1, <1>2, NewStageGood

\* The thread.
LEMMA ThreadSound ==
  ASSUME IInv, HInv, ThreadNext
  PROVE  HStep
<1>1. pending = {} /\ UNCHANGED <<pending, timer>>
  <2>1. cpu = "thread"
    BY DEF ThreadNext, SubmitBlockingRequest, SubmitAsyncRequest, AllocateChannel, BuildStage,
           StartStage, FinishWait, ThreadRuns
  <2>2. QED
    BY <2>1 DEF IInv, CallbackState, ThreadNext, SubmitBlockingRequest, SubmitAsyncRequest,
                AllocateChannel, BuildStage, StartStage, FinishWait, ThreadUnchanged
<1>2. \A d \in Channels : Armed(d) => Armed(d)'
  BY <1>1 DEF Armed
<1>3. CASE SubmitBlockingRequest \/ (\E u \in Async : SubmitAsyncRequest(u)) \/ AllocateChannel \/ FinishWait
  <2>1. UNCHANGED <<stage, hw, allMask>> /\ pc # "start"
    BY <1>3 DEF SubmitBlockingRequest, SubmitAsyncRequest, AllocateChannel, FinishWait, stageVars
  <2>2. QED
    BY <1>1, <1>2, <2>1, NoChannelTouched DEF Building
<1>4. CASE BuildStage
  <2>1. PICK packets \in 1 .. MaxPackets :
          stage' = [stage EXCEPT ![channel] = NewStage(job.urb, job.split, packets)]
    BY <1>4 DEF BuildStage
  <2> DEFINE n == NewStage(job.urb, job.split, packets)
  <2>2. /\ channel \in Channels /\ channel \in channelAllocated /\ ~Live(channel)
        /\ job.urb \in Urbs /\ job.split \in BOOLEAN /\ job.urb # NoUrb
    BY <1>4, ConstantsAssumption DEF BuildStage, IInv, ThreadState, Typed, TypeOK
  <2>3. n \in GoodStages /\ n.urb # NoUrb /\ n.packets > 0 /\ n.state = "None"
    BY <2>2, BuiltStage
  <2> HIDE DEF n
  <2>4. PICK c \in Channels : c = channel
    BY <2>2
  <2>5. /\ \A d \in Channels : stage'[d] = IF d = c THEN n ELSE stage[d]
        /\ allMask' = allMask \cup {c} /\ hw' = hw
        /\ pc = "build" /\ pc' = "start" /\ channel' = c
    BY <1>4, <2>1, <2>4 DEF BuildStage, IInv, Typed, n
  <2>6. ASSUME NEW d \in Channels, d # c
        PROVE  ChannelSound(d)' /\ NotReprogrammed(d)
    BY <1>1, <1>2, <2>5, <2>6, UntouchedChannel DEF HInv, Building
  <2>7. ChannelSound(c)' /\ NotReprogrammed(c)
    <3>1. Consistent(hw[c]) /\ hw[c].run # "stopping"
      BY <2>2, <2>4 DEF HInv, ChannelSound
    <3>2. Fresh(c)'
      BY <2>3, <2>5, <3>1 DEF Fresh, Building
    <3>3. QED
      BY <1>1, <2>3, <2>5, <3>1, <3>2 DEF ChannelSound, NotReprogrammed, Live
  <2>8. QED
    BY <2>6, <2>7 DEF HStep, HInv
<1>5. CASE StartStage
  <2>1. /\ pc = "start" /\ StartTransaction(channel, BeginCycle(stage[channel]))
        /\ UNCHANGED allMask
    BY <1>5 DEF StartStage
  <2>2. /\ channel \in Channels /\ stage[channel] \in GoodStages /\ stage[channel].urb # NoUrb
        /\ stage[channel].state = "None"
    BY <2>1, ConstantsAssumption DEF IInv, ThreadState, Typed, TypeOK
  <2>3. Fresh(channel)
    BY <2>2 DEF HInv, ChannelSound, Underway, Resting, RunningStates, Live
  <2>4. \A d \in Channels \ {channel} : ~Building(d)
    BY DEF Building
  <2>5. /\ BeginCycle(stage[channel]) \in GoodStages
        /\ BeginCycle(stage[channel]).urb # NoUrb
        /\ BeginCycle(stage[channel]).state \in RunningStates /\ Scheduled(BeginCycle(stage[channel]))
    BY <2>2, <2>3, BeginCycleScheduled DEF Fresh
  <2>6. QED
    BY <1>1, <1>2, <2>1, <2>2, <2>3, <2>4, <2>5, TransactionStarted DEF Fresh, IInv
<1>6. QED
  BY <1>3, <1>4, <1>5 DEF ThreadNext

\* The USB interrupt, apart from its channels.
LEMMA UsbInterruptSound ==
  ASSUME IInv, HInv,
         InterruptHandler \/ InterruptReturn \/ CompletionRoutine \/ \E u \in Async : Resubmit(u)
  PROVE  HStep
<1>1. UNCHANGED <<timer, pc, channel>>
  BY DEF InterruptHandler, InterruptReturn, CompletionRoutine, Resubmit, UsbUnchanged
<1>2. \A d \in Channels : (Building(d) => Building(d)') /\ (Armed(d) => Armed(d)')
  BY <1>1 DEF Building, Armed
<1>3. CASE InterruptHandler \/ InterruptReturn \/ CompletionRoutine
  <2>1. UNCHANGED <<stage, hw, allMask>>
    BY <1>3 DEF InterruptHandler, InterruptReturn, CompletionRoutine, stageVars
  <2>2. \A d \in Channels : d \in pending' => d \in pending \/ Raised(d)
    BY <1>3 DEF InterruptHandler, InterruptReturn, CompletionRoutine
  <2>3. QED
    BY <1>2, <2>1, <2>2, NoChannelTouched
<1>4. ASSUME NEW u \in Async, Resubmit(u)
      PROVE  HStep
  <2>1. FreeChannels # {} /\ u # NoUrb /\ u \in Urbs
    BY <1>4, ConstantsAssumption DEF Resubmit, IInv, CallbackState, Urbs
  <2>2. PICK c : c = FirstFree
    OBVIOUS
  <2>3. c \in Channels /\ c \notin channelAllocated /\ ~Live(c) /\ c \notin pending
    BY <2>1, <2>2, FirstFreeIsFree DEF FreeChannels, IInv, ChannelOwnership, InterruptsAreExpected
  <2>4. PICK packets \in 1 .. MaxPackets :
          StartTransaction(c, BeginCycle(NewStage(u, u \in Split, packets)))
    BY <1>4, <2>1, <2>2 DEF Resubmit
  <2>5. PICK split \in BOOLEAN : split = (u \in Split)
    <3>1. CASE u \in Split
      <4>1. (u \in Split) = TRUE
        BY <3>1
      <4>2. QED
        BY <4>1
    <3>2. CASE u \notin Split
      <4>1. (u \in Split) = FALSE
        BY <3>2
      <4>2. QED
        BY <4>1
    <3>3. QED
      BY <3>1, <3>2
  <2> DEFINE n == NewStage(u, split, packets)
  <2>6. n \in GoodStages /\ n.urb = u /\ n.packets > 0
    BY <2>1, BuiltStage
  <2>7. StartTransaction(c, BeginCycle(n))
    BY <2>4, <2>5, Zenon
  <2> HIDE DEF n
  <2>8. /\ BeginCycle(n) \in GoodStages /\ BeginCycle(n).urb # NoUrb
        /\ BeginCycle(n).state \in RunningStates /\ Scheduled(BeginCycle(n))
    BY <2>1, <2>6, BeginCycleScheduled
  <2>9. hw[c].run # "stopping"
    BY <2>3 DEF HInv, ChannelSound
  <2>10. allMask' = allMask \cup {c} /\ pending' = pending
    BY <1>4, <2>1, <2>2 DEF Resubmit
  <2>11. QED
    BY <1>2, <2>3, <2>7, <2>8, <2>9, <2>10, TransactionStarted DEF IInv
<1>5. QED
  BY <1>3, <1>4

\* The timer interrupt.
LEMMA TimerSound ==
  ASSUME IInv, HInv, HandleTimerInterrupt \/ TimerNext
  PROVE  HStep
<1>1. UNCHANGED <<allMask, pending, pc, channel>>
  BY DEF HandleTimerInterrupt, TimerNext, FireTimer, TimerReturn, TimerUnchanged
<1>2. \A d \in Channels : Building(d) => Building(d)'
  BY <1>1 DEF Building
<1>3. CASE HandleTimerInterrupt \/ TimerReturn
  <2>1. UNCHANGED <<stage, hw>>
    BY <1>3 DEF HandleTimerInterrupt, TimerReturn
  <2>2. \A i \in Timers : timer'[i].channel = timer[i].channel
    <3>1. CASE timer' = timer
      BY <3>1
    <3>2. CASE timer' = [i \in Timers |-> IF timer[i].channel = NoChannel THEN timer[i]
                                          ELSE [timer[i] EXCEPT !.left = @ - 1]]
      BY <3>2 DEF IInv, Typed, TypeOK
    <3>3. QED
      BY <1>3, <3>1, <3>2 DEF HandleTimerInterrupt, TimerReturn
  <2>3. \A d \in Channels : Armed(d) => Armed(d)'
    BY <2>2 DEF Armed
  <2>4. QED
    BY <1>1, <1>2, <2>1, <2>3, NoChannelTouched
<1>4. ASSUME NEW i \in Timers, FireTimer(i)
      PROVE  HStep
  <2>1. PICK c : c = timer[i].channel
    OBVIOUS
  <2>2. /\ c \in Channels /\ c # NoChannel /\ Live(c) /\ stage[c].state = "PeriodicDelay"
    BY <1>4, <2>1 DEF FireTimer, Due, IInv, TimerOwnership, Typed, TypeOK
  <2>3. /\ timer' = [timer EXCEPT ![i] = [channel |-> NoChannel, left |-> 0]]
        /\ StartTransaction(c, BeginCycle(stage[c])) /\ cpu = "timer"
    BY <1>4, <2>1 DEF FireTimer
  <2>4. \A d \in Channels \ {c} : Armed(d) => Armed(d)'
    <3>1. \A j \in Timers : timer'[j].channel = IF j = i THEN NoChannel ELSE timer[j].channel
      BY <2>3 DEF IInv, Typed, TypeOK
    <3>2. QED
      BY <2>1, <3>1 DEF Armed
  <2>5. Resting(c) /\ c \in allMask /\ c \notin pending'
    <3>1. ChannelSound(c) /\ stage[c].state \notin RunningStates
      BY <2>2 DEF HInv, RunningStates
    <3>2. Resting(c)
      BY <2>2, <3>1 DEF ChannelSound, Underway, Fresh
    <3>3. QED
      BY <1>1, <2>3, <3>2 DEF IInv, CallbackState, Resting
  <2>6. /\ BeginCycle(stage[c]) \in GoodStages /\ BeginCycle(stage[c]).urb # NoUrb
        /\ BeginCycle(stage[c]).state \in RunningStates /\ Scheduled(BeginCycle(stage[c]))
    BY <2>2, <2>5, BeginCycleScheduled DEF Resting, Live, IInv, Typed
  <2>7. QED
    BY <1>1, <1>2, <2>2, <2>3, <2>4, <2>5, <2>6, TransactionStarted DEF Resting, IInv
<1>5. QED
  BY <1>3, <1>4 DEF TimerNext

\* The controller reports a result, or that it halted the channel.
LEMMA HardwareSound ==
  ASSUME IInv, HInv, HardwareNext
  PROVE  HStep
<1>1. PICK c \in Channels, bits \in SUBSET Bits :
        /\ Report(c, bits) /\ HardwareUnchanged
        /\ \/ hw[c].run = "active" /\ bits \in Results(hw[c].kind)
           \/ hw[c].run = "stopping" /\ bits = {"Halted"}
  <2>1. \A kind \in {"plain", "polled", "start", "complete"} : Results(kind) \subseteq SUBSET Bits
    BY DEF Results, Bits
  <2>2. \A c \in Channels : hw[c].kind \in {"plain", "polled", "start", "complete"}
    BY DEF IInv, Typed, TypeOK, ChannelRegisters
  <2>3. {"Halted"} \in SUBSET Bits
    BY DEF Bits
  <2>4. QED
    BY <2>1, <2>2, <2>3 DEF HardwareNext, TransactionResult, ChannelHalts
<1> DEFINE k == Reported(hw[c], bits)
<1>2. hw[c] \in ChannelRegisters
  BY DEF IInv, Typed, TypeOK
<1>3. /\ k.int = hw[c].int \cup bits /\ k.mask = hw[c].mask /\ k.kind = hw[c].kind
      /\ k.run = IF "Halted" \in bits THEN "idle" ELSE hw[c].run
  BY <1>2 DEF Reported, ChannelRegisters
<1>4. hw' = [hw EXCEPT ![c] = k]
  BY <1>1 DEF Report
<1> HIDE DEF k
<1>5. \A d \in Channels : hw'[d] = IF d = c THEN k ELSE hw[d]
  BY <1>4 DEF IInv, Typed, TypeOK
<1>6. UNCHANGED <<stage, allMask, pending, timer, pc, channel>>
  BY <1>1 DEF HardwareUnchanged
<1>7. \A d \in Channels : (Building(d) => Building(d)') /\ (Armed(d) => Armed(d)')
  BY <1>6 DEF Building, Armed
<1>8. ASSUME NEW d \in Channels, d # c
      PROVE  ChannelSound(d)' /\ NotReprogrammed(d)
  BY <1>5, <1>6, <1>7, <1>8, UntouchedChannel DEF HInv
<1>9. ChannelSound(c)' /\ NotReprogrammed(c)
  <2>1. ChannelSound(c)
    BY DEF HInv
  <2>2. Consistent(k)
    <3>1. Results("start") \subseteq SUBSET {"Ack", "Nyet", "Error", "Halted"}
      BY DEF Results
    <3>2. QED
      BY <1>1, <1>3, <2>1, <3>1 DEF ChannelSound, Consistent
  <2>3. k.run # "stopping"
    BY <1>1, <1>3
  <2>4. (Live(c)' <=> Live(c)) /\ (c \in pending' => Raised(c)')
    BY <1>3, <1>5, <1>6, <2>1 DEF Live, Raised, ChannelSound
  <2>5. Underway(c) => Underway(c)'
    <3>1. AwaitsDisable(stage[c], hw[c]) => AwaitsDisable(stage[c], k)
      BY <1>1, <1>3 DEF AwaitsDisable
    <3>2. AwaitsResult(stage[c], hw[c]) => AwaitsResult(stage[c], k)
      BY <1>1, <1>3 DEF AwaitsResult
    <3>3. QED
      BY <1>5, <1>6, <3>1, <3>2 DEF Underway
  <2>6. (Resting(c) => Resting(c)') /\ (Fresh(c) => Fresh(c)')
    BY <1>5, <1>6, <1>7, <2>3 DEF Resting, Fresh
  <2>7. NotReprogrammed(c)
    BY <1>1, <1>3, <1>5 DEF NotReprogrammed
  <2>8. QED
    BY <1>5, <2>1, <2>2, <2>3, <2>4, <2>5, <2>6, <2>7 DEF ChannelSound
<1>10. QED
  BY <1>8, <1>9 DEF HStep, HInv

-----------------------------------------------------------------------------
(* The invariant.                                                            *)

\* No stage is live before the first request.
LEMMA InitHInv == Init => HInv
<1> SUFFICES ASSUME Init, NEW c \in Channels PROVE ChannelSound(c)
  BY DEF HInv
<1>1. hw[c] = [run |-> "idle", int |-> {}, mask |-> {}, kind |-> "plain"] /\ c \notin pending
  BY DEF Init
<1>2. ~Live(c)
  <2>1. stage[c] = [NewStage(NoUrb, FALSE, 1) EXCEPT !.urb = NoUrb, !.sched.state = "Unknown"]
    BY DEF Init, Destroyed
  <2>2. stage[c].urb = NoUrb
    BY <2>1 DEF NewStage
  <2>3. QED
    BY <2>2 DEF Live
<1>3. QED
  BY <1>1, <1>2 DEF ChannelSound, Consistent

\* Every step, and a step that changes no variable.
LEMMA NextHStep == IInv /\ HInv /\ [Next]_vars => HStep
<1> SUFFICES ASSUME IInv, HInv, [Next]_vars PROVE HStep
  OBVIOUS
<1>1. CASE ThreadNext
  BY <1>1, ThreadSound
<1>2. CASE InterruptHandler
  BY <1>2, UsbInterruptSound
<1>3. CASE InterruptNext
  BY <1>3, HandlerSound, UsbInterruptSound DEF InterruptNext
<1>4. CASE HandleTimerInterrupt \/ TimerNext
  BY <1>4, TimerSound
<1>5. CASE HardwareNext
  BY <1>5, HardwareSound
<1>6. CASE UNCHANGED vars
  <2>1. UNCHANGED <<stage, hw, allMask, pending, pc, channel, timer>>
    BY <1>6 DEF vars
  <2>2. QED
    BY <2>1, NoChannelTouched DEF Building, Armed
<1>7. QED
  BY <1>1, <1>2, <1>3, <1>4, <1>5, <1>6 DEF Next

(***************************************************************************)
(* What the controller holds for a channel and the stage on it agree in    *)
(* every state, for any number of channels, timers and requests.           *)
(***************************************************************************)
THEOREM HardwareInvariance == Spec => [](IInv /\ HInv)
<1>1. Init => IInv /\ HInv
  BY InitIInv, InitHInv
<1>2. IInv /\ HInv /\ [Next]_vars => (IInv /\ HInv)'
  BY NextIInv, NextHStep DEF HStep
<1>3. QED
  BY <1>1, <1>2, PTL DEF Spec

(***************************************************************************)
(* Every started stage has something that moves it on: an armed timer, or  *)
(* a controller that is still to report, with the report unmasked.  There  *)
(* is no timeout that would help a stage without one.                      *)
(***************************************************************************)
THEOREM StagesHaveFuture == Spec => []StageHasFuture
<1>1. IInv /\ HInv => StageHasFuture
  <2> SUFFICES ASSUME IInv, HInv, NEW c \in Channels, Live(c), ~(pc = "start" /\ channel = c)
               PROVE  IF Running(c)
                      THEN /\ c \in allMask /\ "Halted" \in hw[c].mask
                           /\ \/ hw[c].run = "idle" /\ "Halted" \in hw[c].int
                              \/ hw[c].run = "active" /\ stage[c].sub = "WaitForTransactionComplete"
                              \/ hw[c].run = "stopping" /\ stage[c].sub = "WaitForChannelDisable"
                      ELSE \E i \in Timers : timer[i].channel = c
    BY DEF StageHasFuture
  <2>1. Underway(c) \/ Resting(c)
    BY DEF HInv, ChannelSound, Fresh, Building
  <2>2. CASE Underway(c)
    <3>1. Running(c)
      BY <2>2 DEF Underway, Running, RunningStates
    <3>2. "Halted" \in StatusMask(stage[c])
      BY DEF StatusMask
    <3>3. QED
      BY <2>2, <3>1, <3>2 DEF Underway, AwaitsDisable, AwaitsResult
  <2>3. CASE Resting(c)
    BY <2>3 DEF Resting, Running, Armed
  <2>4. QED
    BY <2>1, <2>2, <2>3
<1>2. QED
  BY <1>1, HardwareInvariance, PTL

(***************************************************************************)
(* StartTransaction never programs a channel the controller still runs: it *)
(* waits for the channel to be disabled, whoever calls it.                 *)
(***************************************************************************)
THEOREM NeverReprograms == Spec => NeverReprogramsRunningChannel
<1>1. HStep => \A c \in Channels :
                 hw[c].run # "idle" =>
                   /\ hw'[c].kind = hw[c].kind
                   /\ hw[c].int \subseteq hw'[c].int
                   /\ hw[c].run = "stopping" => hw'[c].run # "active"
  BY DEF HStep, NotReprogrammed
<1>2. IInv /\ HInv /\ [Next]_vars =>
        [\A c \in Channels :
           hw[c].run # "idle" =>
             /\ hw'[c].kind = hw[c].kind
             /\ hw[c].int \subseteq hw'[c].int
             /\ hw[c].run = "stopping" => hw'[c].run # "active"]_vars
  BY <1>1, NextHStep
<1>3. QED
  BY <1>2, HardwareInvariance, PTL DEF Spec, NeverReprogramsRunningChannel

(***************************************************************************)
(* The asserts of the frame schedulers never fail: what a channel can have *)
(* reported when its interrupt is handled fits the state of its scheduler. *)
(***************************************************************************)
THEOREM SchedulersNeverAssert == Spec => []SchedulerAsserts
<1>1. IInv /\ HInv => SchedulerAsserts
  <2> SUFFICES ASSUME IInv, HInv, NEW c \in pending, stage[c].split,
                      stage[c].sub = "WaitForTransactionComplete",
                      hw[c].int # {"Halted"}, "Error" \notin hw[c].int,
                      stage[c].state = "StartSplit" => hw[c].int \cap {"Nak", "Nyet"} = {}
               PROVE  /\ TransactionCompleteAsserts(stage[c].sched, hw[c].int)
                      /\ CompleteSplitAsserts(TransactionComplete(stage[c].sched, hw[c].int))
                      /\ stage[c].packets > 0
    BY DEF SchedulerAsserts
  <2>1. /\ c \in Channels /\ Live(c) /\ Running(c)
        /\ hw[c].int \in SUBSET Bits /\ stage[c].sched \in GoodSchedulers
    BY DEF IInv, InterruptsAreExpected, Typed, TypeOK, GoodStages, ChannelRegisters
  <2>2. Underway(c) /\ Raised(c) /\ Consistent(hw[c])
    BY <2>1 DEF HInv, ChannelSound, Resting, Fresh, Running
  <2>3. Scheduled(stage[c]) /\ AwaitsResult(stage[c], hw[c])
    BY <2>2 DEF Underway, AwaitsDisable
  <2>4. hw[c].int # {} /\ stage[c].state \in {"StartSplit", "CompleteSplit"}
    BY <2>2, <2>3 DEF Underway, Raised, RunningStates, Scheduled
  <2>5. CASE stage[c].state = "StartSplit"
    <3>1. hw[c].kind = "start" /\ stage[c].sched.state = "StartSplit"
      BY <2>3, <2>5 DEF Scheduled, AwaitsResult, TransactionKind
    <3>2. "Ack" \in hw[c].int
      <4>1. hw[c].int \subseteq {"Ack", "Halted"}
        BY <2>2, <2>5, <3>1 DEF Consistent
      <4>2. QED
        BY <2>4, <4>1
    <3>3. TransactionComplete(stage[c].sched, hw[c].int).state = "StartSplitComplete"
      BY <2>1, <3>1, AfterStartSplit
    <3>4. QED
      BY <2>3, <3>1, <3>2, <3>3
      DEF Scheduled, TransactionCompleteAsserts, CompleteSplitAsserts, CompleteSplitResult
  <2>6. CASE stage[c].state = "CompleteSplit"
    <3>1. stage[c].sched.state \in {"CompleteSplit", "CompleteRetry"}
      BY <2>3, <2>6 DEF Scheduled
    <3>2. hw[c].int \cap {"XferComplete", "Nyet", "Ack", "Nak"} # {}
      BY <2>1, <2>4 DEF Bits
    <3>3. TransactionComplete(stage[c].sched, hw[c].int).state
            \in {"CompleteSplitComplete", "CompleteSplitFailed", "CompleteRetry"}
      BY <2>1, <3>1, <3>2, AfterCompleteSplit
    <3>4. QED
      BY <2>3, <3>1, <3>2, <3>3
      DEF Scheduled, TransactionCompleteAsserts, CompleteSplitAsserts, CompleteSplitResult
  <2>7. QED
    BY <2>4, <2>5, <2>6
<1>2. QED
  BY <1>1, HardwareInvariance, PTL

-----------------------------------------------------------------------------
(***************************************************************************)
(* The driver implements UsbRequests.  A step is silent unless it puts a   *)
(* stage on a channel, ends one or reports one: it leaves every request    *)
(* where it is.                                                            *)
(***************************************************************************)
Silent ==
  /\ callback' = callback
  /\ callback # NoUrb => urbStatus' = urbStatus
  /\ \A c \in Channels : stage'[c].urb = stage[c].urb

RequestStep == Requests!Next \/ \A u \in Urbs : PhaseOf(u)' = PhaseOf(u)

LEMMA SilentStep ==
  ASSUME Silent
  PROVE  RequestStep
<1> SUFFICES ASSUME NEW u \in Urbs
             PROVE  PhaseOf(u)' = PhaseOf(u)
  BY DEF RequestStep
<1>1. (\E c \in Channels : stage'[c].urb = u) <=> \E c \in Channels : stage[c].urb = u
  BY DEF Silent
<1>2. callback = u => urbStatus' = urbStatus
  BY ConstantsAssumption DEF Silent
<1>3. QED
  BY <1>1, <1>2 DEF PhaseOf, Silent

\* A request whose stage is destroyed is succeeded or failed, and nothing else moved.
LEMMA FinishStep ==
  ASSUME IInv, NEW c \in Channels, Handling(c), NEW ok \in BOOLEAN, FinishStage(c, ok)
  PROVE  RequestStep
<1>1. PICK u \in Urbs : u = stage[c].urb
  BY HandledStage DEF GoodStages, Live
<1>2. callback = NoUrb /\ callback' = u /\ u # NoUrb /\ stage[c] \in GoodStages
  BY <1>1, HandledStage, ConstantsAssumption DEF Handling, FinishStage
<1>3. \A d \in Channels : stage'[d] = IF d = c THEN Destroyed(stage[c]) ELSE stage[d]
  BY DEF FinishStage, IInv, Typed
<1>4. \A d \in Channels : stage'[d].urb = IF d = c THEN NoUrb ELSE stage[d].urb
  BY <1>2, <1>3, DestroyedGood
<1>5. urbStatus'[u] = ok
  BY <1>1 DEF FinishStage, IInv, Typed, TypeOK
<1>6. PhaseOf(u) = "accepted" /\ \A v \in Urbs : PhaseOf(v) \notin {"succeeded", "failed"}
  BY <1>1, <1>2, ConstantsAssumption DEF PhaseOf
<1>7. PhaseOf(u)' \in {"succeeded", "failed"}
  BY <1>2, <1>5 DEF PhaseOf
<1>8. ASSUME NEW v \in Urbs \ {u}
      PROVE  PhaseOf(v)' = PhaseOf(v)
  <2>1. (\E d \in Channels : stage'[d].urb = v) <=> \E d \in Channels : stage[d].urb = v
    BY <1>1, <1>4, ConstantsAssumption
  <2>2. QED
    BY <1>2, <2>1, ConstantsAssumption DEF PhaseOf
<1>9. Requests!Finish(u)
  BY <1>6, <1>7, <1>8 DEF Requests!Finish, Requests!Reporting
<1>10. QED
  BY <1>9 DEF RequestStep, Requests!Next

\* The transaction of a stage is started for the request of the stage.
LEMMA StartedUrb ==
  ASSUME Typed, NEW c \in Channels, NEW s \in GoodStages, StartTransaction(c, s)
  PROVE  \A d \in Channels : stage'[d].urb = IF d = c THEN s.urb ELSE stage[d].urb
<1>1. PICK t \in GoodStages : stage' = [stage EXCEPT ![c] = t] /\ SameRequest(s, t)
  BY StartTransactionEffect
<1>2. \A d \in Channels : stage'[d] = IF d = c THEN t ELSE stage[d]
  BY <1>1 DEF Typed
<1>3. QED
  BY <1>1, <1>2 DEF SameRequest

\* A handler that goes on with its stage, or gives it a rest, is silent.
LEMMA ContinueSilent ==
  ASSUME IInv, NEW c \in Channels, NEW s \in GoodStages, s.urb = stage[c].urb,
         ContinueStage(c, s) \/ DelayStage(c, s)
  PROVE  RequestStep
<1>1. CASE ContinueStage(c, s)
  BY <1>1, StartedUrb, SilentStep DEF ContinueStage, Silent, IInv
<1>2. CASE DelayStage(c, s)
  <2> DEFINE t == [s EXCEPT !.state = "PeriodicDelay"]
  <2>1. t.urb = s.urb
    BY DEF GoodStages
  <2>2. stage' = [stage EXCEPT ![c] = t] /\ UNCHANGED <<callback, urbStatus>>
    BY <1>2 DEF DelayStage
  <2> HIDE DEF t
  <2>3. \A d \in Channels : stage'[d] = IF d = c THEN t ELSE stage[d]
    BY <2>2 DEF IInv, Typed
  <2>4. QED
    BY <2>1, <2>2, <2>3, SilentStep DEF Silent
<1>3. QED
  BY <1>1, <1>2

\* Behind TransactionComplete.
LEMMA ScheduleStep ==
  ASSUME IInv, NEW c \in Channels, Handling(c), NEW t \in GoodStages, t.urb = stage[c].urb,
         ScheduleCompleteSplit(c, t)
  PROVE  RequestStep
<1> DEFINE sched == CompleteSplit(t.sched)
           next == [t EXCEPT !.sched = sched]
<1>1. sched \in GoodSchedulers
  BY CompleteSplitGood DEF GoodStages
<1>2. \/ ContinueStage(c, next) \/ DelayStage(c, next) \/ ContinueStage(c, BeginCycle(next))
      \/ FinishStage(c, TRUE)
  BY DEF ScheduleCompleteSplit, LeaveCompleteSplit
<1> HIDE DEF sched
<1>3. next \in GoodStages /\ next.urb = t.urb
  BY <1>1 DEF GoodStages
<1> HIDE DEF next
<1>4. BeginCycle(next) \in GoodStages /\ BeginCycle(next).urb = next.urb
  BY <1>3, BeginCycleGood DEF SameRequest
<1>5. TRUE \in BOOLEAN
  OBVIOUS
<1>6. QED
  BY <1>2, <1>3, <1>4, <1>5, ContinueSilent, FinishStep

\* Every way through DWHCIDeviceChannelInterruptHandler.
LEMMA HandlerStep ==
  ASSUME IInv, NEW c \in Channels, ChannelInterruptHandler(c)
  PROVE  RequestStep
<1>1. Handling(c)
  BY DEF ChannelInterruptHandler, ChannelDisabled, RestartHalted, NoSplitComplete,
         StartSplitComplete, CompleteSplitComplete, Completed
<1>2. stage[c] \in GoodStages /\ Status(c) \in SUBSET Bits /\ TRUE \in BOOLEAN /\ FALSE \in BOOLEAN
  BY <1>1, HandledStage DEF Status
<1>3. CASE ChannelDisabled(c)
  <2>1. PICK frame \in Microframes : stage' = [stage EXCEPT ![c] = ChannelStage(stage[c], frame)]
    BY <1>3 DEF ChannelDisabled
  <2>2. SameRequest(stage[c], ChannelStage(stage[c], frame))
    BY <1>2, ChannelStageGood
  <2>3. \A d \in Channels : stage'[d] = IF d = c THEN ChannelStage(stage[c], frame) ELSE stage[d]
    BY <2>1 DEF IInv, Typed
  <2>4. UNCHANGED <<callback, urbStatus>>
    BY <1>3 DEF ChannelDisabled
  <2>5. QED
    BY <2>2, <2>3, <2>4, SilentStep DEF Silent, SameRequest
<1>4. CASE RestartHalted(c)
  <2>1. ContinueStage(c, stage[c])
    BY <1>4 DEF RestartHalted, ContinueStage
  <2>2. QED
    BY <1>2, <2>1, ContinueSilent
<1>5. CASE NoSplitComplete(c)
  <2>1. FinishStage(c, FALSE) \/ FinishStage(c, TRUE) \/ DelayStage(c, stage[c])
    BY <1>5 DEF NoSplitComplete
  <2>2. QED
    BY <1>1, <1>2, <2>1, FinishStep, ContinueSilent
<1>6. CASE StartSplitComplete(c)
  <2> DEFINE sched == TransactionComplete(stage[c].sched, Status(c))
             t == [stage[c] EXCEPT !.sched = sched, !.state = "CompleteSplit", !.splitComplete = TRUE]
  <2>1. FinishStage(c, FALSE) \/ ScheduleCompleteSplit(c, t)
    BY <1>6 DEF StartSplitComplete
  <2>2. sched \in GoodSchedulers
    BY <1>2, TransactionCompleteGood DEF GoodStages
  <2> HIDE DEF sched
  <2>3. t \in GoodStages /\ t.urb = stage[c].urb
    BY <1>2, <2>2 DEF GoodStages, StageStates
  <2> HIDE DEF t
  <2>4. QED
    BY <1>1, <1>2, <2>1, <2>3, FinishStep, ScheduleStep
<1>7. CASE CompleteSplitComplete(c)
  <2> DEFINE s == CountPackets(stage[c], Status(c))
             sched == TransactionComplete(s.sched, Status(c))
             t == [s EXCEPT !.sched = sched]
  <2>1. FinishStage(c, FALSE) \/ ScheduleCompleteSplit(c, t)
    BY <1>7 DEF CompleteSplitComplete
  <2>2. s \in GoodStages /\ SameRequest(stage[c], s)
    BY <1>2, CountPacketsGood
  <2> HIDE DEF s
  <2>3. sched \in GoodSchedulers
    BY <1>2, <2>2, TransactionCompleteGood DEF GoodStages
  <2> HIDE DEF sched
  <2>4. t \in GoodStages /\ t.urb = stage[c].urb
    BY <2>2, <2>3 DEF GoodStages, SameRequest
  <2> HIDE DEF t
  <2>5. QED
    BY <1>1, <1>2, <2>1, <2>4, FinishStep, ScheduleStep
<1>8. QED
  BY <1>3, <1>4, <1>5, <1>6, <1>7 DEF ChannelInterruptHandler

\* A stage is put on a channel no other request has.
LEMMA AcceptStep ==
  ASSUME IInv, BuildStage
  PROVE  RequestStep
<1>1. /\ callback = NoUrb /\ UNCHANGED <<callback, urbStatus>> /\ pc = "build"
      /\ job.urb \in Urbs /\ job.split \in BOOLEAN
  BY DEF BuildStage, ThreadRuns, ThreadUnchanged, IInv, CallbackState, Typed, TypeOK
<1>2. PICK c \in Channels : c = channel /\ ~Live(c)
  BY <1>1 DEF IInv, ThreadState, Typed, TypeOK
<1>3. PICK u \in Urbs : u = job.urb
  BY <1>1
<1>4. \A d \in Channels : stage[d].urb # u
  BY <1>1, <1>3 DEF IInv, ThreadState
<1>5. \A d \in Channels : stage'[d].urb = IF d = c THEN u ELSE stage[d].urb
  <2>1. PICK packets \in 1 .. MaxPackets :
          stage' = [stage EXCEPT ![c] = NewStage(u, job.split, packets)]
    BY <1>2, <1>3 DEF BuildStage
  <2>2. NewStage(u, job.split, packets).urb = u
    BY DEF NewStage
  <2>3. \A d \in Channels : stage'[d] = IF d = c THEN NewStage(u, job.split, packets) ELSE stage[d]
    BY <2>1 DEF IInv, Typed
  <2>4. QED
    BY <2>2, <2>3
<1>6. PhaseOf(u) = "idle" /\ PhaseOf(u)' = "accepted"
  BY <1>1, <1>4, <1>5, ConstantsAssumption DEF PhaseOf
<1>7. \A v \in Urbs \ {u} : PhaseOf(v)' = PhaseOf(v)
  <2>1. \A v \in Urbs \ {u} : (\E d \in Channels : stage'[d].urb = v) <=> \E d \in Channels : stage[d].urb = v
    BY <1>2, <1>5, ConstantsAssumption DEF Live
  <2>2. QED
    BY <1>1, <2>1, ConstantsAssumption DEF PhaseOf
<1> DEFINE accepted == {v \in Urbs : PhaseOf(v) = "accepted"}
<1>8. Cardinality(accepted) < NChannels
  <2> DEFINE f == [v \in accepted |-> CHOOSE d \in Channels : stage[d].urb = v]
  <2>1. ASSUME NEW v \in accepted
        PROVE  f[v] \in Channels \ {c} /\ stage[f[v]].urb = v
    <3>1. \E d \in Channels : stage[d].urb = v
      BY <1>1, ConstantsAssumption DEF PhaseOf
    <3>2. f[v] \in Channels /\ stage[f[v]].urb = v
      BY <3>1
    <3>3. v # NoUrb
      BY ConstantsAssumption
    <3>4. QED
      BY <1>2, <3>2, <3>3 DEF Live
  <2>2. f \in Injection(accepted, Channels \ {c})
    <3>1. f \in [accepted -> Channels \ {c}]
      BY <2>1
    <3>2. \A v, w \in accepted : f[v] = f[w] => v = w
      BY <2>1
    <3> HIDE DEF f
    <3>3. QED
      BY <3>1, <3>2 DEF Injection, IsInjective
  <2> HIDE DEF f, accepted
  <2>3. IsFiniteSet(Channels \ {c}) /\ Cardinality(Channels \ {c}) = NChannels - 1
    BY PoolSizes, FS_RemoveElement
  <2>4. IsFiniteSet(accepted) /\ Cardinality(accepted) <= NChannels - 1
    BY <2>2, <2>3, FS_Injection
  <2>5. Cardinality(accepted) \in Nat /\ NChannels \in Nat
    BY <2>4, FS_CardinalityType, ConstantsAssumption
  <2>6. QED
    BY <2>4, <2>5
<1>9. Requests!InService = accepted
  BY DEF Requests!InService
<1>10. Requests!Accept(u)
  <2>1. Requests!Cardinality(accepted) = Cardinality(accepted)
    BY DEF Cardinality, Requests!Cardinality
  <2>2. QED
    BY <1>6, <1>7, <1>8, <1>9, <2>1 DEF Requests!Accept
<1>11. QED
  BY <1>10 DEF RequestStep, Requests!Next

\* The completion routines report a request; an input device's is accepted at once.
LEMMA ReportStep ==
  ASSUME IInv, CompletionRoutine \/ \E u \in Async : Resubmit(u)
  PROVE  RequestStep
<1>1. PICK u \in Urbs : /\ callback = u /\ callback' = NoUrb
                        /\ \/ u = Sync /\ CompletionRoutine
                           \/ u \in Async /\ Resubmit(u)
  BY DEF CompletionRoutine, Resubmit, Urbs
<1>2. /\ FreeChannels # {} /\ u # NoUrb
      /\ \A d \in Channels : stage[d].urb # u
  BY <1>1, ConstantsAssumption DEF IInv, CallbackState
<1>3. PhaseOf(u) \in {"succeeded", "failed"}
  BY <1>1 DEF PhaseOf
<1>4. CASE u = Sync /\ CompletionRoutine
  <2>1. stage' = stage /\ u \notin Async
    BY <1>4, ConstantsAssumption DEF CompletionRoutine, stageVars
  <2>2. PhaseOf(u)' = "idle"
    BY <1>1, <1>2, <2>1 DEF PhaseOf
  <2>3. \A v \in Urbs \ {u} : PhaseOf(v)' = PhaseOf(v)
    BY <1>1, <2>1, ConstantsAssumption DEF PhaseOf
  <2>4. Requests!Report(u)
    BY <1>3, <2>1, <2>2, <2>3 DEF Requests!Report, Requests!Reporting
  <2>5. QED
    BY <2>4 DEF RequestStep, Requests!Next
<1>5. CASE u \in Async /\ Resubmit(u)
  <2>1. PICK c \in Channels : c = FirstFree /\ ~Live(c)
    BY <1>2, FirstFreeIsFree DEF FreeChannels, IInv, ChannelOwnership
  <2>2. PICK packets \in 1 .. MaxPackets :
          StartTransaction(c, BeginCycle(NewStage(u, u \in Split, packets)))
    BY <1>2, <1>5, <2>1 DEF Resubmit
  <2>3. \A d \in Channels : stage'[d].urb = IF d = c THEN u ELSE stage[d].urb
    <3>1. (u \in Split) \in BOOLEAN
      OBVIOUS
    <3> DEFINE n == NewStage(u, u \in Split, packets)
    <3>2. n \in GoodStages /\ n.urb = u
      BY <3>1, BuiltStage
    <3> HIDE DEF n
    <3>3. BeginCycle(n) \in GoodStages /\ BeginCycle(n).urb = u
      BY <3>2, BeginCycleGood DEF SameRequest
    <3>4. StartTransaction(c, BeginCycle(n))
      BY <2>2 DEF n
    <3>5. QED
      BY <3>3, <3>4, StartedUrb DEF IInv
  <2>4. PhaseOf(u)' = "accepted"
    BY <1>1, <1>2, <2>1, <2>3 DEF PhaseOf
  <2>5. \A v \in Urbs \ {u} : PhaseOf(v)' = PhaseOf(v)
    <3>1. \A v \in Urbs \ {u} : (\E d \in Channels : stage'[d].urb = v) <=> \E d \in Channels : stage[d].urb = v
      BY <2>1, <2>3, ConstantsAssumption DEF Live
    <3>2. QED
      BY <1>1, <3>1, ConstantsAssumption DEF PhaseOf
  <2>6. Requests!Report(u)
    BY <1>3, <1>5, <2>4, <2>5 DEF Requests!Report, Requests!Reporting
  <2>7. QED
    BY <2>6 DEF RequestStep, Requests!Next
<1>6. QED
  BY <1>1, <1>4, <1>5

\* The thread, the interrupts and the controller, apart from those.
LEMMA OtherStep ==
  ASSUME IInv,
         ThreadNext \/ InterruptHandler \/ InterruptReturn \/ HandleTimerInterrupt \/ TimerNext
           \/ HardwareNext \/ UNCHANGED vars
  PROVE  RequestStep
<1>1. CASE ThreadNext
  <2>1. callback = NoUrb /\ UNCHANGED callback
    BY <1>1 DEF ThreadNext, SubmitBlockingRequest, SubmitAsyncRequest, AllocateChannel, BuildStage,
                StartStage, FinishWait, ThreadRuns, ThreadUnchanged, IInv, CallbackState
  <2>2. CASE BuildStage
    BY <2>2, AcceptStep
  <2>3. CASE StartStage
    <3>1. PICK c \in Channels : c = channel
      BY <2>3 DEF StartStage, IInv, ThreadState
    <3>2. BeginCycle(stage[c]) \in GoodStages /\ BeginCycle(stage[c]).urb = stage[c].urb
      BY BeginCycleGood DEF SameRequest, IInv, Typed
    <3>3. StartTransaction(c, BeginCycle(stage[c]))
      BY <2>3, <3>1 DEF StartStage
    <3>4. \A d \in Channels : stage'[d].urb = stage[d].urb
      BY <3>2, <3>3, StartedUrb DEF IInv
    <3>5. QED
      BY <2>1, <3>4, SilentStep DEF Silent
  <2>4. CASE UNCHANGED stage
    BY <2>1, <2>4, SilentStep DEF Silent
  <2>5. QED
    BY <1>1, <2>2, <2>3, <2>4 DEF ThreadNext, SubmitBlockingRequest, SubmitAsyncRequest,
                                  AllocateChannel, FinishWait, stageVars
<1>2. CASE \E i \in Timers : FireTimer(i)
  <2>1. PICK i \in Timers : FireTimer(i)
    BY <1>2
  <2>2. PICK c \in Channels : c = timer[i].channel
    BY <2>1 DEF FireTimer, Due, IInv, Typed, TypeOK
  <2>3. BeginCycle(stage[c]) \in GoodStages /\ BeginCycle(stage[c]).urb = stage[c].urb
    BY BeginCycleGood DEF SameRequest, IInv, Typed
  <2>4. StartTransaction(c, BeginCycle(stage[c])) /\ UNCHANGED <<callback, urbStatus>>
    BY <2>1, <2>2 DEF FireTimer, TimerUnchanged
  <2>5. \A d \in Channels : stage'[d].urb = stage[d].urb
    BY <2>3, <2>4, StartedUrb DEF IInv
  <2>6. QED
    BY <2>4, <2>5, SilentStep DEF Silent
<1>3. CASE UNCHANGED <<stage, callback, urbStatus>>
  BY <1>3, SilentStep DEF Silent
<1>4. QED
  BY <1>1, <1>2, <1>3 DEF InterruptHandler, InterruptReturn, HandleTimerInterrupt, TimerNext,
       TimerReturn, TimerUnchanged, HardwareNext, TransactionResult, ChannelHalts,
       HardwareUnchanged, stageVars, vars

(***************************************************************************)
(* The driver implements UsbRequests: every stage that is accepted ends,   *)
(* succeeded or failed, and is reported to its completion routine exactly  *)
(* once, one report at a time; never are more stages in service than there *)
(* are channels.                                                           *)
(***************************************************************************)
THEOREM DriverImplementsRequests == Spec => ImplementsRequests
<1>1. Init => Requests!Init
  <2> SUFFICES ASSUME Init, NEW u \in Urbs PROVE PhaseOf(u) = "idle"
    BY DEF Requests!Init
  <2>1. ~InService(u)
    BY InitIInv, ConstantsAssumption DEF Init, IInv, OnlyStartedDevices, WaitingMatchesRequest,
       SyncInService, InService, Urbs
  <2>2. QED
    BY <2>1 DEF PhaseOf, InService
<1>2. IInv /\ [Next]_vars => [Requests!Next]_([u \in Urbs |-> PhaseOf(u)])
  <2> SUFFICES ASSUME IInv, [Next]_vars
               PROVE  [Requests!Next]_([u \in Urbs |-> PhaseOf(u)])
    OBVIOUS
  <2>1. RequestStep
    BY HandlerStep, ReportStep, OtherStep DEF Next, InterruptNext
  <2>2. QED
    BY <2>1 DEF RequestStep
<1>3. QED
  BY <1>1, <1>2, Invariance, PTL DEF Spec, ImplementsRequests, Requests!Spec
=============================================================================
