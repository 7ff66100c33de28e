# A specification of the duos kernel

duos is a small kernel for the Raspberry Pi 1 (`RASPPI=1`). It has one processor,
one kernel thread (`KernelMain`), a USB stack derived from USPi, and interrupt
handlers that do much of that stack's work. This directory holds TLA+ modules of
the parts of it that keep state, configurations that check them with TLC, and
proofs that TLAPS checks. The source is `src/`; paths below are relative to
`src/Kernel/` unless they say otherwise. The repository has no tests and no
design document; what it promises about itself is in comments and in asserts.
`assert` (`support/Assert.h`) logs and goes on, so a failed assert is not a stop,
and the models go on after one too.

## 1. Inventory

| Component | Source | State | Operations | Module |
|---|---|---|---|---|
| USB host driver | `usb/dwhcidevice.cpp`, `usb/dwhcixferstagedata.cpp`, `usb/usbrequest.cpp` | `m_nChannelAllocated`, `m_StageData`, `m_bWaiting`, the channel registers, `s_kernelTimers` | blocking and asynchronous submission, channel and timer interrupts, completion, resubmission | `Dwhci`, abstract `UsbRequests` |
| Frame schedulers | `usb/dwhciframesched*.cpp` | `m_nState`, `m_nTries`, `m_nNextFrame` | `StartSplit`, `CompleteSplit`, `TransactionComplete`, `WaitForFrame` | `FrameScheduler` |
| Endpoints and requests | `usb/usbendpoint.cpp`, `SubmitBlockingRequest`, the stage data | `m_NextPID`, stage, length of the result | control and bulk requests, stage by stage | `UsbEndpoint`, `Transfers` |
| Enumeration | `usb/usbdevice.cpp`, `usb/usbstandardhub.cpp`, `usb/dwhcirootport.cpp`, `usb/usbfunction.cpp`, `usb/DeviceNameService.cpp`, `usb/uspilibrary.cpp`, `Main.cpp` | the tree of device objects, `s_ucNextAddress`, names | initialise, address, configure, ports of a hub, over-current | `Enumeration` |
| Kernel timers | `task/TaskTimer.cpp` | `CLO`, `C3`, `tickCount`, `s_kernelTimers` | `HandleTimerInterrupt`, `StartKernelTimer` | `TaskTimer`, abstract `KernelTimers` |
| Heap | `mem/Memory.cpp` | two pointers, free lists, counts | `Allocate`, `Deallocate`, `AllocatePage`, `DeallocatePage` | `Memory`, abstract `Heap` |
| Interrupts | `board/Interrupt.cpp`, `board/InterruptHandlers.cpp`, `board/InterruptStubs.S` | CPSR, nesting depth, handler table, enable bits | critical sections, `Register`, `Unregister`, `InterruptHandler` | `Interrupts` |
| Tasks | `task/Task.cpp`, `src/Ati/IntrusiveList.h`, `task/ContextSwitch.s` | two lists, current task | `Create`, `Preempt`, `Cleanup` | `Tasks` |
| Configurations | `usb/usbconfigparser.cpp`, `usb/usbfunction.cpp`, `usb/usbdevice.cpp`, `usb/usbdevicefactory.cpp`, `Configure` of the drivers | the parser's position, `m_pFunction[]`, the endpoints of a function | validate, walk, choose a driver, choose endpoints | `Configurations` |
| Mass storage | `usb/usbmassdevice.cpp` | `m_ullOffset`, `m_nCWBTag`, packet identifiers | `Configure`, `Seek`, `Read`, `Write`, `Reset` | `MassStorage` |
| Keyboard and key map | `usb/usbkeyboard.cpp`, `usb/keymap.cpp`, `usb/keymap/keymap_us.h` | last code, last LED status, locks, handlers | `Configure`, completion routine, `UpdateLEDs` | `UsbKeyboard`, `KeyMap` |
| LAN adapters | `usb/lan7800.cpp`, `usb/smsc951x.cpp` | the registers of the chip | `Configure`, `SendFrame`, `ReceiveFrame`, `IsLinkUp` | `Ethernet` |
| Game pad | `usb/usbgamepad.cpp` | report descriptor, `m_State`, `m_nReportSize` | `Configure`, completion routine, `GetReport` | `GamePad` |
| Terminal | `support/flanterm.c`, `support/flanterm-fb.c`, `support/Logging.cpp` | parser state, rendition, grid, queue of changes, framebuffer | `flanterm_fb_init`, `flanterm_write` | `FlantermFb`, `Flanterm`, `Terminal` |

How they interact. The kernel thread starts everything and then only blinks a
LED. `Enumeration` runs in the thread and sends *blocking* control messages; each
is a request whose stages (`Transfers`) are carried out by `Dwhci`: the thread
allocates a channel, builds the stage, starts the first transaction and spins on
`m_bWaiting`; the *USB interrupt* moves the stage on (split cycles, errors,
periodic delays), frees the channel and calls the completion routine. For the
keyboard, mouse, MIDI and game pad the completion routine submits the same
request again, from interrupt context. A polled endpoint that has nothing to say
is given a rest by a *kernel timer* (`TaskTimer`), whose handler, in the *timer
interrupt*, starts the transaction again. All allocate from one heap (`Memory`), in both
contexts, protected by the critical sections of `Interrupts`. What a device offers is
found out by the parser (`Configurations`), and each interface gets a driver:
`UsbKeyboard`, `GamePad`, `MassStorage` or `Ethernet`. Everything logs; the log goes
to the UART and, piece by piece, to the terminal (`Terminal` over `Flanterm` over `FlantermFb`).

What is hard here: three contexts (thread, USB interrupt, timer interrupt) and a
controller that runs beside them; a snapshot of pending interrupts that is
handled after it is out of date; pools (channels, timers, heap) used from
interrupt context with unchecked results; counters that wrap around (clock,
ticks, microframes, addresses); requests that fail between their stages; hubs
that give up in the middle; one blocking call without a timeout; answers of a
disk that arrive after the command they belong to was given up; and a terminal that
keeps four versions of the truth (attributes, colours, grid, pixels) through
sequences that may stop anywhere.
`PROJECT.json` lists every such hazard with its line and the properties that
would catch it.

## 2. Modules

`Dwhci` (on `FrameScheduler`) is the core; the other systems are modules of their
own because they share with it only what a constant or an assumption can say:

* `Dwhci` assumes that critical sections are atomic, which `Interrupts` shows;
* `Dwhci` needs a timer for every channel, and `TaskTimer` needs that no more
  than 16 channels use timers: `NChannels <= NTimers` in the one,
  `Cardinality(Clients) <= NTimers` in the other;
* `Transfers` takes from `Dwhci` that a transaction succeeds or fails, once;
* `Enumeration` takes from `Dwhci` that every blocking request returns
  (`BlockingRequestReturns`), its only fairness;
* the function drivers take from `Dwhci` and `Transfers` that a transfer succeeds or fails,
  at any time; `UsbFunctions` composes them, one device plugged in at a time, as they share
  nothing but the host controller.

**Slips.** Each module has operators whose comment begins with `Slip:`. They are
mistakes the source does *not* make: a guard left out, an order changed. No
action uses them. For every property of every run there is one slip that, put in
the place of the definition after it, makes TLC report that property. So
every property is known to depend on the code it is about.

**Proofs.** The theorems about `M` are in `MProofs`, which extends it, those about the function drivers
in `UsbFunctionsProofs`, on the invariants of `UsbFunctionsInvariants`; section 6 says what they show and along which argument.

### Dwhci, FrameScheduler, UsbRequests

| Code | Model |
|---|---|
| `m_nChannelAllocated`, `m_StageData[]`, `m_bWaiting` | `channelAllocated`, `stage`, `waiting` |
| `HCCHAR`, `HCINT`, `HCINTMSK` of a channel; `HAINTMSK` | `hw[c]`; `allMask` |
| `s_kernelTimers` | `timer`, as ticks left (the table itself is `TaskTimer`) |
| thread: `TransferStage`, `TransferStageAsync` | `SubmitBlockingRequest`, `SubmitAsyncRequest`, `AllocateChannel`, `BuildStage`, `StartStage`, `FinishWait` |
| `InterruptHandler` and its snapshot | `InterruptHandler`, `pending`, `InterruptReturn` |
| `ChannelInterruptHandler`, by substate and state | `ChannelDisabled`, `RestartHalted`, `NoSplitComplete`, `StartSplitComplete`, `CompleteSplitComplete` |
| `CompletionRoutine`s | `CompletionRoutine`, `Resubmit` |
| `HandleTimerInterrupt`, `TimerHandler` | `HandleTimerInterrupt`, `FireTimer`, `TimerReturn` |
| the controller | `TransactionResult`, `ChannelHalts` |

The thread's steps are cut where an interrupt can come between accesses to
shared state; an interrupt handler is never preempted, and is cut where its loop
goes to the next channel and where it calls a completion routine, so that
invariants are stated there as well.

`UsbRequests` is what a class driver may rely on: a request that was accepted
completes exactly once, and only then is its status valid; a completion routine
may submit again at once. `ImplementsRequests` is the refinement.

Assumed of the controller (external): NAK and NYET reach the driver only for
split and polled transactions; a start-split never reports `XferComplete` (the
source asserts `ACK` there) and leaves the packet count alone; a complete-split
with `XferComplete` carried one packet; setup and status stages are one packet; a
channel asked to stop halts. One thread makes blocking requests: the calls of
`Tasks::Create` are commented out in `Main.cpp:90-91`. Waits of the frame schedulers
are left out, as is the scheduler of transfers that are not split, which does
nothing else. `CancelKernelTimer` has no caller in the build.

### Transfers, UsbEndpoint

A device with endpoint 0 and bulk endpoints. Host and device each keep the packet
identifier that comes next and cannot see each other's. `SubmitBlockingRequest`,
`TransferStage`, then one `Succeed(n)` or `Fail(n)` per transaction. Behind a hub a
transaction is one packet. Which stage is the setup stage is decided, as in the
code, by the identifier of the endpoint. The device (external) takes every setup
packet and answers anything else only in its place. Behind a hub drivers ask for
no more packets than the device sends: a stage of split transactions has no end
otherwise.

### Enumeration

The tree of places and what may be plugged in there are constants; what is there,
at what speed, and which message fails, is chosen by the model. One object per
place, `at[d]` says how far `USBDeviceInitialize` and `USBDeviceConfigure` got; the call
stack is the tree itself, `current` is the device the thread works on. A failed
message may or may not have had its effect. The bus has `link` and `busAddress`: a
message to the default address is heard by every enabled device that still has
it, which is how two devices could come to the same address. A device has one
function; a keyboard finds a channel to start on (there are fewer keyboards than
channels).

### TaskTimer, KernelTimers

`Microsecond` advances `CLO`; the handler is cut after each access to the timer's
registers, since time goes on in between. Both counters wrap around. Assumed: a
match is cleared less than a period (10 ms) after it came. `KernelTimers` promises
that a timer started with delay *d* fires in the *d*-th tick from then on, once, and
`ImplementsTimers` maps the table of expirations modulo 2^32 to it.

### Memory, Heap

Addresses are in units of `BLOCK_ALIGN`. `Allocate` is its critical section; the code
behind the section is `ReturnBlock`, between which the other caller may do
anything. `Overshoot` bounds how far requests that failed push the pointers past their
limits; that a pointer wraps around at 2^32 after very many of them is left out. `Heap` promises disjoint ranges.

### Interrupts

Each access of `EnterCriticalSection`, `Register` and `Unregister` is a step. An
interrupt is taken before any step of the thread while interrupts are enabled and
something enabled is pending. `MaxRaises` bounds how often a device raises its interrupt.

### Tasks

`IntrusiveList` with its links as functions on memory blocks, freed ones included,
since `s_tasks` still leads through them. Stacks, registers, and the memory calls of
`Cleanup` are left out. A new task starts in the mode of the interrupt handler, with
interrupts off, so only the idle task is preempted. No code of the build creates a
task; the model lets the idle task and every other do so.

### Configurations

A configuration is a sequence of descriptors; interfaces and alternate settings are
numbered as devices do it. `DescriptorFrom` and `After0` are one call of
`USBConfigurationParserGetDescriptor`, `NextInterface` one turn of the loop of
`USBDeviceInitialize`, `Choice` the search of each driver's `Configure` from its own copy of the
parser. `FunctionsOwnEndpoints` needs `Orderly`: the searches for a HID or a class
descriptor do not stop at the next interface, so a mouse without a HID descriptor takes the
endpoint of the keyboard that follows it. Devices have these descriptors.

### MassStorage

`SendCommand`, `MoveData` and `ReadStatus` are the three transfers of a command, `ResetDevice` and
`ClearHalt` the messages of `Reset`, `Again` its end and the loop of `Read` and `Write`. Each transfer may be lost, or
done without the host hearing of it. The device (external) keeps a medium, a queue of what it has not
sent, halts and packet identifiers. A message of `Reset` that fails ends the call; it may have had its effect.
`SuccessIsReal` is about every device.

What the messages of `Reset` do is up to the device (`drive.obeys`). The second and the third clear the halt of
the fixed endpoint addresses 1 and 2 (`usb/usbmassdevice.cpp:583`, 589), whatever the endpoints that `Configure` found. Without the
direction bit these are endpoints *to* the device: a disk whose endpoint to the host is 0x81 never has
that one cleared, while the driver sets its own identifier for it back to the first (line 595). So the retries are
worth less than their number:

* The endpoint to the host stays halted once a refused read halted it, and stays at the second
  identifier when an odd number of packets had come. Each later try then fails as well (`Deaf`).
* A device may refuse to clear an endpoint it does not have (`NotReset`). One that has one endpoint to the device and is strict
  refuses one of the two messages, which ends the call at its first failed try; the next call finds the two out of step.

`RetriesSuffice` says what is left: with a device that forgets its command when it is reset, takes both messages, and has
the endpoint one of them names (`Resets`), a call that could succeed fails only after four faults, or when it is `Deaf`.

### UsbKeyboard, KeyMap

`KeyMap` has the tables by what the properties tell apart: letters, signs, special keys, keypad. The keyboard
(external) holds keys and modifiers, and queues reports. `Meant` is what a press means to its user, written
without the driver's tables. `Completed` is the completion routine with handlers and locks.
`TypedIsPressed` needs that keys are released in the order they were pressed (`tidy`): the driver
remembers one code, so releasing a later key first types the earlier one again.

### Ethernet

A call is the list of register accesses it still has to make; each is a message that may fail.
The chip's registers decide what it transmits and receives, and resets and PHY accesses take time.
Either chip starts with or without several frames in a transfer (`MEF`) and with or without transfers that wait for a frame
(`BIR`). `Configure` of the LAN7800 turns both off; that of the SMSC951x never writes `HW_CFG`, and its
`ReceiveFrame` supposes `BIR` (`usb/smsc951x.cpp:354`). So an SMSC951x keeps what it started with, and `EthernetWorks` says what that costs: with
`MEF` frames behind the first are lost and the assert that nothing follows may fail (`Combines`), with `BIR` a call waits (`MakesWait`).

### GamePad

The report descriptor as a list of items, `Item` one turn of the decoding loop, `BitGetUnsigned` on
bytes. `m_State` is the words of `USPiGamePadState` one after the other, because the code bounds the number of axes and of hats
for each item and not in all (`usb/usbgamepad.cpp:290`, 301): an axis too many is written over `nhats` and the hats behind the array. As
long as nothing is written behind `m_State` itself (`GamePadAssumption`: no more than 9 axes and 8 hats) the model does the same.

`ValueOf` is what a control means, from the report as one number, with its sign. `ReportIsDecoded` compares control by control: each that
lies within a byte is read right, whatever comes before it, controls that cross bytes included. Those that cross bytes are left
out: `BitGetUnsigned` puts the bytes together in the wrong order. So are hats and buttons behind axes that do not fit.

### FlantermFb, Flanterm, Terminal

A context is one record. `FlantermFb` has grid, queue of changes and pixels, three columns of a
glyph standing for all; `Flanterm` is `flanterm_putchar` byte by byte with the parsers of escape
and control sequences, UTF-8, character sets and renditions. `Terminal` sets it up in a pool and writes to it in
pieces. The kernel sets no callback and no background picture.

## 3. Runs

| Run | Instance | Shows |
|---|---|---|
| `dwhci_split` | a keyboard behind a hub, a mouse, a bulk device and blocking requests on 2 channels and 2 timers | ownership of channels and timers, no interrupt without a stage, no stage without a future, no running channel is programmed; the pool runs out and no device falls silent; `m_bWaiting` is exact; `UsbRequests` is implemented |
| `dwhci_poll` | 1 channel, keyboard behind a hub, blocking requests, stages of 1 or 2 packets, fair | a blocking request returns; the keyboard is served again and again; no assert of scheduler or handler fails |
| `task_timer` | clock modulo 7, period 3, latency 2, ticks modulo 8, 2 timers, delays 0, 1, 3 | tick and timers over many wrap-arounds, liveness |
| `memory` | 30 units, two bucket sizes, a size too large for both, pages, two callers | heap until exhausted and beyond, refinement |
| `transfers` | endpoint 0, a bulk endpoint each way, up to 3 packets, split or not | host and device agree; success means done |
| `transfers_assert` | the same | *violated*, see 5 |
| `interrupts` | a GPU interrupt before and after another (1 and 3), nesting 2, 2 raises each | sections, restoration, registration, service |
| `tasks` | 4 blocks, 7 tasks | run queue, no task lost, order of first runs |
| `tasks_idle` | the same | *violated*, see 5 |
| `enumeration` | root hub with 2 ports, a second hub on one of them, at most 4 devices, 3 addresses | addresses, translators, end state, termination |
| `functions` | one device: configurations of up to 3 settings, a disk of one block with up to 4 faults, two key presses among 6 keys, two frames, game pads of 6 layouts | for each: functions own their endpoints, what the disk reports is so and its retries are good for four faults, what is typed is what was pressed, LEDs follow the locks, the adapter works, reports are decoded |
| `terminal` | 3 by 3 cells, seven sessions of 3 to 5 pieces, pools too small or not | pixels and grid agree, edits mean what they should, nothing is left of a cancelled sequence, renditions stay, setup is all or nothing |

Why the bounds are enough to be interesting. Two channels make
every pair of handlers meet in one snapshot, and with four requests the pool runs out. Two packets (in `dwhci_poll`) make a split stage go
through a second cycle. Microframe 4 makes the count of the scheduler pass 5, where the
number of tries changes, and the wrap at 8. Clock 7 and period 3 are coprime, so that
every phase of wrap-around occurs. Three addresses for four places exhaust the
addresses; the second hub gives a chain in which the nearest high-speed hub is
not the parent. Four blocks for seven tasks reuse freed blocks. 30 units of memory
give room for two or three blocks and three pages, less than two callers can use.
Four faults are as many as `Read` and `Write` have tries; counts of 0, 512, 513 and 2^25 are nothing, a block, no
multiple of one, and one whose number of blocks is 0 in 16 bits. `Obedience` has disks on which no message of a reset has an
effect, only that for endpoint 1, or the first and that for the one endpoint they have; of a disk that no reset reaches two faults (`MaxStray`) show all there is to
see. The layouts of game pads have axes with and without sign, in one item, in two, and one too many, controls behind one that
crosses bytes, constants, two reports, and no control. Three by three cells have a line inside, above and
below a scrolled region; the pieces of a session include halves of sequences, so that every byte of one can
be the last.

The invariants `TickKeepsUp`, `HeapIsSound` and `ListsAreSound` are conjunctions of named parts: the type
invariant of the module and what else holds at any time.

Deadlock is checked except where the system stops: `memory` (the heap is exhausted, its
pointers at `Overshoot`), `tasks` (a `Cleanup` with nobody waiting leaves the tasks, and `MaxTasks` ends
`Create`), `enumeration` (it is done), `functions` and `terminal` (their bounds on calls and pieces are reached).

## 4. Fairness

* `Dwhci!FairSpec`. The thread runs whenever no handler does: strong fairness, because
  interrupts come and go. Both interrupt lines: strong, since the lines can be busy with
  one another. Handlers: weak, nothing preempts them. A channel asked to halt does. A
  device that is asked again and again for the same kind of transaction at last
  completes one: without this a device that answers NAK for ever would make a blocking
  request wait for ever, and the driver has no timeout.
* `TaskTimer!FairSpec`: time passes, and an enabled interrupt is served.
* `Interrupts!FairSpec`: a section and a handler end; the processor goes on.
  With a bounded number of raises the interrupts before another one run dry; without
  the bound a device that never stops raising an interrupt before it starves it.
* `Enumeration!FairSpec`: weak fairness of the whole step, from `BlockingRequestReturns`.

## 5. Where code and its own words disagree

* `transfers_assert`. Only the end of a status stage sets `m_NextPID` of endpoint 0 back to
  SETUP (`usb/usbendpoint.cpp:224`). After a control request that failed behind its
  setup stage the next one is sent without a setup packet; if it has no data its first stage
  has no buffer, which `usb/dwhcixferstagedata.cpp:83` asserts cannot be.
* `tasks_idle`. A `Task` has one pair of links for both lists. When the idle task waits behind
  the task created last, `s_tasks.Add` in the next `Create` cuts it off `s_runQueue`. `Cleanup`
  says "We always have the kernel idle task to keep us company." (`task/Task.cpp:70`).
  `NoTaskIsLost` shows that no *other* task is lost this way.

Seen while modelling, without a run of its own:

* `KernelMain` logs that there is no keyboard and registers its handler with
  it all the same (`Main.cpp:82-86`), against the assert of `usb/uspilibrary.cpp:96`.
* MIDI takes the *last* bulk-in endpoint with a class descriptor, although its comment says
  "we'll take the first MIDI streaming bulk-in endpoint on this interface we can find"
  (`usb/usbmidi.cpp:82`): there is no `break`, and with two of them the assert of line 103 fails.
* A descriptor of length 0 keeps `USBConfigurationParser` in its loop (`usb/usbconfigparser.cpp:72`).
* `Reset` clears the halt of fixed endpoints, both to the device, and never that of the endpoint to the host, "endpoint 1" and
  "endpoint 2" in its messages (`usb/usbmassdevice.cpp:584`, 590); see `MassStorage` in section 2.
* After a `Reset` that failed, the next call may find the disk in the middle of a command and wait for it without end;
  bulk transfers have no timeout. `RetriesSuffice` leaves that call out.
* Num Lock is on at the start (`usb/keymap.cpp`) while `Configure` turns the LED off, and nobody in the kernel calls
  `UpdateLEDs`; a message that fails is not sent again (`usb/usbkeyboard.cpp:190`).
* `BitGetUnsigned` takes bytes in big-endian order and does not mask the last one (`usb/usbgamepad.cpp:144-169`).
* `HW_CFG` of the SMSC951x is never written, although `usb/smsc951x.cpp:354` says "should not happen with HW_CFG_BIR set".
* `flanterm-fb.c:787` compares a row with the number of columns; bold and blink in reverse video take
  the default colour of the other side (`flanterm.c:147-153`), which `RenditionIsKept` leaves out;
  erasing with a wrap pending erases the line below.

## 6. Proofs

All theorems hold for every value of the constants that `ConstantsAssumption` of the
module allows; TLC evaluates these assumptions in every run. An assumption is either one the code
justifies (`NChannels <= NTimers`; `Cardinality(Clients) <= NTimers`; delays of less than half the
width of the tick counter; `NDevices <= 2 * MaxAddress`, beyond which `s_ucNextAddress`, a byte that
is never reset, would wrap around) or says that a placeholder such as `None` is not one of
the things it stands in for.

Each module proves `Spec => []IInv` for its inductive invariant (in most modules `Invariance`; `DwhciProofs` adds `HardwareInvariance`, and `UsbFunctionsProofs` has one for each driver), and each
other theorem from that. What `IInv` has beyond the properties themselves, and why, is said below.

**`DwhciProofs`** (any number of channels, timers, devices, packets). `TypeCorrect`, `ChannelsAreOwned`,
`InterruptsFindStages`, `TimersAreOwned`, `WaitIsExact`, `StreamsLive`; and, with the controller, `StagesHaveFuture`,
`SchedulersNeverAssert`, `NeverReprograms`, `DriverImplementsRequests`. `IInv` adds:

* `Typed`: `TypeOK`, and that every stage has a scheduler whose counters are in range;
* `PollsHaveInterval`: only a periodic endpoint of a device is ever in its periodic delay;
* `ThreadState`: what `channel` and `job` are in each step of the thread, in particular that
  the stage the thread is building has seen no interrupt;
* `CallbackState`: while a completion routine is due, its URB is on no channel and a channel
  is free, the one just given back. This is why the ignored result of
  `usb/usbkeyboard.cpp:340` never matters;
* `OnlyStartedDevices`: a device in service was started.

The steps of the handlers fall in three groups, each a lemma: a stage moves on
(`StageMoved`), its endpoint is given a rest, it ends. `InterruptsAreExpected` carries the
argument about the stale snapshot: a channel that is still `pending` cannot have been freed, as
only the handling of that very channel, or the thread, which does not run, frees one.

The controller takes a second invariant: `HInv` says channel by
channel how the registers of the controller (`hw[c]`) fit the stage on the channel: it is asked to halt
and nothing but that is unmasked, or it carries out the transaction the stage expects, with just that
kind of report unmasked (`Underway`); or it rests with a timer armed (`Resting`); or it is being built
(`Fresh`). `Scheduled` ties the state of the stage to that of its frame scheduler, and
`Consistent` bounds what a controller can have reported. From `HardwareInvariance`:
`StagesHaveFuture`, `SchedulersNeverAssert`, `NeverReprograms` (an action property, proved with
the invariant, step by step), and `DriverImplementsRequests`: each step of the driver is a step of
`UsbRequests` or none. That a timer is always found is a pigeonhole argument on
`NChannels <= NTimers` and on `TimerOwnership`.

**`TransfersProofs`** (any endpoints, any number of packets). `SuccessIsDone`,
`DeviceAlwaysAccepts`. A control endpoint without errors is in its setup, data or status stage
at both ends, with the same identifier and the same number of packets left (`ControlInStep`); a bulk endpoint
has the same identifier at both ends, between transfers too (`BulkInStep`). The lemmas
behind it say what the stages of a request of each kind are, what `SkipPID` does to an identifier behind each,
and what the device does with a transaction in its place. The invariant speaks of endpoints without errors only, since the one
with errors is the finding `transfers_assert`.

**`TaskTimerProofs`** (counters of any width, any period, latency, delays and timers).
`HandlerKeepsUp`, `TableImplementsTimers`. Because both counters wrap around, everything is said by differences:
`ClockSound` is how far `CLO` is from `C3` at each step of the handler, which moves `C3` on
while the match is still pending; `NeverLate` is that no expiration is more than a tick behind, so that the
signed difference of `TaskTimer.cpp:110` never changes sign wrongly. With `OneTimerEach` the table maps to
`KernelTimers`, each timer to the ticks it has left.

**`EnumerationProofs`** (any tree of hubs, any number of ports). `OneAnswers`,
`TranslatorsAreNearest`, `AllUsable`. The recursion of the code is on the call stack and the program keeps no record of the
past, so the invariant supplies both: `Chain` (the device the thread works on is the bottom of a path of
hubs, all others are at rest), `ObjectsOnce` (there are sets of the devices that ever had an
object and of those that used an address, the objects of a hub's ports come in the order of the ports, and
no address was given out more often than a device took one), `Addressed`, `AddressesDiffer`
(a live device is the only one at its address, the default address included), `InOrder` (behind a hub all are initialised before
the first is configured) and `Linked` (only a hub that is going to be given up has cut off devices).

**`MemoryProofs`** (any memory, bucket sizes, requests, callers). `HeapStaysSound`,
`HeapImplements`. `HeapIsSound` alone is not inductive: an allocation pops the head of a list, and what is behind the head must be
known to be the rest of what is free. `Lists` says so: the free list of a bucket is a chain, without repetition, of exactly
the free blocks. `Carved` bounds all blocks and pages by the two pointers, and `Single` says that
a block is with one user or with one caller between the two sections of `Allocate`, and not with both.
`HeapImplements` maps blocks and pages that are with users to ranges of `Heap`.

**`TasksProofs`** (any number of tasks, any reuse of blocks). `ListsStaySound`,
`CreationOrder` (an action property). Both lists share the links of a task, so a queue that is merely acyclic may be
cut by the next `Create`. `RunQueueIsChain`: the run queue is a chain of exactly the tasks that wait, in the order of their creation, the idle task
anywhere between them. `TailIsNewest`: the link that `s_tasks.Add` overwrites is that of the newest task. So it waits behind all
others but the idle task, or does not wait, and what a `Create` cuts off is the idle task, which is the finding `tasks_idle`, and no other.

**`InterruptsProofs`** (any set of interrupts, nesting, and number of raises).
`TypeCorrect`, `CriticalSectionsExclude`, `InterruptsAreRestored`, `HandlersAreRegistered`. `IInv` adds
that the nesting depth is that of the running context (`CountIsOfRunning`), that what
`Status()` returned is still true when it is used (`StatusIsCurrent`: an interrupt in between
ends with the CPSR it found), whose flag is saved (`SavedIsOfRunning`), and what may be
half done in the table (`TableIsComplete`, `NothingLeftOpen`).

**`UsbFunctionsProofs`** (any key map entry and set of handlers, any medium, offset and count, any chip, frames and number of turns of
a wait, any configuration; and any number of failed transfers). As `UsbFunctions` runs one driver at a time, each driver has an invariant
of its own, and `KeyboardSteps`, `StorageSteps`, `EthernetSteps` and `ConfigurationSteps` say that the
whole takes that driver's steps or none. Assumed is that no key has the code 0, which stands for none (`KeyCodesAssumption`), that interface numbers fit in
their byte and an interface is followed by endpoints and class descriptors (`ConfigurationAssumption`), and of the other constants that they are
numbers (`StorageAssumption`, `EthernetAssumption`). Tags of commands are counted without the wrap-around of
`m_nCWBTag` after 2^32 commands.

* *Keyboard*: `KeyboardTypeCorrect`, `LedsAlwaysFollow`, `TypingIsCorrect`. `MapIsLabels` goes through the key map row by row: what the driver
  makes of a code is what is on the key. `LedsInv` says which of its two copies of the locks
  the thread is comparing. What was pressed is compared with what was typed by a history: `TraceInv` says that there is a
  sequence of driver states, one for each report under way, that leads from the driver as it is to
  one that has typed all that was pressed. No simpler relation does: a lock that is in a report on its way already changes what is meant
  by the presses after it.
* *Mass storage*: `StorageTypeCorrect`, `SuccessIsAlwaysReal`, `RetriesAlwaysSuffice`. For the first, `AnswersInv`: whatever the
  device has queued is of the command with the present tag, or has an older tag and cannot be taken for its status;
  `SyncInv` follows the reset of a device it reaches (`Resets`), message by message, until the queue is empty and both ends agree on
  the identifier to the device again. For the second, `CallInv`: each try used up was
  paid for by a fault, or the host hears nothing more of the device (`PaidNow`, `Deaf`), and after a reset that worked the device is ready, and what it will answer is a
  function of the command. The theorems are about every set of messages a device may obey, and every last block.
* *LAN adapters*: `EthernetAlwaysWorks`. A call is the list of the steps it still has to make, so the invariant is about lists.
  `Settled`: each register has its right value, or a step to come gives it that, and no step to come takes it away; `Resetting`: a LAN7800 that is
  not settled waits for its reset, and all registers come after; `StartI`: an SMSC951x has the configuration it started with, and only then
  does a call wait or find two frames; `LinkI`: the answer of the PHY was true at some time of the call;
  `FramesI`: frames are taken in the order of their arrival, and one that is due was taken or is in the FIFO, unless the chip combines frames.
* *Configurations*: `FunctionsAlwaysOwnEndpoints`. The descriptors of any device are `NumberedUpTo` a number (shown by a solution for
  the function that puts them together). `Seen`: of the interfaces behind the parser those with a driver have their number
  taken, and the number that is wanted is of one of them or follows one; with it the functions are those of the
  supported interfaces before the parser (`SupportedBefore`). `EndpointsFromIs` and `StreamingIs` say what the searches for endpoints
  find, by induction from the last descriptor to the first, and `ChoiceFits` that under `Orderly` a driver's choice
  is of its own setting and of the types it wants.

The induction theorems of the library take an operator as a parameter and cannot be used. Recursive functions (`Element` of a
free list, `Walk` of a list of tasks, `Above` in the tree) are reasoned about by showing a solution of their equation,
and that any two agree by a least counterexample: `LeastNatural` is the least number principle for a *set* of numbers.

**Model-checked only.** The four properties of `Terminal`, which run through recursive operators, of which the
prover knows nothing, and `ReportIsDecoded`: that bits put together by shifts and powers of two are the number meant is an
induction over data. Both are about sequences of bytes, where the small instance has every kind of byte and every order of
them. Liveness
(`BlockingRequestReturns`, `StreamsAreServed`, `TimersFire`, `InterruptsAreServed`, `EnumerationEnds`) rests on fairness,
which the prover does not handle.

## 7. Not modelled

Strings and their formatting, mouse reports and MIDI packets (given on as they are; their request streams are in
`Dwhci`), mailbox, framebuffer, UART, GPIO, the serial proxy (its task is
commented out), the initialisation of the host controller's registers, boot code and linker script.
Cache maintenance is assumed to do what it is for. National key maps other than the US one are data of the
same form. `PROJECT.json` gives a reason for each.

Left out on purpose: interleaving *within* a write to the terminal. Interrupt handlers log too, byte by byte, while the
thread may be in the middle of `flanterm_write`; `Terminal` takes a piece as a step. Likewise `GetReport` of a game
pad in a thread against its completion routine, and two senders of frames sharing `m_pTxBuffer`
(`usb/lan7800.cpp:496`): the kernel has no such callers.

## 8. Plan

1. Proofs: `Terminal` and `GamePad` with folds for their recursive operators; `SetupIsAllOrNothing` would be the first, as it
   needs only what an allocation from the pool leaves alone.
2. *Initialisation and teardown of the host driver*, with `Enumeration`: a keyboard's
   request in flight when the root port is torn down.
