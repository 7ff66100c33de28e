----------------------- MODULE UsbFunctionsInvariants -----------------------
(***************************************************************************)
(* What is true of the function drivers at any time: the types of their    *)
(* state, the inductive invariants of UsbFunctionsProofs, and the notions  *)
(* these are put in.                                                       *)
(***************************************************************************)
EXTENDS UsbFunctions

-----------------------------------------------------------------------------
(* The key map: row by row what the tables have, and that what the driver   *)
(* makes of a key is what is on it.                                         *)

EditingNames == {"Return", "Escape", "Backspace", "Tabulator", "Space"}
MovingNames == {"PrintScreen", "Pause", "Insert", "Home", "PageUp", "Delete", "End", "PageDown",
    "Right", "Left", "Down", "Up"}
OperatorNames == {"Divide", "Multiply", "Subtract", "Add", "Enter"}

KeypadNames == {"End", "Down", "PageDown", "Left", "Center", "Right", "Home", "Up", "PageUp", "Insert",
    "Delete"}

\* The locks are where the key map has them.
LockAt(code, table) ==
  IF table \notin {Normal, Shifted} THEN {}
  ELSE IF code = 83 THEN {"NumLock"} ELSE IF code = 57 THEN {"CapsLock"}
  ELSE IF code = 71 /\ table = Normal THEN {"ScrollLock"} ELSE {}

\* What the driver makes of a code, by the key map, is what is on the key.
TypedFor(code, modifiers, locks) ==
  LET logical == Translate(code, modifiers, "NumLock" \in locks)
  IN IF logical[1] \in {"SelectConsole", "Shutdown"} THEN logical
     ELSE StringOf(logical, modifiers, "CapsLock" \in locks)

-----------------------------------------------------------------------------
(* The keyboard.                                                            *)

Modifiers == Chords \cup {{}}

\* Whatever a key of this keyboard can mean.
Meanings == {Meant(code, modifiers, locks) : code \in KeyCodes, modifiers \in Modifiers, locks \in SUBSET Locks}

SentReports == [modifiers : Modifiers, held : Seq(KeyCodes)]

Keyboards ==
  [pc : {"protocol", "firstLEDs", "start", "idle", "leds", "failed"}, named : BOOLEAN, running : BOOLEAN,
   handlers : HandlerSets \cup {{}}, m_ucLastPhyCode : KeyCodes \cup {0},
   m_ucLastLEDStatus : SUBSET Locks, locks : SUBSET Locks, setting : SUBSET Locks]

KeyStates ==
  [held : Seq(KeyCodes), modifiers : Modifiers, reports : Seq(SentReports), leds : SUBSET Locks,
   presses : Nat, expected : Seq(Meanings), typed : Seq(Meanings), locks : SUBSET Locks,
   tidy : BOOLEAN, refused : BOOLEAN, unseen : BOOLEAN]

KeyboardTypeOK == kbd \in Keyboards /\ keys \in KeyStates

-----------------------------------------------------------------------------
(* The LEDs.                                                                *)

(***************************************************************************)
(* m_ucLastLEDStatus is what the keyboard shows, and what it showed when   *)
(* the thread last looked is what the locks are, unless a lock has been    *)
(* switched since.                                                         *)
(***************************************************************************)
LedsInv ==
  /\ ~keys.refused => keys.leds = kbd.m_ucLastLEDStatus
  /\ ~keys.unseen => (IF kbd.pc = "leds" THEN kbd.setting ELSE kbd.m_ucLastLEDStatus) = kbd.locks

-----------------------------------------------------------------------------
(* What is typed.                                                           *)

DriverStates == [last : KeyCodes \cup {0}, locks : SUBSET Locks, typed : Seq(Meanings)]

\* What the driver will have made of another report, with these handlers.
Handled(handlers, meant) == meant # None /\ HandlerOf(meant) \in handlers /\ "raw" \notin handlers

Heeded(handlers, s, report) ==
  LET code  == GetKeyCode(report)
      meant == Meant(code, report.modifiers, s.locks)
  IN IF code \in {0, s.last} THEN [s EXCEPT !.last = code]
     ELSE [last |-> code, locks |-> Switched(s.locks, LockOn(code, report.modifiers)),
           typed |-> IF Handled(handlers, meant) THEN Append(s.typed, meant) ELSE s.typed]

Begins(s, t) == Len(s) <= Len(t) /\ \A i \in 1 .. Len(s) : s[i] = t[i]

(***************************************************************************)
(* A trace leads from one state of the driver, report by report, to        *)
(* another, and nothing is typed on the way that is not in the last one.   *)
(***************************************************************************)
IsTrace(f, handlers, first, reports, last) ==
  /\ f \in Seq(DriverStates) /\ Len(f) = Len(reports) + 1
  /\ f[1] = first /\ f[Len(f)] = last
  /\ \A i \in 1 .. Len(reports) : f[i + 1] = Heeded(handlers, f[i], reports[i])
  /\ \A i \in 1 .. Len(f) : Begins(f[i].typed, last.typed)

\* The driver as it is, and as it will be when it has had all reports.
DriverNow == [last |-> kbd.m_ucLastPhyCode, locks |-> kbd.locks, typed |-> keys.typed]

CodeOf(held) == IF held = <<>> THEN 0 ELSE Last(held)

DriverThen == [last |-> CodeOf(keys.held), locks |-> keys.locks, typed |-> keys.expected]

\* Before the first press there is nothing to type.
QuietInv ==
  keys.presses = 0 =>
    /\ keys.held = <<>> /\ kbd.m_ucLastPhyCode = 0 /\ kbd.locks = keys.locks
    /\ keys.typed = <<>> /\ keys.expected = <<>>
    /\ \A i \in 1 .. Len(keys.reports) : keys.reports[i].held = <<>>

\* With a handler for raw reports nothing is typed, and no lock switched.
RawInv ==
  "raw" \in kbd.handlers => keys.typed = <<>> /\ keys.expected = <<>> /\ kbd.locks = keys.locks

(***************************************************************************)
(* The reports that are on their way take the driver from its code, locks  *)
(* and typed characters to those of the user.                              *)
(***************************************************************************)
TraceInv ==
  keys.tidy /\ "raw" \notin kbd.handlers =>
    \E f : IsTrace(f, kbd.handlers, DriverNow, keys.reports, DriverThen)

TypingInv == QuietInv /\ RawInv /\ TraceInv

-----------------------------------------------------------------------------
(* The mass storage driver: what its object and the device are made of.     *)

Calls == {"read", "write"}
Setup == {"inquiry", "ready", "sense", "capacity"}
Pids == [in : {0, 1}, out : {0, 1}]

Marks == Contents \cup {"blank", "padding", "disk", "other", "sense"} \cup Int

Packets == {p \in [kind : {"data", "status"}, value : Seq(Marks), bytes : Nat, tag : Nat,
                   status : {"none", "passed", "failed"}, residue : Int] :
              p.kind = "status" => p.bytes = CSWSize}
CommandBlocks == [op : Setup \cup Calls, tag : Nat, bytes : Nat, address : Nat, length : Nat]

Drives == [type : {"disk", "other"}, blockSize : Nat, obeys : SUBSET {"reset", "clear1", "clear2"}, last : Int,
           medium : [0 .. MediumBlocks - 1 -> Marks], queue : Seq(Packets),
           writes : SUBSET CommandBlocks, halted : SUBSET {"in", "out"}, pid : Pids, faults : Nat]

\* A transfer is under way only for a command, and a reset only for a read or a write.
IsObject(h) ==
  /\ DOMAIN h = {"pc", "op", "tries", "nCWBTag", "ullOffset", "count", "data", "moved", "result", "pid",
                 "nBlockCount", "named", "calls", "since", "unreset"}
  /\ h.pc \in {"inquiry", "cbw", "data", "csw", "idle", "reset", "clear1", "clear2"}
  /\ h.op \in {"none"} \cup Setup \cup Calls
  /\ h.pc \in {"cbw", "data", "csw"} => h.op # "none"
  /\ h.pc \in {"reset", "clear1", "clear2"} => h.op \in Calls
  /\ h.op = "write" => Len(h.data) = 1
  /\ h.tries \in Int /\ h.nCWBTag \in Nat /\ h.ullOffset \in Nat /\ h.count \in Nat
  /\ h.data \in Seq(Marks) /\ h.moved \in Nat /\ h.result \in Int /\ h.pid \in Pids
  /\ h.named \in BOOLEAN /\ h.calls \in Nat /\ h.since \in Nat /\ h.unreset \in 0 .. 2

StorageTypeOK == IsObject(umsd) /\ drive \in Drives

\* Which endpoint to the host a reset leaves: the one it had, and the host at the first identifier.
Apart(h, d) == d.pid.in = h.pid.in \/ h.pid.in = 0

\* The endpoint to the device is in step, and nothing is left of an earlier command.
Sync(h, d) == d.queue = <<>> /\ d.writes = {} /\ "out" \notin d.halted /\ d.pid.out = h.pid.out /\ Apart(h, d)

\* Every packet and every write of the device is of a command already sent.
TagsUpTo(d, tag) ==
  /\ \A k \in 1 .. Len(d.queue) : d.queue[k].tag <= tag
  /\ \A c \in d.writes : c.tag <= tag

\* A status the driver would accept is the last thing of the device, its command was met, and it
\* stands behind the data of its command or has only the data the driver holds.
IsAnswer(h, d, k) ==
  /\ k = Len(d.queue) /\ d.writes = {} /\ d.pid.out = h.pid.out /\ "out" \notin d.halted
  /\ h.op \in Calls => h.count = BlockSize * TransferLength(h)
  /\ h.op = "write" /\ h.count > 0 =>
       h.pc = "csw" /\ \A i \in 1 .. TransferLength(h) : d.medium[BlockAddress(h) + i - 1] = h.data[1]
  /\ h.op = "read" /\ h.count > 0 =>
       IF k = 1 THEN h.pc = "csw" /\ h.data = Stored(d, CommandBlock(h))
       ELSE d.queue[k - 1].value = Stored(d, CommandBlock(h))

AnswersInv(h, d) ==
  h.pc \in {"data", "csw"} =>
    /\ \A c \in d.writes : c.tag = h.nCWBTag => c = CommandBlock(h)
    /\ \A k \in 1 .. Len(d.queue) : Accepts(h, d.queue[k]) => IsAnswer(h, d, k)

\* An interface is named once it is set up, and then only reads and writes.
NamedInv(h) == h.pc = "inquiry" \/ (h.pc # "idle" /\ h.op \notin Calls) => ~h.named

\* What a result leaves of the object.
HasReturned(h, g, result) ==
  /\ IsObject(g) /\ g.pc = "idle" /\ g.op = h.op /\ g.result = result /\ g.nCWBTag = h.nCWBTag
  /\ g.count = h.count /\ g.data = h.data /\ g.ullOffset = h.ullOffset /\ g.tries = h.tries
  /\ g.pid = h.pid /\ g.named = h.named /\ g.since = h.since /\ g.unreset = h.unreset

-----------------------------------------------------------------------------
(* What the device does with what it is sent.                               *)

Joined(q, s) == q \o s

\* What the device answers a command with at once, if it takes one.
CommandAnswered(d, cbw, e) ==
  \/ /\ cbw.op = "write" /\ cbw.bytes > 0 /\ e.writes = {cbw} /\ e.queue = d.queue
     /\ e.halted = d.halted /\ e.faults = d.faults
  \/ /\ ~(cbw.op = "write" /\ cbw.bytes > 0) /\ e.writes = {} /\ Inside(cbw) /\ e.queue = Joined(d.queue, Done(d, cbw))
     /\ e.halted = d.halted /\ e.faults = d.faults
  \/ /\ ~(cbw.op = "write" /\ cbw.bytes > 0) /\ e.writes = {} /\ e.queue = Joined(d.queue, Failed(cbw))
     /\ e.halted = d.halted /\ e.faults = IF cbw.op = "ready" THEN d.faults ELSE d.faults + 1
  \/ /\ ~(cbw.op = "write" /\ cbw.bytes > 0) /\ e.writes = {}
     /\ e.queue = Joined(d.queue, <<StatusOf(cbw, "failed", 0)>>)
     /\ e.halted = d.halted \cup {"in"} /\ e.faults = IF cbw.op = "ready" THEN d.faults ELSE d.faults + 1

\* A command that comes while a write waits for its data spoils that write.
WriteSpoilt(d, e) ==
  /\ e.writes = {} /\ e.halted = d.halted /\ e.faults = d.faults
  /\ \E c \in d.writes : e.queue = Joined(d.queue, <<StatusOf(c, "failed", 0)>>)

\* What the device does with the data of a write it waits for.
WriteAnswered(d, c, value, e) ==
  \/ /\ Inside(c) /\ e.halted = d.halted /\ e.faults = d.faults
     /\ e.queue = Joined(d.queue, <<StatusOf(c, "passed", BlockSize * c.length)>>)
     /\ \A b \in 0 .. MediumBlocks - 1 :
          e.medium[b] = IF b >= c.address /\ b < c.address + c.length THEN value[1] ELSE d.medium[b]
  \/ /\ e.halted \in {d.halted, d.halted \cup {"out"}} /\ e.faults = d.faults + 1 /\ e.medium = d.medium
     /\ e.queue = Joined(d.queue, <<StatusOf(c, "failed", 0)>>)

\* One queue behind another, packet by packet.
IsJoint(j, q, s) ==
  /\ j \in Seq(Packets) /\ Len(j) = Len(q) + Len(s) /\ Len(q) \in Nat /\ Len(s) \in Nat
  /\ \A k \in 1 .. Len(q) : j[k] = q[k]
  /\ \A k \in 1 .. Len(s) : j[Len(q) + k] = s[k]
  /\ \A k \in 1 .. Len(j) : k \in 1 .. Len(q) \/ (k - Len(q) \in 1 .. Len(s) /\ j[k] = s[k - Len(q)])

\* A transfer to the device that the driver takes for failed, or for done.
SendFails(d, e, tag) ==
  /\ e \in Drives /\ e.obeys = d.obeys /\ TagsUpTo(e, tag)
  /\ e.pid.in = d.pid.in /\ ("in" \in d.halted => "in" \in e.halted)
  /\ "out" \in d.halted \/ e.faults >= d.faults + 1

\* A transfer from the device that the driver takes for failed, or for done.
ReceiveFails(h, d, e) ==
  /\ e \in Drives /\ e.obeys = d.obeys /\ e.queue = d.queue /\ e.writes = d.writes /\ e.faults >= d.faults
  /\ e.pid = d.pid /\ e.halted = d.halted
  /\ "in" \in d.halted \/ d.pid.in # h.pid.in \/ e.faults >= d.faults + 1

ReceiveWorks(h, d, e) ==
  /\ d.queue # <<>> /\ "in" \notin d.halted /\ d.pid.in = h.pid.in
  /\ e \in Drives /\ e.obeys = d.obeys /\ e.medium = d.medium /\ e.writes = d.writes /\ e.halted = d.halted
  /\ e.faults = d.faults /\ e.queue = Tail(d.queue) /\ e.pid.out = d.pid.out
  /\ e.pid.in = Toggle(d.pid.in, Blocks(Head(d.queue).bytes))

\* What is left of a queue behind its first packet.
IsRest(r, q) ==
  /\ Len(q) \in Nat \ {0} /\ Len(r) = Len(q) - 1 /\ r \in Seq(Packets) /\ Head(q) = q[1] /\ q[1] \in Packets
  /\ \A k \in 1 .. Len(r) : r[k] = q[k + 1]

-----------------------------------------------------------------------------
(* The invariant of every device: what a success rests on.                  *)

TagsInv(h, d) ==
  IF h.pc = "cbw" THEN h.nCWBTag > 0 /\ TagsUpTo(d, h.nCWBTag - 1) ELSE TagsUpTo(d, h.nCWBTag)

\* The reset of a device it resets: message by message, until both are in step again.
SyncInv(h, d) ==
  Resets(d) =>
    /\ h.pc = "idle" /\ h.named /\ h.unreset # 2 => Sync(h, d)
    /\ h.pc \in {"clear1", "clear2"} => d.queue = <<>> /\ d.writes = {}
    /\ h.pc = "clear2" /\ "clear1" \in d.obeys => "out" \notin d.halted /\ d.pid.out = 0

RealInv(h, d) ==
  h.pc = "idle" /\ h.op \in Calls /\ h.result > 0 =>
    /\ h.count \div BlockSize < LengthField
    /\ \A i \in 1 .. h.count \div BlockSize : Buffer(h, i) = d.medium[BlockAddress(h) + i - 1]

StorageInv(h, d) ==
  /\ IsObject(h) /\ d \in Drives /\ TagsInv(h, d) /\ AnswersInv(h, d) /\ NamedInv(h) /\ SyncInv(h, d)
  /\ RealInv(h, d)

\* A packet of what has been put behind a queue.
IsNew(q, old, s, k) ==
  /\ k - Len(old) \in 1 .. Len(s) /\ q[k] = s[k - Len(old)] /\ Len(q) = Len(old) + Len(s) /\ Len(old) \in Nat
  /\ k > Len(old) + 1 => q[k - 1] = s[k - Len(old) - 1]

\* What packets sent leave of the object.
HasSent(h, g, pc, n) ==
  /\ IsObject(g) /\ g.pc = pc /\ g.op = h.op /\ g.result = h.result /\ g.nCWBTag = h.nCWBTag
  /\ g.count = h.count /\ g.data = h.data /\ g.ullOffset = h.ullOffset /\ g.tries = h.tries
  /\ g.named = h.named /\ g.since = h.since /\ g.unreset = h.unreset /\ g.moved = h.moved
  /\ g.pid.in = h.pid.in /\ g.pid.out = Toggle(h.pid.out, n)

-----------------------------------------------------------------------------
(* The data and the status of a command.                                    *)

\* What data received leaves of the object.
HasReceived(h, g, packet) ==
  /\ IsObject(g) /\ g.pc = "csw" /\ g.op = h.op /\ g.result = h.result /\ g.nCWBTag = h.nCWBTag
  /\ g.count = h.count /\ g.data = packet.value /\ g.ullOffset = h.ullOffset /\ g.tries = h.tries
  /\ g.named = h.named /\ g.since = h.since /\ g.unreset = h.unreset /\ g.moved = packet.bytes
  /\ g.pid.out = h.pid.out /\ g.pid.in = Toggle(h.pid.in, Blocks(packet.bytes))

\* What a status received leaves of the object.
HasHeard(h, g) ==
  /\ IsObject(g) /\ g.pc = h.pc /\ g.op = h.op /\ g.result = h.result /\ g.nCWBTag = h.nCWBTag
  /\ g.count = h.count /\ g.data = h.data /\ g.ullOffset = h.ullOffset /\ g.tries = h.tries
  /\ g.named = h.named /\ g.since = h.since /\ g.unreset = h.unreset /\ g.moved = h.moved
  /\ g.pid.out = h.pid.out /\ g.pid.in = Toggle(h.pid.in, 1)

-----------------------------------------------------------------------------
(* Calls, and the reset between two tries.                                  *)

\* A call before its first try.
HasBegun(h, d, g, op, count) ==
  /\ IsObject(g) /\ g.pc = "idle" /\ g.op = op /\ g.nCWBTag = h.nCWBTag
  /\ g.count = count /\ g.ullOffset = h.ullOffset /\ g.tries = Tries
  /\ g.pid = h.pid /\ g.named = h.named /\ g.since = d.faults
  /\ g.unreset = IF h.unreset = 2 THEN 1 ELSE 0

\* The object on its way through the reset.
HasPc(h, g, pc) ==
  /\ IsObject(g) /\ g.pc = pc /\ g.op = h.op /\ g.result = h.result /\ g.nCWBTag = h.nCWBTag
  /\ g.count = h.count /\ g.data = h.data /\ g.ullOffset = h.ullOffset /\ g.tries = h.tries
  /\ g.pid = h.pid /\ g.named = h.named /\ g.since = h.since /\ g.unreset = h.unreset

-----------------------------------------------------------------------------
(* The invariant of the driver and the device, step by step.                *)

StorageI == StorageInv(umsd, drive)

\* The device may start as it likes.
StorageStarts ==
  /\ umsd = NewObject
  /\ \E type \in {"disk", "other"}, size \in {BlockSize, 2048}, last \in Int,
        obeys \in SUBSET {"reset", "clear1", "clear2"} : drive = NewDrive(type, size, obeys, last)

-----------------------------------------------------------------------------
(* A device that obeys, during a call that follows no failed reset: where   *)
(* the two are, and that each try used up has been paid for with a fault.   *)

Feasible(h) == Aligned(h) /\ h.count \div BlockSize < LengthField

\* The tries before this one; this one too.
Paid(h, d)    == Feasible(h) => d.faults - h.since >= Tries - h.tries \/ Deaf(h, d)
PaidNow(h, d) == Feasible(h) => d.faults - h.since >= Tries - h.tries + 1 \/ Deaf(h, d)

\* The status of the command, and that a refusal has been paid for.
IsStatus(h, d, p) ==
  /\ p.kind = "status" /\ p.tag = h.nCWBTag
  /\ PaidNow(h, d) \/ (p.status = "passed" /\ p.residue = h.count - BlockSize * TransferLength(h))

\* The device waits for the data of a write; or it has the data of a read and a status, or has stalled.
DataReady(h, d) ==
  IF h.op = "write"
  THEN d.queue = <<>> /\ d.writes = {CommandBlock(h)} /\ "out" \notin d.halted
  ELSE /\ d.writes = {}
       /\ \/ Len(d.queue) = 2 /\ d.queue[1].bytes = h.count /\ IsStatus(h, d, d.queue[2])
          \/ Len(d.queue) = 1 /\ "in" \in d.halted

StatusReady(h, d) == d.writes = {} /\ Len(d.queue) = 1 /\ IsStatus(h, d, d.queue[1])

CallInv(h, d) ==
  Resets(d) /\ h.op \in Calls /\ h.unreset = 0 =>
    /\ h.pc = "idle" /\ h.result < 0 /\ Feasible(h) => d.faults - h.since >= Tries \/ Deaf(h, d)
    /\ h.pc # "idle" => h.tries \in 1 .. Tries /\ Apart(h, d)
    /\ h.pc \in {"cbw", "data", "csw"} => Aligned(h) /\ d.pid.out = h.pid.out /\ Paid(h, d)
    /\ h.pc = "cbw" => Sync(h, d) /\ h.moved = 0
    /\ h.pc = "data" => h.count > 0 /\ DataReady(h, d)
    /\ h.pc = "csw" => h.moved = h.count /\ StatusReady(h, d)
    /\ h.pc \in {"reset", "clear1", "clear2"} => PaidNow(h, d)

SameCall(h, g) ==
  /\ g.op = h.op /\ g.nCWBTag = h.nCWBTag /\ g.count = h.count /\ g.ullOffset = h.ullOffset
  /\ g.tries = h.tries /\ g.since = h.since /\ g.unreset = h.unreset

-----------------------------------------------------------------------------
(* The steps of a call.                                                      *)

\* What the device has after a command, for each kind of command.
CommandStands(h, e) ==
  IF h.count > 0 THEN DataReady(h, e)
  ELSE StatusReady(h, e)

CallI == CallInv(umsd, drive)

-----------------------------------------------------------------------------
(* The adapters: the types of the object and of the chip.                   *)

Bits == {"own", "VALID", "LEDs", "RCVOWN", "TXEN", "RXEN", "ON", "LRST", "24", "default", "MEF", "BCE", "BIR",
         "12K", "CLEAR_ALL", "BCAST_EN", "DA_PERFECT", "PHY_RST", "READY", "AUTO_DUPLEX", "AUTO_SPEED", "EN",
         "1518", "VLAN_FSE", "0", "7800", "BUSY", "WRITE", "STATUS", "LED_MODE", "up", "down"}

LanSteps == [op: {"write", "update", "wait", "read"}, reg: Registers, on: SUBSET Bits, off: SUBSET Bits]

LanFrames == [to: {"own", "all", "other"}, good: BOOLEAN, id: Nat]

LinkStates == {"up", "down"}

RegisterFiles == [Registers -> SUBSET Bits]

LanTypes ==
  [pc: {"configure", "failed", "idle", "link", "waits", "asserts"}, steps: Seq(LanSteps), tries: Int, named: BOOLEAN,
   got: Seq(LanFrames), sent: Seq(Nat), links: SUBSET LinkStates, answer: LinkStates \cup {"none"}]

ChipTypes ==
  [kind: {"lan7800", "smsc951x"}, config: SUBSET {"MEF", "BIR"}, regs: RegisterFiles, link: LinkStates,
   unplugs: Nat, fifo: Seq(LanFrames), due: SUBSET LanFrames, arrived: Nat, wire: Seq(Nat)]

EthernetTypeOK == lan \in LanTypes /\ chip \in ChipTypes

-----------------------------------------------------------------------------
(* The programs.                                                            *)

\* The bits a register needs, and those it must not have, for the adapter to work.
Wanted(kind, reg) ==
  IF kind = "lan7800"
  THEN CASE reg = "MAF" -> {"own", "VALID"} [] reg = "RFE_CTL" -> {"BCAST_EN", "DA_PERFECT"}
         [] reg = "MAC_TX" -> {"TXEN"} [] reg = "FCT_TX_CTL" -> {"EN"}
         [] reg = "MAC_RX" -> {"RXEN", "1518"} [] reg = "FCT_RX_CTL" -> {"EN"} [] OTHER -> {}
  ELSE CASE reg = "ADDR" -> {"own"} [] reg = "MAC_CR" -> {"TXEN", "RXEN"} [] reg = "TX_CFG" -> {"ON"}
         [] OTHER -> {}

Unwanted(kind, reg) ==
  IF kind = "lan7800" THEN CASE reg = "HW_CFG" -> {"MEF"} [] reg = "USB_CFG0" -> {"BIR"} [] OTHER -> {} ELSE {}

Right(kind, reg, value) == Wanted(kind, reg) \subseteq value /\ Unwanted(kind, reg) \cap value = {}

Sets(s, reg) == s.op \in {"write", "update"} /\ s.reg = reg

\* The steps that leave a register as it should be, reset nothing and leave PMT_CTL ready, and,
\* for an SMSC951x, HW_CFG as it is.
Lawful(kind) == {s \in LanSteps :
  /\ s.op = "write" => Right(kind, s.reg, s.on) /\ (s.reg = "PMT_CTL" => "READY" \in s.on)
  /\ s.op = "update" => Right(kind, s.reg, s.on) /\ Unwanted(kind, s.reg) \subseteq s.off
                     /\ (s.reg = "PMT_CTL" => "READY" \notin s.off)
  /\ Sets(s, "HW_CFG") => "LRST" \notin s.on /\ kind # "smsc951x"}

Untouched(reg, steps) == \A i \in DOMAIN steps : ~Sets(steps[i], reg)

\* What is behind the reset of a LAN7800.
SetUp == InitMACAddress \o (InitRegisters \o InitPHY)

\* A register that no step to come sets is as it should be.
Covered(kind, steps, regs) == \A reg \in Registers : Untouched(reg, steps) => Right(kind, reg, regs[reg])

-----------------------------------------------------------------------------
(* One step after the other.                                                *)

Before(s, steps) == <<s>> \o steps

\* The registers after a step.
AfterStep(regs, s) == IF s.op = "write" THEN [regs EXCEPT ![s.reg] = s.on] ELSE regs

\* The message that writes what an update read.
WriteBack(s, regs) == WriteReg(s.reg, (regs[s.reg] \ s.off) \cup s.on)

-----------------------------------------------------------------------------
(* A message either fails, or is tried again, or is the first half of an    *)
(* update, or ends a step.                                                  *)

GivesUp == lan.steps # <<>> /\ lan' = Ends(FALSE) /\ UNCHANGED chip

TriesAgain == lan.steps # <<>> /\ lan' = [lan EXCEPT !.tries = @ - 1] /\ UNCHANGED chip

ReadsFirst ==
  /\ lan.steps # <<>> /\ Head(lan.steps).op = "update"
  /\ lan' = [lan EXCEPT !.steps = Before(WriteBack(Head(lan.steps), chip.regs), Tail(lan.steps))]
  /\ UNCHANGED chip

EndsStep ==
  /\ lan.steps # <<>> /\ Head(lan.steps).op # "update"
  /\ Head(lan.steps).op = "wait" =>
       /\ Head(lan.steps).on \subseteq chip.regs[Head(lan.steps).reg]
       /\ Head(lan.steps).off \cap chip.regs[Head(lan.steps).reg] = {}
  /\ lan' = Continue(Tail(lan.steps))
  /\ chip' = [chip EXCEPT !.regs = AfterStep(chip.regs, Head(lan.steps))]

-----------------------------------------------------------------------------
(* What holds of the registers and of the call that is under way.           *)

\* The steps to come leave every register as it should be.
Settled ==
  /\ lan.steps \in Seq(Lawful(chip.kind)) /\ Covered(chip.kind, lan.steps, chip.regs)
  /\ "LRST" \notin chip.regs["HW_CFG"]

\* A LAN7800 is reset first.
WaitForReset == Before(WaitReg("HW_CFG", {}, {"LRST"}), SetUp)
AskForReset  == Before(ReadWriteReg("HW_CFG", {"LRST"}, {}), WaitForReset)

Resetting ==
  /\ chip.kind = "lan7800"
  /\ \/ lan.steps \in {WaitForReset, AskForReset, Before(ReadReg("ID_REV"), AskForReset)}
     \/ \E bits \in SUBSET Bits : lan.steps = Before(WriteReg("HW_CFG", bits), WaitForReset)

Working ==
  /\ \A reg \in Registers : Right(chip.kind, reg, chip.regs[reg])
  /\ "LRST" \notin chip.regs["HW_CFG"]

ConfigI ==
  /\ "READY" \in chip.regs["PMT_CTL"]
  /\ lan.named <=> lan.pc \in {"idle", "link", "waits", "asserts"}
  /\ lan.pc \in {"idle", "failed", "waits", "asserts"} => lan.steps = <<>>
  /\ lan.pc = "configure" => Settled \/ Resetting
  /\ lan.named => Working

\* What an SMSC951x started with stays.
StartI ==
  /\ chip.kind = "smsc951x" => chip.regs["HW_CFG"] = chip.config
  /\ lan.pc = "waits" => MakesWait
  /\ lan.pc = "asserts" => Combines

\* The four steps of IsLinkUp.
Reading4 == Before(ReadReg("MII_DATA"), <<>>)
Reading3 == Before(PHYNotBusy, Reading4)
Reading2 == Before(WriteReg("MII_ADDR", {"STATUS", "BUSY"}), Reading3)
Reading1 == Before(PHYNotBusy, Reading2)

Answered == \E link \in lan.links : chip.regs["MII_DATA"] = {link}

LinkI ==
  /\ lan.pc = "link" =>
       /\ chip.link \in lan.links
       /\ \/ lan.steps \in {Reading1, Reading2}
          \/ /\ lan.steps = Reading3
             /\ IF "BUSY" \in chip.regs["MII_ADDR"]
                THEN "STATUS" \in chip.regs["MII_ADDR"] /\ "WRITE" \notin chip.regs["MII_ADDR"]
                ELSE Answered
          \/ lan.steps = Reading4 /\ "BUSY" \notin chip.regs["MII_ADDR"] /\ Answered
  /\ lan.pc # "link" => lan.answer \in lan.links \cup {"none"}

-----------------------------------------------------------------------------
(* The frames.                                                              *)

Rising(frames) == \A i, j \in DOMAIN frames : i < j => frames[i].id < frames[j].id

Among(frame, frames) == \E i \in DOMAIN frames : frames[i] = frame

\* Frames are taken from the FIFO in the order in which they arrived, and a frame that is due
\* was taken, or is there.
FramesI ==
  /\ Rising(lan.got) /\ Rising(chip.fifo)
  /\ \A i \in DOMAIN lan.got, j \in DOMAIN chip.fifo : lan.got[i].id < chip.fifo[j].id
  /\ \A i \in DOMAIN lan.got : lan.got[i].id < chip.arrived /\ lan.got[i].good /\ lan.got[i].to # "other"
  /\ \A i \in DOMAIN chip.fifo : chip.fifo[i].id < chip.arrived /\ chip.fifo[i].to # "other"
  /\ \A frame \in chip.due : frame.good /\ (Combines \/ Among(frame, lan.got) \/ Among(frame, chip.fifo))
  /\ chip.wire = lan.sent

-----------------------------------------------------------------------------
(* The invariant.                                                           *)

EthernetI == EthernetTypeOK /\ ConfigI /\ LinkI /\ StartI /\ FramesI

-----------------------------------------------------------------------------
(* The configurations a device may send: their interfaces are numbered in    *)
(* order.                                                                     *)

DescriptorTypes == Endpoints \cup {"configuration", "interface", "hid", "cs"}
SettingNames == {setting.name : setting \in Settings} \cup {"none"}
Descs == [type : DescriptorTypes, num : Nat, alt : Nat, name : SettingNames, endpoints : Nat]

IsInterface(d) == d.type = "interface"

NumberedUpTo(s, top) ==
  /\ s \in Seq(Descs)
  /\ \A i, j \in DOMAIN s : i < j /\ IsInterface(s[i]) /\ IsInterface(s[j]) => s[i].num <= s[j].num
  /\ \A i \in DOMAIN s : IsInterface(s[i]) => s[i].num <= top

-----------------------------------------------------------------------------
(* What one call of the parser finds, and where it leaves it.                 *)

InRow == descs.seq \in Seq(Descs)

FoundAt(next, type, i) ==
  /\ DescriptorFrom(next, type) = {i} /\ Max(DescriptorFrom(next, type)) = i /\ After0(next, type) = i + 1
  /\ Matches(i, type) /\ \A j \in next .. i - 1 : ~Matches(j, type)

-----------------------------------------------------------------------------
(* What the recursive searches of the drivers come to.                        *)

EndsFrom(n) ==
  {e \in n .. Len(descs.seq) : IsEndpoint(descs.seq[e]) /\ \A j \in n .. e : ~IsInterface(descs.seq[j])}

\* One turn of the search of the MIDI driver.
StreamingTurn(g, n) ==
  IF DescriptorFrom(n, "endpoint") = {} THEN {}
  ELSE LET e == Max(DescriptorFrom(n, "endpoint"))
           more == After0(e + 1, "cs")
       IN IF descs.seq[e].type # "bulk in" THEN g[e + 1]
          ELSE IF DescriptorFrom(e + 1, "cs") = {e + 1} /\ g[more] = {} THEN {{e}} ELSE g[more]

ClassBehind(i) ==
  \A e \in EndsFrom(i + 1) : descs.seq[e].type = "bulk in" => e < Len(descs.seq) /\ descs.seq[e + 1].type = "cs"

-----------------------------------------------------------------------------
(* What each driver chooses.                                                  *)

\* A choice of endpoints from a position on, of some types, two at most.
FitsFrom(n, types, c) ==
  /\ c \subseteq EndsFrom(n) /\ {descs.seq[e].type : e \in c} = types /\ Cardinality(c) <= 2

\* A function stands at an interface, which has the name of its driver.
Stands(f) ==
  /\ f.interface \in 1 .. Len(descs.seq) /\ IsInterface(descs.seq[f.interface]) /\ f.next = f.interface + 1
  /\ f.driver \in Drivers \cup {"lan"} /\ (f.driver # "lan" => descs.seq[f.interface].name = f.driver)

OwnEndpoints(f, c) ==
  /\ c \subseteq EndpointsOf(f.interface)
  /\ {descs.seq[e].type : e \in c} \in Wants(f.driver)
  /\ Cardinality(c) <= 2

-----------------------------------------------------------------------------
(* The walk through the interfaces.                                           *)

FunctionTypes ==
  [driver : Drivers \cup {"lan"}, interface : Nat, next : Nat, endpoints : SUBSET Nat,
   state : {"new", "unfit", "failed", "configured"}]

DeviceTypes ==
  [pc : {"parse", "interfaces", "configure", "ready", "failed"}, next : Nat \ {0}, ucInterfaceNumber : Nat,
   m_pFunction : Seq(FunctionTypes), at : Nat \ {0}]

InterfacesInOrder ==
  /\ InRow
  /\ \A i, j \in 1 .. Len(descs.seq) : i < j /\ IsInterface(descs.seq[i]) /\ IsInterface(descs.seq[j]) =>
                                         descs.seq[i].num <= descs.seq[j].num

NumberOf(f) == descs.seq[f.interface].num

\* The functions stand at interfaces whose numbers rise and are taken.
FunctionsStand ==
  LET fs == usbdev.m_pFunction
  IN /\ \A k \in DOMAIN fs : Stands(fs[k]) /\ NumberOf(fs[k]) < usbdev.ucInterfaceNumber
     /\ \A k, l \in DOMAIN fs : k < l => NumberOf(fs[k]) < NumberOf(fs[l])

SupportedBefore(n) == {i \in Supported : i < n}

\* The interfaces that are behind the parser: one with a driver has its number taken, and the number
\* that is wanted next is that of one of them, or follows that of one with a driver.
Seen(n, number) ==
  /\ \A i \in 1 .. n - 1 : IsInterface(descs.seq[i]) /\ descs.seq[i].name \in Drivers => descs.seq[i].num < number
  /\ \/ number = 0
     \/ \E i \in 1 .. n - 1 : /\ IsInterface(descs.seq[i])
                              /\ \/ descs.seq[i].num = number
                                 \/ descs.seq[i].num + 1 = number /\ descs.seq[i].name \in Drivers

AllSupported(fs) == \A k \in DOMAIN fs : fs[k].interface \in Supported

WalkI ==
  /\ usbdev.pc \in {"parse", "interfaces"} =>
       /\ usbdev.next \in 1 .. Len(descs.seq) + 1
       /\ \A k \in DOMAIN usbdev.m_pFunction : usbdev.m_pFunction[k].interface < usbdev.next
       /\ descs.vendor # "lan" =>
            /\ Seen(usbdev.next, usbdev.ucInterfaceNumber)
            /\ AllSupported(usbdev.m_pFunction)
            /\ Len(usbdev.m_pFunction) = Cardinality(SupportedBefore(usbdev.next))
            /\ Len(usbdev.m_pFunction) < USBDEV_MAX_FUNCTIONS
  /\ usbdev.pc = "configure" /\ descs.vendor # "lan" =>
       /\ AllSupported(usbdev.m_pFunction)
       /\ Len(usbdev.m_pFunction) = Min({Cardinality(Supported), USBDEV_MAX_FUNCTIONS})

\* What a configured function has chosen.
ChosenI ==
  Orderly => \A k \in DOMAIN usbdev.m_pFunction :
    usbdev.m_pFunction[k].state = "configured" => OwnEndpoints(usbdev.m_pFunction[k], usbdev.m_pFunction[k].endpoints)

ConfigurationI == usbdev \in DeviceTypes /\ InterfacesInOrder /\ FunctionsStand /\ WalkI /\ ChosenI

\* One turn of the walk: it ends; or an interface is skipped, as its number is taken; or it has no driver;
\* or it has its function.
TurnAt(i) ==
  LET num == descs.seq[i].num
      fs  == usbdev.m_pFunction
  IN /\ IsInterface(descs.seq[i]) /\ \A j \in usbdev.next .. i - 1 : ~IsInterface(descs.seq[j])
     /\ usbdev'.next = i + 1
     /\ \/ /\ num < usbdev.ucInterfaceNumber /\ usbdev'.ucInterfaceNumber = usbdev.ucInterfaceNumber
           /\ usbdev'.m_pFunction = fs /\ usbdev'.pc = "interfaces"
        \/ /\ num >= usbdev.ucInterfaceNumber /\ DriverFor(i) = "none" /\ usbdev'.ucInterfaceNumber = num
           /\ usbdev'.m_pFunction = fs /\ usbdev'.pc = "interfaces"
        \/ /\ num >= usbdev.ucInterfaceNumber /\ DriverFor(i) # "none" /\ usbdev'.ucInterfaceNumber = num + 1
           /\ usbdev'.m_pFunction = Append(fs, NewFunction(i))
           /\ usbdev'.pc = IF Len(fs) + 1 = USBDEV_MAX_FUNCTIONS THEN "configure" ELSE "interfaces"

WalkEnds ==
  /\ \A j \in usbdev.next .. Len(descs.seq) : ~IsInterface(descs.seq[j])
  /\ usbdev'.m_pFunction = usbdev.m_pFunction /\ usbdev'.ucInterfaceNumber = usbdev.ucInterfaceNumber
  /\ usbdev'.pc \in {"failed", "configure"}
=============================================================================
