---------------------------- MODULE MassStorage ----------------------------
(***************************************************************************)
(* The bulk-only mass storage driver of usbmassdevice.cpp and, external,   *)
(* the device it talks to.  A command is a command block, data, and a      *)
(* status; a Read or Write that fails resets the device and tries again.   *)
(* Every transfer may fail.  Addresses and counts are in bytes; what a     *)
(* block holds is a model value.                                           *)
(***************************************************************************)
EXTENDS Integers, Sequences

CONSTANTS
  MaxOffset,    (* UMSD_MAX_OFFSET                                          *)
  ReadyTries,   (* how often the unit is asked to be ready: 100             *)
  MediumBlocks, (* the size of the medium                                   *)
  Contents,     (* what a write may store                                   *)
  Offsets, Counts, (* the arguments of Seek, Read and Write                 *)
  MaxCalls,     (* bound on the calls of Read and Write                     *)
  Obedience,    (* the messages of a reset that have an effect: see NewDrive*)
  MaxFaults,    (* bound on the transfers that go wrong                     *)
  MaxStray      (* bound on those of a device that a reset does not reach   *)

ASSUME StorageAssumption ==
  MaxOffset \in Nat /\ ReadyTries \in Nat /\ MediumBlocks \in Nat /\ Offsets \subseteq Nat /\ Counts \subseteq Nat
  /\ Obedience \subseteq SUBSET {"reset", "clear1", "clear2"}

VARIABLES
  umsd,  (* the object, and the locals of the call that is under way        *)
  drive  (* the device                                                      *)

storageVars == <<umsd, drive>>

BlockSize   == 512
CSWSize     == 13
FullLength(op) == CASE op = "inquiry" -> 36 [] op = "sense" -> 20 [] op = "capacity" -> 8
                    [] op = "ready" -> 0
LengthField == 65536  (* usTransferLength has 16 bits *)
Tries       == 4

Blocks(count) == (count + BlockSize - 1) \div BlockSize
Toggle(pid, packets) == (pid + packets) % 2

-----------------------------------------------------------------------------
(* The device.  It takes a command, sends or takes data, and has its status *)
(* read.  It expects a packet of either endpoint to carry the right data    *)
(* identifier, and drops one that is sent twice.                            *)

\* A device "obeys" the messages of the driver's reset that have an effect on it.  "reset" makes it
\* forget what it was about.  "clear1" and "clear2" name the endpoints 1 and 2 to the device, of
\* which it has one or none; no message names its endpoint to the host.
NewDrive(type, size, obeys, last) ==
  [type |-> type, blockSize |-> size, obeys |-> obeys, last |-> last, medium |-> [b \in 0 .. MediumBlocks - 1 |-> "blank"],
   queue |-> <<>>, writes |-> {}, halted |-> {}, pid |-> [in |-> 0, out |-> 0], faults |-> 0]

Packet(kind, value, bytes, tag, status, residue) ==
  [kind |-> kind, value |-> value, bytes |-> bytes, tag |-> tag, status |-> status, residue |-> residue]

DataOf(value, bytes) == Packet("data", value, bytes, 0, "none", 0)
StatusOf(cbw, status, moved) == Packet("status", <<>>, CSWSize, cbw.tag, status, cbw.bytes - moved)

Stored(d, cbw) == [i \in 1 .. cbw.length |-> d.medium[cbw.address + i - 1]]

Inside(cbw) == cbw.address + cbw.length <= MediumBlocks

InfoOf(d, op) == CASE op = "inquiry" -> <<d.type>> [] op = "capacity" -> <<d.blockSize, d.last>>
                   [] op = "sense" -> <<"sense">> [] op = "ready" -> <<>>

\* What the device sends in answer to a command, done or failed.  It fills up data the host
\* wants beyond what the command is for.
Done(d, cbw) ==
  IF cbw.bytes = 0 THEN <<StatusOf(cbw, "passed", 0)>>
  ELSE IF cbw.op = "read"
  THEN <<DataOf(Stored(d, cbw) \o (IF cbw.bytes > BlockSize * cbw.length THEN <<"padding">> ELSE <<>>),
                cbw.bytes), StatusOf(cbw, "passed", BlockSize * cbw.length)>>
  ELSE <<DataOf(InfoOf(d, cbw.op), cbw.bytes), StatusOf(cbw, "passed", cbw.bytes)>>

Failed(cbw) == IF cbw.bytes = 0 THEN <<StatusOf(cbw, "failed", 0)>>
               ELSE <<DataOf(<<"padding">>, cbw.bytes), StatusOf(cbw, "failed", 0)>>

Sends(d, packets) == [d EXCEPT !.queue = @ \o packets]

\* The ways a device may deal with a command.  A unit that is not ready yet is no fault.
Commanded(d, cbw) ==
  LET failing == [d EXCEPT !.faults = IF cbw.op = "ready" THEN @ ELSE @ + 1]
  IN IF cbw.op = "write" /\ cbw.bytes > 0 THEN {[d EXCEPT !.writes = {cbw}]}
     ELSE (IF Inside(cbw) THEN {Sends(d, Done(d, cbw))} ELSE {})
          \cup {Sends(failing, Failed(cbw))}
          \cup {[Sends(failing, <<StatusOf(cbw, "failed", 0)>>) EXCEPT !.halted = @ \cup {"in"}]}

\* The data of a write; "failed" leaves the medium as it is.
Written(d, cbw, value) ==
  LET rest    == [d EXCEPT !.writes = {}]
      failing == [rest EXCEPT !.faults = @ + 1]
      stores  == [b \in DOMAIN d.medium |->
                    IF b >= cbw.address /\ b < cbw.address + cbw.length THEN value[1] ELSE d.medium[b]]
  IN (IF Inside(cbw)
      THEN {[Sends(rest, <<StatusOf(cbw, "passed", BlockSize * cbw.length)>>) EXCEPT !.medium = stores]}
      ELSE {})
     \cup {Sends(failing, <<StatusOf(cbw, "failed", 0)>>)}
     \cup {[Sends(failing, <<StatusOf(cbw, "failed", 0)>>) EXCEPT !.halted = @ \cup {"out"}]}

\* A command while data is expected, or data while a command is, is no data of the write.
Confused(d) == [d EXCEPT !.writes = {},
                         !.queue = @ \o (IF d.writes = {} THEN <<>>
                                         ELSE <<StatusOf(CHOOSE c \in d.writes : TRUE, "failed", 0)>>)]

Took(d, kind, content, packets) ==
  LET next == [d EXCEPT !.pid.out = Toggle(@, packets)]
  IN IF kind = "command" THEN (IF d.writes = {} THEN Commanded(next, content) ELSE {Confused(next)})
     ELSE IF d.writes = {} THEN {next}
     ELSE Written(next, CHOOSE c \in d.writes : TRUE, content)

-----------------------------------------------------------------------------
(* The transfers of DWHCIDeviceTransfer: the count, or -1.                   *)

\* What becomes of a transfer to the device, as pairs of the device and whether the host
\* sees it done: lost, or done, or done and not heard of.
OutTransfer(h, d, kind, content, packets) ==
  LET faulty(e) == [e EXCEPT !.faults = @ + 1]
      heard     == IF d.pid.out = h.pid.out THEN Took(d, kind, content, packets) ELSE {d}
  IN IF "out" \in d.halted THEN {<<d, FALSE>>}
     ELSE {<<e, TRUE>> : e \in heard} \cup {<<faulty(d), FALSE>>} \cup {<<faulty(e), FALSE>> : e \in heard}

\* A transfer from the device: the packets, and whether there is one that fits.  The host waits
\* as long as the device has nothing to send.
InTransfer(h, d) ==
  IF "in" \in d.halted \/ (d.queue # <<>> /\ d.pid.in # h.pid.in) THEN {<<d, FALSE>>}
  ELSE IF d.queue = <<>> THEN {}
  ELSE {<<[d EXCEPT !.queue = Tail(@), !.pid.in = Toggle(@, Blocks(Head(d.queue).bytes))], TRUE>>,
        <<[d EXCEPT !.faults = @ + 1], FALSE>>}

-----------------------------------------------------------------------------
(* The driver.                                                               *)

\* "unreset" is 2 after a call whose reset failed, and 1 during the call that follows.
NewObject ==
  [pc |-> "inquiry", op |-> "none", tries |-> 0, nCWBTag |-> 0, ullOffset |-> 0, count |-> 0,
   data |-> <<>>, moved |-> 0, result |-> 0, pid |-> [in |-> 0, out |-> 0], nBlockCount |-> 0,
   named |-> FALSE, calls |-> 0, since |-> 0, unreset |-> 0]

\* Command: the tag is counted up before anything is sent.
Command(h, op, count) ==
  [h EXCEPT !.pc = "cbw", !.op = op, !.count = count, !.nCWBTag = @ + 1, !.moved = 0]

Incoming(h) == h.op # "write"

BlockAddress(h) == h.ullOffset \div BlockSize
TransferLength(h) == (h.count \div BlockSize) % LengthField

CommandBlock(h) ==
  [op |-> h.op, tag |-> h.nCWBTag, bytes |-> h.count,
   address |-> IF h.op \in {"read", "write"} THEN BlockAddress(h) ELSE 0,
   length |-> IF h.op \in {"read", "write"} THEN TransferLength(h) ELSE 0]

Return(h, result) == [h EXCEPT !.pc = "idle", !.result = result]

\* TryRead and TryWrite: requests that can never be met fail at once.
Aligned(h) == h.ullOffset % BlockSize = 0 /\ h.ullOffset <= MaxOffset /\ h.count % BlockSize = 0

Reset(h) == [h EXCEPT !.pc = "reset", !.result = -1]

Try(h) == IF Aligned(h) THEN Command(h, h.op, h.count) ELSE Reset(h)

\* Configure, from one command to the next, by the result of Command.
Configured(h, result) ==
  CASE h.op = "inquiry" ->
         IF result = h.count /\ h.data = <<"disk">>
         THEN Command([h EXCEPT !.tries = ReadyTries - 1], "ready", FullLength("ready")) ELSE Return(h, -1)
    [] h.op = "ready" ->
         IF result >= 0 THEN Command(h, "capacity", FullLength("capacity"))
         ELSE Command(h, "sense", FullLength("sense"))
    [] h.op = "sense" ->
         IF result < 0 \/ h.tries = 1 THEN Return([h EXCEPT !.tries = 0], -1)
         ELSE Command([h EXCEPT !.tries = @ - 1], "ready", FullLength("ready"))
    [] h.op = "capacity" ->
         IF result = h.count /\ h.data[1] = BlockSize /\ h.data[2] # -1
         THEN Return([h EXCEPT !.nBlockCount = h.data[2] + 1, !.named = TRUE], 0)
         ELSE Return(h, -1)

\* What follows a command: TryRead wants all it asked for, TryWrite no error.
After(h, result) ==
  IF h.op \notin {"read", "write"} THEN Configured(h, result)
  ELSE IF (h.op = "read" /\ result = h.count) \/ (h.op = "write" /\ result >= 0)
  THEN Return(h, h.count)
  ELSE Reset(h)

\* Configure has found two bulk endpoints and set the interface.
Configure ==
  /\ umsd.pc = "inquiry"
  /\ umsd' = Command(umsd, "inquiry", FullLength("inquiry"))
  /\ UNCHANGED drive

Seek(offset) ==
  /\ umsd.pc = "idle" /\ umsd.named /\ umsd.calls < MaxCalls
  /\ offset # umsd.ullOffset
  /\ umsd' = [umsd EXCEPT !.ullOffset = offset, !.op = "none"]
  /\ UNCHANGED drive

ReadOrWrite(op, count, content) ==
  /\ umsd.pc = "idle" /\ umsd.named /\ umsd.calls < MaxCalls
  /\ umsd' = Try([umsd EXCEPT !.op = op, !.count = count, !.tries = Tries, !.calls = @ + 1,
                              !.since = drive.faults, !.unreset = IF @ = 2 THEN 1 ELSE 0,
                              !.data = IF op = "write" THEN <<content>> ELSE <<>>])
  /\ UNCHANGED drive

SendCommand ==
  /\ umsd.pc = "cbw"
  /\ \E t \in OutTransfer(umsd, drive, "command", CommandBlock(umsd), 1) :
       /\ drive' = t[1]
       /\ umsd' = IF t[2]
                  THEN [umsd EXCEPT !.pc = IF umsd.count > 0 THEN "data" ELSE "csw", !.pid.out = Toggle(@, 1)]
                  ELSE After(umsd, -1)

MoveData ==
  /\ umsd.pc = "data"
  /\ IF Incoming(umsd)
     THEN \E t \in InTransfer(umsd, drive) :
            /\ drive' = t[1]
            /\ umsd' = IF t[2] /\ Head(drive.queue).bytes <= umsd.count
                       THEN [umsd EXCEPT !.pc = "csw", !.data = Head(drive.queue).value,
                                         !.moved = Head(drive.queue).bytes,
                                         !.pid.in = Toggle(@, Blocks(Head(drive.queue).bytes))]
                       ELSE After(umsd, -1)
     ELSE \E t \in OutTransfer(umsd, drive, "data", umsd.data, Blocks(umsd.count)) :
            /\ drive' = t[1]
            /\ umsd' = IF t[2] THEN [umsd EXCEPT !.pc = "csw", !.moved = umsd.count,
                                                 !.pid.out = Toggle(@, Blocks(umsd.count))]
                       ELSE After(umsd, -1)

\* Slip: the tag of a status is not looked at.
AcceptsAnyTag(h, csw) == csw.kind = "status" /\ csw.status = "passed" /\ csw.residue = 0

Accepts(h, csw) ==
  csw.kind = "status" /\ csw.tag = h.nCWBTag /\ csw.status = "passed" /\ csw.residue = 0

ReadStatus ==
  /\ umsd.pc = "csw"
  /\ \E t \in InTransfer(umsd, drive) :
       /\ drive' = t[1]
       /\ LET csw   == Head(drive.queue)
              fits  == t[2] /\ csw.bytes <= CSWSize
              moved == IF fits THEN [umsd EXCEPT !.pid.in = Toggle(@, 1)] ELSE umsd
          IN umsd' = After(moved, IF fits /\ Accepts(umsd, csw) THEN umsd.moved ELSE -1)

-----------------------------------------------------------------------------
(* Reset: three control messages, and the endpoints start anew.  One that   *)
(* fails ends the call, whatever tries are left.                            *)

\* External: what a message does to the device.
Obeyed(d, message) ==
  IF message \notin d.obeys THEN d
  ELSE IF message = "reset" THEN [d EXCEPT !.queue = <<>>, !.writes = {}]
  ELSE [d EXCEPT !.halted = @ \ {"out"}, !.pid.out = 0]

\* Slip: the endpoints keep their data identifiers.
AgainSamePID(h) ==
  IF h.tries > 1 THEN Try([h EXCEPT !.tries = @ - 1]) ELSE Return(h, -1)

\* USBEndpointResetPID of both, and the loop of Read and Write.
Again(h) ==
  LET reset == [h EXCEPT !.pid = [in |-> 0, out |-> 0]]
  IN IF h.tries > 1 THEN Try([reset EXCEPT !.tries = @ - 1]) ELSE Return(reset, -1)

\* A message that fails may have had its effect before.  A device may also refuse one that names
\* an endpoint it does not have.
NotReset == /\ umsd.pc \in {"reset", "clear1", "clear2"}
            /\ umsd' = Return([umsd EXCEPT !.unreset = 2], -1)
            /\ \/ \E d \in {drive, Obeyed(drive, umsd.pc)} : drive' = [d EXCEPT !.faults = @ + 1]
               \/ umsd.pc # "reset" /\ umsd.pc \notin drive.obeys /\ UNCHANGED drive

ResetDevice == /\ umsd.pc = "reset"
               /\ umsd' = [umsd EXCEPT !.pc = "clear1"]
               /\ drive' = Obeyed(drive, "reset")

ClearHalt == \/ /\ umsd.pc = "clear1"
                /\ umsd' = [umsd EXCEPT !.pc = "clear2"]
                /\ drive' = Obeyed(drive, "clear1")
             \/ /\ umsd.pc = "clear2"
                /\ umsd' = Again(umsd)
                /\ drive' = Obeyed(drive, "clear2")

-----------------------------------------------------------------------------

StorageInit ==
  /\ umsd = NewObject
  /\ \E type \in {"disk", "other"}, size \in {BlockSize, 2048}, last \in {MediumBlocks - 1, -1},
        obeys \in Obedience :
       drive = NewDrive(type, size, obeys, last)

StorageNext ==
  /\ \/ Configure \/ SendCommand \/ MoveData \/ ReadStatus
     \/ NotReset \/ ResetDevice \/ ClearHalt
     \/ \E offset \in Offsets : Seek(offset)
     \/ \E count \in Counts, content \in Contents :
          ReadOrWrite("read", count, content) \/ ReadOrWrite("write", count, content)
  /\ drive'.faults <= IF "reset" \in drive.obeys THEN MaxFaults ELSE MaxStray

-----------------------------------------------------------------------------
(* Properties.                                                               *)

\* What the caller's buffer has for a block; that of a write has the same for every block.
Buffer(h, i) == IF h.op = "write" THEN h.data[1] ELSE h.data[i]

Transferred == umsd.pc = "idle" /\ umsd.op \in {"read", "write"} /\ umsd.result > 0

(***************************************************************************)
(* When Read says it has read, the buffer holds what the medium has at the *)
(* offset, and when Write says it has written, the medium has the data:    *)
(* no status or data of an earlier command, lost, late or refused, and no  *)
(* count beyond the 16 bits of the command, is taken for success.          *)
(***************************************************************************)
SuccessIsReal ==
  Transferred =>
    /\ umsd.count \div BlockSize < LengthField
    /\ \A i \in 1 .. umsd.count \div BlockSize :
         Buffer(umsd, i) = drive.medium[BlockAddress(umsd) + i - 1]

\* A device whose reset brings everything but its endpoint to the host back into step.
Resets(d) == "reset" \in d.obeys /\ d.obeys \cap {"clear1", "clear2"} # {}

\* What the device sends does not arrive: its endpoint to the host is halted, or was not at the
\* first data identifier when a reset set the host's back.
Deaf(h, d) == "in" \in d.halted \/ d.pid.in # h.pid.in

(***************************************************************************)
(* With a device that forgets the command when it is reset, and that takes *)
(* the two clear messages and has the endpoint one of them names, a call   *)
(* that could succeed fails only after four faults, or because a message   *)
(* of the reset failed, or because the endpoint to the host, which no      *)
(* message of the reset clears, was halted or left at the other data       *)
(* identifier.  It never waits for a device that has nothing to send.      *)
(* Only a call that follows a failed reset may find the device in the      *)
(* middle of something.                                                    *)
(***************************************************************************)
RetriesSuffice ==
  Resets(drive) /\ umsd.op \in {"read", "write"} /\ umsd.unreset = 0 =>
    /\ umsd.pc = "idle" /\ umsd.result < 0 /\ Aligned(umsd)
       /\ umsd.count \div BlockSize < LengthField /\ Inside(CommandBlock(umsd))
         => drive.faults - umsd.since >= Tries \/ Deaf(umsd, drive)
    /\ (umsd.pc = "data" /\ Incoming(umsd)) \/ umsd.pc = "csw"
         => drive.queue # <<>> \/ "in" \in drive.halted
=============================================================================
