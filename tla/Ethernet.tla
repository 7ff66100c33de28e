------------------------------ MODULE Ethernet ------------------------------
(***************************************************************************)
(* The two LAN adapters (lan7800.cpp, smsc951x.cpp): how Configure brings  *)
(* up the chip, register by register over control messages any of which    *)
(* may fail, and then frames and the state of the link.  The chip is       *)
(* external, and its registers decide what it does.  A register is the set *)
(* of its bits that are on.                                                *)
(***************************************************************************)
EXTENDS Integers, Sequences, SequencesExt

CONSTANTS
  WaitReads,    (* how often a register is read before giving up: 999       *)
  Lengths,      (* of the frames that are sent                              *)
  MaxFrames,    (* bound on the frames that arrive, and that are sent       *)
  MaxUnplugs    (* bound on the changes of the link                         *)

ASSUME EthernetAssumption == WaitReads \in Nat /\ Lengths \subseteq Nat

VARIABLES
  lan,  (* the object, and the call that is under way                       *)
  chip  (* the adapter, and what is on the wire                             *)

ethernetVars == <<lan, chip>>

FRAME_BUFFER_SIZE == 1600
TX_HEADER_SIZE    == 8

-----------------------------------------------------------------------------
(* The steps of a call: messages that write a register, read and write it,  *)
(* read it until bits are as wanted, or read a value.                       *)

Step(op, reg, on, off) == [op |-> op, reg |-> reg, on |-> on, off |-> off]

WriteReg(reg, on)          == Step("write", reg, on, {})
ReadWriteReg(reg, on, off) == Step("update", reg, on, off)
WaitReg(reg, on, off)      == Step("wait", reg, on, off)
ReadReg(reg)               == Step("read", reg, {}, {})

PHYNotBusy == WaitReg("MII_ADDR", {}, {"BUSY"})
\* Slip: MII_DATA is read at once.
PHYReadAtOnce(index) == <<PHYNotBusy, WriteReg("MII_ADDR", {index, "BUSY"}), ReadReg("MII_DATA")>>
PHYRead(index)  == <<PHYNotBusy, WriteReg("MII_ADDR", {index, "BUSY"}), PHYNotBusy, ReadReg("MII_DATA")>>
PHYWrite(index) == <<PHYNotBusy, WriteReg("MII_DATA", {"LEDs"}),
                     WriteReg("MII_ADDR", {index, "WRITE", "BUSY"}), PHYNotBusy>>

StartSMSC951x ==
  <<WriteReg("ADDR", {"own"}), WriteReg("LED_GPIO_CFG", {"LEDs"}),
    WriteReg("MAC_CR", {"RCVOWN", "TXEN", "RXEN"}), WriteReg("TX_CFG", {"ON"})>>

InitMACAddress == <<WriteReg("ADDR", {"own"}), WriteReg("MAF", {"own", "VALID"})>>

InitPHY == PHYRead("LED_MODE") \o PHYWrite("LED_MODE")

ResetLAN7800 ==
  <<ReadReg("ID_REV"), ReadWriteReg("HW_CFG", {"LRST"}, {}), WaitReg("HW_CFG", {}, {"LRST"})>>

InitRegisters ==
  <<WriteReg("BURST_CAP", {"24"}), WriteReg("BULK_IN_DLY", {"default"}),
    ReadWriteReg("HW_CFG", {"LEDs"}, {"MEF"}),
    ReadWriteReg("USB_CFG0", {"BCE"}, {"BIR"}),
    WriteReg("FCT_FIFO_END", {"12K"}),
    WriteReg("INT_EP_CTL", {}), WriteReg("INT_STS", {"CLEAR_ALL"}),
    WriteReg("FLOW", {}), WriteReg("FCT_FLOW", {}),
    ReadWriteReg("RFE_CTL", {"BCAST_EN", "DA_PERFECT"}, {}),
    ReadWriteReg("PMT_CTL", {"PHY_RST"}, {}), WaitReg("PMT_CTL", {"READY"}, {"PHY_RST"}),
    ReadWriteReg("MAC_CR", {"AUTO_DUPLEX", "AUTO_SPEED"}, {}),
    ReadWriteReg("MAC_TX", {"TXEN"}, {}), ReadWriteReg("FCT_TX_CTL", {"EN"}, {}),
    ReadWriteReg("MAC_RX", {"RXEN", "1518", "VLAN_FSE"}, {"0"}), ReadWriteReg("FCT_RX_CTL", {"EN"}, {})>>

StartLAN7800 == ResetLAN7800 \o InitMACAddress \o InitRegisters \o InitPHY

-----------------------------------------------------------------------------
(* The chip.                                                                *)

Registers == {"ADDR", "LED_GPIO_CFG", "MAC_CR", "TX_CFG", "MAF", "ID_REV", "HW_CFG", "BURST_CAP",
              "BULK_IN_DLY", "USB_CFG0", "FCT_FIFO_END", "INT_EP_CTL", "INT_STS", "FLOW", "FCT_FLOW",
              "RFE_CTL", "PMT_CTL", "MAC_TX", "FCT_TX_CTL", "MAC_RX", "FCT_RX_CTL", "MII_ADDR", "MII_DATA"}

\* After power up.  Either chip may start with several frames in a transfer (MEF), and with
\* transfers that wait for a frame (BIR).
PowerUp(kind, config) == [r \in Registers |->
  CASE r = "ID_REV" -> {"7800"} [] r = "PMT_CTL" -> {"READY"} [] r = "MAC_RX" -> {"0"}
    [] r = "HW_CFG" -> IF kind = "lan7800" THEN config \cap {"MEF"} ELSE config
    [] r = "USB_CFG0" -> IF kind = "lan7800" THEN config \cap {"BIR"} ELSE {}
    [] OTHER -> {}]

NewChip(kind, config) ==
  [kind |-> kind, config |-> config, regs |-> PowerUp(kind, config), link |-> "down", unplugs |-> 0,
   fifo |-> <<>>, due |-> {}, arrived |-> 0, wire |-> <<>>]

NewLan(kind) ==
  [pc |-> "configure", steps |-> IF kind = "lan7800" THEN StartLAN7800 ELSE StartSMSC951x,
   tries |-> WaitReads, named |-> FALSE, got |-> <<>>, sent |-> <<>>, links |-> {}, answer |-> "none"]

On(reg, bits) == bits \subseteq chip.regs[reg]

\* The end of what a bit that clears itself stands for.
ResetDone == /\ On("HW_CFG", {"LRST"})
             /\ chip' = [chip EXCEPT !.regs = [PowerUp(chip.kind, chip.config) EXCEPT !["ADDR"] = {}]]
             /\ UNCHANGED lan

PHYResetDone == /\ On("PMT_CTL", {"PHY_RST"})
                /\ chip' = [chip EXCEPT !.regs["PMT_CTL"] = {"READY"}]
                /\ UNCHANGED lan

PHYDone ==
  /\ On("MII_ADDR", {"BUSY"})
  /\ chip' = [chip EXCEPT !.regs["MII_ADDR"] = @ \ {"BUSY"},
                          !.regs["MII_DATA"] = IF On("MII_ADDR", {"WRITE"}) THEN @
                                               ELSE IF On("MII_ADDR", {"STATUS"}) THEN {chip.link}
                                               ELSE {"LEDs"}]
  /\ UNCHANGED lan

LinkChanges ==
  /\ chip.unplugs < MaxUnplugs
  /\ LET link == IF chip.link = "up" THEN "down" ELSE "up"
     IN /\ chip' = [chip EXCEPT !.link = link, !.unplugs = @ + 1]
        /\ lan' = [lan EXCEPT !.links = IF lan.pc = "link" THEN @ \cup {link} ELSE @]

Transmits == IF chip.kind = "lan7800" THEN On("MAC_TX", {"TXEN"}) /\ On("FCT_TX_CTL", {"EN"})
             ELSE On("MAC_CR", {"TXEN"}) /\ On("TX_CFG", {"ON"})

Receives(frame) ==
  IF chip.kind = "lan7800"
  THEN /\ On("MAC_RX", {"RXEN", "1518"}) /\ On("FCT_RX_CTL", {"EN"}) /\ On("PMT_CTL", {"READY"})
       /\ \/ frame.to = "own" /\ On("RFE_CTL", {"DA_PERFECT"}) /\ On("MAF", {"own", "VALID"})
          \/ frame.to = "all" /\ On("RFE_CTL", {"BCAST_EN"})
  ELSE On("MAC_CR", {"RXEN"}) /\ (frame.to = "all" \/ (frame.to = "own" /\ On("ADDR", {"own"})))

\* A frame for this station is due as soon as the adapter has its name.
Arrive(to, good) ==
  /\ chip.arrived < MaxFrames /\ (lan.named \/ good)
  /\ LET frame == [to |-> to, good |-> good, id |-> chip.arrived]
         wanted == lan.named /\ to \in {"own", "all"}
     IN chip' = [chip EXCEPT !.arrived = @ + 1,
                             !.fifo = IF Receives(frame) THEN Append(@, frame) ELSE @,
                             !.due = IF wanted /\ good THEN @ \cup {frame} ELSE @]
  /\ UNCHANGED lan

-----------------------------------------------------------------------------
(* Configure and IsLinkUp, one message after the other.  When one fails,    *)
(* IsLinkUp says that the link is down; here its answer is "none" then.     *)

Ends(done) ==
  CASE lan.pc = "configure" -> [lan EXCEPT !.pc = IF done THEN "idle" ELSE "failed", !.named = done,
                                           !.steps = <<>>]
    [] lan.pc = "link" -> [lan EXCEPT !.pc = "idle", !.steps = <<>>,
                                      !.answer = IF done /\ On("MII_DATA", {"up"}) THEN "up"
                                                 ELSE IF done THEN "down" ELSE "none"]

Continue(tail) == IF tail = <<>> THEN Ends(TRUE) ELSE [lan EXCEPT !.steps = tail, !.tries = WaitReads]

MessageFails == /\ lan.steps # <<>>
                /\ lan' = Ends(FALSE)
                /\ UNCHANGED chip

Write == /\ lan.steps # <<>> /\ Head(lan.steps).op = "write"
         /\ lan' = Continue(Tail(lan.steps))
         /\ chip' = [chip EXCEPT !.regs[Head(lan.steps).reg] = Head(lan.steps).on]

\* The value is read and written in two messages; in between it is the driver that has it.
Update ==
  /\ lan.steps # <<>> /\ Head(lan.steps).op = "update"
  /\ LET s == Head(lan.steps)
     IN lan' = [lan EXCEPT !.steps = <<WriteReg(s.reg, (chip.regs[s.reg] \ s.off) \cup s.on)>> \o Tail(@)]
  /\ UNCHANGED chip

Wait ==
  /\ lan.steps # <<>> /\ Head(lan.steps).op = "wait"
  /\ LET s == Head(lan.steps)
     IN lan' = IF s.on \subseteq chip.regs[s.reg] /\ s.off \cap chip.regs[s.reg] = {}
               THEN Continue(Tail(lan.steps))
               ELSE IF lan.tries = 1 THEN Ends(FALSE) ELSE [lan EXCEPT !.tries = @ - 1]
  /\ UNCHANGED chip

Read == /\ lan.steps # <<>> /\ Head(lan.steps).op = "read"
        /\ lan' = IF Head(lan.steps).reg = "ID_REV" /\ ~On("ID_REV", {"7800"}) THEN Ends(FALSE)
                  ELSE Continue(Tail(lan.steps))
        /\ UNCHANGED chip

IsLinkUp == /\ lan.pc = "idle" /\ lan.named
            /\ lan' = [lan EXCEPT !.pc = "link", !.steps = PHYRead("STATUS"), !.tries = WaitReads,
                                  !.links = {chip.link}, !.answer = "none"]
            /\ UNCHANGED chip

-----------------------------------------------------------------------------
(* Frames.                                                                  *)

TooLong(length) == IF chip.kind = "lan7800" THEN length > FRAME_BUFFER_SIZE - TX_HEADER_SIZE
                   ELSE length >= FRAME_BUFFER_SIZE - TX_HEADER_SIZE

\* The commands in front of a frame hold its length in 20 or 11 bits.
LengthSent(length) == length % (IF chip.kind = "lan7800" THEN 1048576 ELSE 2048)

\* A frame that is too long, or a transfer that fails, is not sent.
SendFrame(length) ==
  /\ lan.pc = "idle" /\ lan.named /\ Len(lan.sent) < MaxFrames
  /\ ~TooLong(length)
  /\ lan' = [lan EXCEPT !.sent = Append(@, length)]
  /\ chip' = [chip EXCEPT !.wire = IF Transmits THEN Append(@, LengthSent(length)) ELSE @]

\* What one transfer brings: one frame, or all there are.
Transfer == IF On("HW_CFG", {"MEF"}) THEN chip.fifo ELSE <<Head(chip.fifo)>>

\* A transfer waits for a frame, or comes back empty.
WaitsForFrame == On(IF chip.kind = "lan7800" THEN "USB_CFG0" ELSE "HW_CFG", {"BIR"})

\* The driver takes the first frame of a transfer, if it has no error, and asserts that there is
\* nothing behind it.
Accepted(frames) ==
  IF ~Head(frames).good THEN [lan EXCEPT !.pc = "idle"]
  ELSE [lan EXCEPT !.pc = IF Len(frames) = 1 THEN "idle" ELSE "asserts", !.got = Append(@, Head(frames))]

\* A transfer that fails takes its frame along.
ReceiveFrame(transferred) ==
  /\ lan.pc \in {"idle", "waits"} /\ lan.named
  /\ IF chip.fifo = <<>>
     THEN /\ lan' = [lan EXCEPT !.pc = IF WaitsForFrame THEN "waits" ELSE "idle"]
          /\ UNCHANGED chip
     ELSE /\ lan' = IF transferred THEN Accepted(Transfer) ELSE [lan EXCEPT !.pc = "idle"]
          /\ chip' = [chip EXCEPT !.fifo = SubSeq(@, Len(Transfer) + 1, Len(@)),
                                  !.due = IF transferred THEN @ ELSE @ \ ToSet(Transfer)]

-----------------------------------------------------------------------------

EthernetInit ==
  \E kind \in {"lan7800", "smsc951x"}, config \in SUBSET {"MEF", "BIR"} :
    /\ lan = NewLan(kind) /\ chip = NewChip(kind, config)

EthernetNext ==
  \/ MessageFails \/ Write \/ Update \/ Wait \/ Read \/ IsLinkUp
  \/ ResetDone \/ PHYResetDone \/ PHYDone \/ LinkChanges
  \/ \E to \in {"own", "all", "other"}, good \in BOOLEAN : Arrive(to, good)
  \/ \E length \in Lengths : SendFrame(length)
  \/ \E transferred \in BOOLEAN : ReceiveFrame(transferred)

-----------------------------------------------------------------------------
(* Properties.                                                              *)

\* The driver of the SMSC951x leaves HW_CFG as it finds it.
Combines  == chip.kind = "smsc951x" /\ "MEF" \in chip.config
MakesWait == chip.kind = "smsc951x" /\ "BIR" \in chip.config

(***************************************************************************)
(* An adapter that Configure has given its name works, whatever state its  *)
(* chip started in and however long its resets took: no frame reaches      *)
(* ReceiveFrame twice or out of order; every good frame for the station    *)
(* does, unless its transfer failed; every frame sent is on the wire in    *)
(* its length; a call of ReceiveFrame never waits for a frame and finds    *)
(* one frame in a transfer; and what IsLinkUp answers, unless a message    *)
(* failed, was so during the call.  Only an SMSC951x that started with     *)
(* several frames in a transfer, or with transfers that wait, keeps to     *)
(* that, and may lose frames or make a call wait.                          *)
(***************************************************************************)
EthernetWorks ==
  lan.named =>
    /\ LET frames == lan.got \o chip.fifo
       IN /\ \A i, j \in DOMAIN frames : i < j => frames[i].id < frames[j].id
          /\ Combines \/ chip.due \subseteq ToSet(frames)
    /\ \A i \in DOMAIN lan.got : lan.got[i].good /\ lan.got[i].to # "other"
    /\ chip.wire = lan.sent
    /\ lan.pc = "asserts" => Combines
    /\ lan.pc = "waits" => MakesWait
    /\ lan.pc = "idle" /\ lan.answer # "none" => lan.answer \in lan.links
=============================================================================
