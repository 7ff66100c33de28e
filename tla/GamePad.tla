------------------------------ MODULE GamePad ------------------------------
(***************************************************************************)
(* The game pad driver of usbgamepad.cpp: the report descriptor of the     *)
(* device is interpreted anew for every report.  A descriptor is its       *)
(* sequence of items, with their arguments read; a report is a sequence of *)
(* bytes.  External: a device that describes and sends its controls.       *)
(***************************************************************************)
EXTENDS Integers, Sequences, SequencesExt

CONSTANTS
  Layouts,    (* what devices there are: the controls in their reports      *)
  Bytes,      (* the bytes that reports are made of                         *)
  MaxPolls    (* bound on the reports                                       *)

VARIABLES
  pad,   (* the object, and the thread in Configure or GetReport            *)
  stick  (* the device                                                      *)

gamePadVars == <<pad, stick>>

MAX_AXIS == 6
MAX_HATS == 6
UNDEFINED == -123456789

-----------------------------------------------------------------------------
(* Bits.  A field that crosses bytes has its first byte taken for the high  *)
(* one, and its last byte whole.                                            *)

Byte(report, i) == IF i < Len(report) THEN report[i + 1] ELSE 0

\* The `or' of two numbers of n bits.
Or(a, b, n) == MapThenSumSet(LAMBDA k : 2^k, {k \in 0 .. n - 1 : 1 \in {(a \div 2^k) % 2, (b \div 2^k) % 2}})

BitGetUnsigned(report, offset, length) ==
  LET first == offset \div 8
      last  == (offset + length - 1) \div 8
      shift == offset % 8
      Part(i) == IF i = first THEN (Byte(report, i) \div 2^shift) * 2^(length - (8 - shift))
                 ELSE IF i = last THEN Byte(report, i)
                 ELSE Byte(report, i) * 2^(length - (8 - shift) - 8 * (i - first))
  IN IF first = last THEN (Byte(report, first) \div 2^shift) % 2^length
     ELSE FoldLeft(LAMBDA value, i : Or(value, Part(i), length + 8), 0, [k \in 1 .. last - first + 1 |-> first + k - 1])

BitGetSigned(report, offset, length) ==
  LET value == BitGetUnsigned(report, offset, length)
  IN IF (value \div 2^(length - 1)) % 2 = 1 THEN (value % 2^length) - 2^length ELSE value

-----------------------------------------------------------------------------
(* USBGamePadDeviceDecodeReport.                                            *)

\* m_State as the words it is made of: naxes, the axes, each with its value, minimum and maximum,
\* nhats, the hats, nbuttons and buttons.  The indices of axes and hats are bounded for every item
\* of the descriptor, but not in all, and what comes behind an array is written as well.
AxisAt(a) == 1 + 3 * a
NHatsAt == AxisAt(MAX_AXIS)
HatAt(h) == NHatsAt + 1 + h
NButtonsAt == HatAt(MAX_HATS)
ButtonsAt == NButtonsAt + 1

NewState == [w \in 0 .. ButtonsAt |-> 0]

\* Its locals; "over" when the second report of the descriptor begins, "other" when the report
\* is another one.
Start0(s) == [s |-> s, offset |-> 0, size |-> 0, count |-> 0, lmin |-> UNDEFINED, lmax |-> UNDEFINED,
              pmin |-> UNDEFINED, pmax |-> UNDEFINED, naxes |-> 0, nhats |-> 0, id |-> 0,
              state |-> "None", ended |-> "no"]

Defined(x, y) == IF x # UNDEFINED THEN x ELSE y

Lesser(a, b) == IF a < b THEN a ELSE b

Times(d, most) == [k \in 1 .. Lesser(d.count, most) |-> k - 1]

Axes(d, report) ==
  LET minimum  == Defined(d.lmin, d.pmin)
      Value(i) == IF minimum < 0 THEN BitGetSigned(report, d.offset + i * d.size, d.size)
                  ELSE BitGetUnsigned(report, d.offset + i * d.size, d.size)
      Axis(e, i) == LET at == AxisAt(e.naxes)
                    IN [e EXCEPT !.naxes = @ + 1, !.s[at] = Value(i), !.s[at + 1] = minimum,
                                 !.s[at + 2] = Defined(d.lmax, d.pmax)]
  IN FoldLeft(Axis, [d EXCEPT !.state = "GamePad"], Times(d, MAX_AXIS))

Hats(d, report) ==
  LET Hat(e, i) == [e EXCEPT !.nhats = @ + 1,
                             !.s[HatAt(e.nhats)] = BitGetUnsigned(report, d.offset + i * d.size, d.size)]
  IN FoldLeft(Hat, [d EXCEPT !.state = "GamePad"], Times(d, MAX_HATS))

Buttons(d, report) ==
  [d EXCEPT !.state = "GamePad", !.s[NButtonsAt] = d.count,
            !.s[ButtonsAt] = BitGetUnsigned(report, d.offset, d.size * d.count)]

\* Slip: a constant takes no room.
InputNoPadding(d, arg, report) ==
  IF arg # "variable" THEN d
  ELSE [(CASE d.state = "GamePadAxis" -> Axes(d, report) [] d.state = "GamePadHat" -> Hats(d, report)
           [] d.state = "GamePadButton" -> Buttons(d, report) [] OTHER -> d)
        EXCEPT !.offset = @ + d.count * d.size]

Input(d, arg, report) ==
  LET taken == IF arg # "variable" THEN d
               ELSE CASE d.state = "GamePadAxis" -> Axes(d, report)
                      [] d.state = "GamePadHat" -> Hats(d, report)
                      [] d.state = "GamePadButton" -> Buttons(d, report)
                      [] OTHER -> d
  IN [taken EXCEPT !.offset = @ + d.count * d.size]

ReportID(d, arg, report) ==
  IF d.id # 0 THEN [d EXCEPT !.ended = "over"]
  ELSE IF Byte(report, 0) \notin {0, arg} THEN [d EXCEPT !.ended = "other"]
  ELSE [d EXCEPT !.id = arg, !.offset = 8]

Usage(d, arg) ==
  CASE arg = "gamepad" -> [d EXCEPT !.state = "GamePad"]
    [] arg = "axis" /\ d.state = "GamePad" -> [d EXCEPT !.state = "GamePadAxis"]
    [] arg = "hat" /\ d.state = "GamePad" -> [d EXCEPT !.state = "GamePadHat"]
    [] OTHER -> d

Item(d, item, report) ==
  IF d.ended # "no" THEN d
  ELSE CASE item.tag = "REPORT_ID" -> ReportID(d, item.arg, report)
         [] item.tag = "USAGE_PAGE" ->
              IF item.arg = "buttons" /\ d.state = "GamePad" THEN [d EXCEPT !.state = "GamePadButton"] ELSE d
         [] item.tag = "USAGE" -> Usage(d, item.arg)
         [] item.tag = "LOGICAL_MIN" -> [d EXCEPT !.lmin = item.arg]
         [] item.tag = "LOGICAL_MAX" -> [d EXCEPT !.lmax = item.arg]
         [] item.tag = "PHYSICAL_MIN" -> [d EXCEPT !.pmin = item.arg]
         [] item.tag = "PHYSICAL_MAX" -> [d EXCEPT !.pmax = item.arg]
         [] item.tag = "REPORT_SIZE" -> [d EXCEPT !.size = item.arg]
         [] item.tag = "REPORT_COUNT" -> [d EXCEPT !.count = item.arg]
         [] item.tag = "INPUT" -> Input(d, item.arg, report)
         [] OTHER -> d

\* m_State and m_nReportSize after a report; another report leaves them as they are.
DecodeReport(p, report) ==
  LET d == FoldLeft(LAMBDA e, item : Item(e, item, report), Start0(p.m_State), p.descriptor)
  IN IF d.ended = "other" THEN [p EXCEPT !.m_State = d.s]
     ELSE [p EXCEPT !.m_State = [d.s EXCEPT ![0] = d.naxes, ![NHatsAt] = d.nhats],
                    !.m_nReportSize = (d.offset + 7) \div 8]

-----------------------------------------------------------------------------
(* The device: its descriptor, and what a report of it means.               *)

It(tag, arg) == [tag |-> tag, arg |-> arg]

\* A control: "axis", "hat", "button" or "constant"; how many, of how many bits, from what on.
Described(f) ==
  (CASE f.kind = "axis" -> <<It("USAGE", "axis"), It("LOGICAL_MIN", f.min)>>
     [] f.kind = "hat" -> <<It("USAGE", "hat"), It("PHYSICAL_MAX", 315)>>
     [] f.kind = "button" -> <<It("USAGE_PAGE", "buttons")>>
     [] f.kind = "constant" -> <<>>)
  \o <<It("LOGICAL_MAX", 2^f.size - 1 + f.min), It("REPORT_SIZE", f.size), It("REPORT_COUNT", f.count),
       It("INPUT", IF f.kind = "constant" THEN "constant" ELSE "variable"), It("USAGE_PAGE", "desktop")>>

\* A device with two reports numbers them 1 and 2; the second has bytes of its own.
Descriptor(layout) ==
  <<It("USAGE_PAGE", "desktop"), It("USAGE", "gamepad"), It("COLLECTION", 1)>>
  \o (IF layout.reports = 2 THEN <<It("REPORT_ID", 1)>> ELSE <<>>)
  \o FlattenSeq([i \in DOMAIN layout.fields |-> Described(layout.fields[i])])
  \o (IF layout.reports = 2
      THEN <<It("REPORT_ID", 2), It("USAGE", "axis"), It("REPORT_SIZE", 8), It("INPUT", "variable")>> ELSE <<>>)
  \o <<It("END_COLLECTION", 0)>>

Room(f) == f.count * f.size
Header(layout) == IF layout.reports = 2 THEN 8 ELSE 0
OffsetOf(layout, i) == Header(layout) + FoldLeft(LAMBDA n, f : n + Room(f), 0, SubSeq(layout.fields, 1, i - 1))
Length(layout) == OffsetOf(layout, Len(layout.fields) + 1) \div 8

\* The reports the device may send.
Reports(layout) ==
  {IF layout.reports = 2 THEN <<id>> \o bytes ELSE bytes :
     id \in {1, 2}, bytes \in [1 .. Length(layout) - (Header(layout) \div 8) -> Bytes]}

\* The controls of a kind, each with where it is in the report.
Controls(layout, kind) ==
  FlattenSeq([i \in DOMAIN layout.fields |->
    LET f == layout.fields[i]
    IN IF f.kind = kind THEN [k \in 1 .. f.count |-> [f |-> f, offset |-> OffsetOf(layout, i) + (k - 1) * f.size]]
       ELSE <<>>])

\* No more than m_State has room for, were it one array.
ASSUME GamePadAssumption ==
  \A layout \in Layouts : Len(Controls(layout, "axis")) <= 9 /\ Len(Controls(layout, "hat")) <= 8

\* What a control says, from the report as one number.
Number(report) == FoldLeft(LAMBDA n, b : 256 * n + b, 0, Reverse(report))

ValueOf(report, c) ==
  LET bits == (Number(report) \div 2^c.offset) % 2^c.f.size
  IN IF c.f.min < 0 /\ bits >= 2^(c.f.size - 1) THEN bits - 2^c.f.size ELSE bits

-----------------------------------------------------------------------------
(* The driver.                                                              *)

NewPad == [pc |-> "descriptor", descriptor |-> <<>>, m_State |-> NewState, m_nReportSize |-> 0,
           named |-> FALSE, running |-> FALSE, handler |-> FALSE, handed |-> 0]

\* The descriptor is read, and interpreted to see whether it is one of a game pad; what else
\* the report buffer holds matters to nobody.
GetDescriptor(done) ==
  /\ pad.pc = "descriptor"
  /\ LET p == DecodeReport([pad EXCEPT !.descriptor = Descriptor(stick.layout)], <<0>>)
     IN pad' = IF done /\ \E w \in {0, NHatsAt, NButtonsAt} : p.m_State[w] # 0
               THEN [p EXCEPT !.pc = "start"] ELSE [pad EXCEPT !.pc = "failed"]
  /\ UNCHANGED stick

\* The interface is set and the device gets its name, before the first request is started; the
\* two messages that a PS3 controller wants may fail.
Begin(started) ==
  /\ pad.pc = "start"
  /\ pad' = [pad EXCEPT !.pc = IF started THEN "idle" ELSE "failed", !.named = TRUE, !.running = started]
  /\ UNCHANGED stick

RegisterStatusHandler == /\ pad.pc = "idle" /\ ~pad.handler
                         /\ pad' = [pad EXCEPT !.handler = TRUE]
                         /\ UNCHANGED stick

\* Of two reports, the first is the one with the controls the driver knows.
First(report) == stick.layout.reports = 2 => report[1] = 1

\* A report that comes in; without a handler nobody looks at it.
Polled(report, received, restarted) ==
  /\ pad.running /\ stick.polls < MaxPolls
  /\ LET p == IF received /\ pad.handler
              THEN [DecodeReport(pad, report) EXCEPT !.handed = @ + 1] ELSE pad
     IN pad' = [p EXCEPT !.running = restarted]
  /\ stick' = [stick EXCEPT !.polls = @ + 1, !.last = IF received /\ pad.handler /\ First(report) THEN report ELSE @]

GetReport(report) ==
  /\ pad.pc = "idle" /\ stick.polls < MaxPolls
  /\ pad' = DecodeReport(pad, report)
  /\ stick' = [stick EXCEPT !.polls = @ + 1, !.last = IF First(report) THEN report ELSE @]

GamePadInit == pad = NewPad /\ \E layout \in Layouts : stick = [layout |-> layout, polls |-> 0, last |-> <<>>]

GamePadNext ==
  \/ \E done \in BOOLEAN : GetDescriptor(done) \/ Begin(done)
  \/ RegisterStatusHandler
  \/ \E report \in Reports(stick.layout) :
       \/ \E received, restarted \in BOOLEAN : Polled(report, received, restarted)
       \/ GetReport(report)

-----------------------------------------------------------------------------
(* Properties.                                                              *)

InByte(offset, size) == offset \div 8 = (offset + size - 1) \div 8

ButtonsOf(values) == FoldLeft(LAMBDA n, b : 2 * n + b, 0, Reverse(values))

(***************************************************************************)
(* What the driver makes of a report is what the device means by it: the   *)
(* number of axes and hats, and every axis with its sign, every hat and    *)
(* all buttons that lie within a byte, whatever controls, constants and    *)
(* report numbers come before; and a report of another number changes      *)
(* nothing but is asked for at the length of the first.  (A control that   *)
(* crosses bytes is not read as it is sent, and the hats and the buttons   *)
(* need axes that fit into their array.)                                   *)
(***************************************************************************)
ReportIsDecoded ==
  pad.pc = "idle" =>
    LET axes    == Controls(stick.layout, "axis")
        hats    == Controls(stick.layout, "hat")
        buttons == Controls(stick.layout, "button")
        Reads(at, c) == InByte(c.offset, c.f.size) => pad.m_State[at] = ValueOf(stick.last, c)
    IN /\ pad.m_nReportSize = Length(stick.layout)
       /\ pad.m_State[0] = Len(axes) /\ pad.m_State[NHatsAt] = Len(hats)
       /\ stick.last # <<>> =>
            /\ \A a \in 1 .. Lesser(Len(axes), MAX_AXIS) : Reads(AxisAt(a - 1), axes[a])
            /\ Len(axes) <= MAX_AXIS /\ Len(hats) <= MAX_HATS =>
                 /\ \A h \in DOMAIN hats : Reads(HatAt(h - 1), hats[h])
                 /\ buttons # <<>> /\ InByte(buttons[1].offset, Len(buttons)) =>
                      pad.m_State[ButtonsAt] = ButtonsOf([b \in DOMAIN buttons |-> ValueOf(stick.last, buttons[b])])
=============================================================================
