---------------------------- MODULE UsbKeyboard ----------------------------
(***************************************************************************)
(* The keyboard driver of usbkeyboard.cpp between a keyboard, external,    *)
(* whose keys are pressed and released and whose reports may be lost, and  *)
(* the handlers of the kernel.  The completion routine runs in the         *)
(* interrupt, the LEDs are set by a thread.                                *)
(***************************************************************************)
EXTENDS KeyMap, Sequences, SequencesExt

CONSTANTS
  KeyCodes,     (* the keys that are pressed                                *)
  HandlerSets,  (* the handlers a kernel may register: a set of "key",
                   "console", "shutdown" and "raw"                          *)
  Chords,       (* the sets of modifiers that are held down                 *)
  MaxHeld,      (* bound on the keys held at once                           *)
  MaxPresses,   (* bound on the keys pressed                                *)
  MaxReports    (* bound on the reports the keyboard has not sent yet       *)

\* No key has the code 0.
ASSUME KeyCodesAssumption == KeyCodes \subseteq Nat \ {0}

VARIABLES
  kbd,   (* the object, and the thread in Configure or UpdateLEDs           *)
  keys   (* the keyboard, and what was pressed and typed                    *)

keyboardVars == <<kbd, keys>>

NewKeyboard ==
  [pc |-> "protocol", named |-> FALSE, running |-> FALSE, handlers |-> {},
   m_ucLastPhyCode |-> 0, m_ucLastLEDStatus |-> {}, locks |-> {"NumLock"}, setting |-> {}]

\* A keyboard that reports keys in the order they were pressed.
NewKeys ==
  [held |-> <<>>, modifiers |-> {}, reports |-> <<>>, leds |-> {},
   presses |-> 0, expected |-> <<>>, typed |-> <<>>, locks |-> {"NumLock"},
   tidy |-> TRUE, refused |-> FALSE, unseen |-> TRUE]

-----------------------------------------------------------------------------
(* Configure.                                                                *)

SetProtocol(done) ==
  /\ kbd.pc = "protocol"
  /\ kbd' = [kbd EXCEPT !.pc = IF done THEN "firstLEDs" ELSE "failed"]
  /\ UNCHANGED keys

\* USBKeyboardDeviceSetLEDs: whether the message is taken or not, nobody looks.
SetLEDs(mask, done) ==
  IF done THEN [keys EXCEPT !.leds = mask] ELSE [keys EXCEPT !.refused = TRUE]

FirstLEDs(done) ==
  /\ kbd.pc = "firstLEDs"
  /\ keys' = SetLEDs(kbd.m_ucLastLEDStatus, done)
  /\ kbd' = [kbd EXCEPT !.pc = "start"]

\* The device has its name before the first request is started, and keeps it if that fails.
Start(started) ==
  /\ kbd.pc = "start"
  /\ kbd' = [kbd EXCEPT !.pc = IF started THEN "idle" ELSE "failed", !.named = TRUE, !.running = started]
  /\ UNCHANGED keys

\* The kernel registers its handlers before anybody types.
Register(handlers) ==
  /\ kbd.pc = "idle" /\ kbd.handlers = {}
  /\ keys.presses = 0
  /\ kbd' = [kbd EXCEPT !.handlers = handlers]
  /\ UNCHANGED keys

-----------------------------------------------------------------------------
(* The keyboard.  What a press should do is written down when it happens,   *)
(* by the locks as they are after the keys pressed before.                  *)

HandlerOf(typed) == CASE typed[1] = "SelectConsole" -> "console" [] typed[1] = "Shutdown" -> "shutdown"
                      [] OTHER -> "key"

\* What is on a US keyboard: a letter is a capital when either Shift or Caps Lock says so, the
\* keypad has digits when Num Lock is on.
Meant(code, modifiers, locks) ==
  LET capital == ("Shift" \in modifiers) # ("CapsLock" \in locks)
  IN CASE code \in Letters /\ modifiers \subseteq {"Shift"} ->
            <<IF capital THEN "upper" ELSE "lower", code - 3>>
       [] code \in Letters /\ modifiers = {"Ctrl"} -> <<"control", code - 3>>
       [] code \in DOMAIN KeypadMoves /\ modifiers \subseteq {"Shift"} ->
            IF "NumLock" \in locks THEN <<"keypad", code - 88>> ELSE Special(KeypadMoves[code])
       [] code \in Function /\ modifiers = {"Alt"} -> <<"SelectConsole", code - 57>>
       [] code = 76 /\ modifiers = {"Ctrl", "Alt"} -> Special("Shutdown")
       [] OTHER -> StringOf(Translate(code, modifiers, "NumLock" \in locks), modifiers, "CapsLock" \in locks)

\* The lock that is on a key: Num Lock heeds no Shift and no AltGr, Caps Lock no Shift.
LockOn(code, modifiers) ==
  IF AnyOf(modifiers, {"Alt", "Win"}) THEN None
  ELSE CASE code = 83 -> Special("NumLock")
         [] code = 57 /\ "AltGr" \notin modifiers -> Special("CapsLock")
         [] code = 71 /\ ~AnyOf(modifiers, {"AltGr", "Shift"}) -> Special("ScrollLock")
         [] OTHER -> None

Heard(typed) == typed # None /\ HandlerOf(typed) \in kbd.handlers /\ "raw" \notin kbd.handlers

Report(k) == [k EXCEPT !.reports = Append(@, [modifiers |-> k.modifiers, held |-> k.held])]

Press(code) ==
  /\ kbd.running /\ keys.presses < MaxPresses /\ Len(keys.held) < MaxHeld
  /\ code \notin ToSet(keys.held) /\ Len(keys.reports) < MaxReports
  /\ LET meant    == Meant(code, keys.modifiers, keys.locks)
         switches == IF "raw" \in kbd.handlers THEN None ELSE LockOn(code, keys.modifiers)
     IN keys' = Report([keys EXCEPT !.held = Append(@, code),
                                    !.presses = @ + 1,
                                    !.expected = IF Heard(meant) THEN Append(@, meant) ELSE @,
                                    !.locks = Switched(@, switches)])
  /\ UNCHANGED kbd

\* A key released before one that was pressed earlier makes the driver see the earlier one again.
Release(i) ==
  /\ i \in DOMAIN keys.held /\ Len(keys.reports) < MaxReports
  /\ keys' = Report([keys EXCEPT !.held = RemoveAt(@, i), !.tidy = @ /\ i = 1])
  /\ UNCHANGED kbd

Hold(modifiers) ==
  /\ kbd.running /\ keys.presses < MaxPresses
  /\ modifiers # keys.modifiers /\ Len(keys.reports) < MaxReports
  /\ keys' = Report([keys EXCEPT !.modifiers = modifiers])
  /\ UNCHANGED kbd

-----------------------------------------------------------------------------
(* USBKeyboardDeviceCompletionRoutine.                                       *)

GetKeyCode(report) == IF report.held = <<>> THEN 0 ELSE Last(report.held)

\* Slip: a repeated report is not told from a new key.
GenerateAlways(report) == GetKeyCode(report)

NewKeyCode(report) ==
  IF GetKeyCode(report) = kbd.m_ucLastPhyCode THEN 0 ELSE GetKeyCode(report)

\* USBKeyboardDeviceGenerateKeyEvent.
KeyEvent(code, modifiers) ==
  LET logical == Translate(code, modifiers, "NumLock" \in kbd.locks)
      typed   == IF logical[1] \in {"SelectConsole", "Shutdown"} THEN logical
                 ELSE StringOf(logical, modifiers, "CapsLock" \in kbd.locks)
  IN IF code # 0 /\ Heard(typed) THEN <<typed>> ELSE <<>>

Completed(received, restarted) ==
  /\ kbd.running /\ keys.reports # <<>>
  /\ LET report  == Head(keys.reports)
         code    == NewKeyCode(report)
         logical == IF code = 0 THEN None ELSE Translate(code, report.modifiers, "NumLock" \in kbd.locks)
         rest    == [keys EXCEPT !.reports = Tail(@)]
     IN IF ~received
        THEN /\ keys' = [rest EXCEPT !.tidy = FALSE]
             /\ kbd' = [kbd EXCEPT !.running = restarted]
        ELSE IF "raw" \in kbd.handlers
        THEN /\ keys' = rest
             /\ kbd' = [kbd EXCEPT !.running = restarted]
        ELSE /\ keys' = [rest EXCEPT !.typed = @ \o KeyEvent(code, report.modifiers),
                                     !.unseen = @ \/ SwitchesOf(logical) # {}]
             /\ kbd' = [kbd EXCEPT !.m_ucLastPhyCode = GetKeyCode(report),
                                   !.locks = Switched(@, logical), !.running = restarted]

-----------------------------------------------------------------------------
(* USBKeyboardDeviceUpdateLEDs, of a thread: the interrupt may come while   *)
(* the message is under way.                                                *)

UpdateLEDs ==
  /\ kbd.pc = "idle"
  /\ kbd' = IF kbd.locks # kbd.m_ucLastLEDStatus THEN [kbd EXCEPT !.pc = "leds", !.setting = kbd.locks]
            ELSE kbd
  /\ keys' = [keys EXCEPT !.unseen = FALSE]

\* Slip: the status is read again after the message.
StatusAfter == kbd.locks

StatusSet == kbd.setting

LEDsSet(done) ==
  /\ kbd.pc = "leds"
  /\ keys' = SetLEDs(kbd.setting, done)
  /\ kbd' = [kbd EXCEPT !.pc = "idle", !.m_ucLastLEDStatus = StatusSet, !.setting = {}]

-----------------------------------------------------------------------------

KeyboardInit == kbd = NewKeyboard /\ keys = NewKeys

KeyboardNext ==
  \/ \E done \in BOOLEAN : SetProtocol(done) \/ FirstLEDs(done) \/ Start(done) \/ LEDsSet(done)
  \/ \E handlers \in HandlerSets : Register(handlers)
  \/ \E code \in KeyCodes : Press(code)
  \/ \E i \in 1 .. MaxHeld : Release(i)
  \/ \E modifiers \in Chords : Hold(modifiers)
  \/ \E received, restarted \in BOOLEAN : Completed(received, restarted)
  \/ UpdateLEDs

-----------------------------------------------------------------------------
(* Properties.                                                               *)

(***************************************************************************)
(* What is typed is what was pressed, once and in order, whatever is held  *)
(* down with it, and the locks of the driver are the locks the user sees:  *)
(* as long as no report is lost, and keys are released in the order they   *)
(* were pressed.                                                           *)
(***************************************************************************)
TypedIsPressed ==
  keys.tidy =>
    /\ IsPrefix(keys.typed, keys.expected)
    /\ keys.reports = <<>> => keys.typed = keys.expected /\ kbd.locks = keys.locks

(***************************************************************************)
(* After UpdateLEDs the LEDs show the locks, also when the interrupt turns *)
(* a lock while the message is under way (then after the next UpdateLEDs), *)
(* unless the keyboard refused a message.                                  *)
(***************************************************************************)
LedsFollowLocks ==
  kbd.pc = "idle" /\ ~keys.refused /\ ~keys.unseen => keys.leds = kbd.locks
=============================================================================
