------------------------------- MODULE KeyMap -------------------------------
(***************************************************************************)
(* The key map of the keyboard driver (keymap.cpp, keymap/keymap_us.h):    *)
(* from the code of a key and the modifiers to what is typed.  A logical   *)
(* code is a kind and a number; characters beyond the letters are not told *)
(* apart further than by key and table.                                    *)
(***************************************************************************)
EXTENDS Integers

None == <<"none", 0>>

\* The tables K_NORMTAB, K_SHIFTTAB, K_ALTTAB and K_ALTSHIFTTAB.
Normal == 1
Shifted == 2
Alt == 3
AltShifted == 4

Sign(code, table) == <<"sign", 4 * code + table>>
Special(name) == <<name, 0>>

Letters  == 4 .. 29
Signs    == (30 .. 39) \cup (45 .. 56) \cup {100}
Function == 58 .. 69
Keypad   == 83 .. 99  \* KEYPAD_FIRST .. KEYPAD_LAST

\* The rows of the table that have nothing for AltGr, or nothing for AltGr and Shift.
NoAlt      == {5, 9, 10, 11, 13, 14, 25, 27, 38, 39, 50, 53, 55, 100}
NoAltShift == NoAlt \cup {16, 21, 31, 32, 34, 35, 36, 37, 45, 47, 48, 56}

Editing == [c \in 40 .. 44 |-> <<"Return", "Escape", "Backspace", "Tabulator", "Space">>[c - 39]]
Moving == [c \in 70 .. 82 |->
  <<"PrintScreen", "ScrollLock", "Pause", "Insert", "Home", "PageUp", "Delete", "End", "PageDown",
    "Right", "Left", "Down", "Up">>[c - 69]]
Operators == [c \in 83 .. 88 |->
  <<"NumLock", "Divide", "Multiply", "Subtract", "Add", "Enter">>[c - 82]]
KeypadMoves == [c \in 89 .. 99 |->
  <<"End", "Down", "PageDown", "Left", "Center", "Right", "Home", "Up", "PageUp", "Insert",
    "Delete">>[c - 88]]

\* s_DefaultMap: what a key means in a table.
Entry(code, table) ==
  IF code \in Letters \cup Signs
  THEN IF (table = Alt /\ code \in NoAlt) \/ (table = AltShifted /\ code \in NoAltShift) THEN None
       ELSE IF code \in Letters /\ table = Normal THEN <<"lower", code - 3>>
       ELSE IF code \in Letters /\ table = Shifted THEN <<"upper", code - 3>>
       ELSE Sign(code, table)
  ELSE IF table \in {Alt, AltShifted} THEN None
  ELSE CASE code \in DOMAIN Editing -> Special(Editing[code])
         [] code = 57 -> Special("CapsLock")
         [] code = 101 -> Special("Application")
         [] code \in DOMAIN Operators -> Special(Operators[code])
         [] code \in DOMAIN KeypadMoves ->
              IF table = Normal THEN Special(KeypadMoves[code]) ELSE <<"keypad", code - 88>>
         [] table = Normal /\ code \in Function -> <<"F", code - 57>>
         [] table = Normal /\ code \in DOMAIN Moving -> Special(Moving[code])
         [] OTHER -> None

\* The keys without a string in s_KeyStrings.
Silent == {None, <<"F", 10>>, <<"F", 11>>, <<"F", 12>>} \cup
          {Special(n) : n \in {"Application", "CapsLock", "PrintScreen", "ScrollLock", "Pause", "NumLock"}}

AnyOf(modifiers, set) == modifiers \cap set # {}

TableFor(code, modifiers, numLock) ==
  IF code \in Keypad THEN (IF numLock THEN Shifted ELSE Normal)
  ELSE IF "AltGr" \in modifiers THEN (IF "Shift" \in modifiers THEN AltShifted ELSE Alt)
  ELSE IF "Shift" \in modifiers THEN Shifted ELSE Normal

\* KeyMapTranslate, without the change of the locks: an action, or a logical code.
Translate(code, modifiers, numLock) ==
  LET norm == Entry(code, Normal)
  IN IF norm = Special("Delete") /\ {"Ctrl", "Alt"} \subseteq modifiers THEN Special("Shutdown")
     ELSE IF code \in Function /\ "Alt" \in modifiers THEN <<"SelectConsole", norm[2]>>
     ELSE IF AnyOf(modifiers, {"Alt", "Win"}) THEN None
     ELSE Entry(code, TableFor(code, modifiers, numLock))

Locks == {"CapsLock", "NumLock", "ScrollLock"}

SwitchesOf(logical) == {l \in Locks : logical = Special(l)}

Switched(locks, logical) == (locks \ SwitchesOf(logical)) \cup (SwitchesOf(logical) \ locks)

\* KeyMapGetString: letters know Ctrl and Caps Lock.
StringOf(logical, modifiers, capsLock) ==
  IF logical \in Silent THEN None
  ELSE IF logical[1] \notin {"lower", "upper", "sign"} THEN logical
  ELSE IF "Ctrl" \in modifiers THEN (IF logical[1] = "lower" THEN <<"control", logical[2]>> ELSE None)
  ELSE IF capsLock /\ logical[1] = "lower" THEN <<"upper", logical[2]>>
  ELSE IF capsLock /\ logical[1] = "upper" THEN <<"lower", logical[2]>>
  ELSE logical
=============================================================================
